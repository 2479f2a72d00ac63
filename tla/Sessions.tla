------------------------------- MODULE Sessions -------------------------------
(***************************************************************************)
(* Who may use the dashboard: the login handler with its rate limiter, the *)
(* session check of every request, logging out, and the live stream, which *)
(* checks its session when it opens and on each ping                       *)
(* (server/src/api/routes.ts, auth/ and security/rateLimit.ts).            *)
(*                                                                         *)
(* Tokens are stateless and stay with the clients: every one ever issued   *)
(* can be presented at any time.  A signature that does not fit never gets *)
(* further and is not modelled.  A login waits for bcrypt, everything else *)
(* is one step.                                                            *)
(***************************************************************************)
EXTENDS Integers, FiniteSets

CONSTANTS User, Ip,
          Slot,         \* logins that can be waiting for bcrypt at a time
          Stream,       \* live streams that can be open at a time
          MaxAttempts,  \* loginMaxAttempts
          Window,       \* of the login limiter
          CacheTtl,     \* of the answer whether a user is active
          PingEvery,    \* interval of the pings of a stream
          SessionTtl,   \* in seconds ...
          Second,       \* ... of so many milliseconds
          MaxTime,      \* the last time of a behaviour
          MaxTokens     \* tokens there can be, old ones included

ASSUME SessionsAssumption ==
    /\ IsFiniteSet(Slot)
    /\ MaxAttempts \in Nat \ {0} /\ Window \in Nat \ {0}
    /\ CacheTtl \in Nat \ {0} /\ PingEvery \in Nat \ {0}
    /\ SessionTtl \in Nat \ {0} /\ Second \in Nat \ {0}
    /\ MaxTime \in Nat /\ MaxTokens \in Nat

VARIABLES
    now,      \* the clock, in milliseconds; 0 is long ago
    active,   \* NPM: the user exists and is enabled
    revoked,  \* session_revocation: the cut-off of a user, -1 without one
    tokens,   \* the tokens issued
    cache,    \* makeActiveUserCheck: the answer and until when it holds
    hits,     \* RateLimiter.#hits
    logins,   \* the logins waiting for bcrypt
    streams,  \* the open streams: their token, and when it was checked last
    turned,   \* when the user was last enabled or disabled (history)
    ended     \* the tokens there were at a logout of their user, and when (history)

worldVars == <<active, turned>>
storeVars == <<revoked, tokens, ended>>
vars == <<now, worldVars, storeVars, cache, hits, logins, streams>>

Token == [user : User, iat : Nat, exp : Nat]

NoHits == [count |-> 0, resetAt |-> 0]
NoAnswer == [active |-> FALSE, until |-> 0]
NoLogin == [on |-> FALSE]
Closed == [open |-> FALSE]
Waiting(ip, u, ok) == [on |-> TRUE, ip |-> ip, user |-> u, ok |-> ok]
Opened(t) == [open |-> TRUE, token |-> t, checked |-> now]

\* The issue time in whole seconds, rounded up.
MintRounded(u, at) ==
    [user |-> u, iat |-> (at \div Second + 1) * Second, exp |-> at \div Second + SessionTtl]

\* createToken: iat is in milliseconds, exp in seconds.
Mint(u, at) == [user |-> u, iat |-> at, exp |-> at \div Second + SessionTtl]

\* Tokens minted before revocation existed have no iat, which counts as 0.
Init ==
    /\ now = 1
    /\ active \in [User -> BOOLEAN]
    /\ revoked = [u \in User |-> -1]
    /\ tokens \in SUBSET {[user |-> u, iat |-> 0, exp |-> SessionTtl] : u \in User}
    /\ cache = [u \in User |-> NoAnswer]
    /\ hits = [ip \in Ip |-> NoHits]
    /\ logins = [k \in Slot |-> NoLogin]
    /\ streams = [s \in Stream |-> Closed]
    /\ turned = [u \in User |-> 0]
    /\ ended = {}

-----------------------------------------------------------------------------
(* The session check.                                                      *)

Deadline(t) == t.exp * Second
Expired(t) == Deadline(t) < now

\* A token of the very millisecond of the logout stays valid.
RevokedBefore(t) == t.iat < revoked[t.user]
Revoked(t) == t.iat <= revoked[t.user]

CacheHit(u) == cache[u].until > now
IsActiveUser(u) == IF CacheHit(u) THEN cache[u].active ELSE active[u]

\* An answer that is used is kept for longer.
CacheSliding(u) == [cache EXCEPT ![u] = [active |-> IsActiveUser(u), until |-> now + CacheTtl]]
CacheAfter(u) ==
    IF CacheHit(u) THEN cache
    ELSE [cache EXCEPT ![u] = [active |-> active[u], until |-> now + CacheTtl]]

Accepted(t) == ~Expired(t) /\ ~Revoked(t) /\ IsActiveUser(t.user)

\* validSession asks for the user last, so a token that fails before leaves the
\* cache alone.
CheckSession(t) ==
    cache' = IF Expired(t) \/ Revoked(t) THEN cache ELSE CacheAfter(t.user)

\* Any request of the API, accepted or not, that changes nothing else here.
Request(t) ==
    /\ CheckSession(t)
    /\ UNCHANGED <<now, worldVars, storeVars, hits, logins, streams>>

\* POST /api/logout
Logout(t) ==
    /\ Accepted(t)
    /\ CheckSession(t)
    /\ revoked' = [revoked EXCEPT ![t.user] = now]
    /\ ended' = ended \cup {[token |-> o, at |-> now] : o \in {p \in tokens : p.user = t.user}}
    /\ UNCHANGED <<now, worldVars, tokens, hits, logins, streams>>

-----------------------------------------------------------------------------
(* The live stream.                                                        *)

\* GET /api/stream
OpenStream(s, t) ==
    /\ streams[s] = Closed
    /\ Accepted(t)
    /\ CheckSession(t)
    /\ streams' = [streams EXCEPT ![s] = Opened(t)]
    /\ UNCHANGED <<now, worldVars, storeVars, hits, logins>>

PingDue(s) == streams[s].open /\ now - streams[s].checked = PingEvery

\* A ping that only keeps the connection.
PingUnchecked(s) ==
    /\ PingDue(s)
    /\ streams' = [streams EXCEPT ![s].checked = now]
    /\ UNCHANGED <<now, worldVars, storeVars, cache, hits, logins>>

\* The interval of the stream: an invalid session has it closed.
Ping(s) ==
    /\ PingDue(s)
    /\ LET t == streams[s].token IN
         /\ CheckSession(t)
         /\ streams' = [streams EXCEPT ![s] = IF Accepted(t) THEN Opened(t) ELSE Closed]
    /\ UNCHANGED <<now, worldVars, storeVars, hits, logins>>

\* The client goes away.
CloseStream(s) ==
    /\ streams[s].open
    /\ streams' = [streams EXCEPT ![s] = Closed]
    /\ UNCHANGED <<now, worldVars, storeVars, cache, hits, logins>>

-----------------------------------------------------------------------------
(* Logging in.                                                             *)

\* One attempt more than the limit.
LimitedPast(ip) == hits[ip].count > MaxAttempts /\ now < hits[ip].resetAt
Limited(ip) == hits[ip].count >= MaxAttempts /\ now < hits[ip].resetAt

\* isLimited() forgets a window that is over.
Unexpired(ip) == IF now >= hits[ip].resetAt THEN NoHits ELSE hits[ip]

\* record(): one more failure, in a new window if there is none.
Recorded(ip) ==
    IF now >= hits[ip].resetAt THEN [count |-> 1, resetAt |-> now + Window]
    ELSE [hits[ip] EXCEPT !.count = @ + 1]

\* POST /api/login up to the wait for bcrypt: the user was looked up, and right
\* says whether the password is.
StartLogin(k, ip, u, right) ==
    /\ logins[k] = NoLogin
    /\ ~Limited(ip)
    /\ hits' = [hits EXCEPT ![ip] = Unexpired(ip)]
    /\ logins' = [logins EXCEPT ![k] = Waiting(ip, u, right /\ active[u])]
    /\ UNCHANGED <<now, worldVars, storeVars, cache, streams>>

\* bcrypt has answered: a cookie, or a failure for the limiter.
FinishLogin(k) ==
    /\ logins[k].on
    /\ LET l == logins[k] IN
         IF l.ok
           THEN /\ Cardinality(tokens) < MaxTokens
                /\ tokens' = tokens \cup {Mint(l.user, now)}
                /\ hits' = [hits EXCEPT ![l.ip] = NoHits]
           ELSE /\ hits' = [hits EXCEPT ![l.ip] = Recorded(l.ip)]
                /\ UNCHANGED tokens
    /\ logins' = [logins EXCEPT ![k] = NoLogin]
    /\ UNCHANGED <<now, worldVars, revoked, ended, cache, streams>>

-----------------------------------------------------------------------------
\* An NPM administrator disables, deletes or enables a user.
UserChanges(u) ==
    /\ active' = [active EXCEPT ![u] = ~@]
    /\ turned' = [turned EXCEPT ![u] = now]
    /\ UNCHANGED <<now, storeVars, cache, hits, logins, streams>>

\* The process ends and starts again: what is not in the database is gone.
Restart ==
    /\ cache' = [u \in User |-> NoAnswer]
    /\ hits' = [ip \in Ip |-> NoHits]
    /\ logins' = [k \in Slot |-> NoLogin]
    /\ streams' = [s \in Stream |-> Closed]
    /\ UNCHANGED <<now, worldVars, storeVars>>

\* Time goes on; the event loop fires a ping that is due before it does.
Tick ==
    /\ now < MaxTime
    /\ \A s \in Stream : ~PingDue(s)
    /\ now' = now + 1
    /\ UNCHANGED <<worldVars, storeVars, cache, hits, logins, streams>>

Next ==
    \/ \E t \in tokens : Request(t) \/ Logout(t) \/ \E s \in Stream : OpenStream(s, t)
    \/ \E s \in Stream : Ping(s) \/ CloseStream(s)
    \/ \E k \in Slot :
         \/ \E ip \in Ip, u \in User, right \in BOOLEAN : StartLogin(k, ip, u, right)
         \/ FinishLogin(k)
    \/ \E u \in User : UserChanges(u)
    \/ Restart
    \/ Tick

Spec == Init /\ [][Next]_vars

-----------------------------------------------------------------------------
\* The variables have their types, and no time on record is of the future.
TypeOK ==
    /\ now \in Nat
    /\ active \in [User -> BOOLEAN]
    /\ revoked \in [User -> Nat \cup {-1}] /\ \A u \in User : revoked[u] <= now
    /\ tokens \subseteq Token /\ \A t \in tokens : t.iat <= now
    /\ cache \in [User -> [active : BOOLEAN, until : Nat]]
    /\ hits \in [Ip -> [count : Nat, resetAt : Nat]]
    /\ logins \in [Slot -> [on : {TRUE}, ip : Ip, user : User, ok : BOOLEAN] \cup {NoLogin}]
    /\ streams \in [Stream -> [open : {TRUE}, token : Token, checked : Nat] \cup {Closed}]
    /\ \A s \in Stream : streams[s].open => streams[s].checked <= now
    /\ turned \in [User -> Nat] /\ \A u \in User : turned[u] <= now
    /\ ended \subseteq [token : Token, at : Nat]

\* A token that existed at a logout of its user is never accepted again, through
\* logins that overtake the logout and through restarts (revocation.ts: "ends
\* every session that user has, on every device").
LogoutSticks == \A e \in ended : ~Accepted(e.token)

\* A request is accepted only for a user who is enabled, or was less than the
\* cache time ago (makeActiveUserCheck).
DisabledIsOut ==
    \A t \in tokens : Accepted(t) => active[t.user] \/ now - turned[t.user] < CacheTtl

\* A user who is enabled again is kept out by the cache no longer than that.
EnabledIsIn ==
    \A t \in tokens :
        ~Expired(t) /\ ~Revoked(t) /\ ~Accepted(t)
            => ~active[t.user] \/ now - turned[t.user] < CacheTtl

\* An open stream outlives its session by one ping interval at most: the end of
\* its token, a logout on any device, and the disabling of its user, which the
\* cache hides for its time as well.
StreamEnds ==
    \A s \in Stream : streams[s].open =>
        LET t == streams[s].token IN
        /\ now <= Deadline(t) + PingEvery
        /\ \A e \in ended : e.token = t => now - e.at <= PingEvery
        /\ active[t.user] \/ now - turned[t.user] < CacheTtl + PingEvery

InFlight(ip) == {k \in Slot : logins[k].on /\ logins[k].ip = ip}

\* The failures of a window exceed the limit by no more than the logins that
\* were waiting for bcrypt together, because the limiter is asked before the
\* wait and told after it.
GuessesBounded ==
    \A ip \in Ip : hits[ip].count + Cardinality(InFlight(ip)) <= MaxAttempts + Cardinality(Slot) - 1

\* An answer of the cache was true when it was given: when it no longer is, the
\* user changed within its time.
CacheIsRecent ==
    \A u \in User :
        /\ cache[u].until <= now + CacheTtl
        /\ CacheHit(u) /\ cache[u].active # active[u] => cache[u].until <= turned[u] + CacheTtl

\* A cut-off lies at or behind every token it ended, and a stream's last check
\* found a valid session.
CutOffs == \A e \in ended : e.at <= now /\ e.token.iat <= revoked[e.token.user]
StreamsChecked ==
    \A s \in Stream : streams[s].open =>
        LET t == streams[s].token IN
        /\ now - streams[s].checked <= PingEvery
        /\ streams[s].checked <= Deadline(t)
        /\ \A e \in ended : e.token = t => streams[s].checked <= e.at
        /\ active[t.user] \/ streams[s].checked - turned[t.user] < CacheTtl

\* The inductive invariant.
IInv ==
    /\ TypeOK
    /\ CacheIsRecent
    /\ CutOffs
    /\ StreamsChecked
    /\ GuessesBounded
===============================================================================
