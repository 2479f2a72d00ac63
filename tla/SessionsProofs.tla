---------------------------- MODULE SessionsProofs ----------------------------
(***************************************************************************)
(* What Sessions promises for any number of users, addresses, logins in    *)
(* flight, streams and restarts, and any limits, lifetimes and intervals.  *)
(* IInv is inductive: each action has a lemma that says what it keeps, and *)
(* what most actions leave alone is in the lemmas before them.             *)
(***************************************************************************)
EXTENDS Sessions, FiniteSetTheorems, TLAPS

\* A token is accepted only before its end and after the last cut-off.
LEMMA AcceptedMeans ==
    ASSUME TypeOK, NEW t \in Token, Accepted(t)
    PROVE  Deadline(t) \in Int /\ now <= Deadline(t) /\ t.iat > revoked[t.user]
<1>1. Deadline(t) \in Int BY SessionsAssumption DEF Deadline, Token
<1>2. revoked[t.user] \in Int /\ t.iat \in Int /\ now \in Int BY DEF TypeOK, Token
<1> QED BY <1>1, <1>2 DEF Accepted, Expired, Revoked

\* An open stream has a token and the time of its last check.
LEMMA OpenIsRecord ==
    ASSUME TypeOK, NEW s \in Stream, streams[s].open
    PROVE  streams[s] \in [open : {TRUE}, token : Token, checked : Nat]
<1>1. streams[s] \in [open : {TRUE}, token : Token, checked : Nat] \cup {Closed}
  BY DEF TypeOK
<1>2. streams[s] # Closed BY DEF Closed
<1> QED BY <1>1, <1>2

\* The user of an accepted token is enabled, or was a short time ago.
LEMMA AcceptedUser ==
    ASSUME TypeOK, CacheIsRecent, NEW t \in Token, Accepted(t)
    PROVE  active[t.user] \/ now - turned[t.user] < CacheTtl
<1> DEFINE u == t.user
<1>1. u \in User BY DEF Token
<1>2. cache[u].until \in Nat /\ now \in Nat /\ turned[u] \in Nat /\ active[u] \in BOOLEAN
      /\ cache[u].active \in BOOLEAN
  BY <1>1 DEF TypeOK
<1>3. CASE CacheHit(u)
  <2>1. cache[u].active BY <1>3 DEF Accepted, IsActiveUser
  <2>2. ASSUME ~active[u] PROVE now - turned[u] < CacheTtl
    <3>1. cache[u].active # active[u] BY <2>1, <2>2
    <3>2. cache[u].until <= turned[u] + CacheTtl BY <1>1, <1>3, <3>1 DEF CacheIsRecent
    <3>3. cache[u].until > now BY <1>3 DEF CacheHit
    <3> QED BY <1>2, <3>2, <3>3, SessionsAssumption
  <2> QED BY <2>2
<1>4. CASE ~CacheHit(u) BY <1>4 DEF Accepted, IsActiveUser
<1> QED BY <1>3, <1>4

\* The cache after a check is as recent as before.
LEMMA CheckKeeps ==
    ASSUME TypeOK, CacheIsRecent, NEW t \in Token, CheckSession(t),
           UNCHANGED <<now, active, turned>>
    PROVE  /\ cache' \in [User -> [active : BOOLEAN, until : Nat]]
           /\ CacheIsRecent'
<1> DEFINE u == t.user
<1>1. u \in User BY DEF Token
<1>2. cache \in [User -> [active : BOOLEAN, until : Nat]] /\ now \in Nat
      /\ active \in [User -> BOOLEAN] /\ turned \in [User -> Nat]
  BY DEF TypeOK
<1>3. CASE cache' = cache BY <1>2, <1>3 DEF CacheIsRecent, CacheHit
<1>4. CASE cache' = [cache EXCEPT ![u] = [active |-> active[u], until |-> now + CacheTtl]]
  <2>1. now + CacheTtl \in Nat BY <1>2, SessionsAssumption
  <2>2. cache' \in [User -> [active : BOOLEAN, until : Nat]] BY <1>1, <1>2, <1>4, <2>1
  <2>3. CacheIsRecent'
    <3> SUFFICES ASSUME NEW v \in User
                 PROVE  /\ cache'[v].until <= now' + CacheTtl
                        /\ CacheHit(v)' /\ cache'[v].active # active'[v]
                             => cache'[v].until <= turned'[v] + CacheTtl
      BY DEF CacheIsRecent
    <3>1. CASE v = u
      <4>1. cache'[v].until = now + CacheTtl /\ cache'[v].active = active[v]
        BY <1>1, <1>2, <1>4, <3>1
      <4> QED BY <2>1, <4>1
    <3>2. CASE v # u
      <4>1. cache'[v] = cache[v] BY <1>1, <1>2, <1>4, <3>2
      <4> QED BY <4>1 DEF CacheIsRecent, CacheHit
    <3> QED BY <3>1, <3>2
  <2> QED BY <2>2, <2>3
<1> QED BY <1>3, <1>4 DEF CheckSession, CacheAfter

\* No login is lost or invented where the logins are left alone.
LEMMA GuessesKept ==
    ASSUME GuessesBounded, UNCHANGED <<hits, logins>>
    PROVE  GuessesBounded'
BY DEF GuessesBounded, InFlight

LEMMA InitKeeps == Init => IInv
<1> SUFFICES ASSUME Init PROVE IInv OBVIOUS
<1> USE DEF Init, NoAnswer, NoHits, NoLogin, Closed
<1>1. TypeOK BY SessionsAssumption DEF TypeOK, Token
<1>2. CacheIsRecent BY SessionsAssumption DEF CacheIsRecent, CacheHit
<1>3. CutOffs BY DEF CutOffs
<1>4. StreamsChecked BY DEF StreamsChecked
<1>5. GuessesBounded
  <2> SUFFICES ASSUME NEW ip \in Ip
               PROVE  hits[ip].count + Cardinality(InFlight(ip))
                        <= MaxAttempts + Cardinality(Slot) - 1
    BY DEF GuessesBounded
  <2>1. InFlight(ip) = {} BY DEF InFlight
  <2>2. Cardinality(InFlight(ip)) = 0 BY <2>1, FS_EmptySet
  <2>3. Cardinality(Slot) \in Nat BY FS_CardinalityType, SessionsAssumption
  <2> QED BY <2>2, <2>3, SessionsAssumption
<1> QED BY <1>1, <1>2, <1>3, <1>4, <1>5 DEF IInv

LEMMA RequestStep == ASSUME IInv, NEW t \in tokens, Request(t) PROVE IInv'
<1>1. t \in Token /\ TypeOK /\ CacheIsRecent BY DEF IInv, TypeOK
<1>2. UNCHANGED <<now, active, turned, revoked, tokens, ended, hits, logins, streams>>
  BY DEF Request, worldVars, storeVars
<1>3. cache' \in [User -> [active : BOOLEAN, until : Nat]] /\ CacheIsRecent'
  BY <1>1, <1>2, CheckKeeps DEF Request
<1>4. TypeOK' BY <1>2, <1>3 DEF IInv, TypeOK
<1>5. CutOffs' /\ StreamsChecked' BY <1>2 DEF IInv, CutOffs, StreamsChecked, Deadline
<1>6. GuessesBounded' BY <1>2, GuessesKept DEF IInv
<1> QED BY <1>3, <1>4, <1>5, <1>6 DEF IInv

\* A logout ends every token there is: its cut-off is now, and none is younger.
LEMMA LogoutStep == ASSUME IInv, NEW t \in tokens, Logout(t) PROVE IInv'
<1>1. t \in Token /\ t.user \in User /\ TypeOK /\ CacheIsRecent BY DEF IInv, TypeOK, Token
<1>2. /\ UNCHANGED <<now, active, turned, tokens, hits, logins, streams>>
      /\ revoked' = [revoked EXCEPT ![t.user] = now]
      /\ ended' = ended \cup {[token |-> o, at |-> now] : o \in {p \in tokens : p.user = t.user}}
  BY DEF Logout, worldVars
<1>3. cache' \in [User -> [active : BOOLEAN, until : Nat]] /\ CacheIsRecent'
  BY <1>1, <1>2, CheckKeeps DEF Logout
<1>4. now \in Nat /\ revoked \in [User -> Nat \cup {-1}] /\ tokens \subseteq Token
      /\ ended \subseteq [token : Token, at : Nat]
      /\ (\A p \in tokens : p.iat <= now) /\ \A u \in User : revoked[u] <= now
  BY <1>1 DEF TypeOK
<1>5. revoked' \in [User -> Nat \cup {-1}]
      /\ \A u \in User : revoked'[u] <= now /\ revoked[u] <= revoked'[u]
  <2>1. revoked' \in [User -> Nat \cup {-1}] BY <1>2, <1>4
  <2> SUFFICES ASSUME NEW u \in User PROVE revoked'[u] <= now /\ revoked[u] <= revoked'[u]
    BY <2>1
  <2>2. revoked[u] \in Int /\ revoked[u] <= now BY <1>4
  <2>3. CASE u = t.user
    <3>1. revoked'[u] = now BY <1>2, <1>4, <2>3
    <3> QED BY <1>4, <2>2, <3>1
  <2>4. CASE u # t.user
    <3>1. revoked'[u] = revoked[u] BY <1>2, <1>4, <2>4
    <3> QED BY <2>2, <3>1
  <2> QED BY <2>3, <2>4
<1>6. ended' \subseteq [token : Token, at : Nat] BY <1>2, <1>4
<1>7. TypeOK' BY <1>2, <1>3, <1>5, <1>6 DEF IInv, TypeOK
<1>8. CutOffs'
  <2> SUFFICES ASSUME NEW e \in ended'
               PROVE  e.at <= now /\ e.token.iat <= revoked'[e.token.user]
    BY <1>2 DEF CutOffs
  <2>1. CASE e \in ended
    <3>1. e.at <= now /\ e.token.iat <= revoked[e.token.user] BY <2>1 DEF IInv, CutOffs
    <3>2. e.token.user \in User /\ e.token.iat \in Nat BY <1>4, <2>1 DEF Token
    <3>3. revoked[e.token.user] <= revoked'[e.token.user] BY <1>5, <3>2
    <3>4. revoked[e.token.user] \in Int /\ revoked'[e.token.user] \in Int BY <1>4, <1>5, <3>2
    <3> QED BY <3>1, <3>2, <3>3, <3>4
  <2>2. ASSUME NEW o \in tokens, o.user = t.user, e = [token |-> o, at |-> now]
        PROVE  e.at <= now /\ e.token.iat <= revoked'[e.token.user]
    <3>1. revoked'[o.user] = now BY <1>1, <1>2, <1>4, <2>2
    <3> QED BY <1>4, <2>2, <3>1
  <2> QED BY <1>2, <2>1, <2>2
<1>9. StreamsChecked'
  <2> SUFFICES ASSUME NEW s \in Stream, streams[s].open, NEW e \in ended',
                      e.token = streams[s].token
               PROVE  streams[s].checked <= e.at
    BY <1>2 DEF IInv, StreamsChecked, Deadline
  <2>1. CASE e \in ended BY <2>1 DEF IInv, StreamsChecked
  <2>2. CASE e \notin ended
    <3>1. e.at = now BY <1>2, <2>2
    <3> QED BY <1>1, <3>1 DEF TypeOK
  <2> QED BY <2>1, <2>2
<1>10. GuessesBounded' BY <1>2, GuessesKept DEF IInv
<1> QED BY <1>3, <1>7, <1>8, <1>9, <1>10 DEF IInv

\* A stream whose session was accepted just now has been checked.
LEMMA CheckedStep ==
    ASSUME IInv, NEW s \in Stream, NEW t \in Token, CheckSession(t),
           UNCHANGED <<now, active, turned, revoked, tokens, ended, hits, logins>>,
           streams' = [streams EXCEPT ![s] = IF Accepted(t) THEN Opened(t) ELSE Closed]
    PROVE  IInv'
<1>1. TypeOK /\ CacheIsRecent /\ now \in Nat BY DEF IInv, TypeOK
<1>2. cache' \in [User -> [active : BOOLEAN, until : Nat]] /\ CacheIsRecent'
  BY <1>1, CheckKeeps
<1>3. streams \in [Stream -> [open : {TRUE}, token : Token, checked : Nat] \cup {Closed}]
  BY <1>1 DEF TypeOK
<1>4. Opened(t) \in [open : {TRUE}, token : Token, checked : Nat] BY <1>1 DEF Opened
<1>5. streams' \in [Stream -> [open : {TRUE}, token : Token, checked : Nat] \cup {Closed}]
  BY <1>3, <1>4
<1>6. \A r \in Stream \ {s} : streams'[r] = streams[r] BY <1>3
<1>7. streams'[s] = IF Accepted(t) THEN Opened(t) ELSE Closed BY <1>3
<1>8. streams'[s].open => Accepted(t) /\ streams'[s] = Opened(t) BY <1>7 DEF Closed
<1>9. TypeOK'
  <2>1. \A r \in Stream : streams'[r].open => streams'[r].checked <= now
    BY <1>1, <1>6, <1>8 DEF TypeOK, Opened
  <2> QED BY <1>1, <1>2, <1>5, <2>1 DEF TypeOK
<1>10. StreamsChecked'
  <2> SUFFICES ASSUME NEW r \in Stream, streams'[r].open
               PROVE  LET q == streams'[r].token IN
                      /\ now - streams'[r].checked <= PingEvery
                      /\ streams'[r].checked <= Deadline(q)
                      /\ \A e \in ended : e.token = q => streams'[r].checked <= e.at
                      /\ active[q.user] \/ streams'[r].checked - turned[q.user] < CacheTtl
    BY DEF StreamsChecked, Deadline
  <2>1. CASE r # s BY <1>6, <2>1 DEF IInv, StreamsChecked, Deadline
  <2>2. CASE r = s
    <3>1. Accepted(t) /\ streams'[r].token = t /\ streams'[r].checked = now
      BY <1>8, <2>2 DEF Opened
    <3>2. now <= Deadline(t) /\ t.iat > revoked[t.user] BY <1>1, <3>1, AcceptedMeans
    <3>3. active[t.user] \/ now - turned[t.user] < CacheTtl BY <1>1, <3>1, AcceptedUser
    <3>4. \A e \in ended : e.token # t
      <4> SUFFICES ASSUME NEW e \in ended, e.token = t PROVE FALSE OBVIOUS
      <4>1. t.iat <= revoked[t.user] BY DEF IInv, CutOffs
      <4>2. t.iat \in Int /\ revoked[t.user] \in Int BY <1>1 DEF TypeOK, Token
      <4> QED BY <3>2, <4>1, <4>2
    <3> QED BY <1>1, <3>1, <3>2, <3>3, <3>4, SessionsAssumption
  <2> QED BY <2>1, <2>2
<1>11. CutOffs' BY DEF IInv, CutOffs
<1>12. GuessesBounded' BY GuessesKept DEF IInv
<1> QED BY <1>2, <1>9, <1>10, <1>11, <1>12 DEF IInv

LEMMA OpenStreamStep ==
    ASSUME IInv, NEW t \in tokens, NEW s \in Stream, OpenStream(s, t) PROVE IInv'
<1>1. t \in Token BY DEF IInv, TypeOK
<1> QED BY <1>1, CheckedStep DEF OpenStream, worldVars, storeVars

LEMMA PingStep == ASSUME IInv, NEW s \in Stream, Ping(s) PROVE IInv'
<1>1. streams[s].token \in Token
  <2>1. streams[s].open BY DEF Ping, PingDue
  <2>2. streams[s] \in [open : {TRUE}, token : Token, checked : Nat]
    BY <2>1, OpenIsRecord DEF IInv
  <2> QED BY <2>2
<1> QED BY <1>1, CheckedStep DEF Ping, worldVars, storeVars

LEMMA CloseStreamStep == ASSUME IInv, NEW s \in Stream, CloseStream(s) PROVE IInv'
<1>1. /\ UNCHANGED <<now, active, turned, revoked, tokens, ended, cache, hits, logins>>
      /\ streams' = [streams EXCEPT ![s] = Closed]
  BY DEF CloseStream, worldVars, storeVars
<1>2. streams \in [Stream -> [open : {TRUE}, token : Token, checked : Nat] \cup {Closed}]
  BY DEF IInv, TypeOK
<1>3. streams' \in [Stream -> [open : {TRUE}, token : Token, checked : Nat] \cup {Closed}]
  BY <1>1, <1>2
<1>4. \A r \in Stream : streams'[r].open => streams'[r] = streams[r] BY <1>1, <1>2 DEF Closed
<1>5. TypeOK' BY <1>1, <1>3, <1>4 DEF IInv, TypeOK
<1>6. StreamsChecked' BY <1>1, <1>4 DEF IInv, StreamsChecked, Deadline
<1>7. CacheIsRecent' /\ CutOffs' BY <1>1 DEF IInv, CacheIsRecent, CacheHit, CutOffs
<1>8. GuessesBounded' BY <1>1, GuessesKept DEF IInv
<1> QED BY <1>5, <1>6, <1>7, <1>8 DEF IInv

\* Where the check of a stream and the cut-offs are not touched.
LEMMA SessionsKept ==
    ASSUME CacheIsRecent, CutOffs, StreamsChecked,
           UNCHANGED <<now, active, turned, revoked, ended, cache, streams>>
    PROVE  CacheIsRecent' /\ CutOffs' /\ StreamsChecked'
BY DEF CacheIsRecent, CacheHit, CutOffs, StreamsChecked, Deadline

Login == [on : {TRUE}, ip : Ip, user : User, ok : BOOLEAN]

\* A set of slots counts as many as a natural number, and no more than there are.
LEMMA SlotCount ==
    ASSUME NEW S \in SUBSET Slot
    PROVE  /\ IsFiniteSet(S) /\ Cardinality(S) \in Nat /\ Cardinality(Slot) \in Nat
           /\ Cardinality(S) <= Cardinality(Slot)
           /\ S # Slot => Cardinality(S) < Cardinality(Slot)
BY FS_Subset, FS_CardinalityType, SessionsAssumption

\* A login that starts is one more in flight, and it was let in below the limit.
LEMMA StartLoginStep ==
    ASSUME IInv, NEW k \in Slot, NEW ip \in Ip, NEW u \in User, NEW right \in BOOLEAN,
           StartLogin(k, ip, u, right)
    PROVE  IInv'
<1>1. /\ UNCHANGED <<now, active, turned, revoked, tokens, ended, cache, streams>>
      /\ hits' = [hits EXCEPT ![ip] = Unexpired(ip)]
      /\ logins' = [logins EXCEPT ![k] = Waiting(ip, u, right /\ active[u])]
      /\ logins[k] = NoLogin /\ ~Limited(ip)
  BY DEF StartLogin, worldVars, storeVars
<1>2. /\ hits \in [Ip -> [count : Nat, resetAt : Nat]] /\ now \in Nat
      /\ logins \in [Slot -> Login \cup {NoLogin}] /\ active \in [User -> BOOLEAN]
  BY DEF IInv, TypeOK, Login
<1>3. Unexpired(ip) \in [count : Nat, resetAt : Nat] BY <1>2 DEF Unexpired, NoHits
<1>4. Waiting(ip, u, right /\ active[u]) \in Login BY <1>2 DEF Waiting, Login
<1>5. logins' \in [Slot -> Login \cup {NoLogin}] BY <1>1, <1>2, <1>4
<1>6. TypeOK' BY <1>1, <1>2, <1>3, <1>5 DEF IInv, TypeOK, Login
<1>7. Unexpired(ip).count <= MaxAttempts - 1
  <2>1. hits[ip].count \in Nat /\ hits[ip].resetAt \in Nat BY <1>2
  <2> QED BY <1>1, <1>2, <2>1, SessionsAssumption DEF Unexpired, NoHits, Limited
<1>8. GuessesBounded'
  <2> SUFFICES ASSUME NEW j \in Ip
               PROVE  hits'[j].count + Cardinality(InFlight(j)')
                        <= MaxAttempts + Cardinality(Slot) - 1
    BY DEF GuessesBounded
  <2>1. InFlight(j) \in SUBSET Slot /\ InFlight(j)' \in SUBSET Slot BY DEF InFlight
  <2>2. CASE j = ip
    <3>1. hits'[j] = Unexpired(ip) BY <1>1, <1>2, <2>2
    <3>2. hits'[j].count \in Nat BY <1>3, <3>1
    <3> QED BY <1>7, <2>1, <3>1, <3>2, SlotCount, SessionsAssumption
  <2>3. CASE j # ip
    <3>1. hits'[j] = hits[j] BY <1>1, <1>2, <2>3
    <3>2. InFlight(j)' = InFlight(j)
      <4>1. logins'[k] = Waiting(ip, u, right /\ active[u]) /\ ~logins[k].on
        BY <1>1, <1>2 DEF NoLogin
      <4>2. k \notin InFlight(j)' /\ k \notin InFlight(j)
        BY <2>3, <4>1 DEF InFlight, Waiting
      <4>3. \A i \in Slot \ {k} : logins'[i] = logins[i] BY <1>1, <1>2
      <4> QED BY <4>2, <4>3 DEF InFlight
    <3> QED BY <3>1, <3>2 DEF IInv, GuessesBounded
  <2> QED BY <2>2, <2>3
<1> QED BY <1>1, <1>6, <1>8, SessionsKept DEF IInv

\* A login that ends is one less in flight, and at most one more failure.
LEMMA FinishLoginStep == ASSUME IInv, NEW k \in Slot, FinishLogin(k) PROVE IInv'
<1> DEFINE l == logins[k]
<1>1. /\ UNCHANGED <<now, active, turned, revoked, ended, cache, streams>>
      /\ logins' = [logins EXCEPT ![k] = NoLogin]
      /\ \/ tokens' = tokens \cup {Mint(l.user, now)} /\ hits' = [hits EXCEPT ![l.ip] = NoHits]
         \/ tokens' = tokens /\ hits' = [hits EXCEPT ![l.ip] = Recorded(l.ip)]
  BY DEF FinishLogin, worldVars
<1>2. /\ hits \in [Ip -> [count : Nat, resetAt : Nat]] /\ now \in Nat
      /\ logins \in [Slot -> Login \cup {NoLogin}]
      /\ tokens \subseteq Token /\ \A t \in tokens : t.iat <= now
  BY DEF IInv, TypeOK, Login
<1>3. l \in Login /\ l.on /\ l.ip \in Ip /\ l.user \in User
  <2>1. l.on BY DEF FinishLogin
  <2>2. l # NoLogin BY <2>1 DEF NoLogin
  <2> QED BY <1>2, <2>1, <2>2 DEF Login
<1>4. Recorded(l.ip) \in [count : Nat, resetAt : Nat] /\ NoHits \in [count : Nat, resetAt : Nat]
  BY <1>2, <1>3, SessionsAssumption DEF Recorded, NoHits
<1>5. hits' \in [Ip -> [count : Nat, resetAt : Nat]] BY <1>1, <1>2, <1>4
<1>6. logins' \in [Slot -> Login \cup {NoLogin}] BY <1>1, <1>2
<1>7. tokens' \subseteq Token /\ \A t \in tokens' : t.iat <= now
  <2>1. now \div Second \in Nat BY <1>2, SessionsAssumption
  <2>2. Mint(l.user, now) \in Token /\ Mint(l.user, now).iat <= now
    BY <1>2, <1>3, <2>1, SessionsAssumption DEF Mint, Token
  <2> HIDE DEF l
  <2> QED BY <1>1, <1>2, <2>2
<1>8. TypeOK'
  <2> HIDE DEF l
  <2> QED BY <1>1, <1>2, <1>5, <1>6, <1>7 DEF IInv, TypeOK, Login
<1>9. GuessesBounded'
  <2> SUFFICES ASSUME NEW j \in Ip
               PROVE  hits'[j].count + Cardinality(InFlight(j)')
                        <= MaxAttempts + Cardinality(Slot) - 1
    BY DEF GuessesBounded
  <2>1. InFlight(j) \in SUBSET Slot /\ InFlight(j)' \in SUBSET Slot BY DEF InFlight
  <2>2. hits[j].count + Cardinality(InFlight(j)) <= MaxAttempts + Cardinality(Slot) - 1
    BY DEF IInv, GuessesBounded
  <2>3. \A i \in Slot : logins'[i] = IF i = k THEN NoLogin ELSE logins[i] BY <1>1, <1>2
  <2>4. InFlight(j)' = InFlight(j) \ {k} BY <2>3 DEF InFlight, NoLogin
  <2>5. CASE j = l.ip
    <3>1. k \in InFlight(j) BY <1>3, <2>5 DEF InFlight
    <3>2. Cardinality(InFlight(j)') = Cardinality(InFlight(j)) - 1
      BY <2>1, <2>4, <3>1, SlotCount, FS_RemoveElement
    <3>3. hits'[j].count \in Nat /\ hits'[j].count <= hits[j].count + 1 /\ hits[j].count \in Nat
      <4>1. hits'[j] = NoHits \/ hits'[j] = Recorded(j) BY <1>1, <1>2, <1>3, <2>5
      <4> QED BY <1>2, <4>1 DEF NoHits, Recorded
    <3> QED BY <2>1, <2>2, <3>2, <3>3, SlotCount, SessionsAssumption
  <2>6. CASE j # l.ip
    <3>1. hits'[j] = hits[j] BY <1>1, <1>2, <1>3, <2>6
    <3>2. InFlight(j)' = InFlight(j) BY <2>4, <2>6 DEF InFlight
    <3> QED BY <2>2, <3>1, <3>2
  <2> QED BY <2>5, <2>6
<1> QED BY <1>1, <1>8, <1>9, SessionsKept DEF IInv

\* A change of the user makes true an old answer that was false, and starts the
\* time for which a true one may be kept.
LEMMA UserChangesStep == ASSUME IInv, NEW u \in User, UserChanges(u) PROVE IInv'
<1>1. /\ active' = [active EXCEPT ![u] = ~@]
      /\ turned' = [turned EXCEPT ![u] = now]
      /\ UNCHANGED <<now, revoked, tokens, ended, cache, hits, logins, streams>>
  BY DEF UserChanges, storeVars
<1>2. /\ active \in [User -> BOOLEAN] /\ turned \in [User -> Nat] /\ now \in Nat
      /\ \A v \in User : turned[v] <= now
      /\ streams \in [Stream -> [open : {TRUE}, token : Token, checked : Nat] \cup {Closed}]
      /\ \A s \in Stream : streams[s].open => streams[s].checked <= now
  BY DEF IInv, TypeOK
<1>3. \A v \in User : turned'[v] = IF v = u THEN now ELSE turned[v] BY <1>1, <1>2
<1>4. \A v \in User \ {u} : active'[v] = active[v] BY <1>1, <1>2
<1>5. TypeOK'
  <2>1. active' \in [User -> BOOLEAN] /\ turned' \in [User -> Nat] BY <1>1, <1>2
  <2>2. \A v \in User : turned'[v] <= now BY <1>2, <1>3
  <2> QED BY <1>1, <2>1, <2>2 DEF IInv, TypeOK
<1>6. CacheIsRecent'
  <2> SUFFICES ASSUME NEW v \in User
               PROVE  /\ cache[v].until <= now + CacheTtl
                      /\ CacheHit(v) /\ cache[v].active # active'[v]
                           => cache[v].until <= turned'[v] + CacheTtl
    BY <1>1 DEF CacheIsRecent, CacheHit
  <2>1. /\ cache[v].until <= now + CacheTtl
        /\ CacheHit(v) /\ cache[v].active # active[v]
             => cache[v].until <= turned[v] + CacheTtl
    BY DEF IInv, CacheIsRecent
  <2>2. CASE v = u BY <1>3, <2>1, <2>2
  <2>3. CASE v # u BY <1>3, <1>4, <2>1, <2>3
  <2> QED BY <2>2, <2>3
<1>7. StreamsChecked'
  <2> SUFFICES ASSUME NEW s \in Stream, streams[s].open
               PROVE  LET t == streams[s].token IN
                      active'[t.user] \/ streams[s].checked - turned'[t.user] < CacheTtl
    BY <1>1 DEF IInv, StreamsChecked, Deadline
  <2> DEFINE v == streams[s].token.user
  <2>1. streams[s] \in [open : {TRUE}, token : Token, checked : Nat]
    BY OpenIsRecord DEF IInv
  <2>2. v \in User /\ streams[s].checked \in Nat /\ streams[s].checked <= now
    BY <1>2, <2>1 DEF Token
  <2>3. CASE v = u
    <3>1. turned'[v] = now BY <1>3, <2>2, <2>3
    <3>2. streams[s].checked - turned'[v] < CacheTtl BY <1>2, <2>2, <3>1, SessionsAssumption
    <3> QED BY <3>2
  <2>4. CASE v # u
    <3>1. turned'[v] = turned[v] /\ active'[v] = active[v] BY <1>3, <1>4, <2>2, <2>4
    <3> QED BY <3>1 DEF IInv, StreamsChecked
  <2> QED BY <2>3, <2>4
<1>8. CutOffs' BY <1>1 DEF IInv, CutOffs
<1>9. GuessesBounded' BY <1>1, GuessesKept DEF IInv
<1> QED BY <1>5, <1>6, <1>7, <1>8, <1>9 DEF IInv

LEMMA RestartStep == ASSUME IInv, Restart PROVE IInv'
<1>1. /\ UNCHANGED <<now, active, turned, revoked, tokens, ended>>
      /\ cache' = [u \in User |-> NoAnswer] /\ hits' = [ip \in Ip |-> NoHits]
      /\ logins' = [k \in Slot |-> NoLogin] /\ streams' = [s \in Stream |-> Closed]
  BY DEF Restart, worldVars, storeVars
<1>2. TypeOK' BY <1>1 DEF IInv, TypeOK, NoAnswer, NoHits, Closed
<1>3. CacheIsRecent'
  BY <1>1, SessionsAssumption DEF IInv, TypeOK, CacheIsRecent, CacheHit, NoAnswer
<1>4. CutOffs' BY <1>1 DEF IInv, CutOffs
<1>5. StreamsChecked' BY <1>1 DEF StreamsChecked, Closed
<1>6. GuessesBounded'
  <2> SUFFICES ASSUME NEW ip \in Ip
               PROVE  hits'[ip].count + Cardinality(InFlight(ip)')
                        <= MaxAttempts + Cardinality(Slot) - 1
    BY DEF GuessesBounded
  <2>1. InFlight(ip)' = {} BY <1>1 DEF InFlight, NoLogin
  <2>2. Cardinality(InFlight(ip)') = 0 BY <2>1, FS_EmptySet
  <2>3. hits'[ip].count = 0 BY <1>1 DEF NoHits
  <2>4. Cardinality(Slot) \in Nat BY FS_CardinalityType, SessionsAssumption
  <2> QED BY <2>2, <2>3, <2>4, SessionsAssumption
<1> QED BY <1>2, <1>3, <1>4, <1>5, <1>6 DEF IInv

\* Time goes on only when no ping is due.
LEMMA TickStep == ASSUME IInv, Tick PROVE IInv'
<1>1. /\ now' = now + 1
      /\ UNCHANGED <<active, turned, revoked, tokens, ended, cache, hits, logins, streams>>
      /\ \A s \in Stream : ~PingDue(s)
  BY DEF Tick, worldVars, storeVars
<1>2. now \in Nat BY DEF IInv, TypeOK
<1>3. TypeOK'
  <2>1. (\A u \in User : revoked[u] <= now') /\ (\A u \in User : turned[u] <= now')
    <3>1. \A u \in User : revoked[u] \in Int /\ turned[u] \in Int BY DEF IInv, TypeOK
    <3> QED BY <1>1, <1>2, <3>1 DEF IInv, TypeOK
  <2>2. \A t \in tokens : t.iat <= now'
    <3>1. \A t \in tokens : t.iat \in Nat BY DEF IInv, TypeOK, Token
    <3> QED BY <1>1, <1>2, <3>1 DEF IInv, TypeOK
  <2>3. \A s \in Stream : streams[s].open => streams[s].checked <= now'
    <3>1. \A s \in Stream : streams[s].open => streams[s].checked \in Nat
      BY OpenIsRecord DEF IInv
    <3> QED BY <1>1, <1>2, <3>1 DEF IInv, TypeOK
  <2>4. now' \in Nat BY <1>1, <1>2
  <2> QED BY <1>1, <2>1, <2>2, <2>3, <2>4 DEF IInv, TypeOK
<1>4. CacheIsRecent'
  <2>1. \A u \in User : cache[u].until \in Nat BY DEF IInv, TypeOK
  <2> QED BY <1>1, <1>2, <2>1, SessionsAssumption DEF IInv, CacheIsRecent, CacheHit
<1>5. StreamsChecked'
  <2> SUFFICES ASSUME NEW s \in Stream, streams[s].open
               PROVE  now' - streams[s].checked <= PingEvery
    BY <1>1 DEF IInv, StreamsChecked, Deadline
  <2>1. streams[s].checked \in Nat BY OpenIsRecord DEF IInv
  <2>2. now - streams[s].checked <= PingEvery BY DEF IInv, StreamsChecked
  <2>3. now - streams[s].checked # PingEvery BY <1>1 DEF PingDue
  <2> QED BY <1>1, <1>2, <2>1, <2>2, <2>3, SessionsAssumption
<1>6. CutOffs'
  <2>1. \A e \in ended : e.at \in Nat BY DEF IInv, TypeOK
  <2> QED BY <1>1, <1>2, <2>1 DEF IInv, CutOffs
<1>7. GuessesBounded' BY <1>1, GuessesKept DEF IInv
<1> QED BY <1>3, <1>4, <1>5, <1>6, <1>7 DEF IInv

LEMMA StutterStep == ASSUME IInv, UNCHANGED vars PROVE IInv'
<1>1. UNCHANGED <<now, active, turned, revoked, tokens, ended, cache, hits, logins, streams>>
  BY DEF vars, worldVars, storeVars
<1>2. TypeOK' BY <1>1 DEF IInv, TypeOK
<1> QED BY <1>1, <1>2, SessionsKept, GuessesKept DEF IInv

LEMMA InductiveStep == IInv /\ [Next]_vars => IInv'
<1> SUFFICES ASSUME IInv, [Next]_vars PROVE IInv' OBVIOUS
<1>1. ASSUME NEW t \in tokens, Request(t) \/ Logout(t) \/ \E s \in Stream : OpenStream(s, t)
      PROVE  IInv'
  BY <1>1, RequestStep, LogoutStep, OpenStreamStep
<1>2. ASSUME NEW s \in Stream, Ping(s) \/ CloseStream(s) PROVE IInv'
  BY <1>2, PingStep, CloseStreamStep
<1>3. ASSUME NEW k \in Slot, NEW ip \in Ip, NEW u \in User, NEW right \in BOOLEAN,
             StartLogin(k, ip, u, right)
      PROVE  IInv'
  BY <1>3, StartLoginStep
<1>4. ASSUME NEW k \in Slot, FinishLogin(k) PROVE IInv' BY <1>4, FinishLoginStep
<1>5. ASSUME NEW u \in User, UserChanges(u) PROVE IInv' BY <1>5, UserChangesStep
<1> QED
  BY <1>1, <1>2, <1>3, <1>4, <1>5, RestartStep, TickStep, StutterStep DEF Next

\* Every behaviour satisfies the inductive invariant.
THEOREM Invariant == Spec => []IInv
BY InitKeeps, InductiveStep, PTL DEF Spec

\* The variables keep their types, and no time on record is of the future.
THEOREM TypeCorrect == Spec => []TypeOK
<1>1. IInv => TypeOK BY DEF IInv
<1> QED BY Invariant, <1>1, PTL

\* A logout is final: what it ended is never accepted again.
THEOREM LogoutIsFinal == Spec => []LogoutSticks
<1>1. IInv => LogoutSticks
  <2> SUFFICES ASSUME IInv, NEW e \in ended, Accepted(e.token) PROVE FALSE
    BY DEF LogoutSticks
  <2>1. e.token \in Token BY DEF IInv, TypeOK
  <2>2. e.token.iat > revoked[e.token.user] BY <2>1, AcceptedMeans DEF IInv
  <2>3. e.token.iat <= revoked[e.token.user] BY DEF IInv, CutOffs
  <2>4. e.token.iat \in Int /\ revoked[e.token.user] \in Int BY <2>1 DEF IInv, TypeOK, Token
  <2> QED BY <2>2, <2>3, <2>4
<1> QED BY Invariant, <1>1, PTL

\* Whoever is accepted is enabled, or was a cache time ago.
THEOREM CacheIsHonest == Spec => []DisabledIsOut
<1>1. IInv => DisabledIsOut
  <2> SUFFICES ASSUME IInv, NEW t \in tokens, Accepted(t)
               PROVE  active[t.user] \/ now - turned[t.user] < CacheTtl
    BY DEF DisabledIsOut
  <2>1. t \in Token BY DEF IInv, TypeOK
  <2> QED BY <2>1, AcceptedUser DEF IInv
<1> QED BY Invariant, <1>1, PTL

\* A user who is enabled again is let in once the cached answer is over: a
\* session that is refused for its user only is refused for less than that time.
THEOREM CacheLetsIn == Spec => []EnabledIsIn
<1>1. IInv => EnabledIsIn
  <2> SUFFICES ASSUME IInv, NEW t \in tokens, ~Expired(t), ~Revoked(t), ~Accepted(t),
                      active[t.user]
               PROVE  now - turned[t.user] < CacheTtl
    BY DEF EnabledIsIn
  <2> DEFINE u == t.user
  <2>1. u \in User BY DEF IInv, TypeOK, Token
  <2>2. cache[u].until \in Nat /\ now \in Nat /\ turned[u] \in Nat
    BY <2>1 DEF IInv, TypeOK
  <2>3. CacheHit(u) /\ ~cache[u].active BY DEF Accepted, IsActiveUser
  <2>4. cache[u].active # active[u] BY <2>3
  <2>5. cache[u].until <= turned[u] + CacheTtl BY <2>1, <2>3, <2>4 DEF IInv, CacheIsRecent
  <2>6. cache[u].until > now BY <2>3 DEF CacheHit
  <2> QED BY <2>2, <2>5, <2>6, SessionsAssumption
<1> QED BY Invariant, <1>1, PTL

\* A live stream outlives the end of its session by one ping interval, and the
\* disabling of its user by the cache time as well.
THEOREM StreamsEnd == Spec => []StreamEnds
<1>1. IInv => StreamEnds
  <2> SUFFICES ASSUME IInv, NEW s \in Stream, streams[s].open
               PROVE  LET t == streams[s].token IN
                      /\ now <= Deadline(t) + PingEvery
                      /\ \A e \in ended : e.token = t => now - e.at <= PingEvery
                      /\ active[t.user] \/ now - turned[t.user] < CacheTtl + PingEvery
    BY DEF StreamEnds
  <2> DEFINE t == streams[s].token
  <2> DEFINE checked == streams[s].checked
  <2>1. streams[s] \in [open : {TRUE}, token : Token, checked : Nat]
    BY OpenIsRecord DEF IInv
  <2>2. t \in Token /\ checked \in Nat /\ now \in Nat /\ turned[t.user] \in Nat
        /\ \A e \in ended : e.at \in Nat
    BY <2>1 DEF IInv, TypeOK, Token
  <2>3. Deadline(t) \in Int BY <2>2, SessionsAssumption DEF Deadline, Token
  <2>4. /\ now - checked <= PingEvery /\ checked <= Deadline(t)
        /\ \A e \in ended : e.token = t => checked <= e.at
        /\ active[t.user] \/ checked - turned[t.user] < CacheTtl
    BY DEF IInv, StreamsChecked
  <2> HIDE DEF t, checked
  <2>5. now <= Deadline(t) + PingEvery BY <2>2, <2>3, <2>4, SessionsAssumption
  <2>6. \A e \in ended : e.token = t => now - e.at <= PingEvery
    BY <2>2, <2>4, SessionsAssumption
  <2>7. active[t.user] \/ now - turned[t.user] < CacheTtl + PingEvery
    BY <2>2, <2>4, SessionsAssumption
  <2> QED BY <2>5, <2>6, <2>7 DEF t
<1> QED BY Invariant, <1>1, PTL

\* The limiter is exceeded by logins that overlap, and by no more of them.
THEOREM GuessesAreBounded == Spec => []GuessesBounded
<1>1. IInv => GuessesBounded BY DEF IInv
<1> QED BY Invariant, <1>1, PTL
===============================================================================
