----------------------------- MODULE ThreatFindings -----------------------------
(***************************************************************************)
(* From requests to findings and automatic bans: the detectors, the part   *)
(* of ThreatEngine#evaluate that runs without a wait, the auto-ban it ends *)
(* in, the immediate bans of those who request a blocked path, and the     *)
(* handlers that change findings, configuration and bans.                  *)
(*                                                                         *)
(* Time is in ticks; a row of access_log carries its age and is forgotten  *)
(* when no query looks that far back; what waits for two seconds waits for *)
(* less than a tick.  Rows alike in client, request and age count once.    *)
(* What a page shows of a finding (its count, detail and sample) and the   *)
(* mails about it are left out; see ThreatAlerts.                          *)
(***************************************************************************)
EXTENDS Networks

CONSTANTS Traffic,       \* who requests what: pairs of an address and a request, which
                         \* has status, method, uri, agent, referer, host and known
          TextRank,      \* the order of those addresses as strings
          Likes,         \* text -> the LIKE patterns it matches
          Config,        \* names of the configurations an operator saves
          FirstConfig,   \* the one there is at the start
          Setting,       \* name -> the configuration; of its blocked paths, those requested
          BanTarget,     \* what an operator bans and unbans by hand
          Lookback,      \* GOOD_HISTORY_LOOKBACK_MS, in ticks
          GoodMin,       \* GOOD_HISTORY_MIN_REQUESTS
          SubjectCap,    \* SUBJECT_CAP
          MayThrow,      \* detectors whose query may throw
          MaxRows, MaxPuts

Global == [v6 |-> FALSE, value |-> -1]    \* the subject "global", no address

\* The detectors, those among them that count rows of an actor, and the rest.
CountsRows ==
    {"scanner404", "authAbuse", "badPaths", "injection", "badAgents", "flood",
     "fallbackProbe", "methodAnomaly", "headerInjection", "openProxy",
     "malformedRequests", "loginFlood"}
PerActor == CountsRows \cup {"hostScan", "fuzzing"}
Rule == PerActor \cup {"error5xxSurge"}

Severity == {"info", "low", "medium", "high", "critical"}
Rank == [info |-> 0, low |-> 1, medium |-> 2, high |-> 3, critical |-> 4]
Weight == [info |-> 0, low |-> 1, medium |-> 3, high |-> 6, critical |-> 10]

Client == {t[1] : t \in Traffic}

ASSUME FindingsAssumption ==
    /\ Client \subseteq Address /\ IsFiniteSet(Client)
    /\ TextRank \in [Client -> Nat] /\ \A c, d \in Client : TextRank[c] = TextRank[d] => c = d
    /\ FirstConfig \in Config
    /\ \A n \in Config : \A r \in Rule :
         /\ Setting[n].rules[r].severity \in Severity
         /\ Setting[n].rules[r].threshold \in Nat \ {0}
    /\ \A n \in Config :
         /\ Setting[n].window \in Nat \ {0} /\ Setting[n].exceptions \subseteq Entry
         /\ Setting[n].autoBan.minSeverity \in Severity
         /\ {Setting[n].autoBan.minFindings, Setting[n].autoBan.minScore} \subseteq Nat
    /\ BanTarget \subseteq Entry /\ MayThrow \subseteq Rule
    /\ {Lookback, GoodMin} \subseteq Nat \ {0} /\ {SubjectCap, MaxRows, MaxPuts} \subseteq Nat

VARIABLES
    log,        \* access_log: the rows of the last Lookback ticks
    config,     \* app_settings threat_config, by its name
    findings,   \* threat_finding: one row for a rule and a subject
    banned,     \* banned_ip: targets, and whether the ban was automatic
    pending,    \* clients of blocked paths that wait to be banned
    puts,       \* saved configurations whose evaluation has not started yet
    last        \* history: nothing changed since the last evaluation; what failed in it

vars == <<log, config, findings, banned, pending, puts, last>>

Actor == {ActorOf(c) : c \in Client}
Row == [client : Client, net : Actor, req : {t[2] : t \in Traffic}, age : 0 .. Lookback - 1]
Subject == Client \cup {Global}
Finding == [rule : Rule, subject : Subject, severity : Severity, acknowledged : BOOLEAN]
Target == BanTarget \cup {Widen(t) : t \in BanTarget} \cup Actor

\* One finding of a rule and a subject, one ban of a target.
TypeOK ==
    /\ log \subseteq Row
    /\ config \in Config
    /\ findings \subseteq Finding
    /\ \A f, g \in findings : f.rule = g.rule /\ f.subject = g.subject => f = g
    /\ banned \subseteq [target : Target, auto : BOOLEAN]
    /\ \A b, d \in banned : b.target = d.target => b = d
    /\ pending \subseteq Client
    /\ puts \in 0 .. MaxPuts
    /\ last \in [quiet : BOOLEAN, failed : SUBSET MayThrow]

Init ==
    /\ log = {} /\ config = FirstConfig /\ findings = {} /\ banned = {}
    /\ pending = {} /\ puts = 0 /\ last = [quiet |-> FALSE, failed |-> {}]

Cfg == Setting[config]

RulesOn == [n \in Config |-> {r \in Rule : Setting[n].rules[r].enabled}]
RulesInForce == RulesOn[config]

Changed == last' = [quiet |-> FALSE, failed |-> {}]

-------------------------------------------------------------------------------
(* The detectors.                                                             *)

Like(text, patterns) == Likes[text] \cap patterns # {}

\* The WHERE clause of a detector.
Matches(r, q, patterns) ==
    CASE r = "scanner404" -> q.status = 404
      [] r = "authAbuse" -> q.status \in {401, 403}
      [] r \in {"badPaths", "injection"} -> Like(q.uri, patterns)
      [] r = "badAgents" -> Like(q.agent, patterns) \/ q.agent \in {"-", ""}
      [] r \in {"flood", "hostScan"} -> TRUE
      [] r = "fuzzing" -> q.status >= 400
      [] r = "fallbackProbe" -> ~q.known
      [] r = "methodAnomaly" ->
           q.method \notin {"GET", "POST", "HEAD", "PUT", "PATCH", "DELETE", "OPTIONS"}
      [] r = "headerInjection" -> Like(q.agent, patterns) \/ Like(q.referer, patterns)
      [] r = "openProxy" -> Like(q.uri, {"http://%", "https://%"})
      [] r = "malformedRequests" -> q.status \in {400, 444, 494, 497}
      [] r = "loginFlood" -> q.method = "POST" /\ Like(q.uri, patterns)
      [] r = "error5xxSurge" -> q.status >= 500

\* Mutant: the window is not closed at its old end.
RowsEver(r) == {x \in log : Matches(r, x.req, Cfg.rules[r].patterns)}

\* The rows a detector looks at.
RowsOf(r) ==
    {x \in log : x.age < Cfg.window /\ Matches(r, x.req, Cfg.rules[r].patterns)}

\* What it counts of them.
Count(r, rows) ==
    CASE r = "hostScan" -> Cardinality({x.req.host : x \in rows})
      [] r = "fuzzing" -> Cardinality({x.req.uri : x \in rows})
      [] OTHER -> Cardinality(rows)

\* Mutant: GROUP BY client.
GroupByClient(rows) == {{x \in rows : x.client = c} : c \in {y.client : y \in rows}}

\* GROUP BY client_net.
GroupByActor(rows) == {{x \in rows : x.net = a} : a \in {y.net : y \in rows}}

\* HAVING count >= threshold.
Reached(r) == {g \in GroupByActor(RowsOf(r)) : Count(r, g) >= Cfg.rules[r].threshold}

ActorOfRows(g) == (CHOOSE x \in g : TRUE).net

\* ORDER BY count DESC LIMIT: which of those that counted alike come first is for
\* the database to say, here by an order tie of the actors.
Before(r, g, h, tie) ==
    \/ Count(r, g) > Count(r, h)
    \/ Count(r, g) = Count(r, h) /\ tie[ActorOfRows(g)] < tie[ActorOfRows(h)]

Limited(r, tie) ==
    LET reached == Reached(r) IN
    {g \in reached : Cardinality({h \in reached : Before(r, h, g, tie)}) < SubjectCap}

\* MAX(client) of a group.
Representative(g) ==
    CHOOSE c \in {x.client : x \in g} : \A d \in {x.client : x \in g} : TextRank[d] <= TextRank[c]

\* What a detector returns: the representatives, or "global".
Detected(r, tie) ==
    IF r \in PerActor
    THEN {Representative(g) : g \in Limited(r, tie)}
    ELSE {Global : g \in IF Cardinality(RowsOf(r)) >= Cfg.rules[r].threshold THEN {1} ELSE {}}

-------------------------------------------------------------------------------
(* An evaluation.                                                             *)

ExceptedBy == [n \in Config |-> {c \in Client : IpMatchesAny(c, Setting[n].exceptions)}]
Edge == {c \in Client : ClassifyIp(c) = "cloudflare"}

Excepted(s) == s \in ExceptedBy[config]
Skipped(s) == Excepted(s) \/ s \in Edge

\* The rules and subjects raised, by the rules that are on and do not throw.
Raised(tie, failed) ==
    UNION {{r} \X {s \in Detected(r, tie) : ~Skipped(s)} :
             r \in RulesInForce \ failed}

\* Mutant: nothing is purged.
KeepAll == findings

\* #purgeExcepted.
Purged == {f \in findings : ~Excepted(f.subject)}

\* Mutant: INSERT without ON CONFLICT.
InsertedAgain(raised) ==
    Purged
    \cup {[rule |-> p[1], subject |-> p[2], severity |-> Cfg.rules[p[1]].severity,
           acknowledged |-> FALSE] : p \in raised}

\* The upsert replaces the row of the rule and the subject, unacknowledged.
Upserted(raised) ==
    {f \in Purged : <<f.rule, f.subject>> \notin raised}
    \cup {[rule |-> p[1], subject |-> p[2], severity |-> Cfg.rules[p[1]].severity,
           acknowledged |-> FALSE] : p \in raised}

\* Mutant: each address is a candidate of its own.
CandidatesExact(raised) == {q[2] : q \in {p \in raised : p[2] # Global}}

Candidates(raised) == {ActorOf(p[2]) : p \in {q \in raised : q[2] # Global}}
RulesOf(raised, t) == {p[1] : p \in {q \in raised : q[2] # Global /\ ActorOf(q[2]) = t}}
MembersOf(raised, t) == {p[2] : p \in {q \in raised : q[2] # Global /\ ActorOf(q[2]) = t}}

\* Severity by severity: what the rules of one add to the score.
Score(rules) ==
    LET of(s) == Weight[s] * Cardinality({r \in rules : Cfg.rules[r].severity = s})
    IN  of("info") + of("low") + of("medium") + of("high") + of("critical")

\* The rows of an actor before the window.
History(t) == {x \in log : x.net = t /\ x.age >= Cfg.window}

\* #hasGoodHistory: enough requests of the day before, at least half of them served.
HasGoodHistory(t) ==
    LET good == Cardinality({x \in History(t) : x.req.status < 400}) IN
    good >= GoodMin /\ good * 2 >= Cardinality(History(t))

Targets == {b.target : b \in banned}

\* #maybeAutoBan: the candidates that are banned.
AutoBans(raised) ==
    IF ~Cfg.autoBan.enabled THEN {}
    ELSE {t \in Candidates(raised) :
            LET rules == RulesOf(raised, t) IN
            /\ \E r \in rules : Rank[Cfg.rules[r].severity] >= Rank[Cfg.autoBan.minSeverity]
            /\ Cardinality(rules) >= Cfg.autoBan.minFindings
            /\ Score(rules) >= Cfg.autoBan.minScore
            /\ \E m \in MembersOf(raised, t) : ~IsBanned(m, Targets)
            /\ ~HasGoodHistory(t)
            /\ BanAllowed(t, Cfg.exceptions)}

\* A ban that is there stays automatic or not (its reason is replaced).
AddBans(targets, auto) ==
    banned \cup {[target |-> t, auto |-> auto] : t \in targets \ Targets}

Evaluate(tie, failed) ==
    LET raised == Raised(tie, failed) IN
    /\ findings' = Upserted(raised)
    /\ banned' = AddBans(AutoBans(raised), TRUE)
    /\ last' = [quiet |-> TRUE, failed |-> failed]
    /\ UNCHANGED <<log, config, pending>>

Tie == {f \in [Actor -> 1 .. Cardinality(Actor)] : \A a, b \in Actor : f[a] = f[b] => a = b}

\* The timer, or an operator, starts one.
EvaluateNow == UNCHANGED puts /\ \E tie \in Tie, failed \in SUBSET MayThrow : Evaluate(tie, failed)

-------------------------------------------------------------------------------
(* Requests, time and handlers.                                               *)

\* BlockedPaths#handle bans the client of this request, in two seconds.
Hit(c, q) ==
    /\ Cfg.blocked.autoBan /\ q.uri \in Cfg.blocked.paths
    /\ ClassifyIp(c) = "public" /\ ~Excepted(c)

\* A request is logged and ingested.
Ingest(c, q) ==
    /\ Cardinality(log) < MaxRows
    /\ log' = log \cup {[client |-> c, net |-> ActorOf(c), req |-> q, age |-> 0]}
    /\ pending' = IF Hit(c, q) THEN pending \cup {c} ELSE pending
    /\ Changed /\ UNCHANGED <<config, findings, banned, puts>>

HitBans ==
    {ActorOf(c) : c \in {d \in pending : /\ ~IsBanned(d, Targets)
                                       /\ BanAllowed(ActorOf(d), Cfg.exceptions)}}

\* BlockedPaths#flush, from its timer or in a shutdown.
Flush ==
    /\ pending # {}
    /\ pending' = {}
    /\ banned' = AddBans(HitBans, TRUE)
    /\ Changed /\ UNCHANGED <<log, config, findings, puts>>

\* The process is killed and starts again: what waited in it is gone.
Kill ==
    /\ pending' = {} /\ puts' = 0
    /\ UNCHANGED <<log, config, findings, banned, last>>

Tick ==
    /\ log # {} /\ pending = {}
    /\ log' = {[x EXCEPT !.age = @ + 1] : x \in {y \in log : y.age + 1 < Lookback}}
    /\ Changed /\ UNCHANGED <<config, findings, banned, pending, puts>>

\* PUT /api/threats/config saves, then waits for the blocked paths to be applied.
SaveConfig(n) ==
    /\ puts < MaxPuts
    /\ config' = n
    /\ puts' = puts + 1
    /\ Changed /\ UNCHANGED <<log, findings, banned, pending>>

\* They are: an evaluation follows at once.
ApplyDone ==
    /\ puts > 0
    /\ puts' = puts - 1
    /\ \E tie \in Tie, failed \in SUBSET MayThrow : Evaluate(tie, failed)

\* They fail: none does.
ApplyFails ==
    /\ puts > 0
    /\ puts' = puts - 1
    /\ UNCHANGED <<log, config, findings, banned, pending, last>>

Acknowledge(f) ==
    /\ findings' = (findings \ {f}) \cup {[f EXCEPT !.acknowledged = TRUE]}
    /\ Changed /\ UNCHANGED <<log, config, banned, pending, puts>>

AcknowledgeAll ==
    /\ findings' = {[f EXCEPT !.acknowledged = TRUE] : f \in findings}
    /\ Changed /\ UNCHANGED <<log, config, banned, pending, puts>>

Clear ==
    /\ findings' = {}
    /\ Changed /\ UNCHANGED <<log, config, banned, pending, puts>>

\* POST and DELETE /api/bans.
Ban(e) ==
    /\ BanAllowed(Widen(e), Cfg.exceptions)
    /\ banned' = AddBans({Widen(e)}, FALSE)
    /\ Changed /\ UNCHANGED <<log, config, findings, pending, puts>>

Unban(e) ==
    /\ banned' = {b \in banned : b.target \in Unbanned(e, Targets)}
    /\ Changed /\ UNCHANGED <<log, config, findings, pending, puts>>

Next ==
    \/ \E t \in Traffic : Ingest(t[1], t[2])
    \/ Flush
    \/ Kill
    \/ Tick
    \/ EvaluateNow
    \/ \E n \in Config : SaveConfig(n)
    \/ ApplyDone
    \/ ApplyFails
    \/ \E f \in findings : Acknowledge(f)
    \/ AcknowledgeAll
    \/ Clear
    \/ \E e \in BanTarget : Ban(e) \/ Unban(e)

Spec == Init /\ [][Next]_vars

-------------------------------------------------------------------------------
(* Properties.  They are stated over the rows and the sets of addresses, not  *)
(* over the groups, representatives and masks the code works with.            *)

People(a) == {c \in Client : Within(c, a)}

\* The requests of an actor that count for a rule.
Evidence(r, a) ==
    {x \in log : /\ x.age < Cfg.window /\ Within(x.client, a)
                 /\ Matches(r, x.req, Cfg.rules[r].patterns)}
Over(r, a) == Count(r, Evidence(r, a)) >= Cfg.rules[r].threshold

Trusted(c) == \E e \in Cfg.exceptions : Within(c, e)
Spared(a) == \E c \in People(a) : Trusted(c) \/ ClassifyIp(c) = "cloudflare"

\* As many others as a query returns have counted at least as much.
CrowdedOut(r, a) ==
    Cardinality({b \in Actor \ {a} : Count(r, Evidence(r, b)) >= Count(r, Evidence(r, a))})
        >= SubjectCap

\* The arithmetic of masks and texts is that of sets of addresses, at every prefix
\* length, /0, the full length and one too long among them: an exception covers
\* what its prefix says, a ban is refused exactly when it touches one (or a
\* private address), and a ban of a client covers its whole actor and nothing else.
\* It depends on no variable and is checked once, in the initial state.
AddressesAgree ==
    Init =>
        /\ MatchIsMembership
        /\ OverlapIsIntersection
        /\ ActorsPartition
        /\ TargetsAreSets
        /\ PrivateIsRefused
        /\ TextRoundTrips

\* Whatever addresses an actor rotates through and whatever was acknowledged or
\* cleared before, after an evaluation every rule it is over the threshold of has
\* an open finding of one of its addresses, unless the query is full, the rule
\* threw, or one of its addresses is trusted or Cloudflare's (README: "A scanner
\* cannot dodge a threshold by rotating addresses").
NobodyMissed ==
    last.quiet => \A r \in (RulesInForce \cap PerActor) \ last.failed, a \in Actor :
        Over(r, a) =>
            \/ \E f \in findings : f.rule = r /\ f.subject \in People(a) /\ ~f.acknowledged
            \/ Spared(a) \/ CrowdedOut(r, a)

\* After an evaluation no finding is of a trusted address, whenever it was raised
\* (README: "Existing findings for a newly trusted address are removed on the next
\* cycle").
TrustedStayOut ==
    last.quiet => \A f \in findings : f.subject = Global \/ ~Trusted(f.subject)

\* The case against an actor, from the requests of all its addresses.
Charges(a) == {r \in RulesInForce \cap PerActor : Over(r, a)}
Serious(rules) ==
    /\ \E r \in rules : Rank[Cfg.rules[r].severity] >= Rank[Cfg.autoBan.minSeverity]
    /\ Cardinality(rules) >= Cfg.autoBan.minFindings
    /\ Score(rules) >= Cfg.autoBan.minScore
Before24h(a) == {x \in log : Within(x.client, a) /\ x.age >= Cfg.window}
Established(a) ==
    LET good == {x \in Before24h(a) : x.req.status < 400} IN
    Cardinality(good) >= GoodMin /\ Cardinality(good) * 2 >= Cardinality(Before24h(a))

\* What its addresses did in the window suffices, and its record before is not good.
Earned(a) == Cfg.autoBan.enabled /\ Serious(Charges(a)) /\ ~Established(a)

\* The client has just asked for a path that some configuration blocks at once.
AskedBlocked(c) ==
    \E x \in log, n \in Config :
        x.client = c /\ x.age = 0 /\ Setting[n].blocked.autoBan /\ x.req.uri \in Setting[n].blocked.paths

\* An automatic ban is of a whole actor and never touches a trusted or a private
\* address.  It is one the actor has earned, and then never of one with a good record
\* (README: "Two weak signals can never add up to a ban"), unless it leaves the queue
\* of those who just asked for a blocked path: these are banned whatever their record
\* and their score (README: "without waiting for the auto-ban score").
NewBansEarned ==
    \A b \in banned' \ banned : b.auto =>
        /\ b.target \in Actor
        /\ \A c \in Members(b.target) : ~Trusted(c) /\ ClassifyIp(c) # "private"
        /\ \/ Earned(b.target)
           \/ pending' = {} /\ \E c \in pending : Within(c, b.target) /\ AskedBlocked(c)
\* Every step bans so.
BansEarned == [][NewBansEarned]_vars

\* Whoever earned a ban has it after the evaluation, on every address of the actor,
\* unless an earlier ban of some of them stood in for it.
EarnedBansHappen ==
    last.quiet /\ Cfg.autoBan.enabled => \A a \in Actor :
        LET charges == {r \in Charges(a) \ last.failed : ~CrowdedOut(r, a)} IN
        Serious(charges) /\ ~Established(a) /\ ~Spared(a) /\ BanAllowed(a, Cfg.exceptions) =>
            \/ \A c \in Members(a) : IsBanned(c, Targets)
            \/ \E c \in Members(a), b \in banned : Within(c, b.target)

================================================================================
