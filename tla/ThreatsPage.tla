------------------------------- MODULE ThreatsPage -------------------------------
(***************************************************************************)
(* The Threats page of the web frontend in several browser tabs, against   *)
(* the handlers it calls.  A tab keeps a whole copy of the configuration,  *)
(* loads findings and configuration with two requests that are answered in *)
(* any order, and saves by sending the whole copy back.                    *)
(*                                                                         *)
(* Of the configuration the trusted list, one number and the soundness of  *)
(* the blocked paths are kept; of a finding its subject and whether it is  *)
(* open; of the ban list the subjects, and a range that covers some of them.*)
(* Toasts, layout, the test mail and findings raised meanwhile are left out. *)
(***************************************************************************)
EXTENDS Naturals, Sequences, FiniteSets, SequencesExt

CONSTANTS Tab,
          Subject,        \* subjects of findings, addresses
          TargetOf,       \* subnet64: what trusting a subject writes
          FirstTrusted,   \* the trusted list at the start
          InRange,        \* the subjects a banned range covers, which no button unbans
          MaxExceptions,  \* what asStringList keeps of a trusted list (1000)
          MaxWindow,
          MaxClicks,      \* bound: what the operators do in all
          MaxFixes,       \* bound: how many of these are bans, unbans, acknowledgements
          MaxLoads        \* bound: loads under way, of all tabs together

Target == {TargetOf[s] : s \in Subject} \cup ToSet(FirstTrusted)
Trusted == {q \in SeqOf(Target, MaxExceptions + 1) : IsInjective(q)}
Config == [exceptions : Trusted, window : 0 .. MaxWindow, sound : BOOLEAN]
Kind == {"trust", "save", "ack", "ackAll", "ban", "unban"}
None == "none"

ASSUME PageAssumption ==
    /\ FirstTrusted \in Trusted /\ Len(FirstTrusted) <= MaxExceptions
    /\ InRange \subseteq Subject /\ None \notin Subject
    /\ {MaxExceptions, MaxWindow, MaxClicks, MaxFixes, MaxLoads} \subseteq Nat /\ MaxWindow >= 1

VARIABLES
    saved,   \* the configuration of the server
    open,    \* its open findings
    bans,    \* its ban list
    page,    \* the state of each tab
    loads,   \* reload() calls under way, of each tab in the order they started
    calls,   \* other calls under way
    timers,  \* reloads scheduled by a save or a trust, in each tab
    clicks,  \* bounds: how often anything, and a finding's button, was clicked
    fixes,
    rev,     \* history: the calls the server has carried out
    since    \* history: target -> the call it has been trusted since

vars == <<saved, open, bans, page, loads, calls, timers, clicks, fixes, rev, since>>

server == <<saved, open, bans, rev, since>>

\* base, own, edited, failed, removed and misled are history: the age of what the
\* tab shows, its last call that succeeded, whether the copy was changed since it
\* was loaded, and how, and whether an older load has finished after a newer one.
Page == [config : {{}} \cup {{c} : c \in Config}, shown : SUBSET Subject, banned : SUBSET Subject,
         error : BOOLEAN, base : Nat, own : Nat, edited : {"no", "trust", "typed"},
         failed : BOOLEAN, removed : SUBSET Target, misled : BOOLEAN]

\* What the server has is clamped and cut, what a tab has may not be.
TypeOK ==
    /\ saved \in Config /\ saved.window >= 1 /\ saved.sound
    /\ Len(saved.exceptions) <= MaxExceptions
    /\ open \subseteq Subject /\ bans \subseteq Subject
    /\ page \in [Tab -> Page]
    /\ \A t \in Tab : \A i \in DOMAIN loads[t] : LET l == loads[t][i] IN
         Cardinality(l.findings) <= 1 /\ Cardinality(l.config) <= 1 /\ l.old \in BOOLEAN
    /\ \A c \in calls : /\ c.tab \in Tab /\ c.kind \in Kind /\ c.config \subseteq Config
                        /\ c.stage \in {"sent", "done", "refused"} /\ c.rev \in 0 .. rev
    /\ timers \in [Tab -> 0 .. MaxClicks]
    /\ clicks \in 0 .. MaxClicks /\ fixes \in 0 .. clicks /\ rev \in 0 .. clicks
    /\ since \in [Target -> 0 .. rev]

\* Every finding's "banned" is BanService#checker.
BannedNow == bans \cup InRange

NoAnswers == [findings |-> {}, config |-> {}, old |-> FALSE]

\* The tabs are open, and their first loads done.
Init ==
    /\ saved = [exceptions |-> FirstTrusted, window |-> 1, sound |-> TRUE]
    /\ open = Subject /\ bans = {}
    /\ page = [t \in Tab |->
         [config |-> {saved}, shown |-> open, banned |-> BannedNow,
          error |-> FALSE, base |-> 0, own |-> 0,
          edited |-> "no", failed |-> FALSE, removed |-> {}, misled |-> FALSE]]
    /\ loads = [t \in Tab |-> <<>>] /\ calls = {} /\ timers = [t \in Tab |-> 0]
    /\ clicks = 0 /\ fixes = 0 /\ rev = 0
    /\ since = [x \in Target |-> 0]

\* The error box replaces the page, its buttons included.
Usable(t) == ~page[t].error

Click == clicks' = clicks + 1 /\ UNCHANGED fixes
ClickFix == fixes < MaxFixes /\ clicks' = clicks + 1 /\ fixes' = fixes + 1

-------------------------------------------------------------------------------
(* reload().                                                                  *)

UnderWay == MapThenSumSet(LAMBDA t : Len(loads[t]), Tab)

StartLoad(t) == UnderWay < MaxLoads /\ loads' = [loads EXCEPT ![t] = Append(@, NoAnswers)]

\* The button.
Refresh(t) ==
    /\ Click
    /\ StartLoad(t)
    /\ UNCHANGED <<server, page, calls, timers>>

\* GET /api/threats and GET /api/threats/config answer.
AnswerFindings(t, i) ==
    /\ loads[t][i].findings = {}
    /\ loads' = [loads EXCEPT ![t][i].findings =
                    {[shown |-> open, banned |-> BannedNow, rev |-> rev]}]
    /\ UNCHANGED <<server, page, calls, timers, clicks, fixes>>

AnswerConfig(t, i) ==
    /\ loads[t][i].config = {}
    /\ loads' = [loads EXCEPT ![t][i].config = {[config |-> saved, rev |-> rev]}]
    /\ UNCHANGED <<server, page, calls, timers, clicks, fixes>>

\* It is over; the loads that started before it and are not are old from now on.
Finish(t, i) ==
    loads' = [loads EXCEPT ![t] =
        RemoveAt([j \in DOMAIN @ |-> IF j < i THEN [@[j] EXCEPT !.old = TRUE] ELSE @[j]], i)]

\* Both answers are there, whether or not a newer load has finished.
Deliver(t, i) ==
    /\ Finish(t, i)
    /\ \E f \in loads[t][i].findings, c \in loads[t][i].config :
         page' = [page EXCEPT ![t] =
             [@ EXCEPT !.config = {c.config}, !.shown = f.shown, !.banned = f.banned \cap f.shown,
                       !.error = FALSE,
                       !.base = IF f.rev < c.rev THEN f.rev ELSE c.rev,
                       !.edited = "no", !.failed = FALSE, !.removed = {},
                       !.misled = loads[t][i].old]]
    /\ UNCHANGED <<server, calls, timers, clicks, fixes>>

\* One of the two fails, on its way there or back.
LoadFails(t, i) ==
    /\ loads[t][i].findings = {} \/ loads[t][i].config = {}
    /\ Finish(t, i)
    /\ page' = [page EXCEPT ![t].error = TRUE]
    /\ UNCHANGED <<server, calls, timers, clicks, fixes>>

\* A reload scheduled earlier.
TimerFires(t) ==
    /\ timers[t] > 0
    /\ timers' = [timers EXCEPT ![t] = @ - 1]
    /\ StartLoad(t)
    /\ UNCHANGED <<server, page, calls, clicks, fixes>>

-------------------------------------------------------------------------------
(* What an operator does.                                                     *)

Call(t, kind, arg, config) ==
    [tab |-> t, kind |-> kind, arg |-> arg, config |-> config,
     n |-> CHOOSE n \in 1 .. MaxClicks : \A c \in calls : c.n # n, stage |-> "sent", rev |-> 0,
     base |-> IF config = {} THEN 0 ELSE page[t].base,
     removed |-> IF config = {} THEN {} ELSE page[t].removed]

\* Mutant: the list is not spread into the new one.
TrustOnly(exceptions, x) == <<x>>

WithTrust(exceptions, x) == Append(exceptions, x)

\* trustIp changes the copy before it saves it, edits not saved yet included, and
\* does nothing when the copy has the target already.
Trust(t, s) ==
    /\ Click /\ s \in page[t].shown
    /\ \E c \in page[t].config :
         LET next == [c EXCEPT !.exceptions = WithTrust(@, TargetOf[s])] IN
         /\ TargetOf[s] \notin ToSet(c.exceptions) /\ Len(c.exceptions) <= MaxExceptions
         /\ page' = [page EXCEPT ![t].config = {next}, ![t].edited = IF @ = "no" THEN "trust" ELSE @]
         /\ calls' = calls \cup {Call(t, "trust", TargetOf[s], {next})}
    /\ UNCHANGED <<server, loads, timers>>

Typed(t, c) == page' = [page EXCEPT ![t].config = {c}, ![t].edited = "typed"]

\* The settings panel: a number, the blocked paths, the trusted list.
TypeWindow(t, n) ==
    /\ Click
    /\ \E c \in page[t].config : c.window # n /\ Typed(t, [c EXCEPT !.window = n])
    /\ UNCHANGED <<server, loads, calls, timers>>

TypePatterns(t) ==
    /\ Click
    /\ \E c \in page[t].config : Typed(t, [c EXCEPT !.sound = ~@])
    /\ UNCHANGED <<server, loads, calls, timers>>

TypeException(t, x) ==
    /\ Click
    /\ \E c \in page[t].config :
         /\ x \notin ToSet(c.exceptions) /\ Len(c.exceptions) <= MaxExceptions
         /\ page' = [page EXCEPT
              ![t].config = {[c EXCEPT !.exceptions = Append(@, x)]},
              ![t].edited = "typed",
              ![t].removed = IF Len(c.exceptions) < MaxExceptions THEN @ \ {x} ELSE @]
    /\ UNCHANGED <<server, loads, calls, timers>>

DeleteException(t, i) ==
    /\ Click
    /\ \E c \in page[t].config :
         /\ i \in DOMAIN c.exceptions
         /\ page' = [page EXCEPT
              ![t].config = {[c EXCEPT !.exceptions = RemoveAt(@, i)]},
              ![t].edited = "typed",
              ![t].removed = @ \cup {c.exceptions[i]}]
    /\ UNCHANGED <<server, loads, calls, timers>>

Save(t) ==
    /\ Click
    /\ calls' = calls \cup {Call(t, "save", None, page[t].config)}
    /\ UNCHANGED <<server, page, loads, timers>>

\* The buttons of a finding: Ban or Unban, by what the page shows, and Ack.
BanIp(t, s) ==
    /\ ClickFix /\ s \in page[t].shown \ page[t].banned
    /\ calls' = calls \cup {Call(t, "ban", s, {})}
    /\ UNCHANGED <<server, page, loads, timers>>

UnbanIp(t, s) ==
    /\ ClickFix /\ s \in page[t].banned
    /\ calls' = calls \cup {Call(t, "unban", s, {})}
    /\ UNCHANGED <<server, page, loads, timers>>

Ack(t, s) ==
    /\ ClickFix /\ s \in page[t].shown
    /\ calls' = calls \cup {Call(t, "ack", s, {})}
    /\ UNCHANGED <<server, page, loads, timers>>

\* Ack all, or Clear, which leave no finding open either way.
AckAll(t) ==
    /\ ClickFix
    /\ calls' = calls \cup {Call(t, "ackAll", None, {})}
    /\ UNCHANGED <<server, page, loads, timers>>

-------------------------------------------------------------------------------
(* The server.                                                                *)

\* Mutant: the number is not clamped.
Cut(c) == [c EXCEPT !.exceptions = SubSeq(@, 1, IF Len(@) > MaxExceptions THEN MaxExceptions ELSE Len(@))]

\* sanitizeThreatConfig.
Clean(c) ==
    [c EXCEPT !.exceptions = SubSeq(@, 1, IF Len(@) > MaxExceptions THEN MaxExceptions ELSE Len(@)),
              !.window = IF @ < 1 THEN 1 ELSE @]

Answered(c, stage) == calls' = (calls \ {c}) \cup {[c EXCEPT !.stage = stage, !.rev = rev']}

Excepted(c) == {s \in Subject : TargetOf[s] \in ToSet(c.exceptions)}

\* PUT /api/threats/config, with the evaluation it starts.
ServePut(c) ==
    /\ c.stage = "sent" /\ c.kind \in {"trust", "save"}
    /\ \E sent \in c.config :
         IF sent.sound
         THEN /\ saved' = Clean(sent)
              /\ rev' = rev + 1
              /\ since' = [x \in Target |->
                              IF x \in ToSet(saved.exceptions) /\ x \in ToSet(saved'.exceptions)
                              THEN since[x] ELSE rev']
              /\ open' = open \ Excepted(saved')
              /\ Answered(c, "done")
         ELSE /\ UNCHANGED <<saved, rev, since, open>>
              /\ Answered(c, "refused")
    /\ UNCHANGED <<bans, page, loads, timers, clicks, fixes>>

\* POST and DELETE /api/bans: a trusted subject is refused, and only the entry of
\* the subject itself is taken off the list.
ServeBan(c) ==
    /\ c.stage = "sent" /\ c.kind \in {"ban", "unban"}
    /\ IF c.kind = "ban" /\ c.arg \in Excepted(saved)
       THEN UNCHANGED <<bans, rev>> /\ Answered(c, "refused")
       ELSE /\ bans' = IF c.kind = "ban" THEN bans \cup {c.arg} ELSE bans \ {c.arg}
            /\ rev' = rev + 1
            /\ Answered(c, "done")
    /\ UNCHANGED <<saved, open, since, page, loads, timers, clicks, fixes>>

\* POST /api/threats/ack, /ack-all and /clear.
ServeAck(c) ==
    /\ c.stage = "sent" /\ c.kind \in {"ack", "ackAll"}
    /\ open' = IF c.kind = "ack" THEN open \ {c.arg} ELSE {}
    /\ rev' = rev + 1
    /\ Answered(c, "done")
    /\ UNCHANGED <<saved, bans, since, page, loads, timers, clicks, fixes>>

-------------------------------------------------------------------------------
(* The answers.                                                               *)

\* Mutant: unban does not load again.
ReloadsBut == {"ackAll", "ban"}

\* The calls after which the page loads at once, and those it waits a little after.
Reloads == {"ackAll", "ban", "unban"}
ReloadsLater == {"trust", "save"}

Own(p, c) == IF c.rev > p.own /\ c.kind # "ack" THEN c.rev ELSE p.own

\* An acknowledged finding goes from the page at once.
Acked(c) == IF c.kind = "ack" THEN {c.arg} ELSE {}

\* A call has succeeded.
Succeeds(c) ==
    /\ c.stage = "done"
    /\ calls' = calls \ {c}
    /\ timers' = [timers EXCEPT ![c.tab] = IF c.kind \in ReloadsLater THEN @ + 1 ELSE @]
    /\ IF c.kind \in Reloads THEN StartLoad(c.tab) ELSE UNCHANGED loads
    /\ page' = [page EXCEPT ![c.tab].own = Own(page[c.tab], c),
                           ![c.tab].shown = @ \ Acked(c), ![c.tab].banned = @ \ Acked(c)]
    /\ UNCHANGED <<server, clicks, fixes>>

\* It has not: refused, lost on the way, or its answer was.  Nothing is undone, and
\* only a save and a ban say so.
Fails(c) ==
    /\ calls' = calls \ {c}
    /\ page' = [page EXCEPT ![c.tab].failed = TRUE]
    /\ UNCHANGED <<server, loads, timers, clicks, fixes>>

Operator(t) ==
    /\ clicks < MaxClicks /\ Usable(t)
    /\ \/ Refresh(t) \/ TypePatterns(t) \/ Save(t) \/ AckAll(t)
       \/ \E n \in 0 .. MaxWindow : TypeWindow(t, n)
       \/ \E x \in Target : TypeException(t, x)
       \/ \E i \in 1 .. MaxExceptions + 1 : DeleteException(t, i)
       \/ \E s \in Subject : Trust(t, s) \/ BanIp(t, s) \/ UnbanIp(t, s) \/ Ack(t, s)

Next ==
    \/ \E t \in Tab : Operator(t)
    \/ \E t \in Tab : \E i \in DOMAIN loads[t] :
          AnswerFindings(t, i) \/ AnswerConfig(t, i) \/ Deliver(t, i) \/ LoadFails(t, i)
    \/ \E t \in Tab : TimerFires(t)
    \/ \E c \in calls : ServePut(c) \/ ServeBan(c) \/ ServeAck(c) \/ Succeeds(c) \/ Fails(c)

Spec == Init /\ [][Next]_vars

-------------------------------------------------------------------------------
(* Properties.                                                                *)

Settled(t) ==
    /\ loads[t] = <<>> /\ timers[t] = 0
    /\ \A c \in calls : c.tab # t

\* A page on which nothing is under way shows the server as it was after the page's
\* own last call, unless loads finished in the wrong order; it agrees with the
\* server if nothing happened there since; and a target it shows as trusted was
\* only not saved if the save failed.
SettledPage ==
    \A t \in Tab : LET p == page[t] IN Settled(t) /\ Usable(t) =>
        /\ ~p.misled => p.base >= p.own
        /\ p.edited = "no" /\ p.base = rev => p.config = {saved} /\ p.banned = BannedNow \cap p.shown
        /\ p.edited = "trust" => p.failed

\* The trusted list loses a target only to a save of a copy that was loaded before
\* the target came in, or from which an operator took it (and put it back, if at
\* all, behind the last place that is kept); and a trust that was carried out is on
\* the list, unless the list was full.
KeepsTrust ==
    \A c \in calls : c.stage = "sent" /\ [c EXCEPT !.stage = "done", !.rev = rev'] \in calls' =>
        /\ \A x \in ToSet(saved.exceptions) \ ToSet(saved'.exceptions) :
              c.base < since[x] \/ x \in c.removed
        /\ c.kind = "trust" => c.arg \in ToSet(saved'.exceptions)
                               \/ Len(saved'.exceptions) = MaxExceptions

\* Every step keeps the trusted list so.
TrustKept == [][KeepsTrust]_vars

==================================================================================
