----------------------------- MODULE ThreatAlerts -----------------------------
(***************************************************************************)
(* Evaluations of the threat engine and the mails they send.  The minute   *)
(* timer, POST /api/threats/run and every saved configuration start one,   *)
(* and nothing keeps them apart: an evaluation waits for the reload of its *)
(* bans and for the mail service, and others start meanwhile.  Only the    *)
(* stretches between these waits are steps.                                *)
(*                                                                         *)
(* A finding is a rule and a subject: the cooldown is kept per rule, the   *)
(* number of findings a mail needs counts subjects.  An evaluation reads   *)
(* the clock once, when it starts, and uses that time to its end: its mail *)
(* goes out later, by as long as it has waited.                            *)
(***************************************************************************)
EXTENDS Integers, Sequences, FiniteSets

CONSTANTS Rule,          \* detectors whose findings reach the alert severity
          Subject,       \* addresses and hosts a finding can be about
          Slot,          \* evaluations that can be in progress at a time
          Cooldown,      \* cooldownMinutes, at least 1 here
          MinFindings,   \* alertMinFindings
          MaxTime,       \* the last time of a behaviour
          MaxFaults      \* failed sends, unanswered sends and kills in a behaviour

ASSUME AlertsAssumption ==
    /\ Cooldown \in Nat \ {0} /\ MinFindings \in Nat \ {0}
    /\ MaxTime \in Nat /\ MaxFaults \in Nat

\* Ways in which a mail can go out within the cooldown of its rules.
Mishap == {"overlap",     \* a mail about the rule was being sent already
           "unanswered",  \* the service took the mail, its answer was lost
           "killed"}      \* the process ended before it saved the cooldown

VARIABLES
    now,      \* the clock; 0 is long ago
    last,     \* app_settings cooldown:<rule>, 0 when not there
    run,      \* the evaluations in progress
    mails,    \* per rule, the mails delivered: start of the evaluation, delivery (history)
    mishaps,  \* what has happened of Mishap (history)
    faults    \* faults so far

vars == <<now, last, run, mails, mishaps, faults>>

Finding == [rule : Rule, subject : Subject]

RulesOf(findings) == {f.rule : f \in findings}

Idle == [step |-> "idle", at |-> 0, findings |-> {}, rules |-> {}]
Waiting(at, findings) == [Idle EXCEPT !.step = "banning", !.at = at, !.findings = findings]
Sending(at, rules) == [Idle EXCEPT !.step = "sending", !.at = at, !.rules = rules]

Evaluation ==
    [step : {"idle", "banning", "sending"}, at : Nat,
     findings : SUBSET Finding, rules : SUBSET Rule]

Mail == [at : Nat, sent : Nat]

Due(at, r) == at - last[r] >= Cooldown

\* The findings of a bundle are those whose rule is not cooling down.
ToReport(at, findings) == {f \in findings : Due(at, f.rule)}

Enough(at, findings) == Cardinality(ToReport(at, findings)) >= MinFindings

Init ==
    /\ now = Cooldown
    /\ last = [r \in Rule |-> 0]
    /\ run = [s \in Slot |-> Idle]
    /\ mails = [r \in Rule |-> <<>>]
    /\ mishaps = {}
    /\ faults = 0

\* Another evaluation has a mail about one of the rules on its way.
Overlaps(s, rules) ==
    \E t \in Slot \ {s} : run[t].step = "sending" /\ run[t].rules \cap rules # {}

\* #maybeAlert up to the call of the mail service.
MaybeAlert(s, at, findings) ==
    LET rulesReady == RulesOf(ToReport(at, findings)) IN
    /\ run' = [run EXCEPT ![s] = IF Enough(at, findings) THEN Sending(at, rulesReady) ELSE Idle]
    /\ mishaps' = IF Enough(at, findings) /\ Overlaps(s, rulesReady)
                  THEN mishaps \cup {"overlap"} ELSE mishaps

\* evaluate() up to its first wait, with what its detectors found.  Without new
\* bans it goes on to the mail, else it waits for the sync of the bans.
Evaluate(s, findings) ==
    /\ run[s] = Idle
    /\ \/ MaybeAlert(s, now, findings)
       \/ /\ run' = [run EXCEPT ![s] = Waiting(now, findings)]
          /\ UNCHANGED mishaps
    /\ UNCHANGED <<now, last, mails, faults>>

\* The sync of its bans is through.
Banned(s) ==
    /\ run[s].step = "banning"
    /\ MaybeAlert(s, run[s].at, run[s].findings)
    /\ UNCHANGED <<now, last, mails, faults>>

\* The mail is delivered now, for an evaluation that may have started long ago.
Delivered(s) ==
    [r \in Rule |-> IF r \in run[s].rules
                    THEN Append(mails[r], [at |-> run[s].at, sent |-> now]) ELSE mails[r]]

\* The end of the cooldown instead of the time of the mail.
CoolUntil(s, rules) == [r \in Rule |-> IF r \in rules THEN run[s].at + Cooldown ELSE last[r]]
CoolFrom(s, rules) == [r \in Rule |-> IF r \in rules THEN run[s].at ELSE last[r]]

\* A mail is sent and the cooldown of its rules is not saved.
AnsweredOnly(s) ==
    /\ run[s].step = "sending"
    /\ mails' = Delivered(s)
    /\ run' = [run EXCEPT ![s] = Idle]
    /\ UNCHANGED <<now, last, mishaps, faults>>

\* The mail service took the mail: the cooldown of its rules is saved.
Answered(s) ==
    /\ run[s].step = "sending"
    /\ mails' = Delivered(s)
    /\ last' = CoolFrom(s, run[s].rules)
    /\ run' = [run EXCEPT ![s] = Idle]
    /\ UNCHANGED <<now, mishaps, faults>>

\* A send that failed starts the cooldown all the same.
FailsAndCools(s) ==
    /\ run[s].step = "sending"
    /\ faults < MaxFaults
    /\ last' = CoolFrom(s, run[s].rules)
    /\ run' = [run EXCEPT ![s] = Idle]
    /\ faults' = faults + 1
    /\ UNCHANGED <<now, mails, mishaps>>

\* send() says no: nothing is saved, and the next evaluation tries again.  The
\* mail may have been delivered even so.
SendFails(s) ==
    /\ run[s].step = "sending"
    /\ faults < MaxFaults
    /\ \/ UNCHANGED <<mails, mishaps>>
       \/ mails' = Delivered(s) /\ mishaps' = mishaps \cup {"unanswered"}
    /\ run' = [run EXCEPT ![s] = Idle]
    /\ faults' = faults + 1
    /\ UNCHANGED <<now, last>>

\* The process ends and starts again: the evaluations are gone.  One mail on its
\* way may have been delivered, and some of its rules, saved one by one, may have
\* their cooldown.
Kill ==
    /\ faults < MaxFaults
    /\ \E s \in Slot :
         \/ UNCHANGED <<last, mails, mishaps>>
         \/ /\ run[s].step = "sending"
            /\ mails' = Delivered(s)
            /\ \E saved \in SUBSET run[s].rules : last' = CoolFrom(s, saved)
            /\ mishaps' = mishaps \cup {"killed"}
    /\ run' = [s \in Slot |-> Idle]
    /\ faults' = faults + 1
    /\ UNCHANGED now

Tick ==
    /\ now < MaxTime
    /\ now' = now + 1
    /\ UNCHANGED <<last, run, mails, mishaps, faults>>

Next ==
    \/ \E s \in Slot :
         \/ \E findings \in SUBSET Finding : Evaluate(s, findings)
         \/ Banned(s) \/ Answered(s) \/ SendFails(s)
    \/ Kill
    \/ Tick

Spec == Init /\ [][Next]_vars

-----------------------------------------------------------------------------
\* The variables have their types, and no clock reading is of the future.
TypeOK ==
    /\ now \in Nat
    /\ last \in [Rule -> Nat]
    /\ run \in [Slot -> Evaluation]
    /\ mails \in [Rule -> Seq(Mail)]
    /\ mishaps \subseteq Mishap
    /\ faults \in 0 .. MaxFaults
    /\ \A s \in Slot : run[s].at <= now
    /\ \A r \in Rule : last[r] <= now

\* A rule is silenced only from a mail about it that was delivered: a failed
\* send, a kill or an evaluation that gave up never starts a cooldown.
SilenceNeedsMail ==
    \A r \in Rule : last[r] > 0 => \E k \in 1 .. Len(mails[r]) : mails[r][k].at = last[r]

\* How long a mail went out after the time its cooldown counts from.
Waited(mail) == mail.sent - mail.at

\* Between the deliveries of two mails about a rule lies the cooldown less the
\* wait of the first: all of it, where the first went out as soon as it was
\* evaluated.  Excepted are mails that were being sent at once, and a mail whose
\* answer the program never had.
CooldownKept ==
    mishaps = {} => \A r \in Rule : \A k \in 1 .. Len(mails[r]) - 1 :
        mails[r][k + 1].sent - mails[r][k].sent >= Cooldown - Waited(mails[r][k])

\* While nothing unusual has happened, the saved cooldown is that of the last
\* mail, one evaluation at most is sending about a rule, and it was due.
LastIsLatest ==
    mishaps = {} => \A r \in Rule :
        mails[r] # <<>> => mails[r][Len(mails[r])].at = last[r]
SendersAreDue ==
    mishaps = {} => \A s \in Slot : run[s].step = "sending" =>
        /\ \A r \in run[s].rules : run[s].at - last[r] >= Cooldown
        /\ ~Overlaps(s, run[s].rules)

\* The inductive invariant.
IInv ==
    /\ TypeOK
    /\ SilenceNeedsMail
    /\ CooldownKept
    /\ LastIsLatest
    /\ SendersAreDue
===============================================================================
