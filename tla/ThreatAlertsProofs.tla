-------------------------- MODULE ThreatAlertsProofs --------------------------
(***************************************************************************)
(* Proofs about ThreatAlerts, for every number of rules and evaluations,   *)
(* every cooldown and every bound.                                         *)
(***************************************************************************)
EXTENDS ThreatAlerts, TLAPS

\* What the delivery of a mail does to the histories of the rules.
LEMMA DeliveredKeeps ==
  ASSUME TypeOK, NEW s \in Slot, mails' = Delivered(s)
  PROVE  /\ [at |-> run[s].at, sent |-> now] \in Mail
         /\ mails' \in [Rule -> Seq(Mail)]
         /\ \A r \in Rule :
              /\ r \in run[s].rules =>
                   mails'[r] = Append(mails[r], [at |-> run[s].at, sent |-> now])
              /\ r \notin run[s].rules => mails'[r] = mails[r]
<1> DEFINE mail == [at |-> run[s].at, sent |-> now]
<1>1. mail \in Mail BY DEF TypeOK, Evaluation, Mail
<1>2. \A r \in Rule : mails[r] \in Seq(Mail) /\ Append(mails[r], mail) \in Seq(Mail)
  BY <1>1 DEF TypeOK
<1>3. \A r \in Rule : mails'[r] = IF r \in run[s].rules THEN Append(mails[r], mail) ELSE mails[r]
  BY DEF Delivered
<1>4. mails' = [r \in Rule |-> mails'[r]] BY DEF Delivered
<1>5. mails' \in [Rule -> Seq(Mail)] BY <1>2, <1>3, <1>4
<1> QED BY <1>1, <1>3, <1>5

\* A mail that was delivered stays delivered.
LEMMA DeliveredSilence ==
  ASSUME TypeOK, NEW s \in Slot, mails' = Delivered(s), NEW r \in Rule,
         NEW k \in 1 .. Len(mails[r])
  PROVE  k \in 1 .. Len(mails'[r]) /\ mails'[r][k] = mails[r][k]
<1> DEFINE mail == [at |-> run[s].at, sent |-> now]
<1>1. mails[r] \in Seq(Mail) /\ mail \in Mail BY DeliveredKeeps DEF TypeOK
<1>2. CASE r \in run[s].rules
  <2>1. mails'[r] = Append(mails[r], mail) BY <1>2, DeliveredKeeps
  <2> HIDE DEF mail
  <2> QED BY <1>1, <2>1
<1>3. CASE r \notin run[s].rules
  BY <1>3, DeliveredKeeps
<1> QED BY <1>2, <1>3

\* The part of #maybeAlert before its wait, wherever it is reached.
LEMMA MaybeAlertKeeps ==
  ASSUME IInv, NEW s \in Slot, NEW at \in Nat, at <= now, NEW findings \in SUBSET Finding,
         MaybeAlert(s, at, findings), UNCHANGED <<now, last, mails, faults>>
  PROVE  IInv'
<1> DEFINE ready == RulesOf(ToReport(at, findings))
<1>1. ready \in SUBSET Rule BY DEF RulesOf, ToReport, Finding
<1>2. run' = [run EXCEPT ![s] = IF Enough(at, findings) THEN Sending(at, ready) ELSE Idle]
  BY DEF MaybeAlert
<1>3. run \in [Slot -> Evaluation] BY DEF IInv, TypeOK
<1>4. run'[s] = (IF Enough(at, findings) THEN Sending(at, ready) ELSE Idle)
      /\ \A t \in Slot \ {s} : run'[t] = run[t]
  BY <1>2, <1>3
<1>5. Sending(at, ready) \in Evaluation /\ Idle \in Evaluation
  BY <1>1 DEF Sending, Idle, Evaluation
<1>6. run' \in [Slot -> Evaluation] BY <1>2, <1>3, <1>5
<1>7. run'[s].at <= now
  BY <1>4 DEF Sending, Idle, IInv, TypeOK
<1>8. mishaps' \subseteq Mishap
  BY DEF MaybeAlert, IInv, TypeOK, Mishap
<1>9. TypeOK'
  BY <1>4, <1>6, <1>7, <1>8 DEF IInv, TypeOK
<1>10. SilenceNeedsMail' BY DEF IInv, SilenceNeedsMail
<1>11. mishaps' = {} => mishaps = {} BY DEF MaybeAlert
<1>12. CooldownKept' /\ LastIsLatest'
  BY <1>11 DEF IInv, CooldownKept, LastIsLatest
<1>13. SendersAreDue'
  <2> SUFFICES ASSUME mishaps' = {}, NEW t \in Slot, run'[t].step = "sending"
               PROVE  /\ \A r \in run'[t].rules : run'[t].at - last[r] >= Cooldown
                      /\ \A u \in Slot \ {t} :
                           run'[u].step = "sending" => run'[u].rules \cap run'[t].rules = {}
    BY DEF SendersAreDue, Overlaps
  <2>1. ~(Enough(at, findings) /\ Overlaps(s, ready)) BY DEF MaybeAlert
  <2>2. \A u \in Slot : run[u].step = "sending" =>
          /\ \A r \in run[u].rules : run[u].at - last[r] >= Cooldown
          /\ \A v \in Slot \ {u} : run[v].step = "sending" => run[v].rules \cap run[u].rules = {}
    BY <1>11 DEF IInv, SendersAreDue, Overlaps
  <2>3. run'[s].step = "sending" =>
          /\ Enough(at, findings) /\ run'[s].rules = ready /\ run'[s].at = at
    BY <1>4 DEF Sending, Idle
  <2>4. run'[s].step = "sending" =>
          \A u \in Slot \ {s} : run[u].step = "sending" => run[u].rules \cap ready = {}
    BY <2>1, <2>3 DEF Overlaps
  <2>5. \A r \in ready : at - last[r] >= Cooldown BY DEF RulesOf, ToReport, Due
  <2> HIDE DEF ready
  <2>6. CASE t = s BY <1>4, <2>3, <2>4, <2>5, <2>6
  <2>7. CASE t # s BY <1>4, <2>2, <2>3, <2>4, <2>7
  <2> QED BY <2>6, <2>7
<1> QED BY <1>9, <1>10, <1>12, <1>13 DEF IInv

LEMMA InitKeeps == Init => IInv
<1> SUFFICES ASSUME Init PROVE IInv OBVIOUS
<1>1. TypeOK
  BY AlertsAssumption DEF Init, TypeOK, Evaluation, Idle, Mishap
<1> QED
  BY <1>1 DEF Init, IInv, Idle, SilenceNeedsMail, CooldownKept,
              LastIsLatest, SendersAreDue

LEMMA EvaluateStep ==
  ASSUME IInv, NEW s \in Slot, NEW findings \in SUBSET Finding, Evaluate(s, findings)
  PROVE  IInv'
<1>1. now \in Nat /\ UNCHANGED <<now, last, mails, faults>> BY DEF Evaluate, IInv, TypeOK
<1>2. CASE MaybeAlert(s, now, findings)
  BY <1>1, <1>2, MaybeAlertKeeps
<1>3. CASE run' = [run EXCEPT ![s] = Waiting(now, findings)] /\ UNCHANGED mishaps
  <2>1. Waiting(now, findings) \in Evaluation BY <1>1 DEF Waiting, Idle, Evaluation
  <2>2. run \in [Slot -> Evaluation] BY DEF IInv, TypeOK
  <2>3. run'[s] = Waiting(now, findings) /\ \A t \in Slot \ {s} : run'[t] = run[t]
    BY <1>3, <2>2
  <2>4. run'[s].step # "sending" /\ run'[s].at <= now BY <1>1, <2>3 DEF Waiting, Idle
  <2>5. TypeOK' BY <1>1, <1>3, <2>1, <2>2, <2>3, <2>4 DEF IInv, TypeOK
  <2>6. SilenceNeedsMail' BY <1>1 DEF IInv, SilenceNeedsMail
  <2>7. CooldownKept' /\ LastIsLatest'
    BY <1>1, <1>3 DEF IInv, CooldownKept, LastIsLatest
  <2>8. SendersAreDue' BY <1>1, <1>3, <2>3, <2>4 DEF IInv, SendersAreDue, Overlaps
  <2> QED BY <2>5, <2>6, <2>7, <2>8 DEF IInv
<1> QED BY <1>2, <1>3 DEF Evaluate

LEMMA BannedStep == ASSUME IInv, NEW s \in Slot, Banned(s) PROVE IInv'
<1>1. run[s].at \in Nat /\ run[s].at <= now /\ run[s].findings \in SUBSET Finding
  BY DEF IInv, TypeOK, Evaluation
<1> QED BY <1>1, MaybeAlertKeeps DEF Banned

\* The mail service took the mail.
LEMMA AnsweredStep == ASSUME IInv, NEW s \in Slot, Answered(s) PROVE IInv'
<1> DEFINE at == run[s].at
           rules == run[s].rules
           mail == [at |-> at, sent |-> now]
<1>1. /\ run \in [Slot -> Evaluation] /\ last \in [Rule -> Nat] /\ mails \in [Rule -> Seq(Mail)]
      /\ at \in Nat /\ at <= now /\ rules \in SUBSET Rule /\ Cooldown \in Nat
  BY AlertsAssumption DEF IInv, TypeOK, Evaluation
<1>2. run[s].step = "sending" /\ UNCHANGED <<now, mishaps, faults>> BY DEF Answered
<1>3. run'[s] = Idle /\ \A t \in Slot \ {s} : run'[t] = run[t]
  BY <1>1 DEF Answered
<1>4. last' \in [Rule -> Nat] /\ \A r \in Rule : last'[r] = IF r \in rules THEN at ELSE last[r]
  BY <1>1 DEF Answered, CoolFrom
<1>5. /\ mail \in Mail /\ mail.at = at /\ mail.sent = now
      /\ mails' \in [Rule -> Seq(Mail)]
      /\ \A r \in Rule : /\ r \in rules => mails'[r] = Append(mails[r], mail)
                         /\ r \notin rules => mails'[r] = mails[r]
  BY DeliveredKeeps DEF Answered, IInv
<1>6. run' \in [Slot -> Evaluation]
  BY <1>1 DEF Answered, Idle, Evaluation
<1>7. Idle.step # "sending" /\ Idle.at = 0 BY DEF Idle
<1>8. TypeOK'
  <2>1. \A t \in Slot : run'[t].at <= now
    BY <1>1, <1>3, <1>7 DEF IInv, TypeOK
  <2>2. \A r \in Rule : last'[r] <= now
    BY <1>1, <1>4 DEF IInv, TypeOK
  <2> QED BY <1>2, <1>4, <1>5, <1>6, <2>1, <2>2 DEF IInv, TypeOK
<1>9. SilenceNeedsMail'
  <2> SUFFICES ASSUME NEW r \in Rule, last'[r] > 0
               PROVE  \E k \in 1 .. Len(mails'[r]) : mails'[r][k].at = last'[r]
    BY DEF SilenceNeedsMail
  <2>1. CASE r \in rules
    <3>1. mails'[r] = Append(mails[r], mail) /\ last'[r] = at BY <1>4, <1>5, <2>1
    <3>2. mails[r] \in Seq(Mail) BY <1>1
    <3>3. Len(mails'[r]) \in 1 .. Len(mails'[r]) /\ mails'[r][Len(mails'[r])] = mail
      <4> HIDE DEF mail
      <4> QED BY <1>5, <3>1, <3>2
    <3> QED BY <1>5, <3>1, <3>3
  <2>2. CASE r \notin rules
    BY <1>4, <1>5, <2>2 DEF IInv, SilenceNeedsMail
  <2> QED BY <2>1, <2>2
<1>10. LastIsLatest'
  <2> SUFFICES ASSUME mishaps = {}, NEW r \in Rule, mails'[r] # <<>>
               PROVE  mails'[r][Len(mails'[r])].at = last'[r]
    BY <1>2 DEF LastIsLatest
  <2>1. CASE r \in rules
    <3>1. mails'[r] = Append(mails[r], mail) /\ last'[r] = at BY <1>4, <1>5, <2>1
    <3>2. mails[r] \in Seq(Mail) BY <1>1
    <3> HIDE DEF mail
    <3> QED BY <1>5, <3>1, <3>2
  <2>2. CASE r \notin rules
    BY <1>4, <1>5, <2>2 DEF IInv, LastIsLatest
  <2> QED BY <2>1, <2>2
<1>11. CooldownKept'
  <2> SUFFICES ASSUME mishaps = {}, NEW r \in Rule, NEW k \in 1 .. Len(mails'[r]) - 1
               PROVE  mails'[r][k + 1].sent - mails'[r][k].sent >= Cooldown - Waited(mails'[r][k])
    BY <1>2 DEF CooldownKept, Waited
  <2>1. \A j \in 1 .. Len(mails[r]) - 1 :
          mails[r][j + 1].sent - mails[r][j].sent >= Cooldown - Waited(mails[r][j])
    BY DEF IInv, CooldownKept
  <2>2. CASE r \notin rules BY <1>5, <2>1, <2>2
  <2>3. CASE r \in rules
    <3>1. mails'[r] = Append(mails[r], mail) BY <1>5, <2>3
    <3>2. mails[r] \in Seq(Mail) BY <1>1
    <3>3. at - last[r] >= Cooldown
      BY <1>2, <2>3 DEF IInv, SendersAreDue
    <3>4. mails[r] # <<>> => mails[r][Len(mails[r])].at = last[r]
      BY DEF IInv, LastIsLatest
    <3>5. mail \in Mail /\ mail.sent = now BY <1>5
    <3> HIDE DEF mail
    <3>6. Len(mails'[r]) = Len(mails[r]) + 1 /\ Len(mails[r]) \in Nat BY <3>1, <3>2, <3>5
    <3>7. CASE k = Len(mails[r])
      <4>1. mails'[r][k + 1] = mail /\ mails'[r][k] = mails[r][k] /\ mails[r][k] \in Mail
        BY <3>1, <3>2, <3>5, <3>6, <3>7
      <4>2. mails[r] # <<>> BY <3>2, <3>7
      <4>3. mails[r][k].at = last[r] BY <3>4, <3>7, <4>2
      <4>4. mails[r][k].sent \in Nat /\ mails[r][k].at \in Nat BY <4>1 DEF Mail
      <4>5. now - mails[r][k].at >= Cooldown
        <5>1. now \in Nat /\ last[r] \in Nat BY <1>1 DEF IInv, TypeOK
        <5> HIDE DEF at
        <5> QED BY <1>1, <3>3, <4>3, <5>1
      <4> QED BY <1>1, <3>5, <4>1, <4>4, <4>5 DEF Waited, IInv, TypeOK
    <3>8. CASE k # Len(mails[r])
      <4>1. k \in 1 .. Len(mails[r]) - 1 BY <3>6, <3>8
      <4>2. mails'[r][k + 1] = mails[r][k + 1] /\ mails'[r][k] = mails[r][k]
        BY <3>1, <3>2, <3>5, <3>6, <4>1
      <4> QED BY <2>1, <4>1, <4>2
    <3> QED BY <3>7, <3>8
  <2> QED BY <2>2, <2>3
<1>12. SendersAreDue'
  <2> SUFFICES ASSUME mishaps = {}, NEW t \in Slot, run'[t].step = "sending"
               PROVE  /\ \A r \in run'[t].rules : run'[t].at - last'[r] >= Cooldown
                      /\ \A u \in Slot \ {t} :
                           run'[u].step = "sending" => run'[u].rules \cap run'[t].rules = {}
    BY <1>2 DEF SendersAreDue, Overlaps
  <2>1. t # s /\ run'[t] = run[t] BY <1>3, <1>7
  <2>2. /\ \A r \in run[t].rules : run[t].at - last[r] >= Cooldown
        /\ \A u \in Slot \ {t} : run[u].step = "sending" => run[u].rules \cap run[t].rules = {}
    BY <2>1 DEF IInv, SendersAreDue, Overlaps
  <2>3. rules \cap run[t].rules = {} BY <1>2, <2>1, <2>2
  <2>4. run[t].rules \in SUBSET Rule BY <1>1 DEF Evaluation
  <2>5. \A r \in run[t].rules : last'[r] = last[r] BY <1>4, <2>3, <2>4
  <2> QED BY <1>3, <1>7, <2>1, <2>2, <2>5
<1> QED BY <1>8, <1>9, <1>10, <1>11, <1>12 DEF IInv

\* Evaluations that end without saving anything: their mail was delivered, and
\* that is a mishap, or it was not.
LEMMA EndedStep ==
  ASSUME IInv, UNCHANGED now, faults' \in 0 .. MaxFaults,
         run' \in [Slot -> Evaluation], \A s \in Slot : run'[s] \in {Idle, run[s]},
         \/ UNCHANGED <<last, mails, mishaps>>
         \/ \E s \in Slot, m \in Mishap : \E saved \in SUBSET run[s].rules :
              /\ mails' = Delivered(s) /\ mishaps' = mishaps \cup {m}
              /\ last' = CoolFrom(s, saved)
  PROVE  IInv'
<1>1. Idle.step # "sending" /\ Idle.at = 0 BY DEF Idle
<1>2. \A s \in Slot : run'[s].at <= now
  <2> TAKE s \in Slot
  <2>1. run[s].at <= now /\ now \in Nat BY DEF IInv, TypeOK
  <2>2. CASE run'[s] = Idle BY <1>1, <2>1, <2>2
  <2>3. CASE run'[s] = run[s] BY <2>1, <2>3
  <2> QED BY <2>2, <2>3
<1>3. CASE UNCHANGED <<last, mails, mishaps>>
  <2>1. TypeOK' BY <1>2, <1>3 DEF IInv, TypeOK
  <2>2. SilenceNeedsMail' /\ CooldownKept' /\ LastIsLatest'
    BY <1>3 DEF IInv, SilenceNeedsMail, CooldownKept, LastIsLatest
  <2>3. SendersAreDue' BY <1>1, <1>3 DEF IInv, SendersAreDue, Overlaps
  <2> QED BY <2>1, <2>2, <2>3 DEF IInv
<1>4. ASSUME NEW s \in Slot, NEW m \in Mishap, NEW saved \in SUBSET run[s].rules,
             mails' = Delivered(s), mishaps' = mishaps \cup {m}, last' = CoolFrom(s, saved)
      PROVE  IInv'
  <2> DEFINE at == run[s].at
             mail == [at |-> at, sent |-> now]
  <2>1. /\ mails \in [Rule -> Seq(Mail)] /\ last \in [Rule -> Nat] /\ now \in Nat
        /\ at \in Nat /\ at <= now /\ run[s].rules \in SUBSET Rule
        /\ \A r \in Rule : last[r] <= now
    BY DEF IInv, TypeOK, Evaluation
  <2>2. mails' \in [Rule -> Seq(Mail)] /\ mail \in Mail BY <1>4, DeliveredKeeps DEF IInv
  <2>3. \A r \in Rule : last'[r] = IF r \in saved THEN at ELSE last[r]
    BY <1>4 DEF CoolFrom
  <2>4. last' \in [Rule -> Nat] /\ \A r \in Rule : last'[r] <= now
    BY <1>4, <2>1, <2>3 DEF CoolFrom
  <2>5. TypeOK' BY <1>2, <1>4, <2>2, <2>4 DEF IInv, TypeOK
  <2>6. SilenceNeedsMail'
    <3> SUFFICES ASSUME NEW r \in Rule, last'[r] > 0
                 PROVE  \E k \in 1 .. Len(mails'[r]) : mails'[r][k].at = last'[r]
      BY DEF SilenceNeedsMail
    <3>1. CASE r \in saved
      <4>1. mails'[r] = Append(mails[r], mail) /\ last'[r] = at
        BY <1>4, <2>3, <3>1 DEF Delivered
      <4>2. mails[r] \in Seq(Mail) BY <2>1
      <4>3. Len(mails'[r]) \in 1 .. Len(mails'[r]) /\ mails'[r][Len(mails'[r])] = mail
        <5> HIDE DEF mail
        <5> QED BY <2>2, <4>1, <4>2
      <4> QED BY <4>1, <4>3
    <3>2. CASE r \notin saved
      <4>1. last'[r] = last[r] BY <2>3, <3>2
      <4>2. PICK k \in 1 .. Len(mails[r]) : mails[r][k].at = last[r]
        BY <4>1 DEF IInv, SilenceNeedsMail
      <4>3. k \in 1 .. Len(mails'[r]) /\ mails'[r][k] = mails[r][k]
        BY <1>4, DeliveredSilence DEF IInv
      <4> QED BY <4>1, <4>2, <4>3
    <3> QED BY <3>1, <3>2
  <2>7. mishaps' # {} BY <1>4
  <2>8. CooldownKept' /\ LastIsLatest' /\ SendersAreDue'
    BY <2>7 DEF CooldownKept, LastIsLatest, SendersAreDue
  <2> QED BY <2>5, <2>6, <2>8 DEF IInv
<1> QED BY <1>3, <1>4

LEMMA SendFailsStep == ASSUME IInv, NEW s \in Slot, SendFails(s) PROVE IInv'
<1>1. run' = [run EXCEPT ![s] = Idle] /\ UNCHANGED <<now, last>> BY DEF SendFails
<1>2. run \in [Slot -> Evaluation] /\ Idle \in Evaluation
  BY DEF IInv, TypeOK, Idle, Evaluation
<1>3. run' \in [Slot -> Evaluation] /\ \A t \in Slot : run'[t] \in {Idle, run[t]}
  BY <1>1, <1>2
<1>4. faults' \in 0 .. MaxFaults BY AlertsAssumption DEF IInv, TypeOK, SendFails
<1>5. \/ UNCHANGED <<mails, mishaps>>
      \/ mails' = Delivered(s) /\ mishaps' = mishaps \cup {"unanswered"}
  BY DEF SendFails
<1>6. "unanswered" \in Mishap BY DEF Mishap
<1>7. last' = CoolFrom(s, {}) /\ {} \in SUBSET run[s].rules
  BY <1>1 DEF IInv, TypeOK, CoolFrom
<1> QED BY <1>1, <1>3, <1>4, <1>5, <1>6, <1>7, EndedStep

LEMMA KillStep == IInv /\ Kill => IInv'
<1> SUFFICES ASSUME IInv, Kill PROVE IInv' OBVIOUS
<1>1. run' = [s \in Slot |-> Idle] /\ UNCHANGED now BY DEF Kill
<1>2. Idle \in Evaluation BY DEF Idle, Evaluation
<1>3. run' \in [Slot -> Evaluation] /\ \A t \in Slot : run'[t] \in {Idle, run[t]}
  BY <1>1, <1>2
<1>4. faults' \in 0 .. MaxFaults BY AlertsAssumption DEF IInv, TypeOK, Kill
<1>5. PICK s \in Slot :
        \/ UNCHANGED <<last, mails, mishaps>>
        \/ /\ mails' = Delivered(s) /\ mishaps' = mishaps \cup {"killed"}
           /\ \E saved \in SUBSET run[s].rules : last' = CoolFrom(s, saved)
  BY DEF Kill
<1>6. "killed" \in Mishap BY DEF Mishap
<1> QED BY <1>1, <1>3, <1>4, <1>5, <1>6, EndedStep

LEMMA TickStep == IInv /\ Tick => IInv'
<1> SUFFICES ASSUME IInv, Tick PROVE IInv' OBVIOUS
<1>1. now' = now + 1 /\ UNCHANGED <<last, run, mails, mishaps, faults>> BY DEF Tick
<1>2. run \in [Slot -> Evaluation] /\ last \in [Rule -> Nat] /\ now \in Nat
  BY DEF IInv, TypeOK
<1>3. \A s \in Slot : run[s].at \in Nat /\ run[s].at <= now
  BY <1>2 DEF IInv, TypeOK, Evaluation
<1>4. \A r \in Rule : last[r] \in Nat /\ last[r] <= now BY <1>2 DEF IInv, TypeOK
<1>5. TypeOK'
  <2>1. \A s \in Slot : run'[s].at <= now' BY <1>1, <1>2, <1>3
  <2>2. \A r \in Rule : last'[r] <= now' BY <1>1, <1>2, <1>4
  <2>3. now' \in Nat BY <1>1, <1>2
  <2> QED BY <1>1, <2>1, <2>2, <2>3 DEF IInv, TypeOK
<1> QED
  BY <1>1, <1>5 DEF IInv, SilenceNeedsMail, CooldownKept,
                    LastIsLatest, SendersAreDue, Overlaps

LEMMA StutterStep == IInv /\ UNCHANGED vars => IInv'
BY DEF vars, IInv, TypeOK, SilenceNeedsMail, CooldownKept,
       LastIsLatest, SendersAreDue, Overlaps

LEMMA InductiveStep == IInv /\ [Next]_vars => IInv'
<1> SUFFICES ASSUME IInv, [Next]_vars PROVE IInv' OBVIOUS
<1>1. ASSUME NEW s \in Slot, NEW findings \in SUBSET Finding, Evaluate(s, findings) PROVE IInv'
  BY <1>1, EvaluateStep
<1>2. ASSUME NEW s \in Slot, Banned(s) PROVE IInv' BY <1>2, BannedStep
<1>3. ASSUME NEW s \in Slot, Answered(s) PROVE IInv' BY <1>3, AnsweredStep
<1>4. ASSUME NEW s \in Slot, SendFails(s) PROVE IInv' BY <1>4, SendFailsStep
<1> QED BY <1>1, <1>2, <1>3, <1>4, KillStep, TickStep, StutterStep DEF Next

\* Every behaviour satisfies the inductive invariant.
THEOREM Invariant == Spec => []IInv
BY InitKeeps, InductiveStep, PTL DEF Spec

\* The variables keep their types, and no saved time is of the future.
THEOREM TypeCorrect == Spec => []TypeOK
<1>1. IInv => TypeOK BY DEF IInv
<1> QED BY Invariant, <1>1, PTL

\* No failure silences a rule: a cooldown always comes from a delivered mail.
THEOREM SilenceIsEarned == Spec => []SilenceNeedsMail
<1>1. IInv => SilenceNeedsMail BY DEF IInv
<1> QED BY Invariant, <1>1, PTL

\* The deliveries of two mails about a rule are the cooldown apart, less the
\* time the first had waited, unless they overlapped or an answer was lost.
THEOREM MailsAreSpaced == Spec => []CooldownKept
<1>1. IInv => CooldownKept BY DEF IInv
<1> QED BY Invariant, <1>1, PTL
===============================================================================
