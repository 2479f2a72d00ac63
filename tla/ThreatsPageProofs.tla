---------------------------- MODULE ThreatsPageProofs ----------------------------
(***************************************************************************)
(* What ThreatsPage promises for any number of tabs, subjects and targets, *)
(* and any bounds.  IInv is inductive: it says of every answer, copy and   *)
(* call under way how old it is and what it must therefore contain, and    *)
(* of every tab what is still to come that will bring it up to date.       *)
(***************************************************************************)
EXTENDS ThreatsPage, FiniteSetTheorems, SequenceTheorems, TLAPS

FindingsAnswer == [shown : SUBSET Subject, banned : SUBSET Subject, rev : Nat]
ConfigAnswer == [config : Config, rev : Nat]
Load == [findings : SUBSET FindingsAnswer, config : SUBSET ConfigAnswer, old : BOOLEAN]
CallRecord == [tab : Tab, kind : Kind, arg : Subject \cup Target \cup {None},
               config : SUBSET Config, n : 1 .. MaxClicks, stage : {"sent", "done", "refused"},
               rev : Nat, base : Nat, removed : SUBSET Target]

AtMostOne(S) == \A x, y \in S : x = y

\* Every record has the fields the code gives it.
RecordsTyped ==
    /\ saved \in Config /\ saved.window >= 1 /\ saved.sound
    /\ Len(saved.exceptions) <= MaxExceptions
    /\ open \subseteq Subject /\ bans \subseteq Subject
    /\ page \in [Tab -> Page]
    /\ loads \in [Tab -> Seq(Load)]
    /\ \A t \in Tab : \A i \in DOMAIN loads[t] :
          AtMostOne(loads[t][i].findings) /\ AtMostOne(loads[t][i].config)
    /\ calls \subseteq CallRecord /\ \A c \in calls : c.kind = "ban" => c.arg \in Subject
    /\ timers \in [Tab -> Nat]
    /\ clicks \in 0 .. MaxClicks /\ fixes \in 0 .. clicks /\ rev \in 0 .. clicks
    /\ since \in [Target -> 0 .. rev]

Sent == {c \in calls : c.stage = "sent"}

\* A click makes at most one call, and a call is carried out once and schedules at
\* most one load.
Counted ==
    /\ IsFiniteSet(calls)
    /\ \A c, d \in calls : c.n = d.n => c = d
    /\ \A t \in Tab : timers[t] + Cardinality(calls) <= clicks
    /\ rev + Cardinality(Sent) <= clicks

\* x is in the part of a list that is kept.
Fits(list, x) == \E i \in DOMAIN list : i <= MaxExceptions /\ list[i] = x

\* The copy has every target that has been trusted since a call no later than base.
Covers(config, base, gone) ==
    \A c \in config, x \in ToSet(saved.exceptions) :
        since[x] <= base /\ x \notin gone => Fits(c.exceptions, x)

\* What an answer says was so when it was given, and is while nothing changed.
LoadHonest(l) ==
    /\ \A f \in l.findings : f.rev <= rev /\ (f.rev = rev => f.banned = BannedNow)
    /\ \A c \in l.config :
         c.rev <= rev /\ (c.rev = rev => c.config = saved) /\ Covers({c.config}, c.rev, {})

PageHonest(p) ==
    /\ p.base <= rev /\ p.own <= rev
    /\ p.edited = "no" /\ p.base = rev => p.config = {saved} /\ p.banned = BannedNow \cap p.shown
    /\ Covers(p.config, p.base, p.removed)

CallHonest(c) ==
    /\ c.rev <= rev
    /\ c.kind = "trust" => \A s \in c.config : c.arg \in ToSet(s.exceptions)
    /\ c.kind \in {"trust", "save"} => c.base <= rev /\ Covers(c.config, c.base, c.removed)

AnswersHonest == \A t \in Tab : \A i \in DOMAIN loads[t] : LoadHonest(loads[t][i])
PagesHonest == \A t \in Tab : PageHonest(page[t])
CallsHonest == \A c \in calls : CallHonest(c)

\* The load will show nothing older than the tab's own last call.
Fresh(t, i) == \A a \in loads[t][i].findings \cup loads[t][i].config : a.rev >= page[t].own
FreshAfter(t, i) == timers[t] > 0 \/ \E j \in DOMAIN loads[t] : j > i /\ Fresh(t, j)

TabUpToDate(t) ==
    /\ page[t].error \/ page[t].misled \/ page[t].base >= page[t].own \/ FreshAfter(t, 0)
    /\ \A i \in DOMAIN loads[t] : loads[t][i].old \/ Fresh(t, i) \/ FreshAfter(t, i)

UpToDate == \A t \in Tab : TabUpToDate(t)

\* A trust that shows and is not known to have failed is still to be saved or loaded.
TabTrustPending(t) ==
    page[t].edited = "trust" /\ ~page[t].failed /\ ~page[t].error =>
        \/ \E c \in calls : c.tab = t /\ c.kind = "trust"
        \/ timers[t] > 0 \/ loads[t] # <<>>

TrustPending == \A t \in Tab : TabTrustPending(t)

IInv ==
    /\ RecordsTyped /\ Counted
    /\ AnswersHonest /\ PagesHonest /\ CallsHonest
    /\ UpToDate /\ TrustPending

-------------------------------------------------------------------------------
(* Lists.                                                                     *)

\* A trusted list is a short sequence without repetition.
LEMMA TrustedMeans ==
    ASSUME PageAssumption
    PROVE  \A q : q \in Trusted <=> /\ q \in Seq(Target) /\ Len(q) <= MaxExceptions + 1
                                    /\ \A i, j \in 1 .. Len(q) : q[i] = q[j] => i = j
<1> SUFFICES ASSUME NEW q
             PROVE  q \in Trusted <=> /\ q \in Seq(Target) /\ Len(q) <= MaxExceptions + 1
                                     /\ \A i, j \in 1 .. Len(q) : q[i] = q[j] => i = j
  OBVIOUS
<1>1. MaxExceptions \in Nat BY DEF PageAssumption
<1>2. ASSUME q \in SeqOf(Target, MaxExceptions + 1)
      PROVE  q \in Seq(Target) /\ Len(q) <= MaxExceptions + 1 /\ DOMAIN q = 1 .. Len(q)
  <2>1. PICK m \in 0 .. MaxExceptions + 1 : q \in [1 .. m -> Target] BY <1>2 DEF SeqOf
  <2> QED BY <1>1, <2>1
<1>3. ASSUME q \in Seq(Target), Len(q) <= MaxExceptions + 1
      PROVE  q \in SeqOf(Target, MaxExceptions + 1) /\ DOMAIN q = 1 .. Len(q)
  <2>1. q \in [1 .. Len(q) -> Target] /\ Len(q) \in 0 .. MaxExceptions + 1 BY <1>1, <1>3
  <2> QED BY <1>1, <2>1 DEF SeqOf
<1> QED BY <1>2, <1>3 DEF Trusted, IsInjective

\* Another target at the end.
LEMMA AppendKeeps ==
    ASSUME PageAssumption, NEW q \in Trusted, NEW x \in Target,
           x \notin ToSet(q), Len(q) <= MaxExceptions
    PROVE  /\ Append(q, x) \in Trusted
           /\ x \in ToSet(Append(q, x))
           /\ \A y : Fits(q, y) => Fits(Append(q, x), y)
           /\ Len(q) < MaxExceptions => Fits(Append(q, x), x)
<1> DEFINE r == Append(q, x)
<1>1. MaxExceptions \in Nat BY DEF PageAssumption
<1>2. /\ q \in Seq(Target) /\ Len(q) \in Nat /\ DOMAIN q = 1 .. Len(q)
      /\ \A i, j \in 1 .. Len(q) : q[i] = q[j] => i = j
  BY TrustedMeans
<1>3. /\ r \in Seq(Target) /\ Len(r) = Len(q) + 1 /\ DOMAIN r = 1 .. Len(q) + 1
      /\ \A i \in 1 .. Len(q) : r[i] = q[i] /\ r[Len(q) + 1] = x
  BY <1>2
<1>4. \A i \in 1 .. Len(q) : q[i] # x BY <1>2 DEF ToSet
<1>5. r[Len(q) + 1] = x BY <1>2
<1> HIDE DEF r
<1>6. \A i, j \in 1 .. Len(r) : r[i] = r[j] => i = j BY <1>2, <1>3, <1>4, <1>5
<1>7. r \in Trusted BY <1>1, <1>2, <1>3, <1>6, TrustedMeans
<1>8. x \in ToSet(r) BY <1>2, <1>3, <1>5 DEF ToSet
<1>9. \A y : Fits(q, y) => Fits(r, y) BY <1>2, <1>3 DEF Fits
<1>10. Len(q) < MaxExceptions => Fits(r, x) BY <1>1, <1>2, <1>3, <1>5 DEF Fits
<1> QED BY <1>7, <1>8, <1>9, <1>10 DEF r

\* RemoveAt moves what follows one place forward.
LEMMA RemoveAtMeans ==
    ASSUME NEW S, NEW q \in Seq(S), NEW k \in 1 .. Len(q)
    PROVE  /\ RemoveAt(q, k) \in Seq(S) /\ Len(RemoveAt(q, k)) = Len(q) - 1
           /\ \A i \in 1 .. Len(q) - 1 : i < k => RemoveAt(q, k)[i] = q[i]
           /\ \A i \in 1 .. Len(q) - 1 : i >= k => RemoveAt(q, k)[i] = q[i + 1]
<1> DEFINE u == SubSeq(q, 1, k - 1)
           v == SubSeq(q, k + 1, Len(q))
<1>1. Len(q) \in Nat OBVIOUS
<1>2. u \in Seq(S) /\ v \in Seq(S) BY <1>1
<1>3. Len(u) = k - 1 /\ Len(v) = Len(q) - k BY <1>1
<1>4. \A i \in 1 .. k - 1 : u[i] = q[i] BY <1>1
<1>5. \A i \in 1 .. Len(q) - k : v[i] = q[k + i] BY <1>1
<1> DEFINE w == u \o v
<1>6. RemoveAt(q, k) = w BY DEF RemoveAt
<1>7. w \in Seq(S) /\ Len(w) = Len(u) + Len(v)
  <2> HIDE DEF u, v
  <2> QED BY <1>2
<1>8. \A i \in 1 .. Len(u) + Len(v) : w[i] = IF i <= Len(u) THEN u[i] ELSE v[i - Len(u)]
  <2> HIDE DEF u, v
  <2> QED BY <1>2
<1> HIDE DEF u, v, w
<1>9. ASSUME NEW i \in 1 .. Len(q) - 1, i < k PROVE w[i] = q[i]
  <2>1. i \in 1 .. k - 1 /\ i <= Len(u) /\ i \in 1 .. Len(u) + Len(v) BY <1>1, <1>3, <1>9
  <2> QED BY <1>4, <1>8, <2>1
<1>10. ASSUME NEW i \in 1 .. Len(q) - 1, i >= k PROVE w[i] = q[i + 1]
  <2> DEFINE j == i - Len(u)
  <2>1. j \in 1 .. Len(q) - k /\ k + j = i + 1 /\ ~(i <= Len(u)) /\ i \in 1 .. Len(u) + Len(v)
    BY <1>1, <1>3, <1>10
  <2>2. w[i] = v[j] BY <1>8, <2>1
  <2> HIDE DEF j
  <2>3. v[j] = q[k + j] BY <1>5, <2>1
  <2> QED BY <2>1, <2>2, <2>3
<1>11. Len(w) = Len(q) - 1 BY <1>1, <1>3, <1>7
<1> QED BY <1>6, <1>7, <1>9, <1>10, <1>11

\* Leaving one place out keeps what is there once there once.
LEMMA ShiftedInjective ==
    ASSUME NEW n \in Nat, NEW k \in 1 .. n, NEW q, NEW r,
           \A i, j \in 1 .. n : q[i] = q[j] => i = j,
           \A i \in 1 .. n - 1 : i < k => r[i] = q[i],
           \A i \in 1 .. n - 1 : i >= k => r[i] = q[i + 1]
    PROVE  \A i, j \in 1 .. n - 1 : r[i] = r[j] => i = j
<1> DEFINE at(i) == IF i < k THEN i ELSE i + 1
<1>1. \A i \in 1 .. n - 1 : at(i) \in 1 .. n /\ r[i] = q[at(i)] OBVIOUS
<1>2. \A i, j \in 1 .. n - 1 : at(i) = at(j) => i = j OBVIOUS
<1> HIDE DEF at
<1> QED BY <1>1, <1>2

\* One entry less, wherever it was.
LEMMA RemoveAtKeeps ==
    ASSUME PageAssumption, NEW q \in Trusted, NEW k \in DOMAIN q
    PROVE  /\ RemoveAt(q, k) \in Trusted
           /\ \A y : Fits(q, y) /\ y # q[k] => Fits(RemoveAt(q, k), y)
<1> DEFINE r == RemoveAt(q, k)
<1>1. MaxExceptions \in Nat BY DEF PageAssumption
<1>2. /\ q \in Seq(Target) /\ Len(q) \in Nat /\ DOMAIN q = 1 .. Len(q)
      /\ Len(q) <= MaxExceptions + 1
      /\ \A i, j \in 1 .. Len(q) : q[i] = q[j] => i = j
  BY TrustedMeans
<1>3. k \in 1 .. Len(q) BY <1>2
<1>4. /\ r \in Seq(Target) /\ Len(r) = Len(q) - 1
      /\ \A i \in 1 .. Len(q) - 1 : i < k => r[i] = q[i]
      /\ \A i \in 1 .. Len(q) - 1 : i >= k => r[i] = q[i + 1]
  <2>1. q \in Seq(Target) BY <1>2
  <2> QED BY <1>3, <2>1, RemoveAtMeans
<1> HIDE DEF r
<1>5. DOMAIN r = 1 .. Len(q) - 1 BY <1>4
<1>6. \A i, j \in 1 .. Len(r) : r[i] = r[j] => i = j
  <2> DEFINE n == Len(q)
  <2>1. n \in Nat /\ k \in 1 .. n /\ \A i, j \in 1 .. n : q[i] = q[j] => i = j BY <1>2, <1>3
  <2>2. Len(r) = n - 1 BY <1>4
  <2>3. /\ \A i \in 1 .. n - 1 : i < k => r[i] = q[i]
        /\ \A i \in 1 .. n - 1 : i >= k => r[i] = q[i + 1]
    BY <1>4
  <2> HIDE DEF n
  <2> QED BY <2>1, <2>2, <2>3, ShiftedInjective
<1>7. r \in Trusted
  <2>1. r \in Seq(Target) /\ Len(r) <= MaxExceptions + 1 BY <1>1, <1>2, <1>4
  <2> QED BY <1>6, <2>1, TrustedMeans
<1>8. ASSUME NEW y, Fits(q, y), y # q[k] PROVE Fits(r, y)
  <2>1. PICK i \in 1 .. Len(q) : i <= MaxExceptions /\ q[i] = y BY <1>2, <1>8 DEF Fits
  <2>2. CASE i < k
    <3>1. i \in DOMAIN r /\ r[i] = y BY <1>2, <1>3, <1>4, <1>5, <2>1, <2>2
    <3> QED BY <2>1, <3>1 DEF Fits
  <2>3. CASE i > k
    <3> DEFINE j == i - 1
    <3>1. j \in 1 .. Len(q) - 1 /\ j >= k /\ j <= MaxExceptions /\ j + 1 = i
      BY <1>1, <1>2, <1>3, <2>1, <2>3
    <3> HIDE DEF j
    <3>2. r[j] = q[j + 1] BY <1>4, <3>1
    <3> QED BY <1>5, <2>1, <3>1, <3>2 DEF Fits
  <2> QED BY <1>2, <1>3, <1>8, <2>1, <2>2, <2>3
<1> QED BY <1>7, <1>8 DEF r

\* The check of a configuration keeps what fits and the order of it.
LEMMA CleanKeeps ==
    ASSUME PageAssumption, NEW c \in Config
    PROVE  /\ Clean(c) \in Config /\ Clean(c).window >= 1 /\ Clean(c).sound = c.sound
           /\ Len(Clean(c).exceptions) <= MaxExceptions
           /\ \A x : x \in ToSet(Clean(c).exceptions) <=> Fits(c.exceptions, x)
           /\ Len(c.exceptions) <= MaxExceptions \/ Len(Clean(c).exceptions) = MaxExceptions
<1> DEFINE q == c.exceptions
           m == IF Len(q) > MaxExceptions THEN MaxExceptions ELSE Len(q)
           r == SubSeq(q, 1, m)
<1>1. MaxExceptions \in Nat /\ MaxWindow \in Nat /\ MaxWindow >= 1 BY DEF PageAssumption
<1>2. q \in Trusted /\ c.window \in 0 .. MaxWindow /\ c.sound \in BOOLEAN BY DEF Config
<1>3. /\ q \in Seq(Target) /\ Len(q) \in Nat /\ DOMAIN q = 1 .. Len(q)
      /\ \A i, j \in 1 .. Len(q) : q[i] = q[j] => i = j
  BY <1>2, TrustedMeans
<1>4. m \in 0 .. Len(q) /\ m <= MaxExceptions BY <1>1, <1>3
<1>5. /\ r \in Seq(Target) /\ Len(r) = m /\ DOMAIN r = 1 .. m
      /\ \A i \in 1 .. m : r[i] = q[i]
  BY <1>3, <1>4
<1>6. /\ Clean(c).exceptions = r /\ Clean(c).sound = c.sound
      /\ Clean(c).window = (IF c.window < 1 THEN 1 ELSE c.window)
      /\ r \in Trusted => Clean(c) \in Config
  <2> DEFINE w == IF c.window < 1 THEN 1 ELSE c.window
  <2>1. Clean(c) = [c EXCEPT !.exceptions = r, !.window = w] BY DEF Clean
  <2>2. w \in 0 .. MaxWindow BY <1>1, <1>2
  <2> HIDE DEF r, w
  <2> QED BY <2>1, <2>2 DEF Config, w
<1>7. \A x : x \in ToSet(r) <=> Fits(q, x)
  <2> HIDE DEF r
  <2> QED BY <1>1, <1>3, <1>4, <1>5 DEF ToSet, Fits
<1>8. r \in Trusted
  <2> HIDE DEF r, q
  <2> QED BY <1>1, <1>3, <1>4, <1>5, TrustedMeans
<1>9. Clean(c) \in Config BY <1>6, <1>8
<1> HIDE DEF r
<1> QED BY <1>1, <1>2, <1>3, <1>5, <1>6, <1>7, <1>9

\* What fits is on the list, and on a list within the limit all fits.
LEMMA FitsMeans ==
    ASSUME PageAssumption, NEW q \in Trusted
    PROVE  /\ \A x : Fits(q, x) => x \in ToSet(q)
           /\ Len(q) <= MaxExceptions => \A x \in ToSet(q) : Fits(q, x)
<1>1. DOMAIN q = 1 .. Len(q) /\ Len(q) \in Nat /\ MaxExceptions \in Nat
  BY TrustedMeans DEF PageAssumption
<1> QED BY <1>1 DEF Fits, ToSet

-------------------------------------------------------------------------------
(* What a step does to the page of a tab: the others stay, and the fields that *)
(* are not named.                                                             *)

Shows(t) == <<page[t].shown, page[t].banned>>
Ages(t) == <<page[t].error, page[t].base, page[t].own, page[t].failed, page[t].misled>>
PageBut(t) == page' \in [Tab -> Page] /\ \A u \in Tab \ {t} : page'[u] = page[u]

\* The fields of a page have their types.
LEMMA PageFields ==
    ASSUME RecordsTyped, NEW t \in Tab
    PROVE  /\ page[t] \in Page /\ page[t].config \subseteq Config
           /\ \A c \in page[t].config : page[t].config = {c} /\ c \in Config
                /\ c.exceptions \in Trusted /\ c.window \in 0 .. MaxWindow /\ c.sound \in BOOLEAN
<1>1. page[t] \in Page BY DEF RecordsTyped
<1>2. page[t].config \in {{}} \cup {{c} : c \in Config} BY <1>1 DEF Page
<1>3. \A c \in Config : c.exceptions \in Trusted /\ c.window \in 0 .. MaxWindow
                        /\ c.sound \in BOOLEAN
  BY DEF Config
<1> HIDE DEF Config
<1> QED BY <1>1, <1>2, <1>3

\* A copy is changed by hand.
LEMMA TypedEffect ==
    ASSUME RecordsTyped, NEW t \in Tab, NEW c \in Config, Typed(t, c)
    PROVE  /\ PageBut(t)
           /\ page'[t].config = {c} /\ page'[t].edited = "typed"
           /\ Shows(t)' = Shows(t) /\ Ages(t)' = Ages(t) /\ page'[t].removed = page[t].removed
<1>1. page \in [Tab -> Page] /\ page[t] \in Page BY DEF RecordsTyped
<1>2. page' = [page EXCEPT ![t] = [page[t] EXCEPT !.config = {c}, !.edited = "typed"]]
  BY <1>1 DEF Typed
<1>3. {c} \in {{}} \cup {{d} : d \in Config} OBVIOUS
<1> DEFINE q == [page[t] EXCEPT !.config = {c}, !.edited = "typed"]
<1>4. /\ q \in Page /\ q.config = {c} /\ q.edited = "typed"
      /\ q.shown = page[t].shown /\ q.banned = page[t].banned /\ q.error = page[t].error
      /\ q.base = page[t].base /\ q.own = page[t].own /\ q.misled = page[t].misled
      /\ q.failed = page[t].failed /\ q.removed = page[t].removed
  <2> HIDE DEF Config
  <2> QED BY <1>1, <1>3 DEF Page
<1>5. page'[t] = q BY <1>1, <1>2
<1> HIDE DEF q
<1>6. PageBut(t) BY <1>1, <1>2, <1>4 DEF PageBut, q
<1> QED BY <1>4, <1>5, <1>6 DEF Shows, Ages

\* A target more, or one entry less, in the copy.
LEMMA TypeExceptionEffect ==
    ASSUME PageAssumption, RecordsTyped, NEW t \in Tab, NEW x \in Target, TypeException(t, x)
    PROVE  /\ PageBut(t) /\ page'[t].edited = "typed" /\ Shows(t)' = Shows(t) /\ Ages(t)' = Ages(t)
           /\ \E c \in page[t].config :
                /\ page'[t].config = {[c EXCEPT !.exceptions = Append(@, x)]}
                /\ x \notin ToSet(c.exceptions) /\ Len(c.exceptions) <= MaxExceptions
                /\ page'[t].removed = IF Len(c.exceptions) < MaxExceptions
                                      THEN page[t].removed \ {x} ELSE page[t].removed
<1>1. page \in [Tab -> Page] /\ page[t] \in Page BY DEF RecordsTyped
<1>2. PICK c \in page[t].config :
         /\ x \notin ToSet(c.exceptions) /\ Len(c.exceptions) <= MaxExceptions
         /\ page' = [page EXCEPT
              ![t].config = {[c EXCEPT !.exceptions = Append(@, x)]},
              ![t].edited = "typed",
              ![t].removed = IF Len(c.exceptions) < MaxExceptions THEN @ \ {x} ELSE @]
  BY DEF TypeException
<1> DEFINE d == [c EXCEPT !.exceptions = Append(@, x)]
           gone == IF Len(c.exceptions) < MaxExceptions THEN page[t].removed \ {x}
                   ELSE page[t].removed
           q == [page[t] EXCEPT !.config = {d}, !.edited = "typed", !.removed = gone]
<1>3. c \in Config /\ c.exceptions \in Trusted BY <1>2, PageFields
<1>4. Append(c.exceptions, x) \in Trusted BY <1>2, <1>3, AppendKeeps
<1>5. d \in Config BY <1>3, <1>4 DEF Config
<1>6. page' = [page EXCEPT ![t] = q] BY <1>1, <1>2
<1>7. gone \in SUBSET Target BY <1>1 DEF Page
<1>8. {d} \in {{}} \cup {{e} : e \in Config} BY <1>5
<1> HIDE DEF d, gone
<1>9. /\ q \in Page /\ q.config = {d} /\ q.edited = "typed" /\ q.removed = gone
      /\ q.shown = page[t].shown /\ q.banned = page[t].banned /\ q.error = page[t].error
      /\ q.base = page[t].base /\ q.own = page[t].own /\ q.misled = page[t].misled
      /\ q.failed = page[t].failed
  <2> HIDE DEF Config
  <2> QED BY <1>1, <1>7, <1>8 DEF Page
<1> HIDE DEF q
<1>10. page'[t] = q /\ PageBut(t)  BY <1>1, <1>6, <1>9 DEF PageBut
<1>11. Shows(t)' = Shows(t) /\ Ages(t)' = Ages(t) BY <1>9, <1>10 DEF Shows, Ages
<1> QED BY <1>2, <1>9, <1>10, <1>11 DEF d, gone

LEMMA DeleteExceptionEffect ==
    ASSUME PageAssumption, RecordsTyped, NEW t \in Tab, NEW i, DeleteException(t, i)
    PROVE  /\ PageBut(t) /\ page'[t].edited = "typed" /\ Shows(t)' = Shows(t) /\ Ages(t)' = Ages(t)
           /\ \E c \in page[t].config :
                /\ page'[t].config = {[c EXCEPT !.exceptions = RemoveAt(@, i)]}
                /\ i \in DOMAIN c.exceptions
                /\ page'[t].removed = page[t].removed \cup {c.exceptions[i]}
<1>1. page \in [Tab -> Page] /\ page[t] \in Page BY DEF RecordsTyped
<1>2. PICK c \in page[t].config :
         /\ i \in DOMAIN c.exceptions
         /\ page' = [page EXCEPT
              ![t].config = {[c EXCEPT !.exceptions = RemoveAt(@, i)]},
              ![t].edited = "typed",
              ![t].removed = @ \cup {c.exceptions[i]}]
  BY DEF DeleteException
<1> DEFINE d == [c EXCEPT !.exceptions = RemoveAt(@, i)]
           gone == page[t].removed \cup {c.exceptions[i]}
           q == [page[t] EXCEPT !.config = {d}, !.edited = "typed", !.removed = gone]
<1>3. c \in Config /\ c.exceptions \in Trusted BY <1>2, PageFields
<1>4. RemoveAt(c.exceptions, i) \in Trusted BY <1>2, <1>3, RemoveAtKeeps
<1>5. d \in Config BY <1>3, <1>4 DEF Config
<1>6. page' = [page EXCEPT ![t] = q] BY <1>1, <1>2
<1>7. gone \in SUBSET Target
  <2>1. c.exceptions \in Seq(Target) BY <1>3, TrustedMeans
  <2>2. c.exceptions[i] \in Target BY <1>2, <2>1
  <2> QED BY <1>1, <2>2 DEF Page
<1>8. {d} \in {{}} \cup {{e} : e \in Config} BY <1>5
<1> HIDE DEF d, gone
<1>9. /\ q \in Page /\ q.config = {d} /\ q.edited = "typed" /\ q.removed = gone
      /\ q.shown = page[t].shown /\ q.banned = page[t].banned /\ q.error = page[t].error
      /\ q.base = page[t].base /\ q.own = page[t].own /\ q.misled = page[t].misled
      /\ q.failed = page[t].failed
  <2> HIDE DEF Config
  <2> QED BY <1>1, <1>7, <1>8 DEF Page
<1> HIDE DEF q
<1>10. page'[t] = q /\ PageBut(t)  BY <1>1, <1>6, <1>9 DEF PageBut
<1>11. Shows(t)' = Shows(t) /\ Ages(t)' = Ages(t) BY <1>9, <1>10 DEF Shows, Ages
<1> QED BY <1>2, <1>9, <1>10, <1>11 DEF d, gone

\* A trust changes the copy it sends.
LEMMA TrustEffect ==
    ASSUME PageAssumption, RecordsTyped, NEW t \in Tab, NEW s \in Subject, Trust(t, s)
    PROVE  /\ PageBut(t) /\ Shows(t)' = Shows(t) /\ Ages(t)' = Ages(t)
           /\ page'[t].removed = page[t].removed
           /\ page'[t].edited = IF page[t].edited = "no" THEN "trust" ELSE page[t].edited
           /\ \E c \in page[t].config :
                /\ page'[t].config = {[c EXCEPT !.exceptions = Append(@, TargetOf[s])]}
                /\ TargetOf[s] \notin ToSet(c.exceptions) /\ Len(c.exceptions) <= MaxExceptions
                /\ calls' = calls \cup {Call(t, "trust", TargetOf[s], page'[t].config)}
                /\ page'[t].config \subseteq Config
<1>1. page \in [Tab -> Page] /\ page[t] \in Page BY DEF RecordsTyped
<1> DEFINE x == TargetOf[s]
           next(c) == [c EXCEPT !.exceptions = Append(@, x)]
           edit == IF page[t].edited = "no" THEN "trust" ELSE page[t].edited
<1>2. PICK c \in page[t].config :
         /\ x \notin ToSet(c.exceptions) /\ Len(c.exceptions) <= MaxExceptions
         /\ page' = [page EXCEPT ![t].config = {next(c)},
                                ![t].edited = IF @ = "no" THEN "trust" ELSE @]
         /\ calls' = calls \cup {Call(t, "trust", x, {next(c)})}
  BY DEF Trust, WithTrust
<1> DEFINE d == next(c)
           q == [page[t] EXCEPT !.config = {d}, !.edited = edit]
<1>3. c \in Config /\ c.exceptions \in Trusted BY <1>2, PageFields
<1>4. Append(c.exceptions, x) \in Trusted BY <1>2, <1>3, AppendKeeps DEF Target
<1>5. d \in Config BY <1>3, <1>4 DEF Config
<1>6. page' = [page EXCEPT ![t] = q] BY <1>1, <1>2
<1>7. edit \in {"no", "trust", "typed"} BY <1>1 DEF Page
<1>8. {d} \in {{}} \cup {{e} : e \in Config} BY <1>5
<1> HIDE DEF d, edit
<1>9. /\ q \in Page /\ q.config = {d} /\ q.edited = edit /\ q.removed = page[t].removed
      /\ q.shown = page[t].shown /\ q.banned = page[t].banned /\ q.error = page[t].error
      /\ q.base = page[t].base /\ q.own = page[t].own /\ q.misled = page[t].misled
      /\ q.failed = page[t].failed
  <2> HIDE DEF Config
  <2> QED BY <1>1, <1>7, <1>8 DEF Page
<1> HIDE DEF q
<1>10. page'[t] = q /\ PageBut(t) BY <1>1, <1>6, <1>9 DEF PageBut
<1>11. Shows(t)' = Shows(t) /\ Ages(t)' = Ages(t) BY <1>9, <1>10 DEF Shows, Ages
<1>12. page'[t].config = {d} /\ {d} \subseteq Config BY <1>5, <1>9, <1>10
<1>13. calls' = calls \cup {Call(t, "trust", x, page'[t].config)} BY <1>2, <1>12 DEF d
<1> QED BY <1>2, <1>9, <1>10, <1>11, <1>12, <1>13 DEF d, edit

\* The two answers of a load make the page.
LEMMA DeliverEffect ==
    ASSUME RecordsTyped, NEW t \in Tab, NEW i \in DOMAIN loads[t], Deliver(t, i)
    PROVE  /\ PageBut(t)
           /\ \E f \in loads[t][i].findings, c \in loads[t][i].config :
                /\ page'[t].config = {c.config} /\ page'[t].shown = f.shown
                /\ page'[t].banned = f.banned \cap f.shown
                /\ page'[t].base = (IF f.rev < c.rev THEN f.rev ELSE c.rev)
           /\ page'[t].own = page[t].own /\ page'[t].removed = {} /\ page'[t].edited = "no"
           /\ ~page'[t].error /\ ~page'[t].failed /\ page'[t].misled = loads[t][i].old
<1>1. page \in [Tab -> Page] /\ page[t] \in Page BY DEF RecordsTyped
<1>2. loads[t][i] \in Load BY DEF RecordsTyped
<1>3. PICK f \in loads[t][i].findings, c \in loads[t][i].config :
         page' = [page EXCEPT ![t] =
             [@ EXCEPT !.config = {c.config}, !.shown = f.shown, !.banned = f.banned \cap f.shown,
                       !.error = FALSE,
                       !.base = IF f.rev < c.rev THEN f.rev ELSE c.rev,
                       !.edited = "no", !.failed = FALSE, !.removed = {},
                       !.misled = loads[t][i].old]]
  BY DEF Deliver
<1> DEFINE base == IF f.rev < c.rev THEN f.rev ELSE c.rev
           old == loads[t][i].old
           q == [page[t] EXCEPT !.config = {c.config}, !.shown = f.shown,
                       !.banned = f.banned \cap f.shown, !.error = FALSE, !.base = base,
                       !.edited = "no", !.failed = FALSE, !.removed = {}, !.misled = old]
<1>4. f \in FindingsAnswer /\ c \in ConfigAnswer /\ old \in BOOLEAN BY <1>2, <1>3 DEF Load
<1>5. /\ f.shown \in SUBSET Subject /\ f.banned \cap f.shown \in SUBSET Subject
      /\ base \in Nat /\ c.config \in Config
  BY <1>4 DEF FindingsAnswer, ConfigAnswer
<1>6. page' = [page EXCEPT ![t] = q] BY <1>1, <1>3
<1>7. {c.config} \in {{}} \cup {{e} : e \in Config} BY <1>5
<1> HIDE DEF base, old
<1>8. /\ q \in Page /\ q.config = {c.config} /\ q.shown = f.shown
      /\ q.banned = f.banned \cap f.shown /\ q.base = base
      /\ q.own = page[t].own /\ q.removed = {} /\ q.edited = "no"
      /\ q.error = FALSE /\ q.failed = FALSE /\ q.misled = old
  <2> HIDE DEF Config
  <2> QED BY <1>1, <1>4, <1>5, <1>7 DEF Page
<1> HIDE DEF q
<1>9. page'[t] = q /\ PageBut(t) BY <1>1, <1>6, <1>8 DEF PageBut
<1> QED BY <1>3, <1>8, <1>9 DEF base, old

\* A load that fails puts the error box up, and changes nothing behind it.
LEMMA ErrorEffect ==
    ASSUME RecordsTyped, NEW t \in Tab, page' = [page EXCEPT ![t].error = TRUE]
    PROVE  /\ PageBut(t) /\ page'[t].error
           /\ Shows(t)' = Shows(t) /\ page'[t].config = page[t].config
           /\ page'[t].base = page[t].base /\ page'[t].own = page[t].own
           /\ page'[t].edited = page[t].edited /\ page'[t].removed = page[t].removed
<1>1. page \in [Tab -> Page] /\ page[t] \in Page BY DEF RecordsTyped
<1> DEFINE q == [page[t] EXCEPT !.error = TRUE]
<1>2. q \in Page /\ q.error = TRUE /\ q.config = page[t].config /\ q.shown = page[t].shown
      /\ q.banned = page[t].banned /\ q.base = page[t].base /\ q.own = page[t].own
      /\ q.edited = page[t].edited /\ q.removed = page[t].removed
  <2> HIDE DEF Config
  <2> QED BY <1>1 DEF Page
<1>3. page' = [page EXCEPT ![t] = q] BY <1>1
<1> HIDE DEF q
<1>4. page'[t] = q /\ PageBut(t) BY <1>1, <1>2, <1>3 DEF PageBut
<1> QED BY <1>2, <1>4 DEF Shows

\* A call that fails leaves a note, and changes nothing else.
LEMMA FailedEffect ==
    ASSUME RecordsTyped, NEW t \in Tab, page' = [page EXCEPT ![t].failed = TRUE]
    PROVE  /\ PageBut(t) /\ page'[t].failed
           /\ Shows(t)' = Shows(t) /\ page'[t].config = page[t].config
           /\ page'[t].base = page[t].base /\ page'[t].own = page[t].own
           /\ page'[t].error = page[t].error /\ page'[t].misled = page[t].misled
           /\ page'[t].edited = page[t].edited /\ page'[t].removed = page[t].removed
<1>1. page \in [Tab -> Page] /\ page[t] \in Page BY DEF RecordsTyped
<1> DEFINE q == [page[t] EXCEPT !.failed = TRUE]
<1>2. q \in Page /\ q.failed = TRUE /\ q.config = page[t].config /\ q.shown = page[t].shown
      /\ q.banned = page[t].banned /\ q.base = page[t].base /\ q.own = page[t].own
      /\ q.error = page[t].error /\ q.misled = page[t].misled
      /\ q.edited = page[t].edited /\ q.removed = page[t].removed
  <2> HIDE DEF Config
  <2> QED BY <1>1 DEF Page
<1>3. page' = [page EXCEPT ![t] = q] BY <1>1
<1> HIDE DEF q
<1>4. page'[t] = q /\ PageBut(t) BY <1>1, <1>2, <1>3 DEF PageBut
<1> QED BY <1>2, <1>4 DEF Shows

\* A call that succeeds is the tab's last, and an acknowledgement takes its finding
\* off the page.
LEMMA SucceedsEffect ==
    ASSUME RecordsTyped, NEW c \in calls, Succeeds(c)
    PROVE  LET t == c.tab IN
           /\ t \in Tab /\ PageBut(t)
           /\ page'[t].shown = page[t].shown \ Acked(c)
           /\ page'[t].banned = page[t].banned \ Acked(c)
           /\ page'[t].own = Own(page[t], c) /\ page'[t].own \in Nat
           /\ page'[t].config = page[t].config /\ page'[t].base = page[t].base
           /\ page'[t].error = page[t].error /\ page'[t].misled = page[t].misled
           /\ page'[t].failed = page[t].failed
           /\ page'[t].edited = page[t].edited /\ page'[t].removed = page[t].removed
<1> DEFINE t == c.tab
           own == Own(page[t], c)
           shown == page[t].shown \ Acked(c)
           banned == page[t].banned \ Acked(c)
           q == [page[t] EXCEPT !.own = own, !.shown = shown, !.banned = banned]
<1>1. c \in CallRecord /\ t \in Tab BY DEF RecordsTyped, CallRecord
<1>2. page \in [Tab -> Page] /\ page[t] \in Page BY <1>1 DEF RecordsTyped
<1>3. page' = [page EXCEPT ![t] = q] BY <1>1, <1>2 DEF Succeeds
<1>4. own \in Nat BY <1>1, <1>2 DEF Own, Page, CallRecord
<1>5. shown \in SUBSET Subject /\ banned \in SUBSET Subject BY <1>2 DEF Page
<1> HIDE DEF own, shown, banned, t
<1>6. q \in Page /\ q.own = own /\ q.shown = shown /\ q.banned = banned
      /\ q.config = page[t].config /\ q.base = page[t].base
      /\ q.error = page[t].error /\ q.misled = page[t].misled /\ q.failed = page[t].failed
      /\ q.edited = page[t].edited /\ q.removed = page[t].removed
  <2> HIDE DEF Config
  <2> QED BY <1>2, <1>4, <1>5 DEF Page
<1> HIDE DEF q
<1>7. page'[t] = q /\ PageBut(t) BY <1>1, <1>2, <1>3, <1>6 DEF PageBut
<1> QED BY <1>1, <1>4, <1>6, <1>7 DEF own, shown, banned, t

-------------------------------------------------------------------------------
(* What a step does to the loads of a tab.                                    *)

LoadsBut(t) == loads' \in [Tab -> Seq(Load)] /\ \A u \in Tab \ {t} : loads'[u] = loads[u]

\* The loads of a tab are a sequence of loads.
LEMMA LoadsFields ==
    ASSUME RecordsTyped, NEW t \in Tab
    PROVE  /\ loads[t] \in Seq(Load) /\ Len(loads[t]) \in Nat
           /\ DOMAIN loads[t] = 1 .. Len(loads[t])
           /\ \A i \in DOMAIN loads[t] : loads[t][i] \in Load
<1>1. loads[t] \in Seq(Load) BY DEF RecordsTyped
<1> QED BY <1>1

\* A load more, with no answer yet.
LEMMA StartEffect ==
    ASSUME RecordsTyped, NEW t \in Tab, StartLoad(t)
    PROVE  /\ LoadsBut(t)
           /\ DOMAIN loads'[t] = 1 .. Len(loads[t]) + 1
           /\ \A i \in DOMAIN loads[t] : loads'[t][i] = loads[t][i]
           /\ loads'[t][Len(loads[t]) + 1] = NoAnswers
<1>1. loads \in [Tab -> Seq(Load)] BY DEF RecordsTyped
<1>2. NoAnswers \in Load BY DEF NoAnswers, Load
<1> DEFINE n == NoAnswers
           r == Append(loads[t], n)
<1>3. loads' = [loads EXCEPT ![t] = r] BY DEF StartLoad
<1>4. loads[t] \in Seq(Load) /\ n \in Load BY <1>1, <1>2
<1> HIDE DEF n
<1>5. /\ r \in Seq(Load) /\ DOMAIN r = 1 .. Len(loads[t]) + 1
      /\ \A i \in DOMAIN loads[t] : r[i] = loads[t][i]
      /\ r[Len(loads[t]) + 1] = n
  BY <1>4
<1> HIDE DEF r
<1>6. loads'[t] = r /\ LoadsBut(t) BY <1>1, <1>3, <1>5 DEF LoadsBut
<1> QED BY <1>5, <1>6 DEF n

\* One load gets an answer.
LEMMA AnswerEffect ==
    ASSUME RecordsTyped, NEW t \in Tab, NEW i \in DOMAIN loads[t], NEW l \in Load,
           loads' = [loads EXCEPT ![t][i] = l]
    PROVE  /\ LoadsBut(t) /\ DOMAIN loads'[t] = DOMAIN loads[t]
           /\ loads'[t][i] = l
           /\ \A j \in DOMAIN loads[t] : j # i => loads'[t][j] = loads[t][j]
<1>1. loads \in [Tab -> Seq(Load)] BY DEF RecordsTyped
<1> DEFINE r == [loads[t] EXCEPT ![i] = l]
<1>2. loads' = [loads EXCEPT ![t] = r] BY <1>1
<1>3. loads[t] \in Seq(Load) BY <1>1
<1>4. r \in Seq(Load) /\ DOMAIN r = DOMAIN loads[t] /\ r[i] = l
      /\ \A j \in DOMAIN loads[t] : j # i => r[j] = loads[t][j]
  BY <1>3
<1> HIDE DEF r
<1>5. loads'[t] = r /\ LoadsBut(t) BY <1>1, <1>2, <1>4 DEF LoadsBut
<1> QED BY <1>4, <1>5


\* A load is over: those before it are old now, those after it move up.
LEMMA FinishEffect ==
    ASSUME RecordsTyped, NEW t \in Tab, NEW i \in DOMAIN loads[t], Finish(t, i)
    PROVE  /\ LoadsBut(t) /\ DOMAIN loads'[t] = 1 .. Len(loads[t]) - 1
           /\ \A j \in DOMAIN loads'[t] : j < i => loads'[t][j] = [loads[t][j] EXCEPT !.old = TRUE]
           /\ \A j \in DOMAIN loads'[t] : j >= i => loads'[t][j] = loads[t][j + 1]
<1> DEFINE n == Len(loads[t])
           r == [j \in DOMAIN loads[t] |->
                   IF j < i THEN [loads[t][j] EXCEPT !.old = TRUE] ELSE loads[t][j]]
<1>1. loads \in [Tab -> Seq(Load)] BY DEF RecordsTyped
<1>2. n \in Nat /\ DOMAIN loads[t] = 1 .. n /\ \A j \in 1 .. n : loads[t][j] \in Load
  BY LoadsFields
<1>3. loads' = [loads EXCEPT ![t] = RemoveAt(r, i)] BY <1>1 DEF Finish
<1>4. \A l \in Load : [l EXCEPT !.old = TRUE] \in Load BY DEF Load
<1>5. \A j \in 1 .. n : r[j] \in Load BY <1>2, <1>4
<1>6. r \in [1 .. n -> Load] BY <1>2, <1>5
<1>7. r \in Seq(Load) /\ Len(r) = n
  <2> HIDE DEF r, n
  <2> QED BY <1>2, <1>6
<1>8. i \in 1 .. Len(r) BY <1>2, <1>7
<1>9. /\ \A j \in 1 .. n : j < i => r[j] = [loads[t][j] EXCEPT !.old = TRUE]
      /\ \A j \in 1 .. n : j >= i => r[j] = loads[t][j]
  BY <1>2, <1>8
<1> HIDE DEF r, n
<1> DEFINE v == RemoveAt(r, i)
<1>10. /\ v \in Seq(Load) /\ Len(v) = n - 1
       /\ \A j \in 1 .. n - 1 : j < i => v[j] = r[j]
       /\ \A j \in 1 .. n - 1 : j >= i => v[j] = r[j + 1]
  BY <1>7, <1>8, RemoveAtMeans
<1> HIDE DEF v
<1>11. DOMAIN v = 1 .. n - 1 BY <1>10
<1>12. loads'[t] = v /\ LoadsBut(t) BY <1>1, <1>3, <1>10 DEF LoadsBut, v
<1>13. ASSUME NEW j \in 1 .. n - 1, j < i PROVE v[j] = [loads[t][j] EXCEPT !.old = TRUE]
  <2>1. j \in 1 .. n BY <1>2
  <2> QED BY <1>9, <1>10, <1>13, <2>1
<1>14. ASSUME NEW j \in 1 .. n - 1, j >= i PROVE v[j] = loads[t][j + 1]
  <2>1. j + 1 \in 1 .. n /\ j + 1 >= i BY <1>2, <1>8, <1>14
  <2> QED BY <1>9, <1>10, <1>14, <2>1
<1> QED BY <1>11, <1>12, <1>13, <1>14 DEF n

-------------------------------------------------------------------------------
(* What a step does to the calls.                                             *)

\* There is a free number for a new call.
LEMMA NewCall ==
    ASSUME PageAssumption, RecordsTyped, Counted, clicks < MaxClicks, NEW t \in Tab,
           NEW kind \in Kind, NEW arg \in Subject \cup Target \cup {None},
           NEW config \in SUBSET Config
    PROVE  LET c == Call(t, kind, arg, config) IN
           /\ c \in CallRecord /\ \A d \in calls : d.n # c.n
           /\ c.tab = t /\ c.kind = kind /\ c.arg = arg /\ c.config = config
           /\ c.stage = "sent" /\ c.rev = 0
           /\ c.base = (IF config = {} THEN 0 ELSE page[t].base)
           /\ c.removed = (IF config = {} THEN {} ELSE page[t].removed)
<1> DEFINE used == {d.n : d \in calls}
           n == CHOOSE n \in 1 .. MaxClicks : \A d \in calls : d.n # n
<1>1. MaxClicks \in Nat BY DEF PageAssumption
<1>2. timers[t] \in Nat /\ clicks \in Nat BY DEF RecordsTyped
<1>3. IsFiniteSet(calls) /\ timers[t] + Cardinality(calls) <= clicks BY DEF Counted
<1>4. Cardinality(calls) \in Nat BY <1>3, FS_CardinalityType
<1>5. IsFiniteSet(used) /\ Cardinality(used) <= Cardinality(calls)
  <2> DEFINE f == [d \in calls |-> d.n]
  <2>1. f \in Surjection(calls, used) BY DEF Surjection
  <2> HIDE DEF f, used
  <2> QED BY <1>3, <2>1, FS_Surjection
<1>6. Cardinality(used) \in Nat BY <1>5, FS_CardinalityType
<1>7. Cardinality(1 .. MaxClicks) = MaxClicks /\ IsFiniteSet(1 .. MaxClicks)
  BY <1>1, FS_Interval
<1>8. ~(1 .. MaxClicks \subseteq used)
  <2> SUFFICES ASSUME 1 .. MaxClicks \subseteq used PROVE FALSE OBVIOUS
  <2>1. Cardinality(1 .. MaxClicks) <= Cardinality(used) BY <1>5, FS_Subset
  <2> QED BY <1>1, <1>2, <1>3, <1>4, <1>5, <1>6, <1>7, <2>1
<1>9. \E k \in 1 .. MaxClicks : \A d \in calls : d.n # k BY <1>8
<1>10. n \in 1 .. MaxClicks /\ \A d \in calls : d.n # n BY <1>9
<1>11. page[t] \in Page BY DEF RecordsTyped
<1>12. page[t].base \in Nat /\ page[t].removed \in SUBSET Target BY <1>11 DEF Page
<1> DEFINE base == IF config = {} THEN 0 ELSE page[t].base
           removed == IF config = {} THEN {} ELSE page[t].removed
<1>13. base \in Nat /\ removed \in SUBSET Target BY <1>12
<1>14. Call(t, kind, arg, config)
         = [tab |-> t, kind |-> kind, arg |-> arg, config |-> config, n |-> n,
            stage |-> "sent", rev |-> 0, base |-> base, removed |-> removed]
  BY DEF Call
<1> HIDE DEF n, base, removed
<1> QED BY <1>10, <1>13, <1>14 DEF CallRecord, base, removed

\* The new call is counted with the click that made it.
LEMMA AddedKeeps ==
    ASSUME RecordsTyped, Counted, NEW c \in CallRecord, c.stage = "sent",
           \A d \in calls : d.n # c.n, calls' = calls \cup {c},
           clicks' = clicks + 1, UNCHANGED <<timers, rev>>
    PROVE  calls' \subseteq CallRecord /\ Counted'
<1>1. IsFiniteSet(calls) /\ \A d, e \in calls : d.n = e.n => d = e BY DEF Counted
<1>2. /\ clicks \in Nat /\ rev \in Nat /\ timers \in [Tab -> Nat] /\ calls \subseteq CallRecord
  BY DEF RecordsTyped
<1>3. Cardinality(calls) \in Nat BY <1>1, FS_CardinalityType
<1>4. c \notin calls OBVIOUS
<1>5. IsFiniteSet(calls') /\ Cardinality(calls') = Cardinality(calls) + 1
  BY <1>1, <1>4, FS_AddElement
<1>6. Sent' = Sent \cup {c} BY DEF Sent
<1>7. IsFiniteSet(Sent) /\ Cardinality(Sent) \in Nat BY <1>1, FS_Subset, FS_CardinalityType DEF Sent
<1>8. Cardinality(Sent') = Cardinality(Sent) + 1
  <2>1. c \notin Sent BY <1>4 DEF Sent
  <2> QED BY <1>6, <1>7, <2>1, FS_AddElement
<1>9. \A u \in Tab : timers'[u] + Cardinality(calls') <= clicks' BY <1>2, <1>3, <1>5 DEF Counted
<1>10. rev' + Cardinality(Sent') <= clicks' BY <1>2, <1>7, <1>8 DEF Counted
<1>11. \A d, e \in calls' : d.n = e.n => d = e BY <1>1
<1> QED BY <1>2, <1>5, <1>9, <1>10, <1>11 DEF Counted

\* The server answers one call that was sent to it.
LEMMA AnsweredKeeps ==
    ASSUME RecordsTyped, Counted, NEW c \in calls, c.stage = "sent", NEW stage \in {"done", "refused"},
           rev' \in {rev, rev + 1}, Answered(c, stage), UNCHANGED <<clicks, timers>>
    PROVE  LET d == [c EXCEPT !.stage = stage, !.rev = rev'] IN
           /\ calls' \subseteq CallRecord /\ Counted' /\ rev' <= clicks
           /\ calls' = (calls \ {c}) \cup {d} /\ d.n = c.n /\ d.stage = stage /\ d.rev = rev'
           /\ d.tab = c.tab /\ d.kind = c.kind /\ d.config = c.config /\ d.arg = c.arg
           /\ d.base = c.base /\ d.removed = c.removed
<1> DEFINE d == [c EXCEPT !.stage = stage, !.rev = rev']
<1>1. IsFiniteSet(calls) /\ \A e, f \in calls : e.n = f.n => e = f BY DEF Counted
<1>2. /\ clicks \in Nat /\ rev \in Nat /\ timers \in [Tab -> Nat] /\ calls \subseteq CallRecord
  BY DEF RecordsTyped
<1>3. rev' \in Nat BY <1>2
<1>4. /\ d \in CallRecord /\ d.n = c.n /\ d.stage = stage /\ d.rev = rev'
      /\ d.tab = c.tab /\ d.kind = c.kind /\ d.config = c.config /\ d.arg = c.arg
      /\ d.base = c.base /\ d.removed = c.removed
  <2>1. c \in CallRecord BY <1>2
  <2> QED BY <1>3, <2>1 DEF CallRecord
<1>5. calls' = (calls \ {c}) \cup {d} BY DEF Answered
<1> HIDE DEF d
<1>6. Cardinality(calls) \in Nat BY <1>1, FS_CardinalityType
<1>7. d \notin calls \ {c} BY <1>1, <1>4
<1>8. IsFiniteSet(calls \ {c}) /\ Cardinality(calls \ {c}) = Cardinality(calls) - 1
  BY <1>1, FS_RemoveElement
<1>9. IsFiniteSet(calls') /\ Cardinality(calls') = Cardinality(calls)
  <2>1. /\ IsFiniteSet((calls \ {c}) \cup {d})
        /\ Cardinality((calls \ {c}) \cup {d}) = Cardinality(calls \ {c}) + 1
    BY <1>7, <1>8, FS_AddElement
  <2> QED BY <1>5, <1>6, <1>8, <2>1
<1>10. Sent' = Sent \ {c} BY <1>4, <1>5, <1>7 DEF Sent
<1>11. c \in Sent /\ IsFiniteSet(Sent) /\ Cardinality(Sent) \in Nat
  BY <1>1, FS_Subset, FS_CardinalityType DEF Sent
<1>12. Cardinality(Sent') = Cardinality(Sent) - 1 BY <1>10, <1>11, FS_RemoveElement
<1>13. IsFiniteSet(Sent') /\ Cardinality(Sent') \in Nat
  BY <1>10, <1>11, FS_RemoveElement, FS_CardinalityType
<1>14. rev' + Cardinality(Sent') <= clicks' BY <1>2, <1>3, <1>11, <1>12 DEF Counted
<1>15. \A u \in Tab : timers'[u] + Cardinality(calls') <= clicks' BY <1>9 DEF Counted
<1>16. \A e, f \in calls' : e.n = f.n => e = f BY <1>1, <1>4, <1>5
<1>17. rev' <= clicks BY <1>2, <1>3, <1>13, <1>14
<1> QED BY <1>2, <1>4, <1>5, <1>9, <1>14, <1>15, <1>16, <1>17 DEF Counted, d

\* A call is over, and may have scheduled a load.
LEMMA GoneKeeps ==
    ASSUME RecordsTyped, Counted, NEW c \in calls, calls' = calls \ {c}, UNCHANGED <<clicks, rev>>,
           timers' \in [Tab -> Nat], \A u \in Tab : timers'[u] <= timers[u] + 1
    PROVE  calls' \subseteq CallRecord /\ Counted'
<1>1. IsFiniteSet(calls) /\ \A e, f \in calls : e.n = f.n => e = f BY DEF Counted
<1>2. /\ clicks \in Nat /\ rev \in Nat /\ timers \in [Tab -> Nat] /\ calls \subseteq CallRecord
  BY DEF RecordsTyped
<1>3. Cardinality(calls) \in Nat BY <1>1, FS_CardinalityType
<1>4. IsFiniteSet(calls') /\ Cardinality(calls') = Cardinality(calls) - 1
  BY <1>1, FS_RemoveElement
<1>5. IsFiniteSet(Sent) /\ Sent' \in SUBSET Sent BY <1>1, FS_Subset DEF Sent
<1>6. Cardinality(Sent') <= Cardinality(Sent) /\ Cardinality(Sent') \in Nat /\ Cardinality(Sent) \in Nat
  BY <1>5, FS_Subset, FS_CardinalityType
<1>7. rev' + Cardinality(Sent') <= clicks' BY <1>2, <1>6 DEF Counted
<1>8. ASSUME NEW u \in Tab PROVE timers'[u] + Cardinality(calls') <= clicks'
  <2>1. timers'[u] <= timers[u] + 1 /\ timers[u] + Cardinality(calls) <= clicks
        /\ timers[u] \in Nat /\ timers'[u] \in Nat
    BY <1>2 DEF Counted
  <2> QED BY <1>2, <1>3, <1>4, <2>1
<1> QED BY <1>1, <1>2, <1>4, <1>7, <1>8 DEF Counted

\* Nothing is counted that is not clicked.
LEMMA UncalledKeeps ==
    ASSUME RecordsTyped, Counted, UNCHANGED <<calls, rev>>, clicks' \in Nat, clicks' >= clicks,
           timers' \in [Tab -> Nat], \A u \in Tab : timers'[u] <= timers[u]
    PROVE  Counted'
<1>1. /\ clicks \in Nat /\ rev \in Nat /\ timers \in [Tab -> Nat] BY DEF RecordsTyped
<1>2. IsFiniteSet(calls) /\ Sent' = Sent BY DEF Counted, Sent
<1>3. IsFiniteSet(Sent) BY <1>2, FS_Subset DEF Sent
<1>4. Cardinality(calls) \in Nat /\ Cardinality(Sent) \in Nat BY <1>2, <1>3, FS_CardinalityType
<1>5. rev' + Cardinality(Sent') <= clicks' BY <1>1, <1>2, <1>4 DEF Counted
<1>6. ASSUME NEW u \in Tab PROVE timers'[u] + Cardinality(calls') <= clicks'
  <2>1. timers'[u] <= timers[u] /\ timers[u] + Cardinality(calls) <= clicks
        /\ timers[u] \in Nat /\ timers'[u] \in Nat
    BY <1>1 DEF Counted
  <2> QED BY <1>1, <1>4, <2>1
<1> QED BY <1>5, <1>6 DEF Counted


-------------------------------------------------------------------------------
(* The steps, in the groups that the proof treats alike.                      *)

\* The settings panel.
Edit(t) ==
    \/ TypePatterns(t)
    \/ \E n \in 0 .. MaxWindow : TypeWindow(t, n)
    \/ \E x \in Target : TypeException(t, x)
    \/ \E i \in 1 .. MaxExceptions + 1 : DeleteException(t, i)

\* The buttons whose call says nothing of the configuration.
Ask(t) ==
    AckAll(t) \/ \E s \in Subject : BanIp(t, s) \/ UnbanIp(t, s) \/ Ack(t, s)

Answer(t, i) == AnswerFindings(t, i) \/ AnswerConfig(t, i)

Serve(c) == ServePut(c) \/ ServeBan(c) \/ ServeAck(c)

LEMMA StepCases ==
    ASSUME [Next]_vars
    PROVE  \/ \E t \in Tab :
                \/ Usable(t) /\ clicks < MaxClicks
                     /\ \/ Refresh(t) \/ Edit(t) \/ Save(t) \/ Ask(t)
                        \/ \E s \in Subject : Trust(t, s)
                \/ \E i \in DOMAIN loads[t] : Answer(t, i) \/ Deliver(t, i) \/ LoadFails(t, i)
                \/ TimerFires(t)
           \/ \E c \in calls : Serve(c) \/ Succeeds(c) \/ Fails(c)
           \/ UNCHANGED vars
BY DEF Next, Operator, Edit, Ask, Answer, Serve

\* What fits in the copy, or is known to have been taken off it, still is.
Carries(t, c, d) ==
    \A y : Fits(c.exceptions, y) \/ y \in page[t].removed =>
           Fits(d.exceptions, y) \/ y \in page'[t].removed

LEMMA EditEffect ==
    ASSUME PageAssumption, RecordsTyped, NEW t \in Tab, Edit(t)
    PROVE  /\ PageBut(t) /\ page'[t].edited = "typed" /\ Shows(t)' = Shows(t) /\ Ages(t)' = Ages(t)
           /\ \E c \in page[t].config, d \in Config : page'[t].config = {d} /\ Carries(t, c, d)
           /\ clicks' = clicks + 1 /\ UNCHANGED <<saved, open, bans, rev, since>>
           /\ UNCHANGED <<fixes, loads, calls, timers>>
<1>1. ASSUME TypePatterns(t) \/ \E n \in 0 .. MaxWindow : TypeWindow(t, n)
      PROVE  \E c \in page[t].config, d \in Config :
                d.exceptions = c.exceptions /\ Typed(t, d)
  <2>1. \A c \in page[t].config : c \in Config BY PageFields
  <2>2. CASE TypePatterns(t)
    <3>1. PICK c \in page[t].config : Typed(t, [c EXCEPT !.sound = ~@]) BY <2>2 DEF TypePatterns
    <3>2. c \in Config BY <2>1
    <3>3. [c EXCEPT !.sound = ~@] \in Config /\ [c EXCEPT !.sound = ~@].exceptions = c.exceptions
      BY <3>2 DEF Config
    <3> QED BY <3>1, <3>3
  <2>3. CASE \E n \in 0 .. MaxWindow : TypeWindow(t, n)
    <3>1. PICK n \in 0 .. MaxWindow : TypeWindow(t, n) BY <2>3
    <3>2. PICK c \in page[t].config : Typed(t, [c EXCEPT !.window = n]) BY <3>1 DEF TypeWindow
    <3>3. c \in Config BY <2>1
    <3>4. [c EXCEPT !.window = n] \in Config /\ [c EXCEPT !.window = n].exceptions = c.exceptions
      BY <3>3 DEF Config
    <3> QED BY <3>2, <3>4
  <2> QED BY <1>1, <2>2, <2>3
<1>2. ASSUME NEW c \in page[t].config, NEW d \in Config,
             d.exceptions = c.exceptions, Typed(t, d)
      PROVE  /\ PageBut(t) /\ page'[t].edited = "typed" /\ Shows(t)' = Shows(t) /\ Ages(t)' = Ages(t)
             /\ page'[t].config = {d} /\ Carries(t, c, d)
  BY <1>2, TypedEffect DEF Carries
<1>3. ASSUME NEW x \in Target, TypeException(t, x)
      PROVE  \E c \in page[t].config, d \in Config : page'[t].config = {d} /\ Carries(t, c, d)
  <2>1. PICK c \in page[t].config :
          /\ page'[t].config = {[c EXCEPT !.exceptions = Append(@, x)]}
          /\ x \notin ToSet(c.exceptions) /\ Len(c.exceptions) <= MaxExceptions
          /\ page'[t].removed = IF Len(c.exceptions) < MaxExceptions
                                THEN page[t].removed \ {x} ELSE page[t].removed
    BY <1>3, TypeExceptionEffect
  <2> DEFINE list == Append(c.exceptions, x)
             d == [c EXCEPT !.exceptions = list]
  <2>2. c \in Config /\ c.exceptions \in Trusted BY PageFields
  <2>3. /\ list \in Trusted /\ \A y : Fits(c.exceptions, y) => Fits(list, y)
        /\ Len(c.exceptions) < MaxExceptions => Fits(list, x)
    BY <2>1, <2>2, AppendKeeps
  <2>4. page'[t].config = {d} BY <2>1
  <2> HIDE DEF list
  <2>5. d \in Config /\ d.exceptions = list BY <2>2, <2>3 DEF Config
  <2>6. Carries(t, c, d) BY <2>1, <2>3, <2>5 DEF Carries
  <2> QED BY <2>4, <2>5, <2>6
<1>4. ASSUME NEW i, DeleteException(t, i)
      PROVE  \E c \in page[t].config, d \in Config : page'[t].config = {d} /\ Carries(t, c, d)
  <2>1. PICK c \in page[t].config :
          /\ page'[t].config = {[c EXCEPT !.exceptions = RemoveAt(@, i)]}
          /\ i \in DOMAIN c.exceptions
          /\ page'[t].removed = page[t].removed \cup {c.exceptions[i]}
    BY <1>4, DeleteExceptionEffect
  <2> DEFINE list == RemoveAt(c.exceptions, i)
             d == [c EXCEPT !.exceptions = list]
  <2>2. c \in Config /\ c.exceptions \in Trusted BY PageFields
  <2>3. list \in Trusted /\ \A y : Fits(c.exceptions, y) /\ y # c.exceptions[i] => Fits(list, y)
    BY <2>1, <2>2, RemoveAtKeeps
  <2>4. page'[t].config = {d} BY <2>1
  <2> HIDE DEF list
  <2>5. d \in Config /\ d.exceptions = list BY <2>2, <2>3 DEF Config
  <2>6. Carries(t, c, d) BY <2>1, <2>3, <2>5 DEF Carries
  <2> QED BY <2>4, <2>5, <2>6
<1>5. clicks' = clicks + 1 /\ UNCHANGED <<fixes, saved, open, bans, rev, since>>
      /\ UNCHANGED <<loads, calls, timers>>
  BY DEF Edit, TypePatterns, TypeWindow, TypeException, DeleteException, Click, server
<1> QED
  BY <1>1, <1>2, <1>3, <1>4, <1>5, TypeExceptionEffect, DeleteExceptionEffect DEF Edit

\* A button of a finding only makes a call.
LEMMA AskEffect ==
    ASSUME NEW t \in Tab, Ask(t)
    PROVE  /\ \E kind \in Kind \ {"trust", "save"}, arg \in Subject \cup {None} :
                calls' = calls \cup {Call(t, kind, arg, {})} /\ (kind = "ban" => arg \in Subject)
           /\ clicks' = clicks + 1 /\ fixes' = fixes + 1
           /\ UNCHANGED <<saved, open, bans, rev, since>> /\ UNCHANGED <<page, loads, timers>>
BY DEF Ask, AckAll, BanIp, UnbanIp, Ack, ClickFix, server, Kind

\* The age of a target on the list is that of its last arrival.
SinceKept ==
    \A x \in ToSet(saved'.exceptions) :
        since'[x] <= rev => x \in ToSet(saved.exceptions) /\ since'[x] = since[x]

\* The server counts a call exactly when it changes anything.
LEMMA ServeEffect ==
    ASSUME PageAssumption, RecordsTyped, NEW c \in calls, Serve(c)
    PROVE  /\ c.stage = "sent" /\ rev' \in {rev, rev + 1}
           /\ \E stage \in {"done", "refused"} : Answered(c, stage)
           /\ rev' = rev => saved' = saved /\ BannedNow' = BannedNow
           /\ SinceKept
           /\ saved' \in Config /\ saved'.window >= 1 /\ saved'.sound
           /\ Len(saved'.exceptions) <= MaxExceptions
           /\ open' \subseteq Subject /\ bans' \subseteq Subject /\ since' \in [Target -> 0 .. rev']
           /\ UNCHANGED <<page, loads, timers, clicks, fixes>>
<1>1. /\ saved \in Config /\ saved.window >= 1 /\ saved.sound
      /\ Len(saved.exceptions) <= MaxExceptions
      /\ open \subseteq Subject /\ bans \subseteq Subject
      /\ rev \in Nat /\ since \in [Target -> 0 .. rev]
      /\ c \in CallRecord /\ (c.kind = "ban" => c.arg \in Subject)
  BY DEF RecordsTyped
<1>2. saved.exceptions \in Seq(Target)
  <2>1. saved.exceptions \in Trusted BY <1>1 DEF Config
  <2> QED BY <2>1, TrustedMeans
<1>3. \A x \in ToSet(saved.exceptions) : x \in Target BY <1>2 DEF ToSet
<1>4. CASE ServePut(c)
  <2>1. PICK sent \in c.config :
         IF sent.sound
         THEN /\ saved' = Clean(sent)
              /\ rev' = rev + 1
              /\ since' = [x \in Target |->
                              IF x \in ToSet(saved.exceptions) /\ x \in ToSet(saved'.exceptions)
                              THEN since[x] ELSE rev']
              /\ open' = open \ Excepted(saved')
              /\ Answered(c, "done")
         ELSE /\ UNCHANGED <<saved, rev, since, open>>
              /\ Answered(c, "refused")
    BY <1>4 DEF ServePut
  <2>2. c.stage = "sent" /\ UNCHANGED <<bans, page, loads, timers, clicks, fixes>>
    BY <1>4 DEF ServePut
  <2>3. CASE sent.sound
    <3>1. sent \in Config BY <1>1 DEF CallRecord
    <3>2. /\ saved' \in Config /\ saved'.window >= 1 /\ saved'.sound
          /\ Len(saved'.exceptions) <= MaxExceptions
      BY <2>1, <2>3, <3>1, CleanKeeps
    <3>3. rev' = rev + 1 /\ Answered(c, "done") /\ open' \subseteq Subject BY <1>1, <2>1, <2>3
    <3>4. \A x \in Target :
            since'[x] = IF x \in ToSet(saved.exceptions) /\ x \in ToSet(saved'.exceptions)
                        THEN since[x] ELSE rev'
      BY <2>1, <2>3
    <3>5. since' \in [Target -> 0 .. rev'] BY <1>1, <2>1, <2>3, <3>3
    <3>6. saved'.exceptions \in Seq(Target)
      <4>1. saved'.exceptions \in Trusted BY <3>2 DEF Config
      <4> QED BY <4>1, TrustedMeans
    <3>7. \A x \in ToSet(saved'.exceptions) : x \in Target BY <3>6 DEF ToSet
    <3>8. SinceKept BY <1>1, <3>3, <3>4, <3>7 DEF SinceKept
    <3>9. rev' # rev BY <1>1, <3>3
    <3> QED BY <1>1, <2>2, <3>2, <3>3, <3>5, <3>8, <3>9
  <2>4. CASE ~sent.sound BY <1>1, <2>1, <2>2, <2>4 DEF SinceKept, BannedNow
  <2> QED BY <2>3, <2>4
<1>5. CASE ServeBan(c)
  <2>1. UNCHANGED <<saved, open, since, page, loads, timers, clicks, fixes>> /\ c.stage = "sent"
    BY <1>5 DEF ServeBan
  <2>2. SinceKept BY <2>1 DEF SinceKept
  <2>3. CASE UNCHANGED <<bans, rev>> /\ Answered(c, "refused")
    BY <1>1, <2>1, <2>2, <2>3 DEF BannedNow
  <2>4. CASE ~(UNCHANGED <<bans, rev>> /\ Answered(c, "refused"))
    <3>1. /\ bans' = IF c.kind = "ban" THEN bans \cup {c.arg} ELSE bans \ {c.arg}
          /\ rev' = rev + 1 /\ Answered(c, "done") /\ c.kind \in {"ban", "unban"}
      BY <1>5, <2>4 DEF ServeBan
    <3>2. rev' # rev /\ since' \in [Target -> 0 .. rev'] BY <1>1, <2>1, <3>1
    <3> QED BY <1>1, <2>1, <2>2, <3>1, <3>2
  <2> QED BY <2>3, <2>4
<1>6. CASE ServeAck(c)
  <2>1. /\ UNCHANGED <<saved, bans, since, page, loads, timers, clicks, fixes>> /\ c.stage = "sent"
        /\ open' = (IF c.kind = "ack" THEN open \ {c.arg} ELSE {})
        /\ rev' = rev + 1 /\ Answered(c, "done")
    BY <1>6 DEF ServeAck
  <2>2. SinceKept BY <2>1 DEF SinceKept
  <2>3. rev' # rev /\ since' \in [Target -> 0 .. rev'] /\ open' \subseteq Subject BY <1>1, <2>1
  <2> QED BY <1>1, <2>1, <2>2, <2>3
<1> QED BY <1>4, <1>5, <1>6 DEF Serve


-------------------------------------------------------------------------------
(* The records and the counts.                                                *)

\* Records and counts together, which the numbers of new calls need.
LEMMA TypedKept ==
    ASSUME PageAssumption, RecordsTyped, Counted, [Next]_vars
    PROVE  RecordsTyped' /\ Counted'
<1>1. /\ saved \in Config /\ saved.window >= 1 /\ saved.sound
      /\ Len(saved.exceptions) <= MaxExceptions
      /\ open \subseteq Subject /\ bans \subseteq Subject
      /\ page \in [Tab -> Page] /\ loads \in [Tab -> Seq(Load)]
      /\ calls \subseteq CallRecord /\ \A c \in calls : c.kind = "ban" => c.arg \in Subject
      /\ timers \in [Tab -> Nat]
      /\ clicks \in 0 .. MaxClicks /\ fixes \in 0 .. clicks /\ rev \in 0 .. clicks
      /\ since \in [Target -> 0 .. rev]
  BY DEF RecordsTyped
<1> DEFINE Single(u) == \A i \in DOMAIN loads[u] :
                           AtMostOne(loads[u][i].findings) /\ AtMostOne(loads[u][i].config)
<1>2. \A u \in Tab : Single(u) BY DEF RecordsTyped
<1>3. MaxClicks \in Nat /\ clicks \in Nat BY <1>1 DEF PageAssumption
<1>4. ASSUME NEW t \in Tab, StartLoad(t) PROVE loads' \in [Tab -> Seq(Load)] /\ \A u \in Tab : Single(u)'
  <2>1. /\ LoadsBut(t) /\ DOMAIN loads'[t] = 1 .. Len(loads[t]) + 1
        /\ \A i \in DOMAIN loads[t] : loads'[t][i] = loads[t][i]
        /\ loads'[t][Len(loads[t]) + 1] = NoAnswers
    BY <1>4, StartEffect
  <2>2. DOMAIN loads[t] = 1 .. Len(loads[t]) /\ Len(loads[t]) \in Nat BY LoadsFields
  <2>3. NoAnswers.findings = {} /\ NoAnswers.config = {} BY DEF NoAnswers
  <2>4. ASSUME NEW j \in DOMAIN loads'[t]
        PROVE  AtMostOne(loads'[t][j].findings) /\ AtMostOne(loads'[t][j].config)
    <3>1. CASE j \in DOMAIN loads[t]
      <4>1. loads'[t][j] = loads[t][j] BY <2>1, <3>1
      <4> QED BY <1>2, <3>1, <4>1
    <3>2. CASE j = Len(loads[t]) + 1 BY <2>1, <2>3, <3>2 DEF AtMostOne
    <3> QED BY <2>1, <2>2, <3>1, <3>2
  <2>5. \A u \in Tab \ {t} : Single(u)' BY <1>2, <2>1 DEF LoadsBut
  <2> QED BY <2>1, <2>4, <2>5 DEF LoadsBut
<1>5. ASSUME NEW t \in Tab, NEW i \in DOMAIN loads[t], Finish(t, i)
      PROVE  loads' \in [Tab -> Seq(Load)] /\ \A u \in Tab : Single(u)'
  <2>1. /\ LoadsBut(t) /\ DOMAIN loads'[t] = 1 .. Len(loads[t]) - 1
        /\ \A j \in DOMAIN loads'[t] : j < i => loads'[t][j] = [loads[t][j] EXCEPT !.old = TRUE]
        /\ \A j \in DOMAIN loads'[t] : j >= i => loads'[t][j] = loads[t][j + 1]
    BY <1>5, FinishEffect
  <2>2. /\ DOMAIN loads[t] = 1 .. Len(loads[t]) /\ Len(loads[t]) \in Nat
        /\ \A j \in DOMAIN loads[t] : loads[t][j] \in Load
    BY LoadsFields
  <2>3. \A l \in Load : /\ [l EXCEPT !.old = TRUE].findings = l.findings
                        /\ [l EXCEPT !.old = TRUE].config = l.config
    BY DEF Load
  <2>4. ASSUME NEW j \in DOMAIN loads'[t]
        PROVE  AtMostOne(loads'[t][j].findings) /\ AtMostOne(loads'[t][j].config)
    <3>1. j \in DOMAIN loads[t] /\ j + 1 \in DOMAIN loads[t] BY <2>1, <2>2
    <3>2. /\ AtMostOne(loads[t][j].findings) /\ AtMostOne(loads[t][j].config)
          /\ AtMostOne(loads[t][j + 1].findings) /\ AtMostOne(loads[t][j + 1].config)
      BY <1>2, <3>1
    <3>3. CASE j < i
      <4>1. loads'[t][j] = [loads[t][j] EXCEPT !.old = TRUE] BY <2>1, <3>3
      <4>2. loads[t][j] \in Load BY <2>2, <3>1
      <4> QED BY <2>3, <3>2, <4>1, <4>2
    <3>4. CASE j >= i
      <4>1. loads'[t][j] = loads[t][j + 1] BY <2>1, <3>4
      <4> QED BY <3>2, <4>1
    <3> QED BY <2>1, <2>2, <3>3, <3>4
  <2>5. \A u \in Tab \ {t} : Single(u)' BY <1>2, <2>1 DEF LoadsBut
  <2> QED BY <2>1, <2>4, <2>5 DEF LoadsBut
<1>6. ASSUME NEW t \in Tab, clicks < MaxClicks, NEW kind \in Kind,
             NEW arg \in Subject \cup Target \cup {None}, NEW config \in SUBSET Config,
             calls' = calls \cup {Call(t, kind, arg, config)}, kind = "ban" => arg \in Subject,
             clicks' = clicks + 1, UNCHANGED <<timers, rev>>
      PROVE  /\ calls' \subseteq CallRecord /\ Counted'
             /\ \A c \in calls' : c.kind = "ban" => c.arg \in Subject
  <2> DEFINE c == Call(t, kind, arg, config)
  <2>1. /\ c \in CallRecord /\ \A d \in calls : d.n # c.n
        /\ c.kind = kind /\ c.arg = arg /\ c.stage = "sent"
    BY <1>6, NewCall
  <2>2. calls' = calls \cup {c} BY <1>6
  <2> HIDE DEF c
  <2>3. calls' \subseteq CallRecord /\ Counted' BY <1>6, <2>1, <2>2, AddedKeeps
  <2> QED BY <1>1, <1>6, <2>1, <2>2, <2>3
<1>7. ASSUME NEW t \in Tab, clicks < MaxClicks, Refresh(t) PROVE RecordsTyped' /\ Counted'
  <2>1. StartLoad(t) /\ clicks' = clicks + 1 /\ UNCHANGED <<fixes, saved, open, bans, rev, since>>
        /\ UNCHANGED <<page, calls, timers>>
    BY <1>7 DEF Refresh, Click, server
  <2>2. Counted' BY <1>1, <1>3, <2>1, UncalledKeeps
  <2>3. loads' \in [Tab -> Seq(Load)] /\ \A u \in Tab : Single(u)' BY <1>4, <2>1
  <2> QED BY <1>1, <1>3, <1>7, <2>1, <2>2, <2>3 DEF RecordsTyped
<1>8. ASSUME NEW t \in Tab, clicks < MaxClicks, Edit(t) PROVE RecordsTyped' /\ Counted'
  <2>1. PageBut(t) /\ clicks' = clicks + 1 /\ UNCHANGED <<saved, open, bans, rev, since>>
        /\ UNCHANGED <<fixes, loads, calls, timers>>
    BY <1>8, EditEffect
  <2>2. Counted' BY <1>1, <1>3, <2>1, UncalledKeeps
  <2> QED BY <1>1, <1>2, <1>3, <1>8, <2>1, <2>2 DEF RecordsTyped, PageBut
<1>9. ASSUME NEW t \in Tab, clicks < MaxClicks, Save(t) PROVE RecordsTyped' /\ Counted'
  <2>1. /\ calls' = calls \cup {Call(t, "save", None, page[t].config)}
        /\ clicks' = clicks + 1 /\ UNCHANGED <<fixes, saved, open, bans, rev, since>>
        /\ UNCHANGED <<page, loads, timers>>
    BY <1>9 DEF Save, Click, server
  <2>2. "save" \in Kind /\ page[t].config \in SUBSET Config BY PageFields DEF Kind
  <2>3. /\ calls' \subseteq CallRecord /\ Counted'
        /\ \A c \in calls' : c.kind = "ban" => c.arg \in Subject
    BY <1>6, <1>9, <2>1, <2>2
  <2> QED BY <1>1, <1>2, <1>3, <1>9, <2>1, <2>3 DEF RecordsTyped
<1>10. ASSUME NEW t \in Tab, clicks < MaxClicks, Ask(t) PROVE RecordsTyped' /\ Counted'
  <2>1. PICK kind \in Kind \ {"trust", "save"}, arg \in Subject \cup {None} :
            calls' = calls \cup {Call(t, kind, arg, {})} /\ (kind = "ban" => arg \in Subject)
    BY <1>10, AskEffect
  <2>2. clicks' = clicks + 1 /\ fixes' = fixes + 1 /\ UNCHANGED <<saved, open, bans, rev, since>>
        /\ UNCHANGED <<page, loads, timers>>
    BY <1>10, AskEffect
  <2>3. {} \in SUBSET Config OBVIOUS
  <2>4. /\ calls' \subseteq CallRecord /\ Counted'
        /\ \A c \in calls' : c.kind = "ban" => c.arg \in Subject
    BY <1>6, <1>10, <2>1, <2>2, <2>3
  <2> QED BY <1>1, <1>2, <1>3, <1>10, <2>2, <2>4 DEF RecordsTyped
<1>11. ASSUME NEW t \in Tab, clicks < MaxClicks, NEW s \in Subject, Trust(t, s)
       PROVE  RecordsTyped' /\ Counted'
  <2>1. PageBut(t) /\ calls' = calls \cup {Call(t, "trust", TargetOf[s], page'[t].config)}
        /\ page'[t].config \in SUBSET Config
    BY <1>11, TrustEffect
  <2>2. clicks' = clicks + 1 /\ UNCHANGED <<fixes, saved, open, bans, rev, since>>
        /\ UNCHANGED <<loads, timers>>
    BY <1>11 DEF Trust, Click, server
  <2>3. "trust" \in Kind /\ TargetOf[s] \in Target BY DEF Kind, Target
  <2>4. /\ calls' \subseteq CallRecord /\ Counted'
        /\ \A c \in calls' : c.kind = "ban" => c.arg \in Subject
    BY <1>6, <1>11, <2>1, <2>2, <2>3
  <2> QED BY <1>1, <1>2, <1>3, <1>11, <2>1, <2>2, <2>4 DEF RecordsTyped, PageBut
<1>12. ASSUME NEW t \in Tab, NEW i \in DOMAIN loads[t], Answer(t, i) PROVE RecordsTyped' /\ Counted'
  <2>1. UNCHANGED <<saved, open, bans, rev, since>> /\ UNCHANGED <<page, calls, timers, clicks, fixes>>
    BY <1>12 DEF Answer, AnswerFindings, AnswerConfig, server
  <2>2. Counted' BY <1>1, <1>3, <2>1, UncalledKeeps
  <2>3. loads[t][i] \in Load BY LoadsFields
  <2>4. PICK l \in Load : /\ loads' = [loads EXCEPT ![t][i] = l]
                          /\ AtMostOne(l.findings) /\ AtMostOne(l.config)
    <3>1. AtMostOne(loads[t][i].findings) /\ AtMostOne(loads[t][i].config) BY <1>2
    <3>2. CASE AnswerFindings(t, i)
      <4> DEFINE a == {[shown |-> open, banned |-> BannedNow, rev |-> rev]}
                 l == [loads[t][i] EXCEPT !.findings = a]
      <4>1. a \subseteq FindingsAnswer /\ AtMostOne(a)
        BY <1>1 DEF FindingsAnswer, BannedNow, PageAssumption, AtMostOne
      <4>2. loads' = [loads EXCEPT ![t][i] = l] BY <3>2 DEF AnswerFindings
      <4> HIDE DEF a
      <4>3. l \in Load /\ l.findings = a /\ l.config = loads[t][i].config
        BY <2>3, <4>1 DEF Load
      <4> QED BY <3>1, <4>1, <4>2, <4>3
    <3>3. CASE AnswerConfig(t, i)
      <4> DEFINE a == {[config |-> saved, rev |-> rev]}
                 l == [loads[t][i] EXCEPT !.config = a]
      <4>1. a \subseteq ConfigAnswer /\ AtMostOne(a) BY <1>1 DEF ConfigAnswer, AtMostOne
      <4>2. loads' = [loads EXCEPT ![t][i] = l] BY <3>3 DEF AnswerConfig
      <4> HIDE DEF a
      <4>3. l \in Load /\ l.config = a /\ l.findings = loads[t][i].findings
        BY <2>3, <4>1 DEF Load
      <4> QED BY <3>1, <4>1, <4>2, <4>3
    <3> QED BY <1>12, <3>2, <3>3 DEF Answer
  <2>5. /\ LoadsBut(t) /\ DOMAIN loads'[t] = DOMAIN loads[t] /\ loads'[t][i] = l
        /\ \A j \in DOMAIN loads[t] : j # i => loads'[t][j] = loads[t][j]
    BY <2>4, AnswerEffect
  <2>6. \A u \in Tab : Single(u)' BY <1>2, <2>4, <2>5 DEF LoadsBut
  <2> QED BY <1>1, <2>1, <2>2, <2>5, <2>6 DEF RecordsTyped, LoadsBut
<1>13. ASSUME NEW t \in Tab, NEW i \in DOMAIN loads[t], Deliver(t, i) \/ LoadFails(t, i)
       PROVE  RecordsTyped' /\ Counted'
  <2>1. /\ UNCHANGED <<saved, open, bans, rev, since>> /\ UNCHANGED <<calls, timers, clicks, fixes>>
        /\ Finish(t, i)
    BY <1>13 DEF Deliver, LoadFails, server
  <2>2. PageBut(t)
    <3>1. CASE Deliver(t, i) BY <3>1, DeliverEffect
    <3>2. CASE LoadFails(t, i) BY <3>2, ErrorEffect DEF LoadFails
    <3> QED BY <1>13, <3>1, <3>2
  <2>3. Counted' BY <1>1, <1>3, <2>1, UncalledKeeps
  <2>4. loads' \in [Tab -> Seq(Load)] /\ \A u \in Tab : Single(u)' BY <1>5, <2>1
  <2> QED BY <1>1, <2>1, <2>2, <2>3, <2>4 DEF RecordsTyped, PageBut
<1>14. ASSUME NEW t \in Tab, TimerFires(t) PROVE RecordsTyped' /\ Counted'
  <2>1. /\ timers[t] > 0 /\ timers' = [timers EXCEPT ![t] = @ - 1] /\ StartLoad(t)
        /\ UNCHANGED <<saved, open, bans, rev, since>> /\ UNCHANGED <<page, calls, clicks, fixes>>
    BY <1>14 DEF TimerFires, server
  <2>2. timers' \in [Tab -> Nat] /\ \A u \in Tab : timers'[u] <= timers[u] BY <1>1, <2>1
  <2>3. Counted' BY <1>1, <1>3, <2>1, <2>2, UncalledKeeps
  <2>4. loads' \in [Tab -> Seq(Load)] /\ \A u \in Tab : Single(u)' BY <1>4, <2>1
  <2> QED BY <1>1, <2>1, <2>2, <2>3, <2>4 DEF RecordsTyped
<1>15. ASSUME NEW c \in calls, Serve(c) PROVE RecordsTyped' /\ Counted'
  <2>1. /\ c.stage = "sent" /\ rev' \in {rev, rev + 1}
        /\ saved' \in Config /\ saved'.window >= 1 /\ saved'.sound
        /\ Len(saved'.exceptions) <= MaxExceptions
        /\ open' \subseteq Subject /\ bans' \subseteq Subject /\ since' \in [Target -> 0 .. rev']
        /\ UNCHANGED <<page, loads, timers, clicks, fixes>>
    BY <1>15, ServeEffect
  <2>2. PICK stage \in {"done", "refused"} : Answered(c, stage) BY <1>15, ServeEffect
  <2>3. PICK d : /\ calls' \subseteq CallRecord /\ Counted' /\ rev' <= clicks
                 /\ calls' = (calls \ {c}) \cup {d} /\ d.kind = c.kind /\ d.arg = c.arg
    <3>1. UNCHANGED <<clicks, timers>> BY <2>1
    <3> QED BY <2>1, <2>2, <3>1, AnsweredKeeps
  <2>4. \A e \in calls' : e.kind = "ban" => e.arg \in Subject BY <1>1, <2>3
  <2>5. rev' \in 0 .. clicks' BY <1>1, <2>1, <2>3
  <2> QED BY <1>1, <1>2, <2>1, <2>3, <2>4, <2>5 DEF RecordsTyped
<1>16. ASSUME NEW c \in calls, Succeeds(c) PROVE RecordsTyped' /\ Counted'
  <2>1. /\ calls' = calls \ {c}
        /\ timers' = [timers EXCEPT ![c.tab] = IF c.kind \in ReloadsLater THEN @ + 1 ELSE @]
        /\ StartLoad(c.tab) \/ UNCHANGED loads
        /\ UNCHANGED <<saved, open, bans, rev, since>> /\ UNCHANGED <<clicks, fixes>>
    BY <1>16 DEF Succeeds, server
  <2>2. c.tab \in Tab /\ PageBut(c.tab) BY <1>16, SucceedsEffect
  <2>3. timers' \in [Tab -> Nat] /\ \A u \in Tab : timers'[u] <= timers[u] + 1
    BY <1>1, <2>1, <2>2
  <2>4. calls' \subseteq CallRecord /\ Counted' BY <2>1, <2>3, GoneKeeps
  <2>5. loads' \in [Tab -> Seq(Load)] /\ \A u \in Tab : Single(u)' BY <1>1, <1>2, <1>4, <2>1, <2>2
  <2> QED BY <1>1, <2>1, <2>2, <2>3, <2>4, <2>5 DEF RecordsTyped, PageBut
<1>17. ASSUME NEW c \in calls, Fails(c) PROVE RecordsTyped' /\ Counted'
  <2>1. /\ calls' = calls \ {c} /\ page' = [page EXCEPT ![c.tab].failed = TRUE]
        /\ UNCHANGED <<saved, open, bans, rev, since>> /\ UNCHANGED <<loads, timers, clicks, fixes>>
    BY <1>17 DEF Fails, server
  <2>2. c.tab \in Tab BY <1>1 DEF CallRecord
  <2>3. PageBut(c.tab) BY <2>1, <2>2, FailedEffect
  <2>4. timers' \in [Tab -> Nat] /\ \A u \in Tab : timers'[u] <= timers[u] + 1 BY <1>1, <2>1
  <2>5. calls' \subseteq CallRecord /\ Counted' BY <2>1, <2>4, GoneKeeps
  <2> QED BY <1>1, <1>2, <2>1, <2>3, <2>4, <2>5 DEF RecordsTyped, PageBut
<1>18. ASSUME UNCHANGED vars PROVE RecordsTyped' /\ Counted'
  BY <1>18 DEF vars, RecordsTyped, Counted, Sent
<1> QED
  BY <1>7, <1>8, <1>9, <1>10, <1>11, <1>12, <1>13, <1>14, <1>15, <1>16, <1>17, <1>18, StepCases


-------------------------------------------------------------------------------
(* Nothing is older than it says.                                             *)

\* A load keeps its answers until it is over.
OldOrEmpty ==
    \A u \in Tab : \A j \in DOMAIN loads'[u] :
        \/ loads'[u][j].findings = {} /\ loads'[u][j].config = {}
        \/ \E k \in DOMAIN loads[u] : /\ loads'[u][j].findings = loads[u][k].findings
                                      /\ loads'[u][j].config = loads[u][k].config

LEMMA StartGivesOld ==
    ASSUME RecordsTyped, NEW t \in Tab, StartLoad(t)
    PROVE  OldOrEmpty
<1>1. /\ LoadsBut(t) /\ DOMAIN loads'[t] = 1 .. Len(loads[t]) + 1
      /\ \A i \in DOMAIN loads[t] : loads'[t][i] = loads[t][i]
      /\ loads'[t][Len(loads[t]) + 1] = NoAnswers
  BY StartEffect
<1>2. DOMAIN loads[t] = 1 .. Len(loads[t]) /\ Len(loads[t]) \in Nat BY LoadsFields
<1>3. NoAnswers.findings = {} /\ NoAnswers.config = {} BY DEF NoAnswers
<1> SUFFICES ASSUME NEW u \in Tab, NEW j \in DOMAIN loads'[u]
             PROVE  \/ loads'[u][j].findings = {} /\ loads'[u][j].config = {}
                    \/ \E k \in DOMAIN loads[u] : /\ loads'[u][j].findings = loads[u][k].findings
                                                  /\ loads'[u][j].config = loads[u][k].config
  BY DEF OldOrEmpty
<1>4. CASE u # t BY <1>1, <1>4 DEF LoadsBut
<1>5. CASE u = t /\ j \in DOMAIN loads[t] BY <1>1, <1>5
<1>6. CASE u = t /\ j = Len(loads[t]) + 1 BY <1>1, <1>3, <1>6
<1> QED BY <1>1, <1>2, <1>4, <1>5, <1>6

LEMMA FinishGivesOld ==
    ASSUME RecordsTyped, NEW t \in Tab, NEW i \in DOMAIN loads[t], Finish(t, i)
    PROVE  OldOrEmpty
<1>1. /\ LoadsBut(t) /\ DOMAIN loads'[t] = 1 .. Len(loads[t]) - 1
      /\ \A j \in DOMAIN loads'[t] : j < i => loads'[t][j] = [loads[t][j] EXCEPT !.old = TRUE]
      /\ \A j \in DOMAIN loads'[t] : j >= i => loads'[t][j] = loads[t][j + 1]
  BY FinishEffect
<1>2. /\ DOMAIN loads[t] = 1 .. Len(loads[t]) /\ Len(loads[t]) \in Nat
      /\ \A j \in DOMAIN loads[t] : loads[t][j] \in Load
  BY LoadsFields
<1>3. \A l \in Load : /\ [l EXCEPT !.old = TRUE].findings = l.findings
                      /\ [l EXCEPT !.old = TRUE].config = l.config
  BY DEF Load
<1> SUFFICES ASSUME NEW u \in Tab, NEW j \in DOMAIN loads'[u]
             PROVE  \E k \in DOMAIN loads[u] : /\ loads'[u][j].findings = loads[u][k].findings
                                               /\ loads'[u][j].config = loads[u][k].config
  BY DEF OldOrEmpty
<1>4. CASE u # t BY <1>1, <1>4 DEF LoadsBut
<1>5. CASE u = t /\ j < i
  <2>1. j \in DOMAIN loads[t] BY <1>1, <1>2, <1>5
  <2>2. loads'[t][j] = [loads[t][j] EXCEPT !.old = TRUE] BY <1>1, <1>5
  <2> QED BY <1>2, <1>3, <1>5, <2>1, <2>2
<1>6. CASE u = t /\ j >= i
  <2>1. j + 1 \in DOMAIN loads[t] BY <1>1, <1>2, <1>6
  <2>2. loads'[t][j] = loads[t][j + 1] BY <1>1, <1>6
  <2> QED BY <1>6, <2>1, <2>2
<1> QED BY <1>1, <1>2, <1>4, <1>5, <1>6

\* What old answers say stays so while the server stays the same.
LEMMA OldIsHonest ==
    ASSUME AnswersHonest, OldOrEmpty, UNCHANGED <<saved, bans, rev, since>>
    PROVE  AnswersHonest'
<1> SUFFICES ASSUME NEW u \in Tab, NEW j \in DOMAIN loads'[u] PROVE LoadHonest(loads[u][j])'
  BY DEF AnswersHonest
<1>1. CASE loads'[u][j].findings = {} /\ loads'[u][j].config = {}
  BY <1>1 DEF LoadHonest
<1>2. ASSUME NEW k \in DOMAIN loads[u], loads'[u][j].findings = loads[u][k].findings,
             loads'[u][j].config = loads[u][k].config
      PROVE  LoadHonest(loads[u][j])'
  <2>1. LoadHonest(loads[u][k]) BY DEF AnswersHonest
  <2> QED BY <1>2, <2>1 DEF LoadHonest, Covers, BannedNow
<1> QED BY <1>1, <1>2 DEF OldOrEmpty

LEMMA AnswersKept ==
    ASSUME PageAssumption, RecordsTyped, AnswersHonest, [Next]_vars
    PROVE  AnswersHonest'
<1>1. rev \in Nat /\ saved \in Config /\ Len(saved.exceptions) <= MaxExceptions
  BY DEF RecordsTyped
<1>2. ASSUME NEW t \in Tab, Refresh(t) \/ TimerFires(t) PROVE AnswersHonest'
  <2>1. StartLoad(t) /\ UNCHANGED <<saved, bans, rev, since>>
    BY <1>2 DEF Refresh, TimerFires, server
  <2> QED BY <2>1, StartGivesOld, OldIsHonest
<1>3. ASSUME UNCHANGED loads PROVE OldOrEmpty BY <1>3 DEF OldOrEmpty
<1>4. ASSUME NEW t \in Tab, Edit(t) PROVE AnswersHonest'
  <2>1. UNCHANGED loads /\ UNCHANGED <<saved, bans, rev, since>> BY <1>4, EditEffect
  <2> QED BY <1>3, <2>1, OldIsHonest
<1>5. ASSUME NEW t \in Tab, Save(t) \/ Ask(t) \/ \E s \in Subject : Trust(t, s)
      PROVE  AnswersHonest'
  <2>1. UNCHANGED loads /\ UNCHANGED <<saved, bans, rev, since>>
    BY <1>5 DEF Save, Ask, AckAll, BanIp, UnbanIp, Ack, Trust, server
  <2> QED BY <1>3, <2>1, OldIsHonest
<1>6. ASSUME NEW t \in Tab, NEW i \in DOMAIN loads[t], Deliver(t, i) \/ LoadFails(t, i)
      PROVE  AnswersHonest'
  <2>1. Finish(t, i) /\ UNCHANGED <<saved, bans, rev, since>>
    BY <1>6 DEF Deliver, LoadFails, server
  <2> QED BY <2>1, FinishGivesOld, OldIsHonest
<1>7. ASSUME NEW t \in Tab, NEW i \in DOMAIN loads[t], Answer(t, i) PROVE AnswersHonest'
  <2>1. UNCHANGED <<saved, bans, rev, since>>
    BY <1>7 DEF Answer, AnswerFindings, AnswerConfig, server
  <2>2. loads \in [Tab -> Seq(Load)] /\ loads[t][i] \in Load BY LoadsFields DEF RecordsTyped
  <2>3. PICK l : /\ loads' = [loads EXCEPT ![t][i] = l]
                 /\ \/ /\ l.findings = {[shown |-> open, banned |-> BannedNow, rev |-> rev]}
                       /\ l.config = loads[t][i].config
                    \/ /\ l.config = {[config |-> saved, rev |-> rev]}
                       /\ l.findings = loads[t][i].findings
    <3>1. CASE AnswerFindings(t, i)
      <4> DEFINE a == {[shown |-> open, banned |-> BannedNow, rev |-> rev]}
                 l == [loads[t][i] EXCEPT !.findings = a]
      <4>1. loads' = [loads EXCEPT ![t][i] = l] BY <3>1 DEF AnswerFindings
      <4> HIDE DEF a
      <4>2. l.findings = a /\ l.config = loads[t][i].config BY <2>2 DEF Load
      <4> QED BY <4>1, <4>2 DEF a
    <3>2. CASE AnswerConfig(t, i)
      <4> DEFINE a == {[config |-> saved, rev |-> rev]}
                 l == [loads[t][i] EXCEPT !.config = a]
      <4>1. loads' = [loads EXCEPT ![t][i] = l] BY <3>2 DEF AnswerConfig
      <4> HIDE DEF a
      <4>2. l.config = a /\ l.findings = loads[t][i].findings BY <2>2 DEF Load
      <4> QED BY <4>1, <4>2 DEF a
    <3> QED BY <1>7, <3>1, <3>2 DEF Answer
  <2>4. /\ \A u \in Tab : u # t => loads'[u] = loads[u]
        /\ DOMAIN loads'[t] = DOMAIN loads[t] /\ loads'[t][i] = l
        /\ \A j \in DOMAIN loads[t] : j # i => loads'[t][j] = loads[t][j]
    <3>1. loads' = [loads EXCEPT ![t] = [loads[t] EXCEPT ![i] = l]] BY <2>2, <2>3
    <3> QED BY <2>2, <3>1
  <2>5. LoadHonest(loads[t][i]) BY DEF AnswersHonest
  <2>6. \A f \in l.findings : f.rev <= rev /\ (f.rev = rev => f.banned = BannedNow)
    BY <1>1, <2>3, <2>5 DEF LoadHonest
  <2>7. \A x \in ToSet(saved.exceptions) : Fits(saved.exceptions, x)
    <3>1. saved.exceptions \in Trusted BY <1>1 DEF Config
    <3> QED BY <1>1, <3>1, FitsMeans
  <2>8. \A c \in l.config :
          c.rev <= rev /\ (c.rev = rev => c.config = saved) /\ Covers({c.config}, c.rev, {})
    <3>1. CASE l.config = {[config |-> saved, rev |-> rev]}
      BY <1>1, <2>7, <3>1 DEF Covers
    <3>2. CASE l.config = loads[t][i].config BY <2>5, <3>2 DEF LoadHonest
    <3> QED BY <2>3, <3>1, <3>2
  <2>9. LoadHonest(loads[t][i])' BY <2>1, <2>4, <2>6, <2>8 DEF LoadHonest, Covers, BannedNow
  <2>10. ASSUME NEW u \in Tab, NEW j \in DOMAIN loads'[u], ~(u = t /\ j = i)
         PROVE  LoadHonest(loads[u][j])'
    <3>1. loads'[u][j] = loads[u][j] /\ j \in DOMAIN loads[u] BY <2>4, <2>10
    <3>2. LoadHonest(loads[u][j]) BY <3>1 DEF AnswersHonest
    <3> QED BY <2>1, <3>1, <3>2 DEF LoadHonest, Covers, BannedNow
  <2> QED BY <2>9, <2>10 DEF AnswersHonest
<1>8. ASSUME NEW c \in calls, Serve(c) PROVE AnswersHonest'
  <2>1. /\ rev' \in {rev, rev + 1} /\ UNCHANGED loads /\ SinceKept
        /\ rev' = rev => saved' = saved /\ BannedNow' = BannedNow
    BY <1>8, ServeEffect
  <2>2. saved' \in Config /\ since' \in [Target -> 0 .. rev'] BY <1>8, ServeEffect
  <2>3. \A x \in ToSet(saved'.exceptions) : since'[x] \in Nat
    <3>1. saved'.exceptions \in Trusted BY <2>2 DEF Config
    <3>2. saved'.exceptions \in Seq(Target) BY <3>1, TrustedMeans
    <3>3. \A x \in ToSet(saved'.exceptions) : x \in Target BY <3>2 DEF ToSet
    <3>4. rev' \in Nat BY <1>1, <2>1
    <3> QED BY <2>2, <3>3, <3>4
  <2> SUFFICES ASSUME NEW u \in Tab, NEW j \in DOMAIN loads'[u] PROVE LoadHonest(loads[u][j])'
    BY DEF AnswersHonest
  <2>4. loads'[u][j] = loads[u][j] /\ LoadHonest(loads[u][j]) /\ loads[u][j] \in Load
    BY <2>1, LoadsFields DEF AnswersHonest
  <2>5. /\ \A f \in loads[u][j].findings : f.rev \in Nat
        /\ \A a \in loads[u][j].config : a.rev \in Nat
    BY <2>4 DEF Load, FindingsAnswer, ConfigAnswer
  <2>6. \A f \in loads[u][j].findings : f.rev <= rev' /\ (f.rev = rev' => f.banned = BannedNow')
    BY <1>1, <2>1, <2>4, <2>5 DEF LoadHonest
  <2>7. ASSUME NEW a \in loads[u][j].config
        PROVE  /\ a.rev <= rev' /\ (a.rev = rev' => a.config = saved')
               /\ \A x \in ToSet(saved'.exceptions) : since'[x] <= a.rev => Fits(a.config.exceptions, x)
    <3>1. /\ a.rev <= rev /\ (a.rev = rev => a.config = saved) /\ a.rev \in Nat
          /\ \A x \in ToSet(saved.exceptions) : since[x] <= a.rev => Fits(a.config.exceptions, x)
      BY <2>4, <2>5 DEF LoadHonest, Covers
    <3> QED BY <1>1, <2>1, <2>3, <3>1 DEF SinceKept
  <2> QED BY <2>4, <2>6, <2>7 DEF LoadHonest, Covers
<1>9. ASSUME NEW c \in calls, Succeeds(c) PROVE AnswersHonest'
  <2>1. UNCHANGED <<saved, bans, rev, since>> /\ (StartLoad(c.tab) \/ UNCHANGED loads)
    BY <1>9 DEF Succeeds, server
  <2>2. c.tab \in Tab BY <1>9, SucceedsEffect
  <2> QED BY <1>3, <2>1, <2>2, StartGivesOld, OldIsHonest
<1>10. ASSUME NEW c \in calls, Fails(c) PROVE AnswersHonest'
  <2>1. UNCHANGED loads /\ UNCHANGED <<saved, bans, rev, since>> BY <1>10 DEF Fails, server
  <2> QED BY <1>3, <2>1, OldIsHonest
<1>11. ASSUME UNCHANGED vars PROVE AnswersHonest'
  <2>1. UNCHANGED loads /\ UNCHANGED <<saved, bans, rev, since>> BY <1>11 DEF vars
  <2> QED BY <1>3, <2>1, OldIsHonest
<1> QED
  BY <1>2, <1>4, <1>5, <1>6, <1>7, <1>8, <1>9, <1>10, <1>11, StepCases


\* A trust adds its target to what the copy carries.
LEMMA TrustCarries ==
    ASSUME PageAssumption, RecordsTyped, NEW t \in Tab, NEW s \in Subject, Trust(t, s)
    PROVE  \E c \in page[t].config, d \in Config :
              page'[t].config = {d} /\ Carries(t, c, d) /\ TargetOf[s] \in ToSet(d.exceptions)
<1> DEFINE x == TargetOf[s]
<1>1. PICK c \in page[t].config :
         /\ page'[t].config = {[c EXCEPT !.exceptions = Append(@, x)]}
         /\ x \notin ToSet(c.exceptions) /\ Len(c.exceptions) <= MaxExceptions
  BY TrustEffect
<1> DEFINE list == Append(c.exceptions, x)
           d == [c EXCEPT !.exceptions = list]
<1>2. c \in Config /\ c.exceptions \in Trusted BY PageFields
<1>3. x \in Target BY DEF Target
<1>4. /\ list \in Trusted /\ x \in ToSet(list) /\ \A y : Fits(c.exceptions, y) => Fits(list, y)
  BY <1>1, <1>2, <1>3, AppendKeeps
<1>5. page'[t].config = {d} BY <1>1
<1> HIDE DEF list
<1>6. d \in Config /\ d.exceptions = list BY <1>2, <1>4 DEF Config
<1>7. page'[t].removed = page[t].removed BY TrustEffect
<1>8. Carries(t, c, d) BY <1>4, <1>6, <1>7 DEF Carries
<1> QED BY <1>4, <1>5, <1>6, <1>8

\* Ages of targets on the list are numbers.
LEMMA SinceFields ==
    ASSUME PageAssumption, saved \in Config, since \in [Target -> 0 .. rev], rev \in Nat
    PROVE  \A x \in ToSet(saved.exceptions) : since[x] \in Nat
<1>1. saved.exceptions \in Trusted BY DEF Config
<1>2. saved.exceptions \in Seq(Target) BY <1>1, TrustedMeans
<1>3. \A x \in ToSet(saved.exceptions) : x \in Target BY <1>2 DEF ToSet
<1> QED BY <1>3

LEMMA PagesKept ==
    ASSUME PageAssumption, RecordsTyped, AnswersHonest, PagesHonest, CallsHonest, [Next]_vars
    PROVE  PagesHonest'
<1>1. /\ rev \in Nat /\ saved \in Config /\ since \in [Target -> 0 .. rev]
      /\ page \in [Tab -> Page] /\ \A u \in Tab : PageHonest(page[u])
  BY DEF RecordsTyped, PagesHonest
<1>2. ASSUME UNCHANGED <<saved, bans, rev, since>>, UNCHANGED page PROVE PagesHonest'
  BY <1>1, <1>2 DEF PagesHonest, PageHonest, Covers, BannedNow
<1>3. ASSUME NEW t \in Tab, UNCHANGED <<saved, bans, rev, since>>, PageBut(t), PageHonest(page[t])'
      PROVE  PagesHonest'
  <2>1. \A u \in Tab \ {t} : page'[u] = page[u] /\ PageHonest(page[u]) BY <1>1, <1>3 DEF PageBut
  <2>2. \A u \in Tab \ {t} : PageHonest(page[u])' BY <1>3, <2>1 DEF PageHonest, Covers, BannedNow
  <2> QED BY <1>3, <2>2 DEF PagesHonest
<1>4. ASSUME NEW t \in Tab, Refresh(t) \/ Save(t) \/ Ask(t) \/ TimerFires(t) PROVE PagesHonest'
  <2>1. UNCHANGED <<saved, bans, rev, since>> /\ UNCHANGED page
    BY <1>4 DEF Refresh, Save, Ask, AckAll, BanIp, UnbanIp, Ack, TimerFires, server
  <2> QED BY <1>2, <2>1
<1>5. ASSUME NEW t \in Tab, UNCHANGED <<saved, bans, rev, since>>, PageBut(t), Ages(t)' = Ages(t),
             page'[t].edited # "no",
             NEW c \in page[t].config, NEW d, page'[t].config = {d}, Carries(t, c, d)
      PROVE  PagesHonest'
  <2>1. page'[t].base = page[t].base /\ page'[t].own = page[t].own BY <1>5 DEF Ages
  <2>2. PageHonest(page[t]) BY <1>1
  <2>3. ASSUME NEW x \in ToSet(saved.exceptions), since[x] <= page[t].base, x \notin page'[t].removed
        PROVE  Fits(d.exceptions, x)
    <3>1. Fits(c.exceptions, x) \/ x \in page[t].removed BY <2>2, <2>3 DEF PageHonest, Covers
    <3> QED BY <1>5, <2>3, <3>1 DEF Carries
  <2>4. PageHonest(page[t])' BY <1>5, <2>1, <2>2, <2>3 DEF PageHonest, Covers
  <2> QED BY <1>3, <1>5, <2>4
<1>6. ASSUME NEW t \in Tab, Edit(t) PROVE PagesHonest'
  <2>1. PICK c \in page[t].config, d \in Config : page'[t].config = {d} /\ Carries(t, c, d)
    BY <1>6, EditEffect
  <2>2. PageBut(t) /\ Ages(t)' = Ages(t) /\ page'[t].edited # "no"
        /\ UNCHANGED <<saved, bans, rev, since>>
    BY <1>6, EditEffect
  <2> QED BY <1>5, <2>1, <2>2
<1>7. ASSUME NEW t \in Tab, NEW s \in Subject, Trust(t, s) PROVE PagesHonest'
  <2>1. PICK c \in page[t].config, d \in Config : page'[t].config = {d} /\ Carries(t, c, d)
    BY <1>7, TrustCarries
  <2>2. PageBut(t) /\ Ages(t)' = Ages(t) /\ page'[t].edited # "no" BY <1>7, TrustEffect
  <2>3. UNCHANGED <<saved, bans, rev, since>> BY <1>7 DEF Trust, server
  <2> QED BY <1>5, <2>1, <2>2, <2>3
<1>8. ASSUME NEW t \in Tab, NEW i \in DOMAIN loads[t], Deliver(t, i) PROVE PagesHonest'
  <2>1. UNCHANGED <<saved, bans, rev, since>> BY <1>8 DEF Deliver, server
  <2>2. PICK f \in loads[t][i].findings, c \in loads[t][i].config :
          /\ page'[t].config = {c.config} /\ page'[t].shown = f.shown
          /\ page'[t].banned = f.banned \cap f.shown
          /\ page'[t].base = (IF f.rev < c.rev THEN f.rev ELSE c.rev)
    BY <1>8, DeliverEffect
  <2>3. PageBut(t) /\ page'[t].own = page[t].own /\ page'[t].removed = {}
    BY <1>8, DeliverEffect
  <2>4. LoadHonest(loads[t][i]) /\ loads[t][i] \in Load BY LoadsFields DEF AnswersHonest
  <2>5. f.rev \in Nat /\ c.rev \in Nat BY <2>4 DEF Load, FindingsAnswer, ConfigAnswer
  <2>6. /\ f.rev <= rev /\ (f.rev = rev => f.banned = BannedNow)
        /\ c.rev <= rev /\ (c.rev = rev => c.config = saved)
        /\ \A x \in ToSet(saved.exceptions) : since[x] <= c.rev => Fits(c.config.exceptions, x)
    BY <2>4 DEF LoadHonest, Covers
  <2>7. page'[t].base <= c.rev /\ page'[t].base <= f.rev /\ page'[t].base \in Nat
    BY <2>2, <2>5
  <2>8. \A x \in ToSet(saved.exceptions) : since[x] \in Nat BY <1>1, SinceFields
  <2>9. page[t].own <= rev BY <1>1 DEF PageHonest
  <2>10. Covers(page[t].config, page[t].base, page[t].removed)'
    <3> SUFFICES ASSUME NEW x \in ToSet(saved.exceptions), since[x] <= page'[t].base
                 PROVE  Fits(c.config.exceptions, x)
      BY <2>1, <2>2 DEF Covers
    <3>1. since[x] <= c.rev BY <2>5, <2>7, <2>8
    <3> QED BY <2>6, <3>1
  <2>11. page'[t].base = rev => /\ page'[t].config = {saved}
                               /\ page'[t].banned = BannedNow \cap page'[t].shown
    BY <1>1, <2>2, <2>5, <2>6, <2>7
  <2>12. page'[t].base <= rev BY <1>1, <2>5, <2>6, <2>7
  <2>13. PageHonest(page[t])' BY <2>1, <2>3, <2>9, <2>10, <2>11, <2>12 DEF PageHonest, BannedNow
  <2> QED BY <1>3, <2>1, <2>3, <2>13
<1>9. ASSUME NEW t \in Tab, UNCHANGED <<saved, bans, rev, since>>, PageBut(t), Shows(t)' = Shows(t),
             page'[t].config = page[t].config, page'[t].base = page[t].base,
             page'[t].own = page[t].own, page'[t].edited = page[t].edited,
             page'[t].removed = page[t].removed
      PROVE  PagesHonest'
  <2>1. PageHonest(page[t]) BY <1>1
  <2>2. PageHonest(page[t])' BY <1>9, <2>1 DEF PageHonest, Covers, BannedNow, Shows
  <2> QED BY <1>3, <1>9, <2>2
<1>10. ASSUME NEW t \in Tab, NEW i \in DOMAIN loads[t], LoadFails(t, i) PROVE PagesHonest'
  <2>1. page' = [page EXCEPT ![t].error = TRUE] /\ UNCHANGED <<saved, bans, rev, since>>
    BY <1>10 DEF LoadFails, server
  <2> QED BY <1>9, <2>1, ErrorEffect
<1>11. ASSUME NEW c \in calls, Fails(c) PROVE PagesHonest'
  <2>1. page' = [page EXCEPT ![c.tab].failed = TRUE] /\ UNCHANGED <<saved, bans, rev, since>>
    BY <1>11 DEF Fails, server
  <2>2. c.tab \in Tab BY DEF RecordsTyped, CallRecord
  <2> QED BY <1>9, <2>1, <2>2, FailedEffect
<1>12. ASSUME NEW c \in calls, Succeeds(c) PROVE PagesHonest'
  <2> DEFINE t == c.tab
  <2>1. UNCHANGED <<saved, bans, rev, since>> BY <1>12 DEF Succeeds, server
  <2>2. /\ t \in Tab /\ PageBut(t)
        /\ page'[t].shown = page[t].shown \ Acked(c)
        /\ page'[t].banned = page[t].banned \ Acked(c)
        /\ page'[t].own = Own(page[t], c)
        /\ page'[t].config = page[t].config /\ page'[t].base = page[t].base
        /\ page'[t].edited = page[t].edited /\ page'[t].removed = page[t].removed
    BY <1>12, SucceedsEffect
  <2>3. PageHonest(page[t]) /\ c.rev <= rev BY <1>1, <2>2 DEF CallsHonest, CallHonest
  <2>4. page'[t].own <= rev BY <2>2, <2>3 DEF Own, PageHonest
  <2>5. page[t].banned = BannedNow \cap page[t].shown
          => page'[t].banned = BannedNow \cap page'[t].shown
    BY <2>2
  <2>6. PageHonest(page[t])'
    <3> HIDE DEF t
    <3> QED BY <2>1, <2>2, <2>3, <2>4, <2>5 DEF PageHonest, Covers, BannedNow
  <2> QED BY <1>3, <2>1, <2>2, <2>6
<1>13. ASSUME NEW c \in calls, Serve(c) PROVE PagesHonest'
  <2>1. /\ rev' \in {rev, rev + 1} /\ UNCHANGED page /\ SinceKept
        /\ rev' = rev => saved' = saved /\ BannedNow' = BannedNow
    BY <1>13, ServeEffect
  <2>2. saved' \in Config /\ since' \in [Target -> 0 .. rev'] /\ rev' \in Nat
    BY <1>1, <1>13, ServeEffect
  <2>3. \A x \in ToSet(saved'.exceptions) : since'[x] \in Nat
    <3>1. saved'.exceptions \in Trusted BY <2>2 DEF Config
    <3>2. saved'.exceptions \in Seq(Target) BY <3>1, TrustedMeans
    <3>3. \A x \in ToSet(saved'.exceptions) : x \in Target BY <3>2 DEF ToSet
    <3> QED BY <2>2, <3>3
  <2> SUFFICES ASSUME NEW t \in Tab PROVE PageHonest(page[t])' BY DEF PagesHonest
  <2>4. PageHonest(page[t]) /\ page'[t] = page[t] /\ page[t] \in Page BY <1>1, <2>1
  <2>5. page[t].base \in Nat /\ page[t].own \in Nat BY <2>4 DEF Page
  <2>6. page[t].base <= rev' /\ page[t].own <= rev' BY <1>1, <2>1, <2>4, <2>5 DEF PageHonest
  <2>7. page[t].base = rev' => rev' = rev BY <1>1, <2>1, <2>4, <2>5 DEF PageHonest
  <2>8. ASSUME NEW d \in page[t].config, NEW x \in ToSet(saved'.exceptions),
               since'[x] <= page[t].base, x \notin page[t].removed
        PROVE  Fits(d.exceptions, x)
    <3>1. since'[x] <= rev BY <1>1, <2>3, <2>4, <2>5, <2>8 DEF PageHonest
    <3>2. x \in ToSet(saved.exceptions) /\ since'[x] = since[x] BY <2>1, <3>1 DEF SinceKept
    <3> QED BY <2>4, <2>8, <3>2 DEF PageHonest, Covers
  <2>9. Covers(page[t].config, page[t].base, page[t].removed)' BY <2>4, <2>8 DEF Covers
  <2> QED BY <2>1, <2>4, <2>6, <2>7, <2>9 DEF PageHonest
<1>14. ASSUME UNCHANGED vars PROVE PagesHonest' BY <1>2, <1>14 DEF vars
<1>15. ASSUME NEW t \in Tab, NEW i \in DOMAIN loads[t], Answer(t, i) PROVE PagesHonest'
  <2>1. UNCHANGED <<saved, bans, rev, since>> /\ UNCHANGED page
    BY <1>15 DEF Answer, AnswerFindings, AnswerConfig, server
  <2> QED BY <1>2, <2>1
<1> QED
  BY <1>4, <1>6, <1>7, <1>8, <1>10, <1>11, <1>12, <1>13, <1>14, <1>15, StepCases

LEMMA CallsKept ==
    ASSUME PageAssumption, RecordsTyped, Counted, PagesHonest, CallsHonest, [Next]_vars
    PROVE  CallsHonest'
<1>1. /\ rev \in Nat /\ saved \in Config /\ since \in [Target -> 0 .. rev]
      /\ calls \subseteq CallRecord /\ \A c \in calls : CallHonest(c)
  BY DEF RecordsTyped, CallsHonest
<1>2. ASSUME UNCHANGED <<saved, rev, since>>, calls' \subseteq calls PROVE CallsHonest'
  BY <1>1, <1>2 DEF CallsHonest, CallHonest, Covers
<1>3. ASSUME UNCHANGED <<saved, rev, since>>, NEW c, calls' = calls \cup {c}, CallHonest(c)
      PROVE  CallsHonest'
  BY <1>1, <1>3 DEF CallsHonest, CallHonest, Covers
<1>4. ASSUME NEW t \in Tab, Refresh(t) \/ Edit(t) \/ TimerFires(t) PROVE CallsHonest'
  <2>1. UNCHANGED <<saved, rev, since>> /\ UNCHANGED calls
    BY <1>4, EditEffect DEF Refresh, TimerFires, server
  <2> QED BY <1>2, <2>1
<1>5. ASSUME NEW t \in Tab, NEW i \in DOMAIN loads[t],
             Answer(t, i) \/ Deliver(t, i) \/ LoadFails(t, i)
      PROVE  CallsHonest'
  <2>1. UNCHANGED <<saved, rev, since>> /\ UNCHANGED calls
    BY <1>5 DEF Answer, AnswerFindings, AnswerConfig, Deliver, LoadFails, server
  <2> QED BY <1>2, <2>1
<1>6. ASSUME NEW t \in Tab, clicks < MaxClicks, Ask(t) PROVE CallsHonest'
  <2>1. PICK kind \in Kind \ {"trust", "save"}, arg \in Subject \cup {None} :
            calls' = calls \cup {Call(t, kind, arg, {})}
    BY <1>6, AskEffect
  <2> DEFINE c == Call(t, kind, arg, {})
  <2>2. c.kind = kind /\ c.rev = 0
    <3>1. {} \in SUBSET Config /\ arg \in Subject \cup Target \cup {None} /\ kind \in Kind OBVIOUS
    <3> QED BY <1>6, <3>1, NewCall
  <2>3. calls' = calls \cup {c} BY <2>1
  <2> HIDE DEF c
  <2>4. CallHonest(c) BY <1>1, <2>2 DEF CallHonest
  <2>5. UNCHANGED <<saved, rev, since>> BY <1>6, AskEffect
  <2> QED BY <1>3, <2>3, <2>4, <2>5
<1>7. ASSUME NEW t \in Tab, clicks < MaxClicks, Save(t) PROVE CallsHonest'
  <2> DEFINE c == Call(t, "save", None, page[t].config)
  <2>1. calls' = calls \cup {c} /\ UNCHANGED <<saved, rev, since>> BY <1>7 DEF Save, server
  <2>2. /\ c.kind = "save" /\ c.config = page[t].config /\ c.rev = 0
        /\ c.base = (IF page[t].config = {} THEN 0 ELSE page[t].base)
        /\ c.removed = (IF page[t].config = {} THEN {} ELSE page[t].removed)
    <3>1. "save" \in Kind /\ page[t].config \in SUBSET Config BY PageFields DEF Kind
    <3> QED BY <1>7, <3>1, NewCall
  <2> HIDE DEF c
  <2>3. PageHonest(page[t]) BY DEF PagesHonest
  <2>4. CallHonest(c) BY <1>1, <2>2, <2>3 DEF CallHonest, PageHonest, Covers
  <2> QED BY <1>3, <2>1, <2>4
<1>8. ASSUME NEW t \in Tab, clicks < MaxClicks, NEW s \in Subject, Trust(t, s) PROVE CallsHonest'
  <2>1. PICK e \in page[t].config, d \in Config :
          page'[t].config = {d} /\ Carries(t, e, d) /\ TargetOf[s] \in ToSet(d.exceptions)
    BY <1>8, TrustCarries
  <2> DEFINE c == Call(t, "trust", TargetOf[s], {d})
  <2>2. calls' = calls \cup {c} /\ page'[t].removed = page[t].removed BY <1>8, <2>1, TrustEffect
  <2>3. UNCHANGED <<saved, rev, since>> BY <1>8 DEF Trust, server
  <2>4. /\ c.kind = "trust" /\ c.arg = TargetOf[s] /\ c.config = {d} /\ c.rev = 0
        /\ c.base = page[t].base /\ c.removed = page[t].removed
    <3>1. "trust" \in Kind /\ TargetOf[s] \in Target /\ {d} \in SUBSET Config BY DEF Kind, Target
    <3>2. {d} # {} OBVIOUS
    <3> DEFINE config == {d}
    <3>3. config # {} /\ config \in SUBSET Config /\ c = Call(t, "trust", TargetOf[s], config)
      BY <3>1, <3>2
    <3> HIDE DEF c, config
    <3>4. /\ c.kind = "trust" /\ c.arg = TargetOf[s] /\ c.config = config /\ c.rev = 0
          /\ c.base = page[t].base /\ c.removed = page[t].removed
      BY <1>8, <3>1, <3>3, NewCall
    <3> QED BY <3>4 DEF config
  <2> HIDE DEF c
  <2>5. PageHonest(page[t]) BY DEF PagesHonest
  <2>6. ASSUME NEW x \in ToSet(saved.exceptions), since[x] <= page[t].base, x \notin page[t].removed
        PROVE  Fits(d.exceptions, x)
    <3>1. Fits(e.exceptions, x) BY <2>5, <2>6 DEF PageHonest, Covers
    <3> QED BY <2>1, <2>2, <2>6, <3>1 DEF Carries
  <2>7. CallHonest(c) BY <1>1, <2>1, <2>4, <2>5, <2>6 DEF CallHonest, PageHonest, Covers
  <2> QED BY <1>3, <2>2, <2>3, <2>7
<1>9. ASSUME NEW c \in calls, Succeeds(c) \/ Fails(c) PROVE CallsHonest'
  <2>1. UNCHANGED <<saved, rev, since>> /\ calls' \subseteq calls
    BY <1>9 DEF Succeeds, Fails, server
  <2> QED BY <1>2, <2>1
<1>10. ASSUME NEW c \in calls, Serve(c) PROVE CallsHonest'
  <2>1. /\ rev' \in {rev, rev + 1} /\ SinceKept /\ c.stage = "sent" /\ UNCHANGED <<clicks, timers>>
        /\ saved' \in Config /\ since' \in [Target -> 0 .. rev']
    BY <1>10, ServeEffect
  <2>2. PICK stage \in {"done", "refused"} : Answered(c, stage) BY <1>10, ServeEffect
  <2>3. PICK d : /\ calls' = (calls \ {c}) \cup {d} /\ d.rev = rev' /\ d.kind = c.kind
                 /\ d.config = c.config /\ d.arg = c.arg /\ d.base = c.base /\ d.removed = c.removed
    BY <2>1, <2>2, AnsweredKeeps
  <2>4. rev' \in Nat /\ \A x \in ToSet(saved'.exceptions) : since'[x] \in Nat
    <3>1. saved'.exceptions \in Trusted BY <2>1 DEF Config
    <3>2. saved'.exceptions \in Seq(Target) BY <3>1, TrustedMeans
    <3>3. \A x \in ToSet(saved'.exceptions) : x \in Target BY <3>2 DEF ToSet
    <3> QED BY <1>1, <2>1, <3>3
  <2>5. ASSUME NEW e \in calls, e.kind \in {"trust", "save"}, NEW s \in e.config,
               NEW x \in ToSet(saved'.exceptions), since'[x] <= e.base, x \notin e.removed
        PROVE  Fits(s.exceptions, x)
    <3>1. CallHonest(e) /\ e.base \in Nat BY <1>1 DEF CallRecord
    <3>2. since'[x] <= rev BY <1>1, <2>4, <2>5, <3>1 DEF CallHonest
    <3>3. x \in ToSet(saved.exceptions) /\ since'[x] = since[x] BY <2>1, <3>2 DEF SinceKept
    <3> QED BY <2>5, <3>1, <3>3 DEF CallHonest, Covers
  <2>6. ASSUME NEW e \in calls
        PROVE  /\ e.rev <= rev' /\ (e.kind \in {"trust", "save"} => e.base <= rev')
               /\ e.kind = "trust" => \A s \in e.config : e.arg \in ToSet(s.exceptions)
    <3>1. CallHonest(e) /\ e.base \in Nat /\ e.rev \in Nat BY <1>1 DEF CallRecord
    <3> QED BY <1>1, <2>1, <3>1 DEF CallHonest
  <2>7. ASSUME NEW e \in calls \ {c} PROVE CallHonest(e)'
    BY <2>5, <2>6 DEF CallHonest, Covers
  <2>8. CallHonest(d)' BY <2>3, <2>4, <2>5, <2>6 DEF CallHonest, Covers
  <2> QED BY <2>3, <2>7, <2>8 DEF CallsHonest
<1>11. ASSUME UNCHANGED vars PROVE CallsHonest' BY <1>2, <1>11 DEF vars
<1> QED BY <1>4, <1>5, <1>6, <1>7, <1>8, <1>9, <1>10, <1>11, StepCases


-------------------------------------------------------------------------------
(* What is still to come.                                                     *)

\* A load that has just started will show everything.
LEMMA StartedIsFresh ==
    ASSUME RecordsTyped, NEW t \in Tab, StartLoad(t)
    PROVE  TabUpToDate(t)'
<1>1. PICK n \in Nat : DOMAIN loads'[t] = 1 .. n + 1 /\ loads'[t][n + 1] = NoAnswers
  BY StartEffect, LoadsFields
<1>2. Fresh(t, n + 1)' BY <1>1 DEF Fresh, NoAnswers
<1>3. \A i \in 0 .. n : FreshAfter(t, i)' BY <1>1, <1>2 DEF FreshAfter
<1> QED BY <1>1, <1>2, <1>3 DEF TabUpToDate

\* A tab is as much up to date as it was while its page, loads and timers stay.
LEMMA SameIsUpToDate ==
    ASSUME NEW t \in Tab, TabUpToDate(t), loads'[t] = loads[t], timers'[t] = timers[t],
           page'[t].own = page[t].own, page'[t].base = page[t].base,
           page'[t].error = page[t].error, page'[t].misled = page[t].misled
    PROVE  TabUpToDate(t)'
BY DEF TabUpToDate, FreshAfter, Fresh

\* An answer that comes in now is not older than the tab's own last call.
LEMMA AnswerIsFresh ==
    ASSUME PageAssumption, RecordsTyped, PagesHonest, NEW t \in Tab, TabUpToDate(t),
           NEW i \in DOMAIN loads[t], Answer(t, i)
    PROVE  TabUpToDate(t)'
<1>1. /\ loads \in [Tab -> Seq(Load)] /\ rev >= page[t].own
      /\ page'[t] = page[t] /\ timers'[t] = timers[t]
  BY DEF RecordsTyped, PagesHonest, PageHonest, Answer, AnswerFindings, AnswerConfig
<1>2. loads[t][i] \in Load BY LoadsFields
<1>3. PICK l \in Load :
         /\ loads' = [loads EXCEPT ![t][i] = l] /\ l.old = loads[t][i].old
         /\ \A a \in l.findings \cup l.config :
               a \in loads[t][i].findings \cup loads[t][i].config \/ a.rev = rev
  <2>1. rev \in Nat /\ saved \in Config /\ open \subseteq Subject /\ BannedNow \subseteq Subject
    BY DEF RecordsTyped, BannedNow, PageAssumption
  <2>2. CASE AnswerFindings(t, i)
    <3> DEFINE f == [shown |-> open, banned |-> BannedNow, rev |-> rev]
               l == [loads[t][i] EXCEPT !.findings = {f}]
    <3>1. f \in FindingsAnswer /\ f.rev = rev BY <2>1 DEF FindingsAnswer
    <3>2. loads' = [loads EXCEPT ![t][i] = l] BY <2>2 DEF AnswerFindings
    <3> HIDE DEF f
    <3>3. l \in Load /\ l.old = loads[t][i].old /\ l.findings = {f} /\ l.config = loads[t][i].config
      BY <1>2, <3>1 DEF Load
    <3> QED BY <3>1, <3>2, <3>3
  <2>3. CASE AnswerConfig(t, i)
    <3> DEFINE f == [config |-> saved, rev |-> rev]
               l == [loads[t][i] EXCEPT !.config = {f}]
    <3>1. f \in ConfigAnswer /\ f.rev = rev BY <2>1 DEF ConfigAnswer
    <3>2. loads' = [loads EXCEPT ![t][i] = l] BY <2>3 DEF AnswerConfig
    <3> HIDE DEF f
    <3>3. l \in Load /\ l.old = loads[t][i].old /\ l.config = {f} /\ l.findings = loads[t][i].findings
      BY <1>2, <3>1 DEF Load
    <3> QED BY <3>1, <3>2, <3>3
  <2> QED BY <2>2, <2>3 DEF Answer
<1>4. /\ DOMAIN loads'[t] = DOMAIN loads[t] /\ loads'[t][i] = l
      /\ \A j \in DOMAIN loads[t] : j # i => loads'[t][j] = loads[t][j]
  <2>1. loads' = [loads EXCEPT ![t][i] = l] BY <1>3
  <2> QED BY <2>1, AnswerEffect
<1>5. \A j \in DOMAIN loads[t] : loads'[t][j].old = loads[t][j].old BY <1>3, <1>4
<1>6. ASSUME NEW j \in DOMAIN loads[t], Fresh(t, j) PROVE Fresh(t, j)'
  <2>1. CASE j = i BY <1>1, <1>3, <1>4, <1>6, <2>1 DEF Fresh
  <2>2. CASE j # i BY <1>1, <1>4, <1>6, <2>2 DEF Fresh
  <2> QED BY <2>1, <2>2
<1>7. \A k \in Nat : FreshAfter(t, k) => FreshAfter(t, k)' BY <1>1, <1>4, <1>6 DEF FreshAfter
<1>8. DOMAIN loads[t] \subseteq Nat BY LoadsFields
<1> QED BY <1>1, <1>4, <1>5, <1>6, <1>7, <1>8 DEF TabUpToDate

\* When a load is over, what is still to come comes after it, or its answers are old.
LEMMA FinishedIsFresh ==
    ASSUME RecordsTyped, NEW t \in Tab, NEW i \in DOMAIN loads[t], Finish(t, i), TabUpToDate(t),
           page'[t].own = page[t].own, timers'[t] = timers[t]
    PROVE  /\ \A j \in DOMAIN loads'[t] : (loads[t][j].old \/ Fresh(t, j) \/ FreshAfter(t, j))'
           /\ FreshAfter(t, i) => FreshAfter(t, 0)'
<1> DEFINE n == Len(loads[t])
<1>1. /\ DOMAIN loads'[t] = 1 .. n - 1
      /\ \A j \in DOMAIN loads'[t] : j < i => loads'[t][j] = [loads[t][j] EXCEPT !.old = TRUE]
      /\ \A j \in DOMAIN loads'[t] : j >= i => loads'[t][j] = loads[t][j + 1]
  BY FinishEffect
<1>2. /\ n \in Nat /\ DOMAIN loads[t] = 1 .. n /\ \A j \in 1 .. n : loads[t][j] \in Load
  BY LoadsFields
<1> HIDE DEF n
<1>3. ASSUME NEW j \in 1 .. n - 1, j >= i, Fresh(t, j + 1) PROVE Fresh(t, j)'
  <2>1. loads'[t][j] = loads[t][j + 1] BY <1>1, <1>3
  <2> QED BY <1>3, <2>1 DEF Fresh
<1>4. ASSUME NEW j \in 0 .. n - 1, FreshAfter(t, j + 1), j + 1 >= i PROVE FreshAfter(t, j)'
  <2>1. CASE timers[t] > 0 BY <2>1 DEF FreshAfter
  <2>2. ASSUME NEW k \in DOMAIN loads[t], k > j + 1, Fresh(t, k) PROVE FreshAfter(t, j)'
    <3> DEFINE m == k - 1
    <3>1. m \in 1 .. n - 1 /\ m >= i /\ m + 1 = k /\ m > j BY <1>2, <1>4, <2>2
    <3> HIDE DEF m
    <3>2. Fresh(t, m)' BY <1>3, <2>2, <3>1
    <3> QED BY <1>1, <3>1, <3>2 DEF FreshAfter
  <2> QED BY <1>4, <2>1, <2>2 DEF FreshAfter
<1>5. ASSUME NEW j \in 1 .. n - 1, j < i PROVE loads'[t][j].old
  <2>1. loads'[t][j] = [loads[t][j] EXCEPT !.old = TRUE] /\ loads[t][j] \in Load
    BY <1>1, <1>2, <1>5
  <2> QED BY <2>1 DEF Load
<1>6. ASSUME NEW j \in 1 .. n - 1, j >= i PROVE (loads[t][j].old \/ Fresh(t, j) \/ FreshAfter(t, j))'
  <2>1. loads'[t][j] = loads[t][j + 1] BY <1>1, <1>6
  <2>2. loads[t][j + 1].old \/ Fresh(t, j + 1) \/ FreshAfter(t, j + 1)
    BY <1>2 DEF TabUpToDate
  <2>3. j \in 0 .. n - 1 /\ j + 1 >= i BY <1>2, <1>6
  <2> QED BY <1>3, <1>4, <1>6, <2>1, <2>2, <2>3
<1>7. ASSUME FreshAfter(t, i) PROVE FreshAfter(t, 0)'
  <2>1. i - 1 \in 0 .. n - 1 /\ (i - 1) + 1 = i BY <1>2
  <2>2. FreshAfter(t, i - 1)' BY <1>4, <1>7, <2>1
  <2> QED BY <1>1, <1>2, <2>1, <2>2 DEF FreshAfter
<1>8. \A j \in 1 .. n - 1 : j < i \/ j >= i BY <1>2
<1> QED BY <1>1, <1>5, <1>6, <1>7, <1>8


LEMMA UpToDateKept ==
    ASSUME PageAssumption, RecordsTyped, PagesHonest, UpToDate, [Next]_vars
    PROVE  UpToDate'
<1>1. /\ page \in [Tab -> Page] /\ timers \in [Tab -> Nat] /\ loads \in [Tab -> Seq(Load)]
      /\ \A u \in Tab : TabUpToDate(u)
  BY DEF RecordsTyped, UpToDate
<1>2. ASSUME NEW t \in Tab, TabUpToDate(t)',
             \A u \in Tab \ {t} : page'[u] = page[u] /\ loads'[u] = loads[u] /\ timers'[u] = timers[u]
      PROVE  UpToDate'
  <2>1. \A u \in Tab \ {t} : TabUpToDate(u)' BY <1>1, <1>2, SameIsUpToDate
  <2> QED BY <1>2, <2>1 DEF UpToDate
<1>3. ASSUME UNCHANGED <<page, loads, timers>> PROVE UpToDate'
  <2>1. \A u \in Tab : TabUpToDate(u)' BY <1>1, <1>3, SameIsUpToDate
  <2> QED BY <2>1 DEF UpToDate
<1>4. ASSUME NEW t \in Tab, Refresh(t) PROVE UpToDate'
  <2>1. StartLoad(t) /\ UNCHANGED <<page, timers>> BY <1>4 DEF Refresh
  <2>2. LoadsBut(t) /\ TabUpToDate(t)' BY <2>1, StartEffect, StartedIsFresh
  <2> QED BY <1>2, <2>1, <2>2 DEF LoadsBut
<1>5. ASSUME NEW t \in Tab, TimerFires(t) PROVE UpToDate'
  <2>1. StartLoad(t) /\ UNCHANGED page /\ \A u \in Tab \ {t} : timers'[u] = timers[u]
    BY <1>1, <1>5 DEF TimerFires
  <2>2. LoadsBut(t) /\ TabUpToDate(t)' BY <2>1, StartEffect, StartedIsFresh
  <2> QED BY <1>2, <2>1, <2>2 DEF LoadsBut
<1>6. ASSUME NEW t \in Tab, PageBut(t), Ages(t)' = Ages(t), UNCHANGED <<loads, timers>>
      PROVE  UpToDate'
  <2>1. TabUpToDate(t)' BY <1>1, <1>6, SameIsUpToDate DEF Ages
  <2> QED BY <1>2, <1>6, <2>1 DEF PageBut
<1>7. ASSUME NEW t \in Tab, Edit(t) PROVE UpToDate' BY <1>6, <1>7, EditEffect
<1>8. ASSUME NEW t \in Tab, NEW s \in Subject, Trust(t, s) PROVE UpToDate'
  <2>1. UNCHANGED <<loads, timers>> BY <1>8 DEF Trust
  <2> QED BY <1>6, <1>8, <2>1, TrustEffect
<1>9. ASSUME NEW t \in Tab, Save(t) \/ Ask(t) PROVE UpToDate'
  <2>1. UNCHANGED <<page, loads, timers>>
    BY <1>9 DEF Save, Ask, AckAll, BanIp, UnbanIp, Ack
  <2> QED BY <1>3, <2>1
<1>10. ASSUME NEW t \in Tab, NEW i \in DOMAIN loads[t], Answer(t, i) PROVE UpToDate'
  <2>1. TabUpToDate(t)' BY <1>1, <1>10, AnswerIsFresh
  <2>2. UNCHANGED <<page, timers>> /\ \A u \in Tab \ {t} : loads'[u] = loads[u]
    BY <1>1, <1>10 DEF Answer, AnswerFindings, AnswerConfig
  <2> QED BY <1>2, <2>1, <2>2
<1>11. ASSUME NEW t \in Tab, NEW i \in DOMAIN loads[t], Deliver(t, i) PROVE UpToDate'
  <2>1. Finish(t, i) /\ UNCHANGED timers BY <1>11 DEF Deliver
  <2>2. PICK f \in loads[t][i].findings, c \in loads[t][i].config :
          page'[t].base = (IF f.rev < c.rev THEN f.rev ELSE c.rev)
    BY <1>11, DeliverEffect
  <2>3. PageBut(t) /\ page'[t].own = page[t].own /\ page'[t].misled = loads[t][i].old
    BY <1>11, DeliverEffect
  <2>4. LoadsBut(t) BY <2>1, FinishEffect
  <2>5. /\ \A j \in DOMAIN loads'[t] : (loads[t][j].old \/ Fresh(t, j) \/ FreshAfter(t, j))'
        /\ FreshAfter(t, i) => FreshAfter(t, 0)'
    BY <1>1, <2>1, <2>3, FinishedIsFresh
  <2>6. loads[t][i].old \/ Fresh(t, i) \/ FreshAfter(t, i) BY <1>1 DEF TabUpToDate
  <2>7. Fresh(t, i) => page'[t].base >= page'[t].own BY <2>2, <2>3 DEF Fresh
  <2>8. TabUpToDate(t)' BY <2>3, <2>5, <2>6, <2>7 DEF TabUpToDate
  <2> QED BY <1>2, <2>1, <2>3, <2>4, <2>8 DEF PageBut, LoadsBut
<1>12. ASSUME NEW t \in Tab, NEW i \in DOMAIN loads[t], LoadFails(t, i) PROVE UpToDate'
  <2>1. Finish(t, i) /\ UNCHANGED timers /\ page' = [page EXCEPT ![t].error = TRUE]
    BY <1>12 DEF LoadFails
  <2>2. PageBut(t) /\ page'[t].error /\ page'[t].own = page[t].own BY <2>1, ErrorEffect
  <2>3. LoadsBut(t) BY <2>1, FinishEffect
  <2>4. \A j \in DOMAIN loads'[t] : (loads[t][j].old \/ Fresh(t, j) \/ FreshAfter(t, j))'
    BY <1>1, <2>1, <2>2, FinishedIsFresh
  <2>5. TabUpToDate(t)' BY <2>2, <2>4 DEF TabUpToDate
  <2> QED BY <1>2, <2>1, <2>2, <2>3, <2>5 DEF PageBut, LoadsBut
<1>13. ASSUME NEW c \in calls, Serve(c) PROVE UpToDate'
  <2>1. UNCHANGED <<page, loads, timers>> BY <1>13 DEF Serve, ServePut, ServeBan, ServeAck
  <2> QED BY <1>3, <2>1
<1>14. ASSUME NEW c \in calls, Succeeds(c) PROVE UpToDate'
  <2>1. PICK t \in Tab : t = c.tab BY <1>14, SucceedsEffect
  <2>2. /\ PageBut(t) /\ page'[t].own = Own(page[t], c) /\ page'[t].base = page[t].base
        /\ page'[t].error = page[t].error /\ page'[t].misled = page[t].misled
    BY <1>14, <2>1, SucceedsEffect
  <2>3. /\ timers' = [timers EXCEPT ![t] = IF c.kind \in ReloadsLater THEN @ + 1 ELSE @]
        /\ IF c.kind \in Reloads THEN StartLoad(t) ELSE UNCHANGED loads
    BY <1>14, <2>1 DEF Succeeds
  <2>4. \A u \in Tab \ {t} : timers'[u] = timers[u] BY <1>1, <2>3
  <2>5. CASE c.kind \in Reloads
    <3>1. LoadsBut(t) /\ TabUpToDate(t)' BY <2>3, <2>5, StartEffect, StartedIsFresh
    <3> QED BY <1>2, <2>2, <2>4, <3>1 DEF PageBut, LoadsBut
  <2>6. CASE c.kind \in ReloadsLater
    <3>1. timers'[t] > 0 /\ UNCHANGED loads BY <1>1, <2>3, <2>6 DEF Reloads, ReloadsLater
    <3>2. TabUpToDate(t)' BY <3>1 DEF TabUpToDate, FreshAfter
    <3> QED BY <1>2, <2>2, <2>4, <3>1, <3>2 DEF PageBut
  <2>7. CASE c.kind = "ack"
    <3>1. timers'[t] = timers[t] /\ UNCHANGED loads BY <1>1, <2>3, <2>7 DEF Reloads, ReloadsLater
    <3>2. page'[t].own = page[t].own BY <2>2, <2>7 DEF Own
    <3>3. TabUpToDate(t)' BY <1>1, <2>2, <3>1, <3>2, SameIsUpToDate
    <3> QED BY <1>2, <2>2, <2>4, <3>1, <3>3 DEF PageBut
  <2>8. c.kind \in Kind BY DEF RecordsTyped, CallRecord
  <2> QED BY <2>5, <2>6, <2>7, <2>8 DEF Kind, Reloads, ReloadsLater
<1>15. ASSUME NEW c \in calls, Fails(c) PROVE UpToDate'
  <2>1. PICK t \in Tab : t = c.tab BY DEF RecordsTyped, CallRecord
  <2>2. page' = [page EXCEPT ![t].failed = TRUE] /\ UNCHANGED <<loads, timers>>
    BY <1>15, <2>1 DEF Fails
  <2>3. /\ PageBut(t) /\ page'[t].own = page[t].own /\ page'[t].base = page[t].base
        /\ page'[t].error = page[t].error /\ page'[t].misled = page[t].misled
    BY <2>2, FailedEffect
  <2>4. TabUpToDate(t)' BY <1>1, <2>2, <2>3, SameIsUpToDate
  <2> QED BY <1>2, <2>2, <2>3, <2>4 DEF PageBut
<1>16. ASSUME UNCHANGED vars PROVE UpToDate' BY <1>3, <1>16 DEF vars
<1> QED
  BY <1>4, <1>5, <1>7, <1>8, <1>9, <1>10, <1>11, <1>12, <1>13, <1>14, <1>15, <1>16, StepCases


\* A trust that is under way in a tab.
Saving(t) == \E c \in calls : c.tab = t /\ c.kind = "trust"

LEMMA TrustPendingKept ==
    ASSUME PageAssumption, RecordsTyped, Counted, TrustPending, [Next]_vars
    PROVE  TrustPending'
<1>1. /\ page \in [Tab -> Page] /\ timers \in [Tab -> Nat] /\ loads \in [Tab -> Seq(Load)]
      /\ \A u \in Tab : TabTrustPending(u)
  BY DEF RecordsTyped, TrustPending
<1>2. ASSUME NEW u \in Tab, page'[u] = page[u], Saving(u) => Saving(u)',
             timers[u] > 0 => timers'[u] > 0, loads[u] # <<>> => loads'[u] # <<>>
      PROVE  TabTrustPending(u)'
  BY <1>1, <1>2 DEF TabTrustPending, Saving
<1>3. ASSUME NEW t \in Tab, StartLoad(t)
      PROVE  LoadsBut(t) /\ TabTrustPending(t)'
  <2>1. LoadsBut(t) /\ DOMAIN loads'[t] = 1 .. Len(loads[t]) + 1 BY <1>3, StartEffect
  <2>2. Len(loads[t]) \in Nat BY LoadsFields
  <2>3. loads'[t] # <<>> BY <2>1, <2>2
  <2> QED BY <2>1, <2>3 DEF TabTrustPending
<1>4. ASSUME NEW t \in Tab, Refresh(t) \/ TimerFires(t) PROVE TrustPending'
  <2>1. StartLoad(t) /\ UNCHANGED <<page, calls>> /\ \A u \in Tab \ {t} : timers'[u] = timers[u]
    BY <1>1, <1>4 DEF Refresh, TimerFires
  <2>2. \A u \in Tab \ {t} : TabTrustPending(u)'
    BY <1>1, <1>2, <1>3, <2>1 DEF LoadsBut, Saving
  <2> QED BY <1>3, <2>1, <2>2 DEF TrustPending
<1>5. ASSUME NEW t \in Tab, PageBut(t), UNCHANGED <<loads, timers>>, calls \subseteq calls',
             page'[t].edited = "trust" => Saving(t)'
      PROVE  TrustPending'
  <2>1. \A u \in Tab \ {t} : TabTrustPending(u)' BY <1>1, <1>2, <1>5 DEF PageBut, Saving
  <2>2. TabTrustPending(t)' BY <1>5 DEF TabTrustPending, Saving
  <2> QED BY <2>1, <2>2 DEF TrustPending
<1>6. ASSUME NEW t \in Tab, Edit(t) PROVE TrustPending' BY <1>5, <1>6, EditEffect
<1>7. ASSUME NEW t \in Tab, clicks < MaxClicks, NEW s \in Subject, Trust(t, s) PROVE TrustPending'
  <2>1. PageBut(t) /\ page'[t].config \in SUBSET Config
        /\ calls' = calls \cup {Call(t, "trust", TargetOf[s], page'[t].config)}
    BY <1>7, TrustEffect
  <2>2. UNCHANGED <<loads, timers>> BY <1>7 DEF Trust
  <2> DEFINE c == Call(t, "trust", TargetOf[s], page'[t].config)
  <2>3. "trust" \in Kind /\ TargetOf[s] \in Target BY DEF Kind, Target
  <2>4. c.tab = t /\ c.kind = "trust" BY <1>7, <2>1, <2>3, NewCall
  <2>5. c \in calls' BY <2>1
  <2> HIDE DEF c
  <2>6. Saving(t)' BY <2>4, <2>5 DEF Saving
  <2> QED BY <1>5, <2>1, <2>2, <2>6
<1>8. ASSUME UNCHANGED <<page, timers, loads>>, \A u \in Tab : Saving(u) => Saving(u)'
      PROVE  TrustPending'
  <2>1. \A u \in Tab : TabTrustPending(u)' BY <1>1, <1>2, <1>8
  <2> QED BY <2>1 DEF TrustPending
<1>9. ASSUME NEW t \in Tab, Save(t) \/ Ask(t) PROVE TrustPending'
  <2>1. UNCHANGED <<page, loads, timers>> /\ calls \subseteq calls'
    BY <1>9 DEF Save, Ask, AckAll, BanIp, UnbanIp, Ack
  <2> QED BY <1>8, <2>1 DEF Saving
<1>10. ASSUME NEW t \in Tab, NEW i \in DOMAIN loads[t], Answer(t, i) PROVE TrustPending'
  <2>1. /\ UNCHANGED <<page, timers, calls>> /\ DOMAIN loads'[t] = DOMAIN loads[t]
        /\ \A u \in Tab \ {t} : loads'[u] = loads[u]
    BY <1>1, <1>10 DEF Answer, AnswerFindings, AnswerConfig
  <2>2. loads'[t] # <<>>
    <3>1. i \in DOMAIN loads'[t] /\ DOMAIN << >> = {} BY <2>1
    <3> QED BY <3>1
  <2>3. \A u \in Tab : loads[u] # <<>> => loads'[u] # <<>> BY <2>1, <2>2
  <2>4. \A u \in Tab : TabTrustPending(u)' BY <1>1, <1>2, <2>1, <2>3 DEF Saving
  <2> QED BY <2>4 DEF TrustPending
<1>11. ASSUME NEW t \in Tab, NEW i \in DOMAIN loads[t], Deliver(t, i) \/ LoadFails(t, i)
       PROVE  TrustPending'
  <2>1. Finish(t, i) /\ UNCHANGED <<calls, timers>> BY <1>11 DEF Deliver, LoadFails
  <2>2. LoadsBut(t) BY <2>1, FinishEffect
  <2>3. PageBut(t) /\ (page'[t].edited = "no" \/ page'[t].error)
    <3>1. CASE Deliver(t, i) BY <3>1, DeliverEffect
    <3>2. CASE LoadFails(t, i)
      <4>1. page' = [page EXCEPT ![t].error = TRUE] BY <3>2 DEF LoadFails
      <4> QED BY <4>1, ErrorEffect
    <3> QED BY <1>11, <3>1, <3>2
  <2>4. TabTrustPending(t)' BY <2>3 DEF TabTrustPending
  <2>5. \A u \in Tab \ {t} : TabTrustPending(u)'
    BY <1>1, <1>2, <2>1, <2>2, <2>3 DEF PageBut, LoadsBut, Saving
  <2> QED BY <2>4, <2>5 DEF TrustPending
<1>12. ASSUME NEW c \in calls, Serve(c) PROVE TrustPending'
  <2>1. UNCHANGED <<page, loads, timers>> /\ c.stage = "sent" /\ rev' \in {rev, rev + 1}
    BY <1>12, ServeEffect
  <2>2. PICK stage \in {"done", "refused"} : Answered(c, stage) BY <1>12, ServeEffect
  <2>3. PICK d : calls' = (calls \ {c}) \cup {d} /\ d.tab = c.tab /\ d.kind = c.kind
    <3>1. UNCHANGED <<clicks, timers>> BY <1>12, ServeEffect
    <3> QED BY <2>1, <2>2, <3>1, AnsweredKeeps
  <2>4. \A u \in Tab : Saving(u) => Saving(u)' BY <2>3 DEF Saving
  <2> QED BY <1>8, <2>1, <2>4
<1>13. ASSUME NEW c \in calls, Succeeds(c) PROVE TrustPending'
  <2>1. PICK t \in Tab : t = c.tab BY <1>13, SucceedsEffect
  <2>2. /\ PageBut(t) /\ page'[t].edited = page[t].edited
        /\ page'[t].error = page[t].error /\ page'[t].failed = page[t].failed
    BY <1>13, <2>1, SucceedsEffect
  <2>3. /\ timers' = [timers EXCEPT ![t] = IF c.kind \in ReloadsLater THEN @ + 1 ELSE @]
        /\ StartLoad(t) \/ UNCHANGED loads
        /\ calls' = calls \ {c}
    BY <1>13, <2>1 DEF Succeeds
  <2>4. \A u \in Tab \ {t} : timers'[u] = timers[u] /\ loads'[u] = loads[u]
    BY <1>1, <1>3, <2>3 DEF LoadsBut
  <2>5. \A u \in Tab \ {t} : Saving(u) => Saving(u)' BY <2>1, <2>3 DEF Saving
  <2>6. \A u \in Tab \ {t} : TabTrustPending(u)'
    BY <1>1, <1>2, <2>2, <2>4, <2>5 DEF PageBut
  <2>7. TabTrustPending(t)'
    <3>1. CASE StartLoad(t) BY <1>3, <3>1
    <3>2. CASE UNCHANGED loads /\ c.kind = "trust"
      <4>1. timers'[t] > 0 BY <1>1, <2>3, <3>2 DEF ReloadsLater
      <4> QED BY <4>1 DEF TabTrustPending
    <3>3. CASE UNCHANGED loads /\ c.kind # "trust"
      <4>1. timers[t] > 0 => timers'[t] > 0 BY <1>1, <2>3
      <4>2. Saving(t) => Saving(t)' BY <2>3, <3>3 DEF Saving
      <4>3. TabTrustPending(t) BY <1>1
      <4> QED BY <2>2, <3>3, <4>1, <4>2, <4>3 DEF TabTrustPending, Saving
    <3> QED BY <2>3, <3>1, <3>2, <3>3
  <2> QED BY <2>6, <2>7 DEF TrustPending
<1>14. ASSUME NEW c \in calls, Fails(c) PROVE TrustPending'
  <2>1. PICK t \in Tab : t = c.tab BY DEF RecordsTyped, CallRecord
  <2>2. page' = [page EXCEPT ![t].failed = TRUE] /\ UNCHANGED <<loads, timers>>
        /\ calls' = calls \ {c}
    BY <1>14, <2>1 DEF Fails
  <2>3. PageBut(t) /\ page'[t].failed BY <2>2, FailedEffect
  <2>4. TabTrustPending(t)' BY <2>3 DEF TabTrustPending
  <2>5. \A u \in Tab \ {t} : Saving(u) => Saving(u)' BY <2>1, <2>2 DEF Saving
  <2>6. \A u \in Tab \ {t} : TabTrustPending(u)'
    BY <1>1, <1>2, <2>2, <2>3, <2>5 DEF PageBut
  <2> QED BY <2>4, <2>6 DEF TrustPending
<1>15. ASSUME UNCHANGED vars PROVE TrustPending' BY <1>8, <1>15 DEF vars, Saving
<1> QED
  BY <1>4, <1>6, <1>7, <1>9, <1>10, <1>11, <1>12, <1>13, <1>14, <1>15, StepCases


-------------------------------------------------------------------------------
(* IInv is inductive.                                                         *)

\* The pages as they are opened say what the server has.
LEMMA InitIInv ==
    ASSUME PageAssumption, Init
    PROVE  IInv
<1>1. /\ FirstTrusted \in Trusted /\ Len(FirstTrusted) <= MaxExceptions /\ InRange \subseteq Subject
      /\ MaxWindow \in Nat /\ MaxClicks \in Nat /\ MaxWindow >= 1
  BY DEF PageAssumption
<1>2. /\ saved = [exceptions |-> FirstTrusted, window |-> 1, sound |-> TRUE]
      /\ open = Subject /\ bans = {} /\ loads = [t \in Tab |-> <<>>] /\ calls = {}
      /\ timers = [t \in Tab |-> 0] /\ clicks = 0 /\ fixes = 0 /\ rev = 0
      /\ since = [x \in Target |-> 0]
  BY DEF Init
<1>3. saved \in Config /\ saved.window = 1 /\ saved.sound /\ saved.exceptions = FirstTrusted
  BY <1>1, <1>2 DEF Config
<1> DEFINE p == [config |-> {saved}, shown |-> open, banned |-> BannedNow,
                 error |-> FALSE, base |-> 0, own |-> 0,
                 edited |-> "no", failed |-> FALSE, removed |-> {}, misled |-> FALSE]
<1>4. page = [t \in Tab |-> p] BY DEF Init
<1>5. {saved} \in {{}} \cup {{c} : c \in Config} BY <1>3
<1>6. open \in SUBSET Subject /\ BannedNow = InRange BY <1>2 DEF BannedNow
<1>7. /\ p \in Page /\ p.config = {saved} /\ p.shown = Subject /\ p.banned = BannedNow
      /\ p.base = 0 /\ p.own = 0 /\ p.edited = "no" /\ p.removed = {}
  <2> HIDE DEF Config
  <2> QED BY <1>1, <1>2, <1>5, <1>6 DEF Page
<1> HIDE DEF p
<1>8. \A t \in Tab : page[t] = p BY <1>4
<1>9. page \in [Tab -> Page] BY <1>4, <1>7
<1>10. loads \in [Tab -> Seq(Load)] /\ \A t \in Tab : DOMAIN loads[t] = {}
  <2>1. <<>> \in Seq(Load) /\ DOMAIN << >> = {} OBVIOUS
  <2> HIDE DEF Load
  <2> QED BY <1>2, <2>1
<1>11. timers \in [Tab -> Nat] /\ since \in [Target -> 0 .. rev] BY <1>2
<1>12. RecordsTyped BY <1>1, <1>2, <1>3, <1>9, <1>10, <1>11 DEF RecordsTyped
<1>13. Counted
  <2>1. Sent = {} BY <1>2 DEF Sent
  <2>2. IsFiniteSet(calls) /\ Cardinality(calls) = 0 /\ Cardinality(Sent) = 0
    BY <1>2, <2>1, FS_EmptySet
  <2> QED BY <1>2, <2>2 DEF Counted
<1>14. AnswersHonest BY <1>10 DEF AnswersHonest
<1>15. PageHonest(p)
  <2>1. \A x \in ToSet(FirstTrusted) : Fits(FirstTrusted, x) BY <1>1, FitsMeans
  <2>2. Covers({saved}, 0, {}) BY <1>3, <2>1 DEF Covers
  <2> QED BY <1>1, <1>2, <1>6, <1>7, <2>2 DEF PageHonest
<1>16. PagesHonest BY <1>8, <1>15 DEF PagesHonest
<1>17. CallsHonest BY <1>2 DEF CallsHonest
<1>18. UpToDate BY <1>7, <1>8, <1>10 DEF UpToDate, TabUpToDate
<1>19. TrustPending BY <1>7, <1>8 DEF TrustPending, TabTrustPending
<1> QED BY <1>12, <1>13, <1>14, <1>16, <1>17, <1>18, <1>19 DEF IInv

LEMMA NextIInv ==
    ASSUME PageAssumption, IInv, [Next]_vars
    PROVE  IInv'
<1>1. /\ RecordsTyped /\ Counted /\ AnswersHonest /\ PagesHonest /\ CallsHonest
      /\ UpToDate /\ TrustPending
  BY DEF IInv
<1>2. RecordsTyped' /\ Counted' BY <1>1, TypedKept
<1>3. AnswersHonest' /\ PagesHonest' BY <1>1, AnswersKept, PagesKept
<1>4. CallsHonest' BY <1>1, CallsKept
<1>5. UpToDate' /\ TrustPending' BY <1>1, UpToDateKept, TrustPendingKept
<1> QED BY <1>2, <1>3, <1>4, <1>5 DEF IInv

\* IInv says no less than the type invariant.
LEMMA TypeOKHolds ==
    ASSUME PageAssumption, IInv
    PROVE  TypeOK
<1>1. RecordsTyped /\ Counted /\ CallsHonest BY DEF IInv
<1>2. ASSUME NEW S, AtMostOne(S) PROVE Cardinality(S) <= 1
  <2>1. CASE S = {} BY <2>1, FS_EmptySet
  <2>2. ASSUME NEW x \in S PROVE Cardinality(S) <= 1
    <3>1. S = {x} BY <1>2 DEF AtMostOne
    <3>2. Cardinality({x}) = 1 BY FS_Singleton
    <3> QED BY <3>1, <3>2
  <2> QED BY <2>1, <2>2
<1>3. ASSUME NEW t \in Tab, NEW i \in DOMAIN loads[t]
      PROVE  LET l == loads[t][i] IN
             Cardinality(l.findings) <= 1 /\ Cardinality(l.config) <= 1 /\ l.old \in BOOLEAN
  <2>1. loads[t][i] \in Load BY <1>1, LoadsFields
  <2>2. AtMostOne(loads[t][i].findings) /\ AtMostOne(loads[t][i].config) BY <1>1 DEF RecordsTyped
  <2> QED BY <1>2, <2>1, <2>2 DEF Load
<1>4. ASSUME NEW c \in calls
      PROVE  /\ c.tab \in Tab /\ c.kind \in Kind /\ c.config \subseteq Config
             /\ c.stage \in {"sent", "done", "refused"} /\ c.rev \in 0 .. rev
  <2>1. c \in CallRecord /\ c.rev <= rev /\ rev \in Nat
    BY <1>1 DEF RecordsTyped, CallsHonest, CallHonest
  <2> QED BY <2>1 DEF CallRecord
<1>5. timers \in [Tab -> 0 .. MaxClicks]
  <2>1. MaxClicks \in Nat /\ clicks \in 0 .. MaxClicks /\ timers \in [Tab -> Nat]
    BY <1>1 DEF PageAssumption, RecordsTyped
  <2>2. Cardinality(calls) \in Nat BY <1>1, FS_CardinalityType DEF Counted
  <2>3. ASSUME NEW t \in Tab PROVE timers[t] \in 0 .. MaxClicks
    <3>1. timers[t] + Cardinality(calls) <= clicks /\ timers[t] \in Nat BY <1>1, <2>1 DEF Counted
    <3> QED BY <2>1, <2>2, <3>1
  <2> QED BY <2>1, <2>3
<1> QED BY <1>1, <1>3, <1>4, <1>5 DEF TypeOK, RecordsTyped

\* Nothing is still to come to a page that has settled, so what it shows is final.
LEMMA SettledPageHolds ==
    ASSUME IInv
    PROVE  SettledPage
<1> SUFFICES ASSUME NEW t \in Tab, Settled(t), Usable(t)
             PROVE  LET p == page[t] IN
                    /\ ~p.misled => p.base >= p.own
                    /\ p.edited = "no" /\ p.base = rev
                          => p.config = {saved} /\ p.banned = BannedNow \cap p.shown
                    /\ p.edited = "trust" => p.failed
  BY DEF SettledPage
<1>1. PageHonest(page[t]) /\ TabUpToDate(t) /\ TabTrustPending(t)
  BY DEF IInv, PagesHonest, UpToDate, TrustPending
<1>2. ~FreshAfter(t, 0)
  <2>1. loads[t] = <<>> /\ timers[t] = 0 BY DEF Settled
  <2>2. DOMAIN << >> = {} OBVIOUS
  <2> QED BY <2>1, <2>2 DEF FreshAfter
<1>3. ~page[t].misled => page[t].base >= page[t].own
  BY <1>1, <1>2 DEF TabUpToDate, Usable
<1>4. page[t].edited = "trust" => page[t].failed
  BY <1>1 DEF TabTrustPending, Settled, Usable
<1> QED BY <1>1, <1>3, <1>4 DEF PageHonest


\* Only the server answers a call, and it answers one at a time.
LEMMA DoneIsServed ==
    ASSUME PageAssumption, RecordsTyped, Counted, [Next]_vars, NEW c \in calls, c.stage = "sent",
           [c EXCEPT !.stage = "done", !.rev = rev'] \in calls'
    PROVE  Serve(c) /\ Answered(c, "done")
<1> DEFINE d == [c EXCEPT !.stage = "done", !.rev = rev']
<1>1. /\ calls \subseteq CallRecord /\ \A a, b \in calls : a.n = b.n => a = b
      /\ \A a, b \in calls' : a.n = b.n => a = b
  BY TypedKept DEF RecordsTyped, Counted
<1>2. d \in calls' /\ d.n = c.n /\ d.stage = "done"
  <2>1. c \in CallRecord BY <1>1
  <2> QED BY <2>1 DEF CallRecord
<1> HIDE DEF d
<1>3. d \notin calls BY <1>1, <1>2
<1>4. ASSUME NEW t \in Tab, clicks < MaxClicks, NEW kind \in Kind,
             NEW arg \in Subject \cup Target \cup {None}, NEW config \in SUBSET Config,
             calls' = calls \cup {Call(t, kind, arg, config)}
      PROVE  FALSE
  <2>1. Call(t, kind, arg, config).stage = "sent" BY <1>4, NewCall
  <2> QED BY <1>2, <1>3, <1>4, <2>1
<1>5. ASSUME NEW t \in Tab, clicks < MaxClicks, Ask(t) \/ Save(t) \/ \E s \in Subject : Trust(t, s)
      PROVE  FALSE
  <2>1. CASE Ask(t)
    <3>1. PICK kind \in Kind, arg \in Subject \cup {None} :
              calls' = calls \cup {Call(t, kind, arg, {})}
      BY <2>1, AskEffect
    <3>2. {} \in SUBSET Config OBVIOUS
    <3> QED BY <1>4, <1>5, <3>1, <3>2
  <2>2. CASE Save(t)
    <3>1. calls' = calls \cup {Call(t, "save", None, page[t].config)} BY <2>2 DEF Save
    <3>2. "save" \in Kind /\ page[t].config \in SUBSET Config BY PageFields DEF Kind
    <3> QED BY <1>4, <1>5, <3>1, <3>2
  <2>3. ASSUME NEW s \in Subject, Trust(t, s) PROVE FALSE
    <3>1. calls' = calls \cup {Call(t, "trust", TargetOf[s], page'[t].config)}
          /\ page'[t].config \in SUBSET Config
      BY <2>3, TrustEffect
    <3>2. "trust" \in Kind /\ TargetOf[s] \in Target BY DEF Kind, Target
    <3> QED BY <1>4, <1>5, <3>1, <3>2
  <2> QED BY <1>5, <2>1, <2>2, <2>3
<1>6. ASSUME NEW t \in Tab, Refresh(t) \/ Edit(t) \/ TimerFires(t) PROVE FALSE
  <2>1. calls' = calls BY <1>6, EditEffect DEF Refresh, TimerFires
  <2> QED BY <1>2, <1>3, <2>1
<1>7. ASSUME NEW t \in Tab, NEW i \in DOMAIN loads[t],
             Answer(t, i) \/ Deliver(t, i) \/ LoadFails(t, i)
      PROVE  FALSE
  <2>1. calls' = calls
    BY <1>7 DEF Answer, AnswerFindings, AnswerConfig, Deliver, LoadFails
  <2> QED BY <1>2, <1>3, <2>1
<1>8. ASSUME NEW e \in calls, Succeeds(e) \/ Fails(e) PROVE FALSE
  <2>1. calls' \subseteq calls BY <1>8 DEF Succeeds, Fails
  <2> QED BY <1>2, <1>3, <2>1
<1>9. ASSUME NEW e \in calls, Serve(e) PROVE Serve(c) /\ Answered(c, "done")
  <2>1. e.stage = "sent" /\ rev' \in {rev, rev + 1} /\ UNCHANGED <<clicks, timers>>
    BY <1>9, ServeEffect
  <2>2. PICK stage \in {"done", "refused"} : Answered(e, stage) BY <1>9, ServeEffect
  <2>3. PICK f : calls' = (calls \ {e}) \cup {f} /\ f.n = e.n /\ f.stage = stage
    <3> DEFINE f == [e EXCEPT !.stage = stage, !.rev = rev']
    <3>1. UNCHANGED <<clicks, timers>> /\ e.stage = "sent" /\ rev' \in {rev, rev + 1} BY <2>1
    <3>2. calls' = (calls \ {e}) \cup {f} /\ f.n = e.n /\ f.stage = stage
      BY <2>2, <3>1, AnsweredKeeps
    <3> QED BY <3>2
  <2>4. d = f BY <1>2, <1>3, <2>3
  <2>5. e = c /\ stage = "done" BY <1>1, <1>2, <2>3, <2>4
  <2> QED BY <1>9, <2>2, <2>5
<1>10. ASSUME UNCHANGED vars PROVE FALSE
  <2>1. calls' = calls BY <1>10 DEF vars
  <2> QED BY <1>2, <1>3, <2>1
<1> QED BY <1>5, <1>6, <1>7, <1>8, <1>9, <1>10, StepCases

\* A configuration that is carried out has every target its copy had to have.
LEMMA KeepsTrustHolds ==
    ASSUME PageAssumption, IInv, [Next]_vars
    PROVE  KeepsTrust
<1>1. RecordsTyped /\ Counted /\ CallsHonest BY DEF IInv
<1> SUFFICES ASSUME NEW c \in calls, c.stage = "sent",
                    [c EXCEPT !.stage = "done", !.rev = rev'] \in calls'
             PROVE  /\ \A x \in ToSet(saved.exceptions) \ ToSet(saved'.exceptions) :
                          c.base < since[x] \/ x \in c.removed
                    /\ c.kind = "trust" => c.arg \in ToSet(saved'.exceptions)
                                           \/ Len(saved'.exceptions) = MaxExceptions
  BY DEF KeepsTrust
<1>2. Serve(c) /\ Answered(c, "done") BY <1>1, DoneIsServed
<1>3. c \in CallRecord /\ CallHonest(c) BY <1>1 DEF RecordsTyped, CallsHonest
<1>4. CASE ServeBan(c) \/ ServeAck(c)
  <2>1. saved' = saved /\ c.kind # "trust" BY <1>4 DEF ServeBan, ServeAck
  <2> QED BY <2>1
<1>5. CASE ServePut(c)
  <2>1. c.kind \in {"trust", "save"} BY <1>5 DEF ServePut
  <2>2. PICK sent \in c.config : saved' = Clean(sent)
    <3>1. PICK sent \in c.config :
             IF sent.sound THEN saved' = Clean(sent) ELSE Answered(c, "refused")
      BY <1>5 DEF ServePut
    <3>2. ~Answered(c, "refused")
      <4> SUFFICES ASSUME Answered(c, "refused") PROVE FALSE OBVIOUS
      <4> DEFINE d == [c EXCEPT !.stage = "done", !.rev = rev']
                 e == [c EXCEPT !.stage = "refused", !.rev = rev']
      <4>1. d.stage = "done" /\ e.stage = "refused" /\ d.n = c.n BY <1>3 DEF CallRecord
      <4>2. d \in (calls \ {c}) \cup {e} BY DEF Answered
      <4> HIDE DEF d, e
      <4>3. d \in calls \ {c} BY <4>1, <4>2
      <4> QED BY <1>1, <4>1, <4>3 DEF Counted
    <3> QED BY <3>1, <3>2
  <2>3. sent \in Config /\ sent.exceptions \in Trusted
    BY <1>3 DEF CallRecord, Config
  <2>4. /\ \A x : x \in ToSet(saved'.exceptions) <=> Fits(sent.exceptions, x)
        /\ Len(sent.exceptions) <= MaxExceptions \/ Len(saved'.exceptions) = MaxExceptions
    BY <2>2, <2>3, CleanKeeps
  <2>5. ASSUME NEW x \in ToSet(saved.exceptions) \ ToSet(saved'.exceptions)
        PROVE  c.base < since[x] \/ x \in c.removed
    <3>1. ~(since[x] <= c.base /\ x \notin c.removed)
      BY <1>3, <2>1, <2>4 DEF CallHonest, Covers
    <3>2. since[x] \in Nat /\ c.base \in Nat
      <4>1. saved \in Config /\ since \in [Target -> 0 .. rev] /\ rev \in Nat
        BY <1>1 DEF RecordsTyped
      <4> QED BY <1>3, <4>1, SinceFields DEF CallRecord
    <3> QED BY <3>1, <3>2
  <2>6. ASSUME c.kind = "trust", Len(saved'.exceptions) # MaxExceptions
        PROVE  c.arg \in ToSet(saved'.exceptions)
    <3>1. c.arg \in ToSet(sent.exceptions) BY <1>3, <2>6 DEF CallHonest
    <3>2. Fits(sent.exceptions, c.arg) BY <2>3, <2>4, <2>6, <3>1, FitsMeans
    <3> QED BY <2>4, <3>2
  <2> QED BY <2>5, <2>6
<1> QED BY <1>2, <1>4, <1>5 DEF Serve

-------------------------------------------------------------------------------
(* The theorems.                                                              *)

\* Whatever the tabs do and in whatever order calls are carried out and answered,
\* answers, copies and calls contain what their age says, and every tab that is
\* behind has a load or a timer to come.
THEOREM Invariant == Spec => []IInv
<1>1. PageAssumption BY PageAssumption
<1>2. Init => IInv BY <1>1, InitIInv
<1>3. IInv /\ [Next]_vars => IInv' BY <1>1, NextIInv
<1> QED BY <1>2, <1>3, PTL DEF Spec

\* The records of the page, its calls and the server keep their types, what the
\* server keeps is clamped, and each load has at most one answer of each kind.
THEOREM TypeCorrect == Spec => []TypeOK
<1>1. PageAssumption BY PageAssumption
<1>2. IInv => TypeOK BY <1>1, TypeOKHolds
<1> QED BY <1>2, Invariant, PTL

\* A page on which nothing is under way shows the server no older than its own last
\* call, and shows no trust that is lost without a failure.
THEOREM PageSettles == Spec => []SettledPage
<1>1. IInv => SettledPage BY SettledPageHolds
<1> QED BY <1>1, Invariant, PTL

\* No save takes off the trusted list what its copy was loaded with and nobody
\* removed, and a trust that was carried out is on the list unless it is full.
THEOREM TrustSurvives == Spec => TrustKept
<1>1. PageAssumption BY PageAssumption
<1>2. IInv /\ [Next]_vars => [KeepsTrust]_vars BY <1>1, KeepsTrustHolds
<1> QED BY <1>2, Invariant, PTL DEF Spec, TrustKept

===============================================================================
