---------------------------- MODULE LogViewsProofs ----------------------------
(***************************************************************************)
(* LogViews for every store, filter, page size and number of requests      *)
(* under way: the types; that a page shows the answer to the filter and    *)
(* the offset it stands at (a call that is not the last asked is never     *)
(* active again); that a reader who goes on by Next misses no row; and     *)
(* that the numbers of an overview add up, whatever the rows.  The page    *)
(* with all its requests implements that of OneRequest, which has one.     *)
(***************************************************************************)
EXTENDS LogViews, FiniteSetTheorems, FunctionTheorems, NaturalsInduction,
        WellFoundedInduction, TLAPS

CallsAreCalls ==
  \A c \in calls : /\ c = [q |-> c.q, active |-> c.active, reply |-> c.reply]
                   /\ c.active \in BOOLEAN

\* What is superseded is a call that is not active.
LEMMA SupersededCalls ==
  ASSUME CallsAreCalls, NEW c \in Superseded
  PROVE  c = [q |-> c.q, active |-> FALSE, reply |-> c.reply]
<1>1. PICK d \in calls : c = [d EXCEPT !.active = FALSE]
  BY DEF Superseded
<1>2. d = [q |-> d.q, active |-> d.active, reply |-> d.reply]
  BY DEF CallsAreCalls
<1> QED BY <1>1, <1>2

\* After a page has asked, its call is the only one that counts.
LEMMA AskedOnce ==
  ASSUME CallsAreCalls, NEW f, NEW o, NEW late,
         \A c \in late : c = [q |-> c.q, active |-> FALSE, reply |-> c.reply],
         calls' = Superseded \cup {Call(f, o)} \cup late,
         Asked' = [filters |-> f, offset |-> o]
  PROVE  CallsAreCalls' /\ \E c \in calls' : Active' = {c} /\ c.q = Asked'
<1>1. \A c \in Superseded : c = [q |-> c.q, active |-> FALSE, reply |-> c.reply]
  BY SupersededCalls
<1>2. Call(f, o).active /\ Call(f, o).q = Asked' /\ Call(f, o) \in calls'
  BY DEF Call
<1>3. Active' = {Call(f, o)}
  BY <1>1, <1>2 DEF Active
<1>4. ASSUME NEW c \in calls'
      PROVE  c = [q |-> c.q, active |-> c.active, reply |-> c.reply] /\ c.active \in BOOLEAN
  <2>1. CASE c = Call(f, o)
    BY <2>1 DEF Call
  <2>2. CASE c = [q |-> c.q, active |-> FALSE, reply |-> c.reply]
    <3>1. c.active = FALSE
      BY <2>2
    <3> QED BY <2>2, <3>1
  <2> QED BY <1>1, <2>1, <2>2
<1> QED BY <1>2, <1>3, <1>4 DEF CallsAreCalls

\* The operator's clicks each ask anew.
LEMMA OperatorAsks ==
  ASSUME CallsAreCalls, Operator
  PROVE  CallsAreCalls' /\ PageAnswersQuestion'
<1>1. ASSUME NEW f, SetFilters(f) PROVE CallsAreCalls' /\ PageAnswersQuestion'
  <2> DEFINE late == IF offset = 0 THEN {} ELSE {[Call(f, offset) EXCEPT !.active = FALSE]}
  <2>1. \A c \in late : c = [q |-> c.q, active |-> FALSE, reply |-> c.reply]
    BY DEF Call
  <2>2. calls' = Superseded \cup {Call(f, 0)} \cup late /\ loading'
    BY <1>1 DEF SetFilters
  <2>3. Asked' = [filters |-> f, offset |-> 0]
    BY <1>1 DEF SetFilters, Asked
  <2> HIDE DEF late
  <2> QED BY <2>1, <2>2, <2>3, AskedOnce DEF PageAnswersQuestion
<1>2. ASSUME NEW f, NEW o, Ask(f, o), Asked' = [filters |-> f, offset |-> o]
      PROVE  CallsAreCalls' /\ PageAnswersQuestion'
  <2> DEFINE late == {}
  <2>1. \A c \in late : c = [q |-> c.q, active |-> FALSE, reply |-> c.reply]
    OBVIOUS
  <2>2. calls' = Superseded \cup {Call(f, o)} \cup late /\ loading'
    BY <1>2 DEF Ask
  <2> HIDE DEF late
  <2> QED BY <1>2, <2>1, <2>2, AskedOnce DEF PageAnswersQuestion
<1>3. ASSUME NEW o, Turn(o) PROVE CallsAreCalls' /\ PageAnswersQuestion'
  <2>1. Ask(filters, o) /\ Asked' = [filters |-> filters, offset |-> o]
    BY <1>3 DEF Turn, Asked
  <2> QED BY <1>2, <2>1
<1>4. ASSUME NEW l, Revisit(l) PROVE CallsAreCalls' /\ PageAnswersQuestion'
  <2>1. Ask(filters', 0) /\ Asked' = [filters |-> filters', offset |-> 0]
    BY <1>4 DEF Revisit, Asked
  <2> QED BY <1>2, <2>1
<1> QED BY <1>1, <1>3, <1>4
        DEF Operator, PickRange, PickHost, SetLayout, FollowLink, PrevPage, NextPage

\* An answer counts only for the call that is active, and ends the loading then.
LEMMA NetworkKeeps ==
  ASSUME CallsAreCalls, PageAnswersQuestion, Network
  PROVE  CallsAreCalls' /\ PageAnswersQuestion'
<1>1. PICK c \in calls : Answer(c) \/ Deliver(c) \/ Lose(c)
  BY DEF Network
<1>2. Asked' = Asked
  BY <1>1 DEF Answer, Deliver, Lose, page, Asked
<1>3. CASE Answer(c)
  <2>1. PICK r : calls' = (calls \ {c}) \cup {[c EXCEPT !.reply = {r}]}
    BY <1>3 DEF Answer
  <2> DEFINE d == [c EXCEPT !.reply = {r}]
  <2>0. d = [q |-> c.q, active |-> c.active, reply |-> {r}] /\ c.active \in BOOLEAN
    BY DEF CallsAreCalls
  <2>5. CallsAreCalls'
    BY <2>0, <2>1 DEF CallsAreCalls
  <2>2. loading' = loading /\ shown' = shown
    BY <1>3 DEF Answer, page
  <2>3. CASE c \in Active
    <3>1. loading /\ Active = {c} /\ c.q = Asked
      BY <2>3 DEF PageAnswersQuestion
    <3>2. Active' = {d} /\ d.q = Asked /\ d \in calls'
      BY <2>0, <2>1, <2>3, <3>1 DEF Active
    <3>3. loading' /\ d.q = Asked'
      BY <1>2, <2>2, <3>1, <3>2
    <3> HIDE DEF d
    <3> QED BY <2>5, <3>2, <3>3 DEF PageAnswersQuestion
  <2>4. CASE c \notin Active
    <3>1. Active' = Active
      BY <2>0, <2>1, <2>4 DEF Active
    <3>2. Active' \subseteq calls'
      BY DEF Active
    <3> QED BY <1>2, <2>2, <2>5, <3>1, <3>2 DEF PageAnswersQuestion
  <2> QED BY <2>3, <2>4
<1>4. CASE Deliver(c) \/ Lose(c)
  <2>1. calls' = calls \ {c}
    BY <1>4 DEF Deliver, Lose
  <2>0. CallsAreCalls'
    BY <2>1 DEF CallsAreCalls
  <2>2. CASE c.active
    <3>1. loading /\ Active = {c} /\ c.q = Asked
      BY <2>2 DEF PageAnswersQuestion, Active
    <3>2. ~loading' /\ \A d \in shown' : d.q = c.q
      BY <1>4, <2>2 DEF Deliver, Lose, Put
    <3>3. Active' = {}
      BY <2>1, <3>1 DEF Active
    <3> QED BY <1>2, <2>0, <3>1, <3>2, <3>3 DEF PageAnswersQuestion
  <2>3. CASE ~c.active
    <3>1. loading' = loading /\ shown' = shown
      BY <1>4, <2>3 DEF Deliver, Lose
    <3>2. Active' = Active /\ Active' \subseteq calls'
      BY <2>1, <2>3 DEF Active
    <3> QED BY <1>2, <2>0, <3>1, <3>2 DEF PageAnswersQuestion
  <2> QED BY <2>2, <2>3
<1> QED BY <1>1, <1>3, <1>4

-------------------------------------------------------------------------------
(* Types.  That there is at most one of something is said without counting.   *)

AtMostOne(S) == \A x, y \in S : x = y

LEMMA CountOne ==
  ASSUME NEW S, AtMostOne(S)
  PROVE  Cardinality(S) <= 1
<1>1. CASE S = {}
  <2>1. Cardinality(S) = 0
    BY <1>1, FS_EmptySet
  <2> QED BY <2>1
<1>2. CASE S # {}
  <2>1. PICK x \in S : TRUE
    BY <1>2
  <2>2. S = {x}
    BY DEF AtMostOne
  <2>3. Cardinality({x}) = 1
    BY FS_Singleton
  <2> QED BY <2>2, <2>3
<1> QED BY <1>1, <1>2

StoreTyped ==
  /\ rows \subseteq used /\ used \subseteq Row /\ IsFiniteSet(used)
  /\ \A r, s \in used : r.id = s.id => r = s

PageTyped ==
  /\ layout \in Filter /\ layout.client = All /\ filters \in Filter
  /\ link \in Links \cup {NoLink}
  /\ offset \in Nat /\ offset % PAGE = 0
  /\ offset > 0 => offset < Cardinality(used)
  /\ loading \in BOOLEAN /\ failed \in BOOLEAN /\ ~(loading /\ failed)
  /\ clicks \in 0 .. MaxClicks

\* What was answered was there, and no more of it than there was.
Fits(d) == d.rows \subseteq used /\ d.total \in 0 .. Cardinality(used)

DataTyped ==
  /\ AtMostOne(shown) /\ \A d \in shown : d.q \in Question /\ Fits(d)
  /\ \A c \in calls : /\ c.q \in Question /\ AtMostOne(c.reply)
                      /\ \A a \in c.reply : Fits(a) /\ a.of \subseteq used
  /\ AtMostOne(walk)
  /\ \A w \in walk : /\ w = [start |-> w.start, seen |-> w.seen, at |-> w.at]
                    /\ w.start \cup w.seen \subseteq used /\ w.at \in Question

Typed == CallsAreCalls /\ StoreTyped /\ PageTyped /\ DataTyped

LEMMA TypedTypeOK == Typed => TypeOK
<1> SUFFICES ASSUME Typed PROVE TypeOK
  OBVIOUS
<1>1. Cardinality(shown) <= 1 /\ Cardinality(walk) <= 1
  BY CountOne DEF Typed, DataTyped
<1>2. \A c \in calls : c.q \in Question /\ c.active \in BOOLEAN /\ Cardinality(c.reply) <= 1
  BY CountOne DEF Typed, DataTyped, CallsAreCalls
<1>3. \A d \in shown : d.q \in Question /\ d.rows \subseteq used
  BY DEF Typed, DataTyped, Fits
<1> QED BY <1>1, <1>2, <1>3 DEF Typed, StoreTyped, PageTyped, DataTyped, TypeOK

\* The rows a filter selects are counted and are some of those there were.
LEMMA WhereFits ==
  ASSUME StoreTyped, NEW f
  PROVE  /\ Where(rows, f) \subseteq rows /\ IsFiniteSet(Where(rows, f))
         /\ Cardinality(Where(rows, f)) \in 0 .. Cardinality(used)
<1> DEFINE sel == Where(rows, f)
<1>1. sel \subseteq rows /\ sel \subseteq used
  BY DEF Where, StoreTyped
<1>2. IsFiniteSet(used)
  BY DEF StoreTyped
<1> HIDE DEF sel
<1>3. IsFiniteSet(sel) /\ Cardinality(sel) <= Cardinality(used)
  BY <1>1, <1>2, FS_Subset
<1>4. Cardinality(sel) \in Nat /\ Cardinality(used) \in Nat
  BY <1>2, <1>3, FS_CardinalityType
<1> QED BY <1>1, <1>3, <1>4 DEF sel

\* More rows take nothing from what was answered.
LEMMA DataGrows ==
  ASSUME Typed, used \subseteq used', IsFiniteSet(used'),
         UNCHANGED <<shown, calls, walk, layout, link, filters, offset, loading, failed, clicks>>
  PROVE  PageTyped' /\ DataTyped' /\ CallsAreCalls'
<1>1. Cardinality(used) \in Nat /\ Cardinality(used') \in Nat
  BY FS_CardinalityType DEF Typed, StoreTyped
<1>2. Cardinality(used) <= Cardinality(used')
  BY FS_Subset
<1>3. \A d : Fits(d) => Fits(d)'
  BY <1>1, <1>2 DEF Fits
<1>4. PageTyped'
  BY <1>1, <1>2 DEF Typed, PageTyped
<1>5. DataTyped'
  BY <1>3 DEF Typed, DataTyped
<1> QED BY <1>4, <1>5 DEF Typed, CallsAreCalls

LEMMA StoreTypes ==
  ASSUME Typed, Store
  PROVE  Typed'
<1>1. UNCHANGED <<shown, calls, walk, layout, link, filters, offset, loading, failed, clicks>>
  BY DEF Store, Ingest, PruneBefore, page
<1>2. ASSUME NEW i \in Id, Ingest(i)
      PROVE  StoreTyped' /\ used \subseteq used'
  <2>1. PICK k \in Request, t \in 0 .. Now - 1 :
          LET r == [id |-> i, ts |-> t, host |-> k.host, status |-> k.status,
                    client |-> k.client, referer |-> k.referer, country |-> k.country]
          IN rows' = rows \cup {r} /\ used' = used \cup {r}
    BY <1>2 DEF Ingest
  <2> DEFINE r == [id |-> i, ts |-> t, host |-> k.host, status |-> k.status,
                   client |-> k.client, referer |-> k.referer, country |-> k.country]
  <2>2. t \in Time
    BY ViewAssumption DEF Time, ViewAssumption
  <2>3. r \in Row /\ r.id = i
    BY <2>2 DEF Row
  <2>4. rows' = rows \cup {r} /\ used' = used \cup {r}
    BY <2>1
  <2>5. \A s \in used : s.id # i
    BY <1>2 DEF Ingest
  <2> HIDE DEF r
  <2>6. IsFiniteSet(used')
    BY <2>4, FS_AddElement DEF Typed, StoreTyped
  <2> QED BY <2>3, <2>4, <2>5, <2>6 DEF Typed, StoreTyped
<1>3. ASSUME PruneBefore
      PROVE  StoreTyped' /\ used' = used
  <2>1. rows' \subseteq rows /\ used' = used
    BY <1>3 DEF PruneBefore
  <2> QED BY <2>1 DEF Typed, StoreTyped
<1>4. StoreTyped' /\ used \subseteq used'
  BY <1>2, <1>3 DEF Store
<1>5. IsFiniteSet(used')
  BY <1>4 DEF StoreTyped
<1> QED BY <1>1, <1>4, <1>5, DataGrows DEF Typed

\* Calls superseded ask what they asked; a new one has no answer.
LEMMA AskTyped ==
  ASSUME Typed, used' = used, NEW late,
         \A c \in late : c.q \in Question /\ c.reply = {},
         NEW f \in Filter, NEW o \in Nat,
         calls' = Superseded \cup {Call(f, o)} \cup late,
         shown' \in {shown, {}}, walk' = walk
  PROVE  DataTyped'
<1>1. \A c \in Superseded : \E d \in calls : c.q = d.q /\ c.reply = d.reply
  <2> TAKE c \in Superseded
  <2>1. PICK d \in calls : c = [d EXCEPT !.active = FALSE]
    BY DEF Superseded
  <2>2. d = [q |-> d.q, active |-> d.active, reply |-> d.reply]
    BY DEF Typed, CallsAreCalls
  <2> QED BY <2>1, <2>2
<1>2. Call(f, o).q \in Question /\ Call(f, o).reply = {}
  BY DEF Call, Question, Waiting
<1>3. \A d : Fits(d)' = Fits(d)
  BY DEF Fits
<1>4. \A c \in calls' : /\ c.q \in Question /\ AtMostOne(c.reply)
                        /\ \A a \in c.reply : Fits(a) /\ a.of \subseteq used
  <2> TAKE c \in calls'
  <2>1. CASE c \in Superseded
    BY <1>1, <2>1 DEF Typed, DataTyped
  <2>2. CASE c \notin Superseded
    <3>1. c.q \in Question /\ c.reply = {}
      BY <1>2, <2>2
    <3> QED BY <3>1 DEF AtMostOne
  <2> QED BY <2>1, <2>2
<1>5. AtMostOne(shown') /\ \A d \in shown' : d.q \in Question /\ Fits(d)
  BY DEF Typed, DataTyped, AtMostOne
<1> QED BY <1>3, <1>4, <1>5 DEF Typed, DataTyped

LEMMA PageSteps ==
  ASSUME NEW P \in Nat \ {0}, NEW o \in Nat, o % P = 0
  PROVE  /\ (o + P) % P = 0 /\ 0 % P = 0
         /\ o > P => o - P \in Nat /\ (o - P) % P = 0
<1>1. PICK k \in Nat : o = P * k
  <2>1. o = P * (o \div P) + (o % P) /\ o \div P \in Nat
    OBVIOUS
  <2> QED BY <2>1
<1>2. \A n \in Nat : (P * n) % P = 0
  OBVIOUS
<1>3. o + P = P * (k + 1) /\ k + 1 \in Nat
  BY <1>1
<1>4. (o + P) % P = 0
  BY <1>2, <1>3
<1>5. ASSUME o > P
      PROVE  o - P \in Nat /\ (o - P) % P = 0
  <2>1. k # 0
    BY <1>1, <1>5
  <2>2. k - 1 \in Nat /\ o - P = P * (k - 1)
    BY <1>1, <2>1
  <2> QED BY <1>2, <1>5, <2>2
<1> QED BY <1>4, <1>5

\* The filters the layout makes, and those of a link.
LEMMA FilterType ==
  ASSUME NEW f \in Filter
  PROVE  /\ \A range \in Ranges : LET g == [f EXCEPT !.from = Now - range, !.to = Now]
                                 IN g \in Filter /\ g.client = f.client
         /\ \A host \in Hosts : LET g == [f EXCEPT !.host = host]
                               IN g \in Filter /\ g.client = f.client
         /\ \A l \in Links \cup {NoLink} : Effective(f, l) \in Filter
<1>1. \A range \in Ranges : Now - range \in Nat /\ Now \in Nat
  BY ViewAssumption DEF ViewAssumption
<1>2. ASSUME NEW l \in Links \cup {NoLink}
      PROVE  Effective(f, l) \in Filter
  <2>1. /\ l.from = All \/ l.from \in Nat
        /\ l.to = All \/ l.to \in Nat
        /\ l.host = All \/ l.host \in Hosts
        /\ l.client = All \/ l.client \in {k.client : k \in Links}
    BY ViewAssumption DEF ViewAssumption, NoLink
  <2> QED BY <2>1 DEF Effective, Filter
<1> QED BY <1>1, <1>2 DEF Filter

\* A page that asks for its first rows.
LEMMA FromTheTop ==
  ASSUME layout' \in Filter, layout'.client = All, filters' \in Filter,
         link' \in Links \cup {NoLink},
         offset' = 0, loading' = TRUE, failed' = FALSE, clicks' \in 0 .. MaxClicks
  PROVE  PageTyped'
<1>1. PAGE \in Nat \ {0}
  BY ViewAssumption DEF ViewAssumption
<1>2. 0 % PAGE = 0
  BY <1>1
<1>3. offset' \in Nat /\ offset' % PAGE = 0 /\ ~(offset' > 0)
  BY <1>2
<1> QED BY <1>3 DEF PageTyped

LEMMA OperatorTypes ==
  ASSUME Typed, Operator
  PROVE  Typed'
<1>1. CallsAreCalls'
  BY OperatorAsks DEF Typed
<1>2. /\ layout \in Filter /\ layout.client = All /\ filters \in Filter
      /\ link \in Links \cup {NoLink}
      /\ offset \in Nat /\ offset % PAGE = 0
      /\ offset > 0 => offset < Cardinality(used)
      /\ clicks \in 0 .. MaxClicks
  BY DEF Typed, PageTyped
<1>3. PAGE \in Nat \ {0} /\ MaxClicks \in Nat
  BY ViewAssumption DEF ViewAssumption
<1>4. Click => clicks' \in 0 .. MaxClicks
  BY <1>2, <1>3 DEF Click
<1>5. 0 % PAGE = 0
  BY <1>2, <1>3, PageSteps
<1>6. ASSUME NEW f \in Filter, Click, SetFilters(f), layout' \in Filter, layout'.client = All,
             link' \in Links \cup {NoLink}
      PROVE  Typed'
  <2> DEFINE late == IF offset = 0 THEN {} ELSE {[Call(f, offset) EXCEPT !.active = FALSE]}
  <2>1. UNCHANGED <<rows, shown, used, walk>> /\ filters' = f /\ offset' = 0
        /\ calls' = Superseded \cup {Call(f, 0)} \cup late /\ loading' = TRUE /\ failed' = FALSE
    BY <1>6 DEF SetFilters
  <2>2. \A c \in late : c.q \in Question /\ c.reply = {}
    BY <1>2 DEF Call, Question, Waiting
  <2> HIDE DEF late
  <2>3. DataTyped'
    BY <2>1, <2>2, AskTyped
  <2>4. PageTyped'
    BY <1>4, <1>6, <2>1, FromTheTop
  <2> QED BY <1>1, <2>1, <2>3, <2>4 DEF Typed, StoreTyped
<1>7. ASSUME NEW o \in Nat, o % PAGE = 0, o > 0 => o < Cardinality(used), Click, Turn(o)
      PROVE  Typed'
  <2>1. UNCHANGED <<rows, layout, link, filters, shown, used, walk>> /\ offset' = o
        /\ calls' = Superseded \cup {Call(filters, o)} \cup {} /\ loading' = TRUE /\ failed' = FALSE
    BY <1>7 DEF Turn, Ask
  <2> DEFINE late == {}
  <2>2. \A c \in late : c.q \in Question /\ c.reply = {}
    OBVIOUS
  <2> HIDE DEF late
  <2>3. calls' = Superseded \cup {Call(filters, o)} \cup late
    BY <2>1 DEF late
  <2>4. DataTyped'
    BY <1>2, <2>1, <2>2, <2>3, AskTyped
  <2>5. PageTyped'
    BY <1>2, <1>4, <1>7, <2>1 DEF PageTyped
  <2> QED BY <1>1, <2>1, <2>4, <2>5 DEF Typed, StoreTyped
<1>8. ASSUME NEW l \in Links \cup {NoLink}, Revisit(l)
      PROVE  Typed'
  <2> DEFINE f == Effective(layout, l)
             late == {}
  <2>1. UNCHANGED <<rows, used, walk>> /\ filters' = f /\ offset' = 0 /\ shown' = {} /\ Click
        /\ calls' = Superseded \cup {Call(f, 0)} \cup late /\ loading' = TRUE /\ failed' = FALSE
        /\ layout' = layout /\ link' = l
    BY <1>8 DEF Revisit, Ask
  <2>2. \A c \in late : c.q \in Question /\ c.reply = {}
    OBVIOUS
  <2>3. f \in Filter
    BY <1>2, FilterType
  <2> HIDE DEF late, f
  <2>4. DataTyped'
    BY <2>1, <2>2, <2>3, AskTyped
  <2>5. PageTyped'
    BY <1>2, <1>4, <2>1, <2>3, FromTheTop
  <2> QED BY <1>1, <2>1, <2>4, <2>5 DEF Typed, StoreTyped
<1>9. ASSUME NEW f \in Filter, f.client = All, SetLayout(f)
      PROVE  Typed'
  <2>1. Effective(f, link) \in Filter
    BY <1>2, FilterType
  <2>2. layout' = f /\ link' = link /\ Click /\ SetFilters(Effective(f, link))
    BY <1>9 DEF SetLayout
  <2> QED BY <1>2, <1>6, <1>9, <2>1, <2>2
<1>10. CASE \E range \in Ranges : PickRange(range)
  BY <1>2, <1>9, <1>10, FilterType DEF PickRange
<1>11. CASE \E host \in Hosts : PickHost(host)
  BY <1>2, <1>9, <1>11, FilterType DEF PickHost
<1>15. CASE \E l \in Links \cup {NoLink} : FollowLink(l)
  BY <1>2, <1>6, <1>15, FilterType DEF FollowLink
<1>12. CASE PrevPage
  <2> DEFINE o == IF offset > PAGE THEN offset - PAGE ELSE 0
  <2>1. o \in Nat /\ o % PAGE = 0 /\ o <= offset
    <3>1. offset > PAGE => offset - PAGE \in Nat /\ (offset - PAGE) % PAGE = 0
      BY <1>2, <1>3, PageSteps
    <3> QED BY <1>2, <1>3, <1>5, <3>1
  <2>2. o > 0 => o < Cardinality(used)
    <3>1. Cardinality(used) \in Nat
      BY FS_CardinalityType DEF Typed, StoreTyped
    <3> QED BY <1>2, <2>1, <3>1
  <2> QED BY <1>7, <1>12, <2>1, <2>2 DEF PrevPage
<1>13. CASE NextPage
  <2>1. Shown \in shown
    BY <1>13 DEF NextPage, OnScreen, Shown
  <2>2. Shown.total \in 0 .. Cardinality(used)
    BY <2>1 DEF Typed, DataTyped, Fits
  <2>3. End < Shown.total
    BY <1>13 DEF NextPage
  <2>4. Cardinality(used) \in Nat
    BY FS_CardinalityType DEF Typed, StoreTyped
  <2>5. offset + PAGE < Cardinality(used) /\ offset + PAGE \in Nat
    <3> DEFINE n == Shown.total
    <3>1. n \in 0 .. Cardinality(used) /\ Least(offset + PAGE, n) < n
      BY <2>2, <2>3 DEF End
    <3> HIDE DEF n
    <3> QED BY <1>2, <1>3, <2>4, <3>1 DEF Least
  <2>6. (offset + PAGE) % PAGE = 0
    BY <1>2, <1>3, PageSteps
  <2> QED BY <1>7, <1>13, <2>5, <2>6 DEF NextPage
<1>14. CASE \E l \in Links \cup {NoLink} : Revisit(l)
  BY <1>8, <1>14
<1> QED BY <1>10, <1>11, <1>12, <1>13, <1>14, <1>15 DEF Operator

\* The walk goes on: what starts it stays, what is seen is added.
LEMMA WalkOn ==
  ASSUME NEW v, v = [start |-> v.start, seen |-> v.seen, at |-> v.at], NEW S, NEW q,
         NEW w, w = [v EXCEPT !.seen = @ \cup S, !.at = q]
  PROVE  /\ w = [start |-> w.start, seen |-> w.seen, at |-> w.at]
         /\ w.start = v.start /\ w.seen = v.seen \cup S /\ w.at = q
OBVIOUS

\* An answer of queryAccess: as many rows as were asked for, of those the filter selects.
LEMMA AnswerMeans ==
  ASSUME NEW f, NEW o, NEW a \in Answers(rows, f, PAGE, o)
  PROVE  /\ a.total = Cardinality(Where(rows, f))
         /\ a.rows \in PagesOf(Where(rows, f), PAGE, o) /\ a.rows \subseteq Where(rows, f)
<1>1. PICK p \in PagesOf(Where(rows, f), PAGE, o) :
        a = [total |-> Cardinality(Where(rows, f)), rows |-> p]
  BY DEF Answers
<1>2. p \subseteq Where(rows, f)
  BY DEF PagesOf
<1> QED BY <1>1, <1>2

LEMMA NetworkTypes ==
  ASSUME Typed, PageAnswersQuestion, Network
  PROVE  Typed'
<1>1. PICK c \in calls : Answer(c) \/ Deliver(c) \/ Lose(c)
  BY DEF Network
<1>2. CallsAreCalls'
  BY NetworkKeeps DEF Typed
<1>3. UNCHANGED <<rows, layout, link, filters, offset, clicks, used>>
  BY <1>1 DEF Answer, Deliver, Lose, page
<1>4. StoreTyped' /\ \A d : Fits(d)' = Fits(d)
  BY <1>3 DEF Typed, StoreTyped, Fits
<1>5. c.q \in Question /\ AtMostOne(c.reply) /\ \A a \in c.reply : Fits(a) /\ a.of \subseteq used
  BY DEF Typed, DataTyped
<1>6. CASE Answer(c)
  <2> DEFINE f == ParseFilter(c.q.filters, Now)
  <2>1. PICK a \in Answers(rows, f, PAGE, c.q.offset) :
          calls' = (calls \ {c}) \cup
                     {[c EXCEPT !.reply = {[total |-> a.total, rows |-> a.rows, of |-> Where(rows, f)]}]}
    BY <1>6 DEF Answer
  <2> DEFINE r == [total |-> a.total, rows |-> a.rows, of |-> Where(rows, f)]
             d == [c EXCEPT !.reply = {r}]
  <2>2. a.total = Cardinality(Where(rows, f)) /\ a.rows \subseteq Where(rows, f)
    BY AnswerMeans
  <2>3. Where(rows, f) \subseteq rows /\ Cardinality(Where(rows, f)) \in 0 .. Cardinality(used)
    BY WhereFits DEF Typed
  <2> HIDE DEF f
  <2>4. Fits(r) /\ r.of \subseteq used
    BY <2>2, <2>3 DEF Fits, Typed, StoreTyped
  <2>5. d.q = c.q /\ d.reply = {r}
    BY DEF Typed, CallsAreCalls
  <2>6. calls' = (calls \ {c}) \cup {d}
    BY <2>1
  <2> HIDE DEF r, d
  <2>7. \A e \in calls' : /\ e.q \in Question /\ AtMostOne(e.reply)
                          /\ \A b \in e.reply : Fits(b) /\ b.of \subseteq used
    <3> TAKE e \in calls'
    <3>1. CASE e = d
      BY <1>5, <2>4, <2>5, <3>1 DEF AtMostOne
    <3>2. CASE e \in calls
      BY <3>2 DEF Typed, DataTyped
    <3> QED BY <2>6, <3>1, <3>2
  <2>8. UNCHANGED <<shown, loading, failed, walk>>
    BY <1>6 DEF Answer, page
  <2>9. DataTyped'
    BY <1>3, <1>4, <2>7, <2>8 DEF Typed, DataTyped
  <2>10. PageTyped'
    BY <1>3, <2>8 DEF Typed, PageTyped
  <2> QED BY <1>2, <1>4, <2>9, <2>10 DEF Typed
<1>7. CASE Deliver(c) \/ Lose(c)
  <2>1. calls' = calls \ {c}
    BY <1>7 DEF Deliver, Lose
  <2>2. \A e \in calls' : /\ e.q \in Question /\ AtMostOne(e.reply)
                          /\ \A b \in e.reply : Fits(b) /\ b.of \subseteq used
    BY <2>1 DEF Typed, DataTyped
  <2>3. \/ UNCHANGED <<shown, loading, failed, walk>>
        \/ shown' = {} /\ walk' = {} /\ loading' = FALSE /\ failed' = TRUE
        \/ \E a \in c.reply : Put(c, a)
    BY <1>7 DEF Deliver, Lose
  <2>4. CASE UNCHANGED <<shown, loading, failed, walk>>
    <3>1. DataTyped'
      BY <1>3, <1>4, <2>2, <2>4 DEF Typed, DataTyped
    <3>2. PageTyped'
      BY <1>3, <2>4 DEF Typed, PageTyped
    <3> QED BY <1>2, <1>4, <3>1, <3>2 DEF Typed
  <2>5. CASE shown' = {} /\ walk' = {} /\ loading' = FALSE /\ failed' = TRUE
    <3>1. DataTyped'
      BY <1>3, <1>4, <2>2, <2>5 DEF DataTyped, AtMostOne
    <3>2. PageTyped'
      BY <1>3, <2>5 DEF Typed, PageTyped
    <3> QED BY <1>2, <1>4, <3>1, <3>2 DEF Typed
  <2>6. ASSUME NEW a \in c.reply, Put(c, a)
        PROVE  Typed'
    <3> DEFINE d == [q |-> c.q, total |-> a.total, rows |-> a.rows]
    <3>1. shown' = {d} /\ loading' = FALSE /\ failed' = FALSE /\ walk' = Follow(walk, c.q, a)
      BY <2>6 DEF Put
    <3>2. d.q = c.q /\ Fits(d)
      BY <1>5 DEF Fits
    <3> HIDE DEF d
    <3>3. AtMostOne(shown') /\ \A e \in shown' : e.q \in Question /\ Fits(e)
      BY <1>5, <3>1, <3>2 DEF AtMostOne
    <3>4. a.rows \subseteq used /\ a.of \subseteq used
      BY <1>5 DEF Fits
    <3>5. AtMostOne(walk') /\ \A w \in walk' :
             /\ w = [start |-> w.start, seen |-> w.seen, at |-> w.at]
             /\ w.start \cup w.seen \subseteq used /\ w.at \in Question
      <4>1. CASE c.q.offset = 0
        <5>1. walk' = {[start |-> a.of, seen |-> a.rows, at |-> c.q]}
          BY <3>1, <4>1 DEF Follow
        <5> QED BY <1>5, <3>4, <5>1 DEF AtMostOne
      <4>2. CASE c.q.offset # 0
        <5>1. \A w \in walk' : \E v \in walk : w = [v EXCEPT !.seen = @ \cup a.rows, !.at = c.q]
          BY <3>1, <4>2 DEF Follow
        <5>2. AtMostOne(walk')
          <6>1. SUFFICES ASSUME NEW x \in walk', NEW y \in walk' PROVE x = y
            BY DEF AtMostOne
          <6>2. PICK v \in walk : x = [v EXCEPT !.seen = @ \cup a.rows, !.at = c.q]
            BY <5>1
          <6>3. PICK u \in walk : y = [u EXCEPT !.seen = @ \cup a.rows, !.at = c.q]
            BY <5>1
          <6>4. u = v
            BY DEF Typed, DataTyped, AtMostOne
          <6> QED BY <6>2, <6>3, <6>4
        <5>3. ASSUME NEW w \in walk'
              PROVE  /\ w = [start |-> w.start, seen |-> w.seen, at |-> w.at]
                     /\ w.start \cup w.seen \subseteq used /\ w.at \in Question
          <6>1. PICK v \in walk : w = [v EXCEPT !.seen = @ \cup a.rows, !.at = c.q]
            BY <5>1
          <6>2. v = [start |-> v.start, seen |-> v.seen, at |-> v.at]
                /\ v.start \cup v.seen \subseteq used
            BY DEF Typed, DataTyped
          <6>3. /\ w = [start |-> w.start, seen |-> w.seen, at |-> w.at]
                /\ w.start = v.start /\ w.seen = v.seen \cup a.rows /\ w.at = c.q
            BY <6>1, <6>2, WalkOn
          <6> QED BY <1>5, <3>4, <6>2, <6>3
        <5> QED BY <5>2, <5>3
      <4> QED BY <4>1, <4>2
    <3>6. DataTyped'
      BY <1>3, <1>4, <2>2, <3>3, <3>5 DEF DataTyped
    <3>7. PageTyped'
      BY <1>3, <3>1 DEF Typed, PageTyped
    <3> QED BY <1>2, <1>4, <3>6, <3>7 DEF Typed
  <2> QED BY <2>3, <2>4, <2>5, <2>6
<1> QED BY <1>1, <1>6, <1>7

\* The page opens on the first rows of one of the ranges offered.
LEMMA InitTypes == Init => Typed /\ PageAnswersQuestion
<1> SUFFICES ASSUME Init PROVE Typed /\ PageAnswersQuestion
  OBVIOUS
<1>1. rows = {} /\ used = {} /\ offset = 0 /\ shown = {} /\ loading = TRUE /\ failed = FALSE
      /\ calls = {Call(filters, 0)} /\ clicks = 0 /\ walk = {}
  BY DEF Init
<1>2. CallsAreCalls /\ PageAnswersQuestion
  BY <1>1 DEF CallsAreCalls, PageAnswersQuestion, Active, Asked, Call
<1>3. layout \in Filter /\ layout.client = All /\ filters \in Filter /\ link \in {NoLink}
  <2>1. PICK range \in Ranges : layout = Preset(range, "all")
    BY DEF Init
  <2>2. Now - range \in Nat /\ Now \in Nat /\ "all" \in Hosts /\ filters = layout /\ link = NoLink
    BY ViewAssumption DEF ViewAssumption, Init
  <2> QED BY <2>1, <2>2 DEF Preset, Filter
<1>4. PageTyped
  <2>1. PAGE \in Nat \ {0} /\ MaxClicks \in Nat
    BY ViewAssumption DEF ViewAssumption
  <2>2. 0 % PAGE = 0 /\ ~(0 > 0) /\ 0 \in 0 .. MaxClicks
    BY <2>1
  <2> QED BY <1>1, <1>3, <2>2 DEF PageTyped
<1>5. StoreTyped
  <2>1. IsFiniteSet(used)
    BY <1>1, FS_EmptySet
  <2> QED BY <1>1, <2>1 DEF StoreTyped
<1>6. DataTyped
  <2>1. Call(filters, 0).q \in Question /\ Call(filters, 0).reply = {}
    BY <1>3 DEF Call, Question, Waiting
  <2>2. calls = {Call(filters, 0)} /\ shown = {} /\ walk = {}
    BY <1>1
  <2> QED BY <2>1, <2>2 DEF DataTyped, AtMostOne
<1> QED BY <1>2, <1>4, <1>5, <1>6 DEF Typed

\* A step of any kind keeps the types and the one call that counts.
LEMMA NextTypes ==
  ASSUME Typed, PageAnswersQuestion, [Next]_vars
  PROVE  Typed' /\ PageAnswersQuestion'
<1>1. CASE Store \/ UNCHANGED vars
  <2>1. UNCHANGED <<page, calls>>
    BY <1>1 DEF Store, Ingest, PruneBefore, vars, page
  <2>2. Asked' = Asked /\ Active' = Active
    BY <2>1 DEF page, Asked, Active
  <2>3. PageAnswersQuestion'
    BY <2>1, <2>2 DEF page, PageAnswersQuestion
  <2>4. CASE UNCHANGED vars
    <3>1. StoreTyped' /\ used \subseteq used' /\ IsFiniteSet(used')
      BY <2>4 DEF vars, Typed, StoreTyped
    <3>2. UNCHANGED <<shown, calls, walk, layout, link, filters, offset, loading, failed, clicks>>
      BY <2>4 DEF vars
    <3> QED BY <2>3, <3>1, <3>2, DataGrows DEF Typed
  <2> QED BY <1>1, <2>3, <2>4, StoreTypes
<1>2. CASE Operator
  BY <1>2, OperatorAsks, OperatorTypes DEF Typed
<1>3. CASE Network
  BY <1>3, NetworkKeeps, NetworkTypes DEF Typed
<1> QED BY <1>1, <1>2, <1>3 DEF Next

\* Every step leaves each variable with its values, the offset at the head of a page
\* that there was, one answer at the most on the screen and in each call.
THEOREM TypeCorrect == Spec => []TypeOK
<1>1. Init => Typed /\ PageAnswersQuestion
  BY InitTypes
<1>2. Typed /\ PageAnswersQuestion /\ [Next]_vars => (Typed /\ PageAnswersQuestion)'
  BY NextTypes
<1> QED BY <1>1, <1>2, TypedTypeOK, PTL DEF Spec

\* What a page shows once it has loaded is the answer to the filter and the offset
\* it stands at, and a page that loads waits for just that answer.
THEOREM TheLastQuestionWins == Spec => []PageAnswersQuestion
<1>1. Init => Typed /\ PageAnswersQuestion
  BY InitTypes
<1>2. Typed /\ PageAnswersQuestion /\ [Next]_vars => (Typed /\ PageAnswersQuestion)'
  BY NextTypes
<1> QED BY <1>1, <1>2, PTL DEF Spec

-------------------------------------------------------------------------------
(* The reader who goes on by Next.  A row that was there when the first page  *)
(* was asked for, and was not seen yet, is always further down than the pages *)
(* seen: rows that arrive can only push it down, and the prune takes what is  *)
(* older first, so none of the rows before it while it stays itself.  A page  *)
(* that has arrived but is not shown yet is no different.                     *)

Lone(r) == \A other \in used \ {r} : other.ts # r.ts
Of(q) == ParseFilter(q.filters, Now)
Chosen(r, f) == r \in Where({r}, f)

\* The row lies below the page of a question, and the page said that there is more.
Later(r, q) == Before(r, Where(rows, Of(q))) >= q.offset + PAGE
More(total, q) == total > q.offset + PAGE

\* On the screen: what is to be seen was seen or is still to come.
WalkKept ==
  \A w \in walk :
    /\ \A r \in w.start : Chosen(r, Of(w.at))
    /\ \A r \in w.start \cap rows : Lone(r) => r \in w.seen \/ Later(r, w.at)
    /\ \A d \in shown :
         /\ w.at = d.q
         /\ \A r \in w.start \cap rows : Lone(r) => r \in w.seen \/ More(d.total, d.q)

\* On its way: the answer to a call that counts begins a walk or goes on with one.
AnswerKept ==
  \A c \in calls : \A a \in c.reply : c.active =>
    /\ \A r \in a.of : Chosen(r, Of(c.q))
    /\ c.q.offset = 0 =>
         \A r \in a.of \cap rows :
           Lone(r) => r \in a.rows \/ (Later(r, c.q) /\ More(a.total, c.q))
    /\ \A w \in walk : c.q = [w.at EXCEPT !.offset = @ + PAGE] =>
         \A r \in w.start \cap rows :
           Lone(r) => r \in w.seen \cup a.rows \/ (Later(r, c.q) /\ More(a.total, c.q))

LEMMA WhereChosen ==
  ASSUME NEW S, NEW f, NEW r
  PROVE  r \in Where(S, f) <=> r \in S /\ Chosen(r, f)
BY DEF Where, Chosen

\* A row alone with its time is on the page its place among the newer ones gives it.
LEMMA PageOfLone ==
  ASSUME NEW sel, IsFiniteSet(sel), \A x \in sel : x.ts \in Nat,
         NEW r \in sel, \A x \in sel : x.ts = r.ts => x = r,
         NEW limit \in Nat, NEW o \in Nat, NEW p \in PagesOf(sel, limit, o),
         Before(r, sel) >= o
  PROVE  r \in p \/ (Before(r, sel) >= o + limit /\ Cardinality(sel) > o + limit)
<1> DEFINE b == Before(r, sel)
<1>1. b \in Nat /\ b < Cardinality(sel)
  <2> DEFINE newer == {x \in sel : x.ts > r.ts}
  <2>1. newer \subseteq sel /\ newer # sel
    <3>1. ~(r.ts > r.ts)
      OBVIOUS
    <3>2. r \notin newer
      BY <3>1
    <3> QED BY <3>2
  <2>2. b = Cardinality(newer)
    BY DEF Before
  <2> HIDE DEF newer, b
  <2>3. IsFiniteSet(newer) /\ Cardinality(newer) <= Cardinality(sel)
        /\ Cardinality(newer) # Cardinality(sel)
    BY <2>1, FS_Subset
  <2>4. Cardinality(newer) \in Nat /\ Cardinality(sel) \in Nat
    BY <2>3, FS_CardinalityType
  <2> QED BY <2>2, <2>3, <2>4
<1>2. Cardinality(sel) \in Nat
  BY FS_CardinalityType
<1>3. CASE b >= o + limit
  <2> HIDE DEF b
  <2>1. Cardinality(sel) > o + limit
    BY <1>1, <1>2, <1>3
  <2> QED BY <1>3, <2>1 DEF b
<1>4. CASE b < o + limit
  <2>1. {x \in sel : x.ts = r.ts} = {r}
    OBVIOUS
  <2>2. Cardinality({x \in sel : x.ts = r.ts}) = 1
    BY <2>1, FS_Singleton
  <2> DEFINE n == Cardinality({x \in sel : x.ts = r.ts})
             share == LET first == IF b > o THEN b ELSE o
                          end == IF b + n < o + limit THEN b + n ELSE o + limit
                      IN IF end > first THEN end - first ELSE 0
  <2>3. p \subseteq sel /\ Cardinality({x \in p : x.ts = r.ts}) = share
    BY DEF PagesOf
  <2>4. b >= o /\ n = 1
    BY <2>2
  <2>5. share = 1
    <3> HIDE DEF b, n
    <3> QED BY <1>1, <1>4, <2>4
  <2>6. {x \in p : x.ts = r.ts} # {}
    <3> DEFINE here == {x \in p : x.ts = r.ts}
    <3>1. Cardinality(here) = 1
      BY <2>3, <2>5
    <3>2. Cardinality({}) = 0
      BY FS_EmptySet
    <3> HIDE DEF here
    <3>3. here # {}
      BY <3>1, <3>2
    <3> QED BY <3>3 DEF here
  <2> QED BY <2>3, <2>6
<1> QED BY <1>1, <1>3, <1>4

\* What the store does leaves a row, while it stays, as far down as it was or further.
LEMMA StorePushesDown ==
  ASSUME Typed, Store
  PROVE  /\ UNCHANGED <<shown, calls, walk>>
         /\ \A r \in used : r \in rows' /\ Lone(r)' =>
              /\ r \in rows /\ Lone(r)
              /\ \A q \in Question : Later(r, q) => Later(r, q)'
<1>1. UNCHANGED <<shown, calls, walk>>
  BY DEF Store, Ingest, PruneBefore, page
<1>2. IsFiniteSet(rows') /\ used \subseteq used'
  <2>1. Typed' /\ (used' = used \/ \E x : used' = used \cup {x})
    BY StoreTypes DEF Store, Ingest, PruneBefore
  <2> QED BY <2>1, FS_Subset DEF Typed, StoreTyped
<1>3. ASSUME NEW r \in used, r \in rows'
      PROVE  r \in rows /\ \A x \in rows : x.ts > r.ts => x \in rows'
  <2>1. CASE \E i \in Id : Ingest(i)
    <3>1. PICK x : rows' = rows \cup {x} /\ x \notin used
      <4>1. PICK i \in Id : Ingest(i)
        BY <2>1
      <4>2. PICK k \in Request, t \in 0 .. Now - 1 :
              LET x == [id |-> i, ts |-> t, host |-> k.host, status |-> k.status,
                        client |-> k.client, referer |-> k.referer, country |-> k.country]
              IN rows' = rows \cup {x} /\ used' = used \cup {x}
        BY <4>1 DEF Ingest
      <4> DEFINE x == [id |-> i, ts |-> t, host |-> k.host, status |-> k.status,
                       client |-> k.client, referer |-> k.referer, country |-> k.country]
      <4>3. x.id = i /\ \A s \in used : s.id # i
        BY <4>1 DEF Ingest
      <4>4. rows' = rows \cup {x}
        BY <4>2
      <4> HIDE DEF x
      <4> QED BY <4>3, <4>4
    <3> QED BY <1>3, <3>1
  <2>2. CASE PruneBefore
    <3>1. PICK cutoff \in 1 .. Now - Keep : rows' = {x \in rows : x.ts >= cutoff}
      BY <2>2 DEF PruneBefore
    <3>2. \A x \in rows : x.ts \in Nat
      BY DEF Typed, StoreTyped, Row, Time
    <3>3. cutoff \in Nat /\ r \in rows /\ r.ts >= cutoff
      BY <1>3, <3>1, ViewAssumption DEF ViewAssumption
    <3> QED BY <3>1, <3>2, <3>3
  <2> QED BY <2>1, <2>2 DEF Store
<1>4. ASSUME NEW r \in used, r \in rows', Lone(r)', NEW q \in Question, Later(r, q)
      PROVE  Later(r, q)'
  <2> DEFINE f == Of(q)
             newer(S) == {x \in Where(S, f) : x.ts > r.ts}
  <2>1. newer(rows) \subseteq newer(rows')
    <3> SUFFICES ASSUME NEW x \in newer(rows) PROVE x \in newer(rows')
      OBVIOUS
    <3>1. x \in rows /\ Chosen(x, f) /\ x.ts > r.ts
      BY WhereChosen
    <3>2. x \in rows'
      BY <1>3, <1>4, <3>1
    <3> QED BY <3>1, <3>2, WhereChosen
  <2>2. newer(rows') \subseteq rows'
    BY WhereChosen
  <2>3. Before(r, Where(rows, f)) = Cardinality(newer(rows))
        /\ Before(r, Where(rows', f)) = Cardinality(newer(rows'))
    BY DEF Before
  <2> DEFINE m == newer(rows)  n == newer(rows')
  <2>4. m \subseteq n /\ n \subseteq rows'
    BY <2>1, <2>2
  <2> HIDE DEF f, m, n
  <2>5. IsFiniteSet(n)
    BY <1>2, <2>4, FS_Subset
  <2>6. IsFiniteSet(m) /\ Cardinality(m) <= Cardinality(n)
    BY <2>4, <2>5, FS_Subset
  <2>7. Cardinality(m) \in Nat /\ Cardinality(n) \in Nat
    BY <2>5, <2>6, FS_CardinalityType
  <2>8. Cardinality(m) >= q.offset + PAGE
    BY <1>4, <2>3 DEF Later, f, m
  <2>9. q.offset \in Nat /\ PAGE \in Nat
    BY ViewAssumption DEF Question, ViewAssumption
  <2>10. Cardinality(n) >= q.offset + PAGE
    BY <2>6, <2>7, <2>8, <2>9
  <2> QED BY <2>3, <2>10 DEF Later, f, n
<1>5. ASSUME NEW r \in used, Lone(r)' PROVE Lone(r)
  BY <1>2, <1>5 DEF Lone
<1> QED BY <1>1, <1>3, <1>4, <1>5

\* The reader is as far as the pages say, whatever the store does.
LEMMA StoreKeepsWalk ==
  ASSUME Typed, WalkKept, AnswerKept, Store
  PROVE  WalkKept' /\ AnswerKept'
<1>1. /\ UNCHANGED <<shown, calls, walk>>
      /\ \A r \in used : r \in rows' /\ Lone(r)' =>
           /\ r \in rows /\ Lone(r)
           /\ \A q \in Question : Later(r, q) => Later(r, q)'
  BY StorePushesDown
<1>2. WalkKept'
  <2> SUFFICES ASSUME NEW w \in walk
               PROVE  /\ \A r \in w.start : Chosen(r, Of(w.at))
                      /\ \A r \in w.start \cap rows' :
                           Lone(r)' => r \in w.seen \/ Later(r, w.at)'
                      /\ \A d \in shown :
                           /\ w.at = d.q
                           /\ \A r \in w.start \cap rows' :
                                Lone(r)' => r \in w.seen \/ More(d.total, d.q)
    BY <1>1 DEF WalkKept
  <2>1. w.start \subseteq used /\ w.at \in Question
    BY DEF Typed, DataTyped
  <2> QED BY <1>1, <2>1 DEF WalkKept
<1>3. AnswerKept'
  <2> SUFFICES ASSUME NEW c \in calls, NEW a \in c.reply, c.active
               PROVE  /\ \A r \in a.of : Chosen(r, Of(c.q))
                      /\ c.q.offset = 0 =>
                           \A r \in a.of \cap rows' :
                             Lone(r)' => r \in a.rows \/ (Later(r, c.q)' /\ More(a.total, c.q))
                      /\ \A w \in walk : c.q = [w.at EXCEPT !.offset = @ + PAGE] =>
                           \A r \in w.start \cap rows' :
                             Lone(r)' => r \in w.seen \cup a.rows
                                         \/ (Later(r, c.q)' /\ More(a.total, c.q))
    BY <1>1 DEF AnswerKept
  <2>1. a.of \subseteq used /\ c.q \in Question /\ \A w \in walk : w.start \subseteq used
    BY DEF Typed, DataTyped
  <2>2. /\ \A r \in a.of : Chosen(r, Of(c.q))
        /\ c.q.offset = 0 =>
             \A r \in a.of \cap rows :
               Lone(r) => r \in a.rows \/ (Later(r, c.q) /\ More(a.total, c.q))
        /\ \A w \in walk : c.q = [w.at EXCEPT !.offset = @ + PAGE] =>
             \A r \in w.start \cap rows :
               Lone(r) => r \in w.seen \cup a.rows \/ (Later(r, c.q) /\ More(a.total, c.q))
    BY DEF AnswerKept
  <2>3. \A r \in used : r \in rows' /\ Lone(r)' =>
          r \in rows /\ Lone(r) /\ (Later(r, c.q) => Later(r, c.q)')
    BY <1>1, <2>1
  <2> QED BY <2>1, <2>2, <2>3
<1> QED BY <1>2, <1>3

\* A click leaves the screen or clears it, and what it asks has no answer yet.
LEMMA OperatorKeepsWalk ==
  ASSUME Typed, WalkKept, AnswerKept, Operator
  PROVE  WalkKept' /\ AnswerKept'
<1>1. UNCHANGED <<rows, used, walk>> /\ shown' \in {shown, {}}
  BY DEF Operator, PickRange, PickHost, SetLayout, FollowLink, PrevPage, NextPage, SetFilters, Turn,
         Revisit
<1>2. \A c \in calls' : c.active => c.reply = {}
  <2> DEFINE asks(f, o, late) == calls' = Superseded \cup {Call(f, o)} \cup late
                                 /\ \A c \in late : ~c.active
  <2>1. PICK f, o, late : asks(f, o, late)
    <3>1. ASSUME NEW f, SetFilters(f)
          PROVE  \E late : asks(f, 0, late)
      <4> DEFINE late == IF offset = 0 THEN {} ELSE {[Call(f, offset) EXCEPT !.active = FALSE]}
      <4>1. \A c \in late : ~c.active
        BY DEF Call
      <4>2. calls' = Superseded \cup {Call(f, 0)} \cup late
        BY <3>1 DEF SetFilters
      <4> HIDE DEF late
      <4> QED BY <4>1, <4>2
    <3>2. ASSUME NEW f, NEW o, Ask(f, o)
          PROVE  asks(f, o, {})
      BY <3>2 DEF Ask
    <3> HIDE DEF asks
    <3>3. CASE \E l \in Links \cup {NoLink} : Revisit(l)
      BY <3>2, <3>3 DEF Revisit
    <3>4. CASE PrevPage \/ NextPage
      BY <3>2, <3>4 DEF PrevPage, NextPage, Turn
    <3>5. CASE \E range \in Ranges : PickRange(range)
      BY <3>1, <3>5 DEF PickRange, SetLayout
    <3>6. CASE \E host \in Hosts : PickHost(host)
      BY <3>1, <3>6 DEF PickHost, SetLayout
    <3>7. CASE \E l \in Links \cup {NoLink} : FollowLink(l)
      BY <3>1, <3>7 DEF FollowLink
    <3> QED BY <3>3, <3>4, <3>5, <3>6, <3>7 DEF Operator
  <2>2. \A c \in Superseded : ~c.active
    <3> TAKE c \in Superseded
    <3>1. c = [q |-> c.q, active |-> FALSE, reply |-> c.reply]
      BY SupersededCalls DEF Typed
    <3> QED BY <3>1
  <2>3. Call(f, o).reply = {}
    BY DEF Call, Waiting
  <2> QED BY <2>1, <2>2, <2>3
<1>3. AnswerKept'
  BY <1>2 DEF AnswerKept
<1>4. WalkKept'
  <2>1. \A r, q : Lone(r)' = Lone(r) /\ Later(r, q)' = Later(r, q)
    BY <1>1 DEF Lone, Later
  <2> QED BY <1>1, <2>1 DEF WalkKept
<1> QED BY <1>3, <1>4

\* The query answers a call: a row that is still to be seen is on the page, or below.
LEMMA AnswerKeepsWalk ==
  ASSUME Typed, WalkKept, AnswerKept, NEW c \in calls, Answer(c)
  PROVE  WalkKept' /\ AnswerKept'
<1>1. UNCHANGED <<rows, shown, used, walk>>
  BY DEF Answer, page
<1>2. \A r, q : Lone(r)' = Lone(r) /\ Later(r, q)' = Later(r, q)
  BY <1>1 DEF Lone, Later
<1>3. WalkKept'
  BY <1>1, <1>2 DEF WalkKept
<1>4. AnswerKept'
  <2> DEFINE f == ParseFilter(c.q.filters, Now)
  <2>1. PICK a \in Answers(rows, f, PAGE, c.q.offset) :
          calls' = (calls \ {c}) \cup
                     {[c EXCEPT !.reply = {[total |-> a.total, rows |-> a.rows, of |-> Where(rows, f)]}]}
    BY DEF Answer
  <2> DEFINE sel == Where(rows, f)
             b == [total |-> a.total, rows |-> a.rows, of |-> sel]
             d == [c EXCEPT !.reply = {b}]
  <2>2. a.total = Cardinality(sel) /\ a.rows \in PagesOf(sel, PAGE, c.q.offset)
    BY AnswerMeans
  <2>3. IsFiniteSet(sel) /\ sel \subseteq rows
    BY WhereFits DEF Typed
  <2>4. c.q \in Question /\ c.q.offset \in Nat /\ PAGE \in Nat
    BY ViewAssumption DEF Typed, DataTyped, Question, ViewAssumption
  <2>5. Of(c.q) = f
    BY DEF Of
  <2>6. \A r : r \in sel <=> r \in rows /\ Chosen(r, f)
    BY WhereChosen
  <2>7. d.q = c.q /\ d.reply = {b} /\ calls' = (calls \ {c}) \cup {d}
    BY <2>1 DEF Typed, CallsAreCalls
  <2>8. b.of = sel /\ b.rows = a.rows /\ b.total = Cardinality(sel)
    BY <2>2
  <2> HIDE DEF f, sel, b, d
  <2>9. ASSUME NEW r \in sel, Lone(r), Before(r, sel) >= c.q.offset
        PROVE  r \in a.rows \/ (Later(r, c.q) /\ More(b.total, c.q))
    <3>1. \A x \in sel : x.ts \in Nat /\ (x.ts = r.ts => x = r)
      <4>1. \A x \in sel : x \in used /\ x \in Row
        BY <2>3 DEF Typed, StoreTyped
      <4>2. \A x \in Row : x.ts \in Nat
        BY DEF Row, Time
      <4> QED BY <2>9, <4>1, <4>2 DEF Lone
    <3>2. r \in a.rows \/ (Before(r, sel) >= c.q.offset + PAGE /\ Cardinality(sel) > c.q.offset + PAGE)
      BY <2>2, <2>3, <2>4, <2>9, <3>1, PageOfLone
    <3>3. Before(r, sel) = Before(r, Where(rows, Of(c.q)))
      BY <2>5 DEF sel
    <3> QED BY <2>8, <3>2, <3>3 DEF Later, More
  <2>10. \A r \in b.of : Chosen(r, Of(c.q))
    BY <2>5, <2>6, <2>8
  <2>11. ASSUME c.q.offset = 0, NEW r \in b.of, Lone(r)
         PROVE  r \in b.rows \/ (Later(r, c.q) /\ More(b.total, c.q))
    <3>1. Before(r, sel) \in Nat
      <4>1. IsFiniteSet({x \in sel : x.ts > r.ts})
        BY <2>3, FS_Subset
      <4> QED BY <4>1, FS_CardinalityType DEF Before
    <3> QED BY <2>8, <2>9, <2>11, <3>1
  <2>12. ASSUME NEW w \in walk, c.q = [w.at EXCEPT !.offset = @ + PAGE],
                NEW r \in w.start \cap rows, Lone(r)
         PROVE  r \in w.seen \cup b.rows \/ (Later(r, c.q) /\ More(b.total, c.q))
    <3>1. w.at \in Question
      BY DEF Typed, DataTyped
    <3>2. c.q.offset = w.at.offset + PAGE /\ c.q.filters = w.at.filters
      BY <2>12, <3>1 DEF Question
    <3>3. Of(w.at) = f
      BY <2>5, <3>2 DEF Of
    <3>4. Chosen(r, Of(w.at)) /\ (r \in w.seen \/ Later(r, w.at))
      BY <2>12 DEF WalkKept
    <3>5. r \in sel
      BY <2>6, <3>3, <3>4
    <3>6. CASE Later(r, w.at)
      <4>1. Before(r, sel) >= c.q.offset
        BY <3>2, <3>3, <3>6 DEF Later, sel
      <4> QED BY <2>8, <2>9, <2>12, <3>5, <4>1
    <3> QED BY <3>4, <3>6
  <2>13. ASSUME NEW e \in calls', NEW x \in e.reply, e.active
         PROVE  /\ \A r \in x.of : Chosen(r, Of(e.q))
                /\ e.q.offset = 0 =>
                     \A r \in x.of \cap rows :
                       Lone(r) => r \in x.rows \/ (Later(r, e.q) /\ More(x.total, e.q))
                /\ \A w \in walk : e.q = [w.at EXCEPT !.offset = @ + PAGE] =>
                     \A r \in w.start \cap rows :
                       Lone(r) => r \in w.seen \cup x.rows \/ (Later(r, e.q) /\ More(x.total, e.q))
    <3>1. CASE e = d
      <4>1. x = b /\ e.q = c.q
        BY <2>7, <2>13, <3>1
      <4> QED BY <2>10, <2>11, <2>12, <4>1
    <3>2. CASE e \in calls
      BY <2>13, <3>2 DEF AnswerKept
    <3> QED BY <2>7, <3>1, <3>2
  <2> QED BY <1>1, <1>2, <2>13 DEF AnswerKept
<1> QED BY <1>3, <1>4

\* An answer that counts is shown: the walk begins with it, or goes on as it said.
LEMMA PutKeepsWalk ==
  ASSUME Typed, PageAnswersQuestion, WalkKept, AnswerKept,
         NEW c \in calls, c.active, NEW a \in c.reply, Put(c, a), calls' = calls \ {c},
         UNCHANGED <<rows, used>>
  PROVE  WalkKept' /\ AnswerKept'
<1>1. Active = {c}
  BY DEF PageAnswersQuestion, Active
<1>2. AnswerKept'
  <2>1. \A e \in calls' : ~e.active
    BY <1>1 DEF Active
  <2> QED BY <2>1 DEF AnswerKept
<1>3. \A r, q : Lone(r)' = Lone(r) /\ Later(r, q)' = Later(r, q)
  BY DEF Lone, Later
<1> DEFINE d == [q |-> c.q, total |-> a.total, rows |-> a.rows]
<1>4. shown' = {d} /\ walk' = Follow(walk, c.q, a) /\ d.q = c.q /\ d.total = a.total
  BY DEF Put
<1> HIDE DEF d
<1>5. SUFFICES ASSUME NEW w \in walk'
      PROVE  /\ w.at = c.q /\ \A r \in w.start : Chosen(r, Of(c.q))
             /\ \A r \in w.start \cap rows :
                  Lone(r) => r \in w.seen \/ (Later(r, c.q) /\ More(a.total, c.q))
  BY <1>2, <1>3, <1>4 DEF WalkKept
<1>6. CASE c.q.offset = 0
  <2>1. w = [start |-> a.of, seen |-> a.rows, at |-> c.q]
    BY <1>4, <1>6 DEF Follow
  <2>2. w.start = a.of /\ w.seen = a.rows /\ w.at = c.q
    BY <2>1
  <2>3. /\ \A r \in a.of : Chosen(r, Of(c.q))
        /\ \A r \in a.of \cap rows :
             Lone(r) => r \in a.rows \/ (Later(r, c.q) /\ More(a.total, c.q))
    BY <1>6 DEF AnswerKept
  <2> QED BY <2>2, <2>3
<1>7. CASE c.q.offset # 0
  <2>1. PICK v \in walk : /\ c.q = [v.at EXCEPT !.offset = @ + PAGE]
                          /\ w = [v EXCEPT !.seen = @ \cup a.rows, !.at = c.q]
    BY <1>4, <1>7 DEF Follow
  <2>2. v = [start |-> v.start, seen |-> v.seen, at |-> v.at] /\ v.at \in Question
    BY DEF Typed, DataTyped
  <2>3. w.start = v.start /\ w.seen = v.seen \cup a.rows /\ w.at = c.q
    BY <2>1, <2>2, WalkOn
  <2>4. Of(c.q) = Of(v.at)
    BY <2>1, <2>2 DEF Of, Question
  <2>5. \A r \in v.start : Chosen(r, Of(v.at))
    BY DEF WalkKept
  <2>6. \A r \in v.start \cap rows :
          Lone(r) => r \in v.seen \cup a.rows \/ (Later(r, c.q) /\ More(a.total, c.q))
    BY <2>1 DEF AnswerKept
  <2> QED BY <2>3, <2>4, <2>5, <2>6
<1> QED BY <1>6, <1>7

LEMMA NetworkKeepsWalk ==
  ASSUME Typed, PageAnswersQuestion, WalkKept, AnswerKept, Network
  PROVE  WalkKept' /\ AnswerKept'
<1>1. PICK c \in calls : Answer(c) \/ Deliver(c) \/ Lose(c)
  BY DEF Network
<1>2. CASE Answer(c)
  BY <1>2, AnswerKeepsWalk
<1>3. CASE Deliver(c) \/ Lose(c)
  <2>1. calls' = calls \ {c} /\ UNCHANGED <<rows, used>>
    BY <1>3 DEF Deliver, Lose
  <2>2. \A r, q : Lone(r)' = Lone(r) /\ Later(r, q)' = Later(r, q)
    BY <2>1 DEF Lone, Later
  <2>3. CASE UNCHANGED <<shown, walk>>
    BY <2>1, <2>2, <2>3 DEF WalkKept, AnswerKept
  <2>4. CASE walk' = {}
    BY <2>1, <2>2, <2>4 DEF WalkKept, AnswerKept
  <2>5. CASE c.active /\ \E a \in c.reply : Put(c, a)
    BY <2>1, <2>5, PutKeepsWalk
  <2> QED BY <1>3, <2>3, <2>4, <2>5 DEF Deliver, Lose
<1> QED BY <1>1, <1>2, <1>3

\* At the last page, what is still to come is nothing.
LEMMA LastPageSeesAll == Typed /\ PageAnswersQuestion /\ WalkKept => WalkSeesAll
<1> SUFFICES ASSUME Typed, PageAnswersQuestion, WalkKept,
                    ~loading, shown # {}, End >= Shown.total,
                    NEW w \in walk, NEW r \in w.start \cap rows, Lone(r)
             PROVE  r \in w.seen
  BY DEF WalkSeesAll, Lone
<1>1. Shown \in shown
  BY DEF Shown
<1>2. Shown.q = Asked
  BY <1>1 DEF PageAnswersQuestion
<1>3. r \in w.seen \/ More(Shown.total, Shown.q)
  BY <1>1 DEF WalkKept
<1>4. ~More(Shown.total, Shown.q)
  <2> DEFINE n == Shown.total
  <2>1. n \in 0 .. Cardinality(used) /\ Cardinality(used) \in Nat
    BY <1>1, FS_CardinalityType DEF Typed, StoreTyped, DataTyped, Fits
  <2>2. offset \in Nat /\ PAGE \in Nat
    BY ViewAssumption DEF Typed, PageTyped, ViewAssumption
  <2>3. Shown.q.offset = offset
    BY <1>2 DEF Asked
  <2>4. Least(offset + PAGE, n) >= n
    BY DEF End
  <2> HIDE DEF n
  <2>5. ~(n > offset + PAGE)
    BY <2>1, <2>2, <2>4 DEF Least
  <2> QED BY <2>3, <2>5 DEF More, n
<1> QED BY <1>3, <1>4

\* A reader who goes from the first page to the last misses no row that was there at
\* the start and still is, unless it shares its time with another.
THEOREM NothingIsSkipped == Spec => []WalkSeesAll
<1> DEFINE IInv == Typed /\ PageAnswersQuestion /\ WalkKept /\ AnswerKept
<1>1. Init => IInv
  <2> SUFFICES ASSUME Init PROVE WalkKept /\ AnswerKept
    BY InitTypes
  <2>1. walk = {} /\ \A c \in calls : c.reply = {}
    BY DEF Init, Call, Waiting
  <2> QED BY <2>1 DEF WalkKept, AnswerKept
<1>2. IInv /\ [Next]_vars => IInv'
  <2> SUFFICES ASSUME IInv, [Next]_vars PROVE WalkKept' /\ AnswerKept'
    BY NextTypes
  <2>1. CASE UNCHANGED vars
    <3>1. UNCHANGED <<rows, used, shown, calls, walk>>
      BY <2>1 DEF vars
    <3>2. \A r, q : Lone(r)' = Lone(r) /\ Later(r, q)' = Later(r, q)
      BY <3>1 DEF Lone, Later
    <3> QED BY <3>1, <3>2 DEF WalkKept, AnswerKept
  <2> QED BY <2>1, StoreKeepsWalk, OperatorKeepsWalk, NetworkKeepsWalk DEF Next
<1>3. IInv => WalkSeesAll
  BY LastPageSeesAll
<1> QED BY <1>1, <1>2, <1>3, PTL DEF Spec

-------------------------------------------------------------------------------
(* The numbers of an overview: counts of a finite set, split by a column.     *)

LEMMA LeastExists ==
    ASSUME NEW S \in SUBSET Nat, S # {}
    PROVE  \E n \in S : \A m \in S : n <= m
<1> DEFINE Less == {ss \in Nat \X Nat : ss[1] < ss[2]}
<1>1. IsWellFoundedOn(Less, Nat)
  BY NatLessThanWellFounded DEF OpToRel
<1>2. PICK n \in S : \A m \in S : ~ (<<m, n>> \in Less)
  <2> HIDE DEF Less
  <2> QED BY <1>1, WFMin
<1>3. \A m \in S : n <= m
  <2> TAKE m \in S
  <2>1. m \in Nat /\ n \in Nat
    OBVIOUS
  <2>2. <<m, n>> \notin Less
    BY <1>2
  <2> QED BY <2>1, <2>2
<1> QED BY <1>3

LEMMA OntoFinite ==
    ASSUME NEW S, NEW T, IsFiniteSet(S), NEW f \in [S -> T], \A t \in T : \E s \in S : f[s] = t
    PROVE  IsFiniteSet(T) /\ Cardinality(T) <= Cardinality(S)
<1>1. f \in Surjection(S, T)
  BY DEF Surjection
<1> QED BY <1>1, FS_Surjection

LEMMA PartCount ==
    ASSUME NEW S, IsFiniteSet(S), NEW A \in SUBSET S
    PROVE  IsFiniteSet(A) /\ Cardinality(A) \in Nat /\ Cardinality(A) <= Cardinality(S)
BY FS_Subset, FS_CardinalityType

\* Two parts that have nothing in common.
LEMMA SplitCount ==
    ASSUME NEW A, NEW B, IsFiniteSet(A), IsFiniteSet(B), A \cap B = {}
    PROVE  IsFiniteSet(A \cup B) /\ Cardinality(A \cup B) = Cardinality(A) + Cardinality(B)
<1>1. Cardinality(A \cap B) = 0
  BY FS_EmptySet
<1>2. /\ IsFiniteSet(A \cup B)
      /\ Cardinality(A \cup B) = Cardinality(A) + Cardinality(B) - Cardinality(A \cap B)
  BY FS_Union
<1>3. Cardinality(A) \in Nat /\ Cardinality(B) \in Nat
  BY FS_CardinalityType
<1> QED BY <1>1, <1>2, <1>3

\* The counts of the values of a column add up to the rows that have one of them:
\* on each part of the values, the sum solves the equation that defines it.
LEMMA SumCounts ==
    ASSUME NEW S, IsFiniteSet(S), NEW K, IsFiniteSet(K), NEW column,
           NEW counts, DOMAIN counts = K,
           \A k \in K : counts[k] = Cardinality({s \in S : column[s] = k})
    PROVE  Total(counts) = Cardinality({s \in S : column[s] \in K})
<1> DEFINE With(A) == Cardinality({s \in S : column[s] \in A})
           Pick(A) == CHOOSE x \in A : TRUE
           Solves(g) == g = [A \in SUBSET K |-> IF A = {} THEN 0
                                                 ELSE counts[Pick(A)] + g[A \ {Pick(A)}]]
           sums == CHOOSE g : Solves(g)
           g == [A \in SUBSET K |-> With(A)]
<1>1. Total(counts) = sums[K]
  BY DEF Total, MapThenSumSet, MapThenFoldSet
<1>2. With({}) = 0
  <2>1. {s \in S : column[s] \in {}} = {}
    OBVIOUS
  <2> QED BY <2>1, FS_EmptySet
<1>3. ASSUME NEW A \in SUBSET K, A # {}
      PROVE  /\ Pick(A) \in A /\ A \ {Pick(A)} \in SUBSET K
             /\ With(A) = counts[Pick(A)] + With(A \ {Pick(A)})
  <2>1. Pick(A) \in A
    BY <1>3
  <2> HIDE DEF Pick
  <2> DEFINE of == {s \in S : column[s] = Pick(A)}
             others == {s \in S : column[s] \in A \ {Pick(A)}}
  <2>2. {s \in S : column[s] \in A} = of \cup others /\ of \cap others = {}
    BY <2>1
  <2>3. IsFiniteSet(of) /\ IsFiniteSet(others)
    <3>1. of \in SUBSET S /\ others \in SUBSET S
      OBVIOUS
    <3> HIDE DEF of, others
    <3> QED BY <3>1, PartCount
  <2>4. Cardinality(of \cup others) = Cardinality(of) + Cardinality(others)
    <3> HIDE DEF of, others
    <3> QED BY <2>2, <2>3, SplitCount
  <2>5. counts[Pick(A)] = Cardinality(of)
    BY <2>1
  <2> QED BY <2>1, <2>2, <2>4, <2>5
<1>4. Solves(g)
  <2> HIDE DEF With, Pick
  <2>1. ASSUME NEW A \in SUBSET K
        PROVE  g[A] = IF A = {} THEN 0 ELSE counts[Pick(A)] + g[A \ {Pick(A)}]
    BY <1>2, <1>3
  <2>2. g = [A \in SUBSET K |-> g[A]]
    OBVIOUS
  <2> HIDE DEF g
  <2> QED BY <2>1, <2>2
<1>5. Solves(sums)
  <2> HIDE DEF Solves, g
  <2> QED BY <1>4
<1>6. \A A \in SUBSET K : sums[A] = IF A = {} THEN 0 ELSE counts[Pick(A)] + sums[A \ {Pick(A)}]
  <2> HIDE DEF sums, Pick
  <2> QED BY <1>5
<1> HIDE DEF sums, Solves, g, With, Pick
<1>7. ASSUME NEW A \in SUBSET K, sums[A] # With(A)
      PROVE  FALSE
  <2> DEFINE Wrong == {B \in SUBSET K : sums[B] # With(B)}
             Sizes == {Cardinality(B) : B \in Wrong}
  <2>1. \A B \in SUBSET K : IsFiniteSet(B) /\ Cardinality(B) \in Nat
    BY PartCount
  <2>2. PICK n \in Sizes : \A m \in Sizes : n <= m
    <3>1. Sizes \in SUBSET Nat /\ Sizes # {}
      BY <1>7, <2>1
    <3> HIDE DEF Sizes
    <3> QED BY <3>1, LeastExists
  <2>3. PICK B \in Wrong : \A C \in Wrong : Cardinality(B) <= Cardinality(C)
    BY <2>2
  <2>4. B # {}
    BY <1>2, <1>6, <2>3
  <2>5. /\ Pick(B) \in B /\ B \ {Pick(B)} \in SUBSET K
        /\ With(B) = counts[Pick(B)] + With(B \ {Pick(B)})
    BY <1>3, <2>3, <2>4
  <2>6. Cardinality(B \ {Pick(B)}) = Cardinality(B) - 1
    BY <2>1, <2>3, <2>5, FS_RemoveElement
  <2>7. B \ {Pick(B)} \notin Wrong
    <3>1. Cardinality(B) \in Nat
      BY <2>1, <2>3
    <3> QED BY <2>3, <2>6, <3>1
  <2>8. sums[B \ {Pick(B)}] = With(B \ {Pick(B)})
    BY <2>5, <2>7
  <2> QED BY <1>6, <2>3, <2>4, <2>5, <2>8
<1>8. sums[K] = With(K)
  BY <1>7
<1> QED BY <1>1, <1>8 DEF With



LEMMA TotalOfAll ==
    ASSUME NEW S, IsFiniteSet(S), NEW K, IsFiniteSet(K), NEW column, NEW counts, DOMAIN counts = K,
           \A k \in K : counts[k] = Cardinality({s \in S : column[s] = k}),
           \A s \in S : column[s] \in K
    PROVE  Total(counts) = Cardinality(S)
<1>1. {s \in S : column[s] \in K} = S
  OBVIOUS
<1> QED BY <1>1, SumCounts

\* Everything from 400 up is an error.
LEMMA ErrorsMean ==
    ASSUME NEW S, IsFiniteSet(S), \A r \in S : r.status \in Nat
    PROVE  Summary(S).errors = Cardinality({r \in S : r.status >= 400})
<1> DEFINE client == {r \in S : InClass(r, 4)}
           server == {r \in S : r.status >= 500}
<1>1. client \cup server = {r \in S : r.status >= 400} /\ client \cap server = {}
  BY DEF InClass
<1>2. client \in SUBSET S /\ server \in SUBSET S
  OBVIOUS
<1>3. Summary(S).errors = Cardinality(client) + Cardinality(server)
  BY DEF Summary
<1> HIDE DEF client, server
<1>4. Cardinality(client \cup server) = Cardinality(client) + Cardinality(server)
  BY <1>1, <1>2, PartCount, SplitCount
<1> QED BY <1>1, <1>3, <1>4

LEMMA ColumnFinite ==
    ASSUME NEW S, IsFiniteSet(S), NEW column
    PROVE  IsFiniteSet({column[s] : s \in S})
<1> DEFINE T == {column[s] : s \in S}
           f == [s \in S |-> column[s]]
<1>1. f \in [S -> T] /\ \A t \in T : \E s \in S : f[s] = t
  OBVIOUS
<1> HIDE DEF T, f
<1>2. IsFiniteSet(T)
  BY <1>1, OntoFinite
<1> QED BY <1>2 DEF T

\* What a bundle is made of.
LEMMA OverviewParts ==
    ASSUME NEW store, NEW f, NEW sel, sel = Where(store, f), NEW o \in Overview(store, f)
    PROVE  /\ o.summary = Summary(sel) /\ o.timeseries = Timeseries(sel, PickBucket(f.from, f.to))
           /\ o.statuses = StatusBreakdown(sel) /\ o.perHost = PerHost(sel)
           /\ o.topClients \in TopBy(sel, "client", TopLimit)
           /\ o.topReferers \in TopBy(sel, "referer", TopLimit)
           /\ o.geo \in Geo(sel, GeoLimit)
<1>1. PICK clients \in TopBy(sel, "client", TopLimit), referers \in TopBy(sel, "referer", TopLimit),
           geo \in Geo(sel, GeoLimit) :
        o = [summary |-> Summary(sel), timeseries |-> Timeseries(sel, PickBucket(f.from, f.to)),
             statuses |-> StatusBreakdown(sel), perHost |-> PerHost(sel),
             topClients |-> clients, topReferers |-> referers, geo |-> geo]
  BY DEF Overview
<1> QED BY <1>1

\* A cut within its limit is no cut.
LEMMA CutKeys ==
    ASSUME NEW counts, IsFiniteSet(DOMAIN counts), NEW limit \in Nat, NEW K \in Cut(counts, limit)
    PROVE  /\ K \subseteq DOMAIN counts /\ IsFiniteSet(K) /\ Cardinality(K) <= limit
           /\ Cardinality(K) < limit => K = DOMAIN counts
<1> DEFINE keys == DOMAIN counts
<1>1. /\ K \in SUBSET keys
      /\ Cardinality(K) = IF Cardinality(keys) < limit THEN Cardinality(keys) ELSE limit
  BY DEF Cut
<1> HIDE DEF keys
<1>2. IsFiniteSet(K) /\ Cardinality(keys) \in Nat /\ (Cardinality(keys) = Cardinality(K) => keys = K)
  BY <1>1, FS_Subset, FS_CardinalityType DEF keys
<1> QED BY <1>1, <1>2 DEF keys

\* A list that is cut from the counts of a column counts no row twice, and all that
\* have one of its values unless it is as long as may be.
LEMMA ListCounts ==
    ASSUME NEW S, IsFiniteSet(S), NEW column, NEW keys, IsFiniteSet(keys), NEW limit \in Nat,
           NEW counts, DOMAIN counts = keys,
           \A k \in keys : counts[k] = Cardinality({s \in S : column[s] = k}),
           NEW K \in Cut(counts, limit), NEW list, DOMAIN list = K, \A k \in K : list[k] = counts[k],
           NEW countable, countable = {s \in S : column[s] \in keys}
    PROVE  ListAdds(list, limit, Cardinality(countable))
<1> DEFINE listed == {s \in S : column[s] \in K}
<1>1. /\ K \subseteq keys /\ IsFiniteSet(K) /\ Cardinality(K) <= limit
      /\ Cardinality(K) < limit => K = keys
  BY CutKeys
<1>2. Total(list) = Cardinality(listed)
  <2>1. \A k \in K : list[k] = Cardinality({s \in S : column[s] = k})
    BY <1>1
  <2> QED BY <1>1, <2>1, SumCounts
<1>3. listed \subseteq countable /\ (K = keys => listed = countable)
  BY <1>1
<1>4. IsFiniteSet(countable)
  <2>1. countable \in SUBSET S
    OBVIOUS
  <2> QED BY <2>1, PartCount
<1> HIDE DEF listed
<1>5. Cardinality(listed) <= Cardinality(countable)
  BY <1>3, <1>4, PartCount
<1> QED BY <1>1, <1>2, <1>3, <1>5 DEF ListAdds

Having(sel, name, k) == Cardinality({r \in sel : r[name] = k})

\* The order a list is cut by.
Ordered(list, sel, name) ==
  /\ \A k \in DOMAIN list : list[k] = Having(sel, name, k) /\ \E r \in sel : r[name] = k
  /\ \A r \in sel : \/ r[name] \in DOMAIN list \cup {Null, Empty}
                    \/ \A k \in DOMAIN list : list[k] >= Having(sel, name, r[name])

LEMMA ValuesFinite ==
    ASSUME NEW sel, IsFiniteSet(sel), NEW column, NEW keys, \A k \in keys : \E r \in sel : column[r] = k
    PROVE  IsFiniteSet(keys)
<1> DEFINE every == {column[r] : r \in sel}
<1>1. IsFiniteSet(every)
  BY ColumnFinite
<1>2. keys \in SUBSET every
  OBVIOUS
<1> HIDE DEF every
<1> QED BY <1>1, <1>2, PartCount

\* A list by topBy.
LEMMA TopCounts ==
    ASSUME NEW sel, IsFiniteSet(sel), NEW name, NEW limit \in Nat, NEW list \in TopBy(sel, name, limit)
    PROVE  /\ ListAdds(list, limit, Cardinality({r \in sel : r[name] \notin {Null, Empty}}))
           /\ Ordered(list, sel, name)
<1> DEFINE column == [r \in sel |-> r[name]]
           keys == {r[name] : r \in sel} \ {Null, Empty}
           counts == Counts(sel, keys, name)
           countable == {r \in sel : r[name] \notin {Null, Empty}}
<1>1. PICK K \in Cut(counts, limit) : list = Restrict(counts, K)
  BY DEF TopBy
<1>2. DOMAIN counts = keys /\ \A k \in keys : counts[k] = Having(sel, name, k)
  BY DEF Counts, Having
<1>3. \A k : Having(sel, name, k) = Cardinality({r \in sel : column[r] = k})
  <2>1. \A k : {r \in sel : r[name] = k} = {r \in sel : column[r] = k}
    OBVIOUS
  <2> HIDE DEF column
  <2> QED BY <2>1 DEF Having
<1>4. countable = {r \in sel : column[r] \in keys}
  OBVIOUS
<1>5. (\A k \in keys : \E r \in sel : column[r] = k /\ r[name] = k) /\ \A r \in sel : column[r] = r[name]
  OBVIOUS
<1>6. \A r \in sel : r[name] \in keys \cup {Null, Empty}
  OBVIOUS
<1> HIDE DEF column, keys, counts, countable
<1>7. K \subseteq keys /\ \A k \in K, other \in keys \ K : counts[k] >= counts[other]
  BY <1>2 DEF Cut
<1>8. DOMAIN list = K /\ \A k \in K : list[k] = counts[k]
  BY <1>1 DEF Restrict
<1>9. ListAdds(list, limit, Cardinality(countable))
  <2>1. IsFiniteSet(keys)
    BY <1>5, ValuesFinite
  <2>2. \A k \in keys : counts[k] = Cardinality({r \in sel : column[r] = k})
    BY <1>2, <1>3
  <2> QED BY <1>2, <1>4, <1>8, <2>1, <2>2, ListCounts
<1>10. \A k \in DOMAIN list : list[k] = Having(sel, name, k) /\ \E r \in sel : r[name] = k
  BY <1>2, <1>5, <1>7, <1>8
<1>11. ASSUME NEW r \in sel, r[name] \notin DOMAIN list \cup {Null, Empty}
       PROVE  \A k \in DOMAIN list : list[k] >= Having(sel, name, r[name])
  <2>1. r[name] \in keys \ K
    BY <1>6, <1>8, <1>11
  <2> QED BY <1>2, <1>7, <1>8, <2>1
<1> QED BY <1>9, <1>10, <1>11 DEF countable, Ordered

\* The countries.
LEMMA GeoCounts ==
    ASSUME NEW sel, IsFiniteSet(sel), NEW limit \in Nat, NEW geo \in Geo(sel, limit)
    PROVE  ListAdds(Column(geo, "count"), limit, Cardinality({r \in sel : r.country # Null}))
<1> DEFINE column == [r \in sel |-> r.country]
           keys == {r.country : r \in sel} \ {Null}
           counts == Counts(sel, keys, "country")
           visitors(c) == Cardinality({r.client : r \in {r \in sel : r.country = c}})
           list == Column(geo, "count")
           countable == {r \in sel : r.country # Null}
<1>1. PICK K \in Cut(counts, limit) : geo = [c \in K |-> [count |-> counts[c], visitors |-> visitors(c)]]
  BY DEF Geo
<1>2. DOMAIN counts = keys /\ \A k \in keys : counts[k] = Having(sel, "country", k)
  BY DEF Counts, Having
<1>3. \A k : Having(sel, "country", k) = Cardinality({r \in sel : column[r] = k})
  <2>1. \A k : {r \in sel : r["country"] = k} = {r \in sel : column[r] = k}
    OBVIOUS
  <2> HIDE DEF column
  <2> QED BY <2>1 DEF Having
<1>4. countable = {r \in sel : column[r] \in keys}
  OBVIOUS
<1>5. \A k \in keys : \E r \in sel : column[r] = k
  OBVIOUS
<1> HIDE DEF column, keys, counts, countable, visitors
<1>6. DOMAIN list = K /\ \A k \in K : list[k] = counts[k]
  BY <1>1 DEF Column
<1> HIDE DEF list
<1>7. IsFiniteSet(keys)
  BY <1>5, ValuesFinite
<1>8. \A k \in keys : counts[k] = Cardinality({r \in sel : column[r] = k})
  BY <1>2, <1>3
<1>9. ListAdds(list, limit, Cardinality(countable))
  BY <1>2, <1>4, <1>6, <1>7, <1>8, ListCounts
<1> QED BY <1>9 DEF list, countable

LEMMA OverviewAdds ==
    ASSUME QueryAssumption, NEW store, NEW f, NEW sel, sel = Where(store, f), IsFiniteSet(sel),
           \A r \in sel : r.status \in Nat /\ r.client \notin {Null, Empty},
           NEW o \in Overview(store, f)
    PROVE  CountsAddUp(o, sel)
<1> DEFINE size == PickBucket(f.from, f.to)
           errors == {r \in sel : r.status >= 400}
<1>1. IsFiniteSet(errors)
  <2>1. errors \in SUBSET sel
    OBVIOUS
  <2> HIDE DEF errors
  <2> QED BY <2>1, PartCount
<1>0. /\ o.summary = Summary(sel) /\ o.timeseries = Timeseries(sel, size)
      /\ o.statuses = StatusBreakdown(sel) /\ o.perHost = PerHost(sel)
      /\ o.topClients \in TopBy(sel, "client", TopLimit)
      /\ o.topReferers \in TopBy(sel, "referer", TopLimit)
      /\ o.geo \in Geo(sel, GeoLimit)
  BY OverviewParts
<1>2. o.summary.requests = Cardinality(sel)
  BY <1>0 DEF Summary
<1>4. \A r \in sel : r.status \in Nat /\ r.client \notin {Null, Empty}
  OBVIOUS
<1>3. o.summary.errors = Cardinality(errors)
  BY <1>0, <1>4, ErrorsMean
<1>5. /\ Total(Column(o.timeseries, "requests")) = Cardinality(sel)
      /\ Total(Column(o.timeseries, "errors")) = Cardinality(errors)
  <2> DEFINE column == [r \in sel |-> Bucket(r, size)]
             K == {column[r] : r \in sel}
             requests == Column(o.timeseries, "requests")
             failures == Column(o.timeseries, "errors")
             at(k) == {r \in sel : Bucket(r, size) = k}
  <2>1. o.timeseries = [k \in K |-> Summary(at(k))]
    BY <1>0 DEF Timeseries
  <2>2. IsFiniteSet(K) /\ \A r \in sel : column[r] \in K
    <3>1. \A r \in sel : column[r] \in K
      OBVIOUS
    <3> HIDE DEF column
    <3> QED BY <3>1, ColumnFinite
  <2>3. \A k \in K : at(k) = {r \in sel : column[r] = k}
    OBVIOUS
  <2>4. ASSUME NEW k \in K
        PROVE  Summary(at(k)).errors = Cardinality({r \in errors : column[r] = k})
    <3>1. at(k) \in SUBSET sel
      OBVIOUS
    <3>2. IsFiniteSet(at(k)) /\ \A r \in at(k) : r.status \in Nat
      <4> HIDE DEF at
      <4> QED BY <1>4, <3>1, PartCount
    <3>3. Summary(at(k)).errors = Cardinality({r \in at(k) : r.status >= 400})
      <4> HIDE DEF at
      <4> QED BY <3>2, ErrorsMean
    <3>4. {r \in at(k) : r.status >= 400} = {r \in errors : column[r] = k}
      OBVIOUS
    <3> QED BY <3>3, <3>4
  <2>5. DOMAIN requests = K /\ \A k \in K : requests[k] = Cardinality({r \in sel : column[r] = k})
    <3>1. \A k \in K : Summary(at(k)).requests = Cardinality({r \in sel : column[r] = k})
      <4> HIDE DEF at, column, K
      <4> QED BY <2>3 DEF Summary
    <3> HIDE DEF K, at, column
    <3> QED BY <2>1, <3>1 DEF Column
  <2>6. DOMAIN failures = K /\ \A k \in K : failures[k] = Cardinality({r \in errors : column[r] = k})
    <3> HIDE DEF K, at, errors, column
    <3> QED BY <2>1, <2>4 DEF Column
  <2>7. \A r \in errors : column[r] \in K
    OBVIOUS
  <2> HIDE DEF K, column, errors, requests, failures
  <2>8. Total(requests) = Cardinality(sel)
    BY <2>2, <2>5, TotalOfAll
  <2>9. Total(failures) = Cardinality(errors)
    BY <1>1, <2>2, <2>6, <2>7, TotalOfAll
  <2> QED BY <2>8, <2>9 DEF requests, failures
<1>6. /\ Total(Column(o.perHost, "requests")) = Cardinality(sel)
      /\ Total(Column(o.perHost, "errors")) = Cardinality(errors)
  <2> DEFINE column == [r \in sel |-> r.host]
             K == {column[r] : r \in sel}
             requests == Column(o.perHost, "requests")
             failures == Column(o.perHost, "errors")
  <2>1. /\ DOMAIN o.perHost = K
        /\ \A k \in K : /\ o.perHost[k].requests = Cardinality({r \in sel : r.host = k})
                        /\ o.perHost[k].errors
                             = Cardinality({r \in {r \in sel : r.host = k} : r.status >= 400})
    BY <1>0 DEF PerHost
  <2>2. IsFiniteSet(K) /\ \A r \in sel : column[r] \in K
    <3>1. \A r \in sel : column[r] \in K
      OBVIOUS
    <3> HIDE DEF column
    <3> QED BY <3>1, ColumnFinite
  <2>3. DOMAIN requests = K /\ \A k \in K : requests[k] = Cardinality({r \in sel : column[r] = k})
    <3>1. ASSUME NEW k \in K
          PROVE  o.perHost[k].requests = Cardinality({r \in sel : column[r] = k})
      <4>1. {r \in sel : r.host = k} = {r \in sel : column[r] = k}
        OBVIOUS
      <4> HIDE DEF K, column
      <4> QED BY <2>1, <4>1
    <3> HIDE DEF K, column, errors
    <3> QED BY <2>1, <3>1 DEF Column
  <2>4. DOMAIN failures = K /\ \A k \in K : failures[k] = Cardinality({r \in errors : column[r] = k})
    <3>1. ASSUME NEW k \in K
          PROVE  o.perHost[k].errors = Cardinality({r \in errors : column[r] = k})
      <4>1. {r \in {r \in sel : r.host = k} : r.status >= 400} = {r \in errors : column[r] = k}
        OBVIOUS
      <4> HIDE DEF K, column, errors
      <4> QED BY <2>1, <4>1
    <3> HIDE DEF K, column, errors
    <3> QED BY <2>1, <3>1 DEF Column
  <2>5. \A r \in errors : column[r] \in K
    OBVIOUS
  <2> HIDE DEF K, column, errors, requests, failures
  <2>6. Total(requests) = Cardinality(sel)
    BY <2>2, <2>3, TotalOfAll
  <2>7. Total(failures) = Cardinality(errors)
    BY <1>1, <2>2, <2>4, <2>5, TotalOfAll
  <2> QED BY <2>6, <2>7 DEF requests, failures
<1>7. Total(o.statuses) = Cardinality(sel)
  <2> DEFINE column == [r \in sel |-> r.status]
             K == {column[r] : r \in sel}
             counts == o.statuses
  <2>1. DOMAIN counts = K /\ \A k \in K : counts[k] = Cardinality({r \in sel : column[r] = k})
    <3>1. \A k : {r \in sel : r.status = k} = {r \in sel : column[r] = k}
      OBVIOUS
    <3>2. DOMAIN counts = K /\ \A k \in K : counts[k] = Cardinality({r \in sel : r.status = k})
      BY <1>0 DEF StatusBreakdown
    <3> HIDE DEF K, counts, column
    <3> QED BY <3>1, <3>2
  <2>2. IsFiniteSet(K) /\ \A r \in sel : column[r] \in K
    <3>1. \A r \in sel : column[r] \in K
      OBVIOUS
    <3> HIDE DEF column
    <3> QED BY <3>1, ColumnFinite
  <2> HIDE DEF K, column, counts
  <2>3. Total(counts) = Cardinality(sel)
    BY <2>1, <2>2, TotalOfAll
  <2> QED BY <2>3 DEF counts
<1>8. TopLimit \in Nat /\ GeoLimit \in Nat
  BY DEF QueryAssumption
<1>9. ListAdds(o.topClients, TopLimit, Cardinality(sel))
  <2>1. ListAdds(o.topClients, TopLimit, Cardinality({r \in sel : r["client"] \notin {Null, Empty}}))
    BY <1>0, <1>8, TopCounts
  <2>2. {r \in sel : r["client"] \notin {Null, Empty}} = sel
    BY <1>4
  <2> QED BY <2>1, <2>2
<1>10. ListAdds(o.topReferers, TopLimit, Cardinality({r \in sel : r.referer \notin {Null, Empty}}))
  BY <1>0, <1>8, TopCounts
<1>11. ListAdds(Column(o.geo, "count"), GeoLimit, Cardinality({r \in sel : r.country # Null}))
  BY <1>0, <1>8, GeoCounts
<1> HIDE DEF errors
<1> QED BY <1>2, <1>3, <1>5, <1>6, <1>7, <1>9, <1>10, <1>11 DEF CountsAddUp


LEMMA SelectedRows ==
    ASSUME NEW store, IsFiniteSet(store), NEW f
    PROVE  Where(store, f) \in SUBSET store /\ IsFiniteSet(Where(store, f))
<1>1. Where(store, f) \in SUBSET store
  BY DEF Where
<1> QED BY <1>1, PartCount

IsFilter(f) ==
    /\ f = [from |-> f.from, to |-> f.to, host |-> f.host, class |-> f.class, client |-> f.client]
    /\ f.from \in Nat /\ f.to \in Nat

LEMMA ParsedFilter ==
    ASSUME QueryAssumption, ViewAssumption, NEW q, q.from \in Nat, q.to \in Nat
    PROVE  IsFilter(ParseFilter(q, Now))
<1> DEFINE f == ParseFilter(q, Now)
<1>1. Now \in Nat /\ DefaultRange \in Nat
  BY DEF QueryAssumption, ViewAssumption
<1>2. f.from \in Nat /\ f.to \in Nat
  BY <1>1 DEF ParseFilter
<1>3. f = [from |-> f.from, to |-> f.to, host |-> f.host, class |-> f.class, client |-> f.client]
  <2>1. PICK a, b, c, d, e : f = [from |-> a, to |-> b, host |-> c, class |-> d, client |-> e]
    BY DEF ParseFilter
  <2> HIDE DEF f
  <2> QED BY <2>1
<1> QED BY <1>2, <1>3 DEF IsFilter

\* A filter narrowed to a client or a host selects the rows of that one.
LEMMA Narrowed ==
    ASSUME NEW f, IsFilter(f), NEW sel, sel = Where(rows, f)
    PROVE  /\ \A c : c # All /\ f.client = All =>
                 Selected([f EXCEPT !.client = c]) = Having(sel, "client", c)
           /\ \A h : h # All /\ f.host \in {All, h} =>
                 Selected([f EXCEPT !.host = h]) = Having(sel, "host", h)
<1>1. ASSUME NEW c, c # All, f.client = All
      PROVE  Selected([f EXCEPT !.client = c]) = Having(sel, "client", c)
  <2> DEFINE g == [f EXCEPT !.client = c]
  <2>1. g = [from |-> f.from, to |-> f.to, host |-> f.host, class |-> f.class, client |-> c]
    BY DEF IsFilter
  <2> HIDE DEF g
  <2>2. Where(rows, g) = {r \in sel : r.client = c}
    BY <1>1, <2>1 DEF Where
  <2> QED BY <2>2 DEF Selected, Having, g
<1>2. ASSUME NEW h, h # All, f.host \in {All, h}
      PROVE  Selected([f EXCEPT !.host = h]) = Having(sel, "host", h)
  <2> DEFINE g == [f EXCEPT !.host = h]
  <2>1. g = [from |-> f.from, to |-> f.to, host |-> h, class |-> f.class, client |-> f.client]
    BY DEF IsFilter
  <2> HIDE DEF g
  <2>2. Where(rows, g) = {r \in sel : r.host = h}
    BY <1>2, <2>1 DEF Where
  <2> QED BY <2>2 DEF Selected, Having, g
<1> QED BY <1>1, <1>2

\* The lists of an overview lead on to lists of the same length.
LEMMA OverviewDrillsDown ==
    ASSUME QueryAssumption, NEW f, IsFilter(f), f.client = All,
           NEW sel, sel = Where(rows, f), IsFiniteSet(sel),
           \A r \in rows : r.host # All /\ r.client \notin {Null, Empty, All},
           NEW o \in Overview(rows, f)
    PROVE  DrillsDown(o, f, sel)
<1> DEFINE top == o.topClients
<1>1. top \in TopBy(sel, "client", TopLimit) /\ o.perHost = PerHost(sel)
  BY OverviewParts
<1>2. \A r \in sel : r.client \notin {Null, Empty, All} /\ r.host # All /\ f.host \in {All, r.host}
  BY DEF Where
<1>3. \A c : c # All => Selected([f EXCEPT !.client = c]) = Having(sel, "client", c)
  BY Narrowed
<1> HIDE DEF top
<1>4. /\ \A c \in DOMAIN top : top[c] = Having(sel, "client", c) /\ \E r \in sel : r.client = c
      /\ \A r \in sel : \/ r.client \in DOMAIN top \cup {Null, Empty}
                        \/ \A c \in DOMAIN top : top[c] >= Having(sel, "client", r.client)
  <2>1. TopLimit \in Nat
    BY DEF QueryAssumption
  <2>2. Ordered(top, sel, "client")
    BY <1>1, <2>1, TopCounts
  <2> QED BY <2>2 DEF Ordered
<1>5. \A c \in DOMAIN top : top[c] = Selected([f EXCEPT !.client = c])
  BY <1>2, <1>3, <1>4
<1>6. ASSUME NEW r \in sel, r.client \notin DOMAIN top
      PROVE  \A c \in DOMAIN top : top[c] >= Selected([f EXCEPT !.client = r.client])
  BY <1>2, <1>3, <1>4, <1>6
<1>7. \A h \in DOMAIN o.perHost : o.perHost[h].requests = Selected([f EXCEPT !.host = h])
  <2> TAKE h \in DOMAIN o.perHost
  <2>1. o.perHost[h].requests = Having(sel, "host", h) /\ \E r \in sel : r.host = h
    BY <1>1 DEF PerHost, Having
  <2>2. Selected([f EXCEPT !.host = h]) = Having(sel, "host", h)
    BY <1>2, <2>1, Narrowed
  <2> QED BY <2>1, <2>2
<1> QED BY <1>5, <1>6, <1>7 DEF DrillsDown, top

\* Of a span that is cut into steps, as many steps as cover it, and one more, hold
\* every point.
LEMMA StepsCover ==
    ASSUME NEW size \in Nat \ {0}, NEW n \in Nat, NEW from \in Nat, NEW ts \in Nat,
           from <= ts, ts < from + size * n
    PROVE  ts \div size \in (from \div size) .. (from \div size) + n
<1> DEFINE a == from \div size
           q == ts \div size
<1>1. a \in Nat /\ q \in Nat
  OBVIOUS
<1>2. a * size <= from /\ from < a * size + size
  OBVIOUS
<1>3. q * size <= ts /\ ts < q * size + size
  OBVIOUS
<1> HIDE DEF a, q
<1>4. a <= q
  <2> SUFFICES ASSUME q + 1 <= a PROVE FALSE
    BY <1>1
  <2>1. (q + 1) * size <= a * size
    BY <1>1
  <2>2. (q + 1) * size = q * size + size
    BY <1>1
  <2>3. q * size \in Nat /\ a * size \in Nat
    BY <1>1
  <2> QED BY <1>2, <1>3, <2>1, <2>2, <2>3
<1>5. q <= a + n
  <2> SUFFICES ASSUME (a + n) + 1 <= q PROVE FALSE
    BY <1>1
  <2>1. ((a + n) + 1) * size <= q * size
    BY <1>1
  <2>2. ((a + n) + 1) * size = a * size + size * n + size
    BY <1>1
  <2>3. q * size \in Nat /\ a * size \in Nat /\ size * n \in Nat
    BY <1>1
  <2> QED BY <1>2, <1>3, <2>1, <2>2, <2>3
<1> QED BY <1>1, <1>4, <1>5 DEF a, q

LEMMA QuotientType == ASSUME NEW x \in Nat, NEW y \in Nat \ {0} PROVE x \div y \in Nat
OBVIOUS

LEMMA ChartOfPoints ==
    ASSUME QueryAssumption, NEW store, IsFiniteSet(store), \A r \in store : r.ts \in Nat,
           NEW f, f.from \in Nat, f.to \in Nat, NEW o \in Overview(store, f)
    PROVE  ChartFits(o, f)
<1> DEFINE sel == Where(store, f)
           size == PickBucket(f.from, f.to)
           buckets == {Bucket(r, size) : r \in sel}
           span == IF f.to > f.from THEN f.to - f.from ELSE 1
           fits == {i \in DOMAIN Steps : Steps[i] * Points >= span}
<1>1. DOMAIN o.timeseries = buckets
  <2>1. o.timeseries = Timeseries(sel, size)
    BY OverviewParts
  <2> QED BY <2>1 DEF Timeseries
<1>2. Steps \in Seq(Nat \ {0}) /\ Steps # <<>> /\ Points \in Nat \ {0}
  BY DEF QueryAssumption
<1>3. size = IF fits = {} THEN Last(Steps) ELSE Steps[Min(fits)]
  BY DEF PickBucket
<1>4. Len(Steps) \in DOMAIN Steps /\ Last(Steps) = Steps[Len(Steps)] /\ Last(Steps) \in Nat \ {0}
  <2>1. Len(Steps) \in Nat /\ DOMAIN Steps = 1 .. Len(Steps) /\ Len(Steps) # 0
    BY <1>2
  <2>2. Len(Steps) \in DOMAIN Steps
    BY <2>1
  <2>3. Last(Steps) = Steps[Len(Steps)]
    BY DEF Last
  <2> QED BY <1>2, <2>2, <2>3
<1>5. CASE fits = {}
  <2>1. ~ (Last(Steps) * Points >= span)
    BY <1>4, <1>5
  <2>2. Last(Steps) * Points \in Nat /\ Last(Steps) * Points >= 1 /\ span \in Nat
    BY <1>2, <1>4
  <2>3. Last(Steps) * Points = Points * Last(Steps)
    BY <1>2, <1>4
  <2>4. f.to - f.from > Points * Last(Steps)
    BY <2>1, <2>2, <2>3
  <2> QED BY <2>4 DEF ChartFits
<1>6. CASE fits # {}
  <2>1. size \in Nat \ {0} /\ size * Points >= span
    <3>1. PICK i \in fits : \A j \in fits : i <= j
      <4>1. fits \in SUBSET Nat
        BY <1>2
      <4> HIDE DEF fits
      <4> QED BY <1>6, <4>1, LeastExists
    <3>2. Min(fits) \in fits
      <4> HIDE DEF fits
      <4> QED BY <3>1 DEF Min
    <3>3. size = Steps[Min(fits)]
      BY <1>3, <1>6
    <3> HIDE DEF size
    <3>4. size * Points >= span /\ Min(fits) \in DOMAIN Steps
      BY <3>2, <3>3
    <3>5. size \in Nat \ {0}
      BY <1>2, <3>3, <3>4
    <3> QED BY <3>4, <3>5
  <2> DEFINE a == f.from \div size
             places == a .. a + Points
             at == [j \in places |-> j * size]
             all == {at[j] : j \in places}
  <2> HIDE DEF size
  <2>2. a \in Nat
    BY <2>1, QuotientType
  <2>3. buckets \subseteq all
    <3>1. ASSUME NEW r \in sel PROVE Bucket(r, size) \in all
      <4>1. r.ts \in Nat /\ f.from <= r.ts /\ r.ts < f.to
        BY DEF Where
      <4>2. f.to - f.from <= size * Points
        BY <2>1, <4>1
      <4>3. r.ts < f.from + size * Points
        <5>1. size * Points \in Nat
          BY <1>2, <2>1
        <5> QED BY <4>1, <4>2, <5>1
      <4>4. r.ts \div size \in places
        BY <1>2, <2>1, <4>1, <4>3, StepsCover
      <4>5. Bucket(r, size) = at[r.ts \div size]
        BY <4>4 DEF Bucket
      <4> QED BY <4>4, <4>5
    <3> QED BY <3>1
  <2>4. IsFiniteSet(places) /\ Cardinality(places) = Points + 1
    <3>1. a \in Int /\ a + Points \in Int /\ ~ (a > a + Points) /\ (a + Points) - a + 1 = Points + 1
      BY <1>2, <2>2
    <3> HIDE DEF a
    <3> QED BY <3>1, FS_Interval
  <2>5. IsFiniteSet(all) /\ Cardinality(all) <= Points + 1
    <3>1. at \in [places -> all] /\ \A t \in all : \E j \in places : at[j] = t
      OBVIOUS
    <3> HIDE DEF at, all, places
    <3> QED BY <2>4, <3>1, OntoFinite
  <2>6. Cardinality(buckets) <= Points + 1
    <3> HIDE DEF buckets, all
    <3>1. Cardinality(buckets) \in Nat /\ Cardinality(buckets) <= Cardinality(all) /\ Cardinality(all) \in Nat
      BY <2>3, <2>5, PartCount
    <3> QED BY <1>2, <2>5, <3>1
  <2> QED BY <1>1, <2>6 DEF ChartFits
<1> QED BY <1>5, <1>6


\* A page, time by time from the newest: after the rows down to a time, it has what
\* the window has of that many.
LEMMA PageSize ==
    ASSUME NEW S, IsFiniteSet(S), NEW N \in Nat, \A x \in S : x.ts \in 0 .. N,
           NEW limit \in Nat, NEW o \in Nat, NEW p \in PagesOf(S, limit, o)
    PROVE  Cardinality(p) = IF Cardinality(S) <= o THEN 0
                            ELSE IF Cardinality(S) <= o + limit THEN Cardinality(S) - o ELSE limit
<1> DEFINE Window(n) == IF n <= o THEN 0 ELSE IF n <= o + limit THEN n - o ELSE limit
           At(T, t) == {x \in T : x.ts = t}
           From(T, t) == {x \in T : x.ts >= t}
           Share(b, n) == LET first == IF b > o THEN b ELSE o
                              end == IF b + n < o + limit THEN b + n ELSE o + limit
                          IN IF end > first THEN end - first ELSE 0
<1>1. p \in SUBSET S
  BY DEF PagesOf
<1>2. ASSUME NEW r \in S
      PROVE  Cardinality(At(p, r.ts)) = Share(Before(r, S), Cardinality(At(S, r.ts)))
  BY DEF PagesOf
<1>3. ASSUME NEW T \in SUBSET S
      PROVE  /\ IsFiniteSet(T)
             /\ \A t : At(T, t) \in SUBSET T /\ From(T, t) \in SUBSET T
             /\ \A t : /\ IsFiniteSet(At(T, t)) /\ Cardinality(At(T, t)) \in Nat
                       /\ IsFiniteSet(From(T, t)) /\ Cardinality(From(T, t)) \in Nat
  <2>1. IsFiniteSet(T)
    BY PartCount
  <2>2. \A t : At(T, t) \in SUBSET T /\ From(T, t) \in SUBSET T
    OBVIOUS
  <2> HIDE DEF At, From
  <2> QED BY <2>1, <2>2, PartCount
<1>4. ASSUME NEW T \in SUBSET S, NEW t \in Nat
      PROVE  Cardinality(From(T, t)) = Cardinality(From(T, t + 1)) + Cardinality(At(T, t))
  <2>1. From(T, t) = From(T, t + 1) \cup At(T, t) /\ From(T, t + 1) \cap At(T, t) = {}
    <3>1. \A x \in T : x.ts \in Nat
      OBVIOUS
    <3> QED BY <3>1
  <2> HIDE DEF From, At
  <2> QED BY <1>3, <2>1, SplitCount
<1>5. ASSUME NEW b \in Nat, NEW n \in Nat
      PROVE  Window(b) \in Nat /\ Window(b + n) = Window(b) + Share(b, n)
  OBVIOUS
<1>6. ASSUME NEW T \in SUBSET S
      PROVE  Cardinality(From(T, N + 1)) = 0 /\ From(T, 0) = T
  <2>1. From(T, N + 1) = {} /\ From(T, 0) = T
    OBVIOUS
  <2> QED BY <2>1, FS_EmptySet
<1>7. ASSUME NEW t \in Nat, Cardinality(From(p, t + 1)) = Window(Cardinality(From(S, t + 1)))
      PROVE  Cardinality(From(p, t)) = Window(Cardinality(From(S, t)))
  <2> DEFINE b == Cardinality(From(S, t + 1))
             n == Cardinality(At(S, t))
  <2>1. b \in Nat /\ n \in Nat
    <3> HIDE DEF From, At
    <3> QED BY <1>3
  <2>2. /\ Cardinality(From(S, t)) = b + n
        /\ Cardinality(From(p, t)) = Window(b) + Cardinality(At(p, t))
    <3> HIDE DEF From, At, Window
    <3> QED BY <1>1, <1>4, <1>7
  <2>3. Window(b + n) = Window(b) + Share(b, n)
    <3> HIDE DEF b, n, Window, Share
    <3> QED BY <1>5, <2>1
  <2>4. Cardinality(At(p, t)) = Share(b, n)
    <3>1. CASE At(S, t) = {}
      <4>1. At(p, t) = {}
        BY <1>1, <3>1
      <4>2. n = 0 /\ Cardinality(At(p, t)) = 0
        <5> HIDE DEF At
        <5> QED BY <3>1, <4>1, FS_EmptySet
      <4>3. Window(b + 0) = Window(b) + Share(b, 0) /\ b + 0 = b
        <5> HIDE DEF b, Window, Share
        <5> QED BY <1>5, <2>1
      <4>4. Window(b) \in Nat /\ Share(b, 0) = 0
        <5> HIDE DEF b
        <5> QED BY <2>1
      <4> QED BY <4>2, <4>4
    <3>2. CASE At(S, t) # {}
      <4>1. PICK r \in S : r.ts = t
        BY <3>2
      <4>2. Before(r, S) = b
        <5>1. {x \in S : x.ts > r.ts} = From(S, t + 1)
          BY <4>1
        <5> QED BY <5>1 DEF Before
      <4> HIDE DEF b, At, Share
      <4> QED BY <1>2, <4>1, <4>2 DEF n
    <3> QED BY <3>1, <3>2
  <2> HIDE DEF From, At, Window, Share, b, n
  <2> QED BY <2>2, <2>3, <2>4
<1>8. ASSUME NEW t \in 0 .. N + 1, Cardinality(From(p, t)) # Window(Cardinality(From(S, t)))
      PROVE  FALSE
  <2> DEFINE Wrong(u) == Cardinality(From(p, u)) # Window(Cardinality(From(S, u)))
             Left == {k \in Nat : \E u \in 0 .. N + 1 : k = (N + 1) - u /\ Wrong(u)}
  <2>1. PICK k \in Left : \A l \in Left : k <= l
    <3>1. (N + 1) - t \in Left
      <4> HIDE DEF From, Window
      <4> QED BY <1>8
    <3>2. Left \in SUBSET Nat /\ Left # {}
      BY <3>1
    <3> HIDE DEF Left
    <3> QED BY <3>2, LeastExists
  <2>2. PICK u \in 0 .. N + 1 : k = (N + 1) - u /\ Wrong(u)
    OBVIOUS
  <2>3. u # N + 1
    <3>1. Cardinality(From(p, N + 1)) = 0 /\ Cardinality(From(S, N + 1)) = 0
      <4> HIDE DEF From
      <4> QED BY <1>1, <1>6
    <3>2. Window(0) = 0
      OBVIOUS
    <3> HIDE DEF From, Window
    <3> QED BY <2>2, <3>1, <3>2
  <2>4. u \in Nat /\ u + 1 \in 0 .. N + 1 /\ (N + 1) - (u + 1) \in Nat /\ ~ (k <= (N + 1) - (u + 1))
    BY <2>2, <2>3
  <2>5. ~ Wrong(u + 1)
    <3> HIDE DEF Wrong
    <3> QED BY <2>1, <2>4
  <2> HIDE DEF From, Window
  <2> QED BY <1>7, <2>2, <2>4, <2>5
<1>9. Cardinality(From(p, 0)) = Window(Cardinality(From(S, 0)))
  <2> HIDE DEF From, Window
  <2> QED BY <1>8
<1>10. Cardinality(p) = Window(Cardinality(S))
  <2> HIDE DEF From, Window
  <2> QED BY <1>1, <1>6, <1>9
<1> QED BY <1>10

LEMMA MaxOfTwo ==
    ASSUME NEW a \in Nat, NEW b \in Nat
    PROVE  Max({a, b}) = IF a >= b THEN a ELSE b
<1> DEFINE m == IF a >= b THEN a ELSE b
<1>1. m \in {a, b} /\ \A y \in {a, b} : m >= y
  OBVIOUS
<1>2. Max({a, b}) \in {a, b} /\ \A y \in {a, b} : Max({a, b}) >= y
  <2> HIDE DEF m
  <2> QED BY <1>1 DEF Max
<1> QED BY <1>2

LEMMA PagesAdd ==
    ASSUME ViewAssumption, NEW f, IsFiniteSet(rows), \A r \in rows : r.ts \in 0 .. Now,
           offset \in Nat
    PROVE  PagesFit(f, Cardinality(Where(rows, f)))
<1> DEFINE sel == Where(rows, f)
           n == Cardinality(sel)
<1>1. PAGE \in Nat /\ Now \in Nat
  BY DEF ViewAssumption
<1>2. sel \in SUBSET rows /\ IsFiniteSet(sel) /\ n \in Nat
  BY SelectedRows, FS_CardinalityType
<1>3. ASSUME NEW a \in Answers(rows, f, PAGE, offset)
      PROVE  /\ a.total = n
             /\ offset + Cardinality(a.rows) = Max({offset, Least(offset + PAGE, n)})
  <2>1. PICK p \in PagesOf(sel, PAGE, offset) : a = [total |-> n, rows |-> p]
    BY DEF Answers
  <2>2. a.total = n /\ a.rows = p
    BY <2>1
  <2> HIDE DEF sel
  <2>3. Cardinality(p) = IF n <= offset THEN 0 ELSE IF n <= offset + PAGE THEN n - offset ELSE PAGE
    BY <1>1, <1>2, PageSize
  <2>4. Least(offset + PAGE, n) \in Nat
    BY <1>1, <1>2 DEF Least
  <2>5. Max({offset, Least(offset + PAGE, n)})
          = IF offset >= Least(offset + PAGE, n) THEN offset ELSE Least(offset + PAGE, n)
    BY <2>4, MaxOfTwo
  <2> HIDE DEF n
  <2>6. offset + Cardinality(p) = Max({offset, Least(offset + PAGE, n)})
    BY <1>1, <1>2, <2>3, <2>5 DEF Least
  <2> QED BY <2>2, <2>6
<1> QED BY <1>3 DEF PagesFit

LEMMA TypedAddsUp ==
    ASSUME QueryAssumption, ViewAssumption, Typed
    PROVE  OverviewAddsUp
<1> DEFINE f == ParseFilter(layout, Now)
           sel == Where(rows, f)
<1>1. layout.from \in Nat /\ layout.to \in Nat /\ layout.client = All
  BY DEF Typed, PageTyped, Filter
<1>2. IsFilter(f) /\ f.client = All
  BY <1>1, ParsedFilter DEF ParseFilter
<1> HIDE DEF f
<1>3. IsFiniteSet(rows)
  BY FS_Subset DEF Typed, StoreTyped
<1>4. \A r \in rows : /\ r.ts \in 0 .. Now /\ r.status \in Nat /\ r.host # All
                      /\ r.client \notin {Null, Empty, All}
  BY DEF Typed, StoreTyped, Row, Time, ViewAssumption
<1>5. \A r \in rows : r.ts \in Nat
  BY <1>4 DEF ViewAssumption
<1>6. sel \in SUBSET rows /\ IsFiniteSet(sel)
  BY <1>3, SelectedRows
<1>7. ASSUME NEW o \in Overview(rows, f)
      PROVE  CountsAddUp(o, sel) /\ DrillsDown(o, f, sel) /\ ChartFits(o, f)
  <2>1. CountsAddUp(o, sel)
    <3>1. \A r \in sel : r.status \in Nat /\ r.client \notin {Null, Empty}
      <4> HIDE DEF sel
      <4> QED BY <1>4, <1>6
    <3> QED BY <1>6, <3>1, OverviewAdds
  <2>2. DrillsDown(o, f, sel)
    BY <1>2, <1>4, <1>6, OverviewDrillsDown
  <2>3. ChartFits(o, f)
    BY <1>2, <1>3, <1>5, ChartOfPoints DEF IsFilter
  <2> QED BY <2>1, <2>2, <2>3
<1>8. PagesFit(f, Cardinality(sel))
  <2>1. offset \in Nat
    BY DEF Typed, PageTyped
  <2> QED BY <1>3, <1>4, <2>1, PagesAdd
<1> QED BY <1>7, <1>8 DEF OverviewAddsUp, f

\* The numbers of an overview agree with one another, on a page at rest and on any
\* other (analytics.ts; Pulse, Overview and Logs read them side by side).
THEOREM NumbersAddUp == Spec => []OverviewAddsUp
<1>1. Init => Typed /\ PageAnswersQuestion
  BY InitTypes
<1>2. Typed /\ PageAnswersQuestion /\ [Next]_vars => (Typed /\ PageAnswersQuestion)'
  BY NextTypes
<1>3. Typed => OverviewAddsUp
  BY QueryAssumption, ViewAssumption, TypedAddsUp
<1> QED BY <1>1, <1>2, <1>3, PTL DEF Spec

-------------------------------------------------------------------------------
(* The page with one request.                                                 *)

Screen == {[q |-> d.q, answer |-> Plain(d)] : d \in shown}
Reply == {Plain(a) : a \in UNION {c.reply : c \in Active}}

\* A click asks anew, and what was answered to the question before is gone.
LEMMA ClickAsks ==
  ASSUME CallsAreCalls, Operator, Typed'
  PROVE  One!Ask
<1>1. Asked' \in Question
  BY DEF Typed, PageTyped, Asked, Question
<1>2. ASSUME NEW f, NEW o, NEW late,
             \A c \in late : c = [q |-> c.q, active |-> FALSE, reply |-> c.reply],
             calls' = Superseded \cup {Call(f, o)} \cup late
      PROVE  Reply' = {}
  <2>1. \A c \in Superseded : c = [q |-> c.q, active |-> FALSE, reply |-> c.reply]
    BY SupersededCalls
  <2>2. \A c \in calls' : c.active => c.reply = {}
    BY <1>2, <2>1 DEF Call, Waiting
  <2>3. Active' \subseteq calls' /\ \A c \in Active' : c.active
    BY DEF Active
  <2> QED BY <2>2, <2>3 DEF Reply
<1>3. UNCHANGED rows /\ loading' = TRUE /\ failed' = FALSE /\ (shown' = shown \/ shown' = {})
  BY DEF Operator, PickRange, PickHost, SetLayout, FollowLink, PrevPage, NextPage, Revisit, SetFilters,
         Turn, Ask
<1>4. Screen' \in {Screen, {}}
  BY <1>3 DEF Screen
<1>5. ASSUME NEW f, SetFilters(f) PROVE Reply' = {}
  <2> DEFINE late == IF offset = 0 THEN {} ELSE {[Call(f, offset) EXCEPT !.active = FALSE]}
  <2>1. \A c \in late : c = [q |-> c.q, active |-> FALSE, reply |-> c.reply]
    BY DEF Call
  <2>2. calls' = Superseded \cup {Call(f, 0)} \cup late
    BY <1>5 DEF SetFilters
  <2> HIDE DEF late
  <2> QED BY <1>2, <2>1, <2>2
<1>6. ASSUME NEW f, NEW o, Ask(f, o) PROVE Reply' = {}
  <2> DEFINE late == {}
  <2>1. /\ \A c \in late : c = [q |-> c.q, active |-> FALSE, reply |-> c.reply]
        /\ calls' = Superseded \cup {Call(f, o)} \cup late
    BY <1>6 DEF Ask
  <2> HIDE DEF late
  <2> QED BY <1>2, <2>1
<1>7. Reply' = {}
  BY <1>5, <1>6
     DEF Operator, PickRange, PickHost, SetLayout, FollowLink, PrevPage, NextPage, Revisit, Turn
<1> QED BY <1>1, <1>3, <1>4, <1>7 DEF One!Ask, Screen, Reply

\* The call that counts is answered, shown and lost as the one request is; nothing
\* that happens to another is seen.
LEMMA NetworkIsOne ==
  ASSUME Typed, PageAnswersQuestion, Network
  PROVE  [One!Next]_(One!vars)
<1>1. PICK c \in calls : Answer(c) \/ Deliver(c) \/ Lose(c)
  BY DEF Network
<1>2. Asked' = Asked /\ rows' = rows
  BY <1>1 DEF Answer, Deliver, Lose, page, Asked
<1>3. CallsAreCalls
  BY DEF Typed
<1>4. CASE c \in Active
  <2>1. loading /\ Active = {c} /\ c.q = Asked
    BY <1>4 DEF PageAnswersQuestion
  <2>2. Reply = {Plain(a) : a \in c.reply}
    BY <2>1 DEF Reply
  <2>3. CASE Answer(c)
    <3> DEFINE f == ParseFilter(c.q.filters, Now)
    <3>1. PICK a \in Answers(rows, f, PAGE, c.q.offset) :
              calls' = (calls \ {c}) \cup
                {[c EXCEPT !.reply = {[total |-> a.total, rows |-> a.rows, of |-> Where(rows, f)]}]}
      BY <2>3 DEF Answer
    <3> DEFINE r == [total |-> a.total, rows |-> a.rows, of |-> Where(rows, f)]
               d == [c EXCEPT !.reply = {r}]
    <3>2. d = [q |-> c.q, active |-> c.active, reply |-> {r}] /\ c.active
      BY <1>3, <1>4 DEF CallsAreCalls, Active
    <3>3. Active' = {d}
      BY <2>1, <3>1, <3>2 DEF Active
    <3>4. Plain(r) = a
      BY DEF Plain, Answers
    <3>5. d.reply = {r}
      BY <3>2
    <3>6. Reply' = {a}
      <4> HIDE DEF d, r
      <4> QED BY <3>3, <3>4, <3>5 DEF Reply
    <3>7. Reply = {}
      BY <2>2, <2>3 DEF Answer, Waiting
    <3>8. a \in AnswersTo(rows, Asked)
      BY <2>1 DEF AnswersTo
    <3>9. UNCHANGED <<shown, loading, failed>>
      BY <2>3 DEF Answer, page
    <3>10. One!Answer
      BY <1>2, <2>1, <3>6, <3>7, <3>8, <3>9 DEF One!Answer, Reply
    <3> QED BY <3>10 DEF One!Next
  <2>4. CASE Deliver(c) \/ Lose(c)
    <3>1. Active' = {}
      BY <2>1, <2>4 DEF Active, Deliver, Lose
    <3>2. Reply' = {}
      BY <3>1 DEF Reply
    <3>3. c.active
      BY <1>4 DEF Active
    <3>4. CASE Deliver(c)
      <4>1. PICK a \in c.reply : Put(c, a)
        BY <3>3, <3>4 DEF Deliver
      <4>2. Plain(a) \in Reply
        BY <2>2, <4>1
      <4>3. shown' = {[q |-> c.q, total |-> a.total, rows |-> a.rows]} /\ ~loading' /\ loading' = FALSE /\ failed' = FALSE
        BY <4>1 DEF Put
      <4>4. Screen' = {[q |-> Asked, answer |-> Plain(a)]}
        BY <2>1, <4>3 DEF Screen, Plain
      <4>5. loading /\ failed = FALSE
        BY <2>1 DEF Typed, PageTyped
      <4>6. One!Show
        BY <1>2, <3>2, <4>2, <4>3, <4>4, <4>5 DEF One!Show, Screen, Reply
      <4> QED BY <4>6 DEF One!Next
    <3>5. CASE Lose(c)
      <4>1. shown' = {} /\ loading' = FALSE /\ failed' = TRUE
        BY <3>3, <3>5 DEF Lose
      <4>2. Screen' = {}
        BY <4>1 DEF Screen
      <4>3. One!Lose
        BY <1>2, <2>1, <3>2, <4>1, <4>2 DEF One!Lose, Screen, Reply
      <4> QED BY <4>3 DEF One!Next
    <3> QED BY <2>4, <3>4, <3>5
  <2> QED BY <1>1, <2>3, <2>4
<1>5. CASE c \notin Active
  <2>1. ~ c.active
    BY <1>5 DEF Active
  <2>2. Active' = Active
    <3>1. CASE Answer(c)
      <4>1. PICK r : calls' = (calls \ {c}) \cup {[c EXCEPT !.reply = {r}]}
        BY <3>1 DEF Answer
      <4> DEFINE d == [c EXCEPT !.reply = {r}]
      <4>2. d = [q |-> c.q, active |-> c.active, reply |-> {r}]
        BY <1>3 DEF CallsAreCalls
      <4>3. ~ d.active
        BY <2>1, <4>2
      <4> HIDE DEF d
      <4> QED BY <2>1, <4>1, <4>3 DEF Active, d
    <3>2. CASE Deliver(c) \/ Lose(c)
      BY <2>1, <3>2 DEF Active, Deliver, Lose
    <3> QED BY <1>1, <3>1, <3>2
  <2>3. UNCHANGED <<shown, loading, failed>>
    BY <1>1, <2>1 DEF Answer, Deliver, Lose, page
  <2>4. Screen' = Screen /\ Reply' = Reply
    BY <2>2, <2>3 DEF Screen, Reply
  <2> QED BY <1>2, <2>3, <2>4 DEF One!vars, Screen, Reply
<1> QED BY <1>4, <1>5

\* The page, with every request under way and every order of their answers,
\* implements the one of OneRequest.
THEOREM OneRequestIsImplemented == Spec => OneRequestAtATime
<1>1. Init => Typed /\ PageAnswersQuestion
  BY InitTypes
<1>2. Typed /\ PageAnswersQuestion /\ [Next]_vars => (Typed /\ PageAnswersQuestion)'
  BY NextTypes
<1>3. Init => One!Init
  <2> SUFFICES ASSUME Init PROVE One!Init
    OBVIOUS
  <2>1. Asked \in Question
    BY <1>1 DEF Typed, PageTyped, Asked, Question
  <2>2. shown = {} /\ loading = TRUE /\ failed = FALSE /\ calls = {Call(filters, 0)}
    BY DEF Init
  <2>3. Screen = {} /\ Reply = {}
    BY <2>2 DEF Screen, Reply, Active, Call, Waiting
  <2> QED BY <2>1, <2>2, <2>3 DEF One!Init, Screen, Reply
<1>4. Typed /\ PageAnswersQuestion /\ Typed' /\ [Next]_vars => [One!Next]_(One!vars)
  <2> SUFFICES ASSUME Typed, PageAnswersQuestion, Typed', [Next]_vars
               PROVE  [One!Next]_(One!vars)
    OBVIOUS
  <2>1. CASE Store
    <3>1. UNCHANGED <<page, calls>>
      BY <2>1 DEF Store, Ingest, PruneBefore
    <3>2. UNCHANGED <<Asked, Screen, Reply, loading, failed>>
      BY <3>1 DEF page, Asked, Screen, Reply, Active
    <3> QED BY <3>2 DEF One!Next, One!Change, One!pageVars, Screen, Reply
  <2>2. CASE UNCHANGED vars
    <3>1. UNCHANGED <<rows, Asked, Screen, Reply, loading, failed>>
      BY <2>2 DEF vars, Asked, Screen, Reply, Active
    <3> QED BY <3>1 DEF One!vars, Screen, Reply
  <2>3. CASE Operator
    BY <2>3, ClickAsks DEF Typed, One!Next
  <2>4. CASE Network
    BY <2>4, NetworkIsOne
  <2> QED BY <2>1, <2>2, <2>3, <2>4 DEF Next
<1> QED BY <1>1, <1>2, <1>3, <1>4, PTL DEF Spec, OneRequestAtATime, One!Spec
===============================================================================
