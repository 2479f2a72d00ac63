---------------------------- MODULE UpgradesProofs ----------------------------
(***************************************************************************)
(* Proofs about Upgrades, for any releases, patterns, files and starts.    *)
(***************************************************************************)
EXTENDS Upgrades, TLAPS, WellFoundedInduction

\* Of some offsets one is the greatest: by the least of their distances to a bound.
LEMMA GreatestExists ==
  ASSUME NEW M \in Nat, NEW S \in SUBSET (0 .. M), S # {}
  PROVE  \E x \in S : \A y \in S : y <= x
<1> DEFINE T == {M - x : x \in S}
           Less == {ss \in Nat \X Nat : ss[1] < ss[2]}
<1>1. \A x \in S : x \in Nat /\ M - x \in Nat OBVIOUS
<1>2. T \subseteq Nat /\ T # {} BY <1>1
<1>3. IsWellFoundedOn(Less, Nat) BY NatLessThanWellFounded DEF OpToRel
<1>4. PICK t \in T : \A u \in T : ~ (<<u, t>> \in Less)
  <2> HIDE DEF T, Less
  <2> QED BY <1>2, <1>3, WFMin
<1>5. PICK x \in S : t = M - x OBVIOUS
<1>6. \A y \in S : M - y \in T /\ ~(M - y < M - x)
  <2> TAKE y \in S
  <2>1. M - y \in T OBVIOUS
  <2>2. <<M - y, t>> \notin Less BY <2>1, <1>4
  <2>3. M - y \in Nat /\ t \in Nat BY <1>2, <2>1
  <2> QED BY <1>5, <2>2, <2>3
<1> QED BY <1>1, <1>6

\* Every file the old table knows keeps one of its rows, the furthest.
LEMMA SomeRowStays ==
  ASSUME UpgradesAssumption, TypeOK, NEW r \in legacy
  PROVE  \E s \in legacy : s.ino = r.ino /\ s.offset >= r.offset /\ StaysOf(s)
<1> DEFINE of == {s \in legacy : s.ino = r.ino}
           at == {s.offset : s \in of}
<1>1. \A s \in legacy : s.offset \in 0 .. MaxOffset BY DEF TypeOK, LegacyRow
<1>2. at \in SUBSET (0 .. MaxOffset) /\ at # {} BY <1>1
<1>3. PICK x \in at : \A y \in at : y <= x
  <2> HIDE DEF at
  <2> QED BY <1>2, GreatestExists DEF UpgradesAssumption
<1>4. PICK s \in of : s.offset = x OBVIOUS
<1>5. \A u \in of : u.offset <= s.offset BY <1>3, <1>4
<1>6. s.offset \in Nat /\ r.offset \in Nat BY <1>1
<1> QED BY <1>4, <1>5, <1>6 DEF StaysOf

\* The copied rows: of every file at most one.
LEMMA CopyTyped ==
  ASSUME UpgradesAssumption, TypeOK, CopyOffsets
  PROVE  /\ offsets' \subseteq OffsetRow
         /\ \A o, p \in offsets' : o.ino = p.ino => o = p
<1> DEFINE kept == {o \in offsets : \A r \in legacy : r.ino # o.ino}
           moved == {[ino |-> r.ino, offset |-> r.offset] : r \in {s \in legacy : StaysOf(s)}}
<1>1. offsets' = kept \cup moved BY DEF CopyOffsets
<1>2. \A r \in legacy : r.ino \in Inode /\ r.offset \in 0 .. MaxOffset BY DEF TypeOK, LegacyRow
<1>3. moved \subseteq OffsetRow BY <1>2 DEF OffsetRow
<1>4. kept \subseteq OffsetRow /\ \A o, p \in kept : o.ino = p.ino => o = p BY DEF TypeOK
<1>5. \A o \in moved : \E r \in legacy : r.ino = o.ino /\ r.offset = o.offset /\ StaysOf(r) OBVIOUS
<1>6. \A o, p \in moved : o.ino = p.ino => o = p
  <2> SUFFICES ASSUME NEW o \in moved, NEW p \in moved, o.ino = p.ino PROVE o = p OBVIOUS
  <2>1. PICK r \in legacy : r.ino = o.ino /\ r.offset = o.offset /\ StaysOf(r) BY <1>5
  <2>2. PICK s \in legacy : s.ino = p.ino /\ s.offset = p.offset /\ StaysOf(s) BY <1>5
  <2>3. r.offset <= s.offset /\ s.offset <= r.offset BY <2>1, <2>2 DEF StaysOf
  <2>4. o.offset = p.offset BY <1>2, <2>1, <2>2, <2>3
  <2>5. o \in OffsetRow /\ p \in OffsetRow BY <1>3
  <2> QED BY <2>4, <2>5 DEF OffsetRow
<1>7. \A o \in kept, p \in moved : o.ino # p.ino BY <1>5
<1> QED BY <1>1, <1>3, <1>4, <1>6, <1>7

LEMMA InitInv == UpgradesAssumption /\ Init => IInv
<1> SUFFICES ASSUME UpgradesAssumption, Init PROVE IInv OBVIOUS
<1> USE DEF UpgradesAssumption, Init, Baseline
<1>1. TypeOK
  <2>1. 0 \in 0 .. MaxStarts /\ release \in Nat OBVIOUS
  <2> QED BY <2>1 DEF TypeOK, Starting
<1>2. RowsInv BY DEF RowsInv, Filled
<1>3. OffsetsInv BY DEF OffsetsInv
<1>4. OffersInv BY DEF OffersInv, Known
<1> QED BY <1>1, <1>2, <1>3, <1>4 DEF IInv

LEMMA TypeStep ==
  ASSUME UpgradesAssumption, TypeOK, [Next]_vars
  PROVE  TypeOK'
<1> USE DEF UpgradesAssumption, Starting, Current
<1>1. CASE UNCHANGED vars
  BY <1>1 DEF TypeOK, vars, storeVars, offsetVars, settingVars, startVars
<1>2. ASSUME NEW r \in Release, Start(r) PROVE TypeOK'
  <2>1. r \in Nat /\ newest \in Nat /\ r >= 1 BY DEF TypeOK
  <2>2. starts' \in 0 .. MaxStarts BY <1>2 DEF TypeOK, Start
  <2>3. newest' \in Release /\ r <= newest' /\ release' = r BY <1>2, <2>1 DEF TypeOK, Start
  <2>4. phase' \in Starting \cup {"running"} /\ (phase' \in Starting => r > 1)
        /\ (phase' = "running" /\ r = 1 => hasLegacy')
    <3>1. CASE r = 1 BY <1>2, <3>1 DEF Start
    <3>2. CASE r # 1 BY <1>2, <2>1, <3>2 DEF Start
    <3> QED BY <3>1, <3>2
  <2> QED BY <1>2, <2>2, <2>3, <2>4 DEF TypeOK, Start, offsetVars, settingVars
<1>3. CASE AddColumn
  BY <1>3 DEF TypeOK, AddColumn, offsetVars, settingVars, startVars
<1>4. CASE Backfill
  <2>1. \A r \in rows : r \in Row /\ [r EXCEPT !.net = NetOf[r.client]] \in Row
    BY DEF TypeOK, Row
  <2>2. rows' \subseteq Row BY <1>4, <2>1 DEF Backfill
  <2> QED BY <1>4, <2>2 DEF TypeOK, Backfill, offsetVars, settingVars, startVars
<1>5. CASE CopyOffsets
  BY <1>5, CopyTyped DEF TypeOK, CopyOffsets, storeVars, settingVars, startVars
<1>6. CASE DropLegacy
  BY <1>6 DEF TypeOK, DropLegacy, storeVars, settingVars, startVars
<1>7. CASE OfferPatterns
  BY <1>7 DEF TypeOK, OfferPatterns, storeVars, offsetVars, startVars
<1>8. CASE RecordOffer
  BY <1>8 DEF TypeOK, RecordOffer, storeVars, offsetVars, startVars
<1>9. ASSUME NEW c \in Client, InsertAccess(c) PROVE TypeOK'
  <2>1. [client |-> c, net |-> IF release = 1 THEN NoNet ELSE NetOf[c]] \in Row BY DEF Row
  <2>2. rows' \subseteq Row BY <1>9, <2>1 DEF InsertAccess, TypeOK
  <2> QED BY <1>9, <2>2 DEF TypeOK, InsertAccess, offsetVars, settingVars, startVars
<1>10. CASE PruneBefore
  BY <1>10 DEF TypeOK, PruneBefore, offsetVars, settingVars, startVars
<1>11. ASSUME NEW i \in Inode, NEW o \in 0 .. MaxOffset, SetIngestState(i, o) PROVE TypeOK'
  <2>1. [ino |-> i, offset |-> o] \in OffsetRow BY DEF OffsetRow
  <2>2. offsets' \subseteq OffsetRow /\ recorded' \subseteq OffsetRow
    BY <1>11, <2>1 DEF SetIngestState, TypeOK
  <2>3. \A x, y \in offsets' : x.ino = y.ino => x = y BY <1>11 DEF SetIngestState, TypeOK
  <2> QED BY <1>11, <2>2, <2>3 DEF TypeOK, SetIngestState, storeVars, settingVars, startVars
<1>12. ASSUME NEW i \in Inode, NEW o \in 0 .. MaxOffset, NEW n \in Name, SetLegacyState(n, i, o)
       PROVE  TypeOK'
  <2>1. [file |-> n, ino |-> i, offset |-> o] \in LegacyRow BY DEF LegacyRow
  <2>2. legacy' \subseteq LegacyRow BY <1>12, <2>1 DEF SetLegacyState, TypeOK
  <2>3. recorded' \subseteq OffsetRow BY <1>12, <2>2 DEF SetLegacyState, LegacyRow, OffsetRow
  <2> QED BY <1>12, <2>2, <2>3 DEF TypeOK, SetLegacyState, storeVars, settingVars, startVars
<1>13. ASSUME NEW ps \in SUBSET Pattern, SetConfig(ps) PROVE TypeOK'
  <2>1. refused' \subseteq Pattern BY <1>13 DEF SetConfig, Effective, TypeOK
  <2> QED BY <1>13, <2>1 DEF TypeOK, SetConfig, storeVars, offsetVars, startVars
<1>14. CASE Kill
  BY <1>14 DEF TypeOK, Kill, storeVars, offsetVars, settingVars, startVars
<1> QED BY <1>1, <1>2, <1>3, <1>4, <1>5, <1>6, <1>7, <1>8, <1>9, <1>10, <1>11, <1>12, <1>13, <1>14
        DEF Next, Migrate, Offer, Use

LEMMA RowsStep ==
  ASSUME UpgradesAssumption, TypeOK, RowsInv, [Next]_vars
  PROVE  RowsInv'
<1> USE DEF UpgradesAssumption, Filled
<1>1. CASE UNCHANGED vars
  BY <1>1 DEF RowsInv, vars, storeVars
<1>2. ASSUME NEW r \in Release, Start(r) PROVE RowsInv'
  BY <1>2 DEF RowsInv, Start
<1>3. CASE AddColumn
  BY <1>3 DEF RowsInv, AddColumn
<1>4. CASE Backfill
  <2>1. \A r \in rows : r \in Row BY DEF TypeOK
  <2>2. \A r \in rows : LET f == IF r.net = NoNet THEN [r EXCEPT !.net = NetOf[r.client]] ELSE r
                        IN f.net = NetOf[f.client]
    BY <2>1 DEF Row, RowsInv
  <2>3. \A r \in rows' : r.net = NetOf[r.client] BY <1>4, <2>2 DEF Backfill
  <2> QED BY <1>4, <2>3 DEF RowsInv, Backfill
<1>5. CASE CopyOffsets \/ DropLegacy \/ OfferPatterns \/ RecordOffer
  BY <1>5 DEF RowsInv, CopyOffsets, DropLegacy, OfferPatterns, RecordOffer, storeVars, TypeOK, Starting
<1>6. ASSUME NEW c \in Client, InsertAccess(c) PROVE RowsInv'
  BY <1>6 DEF RowsInv, InsertAccess
<1>7. CASE PruneBefore
  BY <1>7 DEF RowsInv, PruneBefore
<1>8. ASSUME NEW i \in Inode, NEW o \in 0 .. MaxOffset,
             SetIngestState(i, o) \/ \E n \in Name : SetLegacyState(n, i, o)
      PROVE  RowsInv'
  BY <1>8 DEF RowsInv, SetIngestState, SetLegacyState, storeVars
<1>9. ASSUME NEW ps \in SUBSET Pattern, SetConfig(ps) PROVE RowsInv'
  BY <1>9 DEF RowsInv, SetConfig, storeVars
<1>10. CASE Kill
  BY <1>10 DEF RowsInv, Kill, storeVars
<1> QED BY <1>1, <1>2, <1>3, <1>4, <1>5, <1>6, <1>7, <1>8, <1>9, <1>10
        DEF Next, Migrate, Offer, Use

\* What the two tables hold of the files, through the copy and the drop.
LEMMA OffsetsStep ==
  ASSUME UpgradesAssumption, TypeOK, OffsetsInv, [Next]_vars
  PROVE  OffsetsInv'
<1> USE DEF UpgradesAssumption
<1> SUFFICES ASSUME 1 \notin downgrades'
             PROVE  OffsetsInv'
  BY DEF OffsetsInv
<1>1. CASE UNCHANGED vars
  BY <1>1 DEF OffsetsInv, vars, offsetVars, startVars
<1>2. ASSUME NEW r \in Release, Start(r) PROVE OffsetsInv'
  <2>1. 1 \notin downgrades /\ r \in Nat /\ newest \in Nat /\ r >= 1 /\ (r = 1 => newest = 1)
    BY <1>2 DEF Start, TypeOK
  <2>2. newest' = 1 => newest = 1 BY <1>2, <2>1 DEF Start
  <2>3. CASE r = 1
    <3>1. newest' = 1 /\ legacy' = legacy /\ recorded' = recorded /\ offsets' = {} /\ hasLegacy'
          /\ phase' = "running"
      BY <1>2, <2>1, <2>3 DEF Start, OffsetsInv
    <3>2. recorded = {[ino |-> x.ino, offset |-> x.offset] : x \in legacy}
      <4>1. CASE hasLegacy BY <2>1, <4>1 DEF OffsetsInv
      <4>2. CASE ~hasLegacy
        <5>1. recorded = {} /\ legacy = {} BY <2>1, <2>3, <4>2 DEF OffsetsInv, TypeOK
        <5> QED BY <5>1
      <4> QED BY <4>1, <4>2
    <3>3. recorded' = {[ino |-> x.ino, offset |-> x.offset] : x \in legacy'} BY <3>1, <3>2
    <3>4. release' = 1 BY <1>2, <2>3 DEF Start
    <3> QED BY <3>1, <3>3, <3>4 DEF OffsetsInv
  <2>4. CASE r # 1
    <3>1. phase' = "schema" /\ newest' # 1 /\ UNCHANGED <<legacy, recorded, offsets>>
      BY <1>2, <2>1, <2>4 DEF Start, offsetVars
    <3>2. hasLegacy' = hasLegacy
      BY <1>2, <2>4 DEF Start, TypeOK
    <3> QED BY <2>1, <3>1, <3>2 DEF OffsetsInv
  <2> QED BY <2>3, <2>4
<1>3. CASE AddColumn \/ Backfill
  BY <1>3 DEF OffsetsInv, AddColumn, Backfill, offsetVars, startVars
<1>4. CASE CopyOffsets
  <2>1. recorded' = recorded /\ legacy' = legacy /\ hasLegacy' /\ hasLegacy /\ phase' = "copied"
        /\ 1 \notin downgrades
    BY <1>4 DEF CopyOffsets, startVars
  <2>2. recorded = {[ino |-> r.ino, offset |-> r.offset] : r \in legacy} BY <2>1 DEF OffsetsInv
  <2>3. \A o \in offsets : \E r \in legacy : r.ino = o.ino BY <2>1 DEF OffsetsInv
  <2>4. offsets' = {[ino |-> r.ino, offset |-> r.offset] : r \in {s \in legacy : StaysOf(s)}}
    BY <1>4, <2>3 DEF CopyOffsets
  <2>5. offsets' \subseteq recorded BY <2>2, <2>4
  <2>6. \A r \in legacy : \E o \in offsets' : o.ino = r.ino /\ o.offset >= r.offset
    <3> TAKE r \in legacy
    <3>1. PICK s \in legacy : s.ino = r.ino /\ s.offset >= r.offset /\ StaysOf(s)
      BY SomeRowStays
    <3>2. [ino |-> s.ino, offset |-> s.offset] \in offsets' BY <2>4, <3>1
    <3> QED BY <3>1, <3>2
  <2>7. \A o \in offsets' : \E r \in legacy : r.ino = o.ino BY <2>4
  <2>8. \A r \in recorded : \E o \in offsets' : o.ino = r.ino /\ o.offset >= r.offset
    BY <2>2, <2>6
  <2>9. newest' = newest /\ newest # 1
    <3>1. phase = "filled" /\ newest' = newest BY <1>4 DEF CopyOffsets, startVars
    <3>2. release > 1 /\ release \in Nat /\ newest \in Nat /\ release <= newest
      BY <3>1 DEF TypeOK, Starting
    <3> QED BY <3>1, <3>2
  <2> QED BY <2>1, <2>2, <2>5, <2>7, <2>8, <2>9 DEF OffsetsInv
<1>5. CASE DropLegacy
  <2>1. /\ ~hasLegacy' /\ phase' = "moved" /\ phase \in Starting /\ 1 \notin downgrades
        /\ UNCHANGED <<offsets, recorded, newest, release>>
        /\ phase = "copied" \/ ~hasLegacy
    BY <1>5 DEF DropLegacy, startVars, Starting
  <2>2. newest # 1
    <3>1. release > 1 /\ release \in Nat /\ newest \in Nat /\ release <= newest
      BY <2>1 DEF TypeOK
    <3> QED BY <3>1
  <2> QED BY <2>1, <2>2 DEF OffsetsInv
<1>6. CASE OfferPatterns \/ RecordOffer
  BY <1>6 DEF OffsetsInv, OfferPatterns, RecordOffer, offsetVars, startVars, TypeOK, Starting
<1>7. CASE (\E c \in Client : InsertAccess(c)) \/ PruneBefore
  BY <1>7 DEF OffsetsInv, InsertAccess, PruneBefore, offsetVars, startVars
<1>8. ASSUME NEW i \in Inode, NEW o \in 0 .. MaxOffset, SetIngestState(i, o) PROVE OffsetsInv'
  <2>1. ~hasLegacy /\ newest # 1 /\ 1 \notin downgrades
    BY <1>8 DEF OffsetsInv, SetIngestState, startVars, TypeOK
  <2>2. \A r \in recorded : \E x \in offsets : x.ino = r.ino /\ x.offset >= r.offset
    BY <2>1 DEF OffsetsInv
  <2>3. o \in Nat BY DEF TypeOK
  <2>4. \A r \in recorded' : \E x \in offsets' : x.ino = r.ino /\ x.offset >= r.offset
    BY <1>8, <2>2, <2>3 DEF SetIngestState
  <2>5. offsets' \subseteq recorded' BY <1>8, <2>1 DEF OffsetsInv, SetIngestState
  <2> QED BY <1>8, <2>1, <2>4, <2>5 DEF OffsetsInv, SetIngestState, startVars
<1>9. ASSUME NEW i \in Inode, NEW o \in 0 .. MaxOffset, NEW n \in Name, SetLegacyState(n, i, o)
      PROVE  OffsetsInv'
  <2>1. newest = 1 /\ offsets = {} /\ hasLegacy /\ 1 \notin downgrades
    BY <1>9 DEF OffsetsInv, SetLegacyState, startVars, TypeOK
  <2> QED BY <1>9, <2>1 DEF OffsetsInv, SetLegacyState, startVars
<1>10. CASE \E ps \in SUBSET Pattern : SetConfig(ps)
  BY <1>10 DEF OffsetsInv, SetConfig, offsetVars, startVars
<1>11. CASE Kill
  BY <1>11 DEF OffsetsInv, Kill, offsetVars, startVars
<1> QED BY <1>1, <1>2, <1>3, <1>4, <1>5, <1>6, <1>7, <1>8, <1>9, <1>10, <1>11
        DEF Next, Migrate, Offer, Use, OffsetsInv

\* What was offered, saved and refused.
LEMMA OffersStep ==
  ASSUME UpgradesAssumption, TypeOK, OffsetsInv, OffersInv, [Next]_vars
  PROVE  OffersInv'
<1> USE DEF UpgradesAssumption, Current, Baseline
<1>0. /\ release \in Nat /\ newest \in Nat /\ release \in Release /\ newest \in Release
      /\ Known \subseteq Pattern
  BY DEF TypeOK, Known
<1>1. CASE UNCHANGED vars
  BY <1>1 DEF OffersInv, Known, vars, settingVars, startVars
<1>2. ASSUME NEW r \in Release, Start(r) PROVE OffersInv'
  <2>1. /\ UNCHANGED <<configured, saved, tracked, offered, refused>>
        /\ release' = r /\ phase' = (IF r = 1 THEN "running" ELSE "schema")
        /\ newest' = IF r > newest THEN r ELSE newest
        /\ downgrades' = IF r < newest THEN downgrades \cup {r} ELSE downgrades
    BY <1>2 DEF Start, settingVars
  <2>2. r \in Nat /\ r >= 1 OBVIOUS
  <2>3. Known' = Known BY <2>1 DEF Known
  <2>4. downgrades \subseteq downgrades' /\ (downgrades' = {} => r >= newest)
    BY <1>0, <2>1, <2>2
  <2>5. newest' = 1 => newest = 1 BY <1>0, <2>1, <2>2
  <2>6. downgrades' = {} => release' = newest' BY <1>0, <2>1, <2>2, <2>4
  <2>7. Defaults[newest] \subseteq Defaults[newest'] BY <1>0, <2>1, <2>2
  <2>8. downgrades' = {} => downgrades = {} BY <2>4
  <2> QED BY <2>1, <2>2, <2>3, <2>4, <2>5, <2>6, <2>7, <2>8 DEF OffersInv
<1>3. CASE AddColumn \/ Backfill \/ CopyOffsets \/ DropLegacy
  BY <1>3 DEF OffersInv, Known, AddColumn, Backfill, CopyOffsets, DropLegacy, settingVars, startVars
<1>4. CASE OfferPatterns
  <2>1. /\ phase' = "config" /\ saved' = IF configured THEN saved \cup (Defaults[release] \ Seen) ELSE saved
        /\ UNCHANGED <<release, configured, tracked, offered, newest, downgrades, refused>>
    BY <1>4 DEF OfferPatterns, startVars
  <2>2. Known' = Known BY <2>1 DEF Known
  <2>3. Seen = saved \cup Known BY DEF Seen, Known
  <2>4. ~configured => saved' = saved BY <2>1
  <2>5. configured => saved' = saved \cup (Defaults[release] \ (saved \cup Known)) BY <2>1, <2>3
  <2>6. configured => Defaults[release'] \subseteq saved' \cup Known' BY <2>1, <2>2, <2>5
  <2>7. downgrades = {} => refused \cap saved' = {} BY <2>4, <2>5 DEF OffersInv
  <2> QED BY <2>1, <2>2, <2>4, <2>5, <2>6, <2>7 DEF OffersInv
<1>5. CASE RecordOffer
  <2>1. /\ phase' = "running" /\ phase = "config" /\ tracked' = TRUE /\ offered' = Defaults[release]
        /\ UNCHANGED <<release, configured, saved, newest, downgrades, refused>>
    BY <1>5 DEF RecordOffer, startVars
  <2>2. Known' = Defaults[release] BY <2>1 DEF Known
  <2>3. release > 1 /\ newest # 1 BY <1>0, <2>1 DEF TypeOK, Starting
  <2>4. 1 \notin downgrades /\ configured => Known' \subseteq saved \cup refused
    BY <2>1, <2>2 DEF OffersInv
  <2> QED BY <2>1, <2>2, <2>3, <2>4 DEF OffersInv
<1>6. CASE (\E c \in Client : InsertAccess(c)) \/ PruneBefore
  BY <1>6 DEF OffersInv, Known, InsertAccess, PruneBefore, settingVars, startVars
<1>7. ASSUME NEW i \in Inode, NEW o \in 0 .. MaxOffset,
             SetIngestState(i, o) \/ \E n \in Name : SetLegacyState(n, i, o)
      PROVE  OffersInv'
  BY <1>7 DEF OffersInv, Known, SetIngestState, SetLegacyState, settingVars, startVars
<1>8. ASSUME NEW ps \in SUBSET Pattern, SetConfig(ps) PROVE OffersInv'
  <2>1. /\ phase = "running" /\ configured' = TRUE /\ saved' = ps
        /\ refused' = (refused \cup (Effective \cap Defaults[release])) \ ps
        /\ UNCHANGED <<release, phase, tracked, offered, newest, downgrades>>
    BY <1>8 DEF SetConfig, startVars
  <2>2. Known' = Known BY <2>1 DEF Known
  <2>3. 1 \notin downgrades => Known = Defaults[release]
    <3>1. CASE release = 1 BY <2>1, <3>1 DEF OffersInv, OffsetsInv, Known
    <3>2. CASE release # 1
      <4>1. release > 1 BY <1>0, <3>2
      <4> QED BY <2>1, <4>1 DEF OffersInv, Known
    <3> QED BY <3>1, <3>2
  <2>4. 1 \notin downgrades => Known \subseteq ps \cup refused'
    <3>1. CASE configured BY <2>1, <2>3, <3>1 DEF OffersInv, Effective
    <3>2. CASE ~configured BY <2>1, <2>3, <3>2 DEF Effective
    <3> QED BY <3>1, <3>2
  <2>5. refused' \cap ps = {} BY <2>1
  <2>6. downgrades = {} => refused' \subseteq Known BY <2>1, <2>3 DEF OffersInv
  <2> QED BY <2>1, <2>2, <2>4, <2>5, <2>6 DEF OffersInv
<1>9. CASE Kill
  BY <1>9 DEF OffersInv, Known, Kill, settingVars, startVars
<1> QED BY <1>1, <1>2, <1>3, <1>4, <1>5, <1>6, <1>7, <1>8, <1>9 DEF Next, Migrate, Offer, Use

LEMMA Invariance == Spec => []IInv
<1>1. Init => IInv BY UpgradesAssumption, InitInv
<1>2. IInv /\ [Next]_vars => IInv'
  BY UpgradesAssumption, TypeStep, RowsStep, OffsetsStep, OffersStep DEF IInv
<1> QED BY <1>1, <1>2, PTL DEF Spec

\* The database and the history of it keep their types, and each step of a start
\* belongs to a release that has it.
THEOREM TypeCorrect == Spec => []TypeOK
<1>1. IInv => TypeOK BY DEF IInv
<1> QED BY <1>1, Invariance, PTL

\* store.ts #migrate leaves no row without its actor, from whatever it finds.
THEOREM ActorsAreKnown == Spec => []EveryRowHasItsActor
<1>1. IInv => EveryRowHasItsActor BY DEF IInv, RowsInv, EveryRowHasItsActor
<1> QED BY <1>1, Invariance, PTL

\* store.ts #migrateIngestState neither loses nor doubles progress, wherever it
\* is cut off.
THEOREM ProgressIsKept == Spec => []ProgressKept
<1>1. IInv => ProgressKept BY DEF IInv, OffsetsInv, ProgressKept
<1> QED BY <1>1, Invariance, PTL

\* engine.ts #offerNewDefaultPatterns gives no removed default back.
THEOREM RemovalsStick == Spec => []RemovedStaysRemoved
<1>1. IInv => RemovedStaysRemoved BY DEF IInv, OffersInv, RemovedStaysRemoved
<1> QED BY <1>1, Invariance, PTL

\* engine.ts #offerNewDefaultPatterns misses no default of the running release.
THEOREM DefaultsReach == Spec => []DefaultsReachInstall
<1>1. IInv => DefaultsReachInstall
  <2> SUFFICES ASSUME IInv, phase = "running", 1 \notin downgrades
               PROVE  Defaults[release] \subseteq Effective \cup refused
    BY DEF DefaultsReachInstall
  <2>1. CASE ~configured BY <2>1 DEF Effective, Current
  <2>2. CASE configured
    <3>1. release \in Nat /\ release >= 1 BY UpgradesAssumption DEF IInv, TypeOK, UpgradesAssumption
    <3>2. Known = Defaults[release]
      <4>1. CASE release = 1 BY <4>1 DEF IInv, OffersInv, OffsetsInv, Known, Baseline
      <4>2. CASE release > 1 BY <4>2 DEF IInv, OffersInv, Known
      <4> QED BY <3>1, <4>1, <4>2
    <3> QED BY <2>2, <3>2 DEF IInv, OffersInv, Effective
  <2> QED BY <2>1, <2>2
<1> QED BY <1>1, Invariance, PTL
===============================================================================
