---------------------------- MODULE LogIngestProofs ----------------------------
(***************************************************************************)
(* What LogIngest promises for every number of inodes, lines, rotations,   *)
(* crashes and exceptions and every buffer size.  IInv is inductive; each  *)
(* of its parts has a lemma, and the properties follow from it.            *)
(***************************************************************************)
EXTENDS LogIngestInv, FiniteSetTheorems, TLAPS

\* A file has a size, which is even but for a line without its newline.
LEMMA SizeType ==
    ASSUME TypeOK, FilesInv, NEW i \in Inode
    PROVE  /\ Size(i) \in Nat
           /\ Len(data[i]) \in Nat
           /\ Size(i) <= 2 * Len(data[i])
           /\ 2 * Len(data[i]) <= Size(i) + 1
BY DEF TypeOK, FilesTypeOK, FilesInv, WriterInv, Size

LEMMA ResumeType ==
    ASSUME TypeOK, NEW i \in Inode
    PROVE  ResumeAt(i) \in Nat
BY DEF TypeOK, FilesTypeOK, ResumeAt, NoState

\* The outcomes of a read stay between its bounds.
LEMMA ReadType ==
    ASSUME TypeOK, FilesInv, NEW i \in Inode, NEW a \in Nat, NEW b \in Nat, a <= b,
           NEW out \in ReadOutcomes(i, a, b)
    PROVE  /\ out.end \in Nat
           /\ out.end <= b
           /\ out.junk \in SUBSET Line
<1>1. CASE Size(i) >= b
  <2>1. out = [end |-> b - (b % 2), junk |-> {}]
    BY <1>1 DEF ReadOutcomes
  <2>2. b % 2 \in 0 .. 1 /\ b % 2 <= b
    OBVIOUS
  <2> QED BY <2>1, <2>2
<1>2. CASE ~(Size(i) >= b)
  <2>1. out \in [end : a .. b, junk : {{}} \cup {{l} : l \in 1 .. written}]
    BY <1>2 DEF ReadOutcomes
  <2>2. \A l \in 1 .. written : l \in Line
    BY FilesAssumption DEF TypeOK, FilesTypeOK, Line
  <2> QED BY <2>1, <2>2
<1> QED BY <1>1, <1>2

\* The number of widened lines among the lines of a read.
LEMMA WideType ==
    ASSUME NEW read \in SUBSET Line
    PROVE  Cardinality(read \cap Widened) \in Nat
<1>1. IsFiniteSet(Line)
  BY FS_Interval, FilesAssumption DEF Line
<1>2. IsFiniteSet(read \cap Widened)
  BY <1>1, FS_Subset
<1> QED BY <1>2, FS_CardinalityType

LEMMA InitOK == Init => IInv
<1> SUFFICES ASSUME Init PROVE IInv
  OBVIOUS
<1> USE FilesAssumption, IngestAssumption DEF Init, FilesInit
<1>1. TypeOK
  BY DEF TypeOK, FilesTypeOK, Name, Line, Idle, NoState
<1>2. FilesInv
  BY DEF FilesInv, WriterInv, LinesInv, Name, Named
<1>3. OffsetsInv /\ UnreadNotStored /\ ReadStored
  BY DEF OffsetsInv, UnreadNotStored, ReadStored, UnderPass, Idle, CompleteAt
<1>4. \A l \in Line : l > written => rows[l] = 0
  OBVIOUS
<1> QED BY <1>1, <1>2, <1>3, <1>4 DEF IInv

\* What erasing a file leaves of the lines.
LEMMA ErasedLines ==
    ASSUME TypeOK, LinesInv, NEW g,
           data' = Erased(data, g), written' = written,
           \A i \in Inode : i # g /\ i \notin Named' => i \notin Named
    PROVE  LinesInv' /\ data' \in [Inode -> Seq(Line)]
<1>1. \A i \in Inode : data'[i] = IF i = g THEN <<>> ELSE data[i]
  BY DEF Erased
<1>2. data' \in [Inode -> Seq(Line)]
  BY DEF Erased, TypeOK, FilesTypeOK
<1>3. \A i \in Inode : i \notin Named' => data'[i] = <<>>
  BY <1>1 DEF LinesInv
<1>4. \A i \in Inode : \A k \in 1 .. Len(data'[i]) :
        i # g /\ data'[i] = data[i] /\ k \in 1 .. Len(data[i])
  BY <1>1
<1> QED BY <1>2, <1>3, <1>4 DEF LinesInv

\* Appending a line keeps the lines apart.
LEMMA AppendedLines ==
    ASSUME TypeOK, LinesInv, WriteText, fd \in Named
    PROVE  LinesInv' /\ data' \in [Inode -> Seq(Line)]
<1> USE FilesAssumption DEF TypeOK, FilesTypeOK
<1>1. data' \in [Inode -> Seq(Line)]
  BY DEF WriteText, Line
<1>2. /\ Len(data'[fd]) = Len(data[fd]) + 1
      /\ data'[fd][Len(data[fd]) + 1] = written + 1
      /\ \A k \in 1 .. Len(data[fd]) : data'[fd][k] = data[fd][k]
      /\ \A i \in Inode : i # fd => data'[i] = data[i]
  BY DEF WriteText
<1> DEFINE new(i, k) == i = fd /\ k = Len(data[fd]) + 1
<1>3. ASSUME NEW i \in Inode, NEW k \in 1 .. Len(data'[i])
      PROVE  \/ new(i, k) /\ data'[i][k] = written + 1
             \/ ~new(i, k) /\ k \in 1 .. Len(data[i]) /\ data'[i][k] = data[i][k]
                /\ data'[i][k] <= written /\ data[i][k] \in Nat
  <2>1. CASE new(i, k)
    BY <1>2, <2>1
  <2>2. CASE ~new(i, k)
    <3>1. k \in 1 .. Len(data[i]) /\ data'[i][k] = data[i][k]
      <4>1. CASE i = fd
        <5>1. k \in 1 .. Len(data[fd]) + 1 /\ k # Len(data[fd]) + 1 /\ Len(data[fd]) \in Nat
          BY <1>2, <2>2, <4>1
        <5> QED BY <1>2, <4>1, <5>1
      <4>2. CASE i # fd
        BY <1>2, <4>2
      <4> QED BY <4>1, <4>2
    <3>2. data[i][k] \in Line
      BY <3>1
    <3> QED BY <2>2, <3>1, <3>2 DEF LinesInv, Line
  <2> QED BY <2>1, <2>2
<1>4. \A i, j \in Inode : \A k \in 1 .. Len(data'[i]) : \A m \in 1 .. Len(data'[j]) :
        data'[i][k] = data'[j][m] => i = j /\ k = m
  <2> SUFFICES ASSUME NEW i \in Inode, NEW j \in Inode,
                      NEW k \in 1 .. Len(data'[i]), NEW m \in 1 .. Len(data'[j]),
                      data'[i][k] = data'[j][m]
               PROVE  i = j /\ k = m
    OBVIOUS
  <2>1. CASE new(i, k) \/ new(j, m)
    <3>1. ASSUME NEW v, v = written + 1, v <= written PROVE FALSE
      BY <3>1
    <3>2. new(i, k) => data'[i][k] = written + 1
      BY <1>3
    <3>3. new(j, m) => data'[j][m] = written + 1
      BY <1>3
    <3>4. ~new(i, k) => data'[i][k] <= written
      BY <1>3
    <3>5. ~new(j, m) => data'[j][m] <= written
      BY <1>3
    <3> QED BY <2>1, <3>1, <3>2, <3>3, <3>4, <3>5
  <2>2. CASE ~new(i, k) /\ ~new(j, m)
    <3>1. k \in 1 .. Len(data[i]) /\ m \in 1 .. Len(data[j]) /\ data[i][k] = data[j][m]
      BY <1>3, <2>2
    <3> QED BY <3>1 DEF LinesInv
  <2> QED BY <2>1, <2>2
<1>5. \A i \in Inode : \A k \in 1 .. Len(data'[i]) : data'[i][k] <= written'
  BY <1>3 DEF WriteText
<1>6. \A i \in Inode : i \notin Named' => data'[i] = <<>>
  BY <1>2 DEF Named, LinesInv, WriteText
<1> QED BY <1>1, <1>4, <1>5, <1>6 DEF LinesInv

LEMMA FilesStep ==
    ASSUME TypeOK, FilesInv, [Next]_vars
    PROVE  FilesTypeOK' /\ FilesInv'
<1> USE FilesAssumption DEF TypeOK, FilesTypeOK, FilesInv
<1>1. CASE UNCHANGED fileVars
  BY <1>1 DEF WriterInv, LinesInv, fileVars, Named
<1>2. CASE WriteText
  <2>1. fd \in Named
    BY DEF Named, Name, WriterInv
  <2>2. LinesInv' /\ data' \in [Inode -> Seq(Line)]
    BY <1>2, <2>1, AppendedLines
  <2>3. WriterInv'
    <3>1. UNCHANGED <<dir, fd>> /\ data'[fd] = Append(data[fd], written + 1)
      BY <1>2 DEF WriteText
    <3>2. \A i \in Inode : i # fd => data'[i] = data[i] /\ open'[i] = open[i]
      BY <1>2 DEF WriteText
    <3>3. data[fd] \in Seq(Line)
      OBVIOUS
    <3>4. Len(data'[fd]) > 0
      BY <3>1, <3>3
    <3> QED BY <3>1, <3>2, <3>4 DEF WriterInv
  <2> QED BY <1>2, <2>2, <2>3 DEF WriteText
<1>3. CASE WriteNewline
  BY <1>3 DEF WriteNewline, WriterInv, LinesInv, Named
<1>4. CASE Rename
  <2>1. dir' \in [Name -> Inode \cup {NoFile}] /\ dir'["log"] = NoFile /\ dir'["log.1"] = dir["log"]
    BY <1>4 DEF Rename, Name
  <2>2. \A i \in Inode : i # dir["log.1"] /\ i \notin Named' => i \notin Named
    BY <2>1 DEF Named, Name
  <2>3. LinesInv' /\ data' \in [Inode -> Seq(Line)]
    BY <1>4, <2>2, ErasedLines DEF Rename
  <2>4. WriterInv'
    BY <1>4, <2>1 DEF Rename, WriterInv, Erased
  <2> QED BY <1>4, <2>1, <2>3, <2>4 DEF Rename
<1>5. ASSUME NEW i \in Inode, Reopen(i) PROVE FilesTypeOK' /\ FilesInv'
  <2>1. dir' \in [Name -> Inode \cup {NoFile}] /\ dir'["log"] = i /\ dir'["log.1"] = dir["log.1"]
    BY <1>5 DEF Reopen, Name
  <2>2. dir["log.1"] # i
    BY <1>5 DEF Reopen, Named, Name
  <2>3. \A j \in Inode : j \notin Named' => j \notin Named
    BY <1>5, <2>1 DEF Reopen, Named, Name
  <2>4. LinesInv'
    BY <1>5, <2>3 DEF Reopen, LinesInv
  <2>5. WriterInv'
    BY <1>5, <2>1, <2>2 DEF Reopen, WriterInv
  <2> QED BY <1>5, <2>1, <2>4, <2>5 DEF Reopen
<1>6. CASE Truncate
  <2>1. Named' = Named
    BY <1>6 DEF Truncate, Named
  <2>2. LinesInv' /\ data' \in [Inode -> Seq(Line)]
    BY <1>6, <2>1, ErasedLines DEF Truncate
  <2>3. WriterInv'
    BY <1>6 DEF Truncate, WriterInv, Erased
  <2>4. open' \in [Inode -> BOOLEAN]
    BY <1>6 DEF Truncate
  <2>5. rotations' \in 0 .. MaxRotations
    BY <1>6 DEF Truncate
  <2>6. UNCHANGED <<dir, fd, written>>
    BY <1>6 DEF Truncate
  <2> QED BY <2>2, <2>3, <2>4, <2>5, <2>6
<1>7. CASE Delete
  <2>1. dir' \in [Name -> Inode \cup {NoFile}] /\ dir'["log"] = dir["log"] /\ dir'["log.1"] = NoFile
    BY <1>7 DEF Delete, Name
  <2>2. \A i \in Inode : i # dir["log.1"] /\ i \notin Named' => i \notin Named
    BY <2>1 DEF Named, Name
  <2>3. LinesInv' /\ data' \in [Inode -> Seq(Line)]
    BY <1>7, <2>2, ErasedLines DEF Delete
  <2>4. WriterInv'
    BY <1>7, <2>1 DEF Delete, WriterInv, Erased
  <2> QED BY <1>7, <2>1, <2>3, <2>4 DEF Delete
<1>8. QED
  BY <1>1, <1>2, <1>3, <1>4, <1>5, <1>6, <1>7
  DEF Next, World, Watcher, vars, NginxWrites, LogRenamed, LogReopened, LogTruncated,
      LogDeleted, Start, BeginPass, PassChunk, PassEnd, PassVanished, PassFails, Watch, Crash

LEMMA PassType ==
    ASSUME TypeOK, pass.on
    PROVE  pass \in Active
BY DEF TypeOK, Idle

\* A pass begins with a record of what it statted.
LEMMA BeginFacts ==
    ASSUME TypeOK, FilesInv, NEW n \in Name, BeginPass(n), dir[n] # NoFile
    PROVE  /\ dir[n] \in Inode /\ dir[n] \in Named
           /\ pass' \in Active
           /\ pass'.on /\ pass'.ino = dir[n] /\ pass'.size = Size(dir[n])
           /\ pass'.offset = ResumeAt(dir[n]) /\ pass'.stored = FALSE
<1>1. dir[n] \in Inode
  BY DEF TypeOK, FilesTypeOK
<1>2. Size(dir[n]) \in Nat /\ ResumeAt(dir[n]) \in Nat
  BY <1>1, SizeType, ResumeType
<1>3. pass' = [on |-> TRUE, file |-> n, ino |-> dir[n], size |-> Size(dir[n]),
               offset |-> ResumeAt(dir[n]), stored |-> FALSE, more |-> TRUE]
  BY DEF BeginPass
<1>4. pass' \in Active
  BY <1>1, <1>2, <1>3 DEF Active
<1>5. dir[n] \in Named
  BY <1>1 DEF Named
<1> QED BY <1>1, <1>3, <1>4, <1>5

\* A chunk advances the offset and stores lines, or finds no line and stops.
LEMMA ChunkFacts ==
    ASSUME TypeOK, FilesInv, PassChunk
    PROVE  /\ pass \in Active
           /\ dir[pass.file] \in Inode /\ dir[pass.file] \in Named
           /\ \E b \in Nat :
              \E out \in ReadOutcomes(dir[pass.file], pass.offset, b) :
              \E read \in SUBSET Line : \E wide \in Nat :
                 /\ pass.offset <= b /\ b <= pass.size
                 /\ out.end \in Nat /\ out.end <= b /\ out.junk \in SUBSET Line
                 /\ read = LinesBetween(dir[pass.file], pass.offset, out.end)
                 /\ \/ /\ out.end > pass.offset
                       /\ rows' = [l \in Line |-> rows[l] + (IF l \in read THEN 1 ELSE 0)
                                                          + (IF l \in out.junk THEN 1 ELSE 0)]
                       /\ pass' = [pass EXCEPT !.offset = out.end + Extra * wide,
                                               !.stored = @ \/ read \cup out.junk # {}]
                    \/ /\ out.end <= pass.offset
                       /\ pass' = [pass EXCEPT !.more = FALSE]
                       /\ rows' = rows
                 /\ mishaps' = mishaps \cup
                      ((IF dir[pass.file] # pass.ino \/ Size(dir[pass.file]) < b
                          THEN {"swapped"} ELSE {})
                       \cup (IF wide > 0 THEN {"drifted"} ELSE {}))
<1> DEFINE i == dir[pass.file]
           b == IF pass.offset + BufLimit < pass.size THEN pass.offset + BufLimit ELSE pass.size
           read(out) == LinesBetween(i, pass.offset, out.end)
           wide(out) == Cardinality(read(out) \cap Widened)
<1>1. pass \in Active
  BY PassType DEF PassChunk
<1>2. i \in Inode /\ i \in Named
  BY <1>1 DEF PassChunk, TypeOK, FilesTypeOK, Active, Named
<1>3. b \in Nat /\ pass.offset <= b /\ b <= pass.size /\ pass.offset \in Nat
  BY <1>1, IngestAssumption DEF PassChunk, Active
<1>4. PICK out \in ReadOutcomes(i, pass.offset, b) :
        /\ IF out.end > pass.offset
             THEN /\ rows' = [l \in Line |-> rows[l] + (IF l \in read(out) THEN 1 ELSE 0)
                                                     + (IF l \in out.junk THEN 1 ELSE 0)]
                  /\ pass' = [pass EXCEPT !.offset = out.end + Extra * wide(out),
                                          !.stored = @ \/ read(out) \cup out.junk # {}]
             ELSE /\ pass' = [pass EXCEPT !.more = FALSE]
                  /\ UNCHANGED rows
        /\ Aside((IF i # pass.ino \/ Size(i) < b THEN {"swapped"} ELSE {})
                 \cup (IF wide(out) > 0 THEN {"drifted"} ELSE {}))
  BY DEF PassChunk, InsertBatch
<1>5. out.end \in Nat /\ out.end <= b /\ out.junk \in SUBSET Line
  BY <1>2, <1>3, ReadType
<1>6. read(out) \in SUBSET Line
  BY DEF LinesBetween
<1>7. wide(out) \in Nat
  BY <1>6, WideType
<1> HIDE DEF i, b, read, wide
<1>8. /\ \/ /\ out.end > pass.offset
            /\ rows' = [l \in Line |-> rows[l] + (IF l \in read(out) THEN 1 ELSE 0)
                                               + (IF l \in out.junk THEN 1 ELSE 0)]
            /\ pass' = [pass EXCEPT !.offset = out.end + Extra * wide(out),
                                    !.stored = @ \/ read(out) \cup out.junk # {}]
         \/ out.end <= pass.offset /\ pass' = [pass EXCEPT !.more = FALSE] /\ rows' = rows
      /\ mishaps' = mishaps \cup ((IF i # pass.ino \/ Size(i) < b THEN {"swapped"} ELSE {})
                                  \cup (IF wide(out) > 0 THEN {"drifted"} ELSE {}))
  BY <1>3, <1>4, <1>5 DEF Aside
<1>9. read(out) = LinesBetween(i, pass.offset, out.end)
  BY DEF read
<1> QED BY <1>1, <1>2, <1>3, <1>5, <1>6, <1>7, <1>8, <1>9 DEF i

\* Types, and what does not depend on what has happened.
Plain ==
    /\ TypeOK
    /\ FilesInv
    /\ mode = "down" => pass = Idle
    /\ \A l \in Line : l > written => rows[l] = 0

LEMMA PlainStep ==
    ASSUME Plain, [Next]_vars
    PROVE  Plain' /\ mishaps \subseteq mishaps'
<1> USE FilesAssumption, IngestAssumption
<1>0. FilesTypeOK' /\ FilesInv' /\ written' \in Nat /\ written \in Nat /\ written <= written'
  <2>1. FilesTypeOK' /\ FilesInv'
    BY FilesStep DEF Plain
  <2>2. written' = written \/ written' = written + 1
    BY DEF Next, World, Watcher, vars, fileVars, NginxWrites, LogRenamed, LogReopened, LogTruncated,
      LogDeleted, WriteText, WriteNewline, Rename, Reopen, Truncate, Delete,
      Start, BeginPass, PassChunk, PassEnd, PassVanished, PassFails, Watch, Crash
  <2>3. written \in Nat
    BY DEF Plain, TypeOK, FilesTypeOK
  <2> QED BY <2>1, <2>2, <2>3
<1> DEFINE Db == rows \in [Line -> Nat] /\ ingest \in [Inode -> Nat \cup {NoState}]
           Proc == /\ mode \in {"down", "backfill", "watching"}
                   /\ todo \subseteq Name /\ dirty \subseteq Name
                   /\ pass \in Active \cup {Idle}
                   /\ mode = "down" => pass = Idle
           Cnt == crashes \in 0 .. MaxCrashes /\ faults \in 0 .. MaxFaults
           Hist == stale \subseteq Inode /\ lost \subseteq Line /\ mishaps \subseteq Mishap
           New == \A l \in Line : l > written => rows[l] = 0
<1>1. Db /\ Proc /\ Cnt /\ Hist /\ New
  BY DEF Plain, TypeOK
<1>2. SUFFICES Db' /\ Proc' /\ Cnt' /\ Hist' /\ New' /\ mishaps \subseteq mishaps'
  BY <1>0 DEF Plain, TypeOK
<1>3. rows' = rows => New'
  <2>1. SUFFICES ASSUME rows' = rows, NEW l \in Line, l > written' PROVE rows[l] = 0
    OBVIOUS
  <2>2. l > written
    BY <1>0, <2>1 DEF Line
  <2> QED BY <1>1, <2>2
<1>4. CASE UNCHANGED vars
  BY <1>1, <1>3, <1>4 DEF vars, dbVars, procVars, counts
<1>5. CASE NginxWrites
  BY <1>1, <1>3, <1>5 DEF NginxWrites, Notify, Names, dbVars, counts
<1>6. CASE LogRenamed
  BY <1>1, <1>3, <1>6 DEF LogRenamed, Notify, Unstored, Name, dbVars, counts
<1>7. CASE LogReopened
  BY <1>1, <1>3, <1>7 DEF LogReopened, Notify, Aside, Mishap, Name, dbVars, counts
<1>8. CASE LogTruncated
  <2>1. dir["log"] \in Inode
    BY <1>8 DEF LogTruncated, Truncate, Plain, TypeOK, FilesTypeOK, Name
  <2> QED BY <1>1, <1>3, <1>8, <2>1 DEF LogTruncated, Notify, Aside, Unstored, Mishap, Name, dbVars, counts
<1>9. CASE LogDeleted
  BY <1>1, <1>3, <1>9 DEF LogDeleted, Unstored, dbVars, procVars, counts
<1>10. CASE Start
  BY <1>1, <1>3, <1>10 DEF Start, PruneIngestState, counts
<1>11. ASSUME NEW n \in Name, BeginPass(n)
       PROVE Db' /\ Proc' /\ Cnt' /\ Hist' /\ New' /\ mishaps \subseteq mishaps'
  <2>1. CASE dir[n] = NoFile
    BY <1>1, <1>3, <1>11, <2>1 DEF BeginPass, dbVars, counts
  <2>2. CASE dir[n] # NoFile
    <3>1. pass' \in Active
      BY <1>11, <2>2, BeginFacts DEF Plain
    <3> QED BY <1>1, <1>3, <1>11, <2>2, <3>1 DEF BeginPass, Aside, Mishap, dbVars, counts
  <2> QED BY <2>1, <2>2
<1>12. CASE PassChunk
  <2>0. PICK b \in Nat :
           \E out \in ReadOutcomes(dir[pass.file], pass.offset, b) :
           \E read \in SUBSET Line : \E wide \in Nat :
                 /\ out.end \in Nat /\ out.junk \in SUBSET Line
                 /\ read = LinesBetween(dir[pass.file], pass.offset, out.end)
                 /\ \/ /\ rows' = [l \in Line |-> rows[l] + (IF l \in read THEN 1 ELSE 0)
                                                          + (IF l \in out.junk THEN 1 ELSE 0)]
                       /\ pass' = [pass EXCEPT !.offset = out.end + Extra * wide,
                                               !.stored = @ \/ read \cup out.junk # {}]
                    \/ /\ pass' = [pass EXCEPT !.more = FALSE]
                       /\ rows' = rows
                 /\ mishaps' = mishaps \cup
                      ((IF dir[pass.file] # pass.ino \/ Size(dir[pass.file]) < b
                          THEN {"swapped"} ELSE {})
                       \cup (IF wide > 0 THEN {"drifted"} ELSE {}))
    BY <1>12, ChunkFacts DEF Plain
  <2>1. PICK out \in ReadOutcomes(dir[pass.file], pass.offset, b),
             read \in SUBSET Line, wide \in Nat :
                 /\ out.end \in Nat /\ out.junk \in SUBSET Line
                 /\ read = LinesBetween(dir[pass.file], pass.offset, out.end)
                 /\ \/ /\ rows' = [l \in Line |-> rows[l] + (IF l \in read THEN 1 ELSE 0)
                                                          + (IF l \in out.junk THEN 1 ELSE 0)]
                       /\ pass' = [pass EXCEPT !.offset = out.end + Extra * wide,
                                               !.stored = @ \/ read \cup out.junk # {}]
                    \/ /\ pass' = [pass EXCEPT !.more = FALSE]
                       /\ rows' = rows
                 /\ mishaps' = mishaps \cup
                      ((IF dir[pass.file] # pass.ino \/ Size(dir[pass.file]) < b
                          THEN {"swapped"} ELSE {})
                       \cup (IF wide > 0 THEN {"drifted"} ELSE {}))
    BY <2>0
  <2>2. pass \in Active /\ dir[pass.file] \in Inode
    BY <1>12, ChunkFacts DEF Plain
  <2>3. UNCHANGED <<ingest, mode, todo, dirty, crashes, faults, stale, lost>> /\ written' = written
    BY <1>12 DEF PassChunk, counts, fileVars
  <2>4. rows' \in [Line -> Nat]
    BY <1>1, <2>1
  <2>5. out.end + Extra * wide \in Nat
    BY <2>1
  <2>6. pass' \in Active
    BY <2>1, <2>2, <2>5 DEF Active
  <2>7. \A l \in Line : l \in read \cup out.junk => l <= written
    <3>1. \A l \in out.junk : l \in 1 .. written
      BY <2>1 DEF ReadOutcomes
    <3>2. \A l \in read : \E k \in 1 .. Len(data[dir[pass.file]]) : data[dir[pass.file]][k] = l
      BY <2>1 DEF LinesBetween
    <3>3. \A l \in read : l <= written
      BY <2>2, <3>2 DEF Plain, FilesInv, LinesInv
    <3> QED BY <1>0, <3>1, <3>3 DEF Line
  <2>8. New'
    <3>1. SUFFICES ASSUME NEW l \in Line, l > written PROVE rows'[l] = 0
      BY <2>3
    <3>2. l \notin read /\ l \notin out.junk
      BY <1>0, <2>7, <3>1 DEF Line
    <3> QED BY <1>1, <2>1, <3>1, <3>2
  <2>9. mode # "down"
    BY <1>1, <2>2, <1>12 DEF Idle, PassChunk
  <2> QED BY <1>1, <2>1, <2>3, <2>4, <2>6, <2>8, <2>9 DEF Mishap
<1>13. CASE PassEnd
  <2>1. pass \in Active
    BY <1>13, PassType DEF PassEnd, SetIngestState, Plain
  <2>2. ingest' \in [Inode -> Nat \cup {NoState}]
    BY <1>1, <1>13, <2>1 DEF PassEnd, SetIngestState, Active
  <2> QED BY <1>1, <1>3, <1>13, <2>2 DEF PassEnd, SetIngestState, counts
<1>14. CASE PassVanished
  BY <1>1, <1>3, <1>14 DEF PassVanished, Aside, Abandoned, Mishap, dbVars, counts
<1>15. CASE PassFails
  <2>1. faults' \in 0 .. MaxFaults
    BY <1>1, <1>15 DEF PassFails
  <2> QED BY <1>1, <1>3, <1>15, <2>1 DEF PassFails, Aside, Abandoned, Mishap, dbVars
<1>16. CASE Watch
  BY <1>1, <1>3, <1>16 DEF Watch, Aside, Mishap, dbVars, counts, Idle
<1>17. CASE Crash
  <2>1. crashes' \in 0 .. MaxCrashes
    BY <1>1, <1>17 DEF Crash
  <2> QED BY <1>1, <1>3, <1>17, <2>1 DEF Crash, Aside, Abandoned, Mishap, dbVars
<1> QED
  BY <1>4, <1>5, <1>6, <1>7, <1>8, <1>9, <1>10, <1>11, <1>12, <1>13, <1>14, <1>15, <1>16, <1>17
  DEF Next, World, Watcher

--------------------------------------------------------------------------------
(* Saved offsets.                                                             *)

\* The outside world leaves a file that keeps its name at least as long as it
\* was; otherwise its saved offset is marked and a pass over it is disturbed.
LEMMA WorldStep ==
    ASSUME Plain, World
    PROVE  /\ UNCHANGED <<rows, ingest, pass>> /\ stale \subseteq stale'
           /\ \A i \in Inode : i \in Named' =>
                \/ i \in Named /\ Size(i) <= Size(i)'
                \/ /\ data'[i] = <<>>
                   /\ ingest[i] # NoState => i \in stale'
                   /\ UnderPass(i) => "swapped" \in mishaps'
<1> USE DEF Plain, TypeOK, FilesTypeOK, FilesInv
<1>1. UNCHANGED <<rows, ingest, pass>> /\ stale \subseteq stale'
  BY DEF World, NginxWrites, LogRenamed, LogReopened, LogTruncated, LogDeleted, dbVars, procVars
<1>2. SUFFICES ASSUME NEW i \in Inode, i \in Named'
               PROVE  \/ i \in Named /\ Size(i) <= Size(i)'
                      \/ /\ data'[i] = <<>>
                         /\ ingest[i] # NoState => i \in stale'
                         /\ UnderPass(i) => "swapped" \in mishaps'
  BY <1>1
<1>3. (data'[i] = data[i] /\ open'[i] = open[i]) => Size(i) <= Size(i)'
  <2>1. SUFFICES ASSUME data'[i] = data[i], open'[i] = open[i] PROVE Size(i)' = Size(i) /\ Size(i) \in Int
    OBVIOUS
  <2>2. Size(i) \in Nat
    BY SizeType
  <2> QED BY <2>1, <2>2 DEF Size
<1>4. CASE NginxWrites
  <2>1. Named' = Named
    BY <1>4 DEF NginxWrites, WriteText, WriteNewline, Named
  <2>2. Size(i) <= Size(i)'
    <3>1. CASE i # fd
      <4>1. data'[i] = data[i] /\ open'[i] = open[i]
        BY <1>4, <3>1 DEF NginxWrites, WriteText, WriteNewline
      <4> QED BY <1>3, <4>1
    <3>2. CASE i = fd /\ WriteText
      <4>1. Len(data'[fd]) = Len(data[fd]) + 1 /\ open'[fd] /\ ~open[fd] /\ Len(data[fd]) \in Nat
        BY <3>2 DEF WriteText
      <4> QED BY <3>2, <4>1 DEF Size
    <3>3. CASE i = fd /\ WriteNewline
      <4>1. data' = data /\ ~open'[fd] /\ open[fd] /\ Len(data[fd]) \in Nat
        BY <3>3 DEF WriteNewline
      <4> QED BY <3>3, <4>1 DEF Size
    <3> QED BY <1>4, <3>1, <3>2, <3>3 DEF NginxWrites
  <2> QED BY <1>2, <2>1, <2>2
<1>5. CASE LogRenamed
  <2>1. i = dir["log"] /\ open'[i] = open[i]
    BY <1>2, <1>5, FilesAssumption DEF LogRenamed, Rename, Named, Name
  <2>2. data'[i] = data[i]
    BY <1>5, <2>1 DEF LogRenamed, Rename, Erased, WriterInv
  <2>3. i \in Named
    BY <2>1 DEF Named, Name
  <2> QED BY <1>3, <2>1, <2>2, <2>3
<1>6. CASE LogReopened
  <2>1. PICK j \in Inode : /\ Reopen(j)
                           /\ stale' = stale \cup (IF ingest[j] # NoState THEN {j} ELSE {})
                           /\ Aside(IF UnderPass(j) THEN {"swapped"} ELSE {})
    BY <1>6 DEF LogReopened
  <2>2. data'[i] = data[i] /\ open'[i] = open[i]
    BY <2>1 DEF Reopen
  <2>3. CASE i = j
    <3>1. data[i] = <<>>
      BY <2>1, <2>3 DEF Reopen, LinesInv
    <3> QED BY <2>1, <2>2, <2>3, <3>1 DEF Aside
  <2>4. CASE i # j
    <3>1. i \in Named
      BY <1>2, <2>1, <2>4 DEF Reopen, Named, Name
    <3> QED BY <1>3, <2>2, <3>1
  <2> QED BY <2>3, <2>4
<1>7. CASE LogTruncated
  <2>1. CASE i = dir["log"]
    <3>1. data'[i] = <<>>
      BY <1>7, <2>1 DEF LogTruncated, Truncate, Erased
    <3> QED BY <1>7, <2>1, <3>1 DEF LogTruncated, Aside
  <2>2. CASE i # dir["log"]
    <3>1. data'[i] = data[i] /\ open'[i] = open[i] /\ i \in Named
      BY <1>2, <1>7, <2>2 DEF LogTruncated, Truncate, Erased, Named
    <3> QED BY <1>3, <3>1
  <2> QED BY <2>1, <2>2
<1>8. CASE LogDeleted
  <2>1. dir'["log"] = dir["log"] /\ dir'["log.1"] = NoFile
    BY <1>8 DEF LogDeleted, Delete, Name
  <2>2. i = dir["log"]
    BY <1>2, <2>1, FilesAssumption DEF Named, Name
  <2>3. data'[i] = data[i] /\ open'[i] = open[i]
    BY <1>8, <2>2 DEF LogDeleted, Delete, Erased, WriterInv
  <2> QED BY <1>3, <2>2, <2>3 DEF Named, Name
<1> QED BY <1>4, <1>5, <1>6, <1>7, <1>8 DEF World

\* A chunk of a file that is still the one the pass statted.
LEMMA SoundChunk ==
    ASSUME Plain, PassChunk, Sound'
    PROVE  /\ pass \in Active /\ pass.ino \in Inode /\ pass.ino \in Named
           /\ \E e \in Nat :
                /\ e % 2 = 0 /\ e <= pass.size /\ e <= Size(pass.ino)
                /\ \/ /\ e > pass.offset
                      /\ rows' = [l \in Line |-> rows[l] +
                           (IF l \in LinesBetween(pass.ino, pass.offset, e) THEN 1 ELSE 0)]
                      /\ pass' = [pass EXCEPT !.offset = e,
                           !.stored = @ \/ LinesBetween(pass.ino, pass.offset, e) # {}]
                   \/ rows' = rows /\ pass' = [pass EXCEPT !.more = FALSE]
<1> DEFINE i == dir[pass.file]
<1>1. PICK b \in Nat :
              \E out \in ReadOutcomes(i, pass.offset, b) :
              \E read \in SUBSET Line : \E wide \in Nat :
                 /\ b <= pass.size
                 /\ out.end \in Nat
                 /\ read = LinesBetween(i, pass.offset, out.end)
                 /\ \/ /\ out.end > pass.offset
                       /\ rows' = [l \in Line |-> rows[l] + (IF l \in read THEN 1 ELSE 0)
                                                          + (IF l \in out.junk THEN 1 ELSE 0)]
                       /\ pass' = [pass EXCEPT !.offset = out.end + Extra * wide,
                                               !.stored = @ \/ read \cup out.junk # {}]
                    \/ pass' = [pass EXCEPT !.more = FALSE] /\ rows' = rows
                 /\ mishaps' = mishaps \cup
                      ((IF i # pass.ino \/ Size(i) < b THEN {"swapped"} ELSE {})
                       \cup (IF wide > 0 THEN {"drifted"} ELSE {}))
  BY ChunkFacts DEF Plain
<1>2. PICK out \in ReadOutcomes(i, pass.offset, b), read \in SUBSET Line, wide \in Nat :
                 /\ b <= pass.size
                 /\ out.end \in Nat
                 /\ read = LinesBetween(i, pass.offset, out.end)
                 /\ \/ /\ out.end > pass.offset
                       /\ rows' = [l \in Line |-> rows[l] + (IF l \in read THEN 1 ELSE 0)
                                                          + (IF l \in out.junk THEN 1 ELSE 0)]
                       /\ pass' = [pass EXCEPT !.offset = out.end + Extra * wide,
                                               !.stored = @ \/ read \cup out.junk # {}]
                    \/ pass' = [pass EXCEPT !.more = FALSE] /\ rows' = rows
                 /\ mishaps' = mishaps \cup
                      ((IF i # pass.ino \/ Size(i) < b THEN {"swapped"} ELSE {})
                       \cup (IF wide > 0 THEN {"drifted"} ELSE {}))
  BY <1>1
<1>3. pass \in Active /\ i \in Inode /\ i \in Named
  BY ChunkFacts DEF Plain
<1>4. i = pass.ino /\ ~(Size(i) < b) /\ wide = 0
  BY <1>2 DEF Sound
<1>5. Size(i) \in Nat
  BY <1>3, SizeType DEF Plain
<1>6. out = [end |-> b - (b % 2), junk |-> {}]
  BY <1>4, <1>5 DEF ReadOutcomes
<1>7. out.end % 2 = 0 /\ out.end <= b /\ out.junk = {}
  BY <1>6
<1>8. out.end + Extra * wide = out.end
  BY <1>2, <1>4, IngestAssumption
<1>9. out.end <= pass.size /\ out.end <= Size(pass.ino)
  BY <1>2, <1>3, <1>4, <1>5, <1>7 DEF Active
<1>10. read \cup out.junk = read
  BY <1>7
<1>11. [l \in Line |-> rows[l] + (IF l \in read THEN 1 ELSE 0) + (IF l \in out.junk THEN 1 ELSE 0)]
        = [l \in Line |-> rows[l] + (IF l \in read THEN 1 ELSE 0)]
  BY <1>7 DEF Plain, TypeOK
<1> HIDE DEF i
<1>12. read = LinesBetween(pass.ino, pass.offset, out.end)
  BY <1>2, <1>4
<1>13. CASE pass' = [pass EXCEPT !.more = FALSE] /\ rows' = rows
  BY <1>2, <1>3, <1>4, <1>7, <1>9, <1>13
<1>14. CASE /\ out.end > pass.offset
            /\ rows' = [l \in Line |-> rows[l] + (IF l \in read THEN 1 ELSE 0)
                                               + (IF l \in out.junk THEN 1 ELSE 0)]
            /\ pass' = [pass EXCEPT !.offset = out.end + Extra * wide,
                                    !.stored = @ \/ read \cup out.junk # {}]
  <2>1. rows' = [l \in Line |-> rows[l] +
                   (IF l \in LinesBetween(pass.ino, pass.offset, out.end) THEN 1 ELSE 0)]
    BY <1>11, <1>12, <1>14
  <2>2. pass' = [pass EXCEPT !.offset = out.end,
                   !.stored = @ \/ LinesBetween(pass.ino, pass.offset, out.end) # {}]
    BY <1>8, <1>10, <1>12, <1>14
  <2> QED BY <1>2, <1>3, <1>4, <1>7, <1>9, <1>14, <2>1, <2>2
<1> QED BY <1>2, <1>13, <1>14

LEMMA SoundBefore ==
    ASSUME mishaps \subseteq mishaps'
    PROVE  /\ Sound' => Sound
           /\ "interrupted" \notin mishaps' => "interrupted" \notin mishaps
           /\ "masked" \notin mishaps' => "masked" \notin mishaps
BY DEF Sound

LEMMA SameFiles ==
    ASSUME UNCHANGED fileVars
    PROVE  /\ Named' = Named /\ UNCHANGED <<dir, data, written>>
           /\ \A i \in Inode : Size(i)' = Size(i)
BY DEF fileVars, Named, Size

LEMMA OffsetsStep ==
    ASSUME Plain, Sound, OffsetsInv, Sound', [Next]_vars
    PROVE  OffsetsInv'
<1> USE DEF Plain, TypeOK, FilesTypeOK
<1> DEFINE Saved == \A i \in Inode :
                      ingest[i] # NoState =>
                        /\ ingest[i] % 2 = 0
                        /\ i \in Named /\ i \notin stale => ingest[i] <= Size(i)
           Held == pass.on =>
                     /\ pass.offset % 2 = 0
                     /\ pass.offset <= pass.size
                     /\ pass.ino \in Named => pass.size <= Size(pass.ino)
                     /\ pass.ino \notin stale => ingest[pass.ino] <= pass.offset
<1>1. Saved /\ Held
  BY DEF OffsetsInv
<1>2. SUFFICES Saved' /\ Held'
  BY DEF OffsetsInv
<1>a. pass.on => pass.ino \in Inode
  BY PassType DEF Active
<1>3. CASE World
  <2>1. UNCHANGED <<rows, ingest, pass>> /\ stale \subseteq stale'
    BY <1>3, WorldStep
  <2>2. Saved'
    <3>1. SUFFICES ASSUME NEW i \in Inode, ingest[i] # NoState, i \in Named', i \notin stale'
                   PROVE  ingest[i] <= Size(i)'
      BY <1>1, <2>1
    <3>2. i \in Named /\ i \notin stale /\ Size(i) <= Size(i)'
      BY <1>3, <2>1, <3>1, WorldStep
    <3>3. ingest[i] <= Size(i) /\ ingest[i] \in Int /\ Size(i) \in Int /\ Size(i)' \in Int
      BY <1>1, <3>1, <3>2, SizeType, FilesStep, SizeType DEF Size, NoState
    <3> QED BY <3>2, <3>3
  <2>3. Held'
    <3>1. SUFFICES ASSUME pass.on, pass.ino \in Named' PROVE pass.size <= Size(pass.ino)'
      BY <1>1, <2>1
    <3>2. pass \in Active
      BY <3>1, PassType
    <3>3. pass.ino \in Inode /\ UnderPass(pass.ino)
      BY <3>1, <3>2 DEF Active, UnderPass
    <3>4. pass.ino \in Named /\ Size(pass.ino) <= Size(pass.ino)'
      BY <1>3, <3>1, <3>3, WorldStep DEF Sound
    <3>5. pass.size <= Size(pass.ino) /\ pass.size \in Int
      BY <1>1, <3>1, <3>2, <3>4 DEF Active
    <3>6. Size(pass.ino) \in Int /\ Size(pass.ino)' \in Int
      BY <3>3, FilesStep DEF Size
    <3> QED BY <3>4, <3>5, <3>6
  <2> QED BY <2>2, <2>3
<1>4. CASE UNCHANGED <<fileVars, ingest, stale, pass>>
  BY <1>1, <1>a, <1>4, SameFiles
<1>5. CASE UNCHANGED <<fileVars, ingest, stale>> /\ pass' = Idle
  BY <1>1, <1>5, SameFiles DEF Idle
<1>6. CASE Start
  <2>1. UNCHANGED fileVars /\ pass = Idle /\ pass' = pass
    BY <1>6 DEF Start, PruneIngestState
  <2>2. ASSUME NEW i \in Inode
        PROVE (ingest'[i] = NoState \/ (ingest'[i] = ingest[i] /\ i \in Named))
              /\ (i \in Named => (i \in stale' <=> i \in stale))
    BY <1>6 DEF Start, PruneIngestState
  <2> QED BY <1>1, <2>1, <2>2, SameFiles DEF Idle
<1>7. ASSUME NEW n \in Name, BeginPass(n), dir[n] # NoFile PROVE Saved' /\ Held'
  <2> DEFINE i == dir[n]
  <2>1. /\ i \in Inode /\ i \in Named /\ pass'.on /\ pass'.ino = i /\ pass'.size = Size(i)
        /\ pass'.offset = ResumeAt(i)
    BY <1>7, BeginFacts
  <2>2. UNCHANGED <<fileVars, ingest, stale>>
    BY <1>7 DEF BeginPass, dbVars
  <2>3. Saved'
    BY <1>1, <2>2, SameFiles
  <2>4. Size(i) \in Nat /\ ingest[i] \in Nat \cup {NoState}
    BY <2>1, SizeType
  <2>5. ResumeAt(i) % 2 = 0 /\ ResumeAt(i) <= Size(i)
    BY <1>1, <2>1, <2>4 DEF ResumeAt
  <2>6. i \notin stale => ingest[i] <= ResumeAt(i)
    BY <1>1, <2>1, <2>4 DEF ResumeAt, NoState
  <2>7. Size(pass.ino)' = Size(i)
    BY <2>1, <2>2 DEF Size, fileVars
  <2>8. Held'
    <3> HIDE DEF i
    <3> QED BY <2>1, <2>2, <2>4, <2>5, <2>6, <2>7
  <2> QED BY <2>3, <2>8
<1>8. CASE PassChunk
  <2>1. pass \in Active /\ pass.ino \in Inode /\ pass.on
    BY <1>8, SoundChunk DEF PassChunk
  <2>2. UNCHANGED <<fileVars, ingest, stale>>
    BY <1>8 DEF PassChunk
  <2>3. PICK e \in Nat :
          /\ e % 2 = 0 /\ e <= pass.size
          /\ \/ e > pass.offset /\ pass' = [pass EXCEPT !.offset = e,
                           !.stored = @ \/ LinesBetween(pass.ino, pass.offset, e) # {}]
             \/ pass' = [pass EXCEPT !.more = FALSE]
    BY <1>8, SoundChunk
  <2>4. /\ pass'.ino = pass.ino /\ pass'.size = pass.size /\ pass'.on
        /\ \/ pass'.offset = e /\ e > pass.offset
           \/ pass'.offset = pass.offset
    BY <2>1, <2>3 DEF Active
  <2>5. pass.offset \in Nat /\ ingest[pass.ino] \in Nat \cup {NoState}
    BY <2>1 DEF Active
  <2>6. Held'
    BY <1>1, <2>1, <2>2, <2>3, <2>4, <2>5, SameFiles DEF NoState
  <2> QED BY <1>1, <2>2, <2>6, SameFiles
<1>9. CASE PassEnd
  <2>1. pass \in Active /\ pass.ino \in Inode /\ pass.on
    BY <1>9, PassType DEF PassEnd, SetIngestState, Active
  <2>2. UNCHANGED fileVars /\ pass' = Idle /\ stale' = stale \ {pass.ino}
        /\ ingest' = [ingest EXCEPT ![pass.ino] = pass.offset]
    BY <1>9 DEF PassEnd, SetIngestState
  <2>3. pass.offset \in Nat /\ pass.size \in Nat /\ Size(pass.ino) \in Nat
    BY <2>1, SizeType DEF Active
  <2>4. Saved'
    <3>1. SUFFICES ASSUME NEW i \in Inode, ingest'[i] # NoState
                   PROVE  ingest'[i] % 2 = 0 /\ (i \in Named /\ i \notin stale' => ingest'[i] <= Size(i))
      BY <2>2, SameFiles
    <3>2. CASE i = pass.ino
      BY <1>1, <2>1, <2>2, <2>3, <3>2
    <3>3. CASE i # pass.ino
      BY <1>1, <2>1, <2>2, <3>1, <3>3
    <3> QED BY <3>2, <3>3
  <2> QED BY <2>2, <2>4 DEF Idle
<1>10. ASSUME NEW n \in Name, BeginPass(n), dir[n] = NoFile
       PROVE UNCHANGED <<fileVars, ingest, stale, pass>>
  BY <1>10 DEF BeginPass, dbVars
<1> QED
  BY <1>3, <1>4, <1>5, <1>6, <1>7, <1>8, <1>9, <1>10
  DEF Next, Watcher, vars, dbVars, procVars, PassVanished, PassFails, Watch, Crash

--------------------------------------------------------------------------------
(* Stored lines.                                                              *)

\* The lines of a file after a step of the outside world: those it had, and at
\* its end at most one that is new.
LEMMA WorldLines ==
    ASSUME Plain, World, NEW i \in Inode
    PROVE  /\ i \in stale' /\ i \notin stale => data'[i] = <<>>
           /\ \A k \in 1 .. Len(data'[i]) :
                \/ i \in Named /\ k \in 1 .. Len(data[i]) /\ data'[i][k] = data[i][k]
                \/ i = fd /\ i \in Named /\ k = Len(data[i]) + 1 /\ data'[i][k] = written + 1
<1> USE DEF Plain, TypeOK, FilesTypeOK, FilesInv
<1> DEFINE Old(k) == i \in Named /\ k \in 1 .. Len(data[i]) /\ data'[i][k] = data[i][k]
<1>1. ASSUME data'[i] = data[i] \/ data'[i] = <<>>
      PROVE  \A k \in 1 .. Len(data'[i]) : Old(k)
  <2>1. SUFFICES ASSUME NEW k \in 1 .. Len(data'[i]) PROVE Old(k)
    OBVIOUS
  <2>2. data'[i] = data[i] /\ data[i] # <<>>
    BY <1>1, <2>1
  <2> QED BY <2>1, <2>2 DEF LinesInv
<1>2. CASE NginxWrites
  <2>1. stale' = stale
    BY <1>2 DEF NginxWrites
  <2>2. CASE WriteText /\ i = fd
    <3>1. i \in Named
      BY <2>2 DEF WriterInv, Named, Name
    <3>2. /\ Len(data'[i]) = Len(data[i]) + 1 /\ Len(data[i]) \in Nat
          /\ data'[i][Len(data[i]) + 1] = written + 1
          /\ \A k \in 1 .. Len(data[i]) : data'[i][k] = data[i][k]
      BY <2>2 DEF WriteText
    <3>3. \A k \in 1 .. Len(data[i]) + 1 : k \in 1 .. Len(data[i]) \/ k = Len(data[i]) + 1
      BY <3>2
    <3> QED BY <2>1, <2>2, <3>1, <3>2, <3>3
  <2>3. CASE ~(WriteText /\ i = fd)
    <3>1. data'[i] = data[i]
      BY <1>2, <2>3 DEF NginxWrites, WriteText, WriteNewline
    <3> QED BY <1>1, <2>1, <3>1
  <2> QED BY <2>2, <2>3
<1>3. CASE LogRenamed \/ LogDeleted
  <2>1. stale' = stale /\ (data'[i] = data[i] \/ data'[i] = <<>>)
    BY <1>3 DEF LogRenamed, LogDeleted, Rename, Delete, Erased
  <2> QED BY <1>1, <2>1
<1>4. CASE LogReopened
  <2>1. PICK j \in Inode : Reopen(j) /\ stale' = stale \cup (IF ingest[j] # NoState THEN {j} ELSE {})
    BY <1>4 DEF LogReopened
  <2>2. data' = data /\ data[j] = <<>>
    BY <2>1 DEF Reopen, LinesInv
  <2> QED BY <1>1, <2>1, <2>2
<1>5. CASE LogTruncated
  <2>1. /\ data'[i] = IF i = dir["log"] THEN <<>> ELSE data[i]
        /\ stale' = stale \cup (IF ingest[dir["log"]] # NoState THEN {dir["log"]} ELSE {})
    BY <1>5 DEF LogTruncated, Truncate, Erased
  <2> QED BY <1>1, <2>1
<1> QED BY <1>2, <1>3, <1>4, <1>5 DEF World

LEMMA NamedLine ==
    ASSUME Plain, NEW i \in Inode, NEW k \in 1 .. Len(data[i])
    PROVE  i \in Named /\ data[i][k] \in Line /\ rows[data[i][k]] \in Nat /\ k \in Nat \ {0}
<1>1. data[i] # <<>> /\ data[i] \in Seq(Line)
  BY DEF Plain, TypeOK, FilesTypeOK
<1>2. data[i][k] \in Line
  BY <1>1
<1> QED BY <1>1, <1>2 DEF Plain, FilesInv, LinesInv, TypeOK

LEMMA UnreadStep ==
    ASSUME Plain, Plain', Sound, OffsetsInv, UnreadNotStored, [Next]_vars,
           Sound', "interrupted" \notin mishaps'
    PROVE  UnreadNotStored'
<1> DEFINE Once == \A l \in Line : rows[l] <= 1
           A(i, k) == Pending(i, k) /\ ~(UnderPass(i) /\ pass.stored) => rows[data[i][k]] = 0
           B(i, k) == UnderPass(i) /\ 2 * k > pass.offset => rows[data[i][k]] = 0
           Goal == Once' /\ \A i \in Inode : \A k \in 1 .. Len(data'[i]) : A(i, k)' /\ B(i, k)'
<1>1. Once /\ \A i \in Inode : \A k \in 1 .. Len(data[i]) : A(i, k) /\ B(i, k)
  BY DEF UnreadNotStored
<1>2. SUFFICES Goal
  BY DEF UnreadNotStored
<1>3. CASE World
  <2>1. UNCHANGED <<rows, ingest, pass>> /\ stale \subseteq stale'
    BY <1>3, WorldStep
  <2>2. SUFFICES ASSUME NEW i \in Inode, NEW k \in 1 .. Len(data'[i]) PROVE A(i, k)' /\ B(i, k)'
    BY <1>1, <2>1
  <2>3. CASE k \in 1 .. Len(data[i]) /\ data'[i][k] = data[i][k]
    <3>1. i \in stale' => i \in stale
      BY <1>3, <2>2, WorldLines, NamedLine
    <3> QED BY <1>1, <2>1, <2>3, <3>1 DEF Pending, UnderPass
  <2>4. CASE data'[i][k] = written + 1
    <3>1. data'[i][k] \in Line
      BY <2>2, NamedLine DEF Plain, TypeOK, FilesTypeOK
    <3>2. written + 1 > written
      BY DEF Plain, TypeOK, FilesTypeOK
    <3>3. rows[written + 1] = 0
      BY <2>4, <3>1, <3>2 DEF Plain
    <3> QED BY <2>1, <2>4, <3>3
  <2> QED BY <1>3, <2>2, <2>3, <2>4, WorldLines
<1>4. CASE UNCHANGED <<fileVars, rows, ingest, stale, pass>>
  BY <1>1, <1>4, SameFiles DEF Pending, UnderPass
<1>5. CASE UNCHANGED <<fileVars, rows, ingest, stale>> /\ pass' = Idle /\ Abandoned \subseteq mishaps'
  <2>1. ~(pass.on /\ pass.stored)
    BY <1>5 DEF Abandoned
  <2> QED BY <1>1, <1>5, <2>1, SameFiles DEF Pending, UnderPass, Idle
<1>6. CASE Start
  <2>1. UNCHANGED <<fileVars, rows>> /\ pass = Idle /\ pass' = Idle
    BY <1>6 DEF Start, PruneIngestState, Plain
  <2>2. \A i \in Named : ingest'[i] = ingest[i] /\ (i \in stale' => i \in stale)
    BY <1>6 DEF Start, PruneIngestState, Named
  <2>3. \A i \in Inode : \A k \in 1 .. Len(data[i]) : i \in Named
    BY NamedLine
  <2> QED BY <1>1, <2>1, <2>2, <2>3, SameFiles DEF Pending, UnderPass, Idle
<1>7. ASSUME NEW n \in Name, BeginPass(n), dir[n] # NoFile PROVE Goal
  <2>1. /\ dir[n] \in Inode /\ dir[n] \in Named /\ pass'.on /\ pass'.ino = dir[n]
        /\ pass'.offset = ResumeAt(dir[n]) /\ pass'.stored = FALSE
    BY <1>7, BeginFacts DEF Plain
  <2>2. UNCHANGED <<fileVars, rows, ingest, stale>> /\ ~pass.on
    BY <1>7 DEF BeginPass, dbVars
  <2>3. SUFFICES ASSUME NEW i \in Inode, NEW k \in 1 .. Len(data[i]) PROVE A(i, k)' /\ B(i, k)'
    BY <1>1, <2>2, SameFiles
  <2>4. A(i, k)'
    BY <1>1, <2>1, <2>2, <2>3, SameFiles DEF Pending, UnderPass
  <2>5. ASSUME i = dir[n], 2 * k > ResumeAt(i) PROVE Pending(i, k)
    <3>1. ingest[i] \in Nat \cup {NoState} /\ Size(i) \in Nat /\ k \in Nat
      BY SizeType, NamedLine DEF Plain, TypeOK
    <3> QED BY <2>1, <2>5, <3>1 DEF ResumeAt, Pending, OffsetsInv, NoState
  <2>6. B(i, k)'
    BY <1>1, <2>1, <2>2, <2>3, <2>5, SameFiles DEF UnderPass
  <2> QED BY <2>4, <2>6
<1>8. CASE PassChunk
  <2>1. pass \in Active /\ pass.ino \in Inode /\ pass.on
    BY <1>8, SoundChunk DEF PassChunk
  <2>2. UNCHANGED <<fileVars, ingest, stale>>
    BY <1>8 DEF PassChunk
  <2> DEFINE read(e) == LinesBetween(pass.ino, pass.offset, e)
  <2>3. PICK e \in Nat :
          \/ /\ e > pass.offset
             /\ rows' = [l \in Line |-> rows[l] + (IF l \in read(e) THEN 1 ELSE 0)]
             /\ pass' = [pass EXCEPT !.offset = e, !.stored = @ \/ read(e) # {}]
          \/ rows' = rows /\ pass' = [pass EXCEPT !.more = FALSE]
    BY <1>8, SoundChunk
  <2>4. CASE rows' = rows /\ pass' = [pass EXCEPT !.more = FALSE]
    <3>1. pass'.ino = pass.ino /\ pass'.on = pass.on /\ pass'.offset = pass.offset
          /\ pass'.stored = pass.stored
      BY <2>1, <2>4 DEF Active
    <3> QED BY <1>1, <2>2, <2>4, <3>1, SameFiles DEF Pending, UnderPass
  <2>5. CASE /\ e > pass.offset
             /\ rows' = [l \in Line |-> rows[l] + (IF l \in read(e) THEN 1 ELSE 0)]
             /\ pass' = [pass EXCEPT !.offset = e, !.stored = @ \/ read(e) # {}]
    <3>1. pass'.ino = pass.ino /\ pass'.on /\ pass'.offset = e
          /\ (pass'.stored <=> pass.stored \/ read(e) # {})
      BY <2>1, <2>5 DEF Active
    <3>2. pass.offset \in Nat
      BY <2>1 DEF Active
    <3>3. ASSUME NEW l \in read(e)
          PROVE  \E k \in 1 .. Len(data[pass.ino]) :
                   data[pass.ino][k] = l /\ 2 * k > pass.offset /\ 2 * k <= e
      <4>1. PICK k \in 1 .. Len(data[pass.ino]) :
              data[pass.ino][k] = l /\ pass.offset <= 2 * k - 2 /\ 2 * k <= e
        BY <3>3 DEF LinesBetween
      <4>2. k \in Nat
        BY <2>1, NamedLine
      <4> QED BY <3>2, <4>1, <4>2
    <3>4. \A l \in read(e) : rows[l] = 0
      BY <1>1, <2>1, <3>3 DEF UnderPass
    <3>5. \A l \in Line : rows[l] \in Nat
      BY DEF Plain, TypeOK
    <3>6. Once'
      BY <1>1, <2>5, <3>4, <3>5
    <3>7. SUFFICES ASSUME NEW i \in Inode, NEW k \in 1 .. Len(data[i]) PROVE A(i, k)' /\ B(i, k)'
      BY <2>2, <3>6, SameFiles
    <3>8. data[i][k] \in Line /\ k \in Nat
      BY NamedLine
    <3>9. ASSUME i # pass.ino \/ 2 * k > e PROVE data[i][k] \notin read(e)
      <4>1. SUFFICES ASSUME data[i][k] \in read(e) PROVE FALSE
        OBVIOUS
      <4>2. PICK m \in 1 .. Len(data[pass.ino]) : data[pass.ino][m] = data[i][k] /\ 2 * m <= e
        BY <3>3, <4>1
      <4>3. i = pass.ino /\ k = m
        BY <2>1, <4>2 DEF Plain, FilesInv, LinesInv
      <4> QED BY <3>8, <3>9, <4>2, <4>3
    <3>10. data[i][k] \notin read(e) => rows'[data[i][k]] = rows[data[i][k]]
      BY <2>5, <3>5, <3>8
    <3>11. A(i, k)'
      <4>1. CASE i # pass.ino
        BY <1>1, <2>2, <3>1, <3>9, <3>10, <4>1, SameFiles DEF Pending, UnderPass
      <4>2. CASE i = pass.ino /\ read(e) # {}
        BY <2>1, <2>2, <3>1, <4>2, SameFiles DEF UnderPass
      <4>3. CASE i = pass.ino /\ read(e) = {}
        BY <1>1, <2>1, <2>2, <3>1, <3>10, <4>3, SameFiles DEF Pending, UnderPass
      <4> QED BY <4>1, <4>2, <4>3
    <3>12. B(i, k)'
      <4>1. SUFFICES ASSUME i = pass.ino, 2 * k > e PROVE rows'[data[i][k]] = 0
        BY <2>2, <3>1, SameFiles DEF UnderPass
      <4>2. 2 * k > pass.offset
        BY <2>5, <3>2, <3>8, <4>1
      <4> QED BY <1>1, <2>1, <3>9, <3>10, <4>1, <4>2 DEF UnderPass
    <3> QED BY <3>11, <3>12
  <2> QED BY <2>3, <2>4, <2>5
<1>9. CASE PassEnd
  <2>1. pass \in Active /\ pass.ino \in Inode /\ pass.on
    BY <1>9, PassType DEF PassEnd, SetIngestState, Active, Plain
  <2>2. UNCHANGED <<fileVars, rows>> /\ pass' = Idle /\ stale' = stale \ {pass.ino}
        /\ ingest' = [ingest EXCEPT ![pass.ino] = pass.offset]
    BY <1>9 DEF PassEnd, SetIngestState
  <2>3. SUFFICES ASSUME NEW i \in Inode, NEW k \in 1 .. Len(data[i]), Pending(i, k)'
                 PROVE  rows[data[i][k]] = 0
    BY <1>1, <2>2, SameFiles DEF UnderPass, Idle
  <2>4. CASE i = pass.ino
    <3>1. 2 * k > pass.offset
      BY <2>1, <2>2, <2>3, <2>4 DEF Pending, Plain, TypeOK
    <3> QED BY <1>1, <2>1, <2>4, <3>1 DEF UnderPass
  <2>5. CASE i # pass.ino
    <3>1. Pending(i, k)
      BY <2>1, <2>2, <2>3, <2>5 DEF Pending, Plain, TypeOK
    <3> QED BY <1>1, <2>5, <3>1 DEF UnderPass
  <2> QED BY <2>4, <2>5
<1>10. ASSUME NEW n \in Name, BeginPass(n), dir[n] = NoFile
       PROVE UNCHANGED <<fileVars, rows, ingest, stale, pass>>
  BY <1>10 DEF BeginPass, dbVars
<1>11. CASE PassVanished \/ PassFails \/ Crash
  BY <1>5, <1>11 DEF PassVanished, PassFails, Crash, Aside, dbVars
<1> QED
  BY <1>3, <1>4, <1>6, <1>7, <1>8, <1>9, <1>10, <1>11
  DEF Next, Watcher, vars, dbVars, procVars, Watch

LEMMA StoredStep ==
    ASSUME Plain, Plain', Sound, OffsetsInv, ReadStored, [Next]_vars,
           Sound', "masked" \notin mishaps'
    PROVE  ReadStored'
<1> DEFINE C(i, k) == CompleteAt(i, k) => rows[data[i][k]] > 0 \/ Pending(i, k)
           D(i, k) == CompleteAt(i, k) /\ UnderPass(i) /\ 2 * k <= pass.offset => rows[data[i][k]] > 0
           Goal == \A i \in Inode : \A k \in 1 .. Len(data'[i]) : C(i, k)' /\ D(i, k)'
<1>1. \A i \in Inode : \A k \in 1 .. Len(data[i]) : C(i, k) /\ D(i, k)
  BY DEF ReadStored
<1>2. SUFFICES Goal
  BY DEF ReadStored
<1>3. CASE World
  <2>1. UNCHANGED <<rows, ingest, pass>> /\ stale \subseteq stale'
    BY <1>3, WorldStep
  <2>2. SUFFICES ASSUME NEW i \in Inode, NEW k \in 1 .. Len(data'[i]), CompleteAt(i, k)'
                 PROVE  C(i, k)' /\ D(i, k)'
    OBVIOUS
  <2>3. CASE CompleteAt(i, k) /\ k \in 1 .. Len(data[i]) /\ data'[i][k] = data[i][k]
    BY <1>1, <2>1, <2>3 DEF Pending, UnderPass
  <2>4. CASE i \in Named /\ 2 * k > Size(i)
    <3>1. ingest[i] \in Nat \cup {NoState} /\ Size(i) \in Nat /\ k \in Nat
      <4>1. k \in Nat
        BY <2>2
      <4>2. Size(i) \in Nat
        BY <2>2, SizeType DEF Plain
      <4> QED BY <2>2, <4>1, <4>2 DEF Plain, TypeOK
    <3>2. Pending(i, k)
      BY <2>4, <3>1 DEF OffsetsInv, Pending, NoState
    <3>3. ~(UnderPass(i) /\ 2 * k <= pass.offset)
      <4>1. SUFFICES ASSUME UnderPass(i), 2 * k <= pass.offset PROVE FALSE
        OBVIOUS
      <4>2. pass.offset \in Nat /\ pass.size \in Nat
        BY <4>1, PassType DEF UnderPass, Plain, Active
      <4> QED BY <2>4, <3>1, <4>1, <4>2 DEF OffsetsInv, UnderPass
    <3> QED BY <2>1, <3>2, <3>3 DEF Pending, UnderPass
  <2>5. i \in Named /\ k \in Nat
        /\ ((k \in 1 .. Len(data[i]) /\ data'[i][k] = data[i][k]) \/ k = Len(data[i]) + 1)
    <3>1. k \in Nat
      BY <2>2
    <3> QED BY <1>3, <2>2, <3>1, WorldLines
  <2>6. Size(i) <= 2 * Len(data[i]) /\ Size(i) \in Nat /\ Len(data[i]) \in Nat
    BY <2>2, SizeType DEF Plain
  <2> QED BY <2>3, <2>4, <2>5, <2>6 DEF CompleteAt
<1>4. CASE UNCHANGED <<fileVars, rows, ingest, stale>> /\ (pass' = Idle \/ pass' = pass)
  BY <1>1, <1>4, SameFiles DEF Pending, UnderPass, CompleteAt, Idle
<1>5. CASE Start
  <2>1. UNCHANGED <<fileVars, rows>> /\ pass' = Idle
    BY <1>5 DEF Start, PruneIngestState, Plain
  <2>2. \A i \in Named : ingest'[i] = ingest[i] /\ (i \in stale => i \in stale')
    BY <1>5 DEF Start, PruneIngestState, Named
  <2>3. \A i \in Inode : \A k \in 1 .. Len(data[i]) : i \in Named
    BY NamedLine
  <2> QED BY <1>1, <2>1, <2>2, <2>3, SameFiles DEF Pending, UnderPass, CompleteAt, Idle
<1>6. ASSUME NEW n \in Name, BeginPass(n), dir[n] # NoFile PROVE Goal
  <2>1. /\ dir[n] \in Inode /\ dir[n] \in Named /\ pass'.on /\ pass'.ino = dir[n]
        /\ pass'.offset = ResumeAt(dir[n])
    BY <1>6, BeginFacts DEF Plain
  <2>2. UNCHANGED <<fileVars, rows, ingest, stale>>
    BY <1>6 DEF BeginPass, dbVars
  <2>3. dir[n] \in stale => ~(ResumeAt(dir[n]) > 0)
    BY <1>6 DEF BeginPass, Aside
  <2>4. SUFFICES ASSUME NEW i \in Inode, NEW k \in 1 .. Len(data[i]), CompleteAt(i, k)
                 PROVE  C(i, k)' /\ D(i, k)'
    BY <2>2, SameFiles DEF CompleteAt
  <2>5. C(i, k)'
    BY <1>1, <2>2, <2>4, SameFiles DEF Pending
  <2>6. ASSUME i = dir[n], 2 * k <= ResumeAt(i) PROVE ~Pending(i, k)
    <3>1. ingest[i] \in Nat \cup {NoState} /\ k \in Nat \ {0} /\ ResumeAt(i) \in Nat
      BY NamedLine, ResumeType DEF Plain, TypeOK
    <3>2. ResumeAt(i) > 0 /\ ResumeAt(i) = ingest[i]
      BY <2>6, <3>1 DEF ResumeAt
    <3> QED BY <2>3, <2>6, <3>1, <3>2 DEF Pending
  <2>7. D(i, k)'
    BY <1>1, <2>1, <2>2, <2>4, <2>6, SameFiles DEF UnderPass
  <2> QED BY <2>5, <2>7
<1>7. CASE PassChunk
  <2>1. pass \in Active /\ pass.ino \in Inode /\ pass.on /\ pass.offset \in Nat
    BY <1>7, SoundChunk DEF PassChunk, Active
  <2>2. UNCHANGED <<fileVars, ingest, stale>>
    BY <1>7 DEF PassChunk
  <2> DEFINE read(e) == LinesBetween(pass.ino, pass.offset, e)
  <2>3. PICK e \in Nat :
          \/ /\ e > pass.offset
             /\ rows' = [l \in Line |-> rows[l] + (IF l \in read(e) THEN 1 ELSE 0)]
             /\ pass' = [pass EXCEPT !.offset = e, !.stored = @ \/ read(e) # {}]
          \/ rows' = rows /\ pass' = [pass EXCEPT !.more = FALSE]
    BY <1>7, SoundChunk
  <2>4. CASE rows' = rows /\ pass' = [pass EXCEPT !.more = FALSE]
    <3>1. pass'.ino = pass.ino /\ pass'.on = pass.on /\ pass'.offset = pass.offset
      BY <2>1, <2>4 DEF Active
    <3> QED BY <1>1, <2>2, <2>4, <3>1, SameFiles DEF Pending, UnderPass, CompleteAt
  <2>5. CASE /\ e > pass.offset
             /\ rows' = [l \in Line |-> rows[l] + (IF l \in read(e) THEN 1 ELSE 0)]
             /\ pass' = [pass EXCEPT !.offset = e, !.stored = @ \/ read(e) # {}]
    <3>1. pass'.ino = pass.ino /\ pass'.on /\ pass'.offset = e
      BY <2>1, <2>5 DEF Active
    <3>2. SUFFICES ASSUME NEW i \in Inode, NEW k \in 1 .. Len(data[i]), CompleteAt(i, k)
                   PROVE  C(i, k)' /\ D(i, k)'
      BY <2>2, SameFiles DEF CompleteAt
    <3>3. data[i][k] \in Line /\ k \in Nat /\ rows[data[i][k]] \in Nat
      BY NamedLine
    <3>4. /\ rows[data[i][k]] > 0 => rows'[data[i][k]] > 0
          /\ data[i][k] \in read(e) => rows'[data[i][k]] > 0
      BY <2>5, <3>3
    <3>5. ASSUME i = pass.ino, 2 * k <= e, 2 * k > pass.offset PROVE data[i][k] \in read(e)
      <4>1. pass.offset % 2 = 0
        BY <2>1 DEF OffsetsInv
      <4>2. pass.offset <= 2 * k - 2
        BY <2>1, <3>3, <3>5, <4>1
      <4> QED BY <3>2, <3>3, <3>5, <4>2 DEF LinesBetween, CompleteAt
    <3>6. C(i, k)'
      BY <1>1, <2>2, <3>2, <3>4, SameFiles DEF Pending
    <3>7. D(i, k)'
      <4>1. SUFFICES ASSUME i = pass.ino, 2 * k <= e PROVE rows'[data[i][k]] > 0
        BY <2>2, <3>1, SameFiles DEF UnderPass
      <4>2. CASE 2 * k > pass.offset
        BY <3>4, <3>5, <4>1, <4>2
      <4>3. CASE ~(2 * k > pass.offset)
        <5>1. 2 * k <= pass.offset
          BY <2>1, <3>3, <4>3
        <5> QED BY <1>1, <2>1, <3>2, <3>4, <4>1, <5>1 DEF UnderPass
      <4> QED BY <4>2, <4>3
    <3> QED BY <3>6, <3>7
  <2> QED BY <2>3, <2>4, <2>5
<1>8. CASE PassEnd
  <2>1. pass \in Active /\ pass.ino \in Inode /\ pass.on /\ pass.offset \in Nat
    BY <1>8, PassType DEF PassEnd, SetIngestState, Active, Plain
  <2>2. UNCHANGED <<fileVars, rows>> /\ pass' = Idle /\ stale' = stale \ {pass.ino}
        /\ ingest' = [ingest EXCEPT ![pass.ino] = pass.offset]
    BY <1>8 DEF PassEnd, SetIngestState
  <2>3. SUFFICES ASSUME NEW i \in Inode, NEW k \in 1 .. Len(data[i]), CompleteAt(i, k), ~Pending(i, k)'
                 PROVE  rows[data[i][k]] > 0
    BY <2>2, SameFiles DEF UnderPass, Idle, CompleteAt
  <2>4. CASE i = pass.ino
    <3>1. 2 * k <= pass.offset
      <4>1. k \in Nat /\ ingest'[i] = pass.offset
        BY <2>1, <2>2, <2>4, NamedLine DEF Plain, TypeOK
      <4> QED BY <2>1, <2>3, <4>1 DEF Pending
    <3> QED BY <1>1, <2>1, <2>3, <2>4, <3>1 DEF UnderPass
  <2>5. CASE i # pass.ino
    <3>1. ~Pending(i, k)
      BY <2>1, <2>2, <2>3, <2>5 DEF Pending, Plain, TypeOK
    <3> QED BY <1>1, <2>3, <3>1
  <2> QED BY <2>4, <2>5
<1>9. ASSUME NEW n \in Name, BeginPass(n), dir[n] = NoFile
      PROVE UNCHANGED <<fileVars, rows, ingest, stale>> /\ pass' = pass
  BY <1>9 DEF BeginPass, dbVars
<1> QED
  BY <1>3, <1>4, <1>5, <1>6, <1>7, <1>8, <1>9
  DEF Next, Watcher, vars, dbVars, procVars, Watch, PassVanished, PassFails, Crash

--------------------------------------------------------------------------------
(* The theorems.                                                              *)

LEMMA IInvPlain == IInv => Plain
BY DEF IInv, Plain

LEMMA IInvStep == IInv /\ [Next]_vars => IInv'
<1> SUFFICES ASSUME IInv, [Next]_vars PROVE IInv'
  OBVIOUS
<1>1. Plain
  BY IInvPlain
<1>2. Plain' /\ mishaps \subseteq mishaps'
  BY <1>1, PlainStep
<1>3. /\ Sound' => Sound
      /\ "interrupted" \notin mishaps' => "interrupted" \notin mishaps
      /\ "masked" \notin mishaps' => "masked" \notin mishaps
  BY <1>2, SoundBefore
<1>4. Sound' => OffsetsInv'
  BY <1>1, <1>3, OffsetsStep DEF IInv
<1>5. Sound' /\ "interrupted" \notin mishaps' => UnreadNotStored'
  BY <1>1, <1>2, <1>3, UnreadStep DEF IInv
<1>6. Sound' /\ "masked" \notin mishaps' => ReadStored'
  BY <1>1, <1>2, <1>3, StoredStep DEF IInv
<1> QED BY <1>2, <1>4, <1>5, <1>6 DEF IInv, Plain

LEMMA IInvAlways == Spec => []IInv
BY InitOK, IInvStep, PTL DEF Spec

\* Every reachable state is of the declared types: what a pass reads, where it
\* stops and what it saves are natural numbers whatever the files do.
THEOREM TypeCorrect == Spec => []TypeOK
<1>1. IInv => TypeOK
  BY DEF IInv
<1> QED BY <1>1, IInvAlways, PTL

\* A line is stored at most once across rotation, truncation, deletion, recycled
\* inodes and restarts, as long as no pass ended between a commit and the save
\* of its offset, was swapped its file, or met bytes that are not UTF-8.
THEOREM NeverTwice == Spec => []NoDuplicates
<1>1. IInv => NoDuplicates
  BY DEF IInv, NoDuplicates, UnreadNotStored, Sound
<1> QED BY <1>1, IInvAlways, PTL

\* No complete line is passed over, whatever crashes and exceptions interrupt,
\* as long as no offset was applied to contents it was not saved for.
THEOREM NeverPassedOver == Spec => []NothingSkipped
<1>1. IInv => NothingSkipped
  BY DEF IInv, NothingSkipped, ReadStored, Sound
<1> QED BY <1>1, IInvAlways, PTL

\* The offset saved for a file never moves back while the file keeps its contents.
THEOREM SavedOffsetsGrow == Spec => OffsetsOnlyGrow
<1> DEFINE Grows == \A i \in Inode :
              ingest[i] # NoState /\ ingest'[i] # NoState /\ ingest'[i] < ingest[i]
                => i \in stale \/ mishaps' \cap {"swapped", "drifted"} # {}
<1>1. IInv /\ [Next]_vars => [Grows]_vars
  <2>1. SUFFICES ASSUME IInv, Next, Sound', NEW i \in Inode, i \notin stale,
                        ingest[i] # NoState, ingest'[i] # NoState, ingest'[i] < ingest[i]
                 PROVE  FALSE
    BY DEF Sound
  <2>2. Plain /\ OffsetsInv
    BY <2>1, IInvPlain, PlainStep, SoundBefore DEF IInv
  <2>3. ingest[i] \in Nat
    BY <2>1, <2>2 DEF Plain, TypeOK
  <2>4. CASE PassEnd
    <3>1. pass \in Active /\ pass.on /\ ingest' = [ingest EXCEPT ![pass.ino] = pass.offset]
      BY <2>2, <2>4, PassType DEF PassEnd, SetIngestState, Plain
    <3>2. i # pass.ino => ingest'[i] = ingest[i]
      BY <2>2, <3>1 DEF Plain, TypeOK
    <3>3. i = pass.ino => ingest'[i] = pass.offset /\ ingest[i] <= pass.offset /\ pass.offset \in Nat
      BY <2>1, <2>2, <3>1 DEF Plain, TypeOK, OffsetsInv, Active
    <3> QED BY <2>1, <2>3, <3>2, <3>3
  <2>5. CASE Start
    <3>1. ingest'[i] = ingest[i]
      BY <2>1, <2>5 DEF Start, PruneIngestState
    <3> QED BY <2>1, <2>3, <3>1
  <2>6. CASE UNCHANGED ingest
    BY <2>1, <2>3, <2>6
  <2>7. World => UNCHANGED ingest
    BY <2>2, WorldStep
  <2> QED
    BY <2>1, <2>4, <2>5, <2>6, <2>7
    DEF Next, Watcher, BeginPass, PassChunk, PassVanished, PassFails, Watch, Crash, dbVars
<1> QED BY <1>1, IInvAlways, PTL DEF Spec, OffsetsOnlyGrow

\* What a read finds between two offsets of a file is whole in that file.
LEMMA ReadIsWhole ==
    ASSUME NEW i \in Inode, NEW a, NEW e
    PROVE  LinesBetween(i, a, e) \subseteq {l \in Line : Complete(l)}
BY DEF LinesBetween, Complete, CompleteAt

\* No step but a chunk of a pass inserts anything.
LEMMA OnlyChunksInsert ==
    ASSUME Plain, [Next]_vars, ~PassChunk
    PROVE  UNCHANGED rows
BY WorldStep DEF Next, Watcher, vars, dbVars, Start, BeginPass, PassEnd, PassVanished, Watch,
   PassFails, Crash

\* Ingestion, with all its files, offsets, rotations and crashes, implements the
\* store of LogStore: a batch holds whole lines only, and lines that are not stored
\* yet, until a mishap that excuses the one or the other.
THEOREM StoreIsImplemented == Spec => StoresWholeLinesOnce
<1> DEFINE whole == {l \in Line : Complete(l)}
           again == mishaps \cap {"interrupted", "swapped", "drifted"} # {}
           garbled == "swapped" \in mishaps
<1>1. Init => Promise!Init
  <2> SUFFICES ASSUME Init PROVE Promise!Init
    OBVIOUS
  <2>1. whole = {}
    BY DEF Init, FilesInit, Complete, CompleteAt
  <2> QED BY <2>1 DEF Init, Promise!Init
<1>2. IInv /\ IInv' /\ [Next]_vars => [Promise!Next]_(Promise!vars)
  <2> SUFFICES ASSUME IInv, IInv', [Next]_vars PROVE Promise!Next
    BY DEF Promise!vars
  <2>1. Plain /\ mishaps \subseteq mishaps'
    BY IInvPlain, PlainStep
  <2>2. (again => again') /\ (garbled => garbled')
    BY <2>1
  <2>3. CASE ~PassChunk
    <3>1. whole' \subseteq Line /\ UNCHANGED rows
      BY <2>1, <2>3, OnlyChunksInsert
    <3> QED BY <2>2, <3>1 DEF Promise!Next, Promise!Change
  <2>4. CASE PassChunk
    <3>1. UNCHANGED whole
      BY <2>4 DEF PassChunk, fileVars, Complete, CompleteAt, Size
    <3> DEFINE i == dir[pass.file]
    <3>2. PICK b \in Nat : \E out \in ReadOutcomes(i, pass.offset, b) :
              \E read \in SUBSET Line :
                 /\ out.end \in Nat /\ out.junk \in SUBSET Line
                 /\ read = LinesBetween(i, pass.offset, out.end)
                 /\ \/ rows' = [l \in Line |-> rows[l] + (IF l \in read THEN 1 ELSE 0)
                                                       + (IF l \in out.junk THEN 1 ELSE 0)]
                    \/ rows' = rows
                 /\ Size(i) < b => "swapped" \in mishaps'
      BY <2>1, <2>4, ChunkFacts DEF Plain
    <3>3. PICK out \in ReadOutcomes(i, pass.offset, b), read \in SUBSET Line :
              /\ out.junk \in SUBSET Line
              /\ read = LinesBetween(i, pass.offset, out.end)
              /\ \/ rows' = [l \in Line |-> rows[l] + (IF l \in read THEN 1 ELSE 0)
                                                    + (IF l \in out.junk THEN 1 ELSE 0)]
                 \/ rows' = rows
              /\ Size(i) < b => "swapped" \in mishaps'
      BY <3>2
    <3>4. rows \in [Line -> Nat] /\ rows' \in [Line -> Nat] /\ i \in Inode
      BY <2>1, <2>4, ChunkFacts DEF Plain, IInv, TypeOK
    <3>5. read \subseteq whole
      BY <3>3, <3>4, ReadIsWhole
    <3>6. CASE rows' = rows
      BY <2>2, <3>1, <3>6 DEF Promise!Next, Promise!Change
    <3>7. CASE garbled' /\ rows' # rows
      <4>1. \A l \in Line : rows'[l] >= rows[l]
        BY <3>3, <3>4, <3>7
      <4> QED BY <2>2, <3>1, <3>4, <3>7, <4>1 DEF Promise!Next, Promise!StoreGarbled
    <3>8. CASE ~garbled' /\ rows' # rows
      <4>1. Size(i) >= b
        BY <3>2, <3>3, <3>4, <3>8, <2>1, SizeType DEF Plain
      <4>2. out.junk = {}
        BY <3>3, <4>1 DEF ReadOutcomes
      <4>3. rows' = [l \in Line |-> rows[l] + (IF l \in read THEN 1 ELSE 0)]
        BY <3>3, <3>4, <3>8, <4>2
      <4>4. again' \/ \A l \in read : rows[l] = 0
        <5>1. SUFFICES ASSUME ~again' PROVE \A l \in read : rows[l] = 0
          OBVIOUS
        <5>2. \A l \in Line : rows'[l] <= 1
          BY <5>1 DEF IInv, Sound, UnreadNotStored
        <5> QED BY <3>4, <4>3, <5>2
      <4> QED BY <2>2, <3>1, <3>5, <4>3, <4>4 DEF Promise!Next, Promise!StoreBatch
    <3> QED BY <3>6, <3>7, <3>8
  <2> QED BY <2>3, <2>4
<1> QED BY <1>1, <1>2, IInvAlways, PTL DEF Spec, StoresWholeLinesOnce, Promise!Spec
--------------------------------------------------------------------------------
(* No event in vain.                                                          *)

\* A pass that finds no line has half a line at most left of what it statted.
LEMMA DryChunk ==
    ASSUME Plain, PassChunk, Sound', Sound => OffsetsInv, Sound, pass'.more = FALSE
    PROVE  pass.size <= pass.offset + 1
<1> DEFINE i == dir[pass.file]
           a == pass.offset
           b == IF a + BufLimit < pass.size THEN a + BufLimit ELSE pass.size
<1>1. pass \in Active /\ i \in Inode
  BY ChunkFacts DEF Plain
<1>2. a \in Nat /\ pass.size \in Nat /\ a < pass.size /\ a % 2 = 0 /\ pass.more
  BY <1>1 DEF PassChunk, OffsetsInv, Active
<1>3. b \in Nat /\ BufLimit \in Nat /\ BufLimit >= 2
  BY <1>2, IngestAssumption
<1>4. PICK out \in ReadOutcomes(i, a, b), wide \in Nat :
        /\ out.end > a => pass'.more = pass.more
        /\ mishaps' = mishaps \cup ((IF i # pass.ino \/ Size(i) < b THEN {"swapped"} ELSE {})
                                    \cup (IF wide > 0 THEN {"drifted"} ELSE {}))
  <2>1. PICK out \in ReadOutcomes(i, a, b) :
          /\ out.end > a =>
               pass' = [pass EXCEPT
                          !.offset = out.end + Extra * Cardinality(LinesBetween(i, a, out.end) \cap Widened),
                          !.stored = @ \/ LinesBetween(i, a, out.end) \cup out.junk # {}]
          /\ Aside((IF i # pass.ino \/ Size(i) < b THEN {"swapped"} ELSE {})
                   \cup (IF Cardinality(LinesBetween(i, a, out.end) \cap Widened) > 0
                           THEN {"drifted"} ELSE {}))
    BY DEF PassChunk
  <2>2. Cardinality(LinesBetween(i, a, out.end) \cap Widened) \in Nat
    BY WideType DEF LinesBetween
  <2>3. out.end > a => pass'.more = pass.more
    BY <1>1, <2>1 DEF Active
  <2> QED BY <2>1, <2>2, <2>3 DEF Aside
<1>5. ~(Size(i) < b)
  BY <1>4 DEF Sound
<1>6. Size(i) \in Nat
  BY <1>1, SizeType DEF Plain
<1>7. out.end = b - (b % 2)
  BY <1>3, <1>5, <1>6, <1>4 DEF ReadOutcomes
<1>8. ~(b - (b % 2) > a)
  BY <1>2, <1>4, <1>7
<1> HIDE DEF a
<1>9. CASE a + BufLimit < pass.size
  <2>1. b = a + BufLimit
    BY <1>9
  <2> HIDE DEF b
  <2> QED BY <1>2, <1>3, <1>8, <2>1
<1>10. CASE ~(a + BufLimit < pass.size)
  <2>1. b = pass.size
    BY <1>10
  <2> HIDE DEF b
  <2>2. pass.size <= a + 1
    BY <1>2, <1>3, <1>8, <2>1
  <2> QED BY <2>2 DEF a
<1> QED BY <1>9, <1>10

\* The events and passes that will read the lines stay with their files.
LEMMA ForgottenStep ==
    ASSUME IInv, IInv', NothingForgotten, [Next]_vars
    PROVE  NothingForgotten'
<1> DEFINE Clean == mishaps \cap {"aborted", "masked", "swapped", "drifted", "unseen"} = {}
<1>1. Plain /\ Plain' /\ mishaps \subseteq mishaps'
  BY IInvPlain, PlainStep
<1>2. SUFFICES ASSUME mode' = "watching", Clean', NEW n \in Name, dir'[n] # NoFile,
                      NEW k \in 1 .. Len(data'[dir'[n]]), CompleteAt(dir[n], k)',
                      ~(rows'[data'[dir'[n]][k]] > 0)
               PROVE  WillRead(n, k)'
  BY DEF NothingForgotten
<1>3. Clean /\ Sound /\ Sound' /\ OffsetsInv /\ ReadStored
  BY <1>1, <1>2 DEF Sound, IInv
<1>4. dir'[n] \in Inode
  BY <1>1, <1>2 DEF Plain, TypeOK, FilesTypeOK
<1> DEFINE Same == /\ mode = "watching" /\ UNCHANGED <<rows, pass>> /\ dir'[n] = dir[n]
                   /\ data'[dir[n]] = data[dir[n]] /\ open'[dir[n]] = open[dir[n]]
<1>5. ASSUME Same, n \in dirty => n \in dirty' PROVE WillRead(n, k)'
  <2>1. Size(dir[n])' = Size(dir[n])
    BY <1>5 DEF Size
  <2>2. WillRead(n, k)
    BY <1>2, <1>3, <1>5, <2>1 DEF NothingForgotten, CompleteAt
  <2> QED BY <1>5, <2>2 DEF WillRead, UnderPass
<1>6. CASE World
  <2>1. mode = "watching" /\ UNCHANGED <<rows, pass>>
    BY <1>2, <1>6, WorldStep, <1>1
    DEF World, NginxWrites, LogRenamed, LogReopened, LogTruncated, LogDeleted, procVars
  <2>2. dirty \subseteq dirty'
    BY <1>6 DEF World, NginxWrites, LogRenamed, LogReopened, LogTruncated, LogDeleted, Notify, procVars
  <2>3. FilesInv /\ FilesTypeOK /\ n \in {"log", "log.1"}
    BY <1>1 DEF Plain, TypeOK, Name
  <2>4. CASE NginxWrites
    <3>1. dir' = dir /\ dirty' = dirty \cup Names(fd)
      BY <2>1, <2>4 DEF NginxWrites, WriteText, WriteNewline, Notify
    <3>2. CASE dir[n] = fd
      BY <3>1, <3>2 DEF WillRead, Names
    <3>3. CASE dir[n] # fd
      <4>1. data'[dir[n]] = data[dir[n]] /\ open'[dir[n]] = open[dir[n]]
        <5>1. data' = data \/ data' = [data EXCEPT ![fd] = Append(@, written + 1)]
          BY <2>4 DEF NginxWrites, WriteText, WriteNewline
        <5>2. open' = [open EXCEPT ![fd] = TRUE] \/ open' = [open EXCEPT ![fd] = FALSE]
          BY <2>4 DEF NginxWrites, WriteText, WriteNewline
        <5>3. dir[n] \in Inode
          BY <1>4, <3>1
        <5> QED BY <2>3, <3>3, <5>1, <5>2, <5>3 DEF FilesTypeOK
      <4> QED BY <1>5, <2>1, <2>2, <3>1, <4>1
    <3> QED BY <3>2, <3>3
  <2>5. CASE LogRenamed
    <3>1. n = "log.1" /\ "log.1" \in dirty'
      BY <1>2, <2>1, <2>3, <2>5 DEF LogRenamed, Rename, Notify, Name
    <3> QED BY <3>1 DEF WillRead
  <2>6. CASE LogReopened
    <3>1. "log" \in dirty' /\ UNCHANGED <<data, open>> /\ dir'["log.1"] = dir["log.1"]
      BY <2>1, <2>3, <2>6 DEF LogReopened, Reopen, Notify, FilesTypeOK, Name
    <3> QED BY <1>5, <2>1, <2>2, <2>3, <3>1 DEF WillRead
  <2>7. CASE LogTruncated
    <3>1. "log" \in dirty' /\ dir' = dir
      BY <2>1, <2>7 DEF LogTruncated, Truncate, Notify
    <3>2. CASE n = "log.1"
      <4>1. dir[n] \in Inode /\ dir[n] # dir["log"]
        BY <1>4, <2>3, <3>1, <3>2 DEF FilesInv, WriterInv
      <4>2. data'[dir[n]] = data[dir[n]] /\ open'[dir[n]] = open[dir[n]]
        BY <2>3, <2>7, <4>1 DEF LogTruncated, Truncate, Erased, FilesTypeOK
      <4> QED BY <1>5, <2>1, <2>2, <3>1, <4>2
    <3> QED BY <2>3, <3>1, <3>2 DEF WillRead
  <2>8. CASE LogDeleted
    <3>1. n = "log" /\ dir'["log"] = dir["log"] /\ UNCHANGED open
      BY <1>2, <2>3, <2>8 DEF LogDeleted, Delete, FilesTypeOK, Name
    <3>2. dir[n] \in Inode /\ dir[n] # dir["log.1"]
      BY <1>4, <2>3, <3>1 DEF FilesInv, WriterInv
    <3>3. data'[dir[n]] = data[dir[n]]
      BY <2>8, <3>2 DEF LogDeleted, Delete, Erased
    <3> QED BY <1>5, <2>1, <2>2, <3>1, <3>3
  <2> QED BY <1>6, <2>4, <2>5, <2>6, <2>7, <2>8 DEF World
<1>7. ~Start /\ ~Crash /\ ~PassVanished /\ ~PassFails
  BY <1>2 DEF Start, Crash, PassVanished, PassFails, Aside
<1>8. ASSUME UNCHANGED fileVars
      PROVE  /\ dir' = dir /\ data' = data
             /\ k \in 1 .. Len(data[dir[n]]) /\ CompleteAt(dir[n], k)
             /\ dir[n] \in Inode /\ open' = open
  BY <1>2, <1>4, <1>8, SameFiles DEF CompleteAt, fileVars
<1>9. CASE Watch
  <2>1. UNCHANGED <<fileVars, rows>>
    BY <1>9 DEF Watch, dbVars
  <2>2. ~Behind(n)
    BY <1>2, <1>9 DEF Watch, Aside
  <2>3. rows[data[dir[n]][k]] = 0
    BY <1>1, <1>2, <1>8, <2>1, NamedLine
  <2> QED BY <1>2, <1>8, <2>1, <2>2, <2>3 DEF Behind
<1>10. ASSUME NEW m \in Name, BeginPass(m) PROVE WillRead(n, k)'
  <2>1. UNCHANGED <<fileVars, rows, ingest, mode, stale>> /\ ~pass.on /\ dirty' = dirty \ {m}
    BY <1>10 DEF BeginPass, dbVars
  <2>2. CASE n # m
    <3>1. WillRead(n, k)
      BY <1>2, <1>3, <1>8, <2>1 DEF NothingForgotten
    <3> QED BY <2>1, <2>2, <3>1 DEF WillRead, UnderPass
  <2>3. CASE n = m
    <3> DEFINE i == dir[n]
    <3>1. i \in Inode /\ k \in 1 .. Len(data[i]) /\ CompleteAt(i, k) /\ i # NoFile
      BY <1>2, <1>8, <2>1
    <3>2. /\ pass' = [on |-> TRUE, file |-> n, ino |-> i, size |-> Size(i),
                      offset |-> ResumeAt(i), stored |-> FALSE, more |-> TRUE]
          /\ ~(i \in stale /\ ResumeAt(i) > 0)
      BY <1>2, <1>10, <2>3, <3>1 DEF BeginPass, Aside
    <3>3. ingest[i] \in Nat \cup {NoState} /\ k \in Nat \ {0} /\ ResumeAt(i) \in Nat
      BY <1>1, <3>1, NamedLine, ResumeType DEF Plain, TypeOK
    <3>4. Pending(i, k)
      <4>1. ~(rows[data[i][k]] > 0)
        BY <1>2, <1>8, <2>1
      <4> QED BY <1>3, <3>1, <4>1 DEF ReadStored
    <3>5. 2 * k > ResumeAt(i)
      <4>1. CASE ResumeAt(i) = 0
        BY <3>3, <4>1
      <4>2. CASE ResumeAt(i) > 0
        BY <3>2, <3>3, <3>4, <4>2 DEF Pending, ResumeAt
      <4> QED BY <3>3, <4>1, <4>2
    <3>6. 2 * k <= Size(i)
      BY <3>1 DEF CompleteAt
    <3>7. dir'[n] = i
      BY <1>8, <2>1
    <3> HIDE DEF i
    <3> QED BY <3>2, <3>5, <3>6, <3>7 DEF WillRead, UnderPass
  <2> QED BY <2>2, <2>3
<1>11. CASE PassChunk
  <2>1. UNCHANGED <<fileVars, mode, dirty>>
    BY <1>11 DEF PassChunk
  <2>2. /\ pass \in Active /\ pass.ino \in Inode /\ pass.offset \in Nat /\ pass.size \in Nat
        /\ pass.offset % 2 = 0 /\ pass.on
    BY <1>1, <1>3, <1>11, SoundChunk DEF Active, OffsetsInv, PassChunk
  <2> DEFINE read(e) == LinesBetween(pass.ino, pass.offset, e)
  <2>3. PICK e \in Nat :
          \/ /\ rows' = [l \in Line |-> rows[l] + (IF l \in read(e) THEN 1 ELSE 0)]
             /\ \E s : pass' = [pass EXCEPT !.offset = e, !.stored = s]
          \/ rows' = rows /\ pass' = [pass EXCEPT !.more = FALSE]
    BY <1>1, <1>3, <1>11, SoundChunk
  <2> HIDE DEF read
  <2> DEFINE i == dir[n]
  <2>4. /\ i \in Inode /\ k \in 1 .. Len(data[i]) /\ CompleteAt(i, k) /\ i # NoFile
        /\ ~(rows'[data[i][k]] > 0) /\ dir'[n] = i
    BY <1>2, <1>8, <2>1
  <2>5. data[i][k] \in Line /\ k \in Nat \ {0} /\ rows[data[i][k]] \in Nat
    BY <1>1, <2>4, NamedLine
  <2>6. ~(rows[data[i][k]] > 0)
    <3>1. CASE rows' = rows
      BY <2>4, <3>1
    <3>2. CASE rows' = [l \in Line |-> rows[l] + (IF l \in read(e) THEN 1 ELSE 0)]
      <4>1. rows'[data[i][k]] >= rows[data[i][k]]
        BY <2>5, <3>2
      <4>2. rows'[data[i][k]] \in Nat
        BY <2>5, <3>2
      <4> QED BY <2>4, <2>5, <4>1, <4>2
    <3> QED BY <2>3, <3>1, <3>2
  <2>7. WillRead(n, k)
    BY <1>2, <1>3, <2>1, <2>4, <2>6 DEF NothingForgotten
  <2>8. CASE n \in dirty
    BY <2>1, <2>8 DEF WillRead
  <2>9. CASE n \notin dirty
    <3>1. pass.ino = i /\ pass.more /\ pass.offset < 2 * k /\ 2 * k <= pass.size
      BY <2>7, <2>9 DEF WillRead, UnderPass
    <3>2. ASSUME pass'.more = FALSE PROVE FALSE
      <4>1. pass.size <= pass.offset + 1
        BY <1>1, <1>3, <1>11, <3>2, DryChunk
      <4> QED BY <2>2, <2>5, <3>1, <4>1
    <3>3. PICK s : pass' = [pass EXCEPT !.offset = e, !.stored = s]
      BY <2>2, <2>3, <3>2 DEF Active
    <3>4. rows' = [l \in Line |-> rows[l] + (IF l \in read(e) THEN 1 ELSE 0)]
      BY <2>2, <2>3, <3>1, <3>2 DEF Active
    <3>5. data[i][k] \notin read(e)
      BY <2>4, <2>5, <2>6, <3>4
    <3>6. pass.offset <= 2 * k - 2
      BY <2>2, <2>5, <3>1
    <3>7. 2 * k > e
      <4>1. 2 * k <= Size(i)
        BY <2>4 DEF CompleteAt
      <4>2. 2 * k <= e => data[i][k] \in read(e)
        <5> HIDE DEF i
        <5> QED BY <2>4, <2>5, <3>1, <3>6, <4>1 DEF read, LinesBetween
      <4>3. k \in Nat /\ e \in Nat
        BY <2>3, <2>5
      <4> QED BY <3>5, <4>2, <4>3
    <3> HIDE DEF i
    <3> QED BY <2>2, <2>4, <3>1, <3>3, <3>7 DEF WillRead, UnderPass, Active
  <2> QED BY <2>8, <2>9
<1>12. CASE PassEnd
  <2>1. UNCHANGED <<fileVars, rows, mode, dirty>> /\ (~pass.more \/ pass.offset >= pass.size)
        /\ pass.on
    BY <1>12 DEF PassEnd
  <2>2. WillRead(n, k)
    BY <1>2, <1>3, <1>8, <2>1 DEF NothingForgotten
  <2>3. pass \in Active
    BY <1>1, <2>1, PassType DEF Plain
  <2>4. n \in dirty
    BY <1>2, <2>1, <2>2, <2>3 DEF WillRead, Active
  <2> QED BY <2>1, <2>4 DEF WillRead
<1>13. CASE UNCHANGED vars
  BY <1>5, <1>8, <1>13, <1>2 DEF vars, dbVars, procVars
<1> QED BY <1>6, <1>7, <1>9, <1>10, <1>11, <1>12, <1>13 DEF Next, Watcher

\* No event is consumed in vain: while the watcher watches, every complete line that is
\* not stored has an event or a pass that will reach it.  A rotation, a truncation or a
\* write between the stat, the chunks and the end of a pass, and a crash at any point
\* before, leave this so; only an exception, a file replaced under a pass, or bytes that
\* came between backfill and watch do not.
THEOREM NoEventInVain == Spec => []NothingForgotten
<1>1. Init => NothingForgotten
  BY DEF Init, NothingForgotten
<1>2. IInv /\ IInv' /\ NothingForgotten /\ [Next]_vars => NothingForgotten'
  BY ForgottenStep
<1> QED BY <1>1, <1>2, IInvAlways, PTL DEF Spec
================================================================================
