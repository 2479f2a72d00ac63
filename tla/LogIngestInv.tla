----------------------------- MODULE LogIngestInv -----------------------------
(***************************************************************************)
(* The inductive invariant behind NoDuplicates, NothingSkipped and         *)
(* OffsetsOnlyGrow of LogIngest.                                           *)
(***************************************************************************)
EXTENDS LogIngest

\* nginx writes to the live log, or to the rotated one until it reopens.
WriterInv ==
    /\ fd = IF dir["log"] # NoFile THEN dir["log"] ELSE dir["log.1"]
    /\ dir["log"] # dir["log.1"]
    /\ \A i \in Inode : open[i] => i = fd /\ Len(data[i]) > 0

\* Every line is in one place of one file, and the file has a name.
LinesInv ==
    /\ \A i \in Inode : i \notin Named => data[i] = <<>>
    /\ \A i \in Inode : \A k \in 1 .. Len(data[i]) : data[i][k] <= written
    /\ \A i, j \in Inode : \A k \in 1 .. Len(data[i]) : \A m \in 1 .. Len(data[j]) :
         data[i][k] = data[j][m] => i = j /\ k = m

FilesInv == WriterInv /\ LinesInv

Sound == mishaps \cap {"swapped", "drifted"} = {}

\* A saved offset is the end of a line, inside a file whose contents it is of.
OffsetsInv ==
    /\ \A i \in Inode :
         ingest[i] # NoState =>
           /\ ingest[i] % 2 = 0
           /\ i \in Named /\ i \notin stale => ingest[i] <= Size(i)
    /\ pass.on =>
         /\ pass.offset % 2 = 0
         /\ pass.offset <= pass.size
         /\ pass.ino \in Named => pass.size <= Size(pass.ino)
         /\ pass.ino \notin stale => ingest[pass.ino] <= pass.offset

\* What a later read may read is not stored yet.
UnreadNotStored ==
    /\ \A l \in Line : rows[l] <= 1
    /\ \A i \in Inode : \A k \in 1 .. Len(data[i]) :
         /\ Pending(i, k) /\ ~(UnderPass(i) /\ pass.stored) => rows[data[i][k]] = 0
         /\ UnderPass(i) /\ 2 * k > pass.offset => rows[data[i][k]] = 0

\* What no later read will read is stored.
ReadStored ==
    \A i \in Inode : \A k \in 1 .. Len(data[i]) :
        CompleteAt(i, k) =>
          /\ rows[data[i][k]] > 0 \/ Pending(i, k)
          /\ UnderPass(i) /\ 2 * k <= pass.offset => rows[data[i][k]] > 0

IInv ==
    /\ TypeOK
    /\ FilesInv
    /\ mode = "down" => pass = Idle
    /\ \A l \in Line : l > written => rows[l] = 0
    /\ Sound => OffsetsInv
    /\ Sound /\ "interrupted" \notin mishaps => UnreadNotStored
    /\ Sound /\ "masked" \notin mishaps => ReadStored
================================================================================
