------------------------------- MODULE LogFiles -------------------------------
(***************************************************************************)
(* The outside world of the log watcher: the files of the logs directory   *)
(* as nginx and logrotate write, rename, truncate and delete them.  None   *)
(* of it is code of the repository; it is modelled from what the watcher   *)
(* observes of it (names, inodes, sizes, bytes).                           *)
(*                                                                         *)
(* Sizes and offsets are counted in "bytes" of which a line has two: its   *)
(* text and its newline, so a file can end in the middle of a line and a   *)
(* read can stop in the middle of one.  Line k of a file is bytes 2k-2     *)
(* and 2k-1; it is complete once the file's size reaches 2k.               *)
(***************************************************************************)
EXTENDS Integers, Sequences, FiniteSets

CONSTANTS Inode,         \* inode numbers the file system hands out and recycles
          NoFile,        \* what a name without a file leads to
          MaxLines,      \* lines nginx writes in a behaviour
          MaxRotations   \* renames, truncations and deletions in a behaviour

ASSUME FilesAssumption == MaxLines \in Nat /\ MaxRotations \in Nat /\ NoFile \notin Inode

Name == {"log", "log.1"}      \* the live log and its rotated name
Line == 1 .. MaxLines

VARIABLES
    dir,        \* name -> inode, or NoFile
    data,       \* inode -> the lines written to it, in order
    open,       \* inode -> its last line has no newline yet
    fd,         \* the inode nginx writes to
    written,    \* lines begun so far: line n is the n-th one
    rotations   \* renames, truncations and deletions so far

fileVars == <<dir, data, open, fd, written, rotations>>

Size(i) == 2 * Len(data[i]) - (IF open[i] THEN 1 ELSE 0)

Named == {i \in Inode : \E n \in Name : dir[n] = i}
Names(i) == {n \in Name : dir[n] = i}

\* Line k of the file is there with its newline.
CompleteAt(i, k) == k \in 1 .. Len(data[i]) /\ 2 * k <= Size(i)
Complete(l) == \E i \in Inode : \E k \in 1 .. Len(data[i]) : CompleteAt(i, k) /\ data[i][k] = l

FilesInit ==
    /\ \E i \in Inode :
         /\ dir = [n \in Name |-> IF n = "log" THEN i ELSE NoFile]
         /\ fd = i
    /\ data = [i \in Inode |-> <<>>]
    /\ open = [i \in Inode |-> FALSE]
    /\ written = 0
    /\ rotations = 0

\* nginx appends the text of a line ...
WriteText ==
    /\ written < MaxLines
    /\ ~open[fd]
    /\ data' = [data EXCEPT ![fd] = Append(@, written + 1)]
    /\ open' = [open EXCEPT ![fd] = TRUE]
    /\ written' = written + 1
    /\ UNCHANGED <<dir, fd, rotations>>

\* ... and its newline: the two can reach the file in different flushes.
WriteNewline ==
    /\ open[fd]
    /\ open' = [open EXCEPT ![fd] = FALSE]
    /\ UNCHANGED <<dir, data, fd, written, rotations>>

\* What becomes of a file that lost its last name.
Erased(files, i) == [j \in Inode |-> IF j = i THEN <<>> ELSE files[j]]

\* logrotate renames the live log over the previous rotated one; nginx keeps
\* writing to the inode until it is told to reopen.
Rename ==
    /\ rotations < MaxRotations
    /\ dir["log"] # NoFile
    /\ dir' = [n \in Name |-> IF n = "log" THEN NoFile ELSE dir["log"]]
    /\ data' = Erased(data, dir["log.1"])
    /\ rotations' = rotations + 1
    /\ UNCHANGED <<open, fd, written>>

\* nginx reopens its log: a new file, under an inode no file has now.
Reopen(i) ==
    /\ dir["log"] = NoFile
    /\ ~open[fd]
    /\ i \notin Named
    /\ dir' = [dir EXCEPT !["log"] = i]
    /\ fd' = i
    /\ UNCHANGED <<data, open, written, rotations>>

\* logrotate's copytruncate: the inode stays, its bytes go.
Truncate ==
    /\ rotations < MaxRotations
    /\ dir["log"] # NoFile
    /\ data' = Erased(data, dir["log"])
    /\ open' = [open EXCEPT ![dir["log"]] = FALSE]
    /\ rotations' = rotations + 1
    /\ UNCHANGED <<dir, fd, written>>

\* The rotated file is compressed (to a name the watcher ignores) or deleted.
Delete ==
    /\ rotations < MaxRotations
    /\ dir["log.1"] \notin {NoFile, fd}
    /\ dir' = [dir EXCEPT !["log.1"] = NoFile]
    /\ data' = Erased(data, dir["log.1"])
    /\ rotations' = rotations + 1
    /\ UNCHANGED <<open, fd, written>>

\* The files of the logs directory, as one variable of the watcher's world.
FilesTypeOK ==
    /\ dir \in [Name -> Inode \cup {NoFile}]
    /\ data \in [Inode -> Seq(Line)]
    /\ open \in [Inode -> BOOLEAN]
    /\ fd \in Inode
    /\ written \in 0 .. MaxLines
    /\ rotations \in 0 .. MaxRotations
===============================================================================
