------------------------------- MODULE LogIngest -------------------------------
(***************************************************************************)
(* Incremental ingestion of the nginx logs: server/src/ingest/watcher.ts   *)
(* with the two tables of server/src/store/store.ts it writes, access_log  *)
(* (error_log is handled alike) and ingest_offset.                         *)
(*                                                                         *)
(* A pass over a file (#readIncremental) has no await, so no other handler *)
(* of the process runs inside it; what does run inside it is the outside   *)
(* world of LogFiles, and the end of the process.  Hence its steps: stat,  *)
(* one read-and-commit per chunk, and the write of the offset.             *)
(*                                                                         *)
(* Every line is taken to parse and to be newer than the backfill cutoff.  *)
(***************************************************************************)
EXTENDS LogFiles

CONSTANTS BufLimit,    \* bytes of a file read per chunk
          Widened,     \* lines whose bytes are not valid UTF-8 ...
          Extra,       \* ... and the bytes re-encoding such a line adds
          MaxCrashes,  \* ends of the process in a behaviour
          MaxFaults    \* exceptions inside a pass in a behaviour

ASSUME IngestAssumption ==
    /\ BufLimit \in Nat /\ BufLimit >= 2      \* a line fits into the buffer
    /\ Widened \subseteq Line /\ Extra \in Nat \ {0}
    /\ MaxCrashes \in Nat /\ MaxFaults \in Nat

NoState == -1
Idle == [on |-> FALSE]

\* What can befall ingestion.  History only: no action reads it.
Mishap == {"interrupted",  \* a pass ended after a commit, before its offset was saved
           "aborted",      \* a pass ended in an exception, and its event is gone
           "masked",       \* a pass resumed at an offset saved for other contents
           "swapped",      \* the file a pass had statted was replaced under it
           "drifted",      \* an offset was advanced by re-encoded, not by read, bytes
           "unseen"}       \* bytes arrived after the backfill and before the watch

VARIABLES
    rows,      \* line -> times it is stored (access_log, persistent)
    ingest,    \* inode -> offset, or NoState (ingest_offset, persistent)
    mode,      \* "down", "backfill" or "watching"
    todo,      \* names start() has still to backfill
    dirty,     \* names with a file event not yet handled
    pass,      \* the pass that is running
    crashes, faults,
    stale,     \* history: inodes whose saved offset is of earlier contents
    lost,      \* history: lines erased from their file before they were stored
    mishaps    \* history: what has happened, of Mishap

dbVars == <<rows, ingest>>
procVars == <<mode, todo, dirty, pass>>
counts == <<crashes, faults>>
vars == <<fileVars, dbVars, procVars, counts, stale, lost, mishaps>>

Active == [on : {TRUE}, file : Name, ino : Inode, size : Nat, offset : Nat,
           stored : BOOLEAN, more : BOOLEAN]

TypeOK ==
    /\ FilesTypeOK
    /\ rows \in [Line -> Nat]
    /\ ingest \in [Inode -> Nat \cup {NoState}]
    /\ mode \in {"down", "backfill", "watching"}
    /\ todo \subseteq Name
    /\ dirty \subseteq Name
    /\ pass \in Active \cup {Idle}
    /\ crashes \in 0 .. MaxCrashes
    /\ faults \in 0 .. MaxFaults
    /\ stale \subseteq Inode
    /\ lost \subseteq Line
    /\ mishaps \subseteq Mishap

UnderPass(i) == pass.on /\ pass.ino = i

Init ==
    /\ FilesInit
    /\ rows = [l \in Line |-> 0]
    /\ ingest = [i \in Inode |-> NoState]
    /\ mode = "down"
    /\ todo = {} /\ dirty = {}
    /\ pass = Idle
    /\ crashes = 0 /\ faults = 0
    /\ stale = {} /\ lost = {} /\ mishaps = {}

--------------------------------------------------------------------------------
(* The outside world acts, and chokidar notices it while it watches.          *)

\* A file event for each of the names, once its writes have settled.
Notify(names) == dirty' = IF mode = "watching" THEN dirty \cup names ELSE dirty

\* The lines of i that go with it before they were stored.
Unstored(i) == {l \in Line : rows[l] = 0 /\ \E k \in 1 .. Len(data[i]) : data[i][k] = l}

Aside(happened) == mishaps' = mishaps \cup happened

NginxWrites ==
    /\ WriteText \/ WriteNewline
    /\ Notify(Names(fd))
    /\ UNCHANGED <<dbVars, mode, todo, pass, counts, stale, lost, mishaps>>

LogRenamed ==
    /\ Rename
    /\ Notify({"log.1"})
    /\ lost' = lost \cup (IF dir["log.1"] = NoFile THEN {} ELSE Unstored(dir["log.1"]))
    /\ UNCHANGED <<dbVars, mode, todo, pass, counts, stale, mishaps>>

\* An inode the table still has an offset for may be the one that is handed out.
LogReopened ==
    /\ \E i \in Inode :
         /\ Reopen(i)
         /\ stale' = stale \cup (IF ingest[i] # NoState THEN {i} ELSE {})
         /\ Aside(IF UnderPass(i) THEN {"swapped"} ELSE {})
    /\ Notify({"log"})
    /\ UNCHANGED <<dbVars, mode, todo, pass, counts, lost>>

LogTruncated ==
    /\ Truncate
    /\ LET i == dir["log"] IN
         /\ stale' = stale \cup (IF ingest[i] # NoState THEN {i} ELSE {})
         /\ lost' = lost \cup Unstored(i)
         /\ Aside(IF UnderPass(i) THEN {"swapped"} ELSE {})
    /\ Notify({"log"})
    /\ UNCHANGED <<dbVars, mode, todo, pass, counts>>

LogDeleted ==
    /\ Delete
    /\ lost' = lost \cup Unstored(dir["log.1"])
    /\ UNCHANGED <<dbVars, procVars, counts, stale, mishaps>>

--------------------------------------------------------------------------------
(* The watcher.                                                               *)

\* Store: a batch of parsed lines is committed; offsets by inode.
InsertBatch(read, junk) ==
    rows' = [l \in Line |-> rows[l] + (IF l \in read THEN 1 ELSE 0)
                                    + (IF l \in junk THEN 1 ELSE 0)]
SetIngestState(i, offset) == ingest' = [ingest EXCEPT ![i] = offset]
PruneIngestState(live) == ingest' = [i \in Inode |-> IF i \in live THEN ingest[i] ELSE NoState]

\* start(): list the files, and forget the offsets of inodes without a name.
Start ==
    /\ mode = "down"
    /\ mode' = "backfill"
    /\ todo' = {n \in Name : dir[n] # NoFile}
    /\ PruneIngestState(Named)
    /\ stale' = stale \cap Named
    /\ UNCHANGED <<fileVars, rows, dirty, pass, counts, lost, mishaps>>

\* Mutants: a file that has not grown counts as truncated; a file never seen
\* before is looked up like any other.
ResumeIfGrown(i) == IF ingest[i] # NoState /\ Size(i) > ingest[i] THEN ingest[i] ELSE 0
ResumeUnchecked(i) == IF Size(i) >= ingest[i] THEN ingest[i] ELSE 0

\* The offset a pass over i starts from: a file smaller than the saved offset
\* was truncated.
ResumeAt(i) == IF ingest[i] # NoState /\ Size(i) >= ingest[i] THEN ingest[i] ELSE 0

\* #ingestFile and the stat of #readIncremental, for the next file of the
\* backfill or for a file event.
BeginPass(n) ==
    /\ ~pass.on
    /\ \/ mode = "backfill" /\ n \in todo
       \/ mode = "watching" /\ n \in dirty
    /\ todo' = todo \ {n}
    /\ dirty' = dirty \ {n}
    /\ IF dir[n] = NoFile
         THEN UNCHANGED <<pass, mishaps>>                     \* vanished
         ELSE LET i == dir[n] IN
              /\ pass' = [on |-> TRUE, file |-> n, ino |-> i, size |-> Size(i),
                          offset |-> ResumeAt(i), stored |-> FALSE, more |-> TRUE]
              /\ Aside(IF i \in stale /\ ResumeAt(i) > 0 THEN {"masked"} ELSE {})
    /\ UNCHANGED <<fileVars, dbVars, mode, counts, stale, lost>>

\* Mutant: what follows the last newline of a chunk is consumed with it.
ConsumeTail(i, a, b) == {[end |-> b, junk |-> {}]}

\* What a read of the bytes a .. b-1 of i yields: where its last newline ends,
\* and the lines that are not of this file.  A file shorter than b leaves the
\* rest of the unzeroed buffer as it was, and that may hold text read before.
ReadOutcomes(i, a, b) ==
    IF Size(i) >= b
      THEN {[end |-> b - (b % 2), junk |-> {}]}
      ELSE [end : a .. b, junk : {{}} \cup {{l} : l \in 1 .. written}]

\* The whole lines among the bytes a .. e-1 of i.
LinesBetween(i, a, e) ==
    {l \in Line : \E k \in 1 .. Len(data[i]) :
        data[i][k] = l /\ a <= 2 * k - 2 /\ 2 * k <= e /\ 2 * k <= Size(i)}

\* One round of the loop: open the path again, read, commit the batch.
PassChunk ==
    /\ pass.on /\ pass.more /\ pass.offset < pass.size
    /\ dir[pass.file] # NoFile
    /\ LET i == dir[pass.file]
           a == pass.offset
           b == IF a + BufLimit < pass.size THEN a + BufLimit ELSE pass.size
       IN \E out \in ReadOutcomes(i, a, b) :
            LET read == LinesBetween(i, a, out.end)
                wide == Cardinality(read \cap Widened)
            IN
            /\ IF out.end > a
                 THEN /\ InsertBatch(read, out.junk)
                      /\ pass' = [pass EXCEPT !.offset = out.end + Extra * wide,
                                              !.stored = @ \/ read \cup out.junk # {}]
                 ELSE /\ pass' = [pass EXCEPT !.more = FALSE]  \* no complete line
                      /\ UNCHANGED rows
            /\ Aside((IF i # pass.ino \/ Size(i) < b THEN {"swapped"} ELSE {})
                     \cup (IF wide > 0 THEN {"drifted"} ELSE {}))
    /\ UNCHANGED <<fileVars, ingest, mode, todo, dirty, counts, stale, lost>>

\* Mutants: the offset is saved for the file the path leads to by now; an event
\* that came in during the pass is taken for one the pass has handled.
SaveByPath ==
    /\ pass.on
    /\ ~pass.more \/ pass.offset >= pass.size
    /\ SetIngestState(dir[pass.file], pass.offset)
    /\ stale' = stale \ {pass.ino}
    /\ pass' = Idle
    /\ UNCHANGED <<fileVars, rows, mode, todo, dirty, counts, lost, mishaps>>

SwallowEvent ==
    /\ pass.on
    /\ ~pass.more \/ pass.offset >= pass.size
    /\ SetIngestState(pass.ino, pass.offset)
    /\ stale' = stale \ {pass.ino}
    /\ pass' = Idle
    /\ dirty' = dirty \ {pass.file}
    /\ UNCHANGED <<fileVars, rows, mode, todo, counts, lost, mishaps>>

\* The loop is over: save the offset.
PassEnd ==
    /\ pass.on
    /\ ~pass.more \/ pass.offset >= pass.size
    /\ SetIngestState(pass.ino, pass.offset)
    /\ stale' = stale \ {pass.ino}
    /\ pass' = Idle
    /\ UNCHANGED <<fileVars, rows, mode, todo, dirty, counts, lost, mishaps>>

\* The pass ends without saving its offset.
Abandoned == IF pass.on /\ pass.stored THEN {"interrupted"} ELSE {}

\* The path is gone when the loop opens it: the exception ends the pass.
PassVanished ==
    /\ pass.on /\ pass.more /\ pass.offset < pass.size
    /\ dir[pass.file] = NoFile
    /\ pass' = Idle
    /\ Aside({"aborted"} \cup Abandoned)
    /\ UNCHANGED <<fileVars, dbVars, mode, todo, dirty, counts, stale, lost>>

\* A read, an insert (rolled back), a listener or the save of the offset throws.
PassFails ==
    /\ pass.on
    /\ faults < MaxFaults
    /\ faults' = faults + 1
    /\ pass' = Idle
    /\ Aside({"aborted"} \cup Abandoned)
    /\ UNCHANGED <<fileVars, dbVars, mode, todo, dirty, crashes, stale, lost>>

\* The file has a complete line that is not stored.
Behind(n) ==
    /\ dir[n] # NoFile
    /\ \E k \in 1 .. Len(data[dir[n]]) : CompleteAt(dir[n], k) /\ rows[data[dir[n]][k]] = 0

\* chokidar takes the files as it finds them (ignoreInitial) and watches.
Watch ==
    /\ mode = "backfill" /\ todo = {} /\ ~pass.on
    /\ mode' = "watching"
    /\ Aside(IF \E n \in Name : Behind(n) THEN {"unseen"} ELSE {})
    /\ UNCHANGED <<fileVars, dbVars, todo, dirty, pass, counts, stale, lost>>

\* The process ends, at any point; stop() cannot end it inside a pass, a crash can.
Crash ==
    /\ mode # "down"
    /\ crashes < MaxCrashes
    /\ crashes' = crashes + 1
    /\ mode' = "down"
    /\ todo' = {} /\ dirty' = {}
    /\ pass' = Idle
    /\ Aside(Abandoned)
    /\ UNCHANGED <<fileVars, dbVars, faults, stale, lost>>

World == NginxWrites \/ LogRenamed \/ LogReopened \/ LogTruncated \/ LogDeleted

Watcher ==
    \/ Start
    \/ \E n \in Name : BeginPass(n)
    \/ PassChunk
    \/ PassEnd
    \/ PassVanished
    \/ Watch

Next == World \/ Watcher \/ PassFails \/ Crash

Spec == Init /\ [][Next]_vars

\* The process is restarted when it ends (restart: unless-stopped), its event
\* loop goes on, and a file that is left alone settles.
FairSpec == Spec /\ WF_vars(Watcher)

--------------------------------------------------------------------------------
(* Properties.                                                                *)

\* A line is stored at most once, across rotations, recycled inodes, truncations
\* and restarts, unless a pass ended between a commit and the save of its offset,
\* had its file replaced under it, or counted bytes it did not read
\* (watcher.ts #readIncremental; store.ts ingest_offset).
NoDuplicates ==
    mishaps \cap {"interrupted", "swapped", "drifted"} = {}
        => \A l \in Line : rows[l] <= 1

\* The saved offset of i leaves line k to be read by a later pass.
Pending(i, k) == i \in stale \/ 2 * k > ingest[i]

\* No line is skipped: a complete line is stored, or a later pass over its file
\* will still read it, or the file lost it before it could be read.  Crashes,
\* exceptions and interrupted passes never break this, only an offset that
\* does not belong to the contents does.
NothingSkipped ==
    mishaps \cap {"masked", "swapped", "drifted"} = {}
        => \A i \in Inode : \A k \in 1 .. Len(data[i]) :
             CompleteAt(i, k) => rows[data[i][k]] > 0 \/ Pending(i, k)

\* Between two passes over a file the saved offset only grows, unless a new
\* file or new contents are behind the number (ingest_offset.offset).
OffsetsOnlyGrow ==
    [][\A i \in Inode :
         ingest[i] # NoState /\ ingest'[i] # NoState /\ ingest'[i] < ingest[i]
            => i \in stale \/ mishaps' \cap {"swapped", "drifted"} # {}]_vars

\* A pass that is due or under way will read line k of the file named n.
WillRead(n, k) ==
    \/ n \in dirty
    \/ UnderPass(dir[n]) /\ pass.more /\ pass.offset < 2 * k /\ 2 * k <= pass.size

\* No event is consumed in vain: while the watcher watches, a complete line that is
\* not stored yet has an event, or a pass that will reach it, whatever nginx and
\* logrotate do between the stat, the chunks and the end of a pass, and however the
\* process crashed before (watcher.ts #ingestFile, #readIncremental).
NothingForgotten ==
    mode = "watching" /\ mishaps \cap {"aborted", "masked", "swapped", "drifted", "unseen"} = {}
        => \A n \in Name : dir[n] # NoFile =>
             \A k \in 1 .. Len(data[dir[n]]) :
               CompleteAt(dir[n], k) => rows[data[dir[n]][k]] > 0 \/ WillRead(n, k)

\* Ingestion seen through its store: how LogStore's variables are read off this state.
Promise == INSTANCE LogStore WITH
    whole <- {l \in Line : Complete(l)},
    stored <- rows,
    again <- mishaps \cap {"interrupted", "swapped", "drifted"} # {},
    garbled <- "swapped" \in mishaps

\* Files, offsets, passes, crashes and rotations implement the store of LogStore:
\* what is inserted are whole lines, each once (watcher.ts #processLines).
StoresWholeLinesOnce == Promise!Spec

\* No line is stored twice, whatever happens (watcher.ts: "restarts resume where we
\* left off (no duplicates, no gaps)").
StoredOnce == \A l \in Line : rows[l] <= 1

\* Whatever nginx finishes writing is in the end stored, or erased first, as
\* long as no event was missed or thrown away: a crash at any point is made
\* good by the backfill of the next start.
EventuallyStored ==
    \A l \in Line :
        Complete(l) ~> \/ rows[l] > 0
                       \/ l \in lost
                       \/ mishaps \cap {"aborted", "masked", "swapped", "drifted", "unseen"} # {}

================================================================================
