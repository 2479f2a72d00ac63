------------------------------- MODULE Upgrades -------------------------------
(***************************************************************************)
(* What a start of the program does to the state it finds: Store#migrate   *)
(* and #migrateIngestState (server/src/store/store.ts), then               *)
(* ThreatEngine#offerNewDefaultPatterns (server/src/threats/engine.ts).    *)
(* Each statement SQLite commits on its own is a step, and the process may *)
(* end between any two of them, to be started again with the same release, *)
(* a later one or an earlier one.                                          *)
(*                                                                         *)
(* Release 1 is the program before the three: no actor column, offsets     *)
(* keyed by file name, and no record of the default patterns offered.      *)
(* What it did is taken from what the later releases undo.  Every release  *)
(* after it runs the code of this repository, with the defaults it ships.  *)
(*                                                                         *)
(* The rules are alike and independent: one of them is modelled.           *)
(***************************************************************************)
EXTENDS Naturals

CONSTANTS Release,     \* the releases, 1 .. n
          Pattern,     \* patterns of a rule: defaults and the operator's own
          Defaults,    \* release -> the default patterns it ships
          Client,      \* addresses that make requests
          NetOf,       \* client -> its actor: the /64 of an IPv6 address, or itself
          NoNet,       \* NULL
          Name, Inode, \* log files
          MaxOffset,   \* bytes of a log file
          MaxStarts    \* starts of the process in a behaviour

ASSUME UpgradesAssumption ==
    /\ Release \subseteq Nat /\ 1 \in Release /\ \A r \in Release : r >= 1
    /\ Defaults \in [Release -> SUBSET Pattern]
    \* A release appends to the defaults of the one before it (detectors.ts:67-71).
    /\ \A r, s \in Release : r <= s => Defaults[r] \subseteq Defaults[s]
    /\ \A c \in Client : NetOf[c] # NoNet
    /\ MaxOffset \in Nat /\ MaxStarts \in Nat

VARIABLES
    release, phase,       \* the release that runs, and how far its start is
    column, rows,         \* access_log: has client_net; its rows
    hasLegacy, legacy,    \* ingest_state, by name: exists; its rows
    offsets,              \* ingest_offset, by inode: its rows
    configured, saved,    \* app_settings threat_config: present; the patterns
    tracked, offered,     \* app_settings threat_offered_patterns: likewise
    starts,
    newest,               \* history: the newest release that was started
    downgrades,           \* history: releases started after a newer one
    recorded,             \* history: the offset last recorded of each file
    refused               \* history: defaults the operator was shown and saved without

storeVars == <<column, rows>>
offsetVars == <<hasLegacy, legacy, offsets>>
settingVars == <<configured, saved, tracked, offered>>
startVars == <<starts, newest, downgrades>>
vars == <<release, phase, storeVars, offsetVars, settingVars, startVars, recorded, refused>>

Row == [client : Client, net : {NetOf[c] : c \in Client} \cup {NoNet}]
LegacyRow == [file : Name, ino : Inode, offset : 0 .. MaxOffset]
OffsetRow == [ino : Inode, offset : 0 .. MaxOffset]

Starting == {"schema", "column", "filled", "copied", "moved", "config"}

TypeOK ==
    /\ release \in Release /\ release <= newest
    /\ phase \in Starting \cup {"down", "running"}
    /\ phase \in Starting => release > 1
    /\ phase = "running" /\ release = 1 => hasLegacy
    /\ column \in BOOLEAN /\ rows \subseteq Row
    /\ hasLegacy \in BOOLEAN /\ legacy \subseteq LegacyRow /\ offsets \subseteq OffsetRow
    /\ ~hasLegacy => legacy = {}
    /\ \A o, p \in offsets : o.ino = p.ino => o = p               \* PRIMARY KEY
    /\ configured \in BOOLEAN /\ saved \subseteq Pattern
    /\ tracked \in BOOLEAN /\ offered \subseteq Pattern
    /\ starts \in 0 .. MaxStarts /\ newest \in Release /\ downgrades \subseteq Release
    /\ recorded \subseteq OffsetRow
    /\ refused \subseteq Pattern

Init ==
    /\ release = 1 /\ phase = "down"
    /\ column = FALSE /\ rows = {}
    /\ hasLegacy = FALSE /\ legacy = {} /\ offsets = {}
    /\ configured = FALSE /\ saved = {}
    /\ tracked = FALSE /\ offered = {}
    /\ starts = 0 /\ newest = 1 /\ downgrades = {}
    /\ recorded = {} /\ refused = {}

--------------------------------------------------------------------------------
(* A start.                                                                   *)

\* The container is started with some release, and the release's SCHEMA is run:
\* what exists is left alone.
Start(r) ==
    /\ phase = "down" /\ starts < MaxStarts
    /\ starts' = starts + 1
    /\ release' = r
    /\ newest' = IF r > newest THEN r ELSE newest
    /\ downgrades' = IF r < newest THEN downgrades \cup {r} ELSE downgrades
    /\ phase' = IF r = 1 THEN "running" ELSE "schema"
    /\ column' = (column \/ (starts = 0 /\ r > 1))    \* a new database
    /\ hasLegacy' = (hasLegacy \/ r = 1)
    /\ UNCHANGED <<rows, legacy, offsets, settingVars, recorded, refused>>

\* Mutant: the rows are filled in only when the column is added.
AddColumnAndFill ==
    /\ phase = "schema"
    /\ column' = TRUE
    /\ phase' = IF column THEN "filled" ELSE "column"
    /\ UNCHANGED <<release, rows, offsetVars, settingVars, startVars, recorded, refused>>

\* ALTER TABLE, unless the column is there.
AddColumn ==
    /\ phase = "schema"
    /\ column' = TRUE
    /\ phase' = "column"
    /\ UNCHANGED <<release, rows, offsetVars, settingVars, startVars, recorded, refused>>

\* One transaction gives every row without an actor the actor of its client;
\* the index is made with it.
Backfill ==
    /\ phase = "column"
    /\ rows' = {IF r.net = NoNet THEN [r EXCEPT !.net = NetOf[r.client]] ELSE r : r \in rows}
    /\ phase' = "filled"
    /\ UNCHANGED <<release, column, offsetVars, settingVars, startVars, recorded, refused>>

\* Mutant: the rows are copied in descending order, so the least offset is last.
LastCopied(r) == \A s \in legacy : s.ino = r.ino => s.offset >= r.offset

\* INSERT OR REPLACE in ascending order of the offset: the last row of an inode stays.
StaysOf(r) == \A s \in legacy : s.ino = r.ino => s.offset <= r.offset

\* The copy replaces what the new table holds of the inodes in the old one.
CopyOffsets ==
    /\ phase = "filled" /\ hasLegacy
    /\ offsets' = {o \in offsets : \A r \in legacy : r.ino # o.ino}
                  \cup {[ino |-> r.ino, offset |-> r.offset] : r \in {s \in legacy : StaysOf(s)}}
    /\ phase' = "copied"
    /\ UNCHANGED <<release, storeVars, hasLegacy, legacy, settingVars, startVars, recorded, refused>>

\* DROP TABLE; or there was nothing to move.
DropLegacy ==
    /\ \/ phase = "copied"
       \/ phase = "filled" /\ ~hasLegacy
    /\ hasLegacy' = FALSE /\ legacy' = {}
    /\ phase' = "moved"
    /\ UNCHANGED <<release, storeVars, offsets, settingVars, startVars, recorded, refused>>

\* The lists V1, V2, ... of a detector's patterns: those of this release, and those
\* every install was shown before there was a record.
Current == Defaults[release]
Baseline == Defaults[1]

\* Mutants: what was offered is forgotten, as if the saved patterns were compared
\* with the defaults alone; an install without a record is taken to know them all.
SeenInConfig == saved
SeenByAll == saved \cup (IF tracked THEN offered ELSE Current)

\* What the install has been offered, or has anyway.
Seen == saved \cup (IF tracked THEN offered ELSE Baseline)

\* The first row: the saved rule with the defaults that are new to it.
OfferPatterns ==
    /\ phase = "moved"
    /\ saved' = IF configured THEN saved \cup (Current \ Seen) ELSE saved
    /\ phase' = "config"
    /\ UNCHANGED <<release, storeVars, offsetVars, configured, tracked, offered, startVars,
                   recorded, refused>>

\* The second row: the defaults of this release, whatever the row said.
RecordOffer ==
    /\ phase = "config"
    /\ tracked' = TRUE /\ offered' = Current
    /\ phase' = "running"
    /\ UNCHANGED <<release, storeVars, offsetVars, configured, saved, startVars, recorded, refused>>

--------------------------------------------------------------------------------
(* The program runs.                                                          *)

\* A line is stored, with its actor where the release knows of one.
InsertAccess(c) ==
    /\ phase = "running"
    /\ rows' = rows \cup {[client |-> c, net |-> IF release = 1 THEN NoNet ELSE NetOf[c]]}
    /\ UNCHANGED <<release, phase, column, offsetVars, settingVars, startVars, recorded, refused>>

\* Retention deletes the oldest rows.
PruneBefore ==
    /\ phase = "running"
    /\ \E gone \in (SUBSET rows) \ {{}} : rows' = rows \ gone
    /\ UNCHANGED <<release, phase, column, offsetVars, settingVars, startVars, recorded, refused>>

\* Release 1 saves how far it has read the file n, which is inode i by now.
SetLegacyState(n, i, o) ==
    /\ phase = "running" /\ release = 1
    /\ legacy' = {r \in legacy : r.file # n} \cup {[file |-> n, ino |-> i, offset |-> o]}
    /\ recorded' = {[ino |-> r.ino, offset |-> r.offset] : r \in legacy'}
    /\ UNCHANGED <<release, phase, storeVars, hasLegacy, offsets, settingVars, startVars, refused>>

\* Mutant: the row of the inode is not replaced.
AppendIngestState(i, o) ==
    /\ phase = "running" /\ release > 1
    /\ offsets' = offsets \cup {[ino |-> i, offset |-> o]}
    /\ recorded' = {r \in recorded : r.ino # i} \cup {[ino |-> i, offset |-> o]}
    /\ UNCHANGED <<release, phase, storeVars, hasLegacy, legacy, settingVars, startVars, refused>>

\* A later release saves how far it has read the inode i.
SetIngestState(i, o) ==
    /\ phase = "running" /\ release > 1
    /\ offsets' = {r \in offsets : r.ino # i} \cup {[ino |-> i, offset |-> o]}
    /\ recorded' = {r \in recorded : r.ino # i} \cup {[ino |-> i, offset |-> o]}
    /\ UNCHANGED <<release, phase, storeVars, hasLegacy, legacy, settingVars, startVars, refused>>

\* getConfig: the saved rule replaces its defaults as a whole.
Effective == IF configured THEN saved ELSE Current

\* The operator saves the configuration with any patterns.
SetConfig(ps) ==
    /\ phase = "running"
    /\ configured' = TRUE /\ saved' = ps
    /\ refused' = (refused \cup (Effective \cap Current)) \ ps
    /\ UNCHANGED <<release, phase, storeVars, offsetVars, tracked, offered, startVars, recorded>>

\* The process ends, between any two statements.
Kill ==
    /\ phase # "down"
    /\ phase' = "down"
    /\ UNCHANGED <<release, storeVars, offsetVars, settingVars, startVars, recorded, refused>>

Migrate == AddColumn \/ Backfill \/ CopyOffsets \/ DropLegacy
Offer == OfferPatterns \/ RecordOffer
Use ==
    \/ \E c \in Client : InsertAccess(c)
    \/ PruneBefore
    \/ \E i \in Inode, o \in 0 .. MaxOffset :
         SetIngestState(i, o) \/ \E n \in Name : SetLegacyState(n, i, o)
    \/ \E ps \in SUBSET Pattern : SetConfig(ps)

Next == (\E r \in Release : Start(r)) \/ Migrate \/ Offer \/ Use \/ Kill

Spec == Init /\ [][Next]_vars

--------------------------------------------------------------------------------
(* Properties.                                                                *)

\* Whatever releases ran before and wherever starts were cut off, a release that
\* groups requests by actor finds every row with its actor (store.ts #migrate:
\* "Runs on every start and is a no-op once applied").
EveryRowHasItsActor ==
    phase = "running" /\ release > 1 =>
        /\ column
        /\ \A r \in rows : r.net = NetOf[r.client]

\* The last offset recorded for a file is the one that is resumed at: an upgrade
\* neither re-reads nor skips, even when it is killed between the copy and the
\* drop (store.ts #migrateIngestState).  Release 1 after a later one keeps a
\* table of its own beside the new one.
ProgressKept ==
    phase = "running" /\ release > 1 /\ 1 \notin downgrades =>
        /\ \A o \in offsets : o \in recorded
        /\ \A r \in recorded : \E o \in offsets : o.ino = r.ino /\ o.offset >= r.offset

\* "A pattern the user deliberately removed stays removed" (engine.ts
\* #offerNewDefaultPatterns), through every later release and interrupted start,
\* as long as no older release is started in between.
RemovedStaysRemoved == configured /\ downgrades = {} => refused \cap saved = {}

\* Every default the running release ships is in force, or the operator saved
\* without it: no interrupted start and no older release makes an install miss
\* one, but for release 1, which keeps no record.
DefaultsReachInstall ==
    phase = "running" /\ 1 \notin downgrades =>
        Defaults[release] \subseteq Effective \cup refused

--------------------------------------------------------------------------------
(* The inductive invariant behind them.                                       *)

\* Past the backfill, no row is without its actor.
Filled == {"filled", "copied", "moved", "config"}

RowsInv ==
    /\ \A r \in rows : r.net \in {NoNet, NetOf[r.client]}
    /\ phase \in Filled \/ (phase = "running" /\ release > 1) =>
         column /\ \A r \in rows : r.net = NetOf[r.client]
    /\ phase = "column" => column

\* Until release 1 is started again the two tables together hold what was
\* recorded: the old one while it exists, the new one once the copy is made.
OffsetsInv ==
    1 \notin downgrades =>
        /\ hasLegacy => recorded = {[ino |-> r.ino, offset |-> r.offset] : r \in legacy}
        /\ ~hasLegacy \/ phase = "copied" =>
             /\ offsets \subseteq recorded
             /\ \A r \in recorded : \E o \in offsets : o.ino = r.ino /\ o.offset >= r.offset
        /\ hasLegacy => \A o \in offsets : \E r \in legacy : r.ino = o.ino
        /\ newest = 1 => offsets = {} /\ (~hasLegacy => recorded = {})
        /\ phase = "running" /\ release = 1 => newest = 1
        /\ phase = "copied" => hasLegacy
        /\ phase \in {"moved", "config"} \/ (phase = "running" /\ release > 1) => ~hasLegacy

\* What the install counts as offered: what it could have been shown.
Known == IF tracked THEN offered ELSE Baseline

OffersInv ==
    /\ ~configured => saved = {} /\ refused = {}
    /\ newest = 1 => ~tracked
    /\ downgrades = {} => /\ release = newest
                          /\ refused \subseteq Known /\ Known \subseteq Defaults[newest]
                          /\ refused \cap saved = {}
    /\ phase = "running" /\ release > 1 => tracked /\ offered = Defaults[release]
    /\ phase = "config" /\ configured => Defaults[release] \subseteq saved \cup Known
    /\ 1 \notin downgrades /\ configured => Known \subseteq saved \cup refused

IInv == TypeOK /\ RowsInv /\ OffsetsInv /\ OffersInv

================================================================================
