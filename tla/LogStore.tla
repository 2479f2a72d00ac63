------------------------------- MODULE LogStore -------------------------------
(***************************************************************************)
(* What log ingestion promises, without files, offsets or passes: lines    *)
(* are whole in the log files for a while, and batches of them are stored. *)
(* A batch holds only lines that are whole, and none that is stored        *)
(* already.  Each promise ends with a mishap of its own: after one kind    *)
(* lines may be stored again, after the other anything may be stored.      *)
(***************************************************************************)
EXTENDS Naturals

CONSTANT Line

VARIABLES whole,    \* the lines that are whole in some file
          stored,   \* line -> times it is stored
          again,    \* a mishap after which lines may be stored again
          garbled   \* one after which what is read may be of no file

vars == <<whole, stored, again, garbled>>

Init == /\ whole = {} /\ stored = [l \in Line |-> 0]
        /\ again = FALSE /\ garbled = FALSE

\* Lines are finished, and files go with theirs.
Change == whole' \subseteq Line /\ UNCHANGED stored

\* A batch.
StoreBatch ==
    \E batch \in SUBSET whole :
        /\ again' \/ \A l \in batch : stored[l] = 0
        /\ stored' = [l \in Line |-> stored[l] + (IF l \in batch THEN 1 ELSE 0)]
        /\ UNCHANGED whole

\* A batch with text of earlier reads in it.
StoreGarbled ==
    /\ garbled'
    /\ stored' \in [Line -> Nat] /\ \A l \in Line : stored'[l] >= stored[l]
    /\ UNCHANGED whole

Next == /\ again => again'
        /\ garbled => garbled'
        /\ Change \/ StoreBatch \/ StoreGarbled

Spec == Init /\ [][Next]_vars
===============================================================================
