---------------------------- MODULE MCThreatAlerts ----------------------------
(***************************************************************************)
(* Instances of ThreatAlerts: two rules and two evaluations at a time,     *)
(* which is what it takes to overtake one another, and two subjects, so    *)
(* that one rule can have the findings a mail needs.                       *)
(***************************************************************************)
EXTENDS ThreatAlerts, TLC

CONSTANTS r1, r2, s1, s2, e1, e2

Symmetry ==
    Permutations({r1, r2}) \cup Permutations({s1, s2}) \cup Permutations({e1, e2})
===============================================================================
