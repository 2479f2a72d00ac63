------------------------------ MODULE MCThreatsPage ------------------------------
(* Model-checking instance of ThreatsPage: two tabs, two subjects, a trusted list   *)
(* with one entry and room for one more, and a range that bans one subject.         *)
EXTENDS ThreatsPage, TLC
CONSTANTS a, b, home, t1, t2
MCTargetOf == [s \in {a, b} |-> s]
MCFirstTrusted == <<home>>
Tabs == Permutations({t1, t2})
==================================================================================
