------------------------------ MODULE MCUpgrades ------------------------------
(* Model-checking instance of Upgrades: three releases, each with one more       *)
(* default pattern, which the operator may have added before it was one.         *)
EXTENDS Upgrades, TLC

CONSTANTS p1, p2, p3, v4, v6, net64, log, log1, i1, i2

MCDefaults == <<{p1}, {p1, p2}, {p1, p2, p3}>>
MCNetOf == [c \in Client |-> IF c = v6 THEN net64 ELSE c]
FileSymmetry == Permutations(Name) \cup Permutations(Inode)
===============================================================================
