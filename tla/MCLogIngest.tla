----------------------------- MODULE MCLogIngest -----------------------------
(* Model-checking instance of LogIngest: inodes are interchangeable. *)
EXTENDS LogIngestInv, TLC

CONSTANTS i1, i2, i3

InodeSymmetry == Permutations(Inode)
===============================================================================
