------------------------------ MODULE MCSessions ------------------------------
(***************************************************************************)
(* Instances of Sessions: two logins at a time from one address, so that   *)
(* one can finish between the start and the end of the other, and a stream *)
(* whose pings are closer together than the answers of the cache hold, as  *)
(* in the code (25 and 60 seconds).                                        *)
(***************************************************************************)
EXTENDS Sessions, TLC

CONSTANTS u1, ip1, k1, k2, s1

Symmetry == Permutations({k1, k2})
===============================================================================
