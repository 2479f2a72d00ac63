------------------------------ MODULE MCLogViews ------------------------------
(* Model-checking instance of LogViews: rows are interchangeable until they arrive,  *)
(* and so are the two clients of h1, each with its country.                          *)
EXTENDS LogViews, TLC
CONSTANTS h1, c1, c2, c3, se, no, ref, r1, r2, r3
MCRequest ==
    {[host |-> h1, status |-> 200, client |-> c1, referer |-> Empty, country |-> se],
     [host |-> Null, status |-> 502, client |-> c2, referer |-> ref, country |-> Null],
     [host |-> h1, status |-> 200, client |-> c3, referer |-> Empty, country |-> no]}
MCLinks == {[client |-> c2, from |-> 1, to |-> 3, host |-> "fallback"]}
MCSteps == <<1, 2>>
Swap == (c1 :> c3) @@ (c3 :> c1) @@ (se :> no) @@ (no :> se)
Alike == UNION {{p, p @@ Swap} : p \in Permutations(Id)}
===============================================================================
