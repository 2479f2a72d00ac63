--------------------------- MODULE MCBanEnforcement ---------------------------
(***************************************************************************)
(* Instances of BanEnforcement: an IPv4 client a, two IPv6 clients b1 and  *)
(* b2 of the same /64 net, a private address p, a Cloudflare edge e, a     *)
(* range lan around a and p, and a range wide that is too broad to ban.    *)
(* The operator trusts nobody, or b2.                                      *)
(***************************************************************************)
EXTENDS BanEnforcement, TLC

CONSTANTS a, b1, b2, p, e, net, lan, wide

MCClient == {a, b1, b2, p, e}
MCTarget == MCClient \cup {net, lan, wide}
MCCovers == [t \in MCTarget |->
    CASE t = net -> {b1, b2} [] t = lan -> {a, p} [] t = wide -> {a, e} [] OTHER -> {t}]
MCWiden == [t \in MCTarget |-> IF t \in {b1, b2} THEN net ELSE t]

Saved(trusted, block) ==
    [exceptions |-> trusted, block |-> block, hitBan |-> TRUE, autoBan |-> block]
MCConfig == {Saved({}, TRUE), Saved({b2}, FALSE)}
===============================================================================
