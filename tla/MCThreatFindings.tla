----------------------------- MODULE MCThreatFindings -----------------------------
(* Model-checking instance of ThreatFindings: IPv4 addresses of two bits, IPv6      *)
(* addresses of five one-bit groups, a /2 of which is one actor.  Two clients of    *)
(* one IPv6 actor and one IPv4 client request; two rules that overlap are on.       *)
EXTENDS ThreatFindings

A6(v) == [v6 |-> TRUE, value |-> v]
E6(v, bits) == [v6 |-> TRUE, value |-> v, bits |-> bits]
E4(v, bits) == [v6 |-> FALSE, value |-> v, bits |-> bits]

MCMapped == E6(4, 3)
MCPrivateRange == {E4(1, 2), E6(1, 5), E6(24, 3)}
MCCloudflareRange == {E4(2, 2), E6(16, 2)}

old == A6(8)     \* two addresses of one actor, in the order of their text
new == A6(9)
v4 == [v6 |-> FALSE, value |-> 3]
MCTextRank == [c \in {old, new, v4} |-> IF c = v4 THEN 0 ELSE c.value]

Req(status, uri) ==
    [status |-> status, method |-> "GET", uri |-> uri, agent |-> "browser", referer |-> "-",
     host |-> "app", known |-> TRUE]
MCTraffic ==
    {<<old, Req(200, "/page")>>, <<old, Req(404, "/.env")>>, <<v4, Req(404, "/.env")>>,
     <<new, Req(404, "/wp-login.php")>>}
MCLikes ==
    [t \in {"/.env", "/wp-login.php", "/page", "browser", "-"} |->
        CASE t = "/.env" -> {"%/.env%"}
          [] t = "/wp-login.php" -> {"%/wp-login%"}
          [] OTHER -> {}]

Off == [enabled |-> FALSE, severity |-> "low", threshold |-> 1, patterns |-> {}]
On(severity, threshold, patterns) ==
    [enabled |-> TRUE, severity |-> severity, threshold |-> threshold, patterns |-> patterns]
Rules ==
    [r \in Rule |->
        CASE r = "scanner404" -> On("high", 2, {})
          [] r = "badPaths" -> On("critical", 1, {"%/.env%", "%/wp-login%"})
          [] OTHER -> Off]
FirstSetting ==
    [window |-> 1, exceptions |-> {}, rules |-> Rules,
     blocked |-> [autoBan |-> TRUE, paths |-> {"/wp-login.php"}],
     autoBan |-> [enabled |-> TRUE, minSeverity |-> "critical", minFindings |-> 2, minScore |-> 12]]
MCSetting ==
    [n \in {"first", "trusting"} |->
        IF n = "first" THEN FirstSetting
        ELSE [FirstSetting EXCEPT !.exceptions = {E6(8, Bare)}, !.blocked.autoBan = FALSE]]
MCBanTarget == {E6(9, 5)}
==================================================================================
