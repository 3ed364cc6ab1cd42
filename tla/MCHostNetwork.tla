--------------------------- MODULE MCHostNetwork ---------------------------
(***************************************************************************)
(* Two services that may share a domain, two domains, two addresses, and   *)
(* static destinations with another nexthop.                               *)
(***************************************************************************)
EXTENDS HostNetwork, TLC

CONSTANTS s1, s2, d1, d2, x, y, g1, g2, net

Row(domains, subnets, nexthop) ==
  [domains |-> domains, subnets |-> subnets, nexthop |-> nexthop]

MCRows == {Row({d1}, {}, g1), Row({}, {net, Default}, g2), Row({d1, d2}, {}, g2)}

MCInitialRows == {(s1 :> Row({d1}, {}, g1)) @@ (s2 :> NoRow)}

MCInitialAnswers == {(d1 :> {x, y}) @@ (d2 :> Fails)}
=============================================================================
