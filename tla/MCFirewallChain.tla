-------------------------- MODULE MCFirewallChain --------------------------
(***************************************************************************)
(* Two managed chains (the same instance before and after its subnet       *)
(* changed), an ACCEPT built as it is printed, and one with a second text, *)
(* as of a service with subnet 0.0.0.0/0: "-s <client> -d 0.0.0.0/0 -j     *)
(* ACCEPT" is printed as "-s <client> -j ACCEPT", what an unrestricted     *)
(* account gets.  Each is wanted and not, alone and with another, the      *)
(* second one in either text and in both.                                  *)
(***************************************************************************)
EXTENDS FirewallChain, TLC

CONSTANTS c1, c2

MCChains == {c1, c2}
MCAccepts == {"r1", "any", "any as 0.0.0.0/0"}
MCWantable == {{}, {"r1"}, {"any as 0.0.0.0/0"}, {"r1", "any"}, {"any", "any as 0.0.0.0/0"}}
MCPrinted == [t \in MCAccepts |-> IF t = "r1" THEN "r1" ELSE "any"]
=============================================================================
