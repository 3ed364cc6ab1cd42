------------------------ MODULE MCAddressLifecycle ------------------------
(***************************************************************************)
(* Two accounts that compete for the offsets of one network, a third on a  *)
(* network of its own, and two commands in flight.                         *)
(***************************************************************************)
EXTENDS AddressLifecycle, TLC

CONSTANTS a1, a2, a3, n1, n2, p1, p2

MCAccounts == {a1, a2, a3}
MCNetworks == {n1, n2}
MCNetworkOf == (a1 :> n1) @@ (a2 :> n1) @@ (a3 :> n2)
MCCommands == {p1, p2}

Subnet(base, size) == [base |-> base, size |-> size]

\* A /30, a /31 without clients and a /29; another /30 alone.
MCSubnetLists == {<<Subnet(0, 4), Subnet(4, 2), Subnet(8, 8)>>, <<Subnet(16, 4)>>}

\* Commands are interchangeable, and so are the two accounts of n1.
Symmetric == Permutations(MCCommands) \cup Permutations({a1, a2})
=============================================================================
