---------------------------- MODULE AddressPool ----------------------------
(***************************************************************************)
(* The client addresses of a network (Network.max_offset and               *)
(* Network.ip_for_offset in dm/models.py, and migration 0006's copy): the  *)
(* network's subnets are filled in order, and offsets number the addresses *)
(* through all of them from 2 on.                                          *)
(*                                                                         *)
(* Addresses are numbers, a subnet is [base, size].                        *)
(***************************************************************************)
EXTENDS Integers, Sequences, FiniteSets

NoAddress == -1

\* A network's list of subnets: not empty, and none overlaps another, to which
\* the operator sees.
Subnets == [base : Nat, size : Nat \ {0}]
Apart(s, t) == s.base + s.size <= t.base \/ t.base + t.size <= s.base
IsPool(pool) ==
  /\ pool \in Seq(Subnets)
  /\ pool # <<>>
  /\ \A i, j \in DOMAIN pool : i # j => Apart(pool[i], pool[j])

\* The network's, the server's and the broadcast address are no clients'.
Slots(subnet) == IF subnet.size > 3 THEN subnet.size - 3 ELSE 0

\* What is left of the offset when the walk reaches the i-th subnet.
Remaining(pool, offset) ==
  LET left[i \in DOMAIN pool] ==
        IF i = 1 THEN offset - 2 ELSE left[i - 1] - Slots(pool[i - 1])
  IN left

\* max_offset; it raises for a network without subnets.
LastOffset(pool) ==
  LET total[i \in 0..Len(pool)] ==
        IF i = 0 THEN 0 ELSE total[i - 1] + Slots(pool[i])
  IN 1 + total[Len(pool)]

\* Mutant: the walk does not count what it passes.
IpForOffsetAnywhere(pool, offset) ==
  LET fits == {i \in DOMAIN pool : offset - 2 < Slots(pool[i])}
      i == CHOOSE k \in fits : \A j \in fits : k <= j
  IN IF fits = {} THEN NoAddress ELSE pool[i].base + offset

\* ip_for_offset; NoAddress where it raises (the migration's copy returns None).
IpForOffset(pool, offset) ==
  LET left == Remaining(pool, offset)
      fits == {i \in DOMAIN pool : left[i] < Slots(pool[i])}
      i == CHOOSE k \in fits : \A j \in fits : k <= j
  IN IF fits = {} THEN NoAddress ELSE pool[i].base + left[i] + 2

-----------------------------------------------------------------------------
\* What the walk is for: the addresses behind the server's and before the
\* broadcast address.
ClientAddresses(subnet) == (subnet.base + 2)..(subnet.base + subnet.size - 2)

\* Offsets up to the last one number all client addresses, each once, and no
\* offset is beyond.
NumbersAddresses(pool) ==
  LET clients == UNION {ClientAddresses(pool[i]) : i \in DOMAIN pool}
      last == LastOffset(pool)
  IN /\ last = Cardinality(clients) + 1
     /\ {IpForOffset(pool, offset) : offset \in 2..last} = clients
     /\ IpForOffset(pool, last + 1) = NoAddress
=============================================================================
