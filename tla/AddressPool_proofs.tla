------------------------- MODULE AddressPool_proofs -------------------------
(***************************************************************************)
(* Network.ip_for_offset numbers the client addresses of any list of       *)
(* subnets that do not overlap: the offsets from 2 to max_offset give each *)
(* of them exactly once, and no offset beyond gives any.                   *)
(*                                                                         *)
(* What remains of an offset at a subnet, and max_offset, are running sums *)
(* of what the subnets have room for; an offset falls into the subnet      *)
(* whose sums enclose it, and there is one such subnet.                    *)
(***************************************************************************)
EXTENDS AddressPool, Induction

\* slots[i] is how many clients the first i subnets have room for.
CountsSlots(slots, pool) ==
  /\ slots \in [0..Len(pool) -> Nat]
  /\ slots[0] = 0
  /\ \A i \in DOMAIN pool : slots[i] = slots[i - 1] + Slots(pool[i])

\* A pool is a sequence of at least one subnet.
LEMMA PoolIndices ==
  ASSUME NEW pool, IsPool(pool)
  PROVE  Len(pool) \in Nat \ {0} /\ DOMAIN pool = 1..Len(pool)
<1>1. pool \in Seq(Subnets) /\ pool # <<>>
  BY DEF IsPool
<1> QED BY <1>1

\* What a subnet is made of.
LEMMA SlotsType == ASSUME NEW pool, IsPool(pool), NEW i \in DOMAIN pool
  PROVE pool[i].base \in Nat /\ pool[i].size \in Nat \ {0} /\ Slots(pool[i]) \in Nat
<1>1. pool[i] \in Subnets
  BY DEF IsPool
<1> QED BY <1>1 DEF Slots, Subnets

\* max_offset counts the slots of all subnets.
LEMMA LastOffsetCounts ==
  ASSUME NEW pool, IsPool(pool)
  PROVE  \E slots : CountsSlots(slots, pool) /\ LastOffset(pool) = 1 + slots[Len(pool)]
<1> DEFINE total[i \in 0..Len(pool)] == IF i = 0 THEN 0 ELSE total[i - 1] + Slots(pool[i])
           step == [i \in 0..Len(pool) |-> IF i = 0 THEN 0 ELSE Slots(pool[i])]
           n == Len(pool)
<1>0. n \in Nat \ {0} /\ DOMAIN pool = 1..n
  BY PoolIndices
<1>1. LastOffset(pool) = 1 + total[n]
  BY DEF LastOffset
<1>2. step \in [0..n -> Int]
  BY <1>0, SlotsType
<1>3. PICK f \in [0..n -> Int] :
         f[0] = step[0] /\ \A i \in 1..n : f[i] = f[i - 1] + step[i]
  <2> HIDE DEF n, step, total
  <2> QED BY <1>0, <1>2, RunningSums
<1>4. f = [i \in 0..n |-> IF i = 0 THEN 0 ELSE f[i - 1] + Slots(pool[i])]
  <2>1. ASSUME NEW i \in 0..n
        PROVE  f[i] = IF i = 0 THEN 0 ELSE f[i - 1] + Slots(pool[i])
    <3>1. CASE i = 0
      BY <1>3, <3>1
    <3>2. CASE i # 0
      <4>1. i \in 1..n /\ step[i] = Slots(pool[i])
        BY <3>2
      <4>2. f[i] = f[i - 1] + step[i]
        BY <1>3, <4>1
      <4> QED BY <3>2, <4>1, <4>2
    <3> QED BY <3>1, <3>2
  <2> HIDE DEF n
  <2> QED BY <2>1
<1>5. total = [i \in 0..n |-> IF i = 0 THEN 0 ELSE total[i - 1] + Slots(pool[i])]
  BY <1>4
<1> HIDE DEF total, n
<1>6. \A i \in 0..n : total[i] = IF i = 0 THEN 0 ELSE total[i - 1] + Slots(pool[i])
  BY <1>5
<1> DEFINE T == {i \in 0..n : total[i] \in Nat}
<1>7. 0 \in T
  BY <1>0, <1>6
<1>8. ASSUME NEW i \in 0..(n - 1), i \in T PROVE i + 1 \in T
  <2>1. Slots(pool[i + 1]) \in Nat
    BY <1>0, SlotsType
  <2>2. total[i + 1] = total[i] + Slots(pool[i + 1])
    BY <1>0, <1>6
  <2> QED BY <1>0, <1>8, <2>1, <2>2
<1>9. 0..n \subseteq T
  <2> HIDE DEF T
  <2> QED BY <1>0, <1>7, <1>8, IntervalInduction
<1>10. total \in [0..n -> Nat]
  BY <1>5, <1>9
<1>11. CountsSlots(total, pool)
  <2>1. total[0] = 0 /\ \A i \in 1..n : total[i] = total[i - 1] + Slots(pool[i])
    BY <1>0, <1>6
  <2> QED BY <1>0, <1>10, <2>1 DEF CountsSlots, n
<1> QED BY <1>1, <1>11 DEF n

\* What is left of an offset at a subnet is what the subnets before had no room for.
LEMMA RemainingCounts ==
  ASSUME NEW pool, IsPool(pool), NEW slots, CountsSlots(slots, pool),
         NEW offset \in Int, NEW i \in DOMAIN pool
  PROVE  Remaining(pool, offset)[i] = offset - 2 - slots[i - 1]
<1> DEFINE left[k \in DOMAIN pool] ==
             IF k = 1 THEN offset - 2 ELSE left[k - 1] - Slots(pool[k - 1])
           n == Len(pool)
           f == [k \in DOMAIN pool |-> offset - 2 - slots[k - 1]]
<1>0. n \in Nat \ {0} /\ DOMAIN pool = 1..n
  BY PoolIndices
<1>1. Remaining(pool, offset) = left
  BY DEF Remaining
<1>2. ASSUME NEW k \in DOMAIN pool
      PROVE  f[k] = IF k = 1 THEN offset - 2 ELSE f[k - 1] - Slots(pool[k - 1])
  <2>1. CASE k = 1
    BY <2>1 DEF CountsSlots
  <2>2. CASE k # 1
    <3>1. k - 1 \in DOMAIN pool
      BY <1>0, <2>2
    <3>2. slots[k - 1] = slots[k - 2] + Slots(pool[k - 1])
      BY <1>0, <3>1 DEF CountsSlots
    <3>3. Slots(pool[k - 1]) \in Nat /\ slots[k - 2] \in Nat /\ slots[k - 1] \in Nat
      BY <1>0, <3>1, SlotsType DEF CountsSlots
    <3>4. f[k - 1] = offset - 2 - slots[k - 2]
      BY <1>0, <3>1
    <3> QED BY <2>2, <3>2, <3>3, <3>4
  <2> QED BY <2>1, <2>2
<1>3. f = [k \in DOMAIN pool |-> IF k = 1 THEN offset - 2 ELSE f[k - 1] - Slots(pool[k - 1])]
  BY <1>2
<1>4. left = [k \in DOMAIN pool |->
                IF k = 1 THEN offset - 2 ELSE left[k - 1] - Slots(pool[k - 1])]
  BY <1>3
<1> HIDE DEF left, n
<1>5. \A k \in DOMAIN pool :
         left[k] = IF k = 1 THEN offset - 2 ELSE left[k - 1] - Slots(pool[k - 1])
  BY <1>4
<1> DEFINE T == {k \in 1..n : left[k] = f[k]}
<1>6. 1 \in T
  BY <1>0, <1>2, <1>5
<1>7. ASSUME NEW k \in 1..(n - 1), k \in T PROVE k + 1 \in T
  <2>1. k + 1 \in DOMAIN pool /\ k + 1 \in 1..n /\ k + 1 # 1 /\ (k + 1) - 1 = k
    BY <1>0
  <2> HIDE DEF f
  <2>2. left[k + 1] = left[k] - Slots(pool[k]) /\ f[k + 1] = f[k] - Slots(pool[k])
    BY <1>2, <1>5, <2>1
  <2> QED BY <1>7, <2>1, <2>2
<1>8. 1..n \subseteq T
  <2> HIDE DEF T
  <2> QED BY <1>0, <1>6, <1>7, IntervalInduction
<1> QED BY <1>0, <1>1, <1>8

\* The counts grow from subnet to subnet.
LEMMA SlotsGrow ==
  ASSUME NEW pool, IsPool(pool), NEW slots, CountsSlots(slots, pool),
         NEW i \in 0..Len(pool), NEW j \in i..Len(pool)
  PROVE  slots[i] <= slots[j]
<1> DEFINE T == {k \in i..Len(pool) : slots[i] <= slots[k]}
<1>0. Len(pool) \in Nat /\ DOMAIN pool = 1..Len(pool)
  BY DEF IsPool
<1>1. i \in T
  BY <1>0 DEF CountsSlots
<1>2. ASSUME NEW k \in i..(Len(pool) - 1), k \in T PROVE k + 1 \in T
  <2>1. k + 1 \in DOMAIN pool
    BY <1>0
  <2>2. slots[k + 1] = slots[k] + Slots(pool[k + 1]) /\ Slots(pool[k + 1]) \in Nat
    BY <1>0, <2>1, SlotsType DEF CountsSlots
  <2>3. slots[k] \in Nat /\ slots[i] \in Nat
    BY <1>0 DEF CountsSlots
  <2> QED BY <1>0, <1>2, <2>2, <2>3
<1>3. i..Len(pool) \subseteq T
  <2> HIDE DEF T
  <2>1. \A k \in i..(Len(pool) - 1) : k \in T => k + 1 \in T
    BY <1>2
  <2>2. i \in Nat /\ Len(pool) \in Nat
    BY <1>0
  <2> QED BY <1>1, <2>1, <2>2, IntervalInduction
<1> QED BY <1>3

\* The subnet that an offset falls into.
FallsInto(offset, i, slots, pool) ==
  /\ i \in DOMAIN pool
  /\ slots[i - 1] <= offset - 2
  /\ offset - 2 < slots[i]

\* The walk stops at the subnet that the offset falls into ...
LEMMA WalkStops ==
  ASSUME NEW pool, IsPool(pool), NEW slots, CountsSlots(slots, pool),
         NEW offset \in 2..(1 + slots[Len(pool)])
  PROVE  \E i \in DOMAIN pool :
            /\ FallsInto(offset, i, slots, pool)
            /\ IpForOffset(pool, offset) = pool[i].base + (offset - slots[i - 1])
<1> DEFINE fits == {i \in DOMAIN pool : Remaining(pool, offset)[i] < Slots(pool[i])}
           i == CHOOSE k \in fits : \A j \in fits : k <= j
           n == Len(pool)
<1>0. n \in Nat \ {0} /\ DOMAIN pool = 1..n /\ \A k \in 0..n : slots[k] \in Nat
  BY PoolIndices DEF CountsSlots
<1>1. ASSUME NEW k \in DOMAIN pool PROVE k \in fits <=> offset - 2 < slots[k]
  <2>1. slots[k] = slots[k - 1] + Slots(pool[k])
    BY DEF CountsSlots
  <2>2. Slots(pool[k]) \in Nat /\ slots[k - 1] \in Nat
    BY <1>0, SlotsType
  <2>3. Remaining(pool, offset)[k] = offset - 2 - slots[k - 1]
    BY <1>0, RemainingCounts
  <2> QED BY <1>0, <2>1, <2>2, <2>3
<1>2. n \in fits
  BY <1>0, <1>1
<1>3. fits \in SUBSET Nat /\ fits \subseteq DOMAIN pool
  BY <1>0
<1>4. IpForOffset(pool, offset) =
         IF fits = {} THEN NoAddress ELSE pool[i].base + Remaining(pool, offset)[i] + 2
  BY DEF IpForOffset
<1> HIDE DEF fits
<1>5. i \in fits /\ \A j \in fits : i <= j
  BY <1>2, <1>3, LeastElement
<1> HIDE DEF i, n
<1>6. i \in DOMAIN pool /\ offset - 2 < slots[i]
  BY <1>1, <1>3, <1>5
<1>7. slots[i - 1] <= offset - 2
  <2>1. CASE i = 1
    BY <1>0, <2>1 DEF CountsSlots
  <2>2. CASE i # 1
    <3>1. i - 1 \in DOMAIN pool
      BY <1>0, <1>6, <2>2
    <3>2. i - 1 \notin fits
      BY <1>0, <1>5, <1>6
    <3>3. slots[i - 1] \in Nat
      BY <1>0, <1>6
    <3> QED BY <1>1, <3>1, <3>2, <3>3
  <2> QED BY <2>1, <2>2
<1>8. Remaining(pool, offset)[i] = offset - 2 - slots[i - 1]
  BY <1>0, <1>6, RemainingCounts
<1>9. pool[i].base + (offset - 2 - slots[i - 1]) + 2 = pool[i].base + (offset - slots[i - 1])
  BY <1>0, <1>6, SlotsType
<1> QED BY <1>2, <1>4, <1>6, <1>7, <1>8, <1>9 DEF FallsInto

\* ... and passes all of them if the offset is beyond the last one.
LEMMA WalkPasses ==
  ASSUME NEW pool, IsPool(pool), NEW slots, CountsSlots(slots, pool),
         NEW offset \in Int, offset > 1 + slots[Len(pool)]
  PROVE  IpForOffset(pool, offset) = NoAddress
<1>0. Len(pool) \in Nat /\ DOMAIN pool = 1..Len(pool) /\ \A k \in 0..Len(pool) : slots[k] \in Nat
  BY DEF IsPool, CountsSlots
<1>1. ASSUME NEW k \in DOMAIN pool PROVE ~(Remaining(pool, offset)[k] < Slots(pool[k]))
  <2>1. slots[k] = slots[k - 1] + Slots(pool[k])
    BY DEF CountsSlots
  <2>2. Slots(pool[k]) \in Nat /\ slots[k - 1] \in Nat
    BY <1>0, SlotsType
  <2>3. Remaining(pool, offset)[k] = offset - 2 - slots[k - 1]
    BY <1>0, RemainingCounts
  <2>4. slots[k] <= slots[Len(pool)]
    BY <1>0, SlotsGrow
  <2> QED BY <1>0, <2>1, <2>2, <2>3, <2>4
<1>2. {k \in DOMAIN pool : Remaining(pool, offset)[k] < Slots(pool[k])} = {}
  BY <1>1
<1> QED BY <1>2 DEF IpForOffset

\* An offset falls into one subnet only.
LEMMA FallsIntoOne ==
  ASSUME NEW pool, IsPool(pool), NEW slots, CountsSlots(slots, pool), NEW offset \in Int,
         NEW i, FallsInto(offset, i, slots, pool), NEW j, FallsInto(offset, j, slots, pool)
  PROVE  i = j
<1>0. /\ Len(pool) \in Nat
      /\ i \in 1..Len(pool) /\ j \in 1..Len(pool)
      /\ \A k \in 0..Len(pool) : slots[k] \in Nat
  BY PoolIndices DEF FallsInto, CountsSlots
<1>1. ASSUME i < j PROVE FALSE
  <2>1. slots[i] <= slots[j - 1]
    <3>1. j - 1 \in i..Len(pool) /\ i \in 0..Len(pool)
      BY <1>0, <1>1
    <3> QED BY <3>1, SlotsGrow
  <2>2. slots[i] \in Nat /\ slots[j - 1] \in Nat
    BY <1>0
  <2> QED BY <2>1, <2>2 DEF FallsInto
<1>2. ASSUME j < i PROVE FALSE
  <2>1. slots[j] <= slots[i - 1]
    <3>1. i - 1 \in j..Len(pool) /\ j \in 0..Len(pool)
      BY <1>0, <1>2
    <3> QED BY <3>1, SlotsGrow
  <2>2. slots[j] \in Nat /\ slots[i - 1] \in Nat
    BY <1>0
  <2> QED BY <2>1, <2>2 DEF FallsInto
<1> QED BY <1>0, <1>1, <1>2

\* The i-th subnet numbers its own client addresses.
LEMMA ClientsOfSubnet ==
  ASSUME NEW pool, IsPool(pool), NEW slots, CountsSlots(slots, pool), NEW i \in DOMAIN pool,
         NEW offset \in Int
  PROVE  FallsInto(offset, i, slots, pool)
           <=> pool[i].base + (offset - slots[i - 1]) \in ClientAddresses(pool[i])
<1>1. slots[i] = slots[i - 1] + Slots(pool[i])
  BY DEF CountsSlots
<1>2. slots[i - 1] \in Nat /\ pool[i].base \in Nat /\ pool[i].size \in Nat \ {0}
  BY PoolIndices, SlotsType DEF CountsSlots
<1>3. Slots(pool[i]) = IF pool[i].size > 3 THEN pool[i].size - 3 ELSE 0
  BY DEF Slots
<1> QED BY <1>1, <1>2, <1>3 DEF FallsInto, ClientAddresses

\* What ip_for_offset returns for the offsets of a network.
LEMMA IpIsClient ==
  ASSUME NEW pool, IsPool(pool), NEW slots, CountsSlots(slots, pool),
         NEW offset \in 2..(1 + slots[Len(pool)])
  PROVE  \E i \in DOMAIN pool :
            /\ FallsInto(offset, i, slots, pool)
            /\ IpForOffset(pool, offset) = pool[i].base + (offset - slots[i - 1])
            /\ IpForOffset(pool, offset) \in ClientAddresses(pool[i])
<1>0. offset \in Int
  OBVIOUS
<1>1. PICK i \in DOMAIN pool :
         /\ FallsInto(offset, i, slots, pool)
         /\ IpForOffset(pool, offset) = pool[i].base + (offset - slots[i - 1])
  BY WalkStops
<1>2. IpForOffset(pool, offset) \in ClientAddresses(pool[i])
  BY <1>0, <1>1, ClientsOfSubnet
<1> QED BY <1>1, <1>2

\* Two offsets of a network are two addresses: an address is of one subnet.
LEMMA IpInjective ==
  ASSUME NEW pool, IsPool(pool),
         NEW o \in 2..LastOffset(pool), NEW q \in 2..LastOffset(pool),
         IpForOffset(pool, o) = IpForOffset(pool, q)
  PROVE  o = q
<1>1. PICK slots : CountsSlots(slots, pool) /\ LastOffset(pool) = 1 + slots[Len(pool)]
  BY LastOffsetCounts
<1>2. PICK i \in DOMAIN pool :
         /\ FallsInto(o, i, slots, pool)
         /\ IpForOffset(pool, o) = pool[i].base + (o - slots[i - 1])
         /\ IpForOffset(pool, o) \in ClientAddresses(pool[i])
  BY <1>1, IpIsClient
<1>3. PICK j \in DOMAIN pool :
         /\ FallsInto(q, j, slots, pool)
         /\ IpForOffset(pool, q) = pool[j].base + (q - slots[j - 1])
         /\ IpForOffset(pool, q) \in ClientAddresses(pool[j])
  BY <1>1, IpIsClient
<1>4. i = j
  <2> SUFFICES ASSUME i # j PROVE FALSE
    OBVIOUS
  <2>1. Apart(pool[i], pool[j])
    BY DEF IsPool
  <2>2. /\ pool[i].base \in Nat /\ pool[i].size \in Nat
        /\ pool[j].base \in Nat /\ pool[j].size \in Nat
    BY SlotsType
  <2> QED BY <1>2, <1>3, <2>1, <2>2 DEF Apart, ClientAddresses
<1>5. slots[i - 1] \in Nat /\ pool[i].base \in Nat /\ o \in Int /\ q \in Int
  BY <1>1, PoolIndices, SlotsType DEF CountsSlots
<1>6. pool[i].base + (o - slots[i - 1]) = pool[i].base + (q - slots[i - 1])
  BY <1>2, <1>3, <1>4
<1> QED BY <1>5, <1>6

\* Every client address has an offset.
LEMMA IpSurjective ==
  ASSUME NEW pool, IsPool(pool), NEW i \in DOMAIN pool, NEW ip \in ClientAddresses(pool[i])
  PROVE  \E o \in 2..LastOffset(pool) : IpForOffset(pool, o) = ip
<1>1. PICK slots : CountsSlots(slots, pool) /\ LastOffset(pool) = 1 + slots[Len(pool)]
  BY LastOffsetCounts
<1> DEFINE o == (ip - pool[i].base) + slots[i - 1]
<1>2. /\ slots[i - 1] \in Nat /\ slots[i] \in Nat /\ slots[Len(pool)] \in Nat
      /\ pool[i].base \in Nat /\ pool[i].size \in Nat
      /\ ip \in Int
      /\ i \in 0..Len(pool) /\ Len(pool) \in i..Len(pool)
  <2>1. Len(pool) \in Nat /\ i \in 1..Len(pool)
    BY PoolIndices
  <2>2. pool[i].base \in Nat /\ pool[i].size \in Nat
    BY SlotsType
  <2>3. slots[i - 1] \in Nat /\ slots[i] \in Nat /\ slots[Len(pool)] \in Nat
    BY <1>1, <2>1 DEF CountsSlots
  <2>4. ip \in Int
    BY <2>2 DEF ClientAddresses
  <2> QED BY <2>1, <2>2, <2>3, <2>4
<1>3. o \in Int /\ pool[i].base + (o - slots[i - 1]) = ip
  BY <1>2
<1> HIDE DEF o
<1>4. FallsInto(o, i, slots, pool)
  BY <1>1, <1>3, ClientsOfSubnet
<1>5. slots[i] <= slots[Len(pool)]
  BY <1>1, <1>2, SlotsGrow
<1>6. o \in 2..(1 + slots[Len(pool)])
  BY <1>2, <1>3, <1>4, <1>5 DEF FallsInto
<1>7. PICK j \in DOMAIN pool :
         /\ FallsInto(o, j, slots, pool)
         /\ IpForOffset(pool, o) = pool[j].base + (o - slots[j - 1])
  BY <1>1, <1>6, IpIsClient
<1>8. i = j
  BY <1>1, <1>3, <1>4, <1>7, FallsIntoOne
<1> QED BY <1>1, <1>3, <1>6, <1>7, <1>8

\* Every list of subnets that do not overlap is numbered: max_offset is one more
\* than its client addresses, ip_for_offset maps 2..max_offset onto them, and
\* raises for the next offset.
THEOREM PoolNumbered == ASSUME NEW pool, IsPool(pool) PROVE NumbersAddresses(pool)
<1> DEFINE clients == UNION {ClientAddresses(pool[i]) : i \in DOMAIN pool}
           last == LastOffset(pool)
           f == [o \in 2..last |-> IpForOffset(pool, o)]
<1>1. PICK slots : CountsSlots(slots, pool) /\ LastOffset(pool) = 1 + slots[Len(pool)]
  BY LastOffsetCounts
<1>2. last \in Nat \ {0}
  <2>1. slots[Len(pool)] \in Nat
    BY <1>1, PoolIndices DEF CountsSlots
  <2> QED BY <1>1, <2>1
<1>3. ASSUME NEW o \in 2..last PROVE IpForOffset(pool, o) \in clients
  <2>1. \E i \in DOMAIN pool : IpForOffset(pool, o) \in ClientAddresses(pool[i])
    BY <1>1, IpIsClient
  <2> QED BY <2>1
<1>4. ASSUME NEW ip \in clients PROVE \E o \in 2..last : IpForOffset(pool, o) = ip
  <2>1. PICK i \in DOMAIN pool : ip \in ClientAddresses(pool[i])
    OBVIOUS
  <2> QED BY <2>1, IpSurjective
<1> HIDE DEF clients
<1>5. {IpForOffset(pool, o) : o \in 2..last} = clients
  BY <1>3, <1>4
<1>6. last = Cardinality(clients) + 1
  <2>1. \A o, q \in 2..last : IpForOffset(pool, o) = IpForOffset(pool, q) => o = q
    BY IpInjective
  <2> HIDE DEF last
  <2>2. f \in Bijection(2..last, clients)
    BY <1>3, <1>4, <2>1 DEF Bijection, Injection, Surjection, IsInjective
  <2>3. IsFiniteSet(2..last) /\ Cardinality(2..last) = last - 1
    BY <1>2, FS_Interval
  <2>4. Cardinality(clients) = Cardinality(2..last)
    BY <2>2, <2>3, FS_Bijection DEF ExistsBijection
  <2> QED BY <1>2, <2>3, <2>4
<1>7. IpForOffset(pool, last + 1) = NoAddress
  <2>1. last + 1 \in Int /\ last + 1 > 1 + slots[Len(pool)]
    BY <1>1, <1>2
  <2> QED BY <1>1, <2>1, WalkPasses
<1> QED BY <1>5, <1>6, <1>7 DEF NumbersAddresses, clients
=============================================================================
