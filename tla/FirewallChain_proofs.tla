------------------------ MODULE FirewallChain_proofs ------------------------
(***************************************************************************)
(* What the edits of the filter table keep true, for any chains, ACCEPT    *)
(* rules, changes and failures: a chain the agent has closed stays closed  *)
(* and orderly between every two commands, grants that stay are never      *)
(* interrupted, and FORWARD jumps only to chains that are complete.        *)
(*                                                                         *)
(* The inductive invariant Inv relates a chain's rules to the goal and to  *)
(* the insertions and deletions the pass still has to make.  The goal is   *)
(* text the agent built, the rules are text iptables printed: a wanted     *)
(* rule with two texts is inserted and deleted in one pass, and survives   *)
(* because it is there twice when its deletion comes (Balanced).           *)
(***************************************************************************)
EXTENDS FirewallChain, Induction, SequenceTheorems, TLAPS

\* A chain as the agent edits it: no plain rule and no DROP twice, a DROP only
\* at the end.
Orderly(seq) ==
  /\ seq \in Seq(Rules)
  /\ \A i, j \in 1..Len(seq) : seq[i] = seq[j] => i = j \/ seq[i] \in Accepts \ Plain
  /\ \A i \in 1..Len(seq) : seq[i] \in Drops => i = Len(seq)

\* More than one copy of a rule.
Twice(seq, r) == \E i, j \in 1..Len(seq) : i # j /\ seq[i] = r /\ seq[j] = r

\* The rule that ends a chain; a chain with no DROP anywhere.
EndsIn(seq, d) == seq # <<>> /\ seq[Len(seq)] = d

Open(seq) == \A i \in 1..Len(seq) : seq[i] \notin Drops

-----------------------------------------------------------------------------
\* What is printed is printed as it is; a plain rule has no other text.
LEMMA TextFacts ==
  /\ Shown(Accepts) \subseteq Accepts
  /\ \A t \in Accepts : Printed[t] \in Shown(Accepts)
  /\ \A t \in Accepts : Printed[t] \in Plain => Printed[t] = t
  /\ \A r \in Shown(Accepts) : Printed[r] = r
  /\ \A r \in Plain : r \in Accepts /\ Printed[r] = r
BY PrintedAssumption DEF Shown, Plain

\* The ACCEPTs of a chain are printed texts.
LEMMA AcceptsShown ==
  ASSUME NEW seq, Orderly(seq)
  PROVE  AcceptsOf(seq) \subseteq Shown(Accepts)
<1>1. DOMAIN seq = 1..Len(seq)
  BY LenProperties DEF Orderly
<1>2. \A i \in DOMAIN seq : seq[i] \in Rules
  BY <1>1, ElementOfSeq DEF Orderly
<1> QED BY <1>2 DEF AcceptsOf, ToSet, Rules

\* _get_chain_rules: the DROP it reports is the last rule, or there is none.
LEMMA DropFound ==
  ASSUME NEW seq, Orderly(seq)
  PROVE  \/ DropOf(seq) = "none" /\ Open(seq)
         \/ DropOf(seq) \in Drops /\ EndsIn(seq, DropOf(seq))
<1> DEFINE at == {i \in DOMAIN seq : seq[i] \in Drops}
<1>1. DOMAIN seq = 1..Len(seq) /\ Len(seq) \in Nat
  BY LenProperties DEF Orderly
<1>2. CASE at = {}
  BY <1>1, <1>2 DEF DropOf, Open
<1>3. CASE at # {}
  <2>1. PICK i \in at : TRUE
    BY <1>3
  <2>2. i \in 1..Len(seq) /\ i = Len(seq) /\ \A j \in at : j = Len(seq)
    BY <1>1 DEF Orderly
  <2>3. \A k \in at : (\A j \in at : j <= k) => k = i
    BY <2>2
  <2>4. \A j \in at : j <= i
    BY <1>1, <2>2
  <2>5. (CHOOSE k \in at : \A j \in at : j <= k) = i
    BY <2>1, <2>3, <2>4
  <2>6. DropOf(seq) = seq[i]
    BY <2>5, <1>3 DEF DropOf
  <2> QED BY <2>1, <2>2, <2>6, <1>1, EmptySeq DEF EndsIn, Orderly
<1> QED BY <1>2, <1>3

\* -A of the DROP to a chain without one: now it denies, the ACCEPTs are the same.
LEMMA DropAppended ==
  ASSUME NEW seq, Orderly(seq), Open(seq)
  PROVE  /\ Orderly(WithDrop(seq))
         /\ EndsIn(WithDrop(seq), Drop)
         /\ AcceptsOf(WithDrop(seq)) = AcceptsOf(seq)
         /\ \A r : Twice(seq, r) => Twice(WithDrop(seq), r)
<1> DEFINE new == WithDrop(seq)
<1>1. Drop \in Rules /\ Drop \in Drops /\ Len(seq) \in Nat /\ DOMAIN seq = 1..Len(seq)
  BY LenProperties DEF Rules, Drops, Orderly
<1>2. /\ new \in Seq(Rules) /\ new # <<>> /\ Len(new) = Len(seq) + 1
      /\ \A i \in 1..Len(seq) : new[i] = seq[i]
      /\ new[Len(seq) + 1] = Drop
  <2>1. seq \in Seq(Rules) /\ Drop \in Rules
    BY <1>1 DEF Orderly
  <2> HIDE DEF Drop
  <2> QED BY ONLY <2>1, AppendProperties DEF WithDrop
<1>3. DOMAIN new = 1..Len(new)
  BY <1>2, LenProperties
<1> HIDE DEF new
<1>4. Orderly(new)
  <2>1. \A i, j \in 1..Len(new) : new[i] = new[j] => i = j \/ new[i] \in Accepts \ Plain
    <3> TAKE i, j \in 1..Len(new)
    <3>1. i \in 1..Len(seq) \/ i = Len(seq) + 1
      BY <1>1, <1>2
    <3>2. j \in 1..Len(seq) \/ j = Len(seq) + 1
      BY <1>1, <1>2
    <3>3. \A k \in 1..Len(seq) : seq[k] # Drop
      BY <1>1 DEF Open
    <3> QED BY <1>2, <3>1, <3>2, <3>3 DEF Orderly
  <2>2. \A i \in 1..Len(new) : new[i] \in Drops => i = Len(new)
    <3> TAKE i \in 1..Len(new)
    <3>1. i \in 1..Len(seq) \/ i = Len(new)
      BY <1>1, <1>2
    <3> QED BY <1>2, <3>1 DEF Open
  <2> QED BY <1>2, <2>1, <2>2 DEF Orderly
<1>5. EndsIn(new, Drop)
  BY <1>2 DEF EndsIn
<1>6. AcceptsOf(new) = AcceptsOf(seq)
  BY <1>1, <1>2, <1>3 DEF AcceptsOf, ToSet
<1>7. \A r : Twice(seq, r) => Twice(new, r)
  <2>1. 1..Len(seq) \subseteq 1..Len(new)
    BY <1>1, <1>2
  <2> QED BY <1>2, <2>1 DEF Twice
<1> QED BY <1>4, <1>5, <1>6, <1>7 DEF new

\* -I 1 of an ACCEPT that is missing, or has another text: it is added, whatever
\* ends the chain still does.
LEMMA AcceptInserted ==
  ASSUME NEW seq, Orderly(seq), NEW t \in Accepts, t \in Plain => t \notin AcceptsOf(seq)
  PROVE  /\ Orderly(WithAccept(seq, t))
         /\ \A d : EndsIn(seq, d) => EndsIn(WithAccept(seq, t), d)
         /\ AcceptsOf(WithAccept(seq, t)) = AcceptsOf(seq) \cup {Printed[t]}
         /\ Printed[t] \in AcceptsOf(seq) => Twice(WithAccept(seq, t), Printed[t])
         /\ \A k : Twice(seq, k) => Twice(WithAccept(seq, t), k)
<1> DEFINE r == Printed[t]
           new == WithAccept(seq, t)
<1>0. r \in Shown(Accepts) /\ r \in Accepts /\ (r \in Plain => r \notin AcceptsOf(seq))
  BY TextFacts
<1>1. r \in Rules /\ r \notin Drops /\ Len(seq) \in Nat /\ DOMAIN seq = 1..Len(seq)
  BY <1>0, LenProperties, AcceptsAssumption DEF Rules, Orderly
<1> HIDE DEF r
<1>2. /\ <<r>> \in Seq(Rules) /\ Len(<<r>>) = 1 /\ <<r>>[1] = r
  BY <1>1
<1>3. /\ new \in Seq(Rules) /\ Len(new) = Len(seq) + 1
      /\ \A i \in 1..Len(seq) + 1 : new[i] = IF i <= 1 THEN <<r>>[i] ELSE seq[i - 1]
  <2>1. seq \in Seq(Rules) /\ <<r>> \in Seq(Rules) /\ Len(<<r>>) = 1
    BY <1>1, <1>2 DEF Orderly
  <2>2. 1 + Len(seq) = Len(seq) + 1
    BY <1>1
  <2>3. new = <<r>> \o seq
    BY DEF WithAccept, r
  <2> HIDE DEF new
  <2>4. /\ <<r>> \o seq \in Seq(Rules)
        /\ Len(<<r>> \o seq) = Len(<<r>>) + Len(seq)
        /\ \A i \in 1..Len(<<r>>) + Len(seq) :
              (<<r>> \o seq)[i] = IF i <= Len(<<r>>) THEN <<r>>[i] ELSE seq[i - Len(<<r>>)]
    BY <2>1, ConcatProperties
  <2> QED BY <2>1, <2>2, <2>3, <2>4
<1>4. DOMAIN new = 1..Len(new)
  BY <1>3, LenProperties
<1> HIDE DEF new
<1>5. new[1] = r /\ \A i \in 1..Len(seq) : new[i + 1] = seq[i]
  BY <1>1, <1>2, <1>3
<1>6. r \in Plain => \A i \in 1..Len(seq) : seq[i] # r
  BY <1>0, <1>1 DEF AcceptsOf, ToSet
<1>7. \A k \in 1..Len(new) : k = 1 \/ \E i \in 1..Len(seq) : k = i + 1
  <2> TAKE k \in 1..Len(new)
  <2>1. k = 1 \/ (k - 1 \in 1..Len(seq) /\ k = (k - 1) + 1)
    BY <1>1, <1>3
  <2> QED BY <2>1
<1>8. Orderly(new)
  <2>1. \A k, l \in 1..Len(new) : new[k] = new[l] => k = l \/ new[k] \in Accepts \ Plain
    <3> TAKE k, l \in 1..Len(new)
    <3>1. k = 1 \/ \E i \in 1..Len(seq) : k = i + 1
      BY <1>7
    <3>2. l = 1 \/ \E i \in 1..Len(seq) : l = i + 1
      BY <1>7
    <3>3. new[k] = r => k = 1 \/ r \in Accepts \ Plain
      BY <1>0, <1>5, <1>6, <3>1
    <3>4. new[l] = r => l = 1 \/ r \in Accepts \ Plain
      BY <1>0, <1>5, <1>6, <3>2
    <3>5. CASE k = 1 \/ l = 1
      BY <1>5, <3>3, <3>4, <3>5
    <3>6. ASSUME NEW i \in 1..Len(seq), k = i + 1, NEW j \in 1..Len(seq), l = j + 1
          PROVE  new[k] = new[l] => k = l \/ new[k] \in Accepts \ Plain
      <4>1. seq[i] = seq[j] => i = j \/ seq[i] \in Accepts \ Plain
        BY DEF Orderly
      <4> QED BY <1>5, <3>6, <4>1
    <3> QED BY <3>1, <3>2, <3>5, <3>6
  <2>2. \A k \in 1..Len(new) : new[k] \in Drops => k = Len(new)
    <3> TAKE k \in 1..Len(new)
    <3>1. k = 1 \/ \E i \in 1..Len(seq) : k = i + 1
      BY <1>7
    <3>2. CASE k = 1
      BY <1>1, <1>5, <3>2
    <3>3. ASSUME NEW i \in 1..Len(seq), k = i + 1 PROVE new[k] \in Drops => k = Len(new)
      <4>1. new[k] \in Drops => i = Len(seq)
        BY <1>5, <3>3 DEF Orderly
      <4> QED BY <4>1, <3>3, <1>3
    <3> QED BY <3>1, <3>2, <3>3
  <2> QED BY <1>3, <2>1, <2>2 DEF Orderly
<1>9. \A d : EndsIn(seq, d) => EndsIn(new, d)
  <2> SUFFICES ASSUME NEW d, EndsIn(seq, d) PROVE EndsIn(new, d)
    OBVIOUS
  <2>1. Len(seq) \in 1..Len(seq)
    <3>1. seq \in Seq(Rules) /\ seq # <<>>
      BY DEF EndsIn, Orderly
    <3>2. Len(seq) \in Nat \ {0}
      BY <3>1, EmptySeq
    <3> QED BY <3>2
  <2>2. new # <<>>
    BY <1>1, <1>3, EmptySeq
  <2> QED BY <1>1, <1>3, <1>5, <2>1, <2>2 DEF EndsIn
<1>10. AcceptsOf(new) = AcceptsOf(seq) \cup {r}
  <2>1. ToSet(new) = ToSet(seq) \cup {r}
    <3>1. \A x \in ToSet(new) : x \in ToSet(seq) \cup {r}
      <4> SUFFICES ASSUME NEW k \in 1..Len(new) PROVE new[k] \in ToSet(seq) \cup {r}
        BY <1>4 DEF ToSet
      <4>1. k = 1 \/ \E i \in 1..Len(seq) : k = i + 1
        BY <1>7
      <4> QED BY <1>1, <1>5, <4>1 DEF ToSet
    <3>2. r \in ToSet(new)
      <4>1. 1 \in DOMAIN new /\ new[1] = r
        BY <1>1, <1>3, <1>4, <1>5
      <4> QED BY <4>1 DEF ToSet
    <3>3. \A x \in ToSet(seq) : x \in ToSet(new)
      <4> SUFFICES ASSUME NEW i \in 1..Len(seq) PROVE seq[i] \in ToSet(new)
        BY <1>1 DEF ToSet
      <4>1. i + 1 \in DOMAIN new /\ new[i + 1] = seq[i]
        BY <1>1, <1>3, <1>4, <1>5
      <4> QED BY <4>1 DEF ToSet
    <3> QED BY <3>1, <3>2, <3>3
  <2> QED BY <1>1, <2>1 DEF AcceptsOf
<1>11. \A i \in 1..Len(seq) : i + 1 \in 1..Len(new) /\ i + 1 # 1 /\ 1 \in 1..Len(new)
  BY <1>1, <1>3
<1>12. r \in AcceptsOf(seq) => Twice(new, r)
  <2> SUFFICES ASSUME NEW i \in 1..Len(seq), seq[i] = r PROVE Twice(new, r)
    BY <1>1 DEF AcceptsOf, ToSet
  <2> QED BY <1>5, <1>11 DEF Twice
<1>13. \A k : Twice(seq, k) => Twice(new, k)
  <2> SUFFICES ASSUME NEW i \in 1..Len(seq), NEW j \in 1..Len(seq), i # j, seq[i] = seq[j]
               PROVE  Twice(new, seq[i])
    BY DEF Twice
  <2>1. i + 1 # j + 1
    BY <1>1
  <2> QED BY <1>5, <1>11, <2>1 DEF Twice
<1> QED BY <1>8, <1>9, <1>10, <1>12, <1>13 DEF new, r

\* -D of a rule: one copy of it goes if it was there, the others keep their order.
LEMMA RuleDeleted ==
  ASSUME NEW seq, Orderly(seq), NEW r
  PROVE  /\ Orderly(Without(seq, r))
         /\ \A d : d # r /\ EndsIn(seq, d) => EndsIn(Without(seq, r), d)
         /\ r \in Drops /\ EndsIn(seq, r) => Open(Without(seq, r))
         /\ AcceptsOf(Without(seq, r)) \subseteq AcceptsOf(seq)
         /\ AcceptsOf(seq) \ {r} \subseteq AcceptsOf(Without(seq, r))
         /\ r \in Plain => r \notin AcceptsOf(Without(seq, r))
         /\ r \notin Drops /\ Twice(seq, r) => r \in AcceptsOf(Without(seq, r))
         /\ \A k : k # r /\ Twice(seq, k) => Twice(Without(seq, r), k)
         /\ r \in Drops => AcceptsOf(Without(seq, r)) = AcceptsOf(seq)
<1> DEFINE new == Without(seq, r)
           n == Len(seq)
<1>1. seq \in Seq(Rules) /\ n \in Nat /\ DOMAIN seq = 1..n
  BY LenProperties DEF Orderly
<1>2. CASE \A i \in 1..n : seq[i] # r
  <2>1. new = seq
    BY <1>2 DEF Without, RemoveFirst
  <2>2. \A d : EndsIn(seq, d) => d # r
    <3> SUFFICES ASSUME EndsIn(seq, r) PROVE FALSE
      OBVIOUS
    <3>1. n \in Nat \ {0} /\ seq[n] = r
      BY <1>1, EmptySeq DEF EndsIn
    <3> QED BY <1>2, <3>1
  <2>3. r \notin AcceptsOf(seq)
    BY <1>1, <1>2 DEF AcceptsOf, ToSet
  <2>4. ~Twice(seq, r)
    BY <1>2 DEF Twice
  <2>5. r \in Drops => AcceptsOf(new) = AcceptsOf(seq)
    BY <2>1
  <2> QED BY <2>1, <2>2, <2>3, <2>4, <2>5
<1>3. CASE \E i \in 1..n : seq[i] = r
  <2>1. PICK p \in 1..n : p = Min({i \in 1..n : seq[i] = r}) /\ seq[p] = r
    <3> DEFINE at == {i \in 1..n : seq[i] = r}
    <3>1. at \in SUBSET Nat /\ at # {}
      BY <1>1, <1>3
    <3>2. \E i \in at : \A j \in at : i <= j
      BY <3>1, LeastElement
    <3>3. Min(at) \in at
      BY <3>2 DEF Min
    <3> QED BY <3>3
  <2>2. r \in Plain \cup Drops => \A i \in 1..n : seq[i] = r => i = p
    <3>1. r \in Plain \cup Drops => r \notin Accepts \ Plain
      BY AcceptsAssumption
    <3> QED BY <2>1, <3>1 DEF Orderly
  <2>4. new = SubSeq(seq, 1, p - 1) \o SubSeq(seq, p + 1, n)
    BY <1>3, <2>1 DEF Without, RemoveFirst, RemoveAt, SelectInSeq
  <2>5. /\ SubSeq(seq, 1, p - 1) \in Seq(Rules)
        /\ Len(SubSeq(seq, 1, p - 1)) = p - 1
        /\ \A i \in 1..p - 1 : SubSeq(seq, 1, p - 1)[i] = seq[i]
    <3>1. \A i \in 1..p - 1 : seq[i] \in Rules
      BY <1>1, ElementOfSeq
    <3>2. 1 \in Int /\ p - 1 \in Int
      BY <1>1
    <3>3. /\ SubSeq(seq, 1, p - 1) \in Seq(Rules)
          /\ Len(SubSeq(seq, 1, p - 1)) = IF 1 <= p - 1 THEN p - 1 - 1 + 1 ELSE 0
          /\ \A i \in 1..p - 1 - 1 + 1 : SubSeq(seq, 1, p - 1)[i] = seq[1 + i - 1]
      BY <3>1, <3>2, SubSeqProperties
    <3> QED BY <1>1, <3>3
  <2>6. /\ SubSeq(seq, p + 1, n) \in Seq(Rules)
        /\ Len(SubSeq(seq, p + 1, n)) = n - p
        /\ \A i \in 1..n - p : SubSeq(seq, p + 1, n)[i] = seq[p + i]
    <3>1. \A i \in p + 1..n : seq[i] \in Rules
      BY <1>1, ElementOfSeq
    <3>2. n \in Int /\ p + 1 \in Int
      BY <1>1
    <3>3. /\ SubSeq(seq, p + 1, n) \in Seq(Rules)
          /\ Len(SubSeq(seq, p + 1, n)) = IF p + 1 <= n THEN n - (p + 1) + 1 ELSE 0
          /\ \A i \in 1..n - (p + 1) + 1 : SubSeq(seq, p + 1, n)[i] = seq[p + 1 + i - 1]
      BY <3>1, <3>2, SubSeqProperties
    <3>4. n - (p + 1) + 1 = n - p /\ (~(p + 1 <= n) => n - p = 0)
      <4>1. \A m \in Nat : \A q \in 1..m :
              m - (q + 1) + 1 = m - q /\ (~(q + 1 <= m) => m - q = 0)
        OBVIOUS
      <4> QED BY <1>1, <2>1, <4>1
    <3>5. \A i \in 1..n - p : p + 1 + i - 1 = p + i
      BY <1>1
    <3> HIDE DEF n
    <3> QED BY <3>3, <3>4, <3>5
  <2>7. /\ new \in Seq(Rules)
        /\ Len(new) = n - 1
        /\ DOMAIN new = 1..n - 1
        /\ \A i \in 1..n - 1 : new[i] = IF i < p THEN seq[i] ELSE seq[i + 1]
    <3> DEFINE s == SubSeq(seq, 1, p - 1)
               u == SubSeq(seq, p + 1, n)
    <3>1. /\ s \in Seq(Rules) /\ Len(s) = p - 1 /\ \A i \in 1..p - 1 : s[i] = seq[i]
          /\ u \in Seq(Rules) /\ Len(u) = n - p /\ \A i \in 1..n - p : u[i] = seq[p + i]
      BY <2>5, <2>6
    <3>2. new = s \o u
      BY <2>4
    <3> HIDE DEF s, u, new
    <3>3. /\ s \o u \in Seq(Rules)
          /\ Len(s \o u) = Len(s) + Len(u)
          /\ \A i \in 1..Len(s) + Len(u) : (s \o u)[i] = IF i <= Len(s) THEN s[i] ELSE u[i - Len(s)]
      BY <3>1, ConcatProperties
    <3>4. new \in Seq(Rules) /\ Len(new) = n - 1
      BY <1>1, <3>1, <3>2, <3>3
    <3>5. DOMAIN new = 1..n - 1
      BY <3>4, LenProperties
    <3>6. ASSUME NEW i \in 1..n - 1 PROVE new[i] = IF i < p THEN seq[i] ELSE seq[i + 1]
      <4>1. CASE i < p
        <5>1. i \in 1..Len(s) + Len(u) /\ i <= Len(s) /\ i \in 1..p - 1
          BY <1>1, <3>1, <4>1
        <5> QED BY <3>1, <3>2, <3>3, <4>1, <5>1
      <4>2. CASE ~(i < p)
        <5>1. i \in 1..Len(s) + Len(u) /\ ~(i <= Len(s)) /\ i - Len(s) = i - p + 1
          BY <1>1, <3>1, <4>2
        <5>2. i - p + 1 \in 1..n - p /\ p + (i - p + 1) = i + 1
          BY <1>1, <4>2
        <5> QED BY <3>1, <3>2, <3>3, <4>2, <5>1, <5>2
      <4> QED BY <4>1, <4>2
    <3> QED BY <3>4, <3>5, <3>6
  <2> HIDE DEF new
  <2>8. \A k \in 1..n - 1 : \E i \in 1..n : i # p /\ new[k] = seq[i] /\ i = IF k < p THEN k ELSE k + 1
    <3> TAKE k \in 1..n - 1
    <3>1. CASE k < p
      BY <1>1, <2>7, <3>1
    <3>2. CASE ~(k < p)
      <4>1. k + 1 \in 1..n /\ k + 1 # p
        BY <1>1, <3>2
      <4> QED BY <2>7, <3>2, <4>1
    <3> QED BY <3>1, <3>2
  <2>9. \A i \in 1..n : i # p => \E k \in 1..n - 1 : new[k] = seq[i]
    <3> SUFFICES ASSUME NEW i \in 1..n, i # p PROVE \E k \in 1..n - 1 : new[k] = seq[i]
      OBVIOUS
    <3>1. CASE i < p
      <4>1. i \in 1..n - 1
        BY <1>1, <3>1
      <4> QED BY <2>7, <3>1, <4>1
    <3>2. CASE ~(i < p)
      <4>1. i - 1 \in 1..n - 1 /\ ~(i - 1 < p) /\ (i - 1) + 1 = i
        BY <1>1, <3>2
      <4> QED BY <2>7, <4>1
    <3> QED BY <3>1, <3>2
  <2>10. \A k, l \in 1..n - 1 : new[k] = new[l] => k = l \/ new[k] \in Accepts \ Plain
    <3> SUFFICES ASSUME NEW k \in 1..n - 1, NEW l \in 1..n - 1, new[k] = new[l],
                        new[k] \notin Accepts \ Plain
                 PROVE  k = l
      OBVIOUS
    <3>1. PICK i \in 1..n : new[k] = seq[i] /\ i = IF k < p THEN k ELSE k + 1
      BY <2>8
    <3>2. PICK j \in 1..n : new[l] = seq[j] /\ j = IF l < p THEN l ELSE l + 1
      BY <2>8
    <3>3. i = j
      BY <3>1, <3>2 DEF Orderly
    <3> QED BY <1>1, <3>1, <3>2, <3>3
  <2>11. \A k \in 1..n - 1 : new[k] \in Drops => k = n - 1
    <3> SUFFICES ASSUME NEW k \in 1..n - 1, new[k] \in Drops PROVE k = n - 1
      OBVIOUS
    <3>1. PICK i \in 1..n : new[k] = seq[i] /\ i = IF k < p THEN k ELSE k + 1
      BY <2>8
    <3>2. i = n
      BY <3>1 DEF Orderly
    <3>3. ~(k < p)
      BY <1>1, <2>1, <3>1, <3>2
    <3>4. n = k + 1
      BY <3>1, <3>2, <3>3
    <3>5. \A m \in Nat : \A q \in 1..m - 1 : m = q + 1 => q = m - 1
      OBVIOUS
    <3> QED BY <1>1, <3>4, <3>5
  <2>12. Orderly(new)
    BY <2>7, <2>10, <2>11 DEF Orderly
  <2>13. ASSUME NEW d, d # r, EndsIn(seq, d) PROVE EndsIn(new, d)
    <3>1. n \in Nat \ {0} /\ seq[n] = d
      BY <1>1, <2>13, EmptySeq DEF EndsIn
    <3>2. p < n
      BY <1>1, <2>1, <2>13, <3>1
    <3>3. n - 1 \in 1..n - 1 /\ ~(n - 1 < p) /\ (n - 1) + 1 = n
      BY <1>1, <3>2
    <3>4. new[n - 1] = d
      BY <2>7, <3>1, <3>3
    <3>5. new # <<>>
      BY <2>7, <3>3, EmptySeq
    <3> QED BY <2>7, <3>4, <3>5 DEF EndsIn
  <2>14. r \in Drops => Open(new)
    <3> SUFFICES ASSUME r \in Drops, NEW k \in 1..n - 1, new[k] \in Drops PROVE FALSE
      BY <2>7 DEF Open
    <3>1. PICK i \in 1..n : i # p /\ new[k] = seq[i]
      BY <2>8
    <3>2. i = n /\ p = n
      BY <2>1, <3>1 DEF Orderly
    <3> QED BY <3>1, <3>2
  <2>15. ToSet(new) \subseteq ToSet(seq) /\ ToSet(seq) \ {r} \subseteq ToSet(new)
    <3>1. \A x \in ToSet(new) : x \in ToSet(seq)
      BY <1>1, <2>7, <2>8 DEF ToSet
    <3>2. \A x \in ToSet(seq) \ {r} : x \in ToSet(new)
      <4> SUFFICES ASSUME NEW i \in 1..n, seq[i] # r PROVE seq[i] \in ToSet(new)
        BY <1>1 DEF ToSet
      <4>1. PICK k \in 1..n - 1 : new[k] = seq[i]
        BY <2>1, <2>9
      <4> QED BY <2>7, <4>1 DEF ToSet
    <3> QED BY <3>1, <3>2
  <2>16. /\ AcceptsOf(new) \subseteq AcceptsOf(seq)
         /\ AcceptsOf(seq) \ {r} \subseteq AcceptsOf(new)
         /\ r \in Drops => AcceptsOf(new) = AcceptsOf(seq)
    BY <2>15 DEF AcceptsOf
  <2>17. r \in Plain => r \notin AcceptsOf(new)
    <3> SUFFICES ASSUME r \in Plain, NEW k \in 1..n - 1, new[k] = r PROVE FALSE
      BY <2>7 DEF AcceptsOf, ToSet
    <3>1. PICK i \in 1..n : i # p /\ new[k] = seq[i]
      BY <2>8
    <3> QED BY <2>2, <3>1
  <2>18. r \notin Drops /\ Twice(seq, r) => r \in AcceptsOf(new)
    <3> SUFFICES ASSUME r \notin Drops, Twice(seq, r) PROVE r \in AcceptsOf(new)
      OBVIOUS
    <3>1. PICK i \in 1..n : i # p /\ seq[i] = r
      BY DEF Twice
    <3>2. PICK k \in 1..n - 1 : new[k] = seq[i]
      BY <2>9, <3>1
    <3> QED BY <2>7, <3>1, <3>2 DEF AcceptsOf, ToSet
  <2>19. ASSUME NEW k, k # r, Twice(seq, k) PROVE Twice(new, k)
    <3>1. PICK i \in 1..n, j \in 1..n : i # j /\ seq[i] = k /\ seq[j] = k
      BY <2>19 DEF Twice
    <3>2. i # p /\ j # p
      BY <2>1, <2>19, <3>1
    <3>3. ASSUME NEW a \in 1..n, a # p
          PROVE  \E b \in 1..n - 1 : new[b] = seq[a] /\ b = IF a < p THEN a ELSE a - 1
      <4>1. CASE a < p
        <5>1. a \in 1..n - 1
          BY <1>1, <2>1, <4>1
        <5> QED BY <2>7, <4>1, <5>1
      <4>2. CASE ~(a < p)
        <5>1. a - 1 \in 1..n - 1 /\ ~(a - 1 < p) /\ (a - 1) + 1 = a
          BY <1>1, <2>1, <3>3, <4>2
        <5> QED BY <2>7, <4>2, <5>1
      <4> QED BY <4>1, <4>2
    <3>4. PICK a \in 1..n - 1 : new[a] = seq[i] /\ a = IF i < p THEN i ELSE i - 1
      BY <3>2, <3>3
    <3>5. PICK b \in 1..n - 1 : new[b] = seq[j] /\ b = IF j < p THEN j ELSE j - 1
      BY <3>2, <3>3
    <3>6. a # b
      BY <1>1, <2>1, <3>1, <3>2, <3>4, <3>5
    <3> QED BY <2>7, <3>1, <3>4, <3>5, <3>6 DEF Twice
  <2> QED BY <2>12, <2>13, <2>14, <2>16, <2>17, <2>18, <2>19 DEF new
<1> QED BY <1>2, <1>3

-----------------------------------------------------------------------------
(* The inductive invariant.                                                *)

\* What may be wanted, and what a pass may hold.
Goals == UNION {[conf -> Wantable] : conf \in SUBSET Chains}

Passes == [pc : Pcs, goal : Goals, managed : SUBSET Chains, todo : SUBSET Chains,
           chain : Chains \cup {NoChain}, new : SUBSET Accepts, old : SUBSET Shown(Accepts),
           drop : {"none"} \cup Drops]

Shape ==
  /\ chains \in [Chains -> Seq(Rules) \cup {NoChain}]
  /\ forward \subseteq {c \in Chains : Exists(c)}
  /\ denying \subseteq Chains
  /\ wanted \in Goals
  /\ it \in Passes

AllOrderly == \A c \in Chains : Exists(c) => Orderly(chains[c])

Denies == \A c \in denying : Exists(c) /\ EndsIn(chains[c], Drop)

Editing == {"drop", "insert", "redrop"}

\* Insertions and deletions still to come that make the rules the goal: what is
\* wanted is there or to come; a plain rule to come is not there, one that is
\* there is wanted or to go; and a rule to go that is wanted under another text
\* is to be inserted, or has been.
Balanced(seq, goal, new, old) ==
  /\ Shown(goal \ new) \subseteq AcceptsOf(seq)
  /\ old \subseteq AcceptsOf(seq)
  /\ new \cap Plain \cap AcceptsOf(seq) = {}
  /\ AcceptsOf(seq) \cap Plain \subseteq goal \cup old
  /\ \A r \in old \cap Shown(goal) : r \in Shown(new) \/ Twice(seq, r)

\* The chain being edited: what is still to come makes it the goal, and what
\* the agent remembers of its DROP is so.
EditOK ==
  it.pc \in Editing =>
    /\ it.chain \in it.todo
    /\ Balanced(chains[it.chain], it.goal[it.chain], it.new, it.old)
    /\ it.new \subseteq it.goal[it.chain]
    /\ it.old \cap it.goal[it.chain] = {}
    /\ it.pc = "drop" => IF it.drop = "none" THEN Open(chains[it.chain])
                         ELSE EndsIn(chains[it.chain], it.drop)
    /\ it.pc = "insert" => EndsIn(chains[it.chain], IF it.drop = "none" THEN Drop ELSE it.drop)
    /\ it.pc = "redrop" => Open(chains[it.chain]) /\ it.new = {} /\ it.old = {}

\* Chains that are done are as wanted; of the others exactly those exist that
\* were listed, and the one just created.
FillOK ==
  it.pc \in Editing \cup {"chains"} =>
    /\ it.todo \subseteq DOMAIN it.goal
    /\ \A c \in DOMAIN it.goal \ it.todo :
         Exists(c) /\ AsWanted(AcceptsOf(chains[c]), it.goal[c]) /\ EndsIn(chains[c], Drop)
    /\ \A c \in it.todo : Exists(c) <=> c \in it.managed \/ c = it.chain
    /\ it.pc = "chains" => it.chain = NoChain \/ it.chain \in it.todo

\* A stale chain was flushed and lost its jump before it is deleted.
RemoveOK ==
  /\ it.pc \in {"stale", "unref", "delete"} => it.todo \cap DOMAIN it.goal = {}
  /\ it.pc \in {"unref", "delete"} =>
       /\ it.chain \in Chains /\ it.chain \notin denying /\ it.chain \notin DOMAIN it.goal
       /\ chains[it.chain] = <<>>
  /\ it.pc = "delete" => it.chain \notin forward

Inv == Shape /\ AllOrderly /\ Denies /\ EditOK /\ FillOK /\ RemoveOK

-----------------------------------------------------------------------------
\* What _reconcile_chain sets out to insert and to delete.
LEMMA BalancedStart ==
  ASSUME NEW seq, Orderly(seq), NEW goal \in SUBSET Accepts
  PROVE  Balanced(seq, goal, goal \ AcceptsOf(seq), AcceptsOf(seq) \ goal)
<1> DEFINE has == AcceptsOf(seq)
<1>1. has \subseteq Shown(Accepts)
  BY AcceptsShown
<1>2. \A t \in goal \cap has : Printed[t] = t
  BY <1>1, TextFacts
<1> HIDE DEF has
<1>3. Shown(goal \ (goal \ has)) \subseteq has
  BY <1>2 DEF Shown
<1>4. \A r \in (has \ goal) \cap Shown(goal) : r \in Shown(goal \ has)
  BY <1>2 DEF Shown
<1> QED BY <1>3, <1>4 DEF Balanced, has

\* An insertion made is one to come less.
LEMMA BalancedInsert ==
  ASSUME NEW seq, Orderly(seq), NEW goal \in SUBSET Accepts, NEW new \in SUBSET goal, NEW old,
         NEW t \in new, Balanced(seq, goal, new, old)
  PROVE  Balanced(WithAccept(seq, t), goal, new \ {t}, old)
<1> DEFINE s == WithAccept(seq, t)
<1>1. t \in Accepts /\ (t \in Plain => t \notin AcceptsOf(seq))
  BY DEF Balanced
<1>2. /\ AcceptsOf(s) = AcceptsOf(seq) \cup {Printed[t]}
      /\ Printed[t] \in AcceptsOf(seq) => Twice(s, Printed[t])
      /\ \A k : Twice(seq, k) => Twice(s, k)
  BY <1>1, AcceptInserted
<1> HIDE DEF s
<1>3. Shown(goal \ (new \ {t})) \subseteq AcceptsOf(s)
  BY <1>2 DEF Balanced, Shown
<1>4. old \subseteq AcceptsOf(s)
  BY <1>2 DEF Balanced
<1>5. (new \ {t}) \cap Plain \cap AcceptsOf(s) = {}
  BY <1>1, <1>2, TextFacts DEF Balanced
<1>6. AcceptsOf(s) \cap Plain \subseteq goal \cup old
  BY <1>1, <1>2, TextFacts DEF Balanced
<1>7. \A r \in old \cap Shown(goal) : r \in Shown(new \ {t}) \/ Twice(s, r)
  BY <1>2 DEF Balanced, Shown
<1> QED BY <1>3, <1>4, <1>5, <1>6, <1>7 DEF Balanced, s

\* A deletion made is one to come less, when all that is wanted is there.
LEMMA BalancedDelete ==
  ASSUME NEW seq, Orderly(seq), NEW goal, NEW old, NEW r \in old, r \notin Drops, r \notin goal,
         Balanced(seq, goal, {}, old)
  PROVE  Balanced(Without(seq, r), goal, {}, old \ {r})
<1> DEFINE s == Without(seq, r)
<1>1. /\ AcceptsOf(s) \subseteq AcceptsOf(seq)
      /\ AcceptsOf(seq) \ {r} \subseteq AcceptsOf(s)
      /\ r \in Plain => r \notin AcceptsOf(s)
      /\ Twice(seq, r) => r \in AcceptsOf(s)
      /\ \A k : k # r /\ Twice(seq, k) => Twice(s, k)
  BY RuleDeleted
<1> HIDE DEF s
<1>2. r \in Shown(goal) => r \in AcceptsOf(s)
  BY <1>1 DEF Balanced, Shown
<1>3. Shown(goal \ {}) \subseteq AcceptsOf(s)
  BY <1>1, <1>2 DEF Balanced, Shown
<1>4. \A k \in (old \ {r}) \cap Shown(goal) : k \in Shown({}) \/ Twice(s, k)
  BY <1>1 DEF Balanced
<1> QED BY <1>1, <1>3, <1>4 DEF Balanced, s

\* With nothing to come, the rules are as wanted.
LEMMA BalancedDone ==
  ASSUME NEW seq, NEW goal, Balanced(seq, goal, {}, {})
  PROVE  AsWanted(AcceptsOf(seq), goal)
BY DEF Balanced, AsWanted, Shown

\* The balance does not depend on the DROP.
LEMMA BalancedSame ==
  ASSUME NEW seq, NEW s, NEW goal, NEW new, NEW old, Balanced(seq, goal, new, old),
         AcceptsOf(s) = AcceptsOf(seq), old = {} \/ \A k : Twice(seq, k) => Twice(s, k)
  PROVE  Balanced(s, goal, new, old)
BY DEF Balanced

\* Between two passes nothing is in hand.
LEMMA RestIsPass ==
  /\ AtRest \in Passes
  /\ AtRest.pc = "idle"
  /\ DOMAIN AtRest.goal = {}
<1>1. <<>> \in [{} -> Wantable]
  OBVIOUS
<1>2. <<>> \in Goals
  BY <1>1 DEF Goals
<1> QED BY <1>2 DEF AtRest, Passes, Pcs

\* The wanted rules are ACCEPTs of configured chains.
LEMMA GoalFacts ==
  ASSUME NEW g \in Goals
  PROVE  DOMAIN g \subseteq Chains /\ \A c \in DOMAIN g : g[c] \subseteq Accepts
BY AcceptsAssumption DEF Goals

\* Nothing is being edited, and the kernel is as before.
LEMMA RestInv ==
  ASSUME Inv, it' = AtRest, wanted' \in Goals, UNCHANGED <<kernel, denying>>
  PROVE  Inv'
BY RestIsPass
DEF Inv, Shape, AllOrderly, Denies, EditOK, FillOK, RemoveOK, kernel, Exists, Editing

\* What an earlier run left is orderly.
LEMMA InitInv == Init => Inv
<1> SUFFICES ASSUME Init PROVE Inv
  OBVIOUS
<1>1. \A r \in Shown(Accepts) : \A d \in Drops :
        Orderly(<<r, d>>) /\ EndsIn(<<r, d>>, d) /\ <<r, d>> # NoChain
  <2> TAKE r \in Shown(Accepts)
  <2> TAKE d \in Drops
  <2>1. r \in Rules /\ d \in Rules /\ r # d /\ r \notin Drops
    BY AcceptsAssumption, TextFacts DEF Rules
  <2>2. <<r, d>> \in Seq(Rules) /\ Len(<<r, d>>) = 2 /\ <<r, d>>[1] = r /\ <<r, d>>[2] = d
    BY <2>1
  <2>3. <<r, d>> # NoChain /\ <<r, d>> # <<>>
    BY <2>2, NullAssumption
  <2> DEFINE seq == <<r, d>>
  <2>4. seq \in Seq(Rules) /\ Len(seq) = 2 /\ seq[1] = r /\ seq[2] = d /\ seq # <<>>
    BY <2>2, <2>3
  <2> HIDE DEF seq
  <2>5. Orderly(seq) /\ EndsIn(seq, d)
    <3>1. \A i \in 1..Len(seq) : i = 1 \/ i = 2
      BY <2>4
    <3> QED BY <2>1, <2>4, <3>1 DEF Orderly, EndsIn
  <2> QED BY <2>3, <2>5 DEF seq
<1>2. PICK left \in SUBSET Chains :
        /\ denying \in SUBSET left
        /\ forward = left
        /\ \E r \in Shown(Accepts) :
             chains = [c \in Chains |->
                         IF c \notin left THEN NoChain
                         ELSE IF c \in denying THEN <<r, Drop>> ELSE <<r, OtherDrop>>]
  BY DEF Init
<1>3. PICK r \in Shown(Accepts) :
        chains = [c \in Chains |->
                    IF c \notin left THEN NoChain
                    ELSE IF c \in denying THEN <<r, Drop>> ELSE <<r, OtherDrop>>]
  BY <1>2
<1>4. \A c \in Chains : Exists(c) <=> c \in left
  BY <1>1, <1>3 DEF Exists, Drops
<1>5. \A c \in left : Orderly(chains[c]) /\ (c \in denying => EndsIn(chains[c], Drop))
  BY <1>1, <1>3 DEF Drops
<1>6. wanted \in Goals
  BY DEF Init, Goals
<1>7. Shape
  BY <1>2, <1>3, <1>4, <1>5, <1>6, RestIsPass DEF Shape, Init, Orderly
<1>8. AllOrderly /\ Denies
  BY <1>2, <1>4, <1>5 DEF AllOrderly, Denies
<1>9. EditOK /\ FillOK /\ RemoveOK
  BY RestIsPass DEF Init, EditOK, FillOK, RemoveOK, Editing
<1> QED BY <1>7, <1>8, <1>9 DEF Inv

\* Snapshot: all chains are still to be looked at.
LEMMA BeginInv == ASSUME Inv, Begin PROVE Inv'
<1> USE DEF Inv, Begin
<1>1. /\ it'.pc = "chains" /\ it'.goal = wanted /\ it'.todo = DOMAIN wanted
      /\ it'.managed = {c \in Chains : Exists(c)} /\ it'.chain = NoChain
      /\ it'.new = {} /\ it'.old = {} /\ it'.drop = "none"
      /\ it' \in Passes
  BY RestIsPass, GoalFacts DEF AtRest, Shape, Passes, Pcs, Configured
<1>2. Shape' /\ AllOrderly' /\ Denies'
  BY <1>1 DEF Shape, AllOrderly, Denies, kernel, Exists
<1>3. EditOK' /\ RemoveOK'
  BY <1>1 DEF EditOK, RemoveOK, Editing
<1>4. FillOK'
  BY <1>1, GoalFacts, NullAssumption DEF FillOK, Editing, Shape, kernel, Exists
<1> QED BY <1>2, <1>3, <1>4

\* A chain just created or flushed has no rule, and is not a missing chain.
LEMMA EmptyChain == <<>> \in Seq(Rules) /\ Orderly(<<>>) /\ <<>> # NoChain
<1>1. <<>> \in Seq(Rules) /\ Len(<<>>) = 0
  BY EmptySeq
<1>2. \A i \in 1..0 : FALSE
  OBVIOUS
<1> QED BY <1>1, <1>2, NullAssumption DEF Orderly

\* -N: the chain was not there before.
LEMMA CreateInv == ASSUME Inv, NEW c \in Chains, CreateChain(c) PROVE Inv'
<1> USE DEF Inv
<1>1. <<>> \in Seq(Rules) /\ Orderly(<<>>) /\ <<>> # NoChain
  BY EmptyChain
<1>2. /\ it.pc = "chains" /\ it.chain = NoChain /\ c \in it.todo /\ c \notin it.managed
      /\ chains' = [chains EXCEPT ![c] = <<>>]
      /\ it' = [it EXCEPT !.chain = c]
      /\ forward' = forward /\ wanted' = wanted /\ denying' = denying
  BY DEF CreateChain
<1>3. ~Exists(c) /\ c \notin denying
  <2>1. c # NoChain
    BY NullAssumption
  <2>2. Exists(c) <=> c \in it.managed \/ c = it.chain
    BY <1>2 DEF FillOK
  <2> QED BY <1>2, <2>1, <2>2 DEF Denies
<1>4. Shape'
  BY <1>1, <1>2 DEF Shape, Passes, Exists
<1>5. AllOrderly' /\ Denies'
  BY <1>1, <1>2, <1>3 DEF AllOrderly, Denies, Shape, Exists
<1>6. EditOK' /\ RemoveOK'
  BY <1>2 DEF EditOK, RemoveOK, Editing, Shape, Passes
<1>7. FillOK'
  BY <1>1, <1>2, <1>3, NullAssumption DEF FillOK, Editing, Shape, Passes, Exists
<1> QED BY <1>4, <1>5, <1>6, <1>7

\* -S: a chain in order is done; of any other the differences are worked off.
LEMMA ReadInv == ASSUME Inv, NEW c \in Chains, ReadChain(c) PROVE Inv'
<1> DEFINE has == AcceptsOf(chains[c])
           goal == it.goal[c]
           drop == DropOf(chains[c])
<1> USE DEF Inv
<1>1. /\ it.pc = "chains" /\ c \in it.todo
      /\ c \in it.managed \/ it.chain = c
      /\ chains' = chains /\ forward' = forward /\ wanted' = wanted /\ denying' = denying
      /\ it' = IF has = goal /\ drop = Drop
               THEN [it EXCEPT !.todo = @ \ {c}, !.chain = NoChain]
               ELSE [it EXCEPT !.pc = "drop", !.chain = c, !.drop = drop,
                               !.new = goal \ has, !.old = has \ goal]
  BY DEF ReadChain, Matches, Missing, Surplus, kernel
<1>2. it \in Passes /\ it.goal \in Goals /\ it.todo \subseteq DOMAIN it.goal
  BY <1>1 DEF Shape, Passes, FillOK
<1>3. goal \subseteq Accepts
  BY <1>1, <1>2, GoalFacts
<1>4. Exists(c) /\ Orderly(chains[c])
  BY <1>1 DEF FillOK, AllOrderly
<1>5. /\ has \subseteq Shown(Accepts)
      /\ Balanced(chains[c], goal, goal \ has, has \ goal)
  BY <1>3, <1>4, AcceptsShown, BalancedStart
<1>6. \/ drop = "none" /\ Open(chains[c])
      \/ drop \in Drops /\ EndsIn(chains[c], drop)
  BY <1>4, DropFound
<1>7. it.managed \cap it.todo \subseteq {d \in Chains : Exists(d)} /\ c # NoChain
  BY <1>1, <1>2, NullAssumption DEF FillOK, Passes
<1> HIDE DEF has, goal, drop
<1>8. AllOrderly' /\ Denies'
  BY <1>1 DEF AllOrderly, Denies, Exists
<1>9. CASE has = goal /\ drop = Drop
  <2>1. /\ it' = [it EXCEPT !.todo = @ \ {c}, !.chain = NoChain]
        /\ it'.pc = "chains" /\ it'.todo = it.todo \ {c} /\ it'.chain = NoChain
        /\ it'.goal = it.goal /\ it'.managed = it.managed
    BY <1>1, <1>2, <1>9 DEF Passes
  <2>2. Shape'
    BY <1>1, <1>2, <2>1 DEF Shape, Passes, Exists
  <2>3. EditOK' /\ RemoveOK'
    BY <2>1 DEF EditOK, RemoveOK, Editing
  <2>4. Drop # "none"
    BY DEF Drop
  <2>5. AsWanted(AcceptsOf(chains[c]), it.goal[c]) /\ EndsIn(chains[c], Drop)
    <3>1. goal \ has = {} /\ has \ goal = {}
      BY <1>9
    <3>2. Balanced(chains[c], goal, {}, {})
      BY <1>5, <3>1
    <3>3. AsWanted(AcceptsOf(chains[c]), goal)
      BY <3>2, BalancedDone
    <3> QED BY <1>6, <1>9, <2>4, <3>3 DEF goal, drop
  <2>6. \A d \in it.todo \ {c} : Exists(d) <=> d \in it.managed
    <3> TAKE d \in it.todo \ {c}
    <3>1. Exists(d) <=> d \in it.managed \/ d = it.chain
      BY <1>1 DEF FillOK
    <3>2. it.chain # c => ReadChain(c) /\ c \in it.managed
      BY <1>1
    <3>3. c \in it.managed => it.chain = NoChain
      BY DEF ReadChain
    <3>4. d # NoChain
      BY <1>2, NullAssumption DEF Passes
    <3> QED BY <3>1, <3>2, <3>3, <3>4
  <2>7. FillOK'
    BY <1>1, <1>2, <1>4, <2>1, <2>5, <2>6, NullAssumption DEF FillOK, Exists, Editing, Passes
  <2> QED BY <1>8, <2>2, <2>3, <2>7
<1>10. CASE ~(has = goal /\ drop = Drop)
  <2>1. /\ it' = [it EXCEPT !.pc = "drop", !.chain = c, !.drop = drop,
                            !.new = goal \ has, !.old = has \ goal]
        /\ it'.pc = "drop" /\ it'.chain = c /\ it'.drop = drop
        /\ it'.new = goal \ has /\ it'.old = has \ goal
        /\ it'.goal = it.goal /\ it'.managed = it.managed /\ it'.todo = it.todo
    BY <1>1, <1>2, <1>10 DEF Passes
  <2>2. Shape'
    BY <1>1, <1>2, <1>3, <1>5, <1>6, <2>1 DEF Shape, Passes, Exists, Pcs
  <2>3. RemoveOK'
    BY <2>1 DEF RemoveOK
  <2>4. EditOK'
    <3>1. Balanced(chains[c], it.goal[c], goal \ has, has \ goal)
      BY <1>5 DEF goal
    <3>2. goal \ has \subseteq it.goal[c] /\ (has \ goal) \cap it.goal[c] = {}
      BY DEF goal
    <3>3. IF drop = "none" THEN Open(chains[c]) ELSE EndsIn(chains[c], drop)
      BY <1>6 DEF Drops, Drop, OtherDrop
    <3> QED BY <1>1, <2>1, <3>1, <3>2, <3>3 DEF EditOK
  <2>5. \A d \in it.todo : Exists(d) <=> d \in it.managed \/ d = c
    <3> TAKE d \in it.todo
    <3>1. Exists(d) <=> d \in it.managed \/ d = it.chain
      BY <1>1 DEF FillOK
    <3>2. c \in it.managed => it.chain = NoChain
      BY DEF ReadChain
    <3>3. d # NoChain
      BY <1>2, NullAssumption DEF Passes
    <3> QED BY <1>1, <1>4, <3>1, <3>2, <3>3
  <2>6. FillOK'
    BY <1>1, <2>1, <2>5 DEF FillOK, Exists, Editing
  <2> QED BY <1>8, <2>2, <2>3, <2>4, <2>6
<1> QED BY <1>9, <1>10

\* While a chain is edited: which one, and what is known of it.
LEMMA EditFacts ==
  ASSUME Inv, it.pc \in Editing
  PROVE  /\ it \in Passes /\ it.chain \in Chains /\ it.chain \in it.todo
         /\ Exists(it.chain) /\ Orderly(chains[it.chain])
         /\ it.todo \subseteq DOMAIN it.goal
         /\ it.chain \in denying => EndsIn(chains[it.chain], Drop)
<1>1. it \in Passes /\ it.chain \in it.todo /\ it.todo \subseteq Chains
  BY DEF Inv, Shape, Passes, EditOK
<1>2. Exists(it.chain) /\ it.todo \subseteq DOMAIN it.goal
  BY <1>1 DEF Inv, FillOK, Editing
<1> QED BY <1>1, <1>2 DEF Inv, AllOrderly, Denies

\* The chain in hand becomes another orderly sequence of rules.  It stays in
\* hand, or it is done.
LEMMA EditStep ==
  ASSUME Inv, it.pc \in Editing, NEW seq, Orderly(seq),
         chains' = [chains EXCEPT ![it.chain] = seq],
         forward' = forward, wanted' = wanted,
         denying' \in {denying, denying \cup {it.chain}},
         it.chain \in denying' => EndsIn(seq, Drop),
         it' \in Passes, it'.goal = it.goal, it'.managed = it.managed,
         \/ it'.pc \in Editing /\ it'.chain = it.chain /\ it'.todo = it.todo
         \/ /\ it'.pc = "chains" /\ it'.chain = NoChain /\ it'.todo = it.todo \ {it.chain}
            /\ AsWanted(AcceptsOf(seq), it.goal[it.chain]) /\ EndsIn(seq, Drop)
  PROVE  Shape' /\ AllOrderly' /\ Denies' /\ FillOK' /\ RemoveOK'
<1> DEFINE c == it.chain
<1>1. c \in Chains /\ c \in it.todo /\ Exists(c) /\ it.todo \subseteq DOMAIN it.goal /\ it \in Passes
  BY EditFacts
<1>2. seq \in Seq(Rules) /\ seq # NoChain /\ c # NoChain
  BY <1>1, NullAssumption DEF Orderly
<1>3. \A d \in Chains : chains'[d] = IF d = c THEN seq ELSE chains[d]
  BY <1>1 DEF Inv, Shape
<1>4. \A d \in Chains : Exists(d)' <=> Exists(d)
  BY <1>1, <1>2, <1>3 DEF Exists
<1> HIDE DEF c
<1>5. Shape'
  <2>1. chains' \in [Chains -> Seq(Rules) \cup {NoChain}]
    BY <1>2 DEF Inv, Shape
  <2>2. forward' \subseteq {d \in Chains : Exists(d)'}
    BY <1>4 DEF Inv, Shape
  <2>3. denying' \subseteq Chains /\ wanted' \in Goals
    BY <1>1 DEF Inv, Shape, c
  <2> QED BY <2>1, <2>2, <2>3 DEF Shape
<1>6. AllOrderly'
  BY <1>3, <1>4 DEF AllOrderly, Inv
<1>7. Denies'
  <2> SUFFICES ASSUME NEW d \in denying' PROVE Exists(d)' /\ EndsIn(chains'[d], Drop)
    BY DEF Denies
  <2>1. d \in Chains
    BY <1>1 DEF Inv, Shape, c
  <2>2. CASE d = c
    BY <1>1, <1>3, <1>4, <2>1, <2>2 DEF c
  <2>3. CASE d # c
    <3>1. d \in denying
      BY <2>3 DEF c
    <3> QED BY <1>3, <1>4, <2>1, <2>3, <3>1 DEF Inv, Denies
  <2> QED BY <2>2, <2>3
<1>8. it.todo \subseteq Chains /\ DOMAIN it.goal \subseteq Chains
  BY <1>1, GoalFacts DEF Passes
<1>9. /\ \A d \in DOMAIN it.goal \ it.todo :
           Exists(d) /\ AsWanted(AcceptsOf(chains[d]), it.goal[d]) /\ EndsIn(chains[d], Drop)
      /\ \A d \in it.todo : Exists(d) <=> d \in it.managed \/ d = c
  BY DEF Inv, FillOK, c
<1>10. FillOK'
  <2>1. ASSUME it'.pc \in Editing, it'.chain = c, it'.todo = it.todo PROVE FillOK'
    <3>1. it'.pc # "chains"
      BY <2>1 DEF Editing
    <3>2. \A d \in DOMAIN it.goal \ it.todo :
            Exists(d)' /\ AsWanted(AcceptsOf(chains'[d]), it.goal[d]) /\ EndsIn(chains'[d], Drop)
      BY <1>1, <1>3, <1>4, <1>8, <1>9 DEF c
    <3>3. \A d \in it.todo : Exists(d)' <=> d \in it.managed \/ d = c
      BY <1>4, <1>8, <1>9
    <3> QED BY <1>1, <2>1, <3>1, <3>2, <3>3 DEF FillOK
  <2>2. ASSUME it'.pc = "chains", it'.chain = NoChain, it'.todo = it.todo \ {c},
               AsWanted(AcceptsOf(seq), it.goal[c]), EndsIn(seq, Drop)
        PROVE  FillOK'
    <3>1. \A d \in DOMAIN it.goal \ (it.todo \ {c}) :
            Exists(d)' /\ AsWanted(AcceptsOf(chains'[d]), it.goal[d]) /\ EndsIn(chains'[d], Drop)
      BY <1>1, <1>3, <1>4, <1>8, <1>9, <2>2 DEF c
    <3>2. \A d \in it.todo \ {c} : Exists(d)' <=> d \in it.managed \/ d = NoChain
      BY <1>4, <1>8, <1>9, NullAssumption
    <3> QED BY <1>1, <2>2, <3>1, <3>2 DEF FillOK
  <2> QED BY <2>1, <2>2 DEF c
<1>11. RemoveOK'
  BY DEF RemoveOK, Editing
<1> QED BY <1>5, <1>6, <1>7, <1>10, <1>11

\* Writing back what is there changes nothing.
LEMMA SameChain ==
  ASSUME Inv, it.pc \in Editing, chains' = chains
  PROVE  chains' = [chains EXCEPT ![it.chain] = chains[it.chain]]
BY EditFacts DEF Inv, Shape

\* The next step of editing the chain in hand.
LEMMA EditProgress ==
  ASSUME it'.pc \in Editing, it'.chain = it.chain, it'.todo = it.todo, it'.goal = it.goal,
         Inv, it.pc \in Editing,
         NEW seq, chains' = [chains EXCEPT ![it.chain] = seq],
         Balanced(seq, it.goal[it.chain], it'.new, it'.old),
         it'.new \subseteq it.new, it'.old \subseteq it.old,
         it'.pc # "drop",
         it'.pc = "insert" => EndsIn(seq, IF it'.drop = "none" THEN Drop ELSE it'.drop),
         it'.pc = "redrop" => Open(seq) /\ it'.new = {} /\ it'.old = {}
  PROVE  EditOK'
<1>1. chains'[it.chain] = seq
  BY EditFacts DEF Inv, Shape
<1>2. it.chain \in it.todo /\ it.new \subseteq it.goal[it.chain] /\ it.old \cap it.goal[it.chain] = {}
  BY DEF Inv, EditOK
<1> QED BY <1>1, <1>2 DEF EditOK

\* A chain without a DROP gets one before anything else.
LEMMA AppendDropInv == ASSUME Inv, AppendDrop PROVE Inv'
<1> DEFINE c == it.chain
<1>1. it.pc = "drop" /\ it.pc \in Editing
  BY DEF AppendDrop, Editing
<1>2. it \in Passes /\ c \in Chains /\ Orderly(chains[c])
      /\ (c \in denying => EndsIn(chains[c], Drop))
  BY <1>1, EditFacts
<1>3. /\ it' = [it EXCEPT !.pc = "insert"] /\ it' \in Passes
      /\ it'.pc = "insert" /\ it'.pc \in Editing /\ it'.pc # "drop" /\ it'.pc # "redrop"
      /\ it'.chain = c /\ it'.todo = it.todo /\ it'.goal = it.goal /\ it'.managed = it.managed
      /\ it'.new = it.new /\ it'.old = it.old /\ it'.drop = it.drop
  BY <1>2 DEF AppendDrop, Become, Passes, Pcs, Editing
<1>4. Balanced(chains[c], it.goal[c], it'.new, it'.old)
  BY <1>1, <1>3 DEF Inv, EditOK
<1>5. forward' = forward /\ wanted' = wanted
  BY DEF AppendDrop, Edit, kernel
<1>6. CASE it.drop = "none"
  <2> DEFINE seq == WithDrop(chains[c])
  <2>1. chains' = [chains EXCEPT ![c] = seq] /\ denying' = denying \cup {c}
    BY <1>6 DEF AppendDrop, Edit, NowDenies
  <2>2. Open(chains[c])
    BY <1>1, <1>6 DEF Inv, EditOK
  <2>3. /\ Orderly(seq) /\ EndsIn(seq, Drop) /\ AcceptsOf(seq) = AcceptsOf(chains[c])
        /\ \A k : Twice(chains[c], k) => Twice(seq, k)
    BY <1>2, <2>2, DropAppended
  <2> HIDE DEF seq
  <2>6. Balanced(seq, it.goal[c], it'.new, it'.old)
    BY <1>4, <2>3, BalancedSame
  <2>4. Shape' /\ AllOrderly' /\ Denies' /\ FillOK' /\ RemoveOK'
    BY <1>1, <1>3, <1>5, <2>1, <2>3, EditStep
  <2>5. EditOK'
    BY <1>1, <1>3, <1>6, <2>1, <2>3, <2>6, EditProgress
  <2> QED BY <2>4, <2>5 DEF Inv
<1>7. CASE it.drop # "none"
  <2> DEFINE seq == chains[c]
  <2>1. chains' = chains /\ denying' = denying
    BY <1>7 DEF AppendDrop, kernel
  <2>2. chains' = [chains EXCEPT ![c] = seq]
    BY <1>1, <2>1, SameChain
  <2>3. EndsIn(seq, it.drop)
    BY <1>1, <1>7 DEF Inv, EditOK
  <2>4. Shape' /\ AllOrderly' /\ Denies' /\ FillOK' /\ RemoveOK'
    BY <1>1, <1>2, <1>3, <1>5, <2>1, <2>2, EditStep
  <2>5. EditOK'
    BY <1>1, <1>3, <1>4, <1>7, <2>2, <2>3, EditProgress
  <2> QED BY <2>4, <2>5 DEF Inv
<1> QED BY <1>6, <1>7

\* A missing ACCEPT goes to the top, out of the way of the DROP.
LEMMA InsertInv == ASSUME Inv, NEW r \in Accepts, InsertAccept(r) PROVE Inv'
<1> DEFINE c == it.chain
           seq == WithAccept(chains[c], r)
           d == IF it.drop = "none" THEN Drop ELSE it.drop
<1>1. it.pc = "insert" /\ it.pc \in Editing /\ r \in it.new
  BY DEF InsertAccept, Editing
<1>2. it \in Passes /\ c \in Chains /\ Orderly(chains[c])
      /\ (c \in denying => EndsIn(chains[c], Drop))
  BY <1>1, EditFacts
<1>3. /\ it' = [it EXCEPT !.new = @ \ {r}] /\ it' \in Passes
      /\ it'.pc = "insert" /\ it'.pc \in Editing /\ it'.pc # "drop" /\ it'.pc # "redrop"
      /\ it'.chain = c /\ it'.todo = it.todo /\ it'.goal = it.goal /\ it'.managed = it.managed
      /\ it'.new = it.new \ {r} /\ it'.old = it.old /\ it'.drop = it.drop
  BY <1>1, <1>2 DEF InsertAccept, Passes, Editing
<1>4. /\ chains' = [chains EXCEPT ![c] = seq]
      /\ forward' = forward /\ wanted' = wanted /\ denying' = denying
  BY DEF InsertAccept, Edit
<1>5. /\ Balanced(chains[c], it.goal[c], it.new, it.old)
      /\ it.new \subseteq it.goal[c] /\ it.old \cap it.goal[c] = {}
      /\ EndsIn(chains[c], d)
  BY <1>1 DEF Inv, EditOK
<1>6. r \in Plain => r \notin AcceptsOf(chains[c])
  BY <1>1, <1>5 DEF Balanced
<1>7. Orderly(seq) /\ EndsIn(seq, d) /\ (c \in denying => EndsIn(seq, Drop))
  BY <1>2, <1>5, <1>6, AcceptInserted
<1>8. Balanced(seq, it.goal[c], it'.new, it'.old)
  <2>1. it.goal[c] \subseteq Accepts
    BY <1>1, <1>2, EditFacts, GoalFacts DEF Passes
  <2>2. Balanced(seq, it.goal[c], it.new \ {r}, it.old)
    BY <1>1, <1>2, <1>5, <2>1, BalancedInsert
  <2> QED BY <1>3, <2>2
<1>9. it'.pc = "insert" => EndsIn(seq, IF it'.drop = "none" THEN Drop ELSE it'.drop)
  BY <1>3, <1>7
<1> HIDE DEF seq, d
<1>10. Shape' /\ AllOrderly' /\ Denies' /\ FillOK' /\ RemoveOK'
  BY <1>1, <1>3, <1>4, <1>7, EditStep
<1>11. EditOK'
  BY <1>1, <1>3, <1>4, <1>8, <1>9, EditProgress
<1> QED BY <1>10, <1>11 DEF Inv

\* A stale ACCEPT goes, which never is the rule that ends the chain.
LEMMA DeleteAcceptInv == ASSUME Inv, NEW r \in Accepts, DeleteAccept(r) PROVE Inv'
<1> DEFINE c == it.chain
           seq == Without(chains[c], r)
           d == IF it.drop = "none" THEN Drop ELSE it.drop
<1>1. it.pc = "insert" /\ it.pc \in Editing /\ r \in it.old /\ it.new = {}
  BY DEF DeleteAccept, Editing
<1>2. it \in Passes /\ c \in Chains /\ Orderly(chains[c])
      /\ (c \in denying => EndsIn(chains[c], Drop))
  BY <1>1, EditFacts
<1>3. /\ it' = [it EXCEPT !.old = @ \ {r}] /\ it' \in Passes
      /\ it'.pc = "insert" /\ it'.pc \in Editing /\ it'.pc # "drop" /\ it'.pc # "redrop"
      /\ it'.chain = c /\ it'.todo = it.todo /\ it'.goal = it.goal /\ it'.managed = it.managed
      /\ it'.new = it.new /\ it'.old = it.old \ {r} /\ it'.drop = it.drop
  BY <1>1, <1>2 DEF DeleteAccept, Passes, Editing
<1>4. /\ chains' = [chains EXCEPT ![c] = seq]
      /\ forward' = forward /\ wanted' = wanted /\ denying' = denying
  BY DEF DeleteAccept, Edit
<1>5. /\ Balanced(chains[c], it.goal[c], {}, it.old)
      /\ it.old \cap it.goal[c] = {}
      /\ EndsIn(chains[c], d)
  BY <1>1 DEF Inv, EditOK
<1>6. d \in Drops /\ d # r /\ Drop # r /\ r \notin Drops
  BY <1>2, AcceptsAssumption DEF Passes, Drops
<1>7. Orderly(seq) /\ EndsIn(seq, d) /\ (c \in denying => EndsIn(seq, Drop))
  BY <1>2, <1>5, <1>6, RuleDeleted
<1>8. Balanced(seq, it.goal[c], it'.new, it'.old)
  <2>1. Balanced(seq, it.goal[c], {}, it.old \ {r})
    BY <1>1, <1>2, <1>5, <1>6, BalancedDelete
  <2> QED BY <1>1, <1>3, <2>1
<1>9. it'.pc = "insert" => EndsIn(seq, IF it'.drop = "none" THEN Drop ELSE it'.drop)
  BY <1>3, <1>7
<1> HIDE DEF seq, d
<1>10. Shape' /\ AllOrderly' /\ Denies' /\ FillOK' /\ RemoveOK'
  BY <1>1, <1>3, <1>4, <1>7, EditStep
<1>11. EditOK'
  BY <1>1, <1>3, <1>4, <1>8, <1>9, EditProgress
<1> QED BY <1>10, <1>11 DEF Inv

\* A chain that denies ends in the agent's DROP, so it is never this one.
LEMMA DeleteDropInv == ASSUME Inv, DeleteOtherDrop PROVE Inv'
<1> DEFINE c == it.chain
           seq == Without(chains[c], OtherDrop)
<1>1. it.pc = "insert" /\ it.pc \in Editing /\ it.old = {} /\ it.new = {} /\ it.drop = OtherDrop
  BY DEF DeleteOtherDrop, Editing
<1>2. it \in Passes /\ c \in Chains /\ Orderly(chains[c])
      /\ (c \in denying => EndsIn(chains[c], Drop))
  BY <1>1, EditFacts
<1>3. /\ it' = [it EXCEPT !.pc = "redrop"] /\ it' \in Passes
      /\ it'.pc = "redrop" /\ it'.pc \in Editing /\ it'.pc # "drop" /\ it'.pc # "insert"
      /\ it'.chain = c /\ it'.todo = it.todo /\ it'.goal = it.goal /\ it'.managed = it.managed
      /\ it'.new = {} /\ it'.old = {}
  BY <1>1, <1>2 DEF DeleteOtherDrop, Become, Passes, Editing, Pcs
<1>4. /\ chains' = [chains EXCEPT ![c] = seq]
      /\ forward' = forward /\ wanted' = wanted /\ denying' = denying
  BY DEF DeleteOtherDrop, Edit
<1>5. /\ Balanced(chains[c], it.goal[c], {}, {})
      /\ EndsIn(chains[c], OtherDrop)
  BY <1>1 DEF Inv, EditOK, OtherDrop
<1>6. c \notin denying
  BY <1>2, <1>5 DEF EndsIn, Drop, OtherDrop
<1>7. Orderly(seq) /\ AcceptsOf(seq) = AcceptsOf(chains[c]) /\ Open(seq)
  BY <1>2, <1>5, RuleDeleted DEF Drops
<1>8. Balanced(seq, it.goal[c], it'.new, it'.old)
  <2>1. Balanced(seq, it.goal[c], {}, {})
    BY <1>5, <1>7, BalancedSame
  <2> QED BY <1>3, <2>1
<1> HIDE DEF seq
<1>9. Shape' /\ AllOrderly' /\ Denies' /\ FillOK' /\ RemoveOK'
  BY <1>1, <1>3, <1>4, <1>6, <1>7, EditStep
<1>10. EditOK'
  BY <1>1, <1>3, <1>4, <1>7, <1>8, EditProgress
<1> QED BY <1>9, <1>10 DEF Inv

\* The last command for a chain, or none: it is as wanted and denies.
LEMMA DoneInv == ASSUME Inv, AppendNewDrop \/ ChainDone PROVE Inv'
<1> DEFINE c == it.chain
           seq == IF it.pc = "redrop" THEN WithDrop(chains[c]) ELSE chains[c]
<1>1. it.pc \in {"redrop", "insert"} /\ it.pc \in Editing
  BY DEF AppendNewDrop, ChainDone, Editing
<1>2. it \in Passes /\ c \in Chains /\ Orderly(chains[c])
      /\ (c \in denying => EndsIn(chains[c], Drop))
  BY <1>1, EditFacts
<1>3. it.new = {} /\ it.old = {}
  BY <1>1 DEF AppendNewDrop, ChainDone, Inv, EditOK
<1>4. AsWanted(AcceptsOf(chains[c]), it.goal[c])
  <2>1. Balanced(chains[c], it.goal[c], {}, {})
    BY <1>1, <1>3 DEF Inv, EditOK
  <2> QED BY <2>1, BalancedDone
<1>5. /\ it' \in Passes
      /\ it'.pc = "chains" /\ it'.pc \notin Editing
      /\ it'.chain = NoChain /\ it'.todo = it.todo \ {c}
      /\ it'.goal = it.goal /\ it'.managed = it.managed
  <2>1. it' = [it EXCEPT !.pc = "chains", !.todo = @ \ {c}, !.chain = NoChain, !.drop = "none"]
    BY DEF AppendNewDrop, ChainDone
  <2>2. it \in Passes
    BY <1>2
  <2> HIDE DEF c
  <2> QED BY ONLY <2>1, <2>2 DEF Passes, Pcs, Editing
<1>6. /\ chains' = [chains EXCEPT ![c] = seq]
      /\ forward' = forward /\ wanted' = wanted
      /\ denying' \in {denying, denying \cup {c}}
      /\ Orderly(seq) /\ AcceptsOf(seq) = AcceptsOf(chains[c]) /\ EndsIn(seq, Drop)
  <2>1. CASE it.pc = "redrop"
    <3>1. Open(chains[c])
      BY <1>1, <2>1 DEF Inv, EditOK
    <3>2. AppendNewDrop
      BY <2>1 DEF ChainDone
    <3> QED BY <1>2, <2>1, <3>1, <3>2, DropAppended DEF AppendNewDrop, Edit, NowDenies
  <2>2. CASE it.pc = "insert"
    <3>1. it.drop # OtherDrop /\ chains' = chains /\ forward' = forward /\ wanted' = wanted
          /\ denying' = denying
      BY <2>2 DEF AppendNewDrop, ChainDone, kernel
    <3>2. it.drop \in {"none", Drop}
      BY <1>2, <3>1 DEF Passes, Drops
    <3>3. EndsIn(chains[c], Drop)
      BY <1>1, <2>2, <3>2 DEF Inv, EditOK
    <3>4. seq = chains[c]
      BY <2>2
    <3> QED BY <1>1, <1>2, <3>1, <3>3, <3>4, SameChain
  <2> QED BY <1>1, <2>1, <2>2
<1> HIDE DEF seq
<1>7. Shape' /\ AllOrderly' /\ Denies' /\ FillOK' /\ RemoveOK'
  BY <1>1, <1>4, <1>5, <1>6, EditStep
<1>8. EditOK'
  BY <1>5 DEF EditOK
<1> QED BY <1>7, <1>8 DEF Inv

-----------------------------------------------------------------------------
\* The jump goes to a chain that is filled, hence there.
LEMMA AddForwardInv == ASSUME Inv, NEW c \in Chains, AddForward(c) PROVE Inv'
<1>1. /\ it.pc = "chains" /\ it.todo = {} /\ c \in DOMAIN it.goal
      /\ chains' = chains /\ forward' = forward \cup {c}
      /\ UNCHANGED <<wanted, it, denying>>
  BY DEF AddForward
<1>2. Exists(c)
  BY <1>1 DEF Inv, FillOK
<1>3. Shape'
  BY <1>1, <1>2 DEF Inv, Shape, Exists
<1>4. AllOrderly' /\ Denies' /\ EditOK' /\ FillOK' /\ RemoveOK'
  BY <1>1 DEF Inv, AllOrderly, Denies, EditOK, FillOK, RemoveOK, Exists, Editing
<1> QED BY <1>3, <1>4 DEF Inv

\* Only chains that are not configured are stale.
LEMMA ForwardDoneInv == ASSUME Inv, ForwardDone PROVE Inv'
<1>1. /\ it' = [it EXCEPT !.pc = "stale", !.todo = it.managed \ DOMAIN it.goal]
      /\ it \in Passes
      /\ chains' = chains /\ UNCHANGED <<forward, wanted, denying>>
  BY DEF ForwardDone, StaleChains, Inv, Shape, kernel
<1>2. /\ it' \in Passes /\ it'.pc = "stale" /\ it'.goal = it.goal
      /\ it'.todo = it.managed \ DOMAIN it.goal
  BY <1>1 DEF Passes, Pcs
<1>3. Shape' /\ AllOrderly' /\ Denies'
  BY <1>1, <1>2 DEF Inv, Shape, AllOrderly, Denies, Exists
<1>4. EditOK' /\ FillOK' /\ RemoveOK'
  BY <1>2 DEF EditOK, FillOK, RemoveOK, Editing
<1> QED BY <1>3, <1>4 DEF Inv

\* -F: from here on nothing is promised of the chain.
LEMMA FlushInv == ASSUME Inv, NEW c \in Chains, FlushStale(c) PROVE Inv'
<1>1. /\ it.pc = "stale" /\ c \in it.todo /\ it \in Passes
      /\ chains' = [chains EXCEPT ![c] = <<>>] /\ chains \in [Chains -> Seq(Rules) \cup {NoChain}]
      /\ denying' = denying \ {c} /\ UNCHANGED <<forward, wanted>>
      /\ it' = [it EXCEPT !.pc = "unref", !.chain = c, !.todo = @ \ {c}]
  BY DEF FlushStale, Inv, Shape
<1>2. /\ it' \in Passes /\ it'.pc = "unref" /\ it'.chain = c
      /\ it'.todo = it.todo \ {c} /\ it'.goal = it.goal
  BY <1>1 DEF Passes, Pcs
<1>3. c \notin DOMAIN it.goal /\ it.todo \cap DOMAIN it.goal = {}
  BY <1>1 DEF Inv, RemoveOK
<1>4. \A d \in Chains : chains'[d] = IF d = c THEN <<>> ELSE chains[d]
  BY <1>1
<1>5. \A d \in Chains : Exists(d) => Exists(d)'
  BY <1>4, EmptyChain DEF Exists
<1>6. Shape'
  BY <1>1, <1>2, <1>5, EmptyChain DEF Inv, Shape
<1>7. AllOrderly'
  BY <1>4, EmptyChain DEF Inv, AllOrderly, Exists
<1>8. Denies'
  BY <1>1, <1>4, <1>5 DEF Inv, Denies, Shape
<1>9. EditOK' /\ FillOK' /\ RemoveOK'
  BY <1>1, <1>2, <1>3, <1>4 DEF EditOK, FillOK, RemoveOK, Editing
<1> QED BY <1>6, <1>7, <1>8, <1>9 DEF Inv

\* -D of the jumps: afterwards FORWARD no longer refers to the chain.
LEMMA UnrefInv == ASSUME Inv, RemoveForwardRefs PROVE Inv'
<1>1. /\ it.pc = "unref" /\ it \in Passes /\ forward' = forward \ {it.chain}
      /\ chains' = chains /\ UNCHANGED <<wanted, denying>>
      /\ it' = [it EXCEPT !.pc = "delete"]
  BY DEF RemoveForwardRefs, RefsAfterRemoval, Become, Inv, Shape
<1>2. /\ it' \in Passes /\ it'.pc = "delete" /\ it'.chain = it.chain
      /\ it'.todo = it.todo /\ it'.goal = it.goal
  BY <1>1 DEF Passes, Pcs
<1>3. Shape' /\ AllOrderly' /\ Denies'
  BY <1>1, <1>2 DEF Inv, Shape, AllOrderly, Denies, Exists
<1>4. EditOK' /\ FillOK' /\ RemoveOK'
  BY <1>1, <1>2 DEF Inv, EditOK, FillOK, RemoveOK, Editing
<1> QED BY <1>3, <1>4 DEF Inv

\* -X of a chain nothing refers to.
LEMMA DeleteChainInv == ASSUME Inv, DeleteChain PROVE Inv'
<1> DEFINE c == it.chain
<1>1. /\ it.pc = "delete" /\ it \in Passes
      /\ chains' = [chains EXCEPT ![c] = NoChain]
      /\ chains \in [Chains -> Seq(Rules) \cup {NoChain}]
      /\ UNCHANGED <<forward, wanted, denying>>
      /\ it' = [it EXCEPT !.pc = "stale", !.chain = NoChain]
  BY DEF DeleteChain, Inv, Shape
<1>2. /\ it' \in Passes /\ it'.pc = "stale"
      /\ it'.todo = it.todo /\ it'.goal = it.goal
  BY <1>1 DEF Passes, Pcs
<1>3. c \in Chains /\ c \notin denying /\ c \notin forward /\ it.todo \cap DOMAIN it.goal = {}
  BY <1>1 DEF Inv, RemoveOK
<1>4. \A d \in Chains : chains'[d] = IF d = c THEN NoChain ELSE chains[d]
  BY <1>1
<1> HIDE DEF c
<1>5. Shape'
  BY <1>1, <1>2, <1>3, <1>4 DEF Inv, Shape, Exists
<1>6. AllOrderly' /\ Denies'
  BY <1>1, <1>3, <1>4 DEF Inv, AllOrderly, Denies, Shape, Exists
<1>7. EditOK' /\ FillOK' /\ RemoveOK'
  BY <1>2, <1>3 DEF EditOK, FillOK, RemoveOK, Editing
<1> QED BY <1>5, <1>6, <1>7 DEF Inv

\* A removal given up: the chain stays, perhaps flushed, for a later pass.
LEMMA RemovalFailsInv == ASSUME Inv, RemovalFails PROVE Inv'
<1>1. it \in Passes /\ chains' = chains /\ UNCHANGED <<forward, wanted, denying>>
  BY DEF RemovalFails, Inv, Shape, kernel
<1>2. /\ it' \in Passes /\ it'.pc = "stale"
      /\ it'.todo \subseteq it.todo /\ it'.goal = it.goal
  <2>1. CASE \E c \in it.todo : it.pc = "stale" /\ it' = [it EXCEPT !.todo = @ \ {c}]
    BY <1>1, <2>1 DEF Passes
  <2>2. CASE it' = [it EXCEPT !.pc = "stale", !.chain = NoChain]
    BY <1>1, <2>2 DEF Passes, Pcs
  <2> QED BY <2>1, <2>2 DEF RemovalFails
<1>3. Shape' /\ AllOrderly' /\ Denies'
  BY <1>1, <1>2 DEF Inv, Shape, AllOrderly, Denies, Exists
<1>4. it.pc \in {"stale", "unref", "delete"}
  BY DEF RemovalFails
<1>5. EditOK' /\ FillOK' /\ RemoveOK'
  BY <1>1, <1>2, <1>4 DEF Inv, EditOK, FillOK, RemoveOK, Editing
<1> QED BY <1>3, <1>5 DEF Inv

\* The database changes; the pass works with the snapshot it took.
LEMMA ChangeDataInv == ASSUME Inv, ChangeData PROVE Inv'
<1>1. wanted' \in [DOMAIN wanted -> Wantable] /\ UNCHANGED <<chains, forward, it, denying>>
  BY DEF ChangeData, Configured, kernel
<1>2. wanted' \in Goals
  BY <1>1, GoalFacts DEF Inv, Shape, Goals
<1> QED BY <1>1, <1>2
    DEF Inv, Shape, AllOrderly, Denies, EditOK, FillOK, RemoveOK, Exists, Editing

\* Passes that end early, and restarts.
LEMMA EndInv == ASSUME Inv, Finish \/ Raise \/ Reconfigure PROVE Inv'
<1>1. wanted' \in Goals
  BY DEF Finish, Raise, Reconfigure, Inv, Shape, Goals
<1> QED BY <1>1, RestInv DEF Finish, Raise, Reconfigure, kernel

\* Every step keeps the inductive invariant.
LEMMA NextInv == ASSUME Inv, [Next]_vars PROVE Inv'
<1>1. CASE UNCHANGED vars
  BY <1>1 DEF vars, kernel, Inv, Shape, AllOrderly, Denies, EditOK, FillOK, RemoveOK, Exists, Editing
<1>2. CASE Agent
  BY <1>2, BeginInv, CreateInv, ReadInv, AddForwardInv, FlushInv, AppendDropInv, InsertInv,
     DeleteAcceptInv, DeleteDropInv, DoneInv, ForwardDoneInv, UnrefInv, DeleteChainInv, EndInv
  DEF Agent
<1>3. CASE Environment
  BY <1>3, ChangeDataInv, EndInv DEF Environment
<1>4. CASE Raise \/ RemovalFails
  BY <1>4, EndInv, RemovalFailsInv
<1> QED BY <1>1, <1>2, <1>3, <1>4 DEF Next

\* The inductive invariant holds of every behaviour.
THEOREM Invariance == Spec => []Inv
<1> QED BY InitInv, NextInv, PTL DEF Spec

-----------------------------------------------------------------------------
(* What follows from it.                                                   *)

\* Last, on a sequence that has one.
LEMMA LastOfChain ==
  ASSUME NEW seq, NEW d, EndsIn(seq, d)
  PROVE  seq # <<>> /\ Last(seq) = d
BY DEF EndsIn, Last

\* Every variable keeps its shape: chains hold rules, FORWARD jumps only to
\* chains that exist, a pass works on ACCEPT rules.
THEOREM TypeCorrect == Spec => []TypeOK
<1>1. Inv => TypeOK
  BY GoalFacts DEF Inv, Shape, TypeOK, Passes, Configured, Exists
<1> QED BY <1>1, Invariance, PTL

\* A chain the agent has put its DROP in ends in that DROP between any two
\* iptables commands, whatever failed before, until it is flushed for removal.
THEOREM FailsClosed == Spec => []FailClosed
<1>1. Inv => FailClosed
  BY LastOfChain DEF Inv, Denies, FailClosed
<1> QED BY <1>1, Invariance, PTL

\* No ACCEPT ends up behind a DROP, where it would count as granted and grant
\* nothing.
THEOREM AcceptsStayReachable == Spec => []AcceptsReachable
<1>1. Inv => AcceptsReachable
  <2> SUFFICES ASSUME Inv, NEW c \in Chains, Exists(c),
                      NEW i \in DOMAIN chains[c], NEW j \in DOMAIN chains[c],
                      i < j, chains[c][i] \in Drops
               PROVE  FALSE
    BY DEF AcceptsReachable
  <2>1. Orderly(chains[c])
    BY DEF Inv, AllOrderly
  <2>2. DOMAIN chains[c] = 1..Len(chains[c]) /\ Len(chains[c]) \in Nat
    BY <2>1, LenProperties DEF Orderly
  <2>3. i = Len(chains[c])
    BY <2>1, <2>2 DEF Orderly
  <2> QED BY <2>2, <2>3
<1> QED BY <1>1, Invariance, PTL

\* No chain holds its DROP or a rule with one text only twice, so one -D of such
\* a rule, when it is revoked, revokes it.
THEOREM NoDuplicates == Spec => []NoRuleTwice
<1>1. Inv => NoRuleTwice
  <2> SUFFICES ASSUME Inv, NEW c \in Chains, Exists(c),
                      NEW i \in DOMAIN chains[c], NEW j \in DOMAIN chains[c],
                      chains[c][i] = chains[c][j], i # j
               PROVE  chains[c][i] \in Accepts \ Plain
    BY DEF NoRuleTwice
  <2>1. Orderly(chains[c])
    BY DEF Inv, AllOrderly
  <2>2. DOMAIN chains[c] = 1..Len(chains[c])
    BY <2>1, LenProperties DEF Orderly
  <2> QED BY <2>1, <2>2 DEF Orderly
<1> QED BY <1>1, Invariance, PTL

-----------------------------------------------------------------------------
(* What no step does.                                                      *)

\* An edit of the chain in hand keeps the ACCEPTs of it that stay wanted.
LEMMA EditKeepsGrants ==
  ASSUME Inv, it.pc \in Editing,
         \/ AppendDrop \/ DeleteOtherDrop \/ AppendNewDrop \/ ChainDone
         \/ \E r \in Accepts : InsertAccept(r) \/ DeleteAccept(r)
  PROVE  \A c \in DOMAIN it.goal :
           (AcceptsOf(chains[c]) \cap Shown(it.goal[c])) \subseteq AcceptsOf(chains'[c])
<1> DEFINE e == it.chain
<1>1. /\ e \in Chains /\ Orderly(chains[e])
      /\ it \in Passes /\ DOMAIN it.goal \subseteq Chains
      /\ chains \in [Chains -> Seq(Rules) \cup {NoChain}]
  BY EditFacts, GoalFacts DEF Inv, Shape, Passes
<1>2. SUFFICES (AcceptsOf(chains[e]) \cap Shown(it.goal[e])) \subseteq AcceptsOf(chains'[e])
               /\ \A c \in Chains \ {e} : chains'[c] = chains[c]
  BY <1>1
<1>3. ASSUME NEW seq, chains' = [chains EXCEPT ![e] = seq],
             (AcceptsOf(chains[e]) \cap Shown(it.goal[e])) \subseteq AcceptsOf(seq)
      PROVE  (AcceptsOf(chains[e]) \cap Shown(it.goal[e])) \subseteq AcceptsOf(chains'[e])
             /\ \A c \in Chains \ {e} : chains'[c] = chains[c]
  BY <1>1, <1>3
<1> DEFINE Kept(seq) == (AcceptsOf(chains[e]) \cap Shown(it.goal[e])) \subseteq AcceptsOf(seq)
<1>4. CASE chains' = chains
  BY <1>4
<1>5. CASE AppendDrop /\ it.drop = "none"
  <2>1. Open(chains[e]) /\ chains' = [chains EXCEPT ![e] = WithDrop(chains[e])]
    BY <1>5 DEF AppendDrop, Edit, Inv, EditOK
  <2>2. Kept(WithDrop(chains[e]))
    BY <1>1, <2>1, DropAppended
  <2> QED BY <1>3, <2>1, <2>2
<1>6. CASE AppendNewDrop
  <2>1. Open(chains[e]) /\ chains' = [chains EXCEPT ![e] = WithDrop(chains[e])]
    BY <1>6 DEF AppendNewDrop, Edit, Inv, EditOK
  <2>2. Kept(WithDrop(chains[e]))
    BY <1>1, <2>1, DropAppended
  <2> QED BY <1>3, <2>1, <2>2
<1>7. CASE DeleteOtherDrop
  <2>1. chains' = [chains EXCEPT ![e] = Without(chains[e], OtherDrop)]
    BY <1>7 DEF DeleteOtherDrop, Edit
  <2>2. Kept(Without(chains[e], OtherDrop))
    BY <1>1, RuleDeleted DEF Drops
  <2> QED BY <1>3, <2>1, <2>2
<1>8. ASSUME NEW r \in Accepts, InsertAccept(r)
      PROVE  (AcceptsOf(chains[e]) \cap Shown(it.goal[e])) \subseteq AcceptsOf(chains'[e])
             /\ \A c \in Chains \ {e} : chains'[c] = chains[c]
  <2>1. chains' = [chains EXCEPT ![e] = WithAccept(chains[e], r)]
        /\ it.pc = "insert" /\ r \in it.new
    BY <1>8 DEF InsertAccept, Edit
  <2>2. r \in Plain => r \notin AcceptsOf(chains[e])
    BY <2>1 DEF Inv, EditOK, Balanced
  <2>3. Kept(WithAccept(chains[e], r))
    BY <1>1, <2>2, AcceptInserted
  <2> QED BY <1>3, <2>1, <2>3
<1>9. ASSUME NEW r \in Accepts, DeleteAccept(r)
      PROVE  (AcceptsOf(chains[e]) \cap Shown(it.goal[e])) \subseteq AcceptsOf(chains'[e])
             /\ \A c \in Chains \ {e} : chains'[c] = chains[c]
  <2>1. /\ chains' = [chains EXCEPT ![e] = Without(chains[e], r)]
        /\ it.pc = "insert" /\ r \in it.old /\ it.new = {}
    BY <1>9 DEF DeleteAccept, Edit
  <2>2. r \in Shown(it.goal[e]) => Twice(chains[e], r)
    BY <2>1 DEF Inv, EditOK, Balanced, Shown
  <2>3. r \notin Drops
    BY AcceptsAssumption
  <2>4. Kept(Without(chains[e], r))
    BY <1>1, <2>2, <2>3, RuleDeleted
  <2> QED BY <1>3, <2>1, <2>4
<1>10. ChainDone \/ (AppendDrop /\ it.drop # "none") => chains' = chains
  BY DEF ChainDone, AppendDrop, kernel
<1> QED BY <1>4, <1>5, <1>6, <1>7, <1>8, <1>9, <1>10

\* A chain being reconciled never loses an ACCEPT it should keep.
THEOREM GrantsStay == Spec => GrantsUninterrupted
<1> DEFINE Keeps == \A c \in DOMAIN it.goal :
                      Exists(c) /\ Exists(c)' =>
                        (AcceptsOf(chains[c]) \cap Shown(it.goal[c])) \subseteq AcceptsOf(chains'[c])
<1>1. ASSUME Inv, [Next]_vars PROVE Keeps
  <2>1. CASE chains' = chains
    BY <2>1
  <2>2. CASE \/ AppendDrop \/ DeleteOtherDrop \/ AppendNewDrop \/ ChainDone
             \/ \E r \in Accepts : InsertAccept(r) \/ DeleteAccept(r)
    <3>1. it.pc \in Editing
      BY <2>2 DEF AppendDrop, DeleteOtherDrop, AppendNewDrop, ChainDone, InsertAccept,
                  DeleteAccept, Editing
    <3> QED BY <1>1, <2>2, <3>1, EditKeepsGrants
  <2>3. ASSUME NEW c \in Chains, CreateChain(c) PROVE Keeps
    <3>1. ~Exists(c)
      <4>1. it.pc = "chains" /\ it.chain = NoChain /\ c \in it.todo /\ c \notin it.managed
        BY <2>3 DEF CreateChain
      <4> QED BY <1>1, <4>1, NullAssumption DEF Inv, FillOK
    <3>2. \A d \in Chains \ {c} : chains'[d] = chains[d]
      BY <1>1, <2>3 DEF CreateChain, Inv, Shape
    <3> QED BY <1>1, <3>1, <3>2, GoalFacts DEF Inv, Shape, Passes
  <2>4. ASSUME NEW c \in Chains, FlushStale(c) PROVE Keeps
    <3>1. c \notin DOMAIN it.goal
      BY <1>1, <2>4 DEF FlushStale, Inv, RemoveOK
    <3>2. \A d \in Chains \ {c} : chains'[d] = chains[d]
      BY <1>1, <2>4 DEF FlushStale, Inv, Shape
    <3> QED BY <1>1, <3>1, <3>2, GoalFacts DEF Inv, Shape, Passes
  <2>5. CASE DeleteChain
    <3>1. it.chain \notin DOMAIN it.goal
      BY <1>1, <2>5 DEF DeleteChain, Inv, RemoveOK
    <3>2. \A d \in Chains \ {it.chain} : chains'[d] = chains[d]
      BY <1>1, <2>5 DEF DeleteChain, Inv, Shape
    <3> QED BY <1>1, <3>1, <3>2, GoalFacts DEF Inv, Shape, Passes
  <2>6. \/ Begin \/ \E c \in Chains : ReadChain(c) \/ AddForward(c)
        \/ ForwardDone \/ RemoveForwardRefs \/ Finish
        \/ ChangeData \/ Reconfigure \/ Raise \/ RemovalFails \/ UNCHANGED vars
        => chains' = chains
    BY DEF Begin, ReadChain, AddForward, ForwardDone, RemoveForwardRefs, Finish, ChangeData,
           Reconfigure, Raise, RemovalFails, vars, kernel
  <2> HIDE DEF Keeps
  <2> QED BY <1>1, <2>1, <2>2, <2>3, <2>4, <2>5, <2>6 DEF Next, Agent, Environment
<1>2. Inv /\ [Next]_vars => [Keeps]_vars
  BY <1>1
<1> QED BY <1>2, Invariance, PTL DEF Spec, GrantsUninterrupted

\* What Closed says is that some DROP ends the chain.
LEMMA ClosedEnds ==
  ASSUME NEW c \in Chains, Orderly(chains[c])
  PROVE  Closed(c) <=> \E d \in Drops : EndsIn(chains[c], d)
BY DEF Closed, EndsIn, Last

\* An edit of the chain in hand leaves it closed, the deletion of another DROP
\* excepted.
LEMMA EditKeepsClosed ==
  ASSUME Inv, it.pc \in Editing, NEW e \in Chains, e = it.chain, Closed(e),
         \/ AppendDrop \/ AppendNewDrop \/ \E r \in Accepts : InsertAccept(r) \/ DeleteAccept(r)
  PROVE  Exists(e)' /\ Closed(e)'
<1>1. e \in Chains /\ Orderly(chains[e]) /\ chains \in [Chains -> Seq(Rules) \cup {NoChain}]
  BY EditFacts DEF Inv, Shape
<1>2. PICK d \in Drops : EndsIn(chains[e], d)
  BY <1>1, ClosedEnds
<1>3. SUFFICES \E b \in Drops : Orderly(chains'[e]) /\ EndsIn(chains'[e], b)
  <2>1. ASSUME NEW seq, NEW b \in Drops, Orderly(seq), EndsIn(seq, b)
        PROVE  Last(seq) \in Drops /\ seq # <<>> /\ seq # NoChain
    BY <2>1, LastOfChain, NullAssumption DEF Orderly
  <2> QED BY <2>1 DEF Exists, Closed
<1>4. ASSUME Open(chains[e]), chains'[e] = WithDrop(chains[e])
      PROVE  Orderly(chains'[e]) /\ EndsIn(chains'[e], Drop)
  BY <1>1, <1>4, DropAppended
<1>5. CASE AppendDrop
  <2>1. CASE it.drop = "none"
    <3>1. Open(chains[e]) /\ chains'[e] = WithDrop(chains[e])
      BY <1>1, <1>5, <2>1 DEF AppendDrop, Edit, Inv, EditOK
    <3> QED BY <1>4, <3>1 DEF Drops
  <2>2. CASE it.drop # "none"
    BY <1>1, <1>2, <1>5, <2>2 DEF AppendDrop, kernel
  <2> QED BY <2>1, <2>2
<1>6. CASE AppendNewDrop
  <2>1. Open(chains[e]) /\ chains'[e] = WithDrop(chains[e])
    BY <1>1, <1>6 DEF AppendNewDrop, Edit, Inv, EditOK
  <2> QED BY <1>4, <2>1 DEF Drops
<1>7. ASSUME NEW r \in Accepts, InsertAccept(r)
      PROVE  Orderly(chains'[e]) /\ EndsIn(chains'[e], d)
  <2>1. chains'[e] = WithAccept(chains[e], r) /\ it.pc = "insert" /\ r \in it.new
    BY <1>1, <1>7 DEF InsertAccept, Edit
  <2>2. r \in Plain => r \notin AcceptsOf(chains[e])
    BY <2>1 DEF Inv, EditOK, Balanced
  <2> QED BY <1>1, <1>2, <2>1, <2>2, AcceptInserted
<1>8. ASSUME NEW r \in Accepts, DeleteAccept(r)
      PROVE  Orderly(chains'[e]) /\ EndsIn(chains'[e], d)
  <2>1. chains'[e] = Without(chains[e], r)
    BY <1>1, <1>8 DEF DeleteAccept, Edit
  <2>2. d # r
    BY AcceptsAssumption
  <2> QED BY <1>1, <1>2, <2>1, <2>2, RuleDeleted
<1> QED BY <1>5, <1>6, <1>7, <1>8

\* A chain that denies is never opened before it is flushed as stale, but for
\* the exchange of a DROP of another form.
THEOREM StaysClosed == Spec => ClosedStaysClosed
<1> DEFINE Keeps == \A c \in Chains :
                      Exists(c) /\ Closed(c) =>
                        \/ Exists(c)' /\ Closed(c)'
                        \/ it.pc = "insert" /\ it.chain = c /\ it.drop = OtherDrop
                        \/ it.pc = "stale" /\ c \notin DOMAIN it.goal
<1>1. ASSUME Inv, Inv', [Next]_vars PROVE Keeps
  <2> SUFFICES ASSUME NEW c \in Chains, Exists(c), Closed(c),
                      ~(it.pc = "insert" /\ it.chain = c /\ it.drop = OtherDrop),
                      ~(it.pc = "stale" /\ c \notin DOMAIN it.goal)
               PROVE  Exists(c)' /\ Closed(c)'
    OBVIOUS
  <2>1. CASE chains'[c] = chains[c]
    BY <2>1 DEF Exists, Closed
  <2>2. chains \in [Chains -> Seq(Rules) \cup {NoChain}] /\ it \in Passes
    BY <1>1 DEF Inv, Shape
  <2>3. CASE AppendDrop \/ AppendNewDrop \/ \E r \in Accepts : InsertAccept(r) \/ DeleteAccept(r)
    <3>1. it.pc \in Editing /\ \A d \in Chains \ {it.chain} : chains'[d] = chains[d]
      BY <2>2, <2>3 DEF AppendDrop, AppendNewDrop, InsertAccept, DeleteAccept, Edit, Editing, kernel
    <3>2. CASE c = it.chain
      BY <1>1, <2>3, <3>1, <3>2, EditKeepsClosed
    <3> QED BY <2>1, <3>1, <3>2
  <2>4. CASE DeleteOtherDrop
    BY <2>1, <2>2, <2>4 DEF DeleteOtherDrop, Edit
  <2>5. ASSUME NEW d \in Chains, CreateChain(d) PROVE chains'[c] = chains[c]
    <3>1. ~Exists(d)
      <4>1. it.pc = "chains" /\ it.chain = NoChain /\ d \in it.todo /\ d \notin it.managed
        BY <2>5 DEF CreateChain
      <4> QED BY <1>1, <4>1, NullAssumption DEF Inv, FillOK
    <3> QED BY <2>2, <2>5, <3>1 DEF CreateChain
  <2>6. ASSUME NEW d \in Chains, FlushStale(d) PROVE chains'[c] = chains[c]
    <3>1. it.pc = "stale" /\ d \notin DOMAIN it.goal
      BY <1>1, <2>6 DEF FlushStale, Inv, RemoveOK
    <3> QED BY <2>2, <2>6, <3>1 DEF FlushStale
  <2>7. CASE DeleteChain
    <3>1. chains[it.chain] = <<>>
      BY <1>1, <2>7 DEF DeleteChain, Inv, RemoveOK
    <3>2. c # it.chain
      BY <3>1 DEF Closed
    <3> QED BY <2>1, <2>2, <2>7, <3>2 DEF DeleteChain
  <2>8. \/ Begin \/ \E d \in Chains : ReadChain(d) \/ AddForward(d)
        \/ ChainDone \/ ForwardDone \/ RemoveForwardRefs \/ Finish
        \/ ChangeData \/ Reconfigure \/ Raise \/ RemovalFails \/ UNCHANGED vars
        => chains' = chains
    BY DEF Begin, ReadChain, AddForward, ChainDone, ForwardDone, RemoveForwardRefs, Finish,
           ChangeData, Reconfigure, Raise, RemovalFails, vars, kernel
  <2> QED BY <1>1, <2>1, <2>3, <2>4, <2>5, <2>6, <2>7, <2>8 DEF Next, Agent, Environment
<1>2. Inv /\ Inv' /\ [Next]_vars => [Keeps]_vars
  BY <1>1
<1> QED BY <1>2, Invariance, PTL DEF Spec, ClosedStaysClosed

\* FORWARD starts to jump to a chain only when the chain is complete.
THEOREM JumpsToFilled == Spec => JumpOnlyWhenFilled
<1> DEFINE Filled == \A c \in forward' \ forward :
                       /\ AsWanted(AcceptsOf(chains[c]), it.goal[c])
                       /\ Closed(c)
<1>1. ASSUME Inv, [Next]_vars PROVE Filled
  <2>1. CASE forward' \subseteq forward
    BY <2>1
  <2>2. ASSUME NEW c \in Chains, AddForward(c) PROVE Filled
    <3>1. forward' = forward \cup {c}
      BY <2>2 DEF AddForward
    <3>2. AsWanted(AcceptsOf(chains[c]), it.goal[c]) /\ EndsIn(chains[c], Drop)
      BY <1>1, <2>2 DEF AddForward, Inv, FillOK
    <3>3. Closed(c)
      BY <3>2, LastOfChain DEF Closed, Drops
    <3> QED BY <3>1, <3>2, <3>3
  <2>3. \/ Begin \/ \E c \in Chains : ReadChain(c) \/ CreateChain(c) \/ FlushStale(c)
        \/ AppendDrop \/ DeleteOtherDrop \/ AppendNewDrop \/ ChainDone
        \/ \E r \in Accepts : InsertAccept(r) \/ DeleteAccept(r)
        \/ ForwardDone \/ RemoveForwardRefs \/ DeleteChain \/ Finish
        \/ ChangeData \/ Reconfigure \/ Raise \/ RemovalFails \/ UNCHANGED vars
        => forward' \subseteq forward
    BY DEF Begin, ReadChain, CreateChain, FlushStale, AppendDrop, DeleteOtherDrop, AppendNewDrop,
           ChainDone, InsertAccept, DeleteAccept, Edit, ForwardDone, RemoveForwardRefs,
           RefsAfterRemoval, DeleteChain, Finish, ChangeData, Reconfigure, Raise, RemovalFails,
           vars, kernel
  <2> HIDE DEF Filled
  <2> QED BY <1>1, <2>1, <2>2, <2>3 DEF Next, Agent, Environment
<1>2. Inv /\ [Next]_vars => [Filled]_vars
  BY <1>1
<1> QED BY <1>2, Invariance, PTL DEF Spec, JumpOnlyWhenFilled
-----------------------------------------------------------------------------
(* What is there when the agent rests.                                     *)

\* The chains of a goal are complete: their ACCEPTs, the agent's DROP, the jump.
Installed(goal) ==
  \A c \in DOMAIN goal :
    Exists(c) /\ AsWanted(AcceptsOf(chains[c]), goal[c]) /\ EndsIn(chains[c], Drop) /\ c \in forward

Removing == {"stale", "unref", "delete"}

\* While no change is due the pass works towards what the database says.
AimOK == ~due => IF it.pc = "idle" THEN Installed(wanted) ELSE it.goal = wanted

\* Only filled and referred to are the desired chains left behind.
DoneOK == it.pc \in Removing => Installed(it.goal)

\* What may exist beside the desired chains, as long as nothing failed.
LeftOK ==
  budget.failures = MaxFailures =>
    \A c \in Chains : Exists(c) =>
      /\ it.pc \in Editing \cup {"chains"} => c \in it.managed \cup DOMAIN it.goal
      /\ it.pc \in Removing =>
           c \in it.todo \cup DOMAIN it.goal \/ (it.pc # "stale" /\ c = it.chain)
      /\ it.pc = "idle" /\ ~due => c \in Configured

BudgetOK == budget \in [changes : Nat, failures : 0..MaxFailures]

Settles == AimOK /\ DoneOK /\ LeftOK /\ BudgetOK

\* Everything is still due.
LEMMA InitSettles == Init => Settles
BY BoundAssumption
DEF Init, AtRest, Settles, AimOK, DoneOK, LeftOK, BudgetOK, Removing, Editing

\* Changes, failing commands and crashes make a pass due.
LEMMA DueSettles ==
  ASSUME Settles, ChangeData \/ Reconfigure \/ Raise
  PROVE  Settles'
<1>1. /\ due' = TRUE /\ UNCHANGED <<chains, forward>>
      /\ it' = AtRest \/ (ChangeData /\ it' = it)
  BY DEF ChangeData, Reconfigure, Raise, kernel
<1>2. BudgetOK' /\ (budget'.failures = MaxFailures => budget.failures = MaxFailures)
  <2>1. budget.changes \in Nat /\ budget.failures \in 0..MaxFailures /\ MaxFailures \in Nat
    BY BoundAssumption DEF Settles, BudgetOK
  <2>2. CASE Raise
    <3>1. budget' = [budget EXCEPT !.failures = @ - 1] /\ budget.failures > 0
      BY <2>2 DEF Raise, Spend
    <3> QED BY <2>1, <3>1 DEF Settles, BudgetOK
  <2>3. CASE ChangeData \/ Reconfigure
    <3>1. budget' = [budget EXCEPT !.changes = @ - 1] /\ budget.changes > 0
      BY <2>3 DEF ChangeData, Reconfigure, Spend
    <3> QED BY <2>1, <3>1 DEF Settles, BudgetOK
  <2> QED BY <2>2, <2>3
<1>3. AimOK'
  BY <1>1 DEF AimOK
<1>4. DoneOK' /\ LeftOK'
  BY <1>1, <1>2 DEF Settles, DoneOK, LeftOK, AtRest, Installed, Exists, Removing, Editing
<1> QED BY <1>2, <1>3, <1>4 DEF Settles

\* A pass begins with what the database says and what iptables-save lists.
LEMMA BeginSettles ==
  ASSUME Settles, Begin
  PROVE  Settles'
<1>1. /\ it'.pc = "chains" /\ it'.goal = wanted
      /\ it'.managed = {c \in Chains : Exists(c)}
      /\ UNCHANGED <<chains, wanted, budget>>
  BY DEF Begin, AtRest, kernel
<1> QED BY <1>1 DEF Settles, AimOK, DoneOK, LeftOK, BudgetOK, Removing, Editing, Exists

\* Filling the chains creates none but desired ones.
LEMMA FillSettles ==
  ASSUME Settles,
         it.pc \in Editing \cup {"chains"}, it'.pc \in Editing \cup {"chains"},
         it'.goal = it.goal, it'.managed = it.managed,
         UNCHANGED <<wanted, due, budget>>,
         \A c \in Chains : Exists(c)' => Exists(c) \/ c \in DOMAIN it.goal
  PROVE  Settles'
<1>1. it.pc \notin Removing \cup {"idle"} /\ it'.pc \notin Removing \cup {"idle"}
  BY DEF Editing, Removing
<1> QED BY <1>1 DEF Settles, AimOK, DoneOK, LeftOK, BudgetOK

\* Every command that fills a chain or adds a jump is of that kind.
LEMMA FillStep ==
  ASSUME Inv, Settles,
         \/ \E c \in Chains : CreateChain(c) \/ ReadChain(c) \/ AddForward(c)
         \/ AppendDrop \/ DeleteOtherDrop \/ AppendNewDrop \/ ChainDone
         \/ \E r \in Accepts : InsertAccept(r) \/ DeleteAccept(r)
  PROVE  Settles'
<1>1. it \in Passes /\ chains \in [Chains -> Seq(Rules) \cup {NoChain}]
  BY DEF Inv, Shape
<1>2. CASE \E c \in Chains : CreateChain(c)
  <2>1. PICK c \in Chains : CreateChain(c)
    BY <1>2
  <2>2. c \in DOMAIN it.goal
    BY <2>1 DEF CreateChain, Inv, FillOK
  <2>3. /\ it.pc = "chains" /\ it'.pc = "chains"
        /\ it'.goal = it.goal /\ it'.managed = it.managed
        /\ UNCHANGED <<wanted, due, budget>>
        /\ \A d \in Chains \ {c} : chains'[d] = chains[d]
    BY <1>1, <2>1 DEF CreateChain, Passes
  <2> QED BY <2>2, <2>3, FillSettles DEF Exists
<1>3. CASE ChainDone \/ \E c \in Chains : ReadChain(c) \/ AddForward(c)
  <2>1. /\ it.pc \in Editing \cup {"chains"} /\ it'.pc \in Editing \cup {"chains"}
        /\ it'.goal = it.goal /\ it'.managed = it.managed
        /\ UNCHANGED <<wanted, due, budget, chains>>
    <3>1. CASE \E c \in Chains : ReadChain(c)
      <4>1. PICK c \in Chains : ReadChain(c)
        BY <3>1
      <4>2. \/ it' = [it EXCEPT !.todo = @ \ {c}, !.chain = NoChain]
            \/ \E new, old, drop :
                 it' = [it EXCEPT !.pc = "drop", !.chain = c, !.drop = drop,
                                  !.new = new, !.old = old]
        BY <4>1 DEF ReadChain
      <4>3. it.pc = "chains" /\ UNCHANGED <<wanted, due, budget, chains>>
        BY <4>1 DEF ReadChain, kernel
      <4> QED BY <1>1, <4>2, <4>3 DEF Passes, Editing
    <3>2. CASE ChainDone \/ \E c \in Chains : AddForward(c)
      BY <1>1, <3>2 DEF ChainDone, AddForward, Passes, Editing, kernel
    <3> QED BY <1>3, <3>1, <3>2
  <2> QED BY <2>1, FillSettles DEF Exists
<1>4. CASE \/ AppendDrop \/ DeleteOtherDrop \/ AppendNewDrop
           \/ \E r \in Accepts : InsertAccept(r) \/ DeleteAccept(r)
  <2>1. /\ it.pc \in Editing /\ it'.pc \in Editing \cup {"chains"}
        /\ it'.goal = it.goal /\ it'.managed = it.managed
        /\ UNCHANGED <<wanted, due, budget>>
    BY <1>1, <1>4 DEF AppendDrop, DeleteOtherDrop, AppendNewDrop, InsertAccept, DeleteAccept,
                      Edit, Become, Passes, Editing, kernel
  <2>2. it.chain \in DOMAIN it.goal
    BY <2>1 DEF Inv, EditOK, FillOK
  <2>3. \A d \in Chains \ {it.chain} : chains'[d] = chains[d]
    BY <1>1, <1>4 DEF AppendDrop, DeleteOtherDrop, AppendNewDrop, InsertAccept, DeleteAccept,
                      Edit, kernel
  <2> QED BY <2>1, <2>2, <2>3, FillSettles DEF Exists
<1> QED BY <1>2, <1>3, <1>4

\* All desired chains are filled and referred to; the other listed ones are to go.
LEMMA ForwardDoneSettles ==
  ASSUME Inv, Settles, ForwardDone
  PROVE  Settles'
<1>1. /\ it.pc = "chains" /\ it'.pc = "stale" /\ it'.goal = it.goal
      /\ it'.todo = it.managed \ DOMAIN it.goal
      /\ DOMAIN it.goal \subseteq forward /\ it.todo = {}
      /\ UNCHANGED <<chains, forward, wanted, due, budget>>
  BY DEF ForwardDone, StaleChains, Inv, Shape, Passes, kernel
<1>2. Installed(it.goal)
  BY <1>1 DEF Inv, FillOK, Installed
<1>3. DoneOK'
  BY <1>1, <1>2 DEF DoneOK, Installed, Exists
<1>4. AimOK' /\ LeftOK' /\ BudgetOK'
  BY <1>1 DEF Settles, AimOK, LeftOK, BudgetOK, Removing, Editing, Exists
<1> QED BY <1>3, <1>4 DEF Settles

\* Removing stale chains touches no desired one.
LEMMA RemoveStep ==
  ASSUME Inv, Settles,
         RemoveForwardRefs \/ DeleteChain \/ RemovalFails \/ \E c \in Chains : FlushStale(c)
  PROVE  Settles'
<1>1. /\ it.pc \in Removing /\ it'.pc \in Removing /\ it'.goal = it.goal
      /\ UNCHANGED <<wanted, due>>
  BY DEF RemoveForwardRefs, DeleteChain, RemovalFails, FlushStale, Become, Removing,
         Inv, Shape, Passes, kernel
<1>2. /\ it \in Passes /\ chains \in [Chains -> Seq(Rules) \cup {NoChain}]
      /\ DOMAIN it.goal \subseteq Chains /\ it.todo \cap DOMAIN it.goal = {}
      /\ it.pc \in {"unref", "delete"} => it.chain \in Chains \ DOMAIN it.goal
  BY <1>1, GoalFacts DEF Inv, Shape, Passes, RemoveOK, Removing
<1>3. \A c \in DOMAIN it.goal :
        chains'[c] = chains[c] /\ (c \in forward' <=> c \in forward)
  BY <1>2 DEF RemoveForwardRefs, RefsAfterRemoval, DeleteChain, RemovalFails, FlushStale, kernel
<1>4. AimOK' /\ DoneOK'
  BY <1>1, <1>3 DEF Settles, AimOK, DoneOK, Installed, Exists, Removing
<1>5. BudgetOK' /\ (budget'.failures = MaxFailures => ~RemovalFails /\ budget' = budget)
  <2>1. budget.failures \in 0..MaxFailures /\ MaxFailures \in Nat
    BY BoundAssumption DEF Settles, BudgetOK
  <2>2. CASE RemovalFails
    <3>1. budget' = [budget EXCEPT !.failures = @ - 1] /\ budget.failures > 0
      BY <2>2 DEF RemovalFails, Spend
    <3> QED BY <2>1, <3>1 DEF Settles, BudgetOK
  <2>3. CASE ~RemovalFails
    BY <2>3 DEF Settles, BudgetOK, RemoveForwardRefs, DeleteChain, FlushStale
  <2> QED BY <2>2, <2>3
<1>6. SUFFICES ASSUME budget.failures = MaxFailures, ~RemovalFails, NEW c \in Chains, Exists(c)'
               PROVE  c \in it'.todo \cup DOMAIN it.goal \/ (it'.pc # "stale" /\ c = it'.chain)
  <2>1. it'.pc \notin Editing \cup {"chains", "idle"}
    BY <1>1 DEF Removing, Editing
  <2> QED BY <1>1, <1>4, <1>5, <2>1 DEF Settles, LeftOK
<1>7. Exists(c) => c \in it.todo \cup DOMAIN it.goal \/ (it.pc # "stale" /\ c = it.chain)
  BY <1>1, <1>6 DEF Settles, LeftOK
<1>8. CASE \E d \in Chains : FlushStale(d)
  <2>1. PICK d \in Chains : FlushStale(d)
    BY <1>8
  <2>2. /\ it.pc = "stale" /\ it'.pc = "unref" /\ it'.chain = d /\ it'.todo = it.todo \ {d}
        /\ c # d => chains'[c] = chains[c]
    BY <1>2, <2>1 DEF FlushStale, Passes
  <2> QED BY <1>6, <1>7, <2>2 DEF Exists
<1>9. CASE RemoveForwardRefs
  <2>1. /\ it'.pc = "delete" /\ it'.chain = it.chain /\ it'.todo = it.todo
        /\ chains' = chains
    BY <1>2, <1>9 DEF RemoveForwardRefs, Become, Passes
  <2> QED BY <1>6, <1>7, <2>1 DEF Exists
<1>10. CASE DeleteChain
  <2>1. it'.todo = it.todo /\ chains' = [chains EXCEPT ![it.chain] = NoChain]
    BY <1>2, <1>10 DEF DeleteChain, Passes
  <2>2. c # it.chain
    BY <1>2, <1>6, <2>1 DEF Exists
  <2> QED BY <1>2, <1>6, <1>7, <2>1, <2>2 DEF Exists
<1> QED BY <1>6, <1>8, <1>9, <1>10

\* The pass ends when no stale chain is left to try.
LEMMA FinishSettles ==
  ASSUME Inv, Settles, Finish
  PROVE  Settles'
<1>1. /\ it.pc = "stale" /\ it.todo = {} /\ it' = AtRest
      /\ UNCHANGED <<chains, forward, wanted, due, budget>>
  BY DEF Finish, kernel
<1>2. Installed(it.goal)
  BY <1>1 DEF Settles, DoneOK, Removing
<1>3. AimOK' /\ DoneOK' /\ BudgetOK'
  BY <1>1, <1>2 DEF Settles, AimOK, DoneOK, BudgetOK, AtRest, Installed, Exists, Removing
<1>4. LeftOK'
  BY <1>1 DEF Settles, AimOK, LeftOK, AtRest, Exists, Removing, Editing, Configured
<1> QED BY <1>3, <1>4 DEF Settles

\* At rest with no change due, the configured chains are as the database wants
\* them, and without failures there are no others.
THEOREM SettlesRight == Spec => []SettledChains
<1>1. Inv /\ Settles /\ [Next]_vars => Settles'
  <2> SUFFICES ASSUME Inv, Settles, [Next]_vars PROVE Settles'
    OBVIOUS
  <2>1. CASE UNCHANGED vars
    BY <2>1 DEF vars, kernel, Settles, AimOK, DoneOK, LeftOK, BudgetOK, Installed, Exists,
                Configured
  <2> QED BY <2>1, DueSettles, BeginSettles, FillStep, ForwardDoneSettles, RemoveStep,
             FinishSettles DEF Next, Agent, Environment
<1>2. Inv /\ Settles => SettledChains
  BY LastOfChain DEF Settles, AimOK, LeftOK, Installed, SettledChains, Configured
<1> QED BY <1>1, <1>2, InitSettles, Invariance, PTL DEF Spec
-----------------------------------------------------------------------------
(* A pass ends.                                                            *)

\* All that is counted is finite.
LEMMA Counts ==
  ASSUME Inv
  PROVE  /\ IsFiniteSet(it.todo) /\ Cardinality(it.todo) \in Nat
         /\ Cardinality(it.todo \ {it.chain}) \in Nat
         /\ Cardinality(it.new) \in Nat /\ Cardinality(it.new) <= Cardinality(Accepts)
         /\ Cardinality(it.old) \in Nat /\ Cardinality(it.old) <= Cardinality(Accepts)
         /\ IsFiniteSet(it.new) /\ IsFiniteSet(it.old)
         /\ IsFiniteSet(DOMAIN it.goal \ forward)
         /\ Cardinality(DOMAIN it.goal \ forward) \in Nat
         /\ Cardinality(StaleChains) \in Nat
         /\ Cardinality(Accepts) \in Nat /\ Cardinality(Chains) \in Nat
<1>1. /\ it.todo \in SUBSET Chains /\ it.todo \ {it.chain} \in SUBSET Chains
      /\ it.new \in SUBSET Accepts /\ it.old \in SUBSET Accepts
      /\ DOMAIN it.goal \ forward \in SUBSET Chains /\ StaleChains \in SUBSET Chains
  BY GoalFacts, TextFacts DEF Inv, Shape, Passes, StaleChains
<1>2. ASSUME NEW S, IsFiniteSet(S), NEW T \in SUBSET S
      PROVE  /\ IsFiniteSet(T) /\ Cardinality(T) \in Nat /\ Cardinality(S) \in Nat
             /\ Cardinality(T) <= Cardinality(S)
  BY <1>2, FS_Subset, FS_CardinalityType
<1> QED BY <1>1, <1>2, FiniteAssumption

\* What is left of a chain in hand.
LEMMA HandBounds ==
  ASSUME Inv
  PROVE  /\ PerChain \in Nat /\ PerChain > 5
         /\ it.pc \in Editing \cup {"chains"} => InHand \in Nat
         /\ it.pc \in Editing => InHand < PerChain - 1 /\ InHand > 1
<1> DEFINE k == Cardinality(Accepts)
           n == Cardinality(it.new)
           o == Cardinality(it.old)
<1>1. k \in Nat /\ n \in Nat /\ o \in Nat /\ n <= k /\ o <= k
  BY Counts
<1>2. PerChain = k + k + 6
  BY DEF PerChain
<1>3. it.pc = "chains" => InHand \in {0, PerChain - 1}
  BY DEF InHand
<1>4. it.pc \in Editing => InHand \in {n + o + 4, n + o + 3, n + o + 2} /\ it.pc # "chains"
  BY DEF InHand, Editing
<1> HIDE DEF k, n, o
<1> QED BY <1>1, <1>2, <1>3, <1>4

\* Removing has a number of steps left, at least the one that ends the pass.
LEMMA RemoveBounds ==
  ASSUME Inv
  PROVE  ToRemove \in Nat /\ ToRemove > 0
<1>1. Cardinality(it.todo) \in Nat
  BY Counts
<1> QED BY <1>1 DEF ToRemove

\* So has filling.
LEMMA FillBounds ==
  ASSUME Inv, it.pc \in Editing \cup {"chains"}
  PROVE  ToFill \in Nat /\ ToRefer \in Nat /\ ToRefer > 1
<1>1. Cardinality(it.todo \ {it.chain}) \in Nat /\ PerChain \in Nat /\ InHand \in Nat
  BY Counts, HandBounds
<1>2. Cardinality(it.todo \ {it.chain}) * PerChain \in Nat
  BY <1>1, Product
<1>3. ToFill \in Nat
  BY <1>1, <1>2 DEF ToFill
<1>4. ToRefer \in Nat /\ ToRefer > 1
  BY Counts DEF ToRefer
<1> QED BY <1>3, <1>4

\* What StepsLeft counts where.
Tally ==
  /\ it.pc = "idle" => StepsLeft = 0
  /\ it.pc \in Removing => StepsLeft = ToRemove /\ ToRemove \in Nat
  /\ it.pc \in Editing \cup {"chains"} =>
       StepsLeft = ToFill + ToRefer /\ ToFill \in Nat /\ ToRefer \in Nat
  /\ it.pc # "idle" => StepsLeft > 0
  /\ StepsLeft \in Nat

LEMMA Tallies == Inv => Tally
<1> SUFFICES ASSUME Inv PROVE Tally
  OBVIOUS
<1>1. it.pc \in {"idle"} \cup Removing \cup Editing \cup {"chains"}
  BY DEF Inv, Shape, Passes, Pcs, Removing, Editing
<1>2. /\ it.pc = "idle" => StepsLeft = 0
      /\ it.pc \in Removing => StepsLeft = ToRemove
      /\ it.pc \in Editing \cup {"chains"} => StepsLeft = ToFill + ToRefer
  BY DEF StepsLeft, Removing, Editing
<1> QED BY <1>1, <1>2, RemoveBounds, FillBounds DEF Tally

\* A step that fills chains takes from what is to be filled alone.
LEMMA FillLess ==
  ASSUME Inv, Inv', it.pc \in Editing \cup {"chains"}, it'.pc \in Editing \cup {"chains"},
         it'.goal = it.goal, it'.managed = it.managed, forward' = forward, ToFill' < ToFill
  PROVE  StepsLeft' < StepsLeft
<1>1. ToRefer' = ToRefer
  BY DEF ToRefer, StaleChains
<1>2. Tally /\ Tally'
  BY Tallies, PTL
<1> QED BY <1>1, <1>2 DEF Tally

\* -N: what remains of the chain is one step less.
LEMMA CreateLess ==
  ASSUME Inv, Inv', NEW c \in Chains, CreateChain(c)
  PROVE  StepsLeft' < StepsLeft
<1>1. /\ it.pc = "chains" /\ it.chain = NoChain /\ c \in it.todo /\ c # NoChain
      /\ it' = [it EXCEPT !.chain = c] /\ forward' = forward
      /\ it \in Passes /\ NoChain \notin it.todo
  BY NullAssumption DEF CreateChain, Inv, Shape, Passes
<1>2. /\ it'.pc = "chains" /\ it'.chain = c /\ it'.todo = it.todo
      /\ it'.goal = it.goal /\ it'.managed = it.managed
  BY <1>1 DEF Passes
<1> DEFINE n == Cardinality(it.todo \ {c})
<1>3. it.todo \ {it.chain} = it.todo
  BY <1>1
<1>4. Cardinality(it.todo) = n + 1 /\ n \in Nat
  BY <1>1, Counts, OneLess
<1>5. InHand = 0 /\ InHand' = PerChain - 1
  BY <1>1, <1>2 DEF InHand, PerChain
<1>6. PerChain' = PerChain /\ PerChain \in Nat
  BY HandBounds DEF PerChain
<1>7. ToFill = (n + 1) * PerChain + 0 /\ ToFill' = n * PerChain + (PerChain - 1)
  BY <1>2, <1>3, <1>4, <1>5, <1>6 DEF ToFill
<1> HIDE DEF n
<1>8. (n + 1) * PerChain = n * PerChain + PerChain /\ n * PerChain \in Nat
  BY <1>4, <1>6, Product
<1>9. ToFill' < ToFill
  BY <1>6, <1>7, <1>8
<1> QED BY <1>1, <1>2, <1>9, FillLess

\* What a chain that leaves the list of those to do was worth.
LEMMA DoneLess ==
  ASSUME Inv, Inv', it.pc \in Editing \cup {"chains"}, NEW c \in it.todo,
         c = it.chain \/ it.chain = NoChain,
         it.chain # NoChain => InHand > 0,
         it' = [it EXCEPT !.pc = "chains", !.todo = @ \ {c}, !.chain = NoChain]
         \/ it' = [it EXCEPT !.pc = "chains", !.todo = @ \ {c}, !.chain = NoChain,
                            !.drop = "none"],
         forward' = forward
  PROVE  StepsLeft' < StepsLeft
<1>1. it \in Passes /\ NoChain \notin it.todo
  BY NullAssumption DEF Inv, Shape, Passes
<1>2. /\ it'.pc = "chains" /\ it'.chain = NoChain /\ it'.todo = it.todo \ {c}
      /\ it'.goal = it.goal /\ it'.managed = it.managed
  BY <1>1 DEF Passes
<1> DEFINE n == Cardinality(it.todo \ {c})
<1>3. it'.todo \ {it'.chain} = it.todo \ {c}
  BY <1>1, <1>2
<1>4. Cardinality(it.todo) = n + 1 /\ n \in Nat
  BY Counts, OneLess
<1>5. InHand' = 0 /\ InHand \in Nat /\ PerChain' = PerChain /\ PerChain \in Nat /\ PerChain > 5
  BY <1>2, HandBounds DEF InHand, PerChain
<1>6. ToFill' = n * PerChain + 0
  BY <1>3, <1>5 DEF ToFill
<1>7. it.chain # NoChain => ToFill = n * PerChain + InHand /\ InHand > 0
  BY DEF ToFill
<1>8. it.chain = NoChain => ToFill = (n + 1) * PerChain + InHand
  <2>1. it.chain = NoChain => it.todo \ {it.chain} = it.todo
    BY <1>1
  <2> QED BY <1>4, <2>1 DEF ToFill
<1> HIDE DEF n
<1>9. (n + 1) * PerChain = n * PerChain + PerChain /\ n * PerChain \in Nat
  BY <1>4, <1>5, Product
<1>10. ToFill' < ToFill
  BY <1>5, <1>6, <1>7, <1>8, <1>9
<1>11. it'.pc \in Editing \cup {"chains"}
  BY <1>2
<1> QED BY <1>2, <1>10, <1>11, FillLess

\* What a chain in hand may be worth, as a formula of one state.
HandRight == it.pc \in Editing => InHand \in Nat /\ InHand < PerChain - 1

LEMMA HandsRight == Inv => HandRight
BY HandBounds DEF HandRight

\* An edit of the chain in hand: less of it is left.
LEMMA HandLess ==
  ASSUME Inv, Inv', it.pc \in Editing, it'.pc \in Editing,
         it'.goal = it.goal, it'.managed = it.managed, forward' = forward,
         it'.todo = it.todo, it'.chain = it.chain, InHand' < InHand
  PROVE  StepsLeft' < StepsLeft
<1> DEFINE rest == Cardinality(it.todo \ {it.chain}) * PerChain
<1>1. rest \in Nat
  BY Counts, HandBounds, Product
<1>2. ToFill = rest + InHand /\ ToFill' = rest + InHand'
  BY DEF ToFill, PerChain
<1> HIDE DEF rest
<1>3. InHand \in Nat /\ InHand' \in Nat
  <2>1. HandRight /\ HandRight'
    BY HandsRight, PTL
  <2> QED BY <2>1 DEF HandRight
<1>4. ToFill' < ToFill
  BY <1>1, <1>2, <1>3
<1> QED BY <1>4, FillLess

\* -S: a chain as desired is done; of another less is left than was set aside.
LEMMA ReadLess ==
  ASSUME Inv, Inv', NEW c \in Chains, ReadChain(c)
  PROVE  StepsLeft' < StepsLeft
<1>1. /\ it.pc = "chains" /\ c \in it.todo /\ it.chain \in {c, NoChain}
      /\ forward' = forward /\ c # NoChain /\ it \in Passes /\ NoChain \notin it.todo
  BY NullAssumption DEF ReadChain, kernel, Inv, Shape, Passes
<1>2. InHand = IF it.chain = NoChain THEN 0 ELSE PerChain - 1
  BY <1>1 DEF InHand
<1>3. CASE it' = [it EXCEPT !.todo = @ \ {c}, !.chain = NoChain]
  <2>1. it' = [it EXCEPT !.pc = "chains", !.todo = @ \ {c}, !.chain = NoChain]
    BY <1>1, <1>3 DEF Passes
  <2>2. it.chain # NoChain => InHand > 0
    BY <1>2, HandBounds
  <2> QED BY <1>1, <2>1, <2>2, DoneLess
<1>4. CASE \E new, old, drop :
             it' = [it EXCEPT !.pc = "drop", !.chain = c, !.drop = drop, !.new = new, !.old = old]
  <2>1. /\ it'.pc = "drop" /\ it'.chain = c /\ it'.todo = it.todo
        /\ it'.goal = it.goal /\ it'.managed = it.managed
    BY <1>1, <1>4 DEF Passes
  <2>2. InHand' \in Nat /\ InHand' < PerChain - 1
    <3>1. HandRight'
      BY HandsRight, PTL
    <3> QED BY <2>1, <3>1 DEF HandRight, Editing, PerChain
  <2> DEFINE n == Cardinality(it.todo \ {c})
  <2>3. Cardinality(it.todo) = n + 1 /\ n \in Nat
    BY <1>1, Counts, OneLess
  <2>4. PerChain \in Nat /\ PerChain > 5
    BY HandBounds
  <2>5. ToFill' = n * PerChain + InHand'
    BY <2>1 DEF ToFill, PerChain
  <2>6. it.chain = c => ToFill = n * PerChain + (PerChain - 1)
    BY <1>1, <1>2 DEF ToFill
  <2>7. it.chain = NoChain => ToFill = (n + 1) * PerChain + 0
    <3>1. it.chain = NoChain => it.todo \ {it.chain} = it.todo
      BY <1>1
    <3> QED BY <1>2, <2>3, <3>1 DEF ToFill
  <2> HIDE DEF n
  <2>8. (n + 1) * PerChain = n * PerChain + PerChain /\ n * PerChain \in Nat
    BY <2>3, <2>4, Product
  <2>9. ToFill' < ToFill
    BY <1>1, <2>2, <2>4, <2>5, <2>6, <2>7, <2>8
  <2>10. it'.pc \in Editing
    BY <2>1 DEF Editing
  <2> QED BY <1>1, <2>1, <2>9, <2>10, FillLess
<1>5. \/ it' = [it EXCEPT !.todo = @ \ {c}, !.chain = NoChain]
      \/ \E new, old, drop :
           it' = [it EXCEPT !.pc = "drop", !.chain = c, !.drop = drop, !.new = new, !.old = old]
  BY DEF ReadChain
<1> QED BY <1>3, <1>4, <1>5

\* -A, -I, -D: one less to insert or to delete, or a later stage.
LEMMA EditLess ==
  ASSUME Inv, Inv',
         AppendDrop \/ DeleteOtherDrop \/ \E r \in Accepts : InsertAccept(r) \/ DeleteAccept(r)
  PROVE  StepsLeft' < StepsLeft
<1>1. /\ it \in Passes /\ it.pc \in Editing /\ it'.pc \in Editing
      /\ it'.goal = it.goal /\ it'.managed = it.managed /\ forward' = forward
      /\ it'.todo = it.todo /\ it'.chain = it.chain
  BY DEF AppendDrop, DeleteOtherDrop, InsertAccept, DeleteAccept, Edit, Become, kernel,
         Inv, Shape, Passes, Editing
<1> DEFINE n == Cardinality(it.new)
           o == Cardinality(it.old)
<1>2. n \in Nat /\ o \in Nat
  BY Counts
<1>3. CASE AppendDrop
  <2>1. it.pc = "drop" /\ it'.pc = "insert" /\ it'.new = it.new /\ it'.old = it.old
    BY <1>1, <1>3 DEF AppendDrop, Become, Passes
  <2>2. InHand = n + o + 4 /\ InHand' = n + o + 3
    BY <2>1 DEF InHand
  <2> QED BY <1>1, <1>2, <2>2, HandLess
<1>4. CASE DeleteOtherDrop
  <2>1. it.pc = "insert" /\ it'.pc = "redrop" /\ it'.new = it.new /\ it'.old = it.old
    BY <1>1, <1>4 DEF DeleteOtherDrop, Become, Passes
  <2>2. InHand = n + o + 3 /\ InHand' = n + o + 2
    BY <2>1 DEF InHand
  <2> QED BY <1>1, <1>2, <2>2, HandLess
<1>5. ASSUME NEW r \in Accepts, InsertAccept(r) PROVE StepsLeft' < StepsLeft
  <2>1. /\ it.pc = "insert" /\ it'.pc = "insert" /\ r \in it.new
        /\ it'.new = it.new \ {r} /\ it'.old = it.old
    BY <1>1, <1>5 DEF InsertAccept, Passes
  <2>2. Cardinality(it.new \ {r}) \in Nat /\ n = Cardinality(it.new \ {r}) + 1
    BY <2>1, Counts, OneLess
  <2>3. InHand = n + o + 3 /\ InHand' = Cardinality(it.new \ {r}) + o + 3
    BY <2>1 DEF InHand
  <2>4. InHand' < InHand
    BY <1>2, <2>2, <2>3
  <2> QED BY <1>1, <2>4, HandLess
<1>6. ASSUME NEW r \in Accepts, DeleteAccept(r) PROVE StepsLeft' < StepsLeft
  <2>1. /\ it.pc = "insert" /\ it'.pc = "insert" /\ r \in it.old
        /\ it'.old = it.old \ {r} /\ it'.new = it.new
    BY <1>1, <1>6 DEF DeleteAccept, Passes
  <2>2. Cardinality(it.old \ {r}) \in Nat /\ o = Cardinality(it.old \ {r}) + 1
    BY <2>1, Counts, OneLess
  <2>3. InHand = n + o + 3 /\ InHand' = n + Cardinality(it.old \ {r}) + 3
    BY <2>1 DEF InHand
  <2>4. InHand' < InHand
    BY <1>2, <2>2, <2>3
  <2> QED BY <1>1, <2>4, HandLess
<1> QED BY <1>3, <1>4, <1>5, <1>6
\* The last step for a chain.
LEMMA ChainLess ==
  ASSUME Inv, Inv', AppendNewDrop \/ ChainDone
  PROVE  StepsLeft' < StepsLeft
<1>1. it.pc \in Editing
  BY DEF AppendNewDrop, ChainDone, Editing
<1>2. it.chain \in it.todo /\ InHand > 0
  <2>1. InHand > 1 /\ InHand \in Nat
    BY <1>1, HandBounds
  <2> QED BY <1>1, <2>1 DEF Inv, EditOK
<1>3. /\ forward' = forward
      /\ it' = [it EXCEPT !.pc = "chains", !.todo = @ \ {it.chain}, !.chain = NoChain,
                         !.drop = "none"]
  BY DEF AppendNewDrop, ChainDone, Edit, kernel
<1> QED BY <1>1, <1>2, <1>3, DoneLess

\* A jump less to add.
LEMMA ReferLess ==
  ASSUME Inv, Inv', NEW c \in Chains, AddForward(c)
  PROVE  StepsLeft' < StepsLeft
<1>1. /\ it.pc = "chains" /\ it' = it /\ c \in DOMAIN it.goal \ forward
      /\ DOMAIN it.goal \ forward' = (DOMAIN it.goal \ forward) \ {c}
  BY DEF AddForward
<1> DEFINE n == Cardinality((DOMAIN it.goal \ forward) \ {c})
           s == Cardinality(StaleChains)
<1>2. Cardinality(DOMAIN it.goal \ forward) = n + 1 /\ n \in Nat /\ s \in Nat
  BY <1>1, Counts, OneLess
<1>3. ToRefer = n + 1 + 3 * s + 2
  BY <1>2 DEF ToRefer
<1>4. ToRefer' = n + 3 * s + 2
  BY <1>1 DEF ToRefer, StaleChains
<1>5. ToFill' = ToFill
  BY <1>1 DEF ToFill, InHand, PerChain
<1>6. Tally /\ Tally'
  BY Tallies, PTL
<1> HIDE DEF n, s
<1>7. StepsLeft = ToFill + ToRefer /\ StepsLeft' = ToFill' + ToRefer' /\ ToFill \in Nat
  BY <1>1, <1>6 DEF Tally
<1> QED BY <1>2, <1>3, <1>4, <1>5, <1>7

\* From filling to removing.
LEMMA PhaseLess ==
  ASSUME Inv, Inv', ForwardDone
  PROVE  StepsLeft' < StepsLeft
<1>1. /\ it.pc = "chains" /\ it'.pc = "stale" /\ it'.todo = StaleChains
  BY DEF ForwardDone, Inv, Shape, Passes
<1> DEFINE s == Cardinality(StaleChains)
           n == Cardinality(DOMAIN it.goal \ forward)
<1>2. s \in Nat /\ n \in Nat
  BY Counts
<1>3. ToRefer = n + 3 * s + 2 /\ ToRemove' = 3 * s + 1
  BY <1>1 DEF ToRefer, ToRemove
<1>4. Tally /\ Tally'
  BY Tallies, PTL
<1> HIDE DEF s, n
<1>5. StepsLeft = ToFill + ToRefer /\ StepsLeft' = ToRemove' /\ ToFill \in Nat
  BY <1>1, <1>4 DEF Tally, Removing
<1> QED BY <1>2, <1>3, <1>5

\* -F, -D, -X, or the next stale chain after a failure of one of them.
LEMMA RemoveLess ==
  ASSUME Inv, Inv',
         RemoveForwardRefs \/ DeleteChain \/ RemovalFails \/ \E c \in Chains : FlushStale(c)
  PROVE  StepsLeft' < StepsLeft
<1> DEFINE n == Cardinality(it.todo)
<1>1. it \in Passes /\ n \in Nat /\ Tally /\ Tally'
  <2>1. Tally /\ Tally'
    BY Tallies, PTL
  <2> QED BY <2>1, Counts DEF Inv, Shape
<1>2. SUFFICES it.pc \in Removing /\ it'.pc \in Removing /\ ToRemove' < ToRemove
  BY <1>1 DEF Tally
<1>3. ASSUME NEW c \in it.todo, it.pc = "stale", it'.pc \in {"stale", "unref"},
             it'.todo = it.todo \ {c}
      PROVE  it.pc \in Removing /\ it'.pc \in Removing /\ ToRemove' < ToRemove
  <2> DEFINE m == Cardinality(it.todo \ {c})
  <2>1. n = m + 1 /\ m \in Nat
    BY Counts, OneLess
  <2>2. ToRemove = 3 * n + 1 /\ ToRemove' \in {3 * m + 1, 3 * m + 3}
    BY <1>3 DEF ToRemove
  <2> HIDE DEF n, m
  <2>3. ToRemove' < ToRemove
    BY <2>1, <2>2
  <2> QED BY <1>3, <2>3 DEF Removing
<1>4. ASSUME it'.todo = it.todo,
             \/ it.pc = "unref" /\ it'.pc \in {"delete", "stale"}
             \/ it.pc = "delete" /\ it'.pc = "stale"
      PROVE  it.pc \in Removing /\ it'.pc \in Removing /\ ToRemove' < ToRemove
  <2>1. \/ ToRemove = 3 * n + 3 /\ ToRemove' \in {3 * n + 1, 3 * n + 2}
        \/ ToRemove = 3 * n + 2 /\ ToRemove' = 3 * n + 1
    BY <1>4 DEF ToRemove
  <2> HIDE DEF n
  <2>2. ToRemove' < ToRemove
    BY <1>1, <2>1
  <2> QED BY <1>4, <2>2 DEF Removing
<1>5. CASE \E c \in Chains : FlushStale(c)
  BY <1>1, <1>3, <1>5 DEF FlushStale, Passes
<1>6. CASE RemoveForwardRefs \/ DeleteChain
  BY <1>1, <1>4, <1>6 DEF RemoveForwardRefs, DeleteChain, Become, Passes
<1>7. CASE RemovalFails
  <2>1. CASE \E c \in it.todo : it.pc = "stale" /\ it' = [it EXCEPT !.todo = @ \ {c}]
    BY <1>1, <1>3, <2>1 DEF Passes
  <2>2. CASE /\ it.pc \in {"unref", "delete"}
             /\ it' = [it EXCEPT !.pc = "stale", !.chain = NoChain]
    BY <1>1, <1>4, <2>2 DEF Passes
  <2> QED BY <1>7, <2>1, <2>2 DEF RemovalFails
<1> QED BY <1>5, <1>6, <1>7

\* The snapshot bounds the pass.
LEMMA BeginBounded ==
  ASSUME Inv, Inv', Begin
  PROVE  StepsLeft' <= Cardinality(Chains) * (PerChain + 4) + 2
<1> DEFINE n == Cardinality(Chains)
           t == Cardinality(DOMAIN wanted)
           j == Cardinality(DOMAIN wanted \ forward)
           s == Cardinality({c \in Chains : Exists(c)} \ DOMAIN wanted)
<1>1. /\ it'.pc = "chains" /\ it'.chain = NoChain /\ it'.todo = DOMAIN wanted
      /\ it'.goal = wanted /\ it'.managed = {c \in Chains : Exists(c)}
      /\ forward' = forward
  BY DEF Begin, AtRest, Configured, kernel
<1>2. DOMAIN wanted \subseteq Chains /\ NoChain \notin Chains
  BY GoalFacts, NullAssumption DEF Inv, Shape
<1>3. /\ n \in Nat /\ t \in Nat /\ j \in Nat /\ s \in Nat
      /\ t <= n /\ j <= n /\ s <= n
  <2>1. ASSUME NEW T \in SUBSET Chains PROVE Cardinality(T) \in Nat /\ Cardinality(T) <= n
    BY FS_Subset, FS_CardinalityType, FiniteAssumption
  <2> QED BY <1>2, <2>1, FS_CardinalityType, FiniteAssumption
<1>4. ToFill' = t * PerChain + 0
  <2>1. DOMAIN wanted \ {NoChain} = DOMAIN wanted
    BY <1>2
  <2> QED BY <1>1, <2>1 DEF ToFill, InHand, PerChain
<1>5. ToRefer' = j + 3 * s + 2
  BY <1>1 DEF ToRefer, StaleChains
<1>6. PerChain \in Nat
  BY HandBounds
<1>7. Tally'
  BY Tallies, PTL
<1>8. StepsLeft' = ToFill' + ToRefer'
  BY <1>1, <1>7 DEF Tally
<1> HIDE DEF n, t, j, s
<1>9. t * PerChain <= n * PerChain /\ t * PerChain \in Nat /\ n * PerChain \in Nat
  BY <1>3, <1>6, Product
<1>10. n * (PerChain + 4) = n * PerChain + (n + n + n + n)
  BY <1>3, <1>6
<1>11. StepsLeft' <= n * (PerChain + 4) + 2
  BY <1>3, <1>4, <1>5, <1>8, <1>9, <1>10
<1> QED BY <1>11 DEF n

\* A pass ends after a number of commands that the chains and the ACCEPTs bound,
\* whatever is in the chains, whatever fails, and whatever changes meanwhile.
THEOREM Terminates == Spec => PassEnds
<1> DEFINE Fewer == /\ StepsLeft' \in Nat
                    /\ it.pc # "idle" /\ <<it, forward>>' # <<it, forward>>
                         => StepsLeft' < StepsLeft
                    /\ Begin => StepsLeft' <= Cardinality(Chains) * (PerChain + 4) + 2
<1>1. ASSUME Inv, Inv', [Next]_vars PROVE Fewer
  <2>1. Tally /\ Tally'
    BY <1>1, Tallies, PTL
  <2>2. StepsLeft' \in Nat /\ StepsLeft \in Nat
    BY <2>1 DEF Tally
  <2>3. CASE Begin
    BY <1>1, <2>2, <2>3, BeginBounded DEF Begin
  <2>4. CASE StepsLeft' < StepsLeft /\ ~Begin
    BY <2>2, <2>4
  <2>5. CASE <<it, forward>>' = <<it, forward>> /\ ~Begin
    BY <2>2, <2>5
  <2>6. CASE it.pc = "idle" /\ ~Begin
    BY <2>2, <2>6
  <2>7. ASSUME it' = AtRest, it.pc # "idle" PROVE StepsLeft' < StepsLeft
    <3>1. it'.pc = "idle"
      BY <2>7 DEF AtRest
    <3> QED BY <2>1, <2>7, <3>1 DEF Tally
  <2>8. Finish \/ Raise \/ Reconfigure => it' = AtRest
    BY DEF Finish, Raise, Reconfigure
  <2>9. ChangeData \/ UNCHANGED vars => <<it, forward>>' = <<it, forward>>
    BY DEF ChangeData, vars, kernel
  <2> HIDE DEF Fewer
  <2>10. Agent => StepsLeft' < StepsLeft \/ Begin \/ it' = AtRest
    BY <1>1, <2>8, CreateLess, ReadLess, EditLess, ChainLess, ReferLess, PhaseLess, RemoveLess
    DEF Agent
  <2> QED BY <1>1, <2>3, <2>4, <2>5, <2>6, <2>7, <2>8, <2>9, <2>10, RemoveLess
          DEF Next, Environment
<1>2. Inv /\ Inv' /\ [Next]_vars => [Fewer]_vars
  BY <1>1
<1> QED BY <1>2, Invariance, PTL DEF Spec, PassEnds
=============================================================================
