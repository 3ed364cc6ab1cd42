------------------------- MODULE HostNetwork_proofs -------------------------
(***************************************************************************)
(* What a pass over ipsets and routes keeps true for any services,         *)
(* domains, answers and failures: the cache serves what DNS last said, the *)
(* sets that rules match change only as AtomicSets allows, and a route     *)
(* that stays wanted is never missing.                                     *)
(*                                                                         *)
(* The inductive invariant Inv says what is in the temporary set at every  *)
(* command, so that a swap always brings a complete membership.            *)
(***************************************************************************)
EXTENDS HostNetwork, Induction, TLAPS

-----------------------------------------------------------------------------
(* The cache.                                                              *)

\* Entries of the cache.
Entries == [ips : SUBSET Addresses, wait : Nat, backoff : Nat]

\* The shortest back-off.
FirstBackoff == Smaller(Larger(MinInterval, TtlFloor), BackoffMax)

\* An entry in back-off waits no longer than that, and backs off enough.
Healthy(e) == e.backoff > 0 => e.wait <= e.backoff /\ e.backoff >= FirstBackoff

\* Every entry is healthy and serves the answer heard last.
DnsInv ==
  /\ answer \in [Domains -> Answers]
  /\ DOMAIN cache \subseteq Domains /\ DOMAIN heard = DOMAIN cache
  /\ \A d \in DOMAIN cache : /\ cache[d] \in Entries
                             /\ Healthy(cache[d])
                             /\ cache[d].ips = heard[d]

\* Bounds of the back-off, at least the shortest one.
LEMMA BackoffShape ==
  ASSUME NEW b \in Nat
  PROVE  BackoffAfter(b) \in Nat /\ BackoffAfter(b) >= FirstBackoff
<1>1. /\ MinInterval \in Nat /\ TtlFloor \in Nat /\ BackoffMax \in Nat /\ BackoffFactor \in Nat
  BY DurationAssumption
<1> DEFINE m == b * BackoffFactor
<1>2. m \in Nat
  BY <1>1
<1> HIDE DEF m
<1>3. LET k == Smaller(Larger(m, Larger(MinInterval, TtlFloor)), BackoffMax)
      IN k \in Nat /\ k >= FirstBackoff
  BY <1>1, <1>2 DEF Smaller, Larger, FirstBackoff
<1> QED BY <1>3 DEF BackoffAfter, m

\* Time runs and lookups fail or succeed: an entry stays healthy.
LEMMA EntrySteps ==
  ASSUME NEW e \in Entries, Healthy(e), NEW time \in Nat
  PROVE  /\ Later(e, time) \in Entries /\ Healthy(Later(e, time)) /\ Later(e, time).ips = e.ips
         /\ Failed(e) \in Entries /\ Healthy(Failed(e)) /\ Failed(e).ips = e.ips
         /\ \A ips \in SUBSET Addresses : \A ttl \in Ttls :
              /\ Answered(ips, ttl) \in Entries /\ Healthy(Answered(ips, ttl))
              /\ Answered(ips, ttl).ips = ips
<1>1. e.ips \in SUBSET Addresses /\ e.wait \in Nat /\ e.backoff \in Nat
  BY DEF Entries
<1>2. /\ Later(e, time) \in Entries /\ Healthy(Later(e, time)) /\ Later(e, time).ips = e.ips
  <2>1. Larger(e.wait - time, 0) \in Nat /\ Larger(e.wait - time, 0) <= e.wait
    BY <1>1 DEF Larger
  <2>2. /\ Later(e, time) \in Entries
        /\ Later(e, time).wait = Larger(e.wait - time, 0)
        /\ Later(e, time).backoff = e.backoff
        /\ Later(e, time).ips = e.ips
    BY <2>1 DEF Later, Entries
  <2> HIDE DEF Healthy
  <2>3. Healthy(Later(e, time))
    <3>1. FirstBackoff \in Nat
      BY DurationAssumption DEF FirstBackoff, Smaller, Larger
    <3> QED BY <1>1, <2>1, <2>2, <3>1 DEF Healthy
  <2> QED BY <2>2, <2>3
<1>3. Failed(e) \in Entries /\ Healthy(Failed(e)) /\ Failed(e).ips = e.ips
  <2>1. BackoffAfter(e.backoff) \in Nat /\ BackoffAfter(e.backoff) >= FirstBackoff
    BY <1>1, BackoffShape
  <2> QED BY <1>1, <2>1 DEF Failed, Entries, Healthy
<1>4. ASSUME NEW ips \in SUBSET Addresses, NEW ttl \in Ttls
      PROVE  /\ Answered(ips, ttl) \in Entries /\ Healthy(Answered(ips, ttl))
             /\ Answered(ips, ttl).ips = ips
  <2>1. Larger(ttl, MinInterval) \in Nat
    BY DurationAssumption DEF Larger
  <2> QED BY <2>1 DEF Answered, Entries, Healthy
<1> QED BY <1>2, <1>3, <1>4

\* What is known of a domain is what was heard last, or nothing.
LEMMA KnownShape ==
  ASSUME DnsInv, NEW d
  PROVE  /\ Known(d) \in Entries /\ Healthy(Known(d))
         /\ Known(d).ips = IF d \in DOMAIN heard THEN heard[d] ELSE {}
<1>1. Fresh \in Entries /\ Healthy(Fresh) /\ Fresh.ips = {}
  BY DEF Fresh, Entries, Healthy
<1> QED BY <1>1 DEF Known, DnsInv

\* A pass over the domains keeps the cache true.
LEMMA ReconcileDnsInv ==
  ASSUME DnsInv, NEW domains \in SUBSET Domains, NEW time \in Nat, ReconcileDns(domains, time)
  PROVE  DnsInv' /\ DOMAIN cache' = domains
<1>1. /\ DOMAIN cache' = domains /\ answer' = answer
      /\ \A d \in domains : cache'[d] \in Refreshed(d, time)
  BY DEF ReconcileDns
<1>2. /\ DOMAIN heard' = domains
      /\ \A d \in domains :
           heard'[d] = IF Later(Known(d), time).wait = 0 /\ answer[d] # Fails THEN answer[d]
                       ELSE IF d \in DOMAIN heard THEN heard[d] ELSE {}
  BY DEF ReconcileDns
<1>3. ASSUME NEW d \in domains
      PROVE  cache'[d] \in Entries /\ Healthy(cache'[d]) /\ cache'[d].ips = heard'[d]
  <2> DEFINE e == Later(Known(d), time)
  <2>1. /\ e \in Entries /\ Healthy(e)
        /\ e.ips = IF d \in DOMAIN heard THEN heard[d] ELSE {}
    BY KnownShape, EntrySteps
  <2>2. cache'[d] \in IF e.wait > 0 THEN {e}
                      ELSE IF answer[d] = Fails THEN {Failed(e)}
                      ELSE {Answered(answer[d], ttl) : ttl \in Ttls}
    BY <1>1 DEF Refreshed
  <2>3. heard'[d] = IF e.wait = 0 /\ answer[d] # Fails THEN answer[d] ELSE e.ips
    BY <1>2, <2>1
  <2>4. e.wait \in Nat
    BY <2>1 DEF Entries
  <2> HIDE DEF e
  <2>5. CASE e.wait > 0
    BY <2>1, <2>2, <2>3, <2>4, <2>5
  <2>6. CASE e.wait = 0 /\ answer[d] = Fails
    BY <2>1, <2>2, <2>3, <2>6, EntrySteps
  <2>7. CASE e.wait = 0 /\ answer[d] # Fails
    <3>1. answer[d] \in SUBSET Addresses
      BY <2>7 DEF DnsInv, Answers
    <3>2. PICK ttl \in Ttls : cache'[d] = Answered(answer[d], ttl)
      BY <2>2, <2>7
    <3> QED BY <2>1, <2>3, <2>7, <3>1, <3>2, EntrySteps
  <2> QED BY <2>4, <2>5, <2>6, <2>7
<1> QED BY <1>1, <1>2, <1>3 DEF DnsInv, Healthy

-----------------------------------------------------------------------------
(* The pass.                                                               *)

\* Memberships that may be wanted.
Goals == UNION {[wanted -> SUBSET Addresses] : wanted \in SUBSET Services}

\* The fields of a pass; what matters of them is said below.
IsPass ==
  /\ it = [pc |-> it.pc, rows |-> it.rows, goal |-> it.goal, listed |-> it.listed,
           todo |-> it.todo, stale |-> it.stale, current |-> it.current,
           adds |-> it.adds, want |-> it.want, old |-> it.old]
  /\ it.goal \in Goals

\* Services, rules, sets and routes have their shape; what a rule matches is there.
Kernel ==
  /\ rows \in [Services -> ServiceRows \cup {NoRow}]
  /\ sets \in [Names -> {NoSet} \cup SUBSET Addresses]
  /\ rules \subseteq {s \in Services : Present(SetName(s))}
  /\ routes \in [Destinations -> Nexthops \cup {NoRoute}]
  /\ onLink \subseteq Nexthops

\* Where a pass works on the sets, and on one of them.
OnSets == {"sets", "flush", "add", "swap", "destroy"}
OnOne == OnSets \ {"sets"}

\* The temporary set holds the goal but for what is still to be added, and
\* nothing that is listed and wanted is destroyed.
SetsOK ==
  /\ it.pc \in OnSets =>
       /\ it.todo \subseteq DOMAIN it.goal
       /\ \A s \in DOMAIN it.goal :
            /\ SetName(s) \in it.listed => Present(SetName(s))
            /\ SetName(s) \notin it.stale
       /\ it.stale \subseteq Names
  /\ it.pc \in OnOne => it.current \in DOMAIN it.goal
  /\ it.pc \in {"flush", "add", "swap"} => Present(TempName(it.current))
  /\ it.pc = "add" =>
       sets[TempName(it.current)] \cup it.adds = it.goal[it.current]
  /\ it.pc = "swap" => /\ sets[TempName(it.current)] = it.goal[it.current]
                       /\ Present(SetName(it.current))

\* No route that is wanted is on the list of those to delete.
RoutesOK == DOMAIN it.want \cap it.old = {}

Inv == DnsInv /\ IsPass /\ Kernel /\ SetsOK /\ RoutesOK

-----------------------------------------------------------------------------
\* Names tell services and the two kinds of set apart.
LEMMA NamesDiffer ==
  /\ \A s, t \in Services : SetName(s) # TempName(t)
  /\ \A s, t \in Services : SetName(s) = SetName(t) => s = t
  /\ \A s \in Services : SetName(s) \in Names /\ TempName(s) \in Names
  /\ \A n \in Names : \E s \in Services : n = SetName(s) \/ n = TempName(s)
BY DEF SetName, TempName, Names

\* A pass in flight looks after services.
LEMMA GoalFacts ==
  ASSUME IsPass
  PROVE  DOMAIN it.goal \subseteq Services /\ \A s \in DOMAIN it.goal : it.goal[s] \subseteq Addresses
BY DEF IsPass, Goals

\* A membership is not the absence of a set.
LEMMA MembersArePresent == \A members \in SUBSET Addresses : members # NoSet
BY NullAssumption

\* Between two passes nothing is in hand.
LEMMA RestIsPass ==
  ASSUME it' = AtRest
  PROVE  IsPass' /\ SetsOK' /\ RoutesOK' /\ it'.goal = [s \in {} |-> {}]
<1>1. [s \in {} |-> {}] \in Goals
  BY DEF Goals
<1>2. it'.pc = "idle" /\ it'.goal = [s \in {} |-> {}] /\ it'.old = {}
  BY DEF AtRest
<1>3. IsPass'
  BY <1>1, <1>2 DEF IsPass, AtRest
<1> QED BY <1>2, <1>3 DEF SetsOK, RoutesOK, OnSets, OnOne

\* The environment and the ends of passes leave the sets and DNS entries alone.
LEMMA RestInv ==
  ASSUME Inv, it' = AtRest, UNCHANGED <<answer, cache, heard, rows, rules, sets, routes, onLink>>
  PROVE  Inv'
BY RestIsPass DEF Inv, DnsInv, Kernel, Present, Healthy

\* Nothing wanted so far, no sets.
LEMMA InitInv == Init => Inv
<1> SUFFICES ASSUME Init PROVE Inv
  OBVIOUS
<1>1. DnsInv
  BY AnswersAssumption DEF Init, DnsInit, DnsInv
<1>2. Kernel
  BY RowsAssumption DEF Init, Kernel
<1>3. IsPass /\ SetsOK /\ RoutesOK
  <2>1. [s \in {} |-> {}] \in Goals
    BY DEF Goals
  <2>2. it.pc = "idle" /\ it.goal = [s \in {} |-> {}] /\ it.old = {}
    BY DEF Init, AtRest
  <2>3. IsPass
    BY <2>1, <2>2 DEF Init, IsPass, AtRest
  <2> QED BY <2>2, <2>3 DEF SetsOK, RoutesOK, OnSets, OnOne
<1> QED BY <1>1, <1>2, <1>3 DEF Inv

\* What services and their domains say is wanted of addresses that are known.
LEMMA MembershipsAreGoals ==
  ASSUME rows \in [Services -> ServiceRows \cup {NoRow}], NEW resolved,
         \A d \in DomainsOf(rows) : resolved[d].ips \subseteq Addresses
  PROVE  Memberships(rows, resolved) \in Goals /\ DomainsOf(rows) \subseteq Domains
<1>1. ByDomain(rows) \subseteq Stored(rows) /\ Stored(rows) \subseteq Services
  BY DEF ByDomain, Stored
<1>2. \A s \in ByDomain(rows) : rows[s].domains \subseteq DomainsOf(rows)
  BY <1>1 DEF DomainsOf
<1>3. \A s \in ByDomain(rows) : UNION {resolved[d].ips : d \in rows[s].domains} \subseteq Addresses
  BY <1>2
<1>4. Memberships(rows, resolved) \in [ByDomain(rows) -> SUBSET Addresses]
  BY <1>3 DEF Memberships
<1>5. \A s \in Stored(rows) : rows[s] \in ServiceRows
  BY DEF Stored
<1>6. DomainsOf(rows) \subseteq Domains
  BY <1>5, RowsAssumption DEF DomainsOf
<1> QED BY <1>1, <1>4, <1>6 DEF Goals

\* The snapshot: DNS is asked, and what ipset lists is there.
LEMMA BeginInv == ASSUME Inv, NEW time \in Pauses, Begin(time) PROVE Inv'
<1>1. /\ rows \in [Services -> ServiceRows \cup {NoRow}]
      /\ UNCHANGED <<rows, rules, onLink, sets, routes>>
      /\ ReconcileDns(DomainsOf(rows), time)
  BY DEF Begin, Inv, Kernel, envVars, hostVars
<1>2. DomainsOf(rows) \in SUBSET Domains /\ time \in Nat
  <2>1. \A s \in Stored(rows) : rows[s] \in ServiceRows
    BY <1>1 DEF Stored
  <2> QED BY <2>1, RowsAssumption, BoundAssumption DEF DomainsOf
<1>3. DnsInv' /\ DOMAIN cache' = DomainsOf(rows)
  BY <1>1, <1>2, ReconcileDnsInv DEF Inv
<1> DEFINE goal == Memberships(rows, cache')
           listed == {n \in Names : Present(n)}
<1>4. goal \in Goals /\ DOMAIN goal \subseteq Services
  <2>1. \A d \in DomainsOf(rows) : cache'[d].ips \subseteq Addresses
    BY <1>3 DEF DnsInv, Entries
  <2>2. goal \in Goals
    BY <1>1, <2>1, MembershipsAreGoals
  <2> HIDE DEF goal
  <2> QED BY <2>2 DEF Goals
<1>5. it' = [AtRest EXCEPT
               !.pc = "sets", !.rows = rows, !.goal = goal, !.listed = listed,
               !.todo = DOMAIN goal,
               !.stale = listed \ {SetName(s) : s \in DOMAIN goal}]
  BY DEF Begin
<1> HIDE DEF goal
<1>6. /\ it'.pc = "sets" /\ it'.goal = goal /\ it'.listed = listed /\ it'.todo = DOMAIN goal
      /\ it'.stale = listed \ {SetName(s) : s \in DOMAIN goal} /\ it'.old = {}
  BY <1>5 DEF AtRest
<1>7. IsPass'
  BY <1>4, <1>5, <1>6 DEF IsPass, AtRest
<1>8. SetsOK'
  BY <1>1, <1>4, <1>6 DEF SetsOK, OnSets, OnOne, Present
<1>9. Kernel' /\ RoutesOK'
  BY <1>1, <1>6 DEF Inv, Kernel, RoutesOK, Present
<1> QED BY <1>3, <1>7, <1>8, <1>9 DEF Inv

\* Services, DNS, links and rules change beside the pass.
LEMMA EnvironmentInv == ASSUME Inv, Environment PROVE Inv'
<1>1. ASSUME NEW s \in Services, ChangeService(s) PROVE Inv'
  <2>1. /\ UNCHANGED <<answer, cache, heard, rules, sets, routes, onLink, it>>
        /\ rows' \in [Services -> ServiceRows \cup {NoRow}]
    BY <1>1 DEF ChangeService, dnsVars, hostVars, Inv, Kernel
  <2> QED BY <2>1 DEF Inv, DnsInv, IsPass, Kernel, SetsOK, RoutesOK, Present, Healthy
<1>2. ASSUME NEW d \in Domains, ChangeDns(d) PROVE Inv'
  <2>1. /\ UNCHANGED <<cache, heard, rows, rules, sets, routes, onLink, it>>
        /\ answer' \in [Domains -> Answers]
    BY <1>2 DEF ChangeDns, ChangeAnswer, envVars, hostVars, Inv, DnsInv
  <2> QED BY <2>1 DEF Inv, DnsInv, IsPass, Kernel, SetsOK, RoutesOK, Present, Healthy
<1>3. ASSUME NEW g \in Nexthops, ChangeLink(g) PROVE Inv'
  <2>1. /\ UNCHANGED <<answer, cache, heard, rows, rules, sets, it>>
        /\ onLink' \subseteq Nexthops
        /\ routes' \in [Destinations -> Nexthops \cup {NoRoute}]
    BY <1>3 DEF ChangeLink, dnsVars, Inv, Kernel
  <2> QED BY <2>1 DEF Inv, DnsInv, IsPass, Kernel, SetsOK, RoutesOK, Present, Healthy
<1>4. ASSUME NEW s \in Services, MatchSet(s) \/ UnmatchSet(s) PROVE Inv'
  <2>1. /\ UNCHANGED <<answer, cache, heard, rows, sets, routes, onLink, it>>
        /\ rules' \subseteq {t \in Services : Present(SetName(t))}
    BY <1>4 DEF MatchSet, UnmatchSet, dnsVars, hostVars, Inv, Kernel
  <2> QED BY <2>1 DEF Inv, DnsInv, IsPass, Kernel, SetsOK, RoutesOK, Present, Healthy
<1> QED BY <1>1, <1>2, <1>3, <1>4 DEF Environment

\* A command of the pass on the sets: it names one set and gives it a membership.
\* What SetsOK says of the sets has to be shown for each.
LEMMA PutKeeps ==
  ASSUME Inv, NEW n \in Names, NEW members \in {NoSet} \cup SUBSET Addresses,
         Put(n, members), IsPass', RoutesOK', SetsOK',
         \A s \in rules : n = SetName(s) => members # NoSet
  PROVE  Inv'
<1>1. /\ sets' = [sets EXCEPT ![n] = members]
      /\ UNCHANGED <<answer, cache, heard, rows, rules, onLink, routes>>
  BY DEF Put, dnsVars, envVars
<1>2. \A m \in Names : sets'[m] = IF m = n THEN members ELSE sets[m]
  BY <1>1 DEF Inv, Kernel
<1>3. \A s \in rules : sets'[SetName(s)] # NoSet
  <2>1. \A s \in rules : s \in Services /\ sets[SetName(s)] # NoSet /\ SetName(s) \in Names
    BY NamesDiffer DEF Inv, Kernel, Present
  <2> QED BY <1>2, <2>1
<1>4. Kernel'
  BY <1>1, <1>3 DEF Inv, Kernel, Present
<1> QED BY <1>1, <1>4 DEF Inv, DnsInv, Healthy

\* A step of the pass that only looks.
LEMMA LookKeeps ==
  ASSUME Inv, OnlyIt \/ UNCHANGED <<dnsVars, envVars, hostVars>>, IsPass', RoutesOK', SetsOK'
  PROVE  Inv'
<1>1. UNCHANGED <<answer, cache, heard, rows, rules, sets, routes, onLink>>
  BY DEF OnlyIt, dnsVars, envVars, hostVars
<1> QED BY <1>1 DEF Inv, DnsInv, Kernel, Present, Healthy

\* A set that is right is left alone.
LEMMA KeepSetInv == ASSUME Inv, NEW s \in Services, KeepSet(s) PROVE Inv'
<1>1. it' = [it EXCEPT !.todo = @ \ {s}] /\ OnlyIt /\ it.pc = "sets" /\ IsPass
  BY DEF KeepSet, Inv
<1>2. /\ it'.pc = "sets" /\ it'.goal = it.goal /\ it'.listed = it.listed
      /\ it'.todo = it.todo \ {s} /\ it'.stale = it.stale
      /\ it'.want = it.want /\ it'.old = it.old /\ IsPass'
  BY <1>1 DEF IsPass
<1>3. sets' = sets
  BY <1>1 DEF OnlyIt, hostVars
<1>4. SetsOK' /\ RoutesOK'
  BY <1>1, <1>2, <1>3 DEF Inv, SetsOK, RoutesOK, OnSets, OnOne, Present
<1> QED BY <1>1, <1>2, <1>4, LookKeeps

\* create <name>_tmp: empty, or what a failure left in it.
LEMMA CreateTempInv == ASSUME Inv, NEW s \in Services, CreateTemp(s) PROVE Inv'
<1> DEFINE members == IF Present(TempName(s)) THEN sets[TempName(s)] ELSE {}
<1>1. /\ it' = [it EXCEPT !.pc = "flush", !.todo = @ \ {s}, !.current = s]
      /\ Put(TempName(s), members) /\ it.pc = "sets" /\ s \in it.todo /\ IsPass
  BY DEF CreateTemp, Inv
<1>2. /\ it'.pc = "flush" /\ it'.goal = it.goal /\ it'.listed = it.listed
      /\ it'.todo = it.todo \ {s} /\ it'.stale = it.stale /\ it'.current = s
      /\ it'.want = it.want /\ it'.old = it.old /\ IsPass'
  BY <1>1 DEF IsPass
<1>3. members \in SUBSET Addresses /\ members # NoSet
  BY NamesDiffer, MembersArePresent DEF Inv, Kernel, Present
<1> HIDE DEF members
<1>4. \A m \in Names : sets'[m] = IF m = TempName(s) THEN members ELSE sets[m]
  BY <1>1 DEF Put, Inv, Kernel
<1>5. SetsOK' /\ RoutesOK'
  BY <1>1, <1>2, <1>3, <1>4, NamesDiffer, GoalFacts
  DEF Inv, SetsOK, RoutesOK, OnSets, OnOne, Present
<1> QED BY <1>1, <1>2, <1>3, <1>5, NamesDiffer, PutKeeps

\* flush: nothing of what was left remains.
LEMMA FlushTempInv == ASSUME Inv, FlushTemp PROVE Inv'
<1> DEFINE s == it.current
<1>1. /\ it' = [it EXCEPT !.pc = "add", !.adds = it.goal[s]]
      /\ Put(TempName(s), {}) /\ it.pc = "flush" /\ IsPass
  BY DEF FlushTemp, Flushed, Inv
<1>2. /\ it'.pc = "add" /\ it'.goal = it.goal /\ it'.listed = it.listed
      /\ it'.todo = it.todo /\ it'.stale = it.stale /\ it'.current = s
      /\ it'.adds = it.goal[s]
      /\ it'.want = it.want /\ it'.old = it.old /\ IsPass'
  BY <1>1 DEF IsPass
<1>3. s \in DOMAIN it.goal /\ s \in Services /\ {} # NoSet
  BY <1>1, GoalFacts, MembersArePresent DEF Inv, SetsOK, OnOne, OnSets
<1>4. \A m \in Names : sets'[m] = IF m = TempName(s) THEN {} ELSE sets[m]
  BY <1>1 DEF Put, Inv, Kernel
<1> HIDE DEF s
<1>5. SetsOK' /\ RoutesOK'
  BY <1>1, <1>2, <1>3, <1>4, NamesDiffer, GoalFacts
  DEF Inv, SetsOK, RoutesOK, OnSets, OnOne, Present
<1> QED BY <1>1, <1>2, <1>3, <1>5, NamesDiffer, PutKeeps

\* add: one address of the goal more.
LEMMA AddMemberInv == ASSUME Inv, NEW ip \in Addresses, AddMember(ip) PROVE Inv'
<1> DEFINE s == it.current
           members == sets[TempName(s)] \cup {ip}
<1>1. /\ it' = [it EXCEPT !.adds = @ \ {ip}]
      /\ Put(TempName(s), members) /\ it.pc = "add" /\ IsPass /\ ip \in it.adds
  BY DEF AddMember, Inv
<1>2. /\ it'.pc = "add" /\ it'.goal = it.goal /\ it'.listed = it.listed
      /\ it'.todo = it.todo /\ it'.stale = it.stale /\ it'.current = s
      /\ it'.adds = it.adds \ {ip}
      /\ it'.want = it.want /\ it'.old = it.old /\ IsPass'
  BY <1>1 DEF IsPass
<1>3. s \in DOMAIN it.goal /\ s \in Services
  BY <1>1, GoalFacts DEF Inv, SetsOK, OnOne, OnSets
<1>4. members \in SUBSET Addresses /\ members # NoSet
  <2>1. sets[TempName(s)] \in SUBSET Addresses
    BY <1>1, <1>3, NamesDiffer DEF Inv, Kernel, SetsOK, Present
  <2> QED BY <2>1, MembersArePresent
<1>5. \A m \in Names : sets'[m] = IF m = TempName(s) THEN members ELSE sets[m]
  BY <1>1 DEF Put, Inv, Kernel
<1>6. sets[TempName(s)] \cup it.adds = it.goal[s]
  BY <1>1 DEF Inv, SetsOK
<1>7. members \cup it'.adds = it.goal[s]
  BY <1>1, <1>2, <1>6
<1> HIDE DEF s, members
<1>8. SetsOK' /\ RoutesOK'
  BY <1>1, <1>2, <1>3, <1>4, <1>5, <1>7, NamesDiffer, GoalFacts
  DEF Inv, SetsOK, RoutesOK, OnSets, OnOne, Present
<1> QED BY <1>1, <1>2, <1>3, <1>4, <1>8, NamesDiffer, PutKeeps

\* create <name>, when the temporary set is complete.
LEMMA CreateSetInv == ASSUME Inv, CreateSet PROVE Inv'
<1> DEFINE s == it.current
           members == IF Present(SetName(s)) THEN sets[SetName(s)] ELSE {}
<1>1. /\ it' = [it EXCEPT !.pc = "swap"]
      /\ Put(SetName(s), members) /\ it.pc = "add" /\ IsPass /\ it.adds = {}
  BY DEF CreateSet, Inv
<1>2. /\ it'.pc = "swap" /\ it'.goal = it.goal /\ it'.listed = it.listed
      /\ it'.todo = it.todo /\ it'.stale = it.stale /\ it'.current = s
      /\ it'.want = it.want /\ it'.old = it.old /\ IsPass'
  BY <1>1 DEF IsPass
<1>3. s \in DOMAIN it.goal /\ s \in Services
  BY <1>1, GoalFacts DEF Inv, SetsOK, OnOne, OnSets
<1>4. members \in SUBSET Addresses /\ members # NoSet
  BY <1>3, NamesDiffer, MembersArePresent DEF Inv, Kernel, Present
<1>5. \A m \in Names : sets'[m] = IF m = SetName(s) THEN members ELSE sets[m]
  BY <1>1 DEF Put, Inv, Kernel
<1>6. sets[TempName(s)] = it.goal[s] /\ Present(TempName(s))
  BY <1>1 DEF Inv, SetsOK
<1> HIDE DEF s, members
<1>7. SetsOK' /\ RoutesOK'
  BY <1>1, <1>2, <1>3, <1>4, <1>5, <1>6, NamesDiffer, GoalFacts
  DEF Inv, SetsOK, RoutesOK, OnSets, OnOne, Present
<1> QED BY <1>1, <1>2, <1>3, <1>4, <1>7, NamesDiffer, PutKeeps

\* When two sets are swapped, the temporary one is complete and the other is there.
LEMMA SwapFacts ==
  ASSUME Inv, Swap
  PROVE  /\ it.current \in DOMAIN it.goal /\ it.current \in Services
         /\ it.pc \in {"add", "swap"} /\ IsPass
         /\ sets[TempName(it.current)] = it.goal[it.current]
         /\ Present(TempName(it.current)) /\ Present(SetName(it.current))
         /\ \A m \in Names :
              sets'[m] = IF m = SetName(it.current) THEN sets[TempName(it.current)]
                         ELSE IF m = TempName(it.current) THEN sets[SetName(it.current)]
                         ELSE sets[m]
<1>1. it.pc \in {"add", "swap"} /\ it.pc \in OnOne /\ it.pc \in OnSets
  BY DEF Swap, OnOne, OnSets
<1>2. it.current \in DOMAIN it.goal /\ it.current \in Services /\ IsPass
  BY <1>1, GoalFacts DEF Inv, SetsOK
<1>3. Present(TempName(it.current)) /\ Present(SetName(it.current))
  BY <1>1, <1>2 DEF Inv, SetsOK, Swap
<1>4. sets[TempName(it.current)] = it.goal[it.current]
  <2>1. CASE it.pc = "swap"
    BY <2>1 DEF Inv, SetsOK
  <2>2. CASE it.pc = "add"
    <3>1. it.adds = {}
      BY <2>2 DEF Swap, Ready
    <3> QED BY <2>2, <3>1 DEF Inv, SetsOK
  <2> QED BY <1>1, <2>1, <2>2
<1>5. \A m \in Names :
        sets'[m] = IF m = SetName(it.current) THEN sets[TempName(it.current)]
                   ELSE IF m = TempName(it.current) THEN sets[SetName(it.current)]
                   ELSE sets[m]
  <2>1. SetName(it.current) # TempName(it.current)
    BY <1>2, NamesDiffer
  <2>2. sets \in [Names -> {NoSet} \cup SUBSET Addresses]
    BY DEF Inv, Kernel
  <2>3. sets' = [sets EXCEPT ![SetName(it.current)] = sets[TempName(it.current)],
                             ![TempName(it.current)] = sets[SetName(it.current)]]
    BY DEF Swap
  <2> QED BY <2>1, <2>2, <2>3
<1> QED BY <1>1, <1>2, <1>3, <1>4, <1>5

\* swap: the two names exchange their sets in one step.
LEMMA SwapInv == ASSUME Inv, Swap PROVE Inv'
<1>1. /\ it' = [it EXCEPT !.pc = "destroy"]
      /\ UNCHANGED <<answer, cache, heard, rows, rules, onLink, routes>>
  BY DEF Swap, dnsVars, envVars
<1>2. /\ it'.pc = "destroy" /\ it'.goal = it.goal /\ it'.listed = it.listed
      /\ it'.todo = it.todo /\ it'.stale = it.stale /\ it'.current = it.current
      /\ it'.want = it.want /\ it'.old = it.old /\ IsPass'
  BY <1>1, SwapFacts DEF IsPass
<1>3. \A m \in Names : sets[m] # NoSet => sets'[m] # NoSet
  BY SwapFacts DEF Present
<1>4. sets' \in [Names -> {NoSet} \cup SUBSET Addresses]
  <2>1. /\ sets \in [Names -> {NoSet} \cup SUBSET Addresses]
        /\ SetName(it.current) \in Names /\ TempName(it.current) \in Names
    BY SwapFacts, NamesDiffer DEF Inv, Kernel
  <2>2. sets' = [sets EXCEPT ![SetName(it.current)] = sets[TempName(it.current)],
                             ![TempName(it.current)] = sets[SetName(it.current)]]
    BY DEF Swap
  <2> QED BY <2>1, <2>2
<1>5. Kernel'
  <2>1. \A t \in Services : Present(SetName(t)) => Present(SetName(t))'
    BY <1>3, NamesDiffer DEF Present
  <2> QED BY <1>1, <1>4, <2>1 DEF Inv, Kernel
<1>6. SetsOK'
  <2>1. it.pc \in OnSets
    BY SwapFacts DEF OnSets
  <2>2. \A t \in DOMAIN it.goal : Present(SetName(t)) => Present(SetName(t))'
    BY <1>3, NamesDiffer, GoalFacts, SwapFacts DEF Present
  <2> QED BY <1>2, <2>1, <2>2, SwapFacts DEF Inv, SetsOK, OnOne, OnSets
<1>7. RoutesOK'
  BY <1>2 DEF Inv, RoutesOK
<1> QED BY <1>1, <1>2, <1>5, <1>6, <1>7 DEF Inv, DnsInv, Healthy

\* destroy <name>_tmp.
LEMMA DestroyTempInv == ASSUME Inv, DestroyTemp PROVE Inv'
<1> DEFINE s == it.current
<1>1. /\ it' = [it EXCEPT !.pc = "sets", !.current = None]
      /\ Put(TempName(s), NoSet) /\ it.pc = "destroy" /\ IsPass
  BY DEF DestroyTemp, Inv
<1>2. /\ it'.pc = "sets" /\ it'.goal = it.goal /\ it'.listed = it.listed
      /\ it'.todo = it.todo /\ it'.stale = it.stale
      /\ it'.want = it.want /\ it'.old = it.old /\ IsPass'
  BY <1>1 DEF IsPass
<1>3. s \in DOMAIN it.goal /\ s \in Services
  BY <1>1, GoalFacts DEF Inv, SetsOK, OnOne, OnSets
<1>4. \A m \in Names : sets'[m] = IF m = TempName(s) THEN NoSet ELSE sets[m]
  BY <1>1 DEF Put, Inv, Kernel
<1> HIDE DEF s
<1>5. SetsOK' /\ RoutesOK'
  BY <1>1, <1>2, <1>3, <1>4, NamesDiffer, GoalFacts
  DEF Inv, SetsOK, RoutesOK, OnSets, OnOne, Present
<1>6. \A t \in rules : TempName(s) # SetName(t)
  BY <1>3, NamesDiffer DEF Inv, Kernel
<1> QED BY <1>1, <1>2, <1>3, <1>5, <1>6, NamesDiffer, PutKeeps

\* destroy of a stale set: it is of no service with domains, and no rule matches it.
LEMMA DestroyStaleInv ==
  ASSUME Inv, NEW n \in Names, DestroyStale(n) \/ DestroyFails(n)
  PROVE  Inv'
<1>1. it' = [it EXCEPT !.stale = @ \ {n}] /\ it.pc = "sets" /\ IsPass /\ n \in it.stale
  BY DEF DestroyStale, DestroyFails, Leftover, Inv
<1>2. /\ it'.pc = "sets" /\ it'.goal = it.goal /\ it'.listed = it.listed
      /\ it'.todo = it.todo /\ it'.stale = it.stale \ {n}
      /\ it'.want = it.want /\ it'.old = it.old /\ IsPass'
  BY <1>1 DEF IsPass
<1>3. \A s \in DOMAIN it.goal : SetName(s) # n
  BY <1>1 DEF Inv, SetsOK, OnSets
<1>4. CASE DestroyFails(n)
  <2>1. sets' = sets
    BY <1>4 DEF DestroyFails, hostVars
  <2>2. SetsOK' /\ RoutesOK'
    BY <1>1, <1>2, <2>1 DEF Inv, SetsOK, RoutesOK, OnSets, OnOne, Present
  <2> QED BY <1>2, <1>4, <2>2, LookKeeps DEF DestroyFails
<1>5. CASE DestroyStale(n)
  <2> DEFINE refused == ~Present(n) \/ \E s \in rules : n = SetName(s)
             members == IF refused THEN sets[n] ELSE NoSet
  <2>1. Put(n, members)
    BY <1>5 DEF DestroyStale
  <2>2. members \in {NoSet} \cup SUBSET Addresses
    BY DEF Inv, Kernel
  <2>3. \A s \in rules : n = SetName(s) => members # NoSet
    BY DEF Inv, Kernel, Present
  <2> HIDE DEF members
  <2>4. \A m \in Names : sets'[m] = IF m = n THEN members ELSE sets[m]
    BY <2>1 DEF Put, Inv, Kernel
  <2>5. SetsOK' /\ RoutesOK'
    BY <1>1, <1>2, <1>3, <2>4, NamesDiffer, GoalFacts
    DEF Inv, SetsOK, RoutesOK, OnSets, OnOne, Present
  <2> QED BY <1>2, <2>1, <2>2, <2>3, <2>5, PutKeeps
<1> QED BY <1>4, <1>5

\* The sets are done, or given up.
LEMMA SetsEndInv == ASSUME Inv, SetsDone \/ SetsRaise PROVE Inv'
<1>1. /\ IsPass
      /\ \/ it' = [it EXCEPT !.pc = "routes"] \/ it' = [it EXCEPT !.pc = "routes", !.current = None]
      /\ UNCHANGED <<dnsVars, envVars, hostVars>>
  BY DEF SetsDone, SetsRaise, OnlyIt, Inv
<1>2. /\ it'.pc = "routes" /\ it'.goal = it.goal /\ it'.want = it.want /\ it'.old = it.old
      /\ IsPass'
  BY <1>1 DEF IsPass
<1>3. SetsOK' /\ RoutesOK'
  BY <1>2 DEF Inv, SetsOK, RoutesOK, OnSets, OnOne
<1> QED BY <1>1, <1>2, <1>3, LookKeeps

\* What is to be deleted is what is not wanted.
LEMMA PlanInv == ASSUME Inv, PlanRoutes PROVE Inv'
<1>1. PICK last \in Orders :
        LET want == DesiredRoutes(it.rows, last)
        IN it' = [it EXCEPT !.pc = "replace", !.want = want,
                            !.todo = WrongRoutes(want), !.old = StaleRoutes(want)]
  BY DEF PlanRoutes
<1> DEFINE want == DesiredRoutes(it.rows, last)
<1>2. DOMAIN want \cap StaleRoutes(want) = {}
  BY DEF StaleRoutes
<1> HIDE DEF want
<1>3. it' = [it EXCEPT !.pc = "replace", !.want = want,
                       !.todo = WrongRoutes(want), !.old = StaleRoutes(want)]
  BY <1>1 DEF want
<1>4. /\ it'.pc = "replace" /\ it'.goal = it.goal /\ it'.want = want
      /\ it'.old = StaleRoutes(want) /\ IsPass'
  BY <1>3 DEF Inv, IsPass
<1>5. SetsOK' /\ RoutesOK'
  BY <1>2, <1>4 DEF SetsOK, RoutesOK, OnSets, OnOne
<1> QED BY <1>4, <1>5, LookKeeps DEF PlanRoutes

\* replace and del: routes go to nexthops, or away.
LEMMA RouteInv ==
  ASSUME Inv, NEW dst \in Destinations, ReplaceRoute(dst) \/ DeleteRoute(dst)
  PROVE  Inv'
<1>1. /\ IsPass /\ it.pc = "replace"
      /\ \/ it' = [it EXCEPT !.todo = @ \ {dst}] \/ it' = [it EXCEPT !.old = @ \ {dst}]
      /\ UNCHANGED <<answer, cache, heard, rows, rules, onLink, sets>>
  BY DEF ReplaceRoute, DeleteRoute, dnsVars, envVars, Inv
<1>2. /\ it'.pc = "replace" /\ it'.goal = it.goal /\ it'.want = it.want
      /\ it'.old \subseteq it.old /\ IsPass'
  BY <1>1 DEF IsPass
<1>3. routes' \in [Destinations -> Nexthops \cup {NoRoute}]
  BY DEF Inv, Kernel, ReplaceRoute, DeleteRoute
<1>4. SetsOK' /\ RoutesOK'
  BY <1>2 DEF Inv, SetsOK, RoutesOK, OnSets, OnOne
<1> QED BY <1>1, <1>2, <1>3, <1>4 DEF Inv, DnsInv, Kernel, Present, Healthy

\* The ends of a pass.
LEMMA EndInv ==
  ASSUME Inv, SkipRoutes \/ RoutesDone \/ RoutesRefused \/ RoutesRaise
  PROVE  Inv'
<1>1. it' = AtRest /\ UNCHANGED <<answer, cache, heard, rows, rules, sets, routes, onLink>>
  BY DEF SkipRoutes, RoutesDone, RoutesRefused, RoutesRaise, OnlyIt, dnsVars, envVars, hostVars
<1> QED BY <1>1, RestInv

\* A new process knows nothing of DNS; the kernel keeps what it has.
LEMMA CrashInv == ASSUME Inv, Crash PROVE Inv'
<1>1. /\ it' = AtRest /\ UNCHANGED <<answer, rows, rules, sets, routes, onLink>>
      /\ cache' = <<>> /\ heard' = <<>>
  BY DEF Crash, ForgetDns, hostVars
<1>2. DnsInv'
  BY <1>1 DEF Inv, DnsInv
<1> QED BY <1>1, <1>2, RestIsPass DEF Inv, Kernel, Present

\* Every step keeps the inductive invariant.
LEMMA NextInv == ASSUME Inv, [Next]_vars PROVE Inv'
<1>1. CASE UNCHANGED vars
  <2>1. UNCHANGED <<answer, cache, heard, rows, rules, sets, routes, onLink, it>>
    BY <1>1 DEF vars, dnsVars, envVars, hostVars
  <2> QED BY <2>1 DEF Inv, DnsInv, IsPass, Kernel, SetsOK, RoutesOK, Present, Healthy
<1>2. CASE Agent
  BY <1>2, BeginInv, KeepSetInv, CreateTempInv, FlushTempInv, AddMemberInv, CreateSetInv, SwapInv,
     DestroyTempInv, DestroyStaleInv, SetsEndInv, PlanInv, RouteInv, EndInv DEF Agent
<1>3. CASE Failure
  BY <1>3, SetsEndInv, DestroyStaleInv, EndInv, CrashInv DEF Failure
<1> QED BY <1>1, <1>2, <1>3, EnvironmentInv DEF Next

\* The inductive invariant holds of every behaviour.
THEOREM Invariance == Spec => []Inv
<1> QED BY InitInv, NextInv, PTL DEF Spec

-----------------------------------------------------------------------------
(* The shape of the variables.                                             *)

\* Back-off and time-outs stay within the configured durations.
InBounds(e) ==
  /\ e.ips \subseteq Addresses
  /\ e.wait \in 0..LongestWait
  /\ e.backoff \in 0..BackoffMax

Shape ==
  /\ it.pc \in Pcs /\ it.current \in Services \cup {None}
  /\ \A d \in DOMAIN cache : InBounds(cache[d])

\* No entry is told to wait for longer than LongestWait: neither by an answer,
\* whose TTL is at most the longest, nor by a failure.
LEMMA LongestWaitBounds ==
  /\ LongestWait \in Nat /\ BackoffMax \in Nat /\ BackoffMax <= LongestWait
  /\ \A ttl \in Ttls : Larger(ttl, MinInterval) \in Nat /\ Larger(ttl, MinInterval) <= LongestWait
<1> DEFINE waits == {Larger(t, MinInterval) : t \in Ttls}
           longest == CHOOSE n \in waits : \A t \in Ttls : n >= Larger(t, MinInterval)
<1>1. /\ \A t \in Ttls : t \in Nat
      /\ MinInterval \in Nat /\ BackoffMax \in Nat
  BY DurationAssumption
<1>2. PICK ttl \in Ttls : \A t \in Ttls : t <= ttl
  BY DurationAssumption, LargestElement
<1>3. \A t \in Ttls : Larger(t, MinInterval) \in Nat
  BY <1>1 DEF Larger
<1>4. \A t \in Ttls : Larger(ttl, MinInterval) >= Larger(t, MinInterval)
  BY <1>1, <1>2 DEF Larger
<1>5. \E n \in waits : \A t \in Ttls : n >= Larger(t, MinInterval)
  BY <1>4
<1>6. longest \in waits /\ \A t \in Ttls : longest >= Larger(t, MinInterval)
  BY <1>5
<1>7. longest \in Nat
  BY <1>3, <1>6
<1>8. LongestWait = Larger(BackoffMax, longest)
  BY DEF LongestWait
<1> HIDE DEF waits, longest
<1>9. LongestWait \in Nat /\ BackoffMax <= LongestWait /\ longest <= LongestWait
  BY <1>1, <1>7, <1>8 DEF Larger
<1> QED BY <1>1, <1>3, <1>6, <1>7, <1>9

\* Time runs and lookups fail or succeed: an entry stays in its bounds.
LEMMA BoundsStay ==
  ASSUME NEW e \in Entries, InBounds(e), NEW time \in Nat
  PROVE  /\ InBounds(Later(e, time))
         /\ InBounds(Failed(e))
         /\ \A ips \in SUBSET Addresses : \A ttl \in Ttls : InBounds(Answered(ips, ttl))
<1>1. /\ e.ips \subseteq Addresses /\ e.wait \in 0..LongestWait /\ e.backoff \in 0..BackoffMax
      /\ DOMAIN e = {"ips", "wait", "backoff"} /\ e = [x \in DOMAIN e |-> e[x]]
  BY DEF InBounds, Entries
<1>2. InBounds(Later(e, time))
  <2>1. Larger(e.wait - time, 0) \in 0..LongestWait
    BY <1>1, LongestWaitBounds DEF Larger
  <2> QED BY <1>1, <2>1 DEF Later, InBounds
<1>3. InBounds(Failed(e))
  <2>1. BackoffAfter(e.backoff) \in Nat /\ BackoffAfter(e.backoff) <= BackoffMax
    <3>1. BackoffAfter(e.backoff) \in Nat
      BY <1>1, BackoffShape
    <3> DEFINE m == Larger(e.backoff * BackoffFactor, Larger(MinInterval, TtlFloor))
    <3>2. BackoffAfter(e.backoff) = Smaller(m, BackoffMax)
      BY DEF BackoffAfter
    <3>3. m \in Nat
      <4>1. e.backoff * BackoffFactor \in Nat
        BY <1>1, DurationAssumption
      <4> QED BY <4>1, DurationAssumption DEF Larger
    <3> HIDE DEF m
    <3>4. Smaller(m, BackoffMax) <= BackoffMax
      BY <3>3, LongestWaitBounds DEF Smaller
    <3> QED BY <3>1, <3>2, <3>4
  <2> QED BY <1>1, <2>1, LongestWaitBounds DEF Failed, InBounds
<1>4. ASSUME NEW ips \in SUBSET Addresses, NEW ttl \in Ttls PROVE InBounds(Answered(ips, ttl))
  BY LongestWaitBounds DEF Answered, InBounds
<1> QED BY <1>2, <1>3, <1>4

\* A pass gives every domain an entry within the bounds.
LEMMA ReconcileDnsBounds ==
  ASSUME DnsInv, \A d \in DOMAIN cache : InBounds(cache[d]),
         NEW domains \in SUBSET Domains, NEW time \in Nat, ReconcileDns(domains, time)
  PROVE  \A d \in DOMAIN cache' : InBounds(cache'[d])
<1> SUFFICES ASSUME NEW d \in domains PROVE InBounds(cache'[d])
  BY DEF ReconcileDns
<1> DEFINE e == Later(Known(d), time)
<1>1. Known(d) \in Entries /\ InBounds(Known(d))
  <2>1. InBounds(Fresh)
    BY LongestWaitBounds DEF Fresh, InBounds
  <2> QED BY <2>1, KnownShape DEF Known
<1>2. e \in Entries /\ InBounds(e)
  BY <1>1, KnownShape, EntrySteps, BoundsStay
<1>3. cache'[d] \in IF e.wait > 0 THEN {e}
                    ELSE IF answer[d] = Fails THEN {Failed(e)}
                    ELSE {Answered(answer[d], ttl) : ttl \in Ttls}
  BY DEF ReconcileDns, Refreshed
<1> HIDE DEF e
<1>4. CASE cache'[d] = e \/ cache'[d] = Failed(e)
  BY <1>2, <1>4, BoundsStay
<1>5. CASE answer[d] # Fails /\ \E ttl \in Ttls : cache'[d] = Answered(answer[d], ttl)
  <2>1. answer[d] \in SUBSET Addresses
    BY <1>5 DEF DnsInv, Answers
  <2> QED BY <1>2, <1>5, <2>1, BoundsStay
<1> QED BY <1>3, <1>4, <1>5

\* Every step keeps the shape.
LEMMA ShapeStep == ASSUME Inv, Shape, [Next]_vars PROVE Shape'
<1> DEFINE Fields == /\ it'.pc \in Pcs /\ it'.current \in Services \cup {None}
<1>1. /\ DOMAIN it = {"pc", "rows", "goal", "listed", "todo", "stale", "current", "adds",
                      "want", "old"}
      /\ it = [x \in DOMAIN it |-> it[x]]
      /\ it.pc \in Pcs /\ it.current \in Services \cup {None}
  <2>1. IsPass /\ Shape
    BY DEF Inv
  <2> QED BY <2>1 DEF IsPass, Shape
<1>2. AtRest.pc \in Pcs /\ AtRest.current \in Services \cup {None}
  BY DEF AtRest, Pcs
<1>3. ASSUME cache' = cache, Fields PROVE Shape'
  BY <1>3 DEF Shape, InBounds
<1>4. ASSUME NEW time \in Pauses, Begin(time) PROVE Shape'
  <2>1. ReconcileDns(DomainsOf(rows), time) /\ Fields
    <3>1. it'.pc = "sets" /\ it'.current = None
      BY <1>4 DEF Begin, AtRest
    <3> QED BY <1>4, <3>1 DEF Begin, Pcs
  <2>2. DomainsOf(rows) \in SUBSET Domains /\ time \in Nat
    BY RowsAssumption, BoundAssumption DEF DomainsOf, Stored, Inv, Kernel
  <2>3. \A d \in DOMAIN cache' : InBounds(cache'[d])
    BY <2>1, <2>2, ReconcileDnsBounds DEF Inv, Shape
  <2> QED BY <2>1, <2>3 DEF Shape, InBounds
<1>5. ASSUME \/ \E s \in Services : KeepSet(s) \/ CreateTemp(s)
             \/ FlushTemp \/ CreateSet \/ Swap \/ DestroyTemp \/ SetsDone \/ SkipRoutes
             \/ \E ip \in Addresses : AddMember(ip)
             \/ \E n \in Names : DestroyStale(n) \/ DestroyFails(n)
             \/ PlanRoutes \/ RoutesDone \/ RoutesRefused \/ SetsRaise \/ RoutesRaise
             \/ \E dst \in Destinations : ReplaceRoute(dst) \/ DeleteRoute(dst)
      PROVE  Shape'
  <2>1. cache' = cache
    BY <1>5 DEF KeepSet, CreateTemp, FlushTemp, AddMember, CreateSet, Swap, DestroyTemp,
                DestroyStale, DestroyFails, SetsDone, SkipRoutes, PlanRoutes, RoutesDone,
                RoutesRefused, SetsRaise, RoutesRaise, ReplaceRoute, DeleteRoute, Put, OnlyIt, dnsVars
  <2>2. Fields
    BY <1>1, <1>2, <1>5
       DEF KeepSet, CreateTemp, FlushTemp, AddMember, CreateSet, Swap, DestroyTemp,
           DestroyStale, DestroyFails, SetsDone, SkipRoutes, PlanRoutes, RoutesDone,
           RoutesRefused, SetsRaise, RoutesRaise, ReplaceRoute, DeleteRoute, Pcs
  <2> QED BY <1>3, <2>1, <2>2
<1>6. CASE Crash
  <2>1. it' = AtRest /\ DOMAIN cache' = {}
    BY <1>6 DEF Crash, ForgetDns
  <2> QED BY <1>2, <2>1 DEF Shape
<1>7. CASE Environment \/ UNCHANGED vars
  <2>1. it' = it /\ cache' = cache
    BY <1>7 DEF Environment, ChangeService, MatchSet, UnmatchSet, ChangeDns, ChangeAnswer, ChangeLink,
                vars, dnsVars
  <2> QED BY <1>1, <1>3, <2>1
<1> QED BY <1>4, <1>5, <1>6, <1>7 DEF Next, Agent, Failure

\* Every variable keeps its shape; back-off and waits stay within the configured
\* durations, however answers and failures follow each other.
THEOREM TypeCorrect == Spec => []TypeOK
<1>1. Init => Shape
  BY DEF Init, DnsInit, AtRest, Shape, Pcs
<1>2. Inv /\ Shape => TypeOK
  BY DEF Inv, DnsInv, Kernel, Shape, InBounds, TypeOK, DnsTypeOK
<1> QED BY <1>1, <1>2, ShapeStep, Invariance, PTL DEF Spec

-----------------------------------------------------------------------------
(* What follows from it.                                                   *)

\* Whatever fails, the cache serves the last answer of a domain and does not
\* ask more often, or more rarely, than the back-off allows.
THEOREM LastAnswerServed == Spec => []ServesLastAnswer
<1>1. Inv => ServesLastAnswer
  BY DEF Inv, DnsInv, Healthy, FirstBackoff, ServesLastAnswer
<1> QED BY <1>1, Invariance, PTL

\* A destination that has a route and keeps being wanted has one after every
\* command: it is replaced, and only what is not wanted is deleted.
THEOREM RoutesStay == Spec => RoutesUninterrupted
<1> DEFINE Stay == \A dst \in DOMAIN it.want :
                     routes[dst] # NoRoute /\ onLink' = onLink => routes'[dst] # NoRoute
<1>1. ASSUME Inv, [Next]_vars PROVE Stay
  <2>1. CASE routes' = routes
    BY <2>1
  <2>2. ASSUME NEW dst \in Destinations, ReplaceRoute(dst) PROVE Stay
    <3>1. routes' = [routes EXCEPT ![dst] = it.want[dst]] /\ it.want[dst] \in onLink
      BY <2>2 DEF ReplaceRoute
    <3>2. it.want[dst] # NoRoute
      BY <1>1, <3>1, NullAssumption DEF Inv, Kernel
    <3> QED BY <1>1, <3>1, <3>2 DEF Inv, Kernel
  <2>3. ASSUME NEW dst \in Destinations, DeleteRoute(dst) PROVE Stay
    <3>1. routes' = [routes EXCEPT ![dst] = NoRoute] /\ dst \in it.old
      BY <2>3 DEF DeleteRoute
    <3>2. dst \notin DOMAIN it.want
      BY <1>1, <3>1 DEF Inv, RoutesOK
    <3> QED BY <1>1, <3>1, <3>2 DEF Inv, Kernel
  <2>4. ASSUME NEW g \in Nexthops, ChangeLink(g) PROVE Stay
    <3>1. onLink' # onLink \/ routes' = routes
      BY <2>4 DEF ChangeLink
    <3> QED BY <3>1
  <2>5. \/ \E time \in Pauses : Begin(time)
        \/ \E s \in Services : \/ KeepSet(s) \/ CreateTemp(s) \/ ChangeService(s)
                              \/ MatchSet(s) \/ UnmatchSet(s)
        \/ FlushTemp \/ CreateSet \/ Swap \/ DestroyTemp
        \/ \E ip \in Addresses : AddMember(ip)
        \/ \E n \in Names : DestroyStale(n) \/ DestroyFails(n)
        \/ \E d \in Domains : ChangeDns(d)
        \/ SetsDone \/ SkipRoutes \/ PlanRoutes \/ RoutesDone \/ RoutesRefused
        \/ SetsRaise \/ RoutesRaise \/ Crash \/ UNCHANGED vars
        => routes' = routes
    BY DEF Begin, KeepSet, CreateTemp, ChangeService, MatchSet, UnmatchSet, FlushTemp, CreateSet,
           Swap, DestroyTemp, AddMember, DestroyStale, DestroyFails, ChangeDns, SetsDone,
           SkipRoutes, PlanRoutes, RoutesDone, RoutesRefused, SetsRaise, RoutesRaise, Crash,
           Put, OnlyIt, hostVars, vars
  <2> HIDE DEF Stay
  <2> QED BY <1>1, <2>1, <2>2, <2>3, <2>4, <2>5 DEF Next, Agent, Environment, Failure
<1>2. Inv /\ [Next]_vars => [Stay]_vars
  BY <1>1
<1> QED BY <1>2, Invariance, PTL DEF Spec, RoutesUninterrupted

-----------------------------------------------------------------------------
(* Why an address goes.                                                    *)

\* A pass at work on the sets aims at what the cache serves for its services.
Aimed ==
  it.pc \in OnSets =>
    \A s \in DOMAIN it.goal :
      /\ it.rows[s].domains \subseteq DOMAIN cache
      /\ it.goal[s] = UNION {cache[d].ips : d \in it.rows[s].domains}

\* Begin aims, and the rest of the pass neither asks DNS nor aims anew.
LEMMA AimedStep == ASSUME Inv, Aimed, [Next]_vars PROVE Aimed'
<1>1. ASSUME NEW time \in Pauses, Begin(time) PROVE Aimed'
  <2> DEFINE goal == Memberships(rows, cache')
  <2>1. it'.goal = goal /\ it'.rows = rows
    BY <1>1 DEF Begin, AtRest
  <2>2. DOMAIN cache' = DomainsOf(rows)
    BY <1>1 DEF Begin, ReconcileDns
  <2>3. ASSUME NEW s \in ByDomain(rows)
        PROVE  /\ rows[s].domains \subseteq DOMAIN cache'
               /\ goal[s] = UNION {cache'[d].ips : d \in rows[s].domains}
    <3>1. s \in Stored(rows)
      BY DEF ByDomain
    <3> QED BY <2>2, <3>1 DEF DomainsOf, Memberships
  <2>4. DOMAIN goal = ByDomain(rows)
    BY DEF Memberships
  <2> HIDE DEF goal
  <2> QED BY <2>1, <2>3, <2>4 DEF Aimed
<1>2. ASSUME it'.pc \notin OnSets PROVE Aimed'
  BY <1>2 DEF Aimed
<1>3. ASSUME cache' = cache, it'.goal = it.goal, it'.rows = it.rows,
             it'.pc \in OnSets => it.pc \in OnSets
      PROVE  Aimed'
  BY <1>3 DEF Aimed
<1>4. /\ SkipRoutes \/ RoutesDone \/ RoutesRefused \/ RoutesRaise \/ Crash => it'.pc \notin OnSets
      /\ SetsDone \/ SetsRaise => it'.pc \notin OnSets
      /\ PlanRoutes => it'.pc \notin OnSets
      /\ \A dst \in Destinations : ReplaceRoute(dst) \/ DeleteRoute(dst) => it'.pc \notin OnSets
  <2>1. SkipRoutes \/ RoutesDone \/ RoutesRefused \/ RoutesRaise \/ Crash => it'.pc = "idle"
    BY DEF SkipRoutes, RoutesDone, RoutesRefused, RoutesRaise, Crash, AtRest
  <2>2. SetsDone \/ SetsRaise => it'.pc = "routes"
    BY DEF SetsDone, SetsRaise, Inv, IsPass
  <2>3. PlanRoutes => it'.pc = "replace"
    BY DEF PlanRoutes, Inv, IsPass
  <2>4. ASSUME NEW dst \in Destinations, ReplaceRoute(dst) \/ DeleteRoute(dst)
        PROVE  it'.pc = "replace"
    BY <2>4 DEF ReplaceRoute, DeleteRoute, Inv, IsPass
  <2> QED BY <2>1, <2>2, <2>3, <2>4 DEF OnSets
<1>5. ASSUME Environment \/ UNCHANGED vars PROVE cache' = cache /\ it' = it
  BY <1>5 DEF Environment, ChangeService, MatchSet, UnmatchSet, ChangeDns, ChangeAnswer,
              ChangeLink, dnsVars, envVars, vars
<1>6. ASSUME \/ \E s \in Services : KeepSet(s) \/ CreateTemp(s)
             \/ FlushTemp \/ CreateSet \/ Swap \/ DestroyTemp
             \/ \E ip \in Addresses : AddMember(ip)
             \/ \E n \in Names : DestroyStale(n) \/ DestroyFails(n)
      PROVE  /\ cache' = cache /\ it'.goal = it.goal /\ it'.rows = it.rows
             /\ it.pc \in OnSets
  <2>1. cache' = cache
    BY <1>6 DEF KeepSet, CreateTemp, FlushTemp, CreateSet, Swap, DestroyTemp, AddMember,
                DestroyStale, DestroyFails, Put, OnlyIt, dnsVars
  <2>2. it.pc \in OnSets
    BY <1>6 DEF KeepSet, CreateTemp, FlushTemp, CreateSet, Swap, DestroyTemp, AddMember,
                DestroyStale, DestroyFails, OnSets
  <2>3. it'.goal = it.goal /\ it'.rows = it.rows
    BY <1>6 DEF KeepSet, CreateTemp, FlushTemp, CreateSet, Swap, DestroyTemp, AddMember,
                DestroyStale, DestroyFails, Inv, IsPass
  <2> QED BY <2>1, <2>2, <2>3
<1> QED BY <1>1, <1>2, <1>3, <1>4, <1>5, <1>6 DEF Next, Agent, Failure

\* Of two steps that leave a set in place, only a swap changes what is in it.
LEMMA OnlySwapsChange ==
  ASSUME Inv, [Next]_vars, NEW s \in Services,
         sets[SetName(s)] # NoSet, sets'[SetName(s)] # NoSet,
         sets'[SetName(s)] # sets[SetName(s)]
  PROVE  Swap /\ s = it.current
<1>1. \A t \in Services : ~CreateTemp(t)
  BY NamesDiffer DEF CreateTemp, Put, Inv, Kernel
<1>2. ~FlushTemp /\ ~DestroyTemp /\ \A ip \in Addresses : ~AddMember(ip)
  <2>1. ASSUME FlushTemp \/ DestroyTemp \/ \E ip \in Addresses : AddMember(ip) PROVE FALSE
    <3>1. it.pc \in OnOne /\ it.pc \in OnSets
      BY <2>1 DEF FlushTemp, DestroyTemp, AddMember, OnOne, OnSets
    <3>2. it.current \in Services
      BY <3>1, GoalFacts DEF Inv, SetsOK
    <3>3. \E members : sets' = [sets EXCEPT ![TempName(it.current)] = members]
      BY <2>1 DEF FlushTemp, DestroyTemp, AddMember, Put
    <3> QED BY <3>2, <3>3, NamesDiffer DEF Inv, Kernel
  <2> QED BY <2>1
<1>3. ~CreateSet
  BY NamesDiffer DEF CreateSet, Put, Present, Inv, Kernel
<1>4. \A n \in Names : ~DestroyStale(n)
  BY NamesDiffer DEF DestroyStale, Put, Inv, Kernel
<1>5. ~Environment /\ ~Failure /\ ~UNCHANGED vars
  BY DEF Environment, Failure, ChangeService, MatchSet, UnmatchSet, ChangeDns, ChangeLink,
         SetsRaise, DestroyFails, RoutesRaise, Crash, hostVars, vars
<1>6. /\ \A time \in Pauses : ~Begin(time)
      /\ \A t \in Services : ~KeepSet(t)
      /\ \A dst \in Destinations : ~ReplaceRoute(dst) /\ ~DeleteRoute(dst)
      /\ ~SetsDone /\ ~SkipRoutes /\ ~PlanRoutes /\ ~RoutesDone /\ ~RoutesRefused
  BY DEF Begin, KeepSet, ReplaceRoute, DeleteRoute, SetsDone, SkipRoutes, PlanRoutes,
         RoutesDone, RoutesRefused, OnlyIt, hostVars
<1>7. Swap
  BY <1>1, <1>2, <1>3, <1>4, <1>5, <1>6 DEF Next, Agent
<1>8. s = it.current
  BY <1>7, SwapFacts, NamesDiffer
<1> QED BY <1>7, <1>8

\* No failing lookup, left-over set or old answer takes an address out of a set
\* that stays: no domain of the service was last heard to have it.
THEOREM WithdrawalNeedsAnswer == Spec => WithdrawnOnlyByAnswer
<1> DEFINE Kept(s) == LET before == sets[SetName(s)]
                          after == sets'[SetName(s)]
                      IN before # NoSet /\ after # NoSet =>
                           \A ip \in before \ after :
                              \A d \in it.rows[s].domains : ip \notin heard[d]
<1>1. Init => Aimed
  BY DEF Init, AtRest, Aimed, OnSets
<1>2. Inv /\ Aimed /\ [Next]_vars => Aimed'
  BY AimedStep
<1>3. ASSUME Inv, Aimed, [Next]_vars, NEW s \in Services PROVE Kept(s)
  <2>1. CASE sets'[SetName(s)] = sets[SetName(s)]
    BY <2>1
  <2>2. CASE sets[SetName(s)] = NoSet \/ sets'[SetName(s)] = NoSet
    BY <2>2
  <2>3. CASE /\ sets[SetName(s)] # NoSet /\ sets'[SetName(s)] # NoSet
             /\ sets'[SetName(s)] # sets[SetName(s)]
    <3>1. Swap /\ s = it.current
      BY <1>3, <2>3, OnlySwapsChange
    <3>2. /\ s \in DOMAIN it.goal /\ it.pc \in OnSets
          /\ sets'[SetName(s)] = it.goal[s]
      <4>1. SetName(s) \in Names
        BY NamesDiffer
      <4> QED BY <1>3, <3>1, <4>1, SwapFacts DEF OnSets
    <3>3. \A d \in it.rows[s].domains : heard[d] = cache[d].ips /\ heard[d] \subseteq it.goal[s]
      BY <1>3, <3>2 DEF Aimed, Inv, DnsInv
    <3> QED BY <3>2, <3>3
  <2> QED BY <2>1, <2>2, <2>3
<1>4. Inv /\ Aimed /\ [Next]_vars => [\A s \in Services : Kept(s)]_vars
  BY <1>3
<1>5. Spec => []Aimed
  BY <1>1, <1>2, Invariance, PTL DEF Spec
<1> QED BY <1>4, <1>5, Invariance, PTL DEF Spec, WithdrawnOnlyByAnswer

-----------------------------------------------------------------------------
(* What a pass leaves.                                                     *)

\* Where one set is in hand and not yet swapped in.
Filling == {"flush", "add", "swap"}

\* The sets that are done hold their goal.
SetsFilled ==
  it.pc \in OnSets =>
    /\ DOMAIN it.goal = ByDomain(it.rows)
    /\ \A s \in DOMAIN it.goal \ it.todo :
         sets[SetName(s)] = it.goal[s] \/ (it.pc \in Filling /\ s = it.current)

\* A service of the pass sends the destination there.
Asked(dst, g) ==
  \E s \in Stored(it.rows) : dst \in DestinationsOf(it.rows[s]) /\ g = it.rows[s].nexthop

\* What the agent can see of the routes.
Watched == Destinations \ ({Default} \ DOMAIN it.want)

\* A route is as some service asks, or still to be replaced or deleted.
RoutesPlanned ==
  it.pc = "replace" =>
    /\ it.todo \subseteq DOMAIN it.want
    /\ \A dst \in DOMAIN it.want : Asked(dst, it.want[dst])
    /\ \A dst \in Watched : routes[dst] # NoRoute =>
         dst \in it.todo \cup it.old \/ (dst \in DOMAIN it.want /\ routes[dst] = it.want[dst])

\* The query's order decides between services that claim a destination, so the
\* planned nexthop is one a service has, and one the gateway reaches.
LEMMA PlanIsAsked ==
  ASSUME Inv, NEW last \in Orders, NEW dst \in DOMAIN DesiredRoutes(it.rows, last)
  PROVE  /\ Asked(dst, DesiredRoutes(it.rows, last)[dst])
         /\ DesiredRoutes(it.rows, last)[dst] \in Nexthops
<1> DEFINE Claims == {s \in Routed(it.rows) : dst \in DestinationsOf(it.rows[s])}
           positions == {last[s] : s \in Claims}
           chosen == CHOOSE s \in Claims : \A t \in Claims : last[t] <= last[s]
<1>1. DesiredRoutes(it.rows, last)[dst] = it.rows[chosen].nexthop /\ Claims # {}
  BY DEF DesiredRoutes
<1>2. Claims \subseteq Services /\ last \in [Services -> 1..Cardinality(Services)]
      /\ Cardinality(Services) \in Nat
  BY RowsAssumption, FS_CardinalityType DEF Routed, Stored, Orders
<1>3. positions \subseteq 1..Cardinality(Services) /\ positions # {} /\ positions \subseteq Nat
  BY <1>1, <1>2
<1> HIDE DEF positions
<1>4. IsFiniteSet(positions)
  <2>1. IsFiniteSet(1..Cardinality(Services))
    BY ONLY <1>2, 1 \in Int, Nat \subseteq Int, FS_Interval
  <2> QED BY <1>3, <2>1, FS_Subset
<1>5. PICK m \in positions : \A n \in positions : n <= m
  BY <1>3, <1>4, LargestElement
<1>6. \E s \in Claims : \A t \in Claims : last[t] <= last[s]
  BY <1>5 DEF positions
<1>7. chosen \in Claims
  BY <1>6
<1> HIDE DEF chosen
<1> QED BY <1>1, <1>7 DEF Asked, Routed, Inv, Kernel

\* The plan covers every route the agent sees.
LEMMA PlanPlanned ==
  ASSUME Inv, PlanRoutes
  PROVE  RoutesPlanned'
<1>1. PICK last \in Orders :
        LET want == DesiredRoutes(it.rows, last)
        IN it' = [it EXCEPT !.pc = "replace", !.want = want,
                            !.todo = WrongRoutes(want), !.old = StaleRoutes(want)]
  BY DEF PlanRoutes
<1> DEFINE want == DesiredRoutes(it.rows, last)
<1>2. \A dst \in DOMAIN want : Asked(dst, want[dst]) /\ want[dst] # NoRoute
  BY PlanIsAsked, NullAssumption
<1> HIDE DEF want
<1>3. /\ it'.want = want /\ it'.todo = WrongRoutes(want) /\ it'.old = StaleRoutes(want)
      /\ it'.rows = it.rows
  BY <1>1 DEF want, Inv, IsPass
<1>4. routes' = routes /\ cache' = cache
  BY DEF PlanRoutes, OnlyIt, hostVars, dnsVars
<1>5. ASSUME NEW dst \in Watched', routes[dst] # NoRoute,
             dst \notin WrongRoutes(want) \cup StaleRoutes(want)
      PROVE  dst \in DOMAIN want /\ routes[dst] = want[dst]
  <2>1. dst \in Destinations /\ (dst = Default => dst \in DOMAIN want)
    BY <1>3, <1>5 DEF Watched
  <2>2. CASE dst \in DOMAIN want
    BY <1>2, <1>5, <2>1, <2>2 DEF WrongRoutes, Current
  <2>3. CASE dst \notin DOMAIN want
    BY <1>5, <2>1, <2>3 DEF StaleRoutes, Current
  <2> QED BY <2>2, <2>3
<1>6. WrongRoutes(want) \subseteq DOMAIN want
  BY DEF WrongRoutes
<1> QED BY <1>2, <1>3, <1>4, <1>5, <1>6
        DEF RoutesPlanned, Asked, Watched, DestinationsOf, Known

\* replace puts the planned route, del takes one away, and so does a lost link.
LEMMA RoutesPlannedStep == ASSUME Inv, RoutesPlanned, [Next]_vars PROVE RoutesPlanned'
<1>1. ASSUME it'.pc # "replace" PROVE RoutesPlanned'
  BY <1>1 DEF RoutesPlanned
<1>2. ASSUME it' = it, cache' = cache, it.pc = "replace",
             \A dst \in Destinations : routes'[dst] # NoRoute => routes'[dst] = routes[dst]
      PROVE  RoutesPlanned'
  BY <1>2 DEF RoutesPlanned, Asked, Watched, DestinationsOf, Known
<1>3. CASE PlanRoutes
  BY <1>3, PlanPlanned
<1>4. ASSUME NEW dst \in Destinations, ReplaceRoute(dst) PROVE RoutesPlanned'
  <2>1. /\ it.pc = "replace" /\ dst \in it.todo /\ cache' = cache
        /\ routes' = [routes EXCEPT ![dst] = it.want[dst]]
        /\ it' = [it EXCEPT !.todo = @ \ {dst}]
    BY <1>4 DEF ReplaceRoute, dnsVars
  <2>2. /\ it'.want = it.want /\ it'.todo = it.todo \ {dst} /\ it'.old = it.old
        /\ it'.rows = it.rows
    BY <2>1 DEF Inv, IsPass
  <2>3. \A d \in Destinations : routes'[d] = IF d = dst THEN it.want[dst] ELSE routes[d]
    BY <2>1 DEF Inv, Kernel
  <2> QED BY <2>1, <2>2, <2>3 DEF RoutesPlanned, Asked, Watched, DestinationsOf, Known
<1>5. ASSUME NEW dst \in Destinations, DeleteRoute(dst) PROVE RoutesPlanned'
  <2>1. /\ it.pc = "replace" /\ cache' = cache
        /\ routes' = [routes EXCEPT ![dst] = NoRoute]
        /\ it' = [it EXCEPT !.old = @ \ {dst}]
    BY <1>5 DEF DeleteRoute, dnsVars
  <2>2. /\ it'.want = it.want /\ it'.todo = it.todo /\ it'.old = it.old \ {dst}
        /\ it'.rows = it.rows
    BY <2>1 DEF Inv, IsPass
  <2>3. \A d \in Destinations : routes'[d] = IF d = dst THEN NoRoute ELSE routes[d]
    BY <2>1 DEF Inv, Kernel
  <2> QED BY <2>1, <2>2, <2>3 DEF RoutesPlanned, Asked, Watched, DestinationsOf, Known
<1>6. CASE Environment \/ UNCHANGED vars
  <2>1. cache' = cache /\ it' = it
    BY <1>6 DEF Environment, ChangeService, MatchSet, UnmatchSet, ChangeDns, ChangeAnswer,
                ChangeLink, dnsVars, envVars, vars
  <2>2. ASSUME NEW g \in Nexthops, ChangeLink(g), NEW dst \in Destinations, routes'[dst] # NoRoute
        PROVE  routes'[dst] = routes[dst]
    BY <2>2 DEF ChangeLink
  <2>3. (~\E g \in Nexthops : ChangeLink(g)) => routes' = routes
    BY <1>6 DEF Environment, ChangeService, MatchSet, UnmatchSet, ChangeDns, hostVars, vars
  <2> QED BY <1>1, <1>2, <2>1, <2>2, <2>3
<1>7. /\ \A time \in Pauses : Begin(time) => it'.pc # "replace"
      /\ SkipRoutes \/ RoutesDone \/ RoutesRefused \/ RoutesRaise \/ Crash => it'.pc # "replace"
  <2>1. ASSUME NEW time \in Pauses, Begin(time) PROVE it'.pc = "sets"
    BY <2>1 DEF Begin, AtRest
  <2>2. SkipRoutes \/ RoutesDone \/ RoutesRefused \/ RoutesRaise \/ Crash => it'.pc = "idle"
    BY DEF SkipRoutes, RoutesDone, RoutesRefused, RoutesRaise, Crash, AtRest
  <2> QED BY <2>1, <2>2
<1>8. SetsDone \/ SetsRaise => it'.pc # "replace"
  BY DEF SetsDone, SetsRaise, Inv, IsPass
<1>9. \A s \in Services : KeepSet(s) \/ CreateTemp(s) => it'.pc # "replace"
  BY DEF KeepSet, CreateTemp, Inv, IsPass
<1>10. FlushTemp \/ CreateSet \/ Swap \/ DestroyTemp => it'.pc # "replace"
  BY DEF FlushTemp, CreateSet, Swap, DestroyTemp, Inv, IsPass
<1>11. /\ \A ip \in Addresses : AddMember(ip) => it'.pc # "replace"
       /\ \A n \in Names : DestroyStale(n) \/ DestroyFails(n) => it'.pc # "replace"
  BY DEF AddMember, DestroyStale, DestroyFails, Inv, IsPass
<1> QED BY <1>1, <1>3, <1>4, <1>5, <1>6, <1>7, <1>8, <1>9, <1>10, <1>11 DEF Next, Agent, Failure

\* Only a swap brings a set to the list of those done, and the other commands
\* leave the sets on it alone.
LEMMA SetsFilledStep == ASSUME Inv, SetsFilled, [Next]_vars PROVE SetsFilled'
<1>1. ASSUME it'.pc \notin OnSets PROVE SetsFilled'
  BY <1>1 DEF SetsFilled
<1>2. ASSUME sets' = sets, it' = it PROVE SetsFilled'
  BY <1>2 DEF SetsFilled
<1>3. ASSUME NEW time \in Pauses, Begin(time) PROVE SetsFilled'
  <2>1. /\ it'.rows = rows /\ it'.goal = Memberships(rows, cache') /\ it'.todo = DOMAIN it'.goal
    BY <1>3 DEF Begin, AtRest
  <2> QED BY <2>1 DEF SetsFilled, Memberships
<1>4. ASSUME NEW s \in Services, KeepSet(s) PROVE SetsFilled'
  <2>1. /\ it.pc = "sets" /\ it'.pc = "sets" /\ it'.goal = it.goal /\ it'.rows = it.rows
        /\ it'.todo = it.todo \ {s} /\ sets' = sets /\ sets[SetName(s)] = it.goal[s]
    BY <1>4 DEF KeepSet, UpToDate, OnlyIt, hostVars, Inv, IsPass
  <2> QED BY <2>1 DEF SetsFilled, Filling, OnSets
<1>5. ASSUME it.pc \in OnSets, it'.goal = it.goal, it'.rows = it.rows, it'.todo = it.todo,
             it.pc \in Filling => it'.pc \in Filling /\ it'.current = it.current,
             \A t \in DOMAIN it.goal : \/ sets'[SetName(t)] = sets[SetName(t)]
                                      \/ (it'.pc \in Filling /\ t = it'.current)
      PROVE  SetsFilled'
  BY <1>5 DEF SetsFilled
<1>6. ASSUME NEW s \in Services, CreateTemp(s) PROVE SetsFilled'
  <2>1. /\ it.pc = "sets" /\ it'.pc = "flush" /\ it'.goal = it.goal /\ it'.rows = it.rows
        /\ it'.todo = it.todo \ {s} /\ it'.current = s
    BY <1>6 DEF CreateTemp, Inv, IsPass
  <2>2. \A t \in DOMAIN it.goal : sets'[SetName(t)] = sets[SetName(t)]
    BY <1>6, NamesDiffer, GoalFacts DEF CreateTemp, Put, Inv, Kernel
  <2> QED BY <2>1, <2>2 DEF SetsFilled, Filling, OnSets
<1>7. CASE Swap
  <2>1. /\ it'.pc = "destroy" /\ it'.goal = it.goal /\ it'.rows = it.rows
        /\ it'.todo = it.todo
    BY <1>7 DEF Swap, Inv, IsPass
  <2>2. it.pc \in OnSets /\ sets[TempName(it.current)] = it.goal[it.current]
        /\ it.current \in Services /\ DOMAIN it.goal \subseteq Services
    BY <1>7, SwapFacts, GoalFacts DEF OnSets
  <2>3. \A t \in DOMAIN it.goal :
          sets'[SetName(t)] = IF t = it.current THEN it.goal[t] ELSE sets[SetName(t)]
    BY <1>7, <2>2, SwapFacts, NamesDiffer
  <2> QED BY <2>1, <2>2, <2>3 DEF SetsFilled
<1>8. CASE FlushTemp \/ DestroyTemp \/ \E ip \in Addresses : AddMember(ip)
  <2>1. it.pc \in OnOne /\ it.pc \in OnSets /\ IsPass
    BY <1>8 DEF FlushTemp, AddMember, DestroyTemp, OnOne, OnSets, Inv
  <2>2. it.current \in Services /\ DOMAIN it.goal \subseteq Services
    BY <2>1, GoalFacts DEF Inv, SetsOK
  <2>3. \E members : sets' = [sets EXCEPT ![TempName(it.current)] = members]
    BY <1>8 DEF FlushTemp, DestroyTemp, AddMember, Put
  <2>4. \A t \in DOMAIN it.goal : sets'[SetName(t)] = sets[SetName(t)]
    BY <2>2, <2>3, NamesDiffer DEF Inv, Kernel
  <2>5. /\ it'.goal = it.goal /\ it'.rows = it.rows /\ it'.todo = it.todo
        /\ it.pc \in Filling => it'.pc \in Filling /\ it'.current = it.current
    BY <1>8, <2>1 DEF FlushTemp, AddMember, DestroyTemp, IsPass, Filling
  <2> QED BY <1>5, <2>1, <2>4, <2>5
<1>9. CASE CreateSet
  <2>1. /\ it.pc = "add" /\ it'.pc = "swap" /\ it'.goal = it.goal /\ it'.rows = it.rows
        /\ it'.todo = it.todo /\ it'.current = it.current
        /\ \E members : sets' = [sets EXCEPT ![SetName(it.current)] = members]
    BY <1>9 DEF CreateSet, Put, Inv, IsPass
  <2>2. it.current \in Services /\ DOMAIN it.goal \subseteq Services
    BY <2>1, GoalFacts DEF Inv, SetsOK, OnOne, OnSets
  <2>3. \A t \in DOMAIN it.goal \ {it.current} : sets'[SetName(t)] = sets[SetName(t)]
    BY <2>1, <2>2, NamesDiffer DEF Inv, Kernel
  <2> QED BY <1>5, <2>1, <2>3 DEF Filling, OnSets
<1>10. ASSUME NEW n \in Names, DestroyStale(n) \/ DestroyFails(n) PROVE SetsFilled'
  <2>1. /\ it.pc = "sets" /\ n \in it.stale /\ it'.goal = it.goal /\ it'.rows = it.rows
        /\ it'.todo = it.todo
        /\ \E members : sets' = [sets EXCEPT ![n] = members] \/ sets' = sets
    BY <1>10 DEF DestroyStale, DestroyFails, Leftover, Put, hostVars, Inv, IsPass
  <2>2. \A t \in DOMAIN it.goal : SetName(t) # n
    BY <2>1 DEF Inv, SetsOK, OnSets
  <2>3. \A t \in DOMAIN it.goal : sets'[SetName(t)] = sets[SetName(t)]
    BY <2>1, <2>2, NamesDiffer, GoalFacts DEF Inv, Kernel
  <2> QED BY <1>5, <2>1, <2>3 DEF OnSets, Filling
<1>11. \/ SkipRoutes \/ RoutesDone \/ RoutesRefused \/ RoutesRaise \/ Crash
       \/ SetsDone \/ SetsRaise \/ PlanRoutes
       \/ \E dst \in Destinations : ReplaceRoute(dst) \/ DeleteRoute(dst)
       => it'.pc \notin OnSets
  <2>1. SkipRoutes \/ RoutesDone \/ RoutesRefused \/ RoutesRaise \/ Crash => it'.pc = "idle"
    BY DEF SkipRoutes, RoutesDone, RoutesRefused, RoutesRaise, Crash, AtRest
  <2>2. SetsDone \/ SetsRaise => it'.pc = "routes"
    BY DEF SetsDone, SetsRaise, Inv, IsPass
  <2>3. PlanRoutes => it'.pc = "replace"
    BY DEF PlanRoutes, Inv, IsPass
  <2>4. ASSUME NEW dst \in Destinations, ReplaceRoute(dst) \/ DeleteRoute(dst)
        PROVE  it'.pc = "replace"
    BY <2>4 DEF ReplaceRoute, DeleteRoute, Inv, IsPass
  <2> QED BY <2>1, <2>2, <2>3, <2>4 DEF OnSets
<1>12. CASE Environment \/ UNCHANGED vars
  <2>1. sets' = sets /\ it' = it
    BY <1>12 DEF Environment, ChangeService, MatchSet, UnmatchSet, ChangeDns, ChangeLink,
                 hostVars, vars
  <2> QED BY <1>2, <2>1
<1> QED BY <1>1, <1>3, <1>4, <1>6, <1>7, <1>8, <1>9, <1>10, <1>11, <1>12
        DEF Next, Agent, Failure

\* A pass whose commands succeed ends with the sets the cache calls for, and with
\* no route of the agent that no service asks for.
THEOREM PassLeavesGoal == Spec => PassInstalls
<1> DEFINE Left ==
      /\ SetsDone =>
           \A s \in ByDomain(it.rows) :
             sets[SetName(s)] = UNION {Known(d).ips : d \in it.rows[s].domains}
      /\ RoutesDone =>
           \A dst \in Destinations \ ({Default} \ DOMAIN it.want) :
             routes[dst] # NoRoute =>
               \E s \in Stored(it.rows) : /\ dst \in DestinationsOf(it.rows[s])
                                          /\ routes[dst] = it.rows[s].nexthop
<1>1. Init => Aimed /\ SetsFilled /\ RoutesPlanned
  BY DEF Init, AtRest, Aimed, SetsFilled, RoutesPlanned, OnSets
<1>2. Inv /\ Aimed /\ SetsFilled /\ RoutesPlanned /\ [Next]_vars
        => Aimed' /\ SetsFilled' /\ RoutesPlanned'
  BY AimedStep, SetsFilledStep, RoutesPlannedStep
<1>3. ASSUME Inv, Aimed, SetsFilled, RoutesPlanned PROVE Left
  <2>1. ASSUME SetsDone, NEW s \in ByDomain(it.rows)
        PROVE  sets[SetName(s)] = UNION {Known(d).ips : d \in it.rows[s].domains}
    <3>1. it.pc = "sets" /\ it.pc \in OnSets /\ it.pc \notin Filling /\ it.todo = {}
      BY <2>1 DEF SetsDone, OnSets, Filling
    <3>2. s \in DOMAIN it.goal /\ sets[SetName(s)] = it.goal[s]
      BY <1>3, <2>1, <3>1 DEF SetsFilled
    <3>3. /\ it.rows[s].domains \subseteq DOMAIN cache
          /\ it.goal[s] = UNION {cache[d].ips : d \in it.rows[s].domains}
      BY <1>3, <3>1, <3>2 DEF Aimed
    <3>4. \A d \in it.rows[s].domains : Known(d) = cache[d]
      BY <3>3 DEF Known
    <3> QED BY <3>2, <3>3, <3>4
  <2>2. ASSUME RoutesDone, NEW dst \in Watched, routes[dst] # NoRoute
        PROVE  \E s \in Stored(it.rows) : /\ dst \in DestinationsOf(it.rows[s])
                                          /\ routes[dst] = it.rows[s].nexthop
    BY <1>3, <2>2 DEF RoutesDone, RoutesPlanned, Asked
  <2> QED BY <2>1, <2>2 DEF Watched
<1>4. Inv /\ Aimed /\ SetsFilled /\ RoutesPlanned /\ [Next]_vars => [Left]_vars
  BY <1>3
<1> QED BY <1>1, <1>2, <1>4, Invariance, PTL DEF Spec, PassInstalls

-----------------------------------------------------------------------------
(* A pass ends.                                                            *)

\* The pass has read the services, and what it deletes are destinations.
Viewed ==
  /\ it.rows \in [Services -> ServiceRows \cup {NoRow}]
  /\ it.pc = "replace" => it.old \subseteq Destinations

\* Begin reads the services, PlanRoutes the routes.
LEMMA ViewedStep == ASSUME Inv, Viewed, [Next]_vars PROVE Viewed'
<1>1. AtRest.rows \in [Services -> ServiceRows \cup {NoRow}] /\ AtRest.pc = "idle"
  BY DEF AtRest
<1>2. ASSUME it' = it PROVE Viewed'
  BY <1>2 DEF Viewed
<1>3. ASSUME it' = AtRest PROVE Viewed'
  BY <1>1, <1>3 DEF Viewed
<1>4. ASSUME it'.rows = it.rows, it'.pc # "replace" PROVE Viewed'
  BY <1>4 DEF Viewed
<1>5. ASSUME NEW time \in Pauses, Begin(time) PROVE Viewed'
  <2>1. it'.rows = rows /\ it'.pc = "sets"
    BY <1>5 DEF Begin, AtRest
  <2> QED BY <2>1 DEF Viewed, Inv, Kernel
<1>6. CASE PlanRoutes
  <2>1. it'.rows = it.rows /\ \E want : it'.old = StaleRoutes(want)
    BY <1>6 DEF PlanRoutes, Inv, IsPass
  <2> QED BY <2>1 DEF Viewed, StaleRoutes
<1>7. ASSUME NEW dst \in Destinations, ReplaceRoute(dst) \/ DeleteRoute(dst) PROVE Viewed'
  <2>1. it.pc = "replace" /\ it'.rows = it.rows /\ it'.old \subseteq it.old
    BY <1>7 DEF ReplaceRoute, DeleteRoute, Inv, IsPass
  <2> QED BY <2>1 DEF Viewed
<1>8. ASSUME \/ \E s \in Services : KeepSet(s) \/ CreateTemp(s)
             \/ FlushTemp \/ CreateSet \/ Swap \/ DestroyTemp \/ SetsDone \/ SetsRaise
             \/ \E ip \in Addresses : AddMember(ip)
             \/ \E n \in Names : DestroyStale(n) \/ DestroyFails(n)
      PROVE  it'.rows = it.rows /\ it'.pc # "replace"
  BY <1>8 DEF KeepSet, CreateTemp, FlushTemp, CreateSet, Swap, DestroyTemp, SetsDone, SetsRaise,
              AddMember, DestroyStale, DestroyFails, Inv, IsPass
<1>9. SkipRoutes \/ RoutesDone \/ RoutesRefused \/ RoutesRaise \/ Crash => it' = AtRest
  BY DEF SkipRoutes, RoutesDone, RoutesRefused, RoutesRaise, Crash
<1>10. Environment \/ UNCHANGED vars => it' = it
  BY DEF Environment, ChangeService, MatchSet, UnmatchSet, ChangeDns, ChangeLink, vars
<1> QED BY <1>2, <1>3, <1>4, <1>5, <1>6, <1>7, <1>8, <1>9, <1>10 DEF Next, Agent, Failure

\* What the count of the steps rests on.
Measured == Inv /\ Shape /\ RoutesPlanned /\ Viewed

\* What a pass works on is finite.
LEMMA Sizes ==
  /\ IsFiniteSet(Names) /\ Cardinality(Names) \in Nat
  /\ IsFiniteSet(Destinations) /\ Cardinality(Destinations) \in Nat
  /\ Cardinality(Addresses) \in Nat /\ Cardinality(Services) \in Nat
  /\ PerSet \in Nat /\ PerSet = Cardinality(Addresses) + 5
  /\ RoutesLeft \in Nat /\ RoutesLeft = Cardinality(Destinations) + 2
<1>1. IsFiniteSet({"set"} \cup {"tmp"})
  BY FS_Singleton, FS_Union
<1>2. Names = Services \X ({"set"} \cup {"tmp"})
  BY DEF Names
<1>3. IsFiniteSet(Names)
  BY <1>1, <1>2, FS_Product, RowsAssumption
<1>4. IsFiniteSet(Destinations)
  BY FS_Union, FiniteAssumption DEF Destinations
<1>5. /\ Cardinality(Names) \in Nat /\ Cardinality(Destinations) \in Nat
      /\ Cardinality(Addresses) \in Nat /\ Cardinality(Services) \in Nat
  BY <1>3, <1>4, FS_CardinalityType, FiniteAssumption, RowsAssumption
<1> QED BY <1>3, <1>4, <1>5 DEF PerSet, RoutesLeft

\* What the pass sends somewhere is a destination.
LEMMA WantIsRouted ==
  ASSUME Measured, it.pc = "replace"
  PROVE  it.todo \subseteq Destinations
<1> SUFFICES ASSUME NEW dst \in it.todo PROVE dst \in Destinations
  OBVIOUS
<1>1. PICK s \in Stored(it.rows) : dst \in DestinationsOf(it.rows[s])
  BY DEF Measured, RoutesPlanned, Asked
<1>2. it.rows[s] \in ServiceRows
  BY <1>1 DEF Measured, Viewed, Stored
<1>3. it.rows[s].subnets \subseteq Subnets
  BY <1>2, RowsAssumption
<1>4. \A d : Known(d).ips \subseteq Addresses
  <2> SUFFICES ASSUME NEW d PROVE Known(d).ips \subseteq Addresses
    OBVIOUS
  <2>1. Known(d) \in Entries
    BY KnownShape DEF Measured, Inv
  <2> QED BY <2>1 DEF Entries
<1> QED BY <1>1, <1>3, <1>4 DEF DestinationsOf, Destinations

\* The parts of what is left are numbers.
LEMMA Counts ==
  ASSUME Measured
  PROVE  /\ it.pc \in OnSets =>
              /\ IsFiniteSet(it.todo) /\ Cardinality(it.todo) \in Nat
              /\ IsFiniteSet(it.stale) /\ Cardinality(it.stale) \in Nat
         /\ it.pc = "add" =>
              /\ IsFiniteSet(it.adds) /\ Cardinality(it.adds) \in Nat
              /\ Cardinality(it.adds) <= Cardinality(Addresses)
         /\ it.pc = "replace" =>
              /\ IsFiniteSet(it.todo) /\ Cardinality(it.todo) \in Nat
              /\ IsFiniteSet(it.old) /\ Cardinality(it.old) \in Nat
              /\ Cardinality(it.todo) + Cardinality(it.old) <= Cardinality(Destinations)
<1>1. ASSUME NEW S, IsFiniteSet(S), NEW T \in SUBSET S
      PROVE  /\ IsFiniteSet(T) /\ Cardinality(T) \in Nat /\ Cardinality(T) <= Cardinality(S)
  BY <1>1, FS_Subset, FS_CardinalityType
<1>2. ASSUME it.pc \in OnSets PROVE it.todo \in SUBSET Services /\ it.stale \in SUBSET Names
  BY <1>2, GoalFacts DEF Measured, Inv, SetsOK
<1>3. ASSUME it.pc = "add" PROVE it.adds \in SUBSET Addresses
  <2>1. it.current \in DOMAIN it.goal /\ it.adds \subseteq it.goal[it.current]
    BY <1>3 DEF Measured, Inv, SetsOK, OnOne, OnSets
  <2> QED BY <2>1, GoalFacts DEF Measured, Inv
<1>4. ASSUME it.pc = "replace"
      PROVE  /\ IsFiniteSet(it.todo) /\ Cardinality(it.todo) \in Nat
             /\ IsFiniteSet(it.old) /\ Cardinality(it.old) \in Nat
             /\ Cardinality(it.todo) + Cardinality(it.old) <= Cardinality(Destinations)
  <2>1. it.todo \in SUBSET Destinations /\ it.old \in SUBSET Destinations
    BY <1>4, WantIsRouted DEF Measured, Viewed
  <2>2. it.todo \cap it.old = {}
    BY <1>4 DEF Measured, Inv, RoutesOK, RoutesPlanned
  <2>3. /\ IsFiniteSet(it.todo) /\ Cardinality(it.todo) \in Nat
        /\ IsFiniteSet(it.old) /\ Cardinality(it.old) \in Nat
    BY <1>1, <2>1, Sizes
  <2>4. Cardinality(it.todo \cup it.old) = Cardinality(it.todo) + Cardinality(it.old) - 0
    BY <2>2, <2>3, FS_Union, FS_EmptySet
  <2>5. Cardinality(it.todo \cup it.old) <= Cardinality(Destinations)
    BY <1>1, <2>1, Sizes
  <2> QED BY <2>3, <2>4, <2>5
<1>5. IsFiniteSet(Services) /\ IsFiniteSet(Names) /\ IsFiniteSet(Addresses)
  BY Sizes, RowsAssumption, FiniteAssumption
<1> QED BY <1>1, <1>2, <1>3, <1>4, <1>5

\* What is left of the set in hand is less than a whole set.
LEMMA HandBounds ==
  ASSUME Measured
  PROVE  InHand \in Nat /\ InHand < PerSet
<1> DEFINE a == Cardinality(it.adds)
           k == Cardinality(Addresses)
<1>1. k \in Nat /\ PerSet = k + 5
  BY Sizes
<1>2. it.pc = "add" => a \in Nat /\ a <= k /\ InHand = a + 3
  BY Counts DEF InHand
<1>3. it.pc # "add" => InHand \in {k + 4, 2, 1, 0}
  BY DEF InHand
<1> HIDE DEF a, k
<1> QED BY <1>1, <1>2, <1>3

\* What StepsLeft counts where.
Tally ==
  /\ it.pc \in {"idle", "routes", "replace"} \cup OnSets
  /\ it.pc = "idle" => StepsLeft = 0
  /\ it.pc = "replace" =>
       /\ StepsLeft = Cardinality(it.todo) + Cardinality(it.old) + 1
       /\ StepsLeft < RoutesLeft
  /\ it.pc = "routes" => StepsLeft = RoutesLeft
  /\ it.pc \in OnSets => StepsLeft = SetsLeft + RoutesLeft /\ SetsLeft \in Nat /\ SetsLeft > 0
  /\ it.pc # "idle" => StepsLeft > 0
  /\ StepsLeft \in Nat /\ RoutesLeft \in Nat /\ InHand \in Nat /\ InHand < PerSet

LEMMA Tallies == Measured => Tally
<1> SUFFICES ASSUME Measured PROVE Tally
  OBVIOUS
<1>1. it.pc \in {"idle", "routes", "replace"} \cup OnSets
  BY DEF Measured, Shape, Pcs, OnSets
<1>2. /\ it.pc = "idle" => StepsLeft = 0
      /\ it.pc = "replace" => StepsLeft = Cardinality(it.todo) + Cardinality(it.old) + 1
      /\ it.pc = "routes" => StepsLeft = RoutesLeft
      /\ it.pc \in OnSets => StepsLeft = SetsLeft + RoutesLeft
  BY DEF StepsLeft, OnSets
<1>3. it.pc \in OnSets => SetsLeft \in Nat /\ SetsLeft > 0
  <2>1. it.pc \in OnSets => /\ Cardinality(it.todo) \in Nat /\ Cardinality(it.stale) \in Nat
    BY Counts
  <2>2. it.pc \in OnSets => Cardinality(it.todo) * PerSet \in Nat
    BY <2>1, Sizes, Product
  <2> QED BY <2>1, <2>2, HandBounds DEF SetsLeft
<1>4. it.pc = "replace" =>
        /\ Cardinality(it.todo) \in Nat /\ Cardinality(it.old) \in Nat
        /\ Cardinality(it.todo) + Cardinality(it.old) <= Cardinality(Destinations)
  BY Counts
<1> QED BY <1>1, <1>2, <1>3, <1>4, Sizes, HandBounds DEF Tally

\* The members still to add are members of the set in hand.
AddsBounded ==
  it.pc = "add" =>
    Cardinality(it.adds) \in Nat /\ Cardinality(it.adds) <= Cardinality(Addresses)

LEMMA AddsAreBounded == Measured => AddsBounded
BY Counts DEF AddsBounded

\* A command for the sets: less of them is left.
LEMMA SetsLess ==
  ASSUME Measured, Measured', it.pc \in OnSets, it'.pc \in OnSets, SetsLeft' < SetsLeft
  PROVE  StepsLeft' < StepsLeft
<1>1. Tally /\ Tally'
  BY Tallies, PTL
<1>2. RoutesLeft' = RoutesLeft
  BY DEF RoutesLeft
<1> QED BY <1>1, <1>2 DEF Tally

\* A set that is done or taken in hand was set aside for.
LEMMA TakeLess ==
  ASSUME Measured, Measured', NEW s \in it.todo, it.pc = "sets", it'.pc \in OnSets,
         it'.todo = it.todo \ {s}, it'.stale = it.stale
  PROVE  StepsLeft' < StepsLeft
<1> DEFINE n == Cardinality(it.todo \ {s})
           r == Cardinality(it.stale)
<1>1. it.pc \in OnSets
  BY DEF OnSets
<1>2. Cardinality(it.todo) = n + 1 /\ n \in Nat /\ r \in Nat
  BY <1>1, Counts, OneLess
<1>3. PerSet \in Nat /\ PerSet' = PerSet
  BY Sizes DEF PerSet
<1>4. InHand = 0 /\ InHand' \in Nat /\ InHand' < PerSet
  <2>1. Tally'
    BY Tallies, PTL
  <2> QED BY <1>3, <2>1 DEF Tally, InHand
<1>5. SetsLeft = (n + 1) * PerSet + 0 + r + 1
  BY <1>2, <1>4 DEF SetsLeft
<1>6. SetsLeft' = n * PerSet + InHand' + r + 1
  BY <1>3 DEF SetsLeft
<1> HIDE DEF n, r
<1>7. (n + 1) * PerSet = n * PerSet + PerSet /\ n * PerSet \in Nat
  BY <1>2, <1>3, Product
<1>8. ASSUME NEW h \in Nat, h < PerSet
      PROVE  n * PerSet + h + r + 1 < (n + 1) * PerSet + 0 + r + 1
  BY <1>2, <1>3, <1>7, <1>8
<1>9. SetsLeft' < SetsLeft
  BY <1>4, <1>5, <1>6, <1>8
<1> QED BY <1>1, <1>9, SetsLess

\* A command for the set in hand.
LEMMA HandLess ==
  ASSUME Measured, Measured', it.pc \in OnSets, it'.pc \in OnSets,
         it'.todo = it.todo, it'.stale = it.stale, InHand' < InHand
  PROVE  StepsLeft' < StepsLeft
<1> DEFINE p == Cardinality(it.todo) * PerSet
           r == Cardinality(it.stale)
<1>1. p \in Nat /\ r \in Nat
  BY Counts, Sizes, Product
<1>2. InHand \in Nat /\ InHand' \in Nat
  <2>1. Tally /\ Tally'
    BY Tallies, PTL
  <2> QED BY <2>1 DEF Tally
<1>3. SetsLeft = p + InHand + r + 1 /\ SetsLeft' = p + InHand' + r + 1
  BY DEF SetsLeft, PerSet
<1> HIDE DEF p, r
<1>4. ASSUME NEW h \in Nat, NEW g \in Nat, h < g PROVE p + h + r + 1 < p + g + r + 1
  BY <1>1, <1>4
<1>5. SetsLeft' < SetsLeft
  BY <1>2, <1>3, <1>4
<1> QED BY <1>5, SetsLess

\* create, flush, add, swap and destroy, each one command less.
LEMMA OnOneLess ==
  ASSUME Measured, Measured',
         FlushTemp \/ CreateSet \/ Swap \/ DestroyTemp \/ \E ip \in Addresses : AddMember(ip)
  PROVE  StepsLeft' < StepsLeft
<1> DEFINE k == Cardinality(Addresses)
<1>1. IsPass /\ k \in Nat
  BY Sizes DEF Measured, Inv
<1>2. SUFFICES /\ it.pc \in OnSets /\ it'.pc \in OnSets
               /\ it'.todo = it.todo /\ it'.stale = it.stale
               /\ InHand' < InHand
  BY HandLess
<1>3. CASE FlushTemp
  <2> DEFINE a == Cardinality(it'.adds)
  <2>1. it.pc = "flush" /\ it'.pc = "add" /\ it'.todo = it.todo /\ it'.stale = it.stale
    BY <1>1, <1>3 DEF FlushTemp, IsPass
  <2>2. InHand = k + 4 /\ InHand' = a + 3
    BY <2>1 DEF InHand
  <2>3. a \in Nat /\ a <= k
    <3>1. AddsBounded'
      BY AddsAreBounded, PTL
    <3> QED BY <2>1, <3>1 DEF AddsBounded
  <2> HIDE DEF a, k
  <2>4. InHand' < InHand
    BY <1>1, <2>2, <2>3
  <2> QED BY <2>1, <2>4 DEF OnSets
<1>4. ASSUME NEW ip \in Addresses, AddMember(ip)
      PROVE  /\ it.pc \in OnSets /\ it'.pc \in OnSets
             /\ it'.todo = it.todo /\ it'.stale = it.stale
             /\ InHand' < InHand
  <2> DEFINE a == Cardinality(it.adds \ {ip})
  <2>1. /\ it.pc = "add" /\ it'.pc = "add" /\ it'.todo = it.todo /\ it'.stale = it.stale
        /\ ip \in it.adds /\ it'.adds = it.adds \ {ip}
    BY <1>1, <1>4 DEF AddMember, IsPass
  <2>2. Cardinality(it.adds) = a + 1 /\ a \in Nat
    BY <2>1, Counts, OneLess
  <2>3. InHand = a + 1 + 3 /\ InHand' = a + 3
    BY <2>1, <2>2 DEF InHand
  <2> HIDE DEF a
  <2>4. InHand' < InHand
    BY <2>2, <2>3
  <2> QED BY <2>1, <2>4 DEF OnSets
<1>5. CASE CreateSet \/ Swap
  <2>1. /\ \/ it.pc = "add" /\ it.adds = {} /\ it'.pc \in {"swap", "destroy"}
           \/ it.pc = "swap" /\ it'.pc = "destroy"
        /\ it'.todo = it.todo /\ it'.stale = it.stale
    BY <1>1, <1>5 DEF CreateSet, Swap, Ready, IsPass
  <2>2. \/ InHand = 3 /\ InHand' \in {2, 1}
        \/ InHand = 2 /\ InHand' = 1
    BY <2>1, FS_EmptySet DEF InHand
  <2>3. InHand' < InHand
    BY <2>2
  <2> QED BY <2>1, <2>3 DEF OnSets
<1>6. CASE DestroyTemp
  <2>1. it.pc = "destroy" /\ it'.pc = "sets" /\ it'.todo = it.todo /\ it'.stale = it.stale
    BY <1>1, <1>6 DEF DestroyTemp, IsPass
  <2>2. InHand = 1 /\ InHand' = 0
    BY <2>1 DEF InHand
  <2> QED BY <2>1, <2>2 DEF OnSets
<1> QED BY <1>3, <1>4, <1>5, <1>6

\* A set that no service wants is tried once.
LEMMA StaleLess ==
  ASSUME Measured, Measured', NEW n \in Names, DestroyStale(n) \/ DestroyFails(n)
  PROVE  StepsLeft' < StepsLeft
<1> DEFINE r == Cardinality(it.stale \ {n})
<1>1. /\ it.pc = "sets" /\ it'.pc = "sets" /\ it.todo = {} /\ it'.todo = {}
      /\ n \in it.stale /\ it'.stale = it.stale \ {n}
  BY DEF DestroyStale, DestroyFails, Leftover, Measured, Inv, IsPass
<1>2. it.pc \in OnSets /\ it'.pc \in OnSets
  BY <1>1 DEF OnSets
<1>3. Cardinality(it.stale) = r + 1 /\ r \in Nat
  BY <1>1, <1>2, Counts, OneLess
<1>4. InHand = 0 /\ InHand' = 0
  BY <1>1 DEF InHand
<1>5. 0 * PerSet = 0
  BY Sizes
<1>6. SetsLeft = r + 1 + 1 /\ SetsLeft' = r + 1
  <2>1. SetsLeft = 0 * PerSet + 0 + (r + 1) + 1 /\ SetsLeft' = 0 * PerSet + 0 + r + 1
    BY <1>1, <1>3, <1>4, FS_EmptySet DEF SetsLeft, PerSet
  <2> HIDE DEF r
  <2> QED BY <1>3, <1>5, <2>1
<1> HIDE DEF r
<1>7. SetsLeft' < SetsLeft
  BY <1>3, <1>6
<1> QED BY <1>2, <1>7, SetsLess

\* From the sets to the routes, and on to the plan.
LEMMA PhaseLess ==
  ASSUME Measured, Measured', SetsDone \/ SetsRaise \/ PlanRoutes
  PROVE  StepsLeft' < StepsLeft
<1>1. Tally /\ Tally'
  BY Tallies, PTL
<1>2. RoutesLeft' = RoutesLeft
  BY DEF RoutesLeft
<1>3. CASE SetsDone \/ SetsRaise
  <2>1. it.pc \in OnSets /\ it'.pc = "routes"
    BY <1>3 DEF SetsDone, SetsRaise, OnSets, Measured, Inv, IsPass
  <2> QED BY <1>1, <1>2, <2>1 DEF Tally
<1>4. CASE PlanRoutes
  <2>1. it.pc = "routes" /\ it'.pc = "replace"
    BY <1>4 DEF PlanRoutes, Measured, Inv, IsPass
  <2> QED BY <1>1, <1>2, <2>1 DEF Tally
<1> QED BY <1>3, <1>4

\* A route less to replace or to delete.
LEMMA RouteLess ==
  ASSUME Measured, Measured', NEW dst \in Destinations, ReplaceRoute(dst) \/ DeleteRoute(dst)
  PROVE  StepsLeft' < StepsLeft
<1>1. Tally /\ Tally'
  BY Tallies, PTL
<1>2. /\ it.pc = "replace" /\ it'.pc = "replace"
      /\ \/ dst \in it.todo /\ it'.todo = it.todo \ {dst} /\ it'.old = it.old
         \/ dst \in it.old /\ it'.todo = it.todo /\ it'.old = it.old \ {dst}
  BY DEF ReplaceRoute, DeleteRoute, Measured, Inv, IsPass
<1> DEFINE t == Cardinality(it.todo)
           o == Cardinality(it.old)
           t2 == Cardinality(it'.todo)
           o2 == Cardinality(it'.old)
<1>3. \/ t = t2 + 1 /\ o = o2
      \/ t = t2 /\ o = o2 + 1
  BY <1>2, Counts, OneLess
<1>4. StepsLeft = t + o + 1 /\ StepsLeft' = t2 + o2 + 1
  BY <1>1, <1>2 DEF Tally
<1>5. t \in Nat /\ o \in Nat /\ t2 \in Nat /\ o2 \in Nat
  BY <1>2, Counts, OneLess
<1> HIDE DEF t, o, t2, o2
<1> QED BY <1>3, <1>4, <1>5

\* What the host and the database hold bounds the pass.
LEMMA BeginBounded ==
  ASSUME Measured, Measured', NEW time \in Pauses, Begin(time)
  PROVE  StepsLeft' <= Cardinality(Services) * PerSet + Cardinality(Names) + 1 + RoutesLeft
<1> DEFINE n == Cardinality(Services)
           m == Cardinality(Names)
           t == Cardinality(it'.todo)
           r == Cardinality(it'.stale)
<1>1. it'.pc = "sets" /\ it'.todo \subseteq Services /\ it'.stale \subseteq Names
  BY DEF Begin, AtRest, Memberships, ByDomain, Stored
<1>2. n \in Nat /\ m \in Nat /\ t \in Nat /\ r \in Nat /\ t <= n /\ r <= m
  BY <1>1, Sizes, RowsAssumption, FS_Subset, FS_CardinalityType
<1>3. InHand' = 0 /\ PerSet' = PerSet /\ RoutesLeft' = RoutesLeft
      /\ PerSet \in Nat /\ RoutesLeft \in Nat
  BY <1>1, Sizes DEF InHand, PerSet, RoutesLeft
<1>4. SetsLeft' = t * PerSet + 0 + r + 1
  BY <1>3 DEF SetsLeft
<1>5. StepsLeft' = SetsLeft' + RoutesLeft
  <2>1. Tally'
    BY Tallies, PTL
  <2> QED BY <1>1, <1>3, <2>1 DEF Tally, OnSets
<1> HIDE DEF n, m, t, r
<1>6. t * PerSet <= n * PerSet /\ t * PerSet \in Nat /\ n * PerSet \in Nat
  BY <1>2, <1>3, Product
<1>7. StepsLeft' <= n * PerSet + m + 1 + RoutesLeft
  BY <1>2, <1>3, <1>4, <1>5, <1>6
<1> QED BY <1>7 DEF n, m

\* A pass over ipsets and routes ends after a number of commands that services,
\* sets, addresses and destinations bound, whatever DNS said, whatever fails, and
\* whatever the links do meanwhile.
THEOREM Terminates == Spec => PassEnds
<1> DEFINE Bound == Cardinality(Services) * PerSet + Cardinality(Names) + 1 + RoutesLeft
           Fewer == /\ StepsLeft' \in Nat
                    /\ it.pc # "idle" /\ it' # it => StepsLeft' < StepsLeft
                    /\ (\E time \in Pauses : Begin(time)) => StepsLeft' <= Bound
<1>1. Init => Shape /\ RoutesPlanned /\ Viewed
  BY DEF Init, DnsInit, AtRest, Shape, Pcs, RoutesPlanned, Viewed
<1>2. Inv /\ Shape /\ RoutesPlanned /\ Viewed /\ [Next]_vars => Shape' /\ RoutesPlanned' /\ Viewed'
  BY ShapeStep, RoutesPlannedStep, ViewedStep
<1>3. Spec => []Measured
  BY <1>1, <1>2, Invariance, PTL DEF Spec, Measured
<1>4. ASSUME Measured, Measured', [Next]_vars PROVE Fewer
  <2>1. Tally /\ Tally'
    BY <1>4, Tallies, PTL
  <2>2. StepsLeft' \in Nat
    BY <2>1 DEF Tally
  <2>3. ASSUME NEW time \in Pauses, Begin(time) PROVE it.pc = "idle" /\ StepsLeft' <= Bound
    BY <1>4, <2>3, BeginBounded DEF Begin
  <2>4. ASSUME it' = AtRest, it.pc # "idle" PROVE StepsLeft' < StepsLeft
    <3>1. it'.pc = "idle"
      BY <2>4 DEF AtRest
    <3> QED BY <2>1, <2>4, <3>1 DEF Tally
  <2>5. ASSUME NEW s \in Services, KeepSet(s) \/ CreateTemp(s) PROVE StepsLeft' < StepsLeft
    <3>1. /\ it.pc = "sets" /\ s \in it.todo /\ it'.pc \in OnSets
          /\ it'.todo = it.todo \ {s} /\ it'.stale = it.stale
      BY <1>4, <2>5 DEF KeepSet, CreateTemp, OnSets, Measured, Inv, IsPass
    <3> QED BY <1>4, <3>1, TakeLess
  <2>6. SkipRoutes \/ RoutesDone \/ RoutesRefused \/ RoutesRaise \/ Crash => it' = AtRest
    BY DEF SkipRoutes, RoutesDone, RoutesRefused, RoutesRaise, Crash
  <2>7. Environment \/ UNCHANGED vars => it' = it
    BY DEF Environment, ChangeService, MatchSet, UnmatchSet, ChangeDns, ChangeLink, vars
  <2>8. \/ it' = it \/ it' = AtRest \/ StepsLeft' < StepsLeft
        \/ \E time \in Pauses : Begin(time)
    BY <1>4, <2>5, <2>6, <2>7, OnOneLess, StaleLess, PhaseLess, RouteLess
       DEF Next, Agent, Failure
  <2> HIDE DEF Bound
  <2> QED BY <2>2, <2>3, <2>4, <2>8
<1>5. Measured /\ Measured' /\ [Next]_vars => [Fewer]_vars
  BY <1>4
<1> QED BY <1>3, <1>5, PTL DEF Spec, PassEnds

-----------------------------------------------------------------------------
(* The refinement: what rules see of the sets.                             *)

\* Nothing rules see changes.
LEMMA Unseen ==
  ASSUME \A s \in Services : sets'[SetName(s)] = sets[SetName(s)],
         it'.goal = it.goal, rules' = rules
  PROVE  UNCHANGED Sets!vars
BY DEF Sets!vars

\* One service's set changes.
LEMMA SeenAt ==
  ASSUME NEW s \in Services, NEW members,
         \A t \in Services : sets'[SetName(t)] = IF t = s THEN members ELSE sets[SetName(t)],
         it'.goal = it.goal, rules' = rules
  PROVE  Sets!Become(s, members)
BY DEF Sets!Become

\* A command on the temporary set is not seen.
LEMMA TempUnseen ==
  ASSUME Inv, NEW s \in Services, NEW members, Put(TempName(s), members), it'.goal = it.goal
  PROVE  UNCHANGED Sets!vars
<1>1. sets' = [sets EXCEPT ![TempName(s)] = members] /\ rules' = rules
  BY DEF Put, envVars
<1>2. \A t \in Services : sets'[SetName(t)] = sets[SetName(t)]
  BY <1>1, NamesDiffer DEF Inv, Kernel
<1> QED BY <1>1, <1>2, Unseen

\* A set that was not there appears, empty.
LEMMA CreateSeen == ASSUME Inv, CreateSet PROVE [Sets!Next]_(Sets!vars)
<1> DEFINE s == it.current
           members == IF Present(SetName(s)) THEN sets[SetName(s)] ELSE {}
<1>1. /\ sets' = [sets EXCEPT ![SetName(s)] = members] /\ rules' = rules
      /\ it' = [it EXCEPT !.pc = "swap"] /\ IsPass /\ it.pc = "add"
  BY DEF CreateSet, Put, envVars, Inv
<1>2. s \in DOMAIN it.goal /\ s \in Services
  BY <1>1, GoalFacts DEF Inv, SetsOK, OnOne, OnSets
<1>3. it'.goal = it.goal
  BY <1>1 DEF IsPass
<1>4. \A t \in Services : sets'[SetName(t)] = IF t = s THEN members ELSE sets[SetName(t)]
  BY <1>1, <1>2, NamesDiffer DEF Inv, Kernel
<1> HIDE DEF s
<1>5. CASE Present(SetName(s))
  BY <1>1, <1>2, <1>3, <1>4, <1>5, Unseen
<1>6. CASE ~Present(SetName(s))
  <2>1. Sets!Become(s, {})
    BY <1>1, <1>2, <1>3, <1>4, <1>6, SeenAt
  <2>2. Sets!Appear(s)
    BY <1>2, <1>6, <2>1 DEF Sets!Appear, Sets!Shown, Present
  <2> QED BY <1>2, <2>2 DEF Sets!Next
<1> QED BY <1>5, <1>6

\* A swap brings the complete membership.
LEMMA SwapSeen == ASSUME Inv, Swap PROVE [Sets!Next]_(Sets!vars)
<1> DEFINE s == it.current
<1>1. /\ s \in DOMAIN it.goal /\ s \in Services /\ Present(SetName(s))
      /\ sets[TempName(s)] = it.goal[s] /\ IsPass
  BY SwapFacts
<1>2. \A t \in Services : sets'[SetName(t)] = IF t = s THEN it.goal[s] ELSE sets[SetName(t)]
  BY SwapFacts, NamesDiffer
<1>3. it'.goal = it.goal /\ rules' = rules
  BY <1>1 DEF Swap, IsPass, envVars
<1> HIDE DEF s
<1>4. Sets!Become(s, it.goal[s])
  BY <1>1, <1>2, <1>3, SeenAt
<1>5. Sets!Complete(s)
  BY <1>1, <1>4 DEF Sets!Complete, Sets!Shown, Present
<1> QED BY <1>1, <1>5 DEF Sets!Next

\* A stale set disappears while no rule matches it.
LEMMA DestroySeen == ASSUME Inv, NEW n \in Names, DestroyStale(n) PROVE [Sets!Next]_(Sets!vars)
<1> DEFINE refused == ~Present(n) \/ \E s \in rules : n = SetName(s)
<1>1. /\ sets' = [sets EXCEPT ![n] = IF refused THEN sets[n] ELSE NoSet] /\ rules' = rules
      /\ it' = [it EXCEPT !.stale = @ \ {n}] /\ IsPass /\ it.pc = "sets" /\ n \in it.stale
  BY DEF DestroyStale, Put, envVars, Inv, Leftover
<1>2. it'.goal = it.goal
  BY <1>1 DEF IsPass
<1>3. \A m \in Names : sets'[m] = IF m = n /\ ~refused THEN NoSet ELSE sets[m]
  BY <1>1 DEF Inv, Kernel
<1>4. CASE refused
  <2>1. \A t \in Services : sets'[SetName(t)] = sets[SetName(t)]
    BY <1>3, <1>4, NamesDiffer
  <2> QED BY <1>1, <1>2, <2>1, Unseen
<1>5. CASE ~refused
  <2>1. PICK s \in Services : n = SetName(s) \/ n = TempName(s)
    BY NamesDiffer
  <2>2. CASE n = TempName(s)
    <3>1. \A t \in Services : sets'[SetName(t)] = sets[SetName(t)]
      BY <1>3, <2>2, NamesDiffer
    <3> QED BY <1>1, <1>2, <3>1, Unseen
  <2>3. CASE n = SetName(s)
    <3>1. s \notin rules /\ s \notin DOMAIN it.goal
      BY <1>1, <1>5, <2>3 DEF Inv, SetsOK, OnSets
    <3>2. \A t \in Services : sets'[SetName(t)] = IF t = s THEN NoSet ELSE sets[SetName(t)]
      BY <1>3, <1>5, <2>3, NamesDiffer
    <3> HIDE DEF refused
    <3>3. Sets!Become(s, NoSet)
      BY <1>1, <1>2, <3>2, SeenAt
    <3>4. Sets!Disappear(s)
      BY <3>1, <3>3 DEF Sets!Disappear
    <3> QED BY <3>4 DEF Sets!Next
  <2> QED BY <2>1, <2>2, <2>3
<1> QED BY <1>4, <1>5

\* Another aim, or none.
LEMMA AimSeen ==
  ASSUME Inv', UNCHANGED <<sets, rules>>
  PROVE  [Sets!Next]_(Sets!vars)
<1>1. it'.goal \in Goals
  BY DEF Inv, IsPass
<1>2. PICK wanted \in SUBSET Services : it'.goal \in [wanted -> SUBSET Addresses]
  BY <1>1 DEF Goals
<1>3. Sets!Aim
  BY <1>2 DEF Sets!Aim
<1> QED BY <1>3 DEF Sets!Next

\* iptables starts and stops to match a set.
LEMMA MatchSeen ==
  ASSUME NEW s \in Services, MatchSet(s) \/ UnmatchSet(s)
  PROVE  [Sets!Next]_(Sets!vars)
<1>1. UNCHANGED <<sets, it>>
  BY DEF MatchSet, UnmatchSet, hostVars
<1>2. Sets!Match(s) \/ Sets!Unmatch(s)
  BY <1>1 DEF MatchSet, UnmatchSet, Sets!Match, Sets!Unmatch, Sets!Shown, Present
<1> QED BY <1>2 DEF Sets!Next

\* Every step of the host is a step of the abstract sets, or unseen.
LEMMA StepSeen == ASSUME Inv, Inv', [Next]_vars PROVE [Sets!Next]_(Sets!vars)
<1>1. CASE UNCHANGED <<sets, rules>>
  BY <1>1, AimSeen
<1>2. ASSUME NEW s \in Services, CreateTemp(s) PROVE [Sets!Next]_(Sets!vars)
  <2>1. /\ it' = [it EXCEPT !.pc = "flush", !.todo = @ \ {s}, !.current = s] /\ IsPass
        /\ \E members : Put(TempName(s), members)
    BY <1>2 DEF CreateTemp, Inv
  <2>2. it'.goal = it.goal
    BY <2>1 DEF IsPass
  <2> QED BY <2>1, <2>2, TempUnseen
<1>3. CASE FlushTemp \/ (\E ip \in Addresses : AddMember(ip)) \/ DestroyTemp
  <2>1. it.pc \in OnOne /\ IsPass
    BY <1>3 DEF FlushTemp, AddMember, DestroyTemp, OnOne, OnSets, Inv
  <2>2. it.current \in Services
    BY <2>1, GoalFacts DEF Inv, SetsOK
  <2>3. \E members : Put(TempName(it.current), members)
    BY <1>3 DEF FlushTemp, AddMember, DestroyTemp
  <2>4. it'.goal = it.goal
    BY <1>3, <2>1 DEF FlushTemp, AddMember, DestroyTemp, IsPass
  <2> QED BY <2>2, <2>3, <2>4, TempUnseen
<1>4. ASSUME NEW n \in Names, DestroyFails(n) PROVE UNCHANGED <<sets, rules>>
  BY <1>4 DEF DestroyFails, hostVars, envVars
<1>5. \/ \E time \in Pauses : Begin(time)
      \/ \E s \in Services : KeepSet(s) \/ ChangeService(s)
      \/ \E d \in Domains : ChangeDns(d)
      \/ \E g \in Nexthops : ChangeLink(g)
      \/ \E dst \in Destinations : ReplaceRoute(dst) \/ DeleteRoute(dst)
      \/ SetsDone \/ SkipRoutes \/ PlanRoutes \/ RoutesDone \/ RoutesRefused
      \/ SetsRaise \/ RoutesRaise \/ Crash \/ UNCHANGED vars
      => UNCHANGED <<sets, rules>>
  BY DEF Begin, KeepSet, ChangeService, ChangeDns, ChangeLink, ReplaceRoute, DeleteRoute,
         SetsDone, SkipRoutes, PlanRoutes, RoutesDone, RoutesRefused, SetsRaise, RoutesRaise,
         Crash, OnlyIt, envVars, hostVars, vars
<1> QED BY <1>1, <1>2, <1>3, <1>4, <1>5, CreateSeen, SwapSeen, DestroySeen, MatchSeen
    DEF Next, Agent, Environment, Failure

\* The docstring of _reconcile_ipset: to the rules every membership comes in one
\* step, complete, and a set they match does not go away.
THEOREM Implementation == Spec => SetsAreAtomic
<1>1. Init => Sets!Init
  <2> SUFFICES ASSUME Init PROVE Sets!Init
    OBVIOUS
  <2>1. Inv
    BY InitInv
  <2>2. [s \in Services |-> sets[SetName(s)]] \in [Services -> {NoSet} \cup SUBSET Addresses]
    BY <2>1, NamesDiffer DEF Inv, Kernel
  <2>3. it.goal = Sets!Nothing
    BY DEF Init, AtRest, Sets!Nothing
  <2>4. rules = {}
    BY DEF Init
  <2> QED BY <2>2, <2>3, <2>4 DEF Sets!Init
<1>2. Inv /\ Inv' /\ [Next]_vars => [Sets!Next]_(Sets!vars)
  BY StepSeen
<1> QED BY <1>1, <1>2, Invariance, PTL DEF Spec, SetsAreAtomic, Sets!Spec
=============================================================================
