----------------------------- MODULE AtomicSets -----------------------------
(***************************************************************************)
(* What iptables may see of the ipsets the agent manages: a set appears    *)
(* empty, takes on a complete membership in one step, and disappears only  *)
(* while no rule matches it.  The abstract specification of                *)
(* _reconcile_ipsets (services/server_agent.py).                           *)
(***************************************************************************)
CONSTANTS
  Services,
  Addresses,
  NoSet          \* the set of a service that has none

VARIABLES
  visible,       \* the membership of each service's set
  goal,          \* the complete memberships the agent is working towards
  used           \* services whose set a rule matches

vars == <<visible, goal, used>>

\* No service to work for.
Nothing == [s \in {} |-> {}]

Shown(s) == visible[s] # NoSet

Init ==
  /\ visible \in [Services -> {NoSet} \cup SUBSET Addresses]
  /\ goal = Nothing
  /\ used \subseteq {s \in Services : Shown(s)}

\* New services or new DNS answers: other memberships are wanted.
Aim ==
  /\ \E wanted \in SUBSET Services : goal' \in [wanted -> SUBSET Addresses]
  /\ UNCHANGED <<visible, used>>

\* Aim is over, until the next iteration.
Rest ==
  /\ goal' = Nothing
  /\ UNCHANGED <<visible, used>>

Become(s, membership) ==
  /\ visible' = [visible EXCEPT ![s] = membership]
  /\ UNCHANGED <<goal, used>>

Appear(s) == s \in DOMAIN goal /\ ~Shown(s) /\ Become(s, {})
Complete(s) == s \in DOMAIN goal /\ Shown(s) /\ Become(s, goal[s])
Disappear(s) == s \notin DOMAIN goal /\ s \notin used /\ Become(s, NoSet)

\* A rule that matches a set can be added while the set is there.
Match(s) == Shown(s) /\ used' = used \cup {s} /\ UNCHANGED <<visible, goal>>
Unmatch(s) == used' = used \ {s} /\ UNCHANGED <<visible, goal>>

Next ==
  \/ Aim
  \/ Rest
  \/ \E s \in Services :
        Appear(s) \/ Complete(s) \/ Disappear(s) \/ Match(s) \/ Unmatch(s)

Spec == Init /\ [][Next]_vars
=============================================================================
