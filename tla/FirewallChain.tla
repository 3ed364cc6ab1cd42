--------------------------- MODULE FirewallChain ---------------------------
(***************************************************************************)
(* How the agent edits the filter table: _reconcile_firewall and the       *)
(* iptables commands it runs, one at a time.  Every command takes effect   *)
(* in the kernel at once; the next one may fail or never run because the   *)
(* process died, and packets are judged by whatever is there in between.   *)
(*                                                                         *)
(* A chain is a sequence of rules.  The agent reads it back as a set of    *)
(* ACCEPTs and one DROP, so the order it keeps is part of what is checked. *)
(*                                                                         *)
(* It compares texts: the one it builds from the database and the options, *)
(* and the one `iptables -S` prints of the same rule.  A subnet or a       *)
(* whitelist entry goes into the text as it was entered, so the two may    *)
(* differ: "-d 0.0.0.0/0" is printed as no -d at all, "-d 1.2.3.4" as      *)
(* "-d 1.2.3.4/32", "-d 10.1.2.3/8" as "-d 10.0.0.0/8".  So may a protocol *)
(* after a set match, which is printed in front of it.                     *)
(***************************************************************************)
EXTENDS Integers, Sequences, FiniteSets, SequencesExt

CONSTANTS
  Chains,        \* names <prefix>_<instance>_<subnet> of managed chains
  Accepts,       \* texts of ACCEPT rules, as built and as printed
  Printed,       \* what `iptables -S` prints of a rule given by its text
  Wantable,      \* sets of texts the database and the options may ask of a chain
  NoChain,       \* a chain that does not exist
  MaxChanges,    \* bound of the number of data and configuration changes
  MaxFailures    \* bound of the number of failing commands and crashes

ASSUME BoundAssumption == MaxChanges \in Nat /\ MaxFailures \in Nat

\* The agent's default deny, and a DROP rule somebody else left in its place
\* (an operator, or a release that wrote it differently).
Drop == "DROP"
OtherDrop == "OTHER_DROP"
Drops == {Drop, OtherDrop}

\* What is printed of the given texts; the rules a chain can hold.
Shown(texts) == {Printed[t] : t \in texts}
Rules == Shown(Accepts) \cup Drops

\* Rules with one text only, the printed one.
Plain == {r \in Accepts : \A t \in Accepts : Printed[t] = r <=> t = r}

ASSUME NullAssumption == NoChain \notin Chains \cup Seq(Rules)
ASSUME PrintedAssumption ==
  /\ Printed \in [Accepts -> Accepts]
  /\ \A t \in Accepts : Printed[Printed[t]] = Printed[t]
ASSUME AcceptsAssumption == Accepts \cap Drops = {} /\ Wantable \subseteq SUBSET Accepts
ASSUME FiniteAssumption == IsFiniteSet(Chains) /\ IsFiniteSet(Accepts)

VARIABLES
  chains,    \* content of every chain, or NoChain
  forward,   \* chains the FORWARD chain jumps to
  wanted,    \* ACCEPTs each configured chain should have, from the database
  due,       \* the agent has not yet reconciled the latest change
  it,        \* the reconciliation in progress
  budget,    \* changes and failures still to come
  denying    \* chains the agent's own DROP has been put in, until flushed (history)

kernel == <<chains, forward>>
vars == <<chains, forward, wanted, due, it, budget, denying>>

Exists(c) == chains[c] # NoChain

\* _get_chain_rules
AcceptsOf(seq) == {r \in ToSet(seq) : r \notin Drops}
DropOf(seq) ==
  LET at == {i \in DOMAIN seq : seq[i] \in Drops}
  IN IF at = {} THEN "none" ELSE seq[CHOOSE i \in at : \A j \in at : j <= i]

\* iptables -D removes the first rule equal to the one given (by the text -S
\* printed of it).
Without(seq, r) == RemoveFirst(seq, r)

\* Mutants: one comparison of _reconcile_chain gone wrong.
MissingAll(has, goal) == goal
SurplusAll(has, goal) == has
MatchesAccepts(has, goal, drop) == has = goal

\* The comparisons of _reconcile_chain: has is printed text, goal built text.
Missing(has, goal) == goal \ has
Surplus(has, goal) == has \ goal
Matches(has, goal, drop) == has = goal /\ drop = Drop

Configured == DOMAIN wanted

AtRest == [pc |-> "idle", goal |-> <<>>, managed |-> {}, todo |-> {},
           chain |-> NoChain, new |-> {}, old |-> {}, drop |-> "none"]

\* What an earlier run left: chains with some ACCEPTs, their DROP, and the jump.
Init ==
  /\ \E left \in SUBSET Chains :
        /\ denying \in SUBSET left
        /\ forward = left
        /\ \E r \in Shown(Accepts) :
             chains = [c \in Chains |->
                         IF c \notin left THEN NoChain
                         ELSE IF c \in denying THEN <<r, Drop>> ELSE <<r, OtherDrop>>]
  /\ \E conf \in SUBSET Chains : wanted \in [conf -> Wantable]
  /\ due = TRUE
  /\ it = AtRest
  /\ budget = [changes |-> MaxChanges, failures |-> MaxFailures]

Spend(kind) == budget' = [budget EXCEPT ![kind] = @ - 1]

-----------------------------------------------------------------------------
(* The environment.                                                        *)

\* An account or a service is inserted or updated: other ACCEPTs are wanted.
ChangeData ==
  /\ budget.changes > 0
  /\ \E w \in [Configured -> Wantable] : w # wanted /\ wanted' = w
  /\ due' = TRUE
  /\ Spend("changes")
  /\ UNCHANGED <<kernel, it, denying>>

\* The agent is restarted with instances or subnets added, renamed or without
\* firewall_enabled.
Reconfigure ==
  /\ budget.changes > 0
  /\ \E conf \in SUBSET Chains :
        /\ conf # Configured
        /\ wanted' \in [conf -> Wantable]
  /\ due' = TRUE
  /\ it' = AtRest
  /\ Spend("changes")
  /\ UNCHANGED <<kernel, denying>>

-----------------------------------------------------------------------------
(* One reconciliation.                                                     *)

Become(pc) == it' = [it EXCEPT !.pc = pc]

\* Snapshot of the database and iptables-save.
Begin ==
  /\ it.pc = "idle"
  /\ due
  /\ due' = FALSE
  /\ it' = [AtRest EXCEPT !.pc = "chains", !.goal = wanted,
                          !.managed = {c \in Chains : Exists(c)},
                          !.todo = Configured]
  /\ UNCHANGED <<kernel, wanted, budget, denying>>

\* -N, for a desired chain that iptables-save did not list.
CreateChain(c) ==
  /\ it.pc = "chains" /\ it.chain = NoChain
  /\ c \in it.todo \ it.managed
  /\ chains' = [chains EXCEPT ![c] = <<>>]
  /\ it' = [it EXCEPT !.chain = c]
  /\ UNCHANGED <<forward, wanted, due, budget, denying>>

\* -S: a chain that already has the desired rules is left alone.
ReadChain(c) ==
  LET has == AcceptsOf(chains[c])
      goal == it.goal[c]
      drop == DropOf(chains[c])
  IN /\ it.pc = "chains"
     /\ c \in it.todo
     /\ IF c \in it.managed THEN it.chain = NoChain ELSE it.chain = c
     /\ it' = IF Matches(has, goal, drop)
              THEN [it EXCEPT !.todo = @ \ {c}, !.chain = NoChain]
              ELSE [it EXCEPT !.pc = "drop", !.chain = c, !.drop = drop,
                              !.new = Missing(has, goal), !.old = Surplus(has, goal)]
     /\ UNCHANGED <<kernel, wanted, due, budget, denying>>

Edit(seq) ==
  /\ chains' = [chains EXCEPT ![it.chain] = seq]
  /\ UNCHANGED <<forward, wanted, due, budget>>

NowDenies(c) == denying' = denying \cup {c}

\* Mutant: the DROP goes to the top.
WithDropFirst(seq) == <<Drop>> \o seq

\* -A of the agent's DROP.
WithDrop(seq) == Append(seq, Drop)

\* -A: make sure there is a DROP before anything else.
AppendDrop ==
  /\ it.pc = "drop"
  /\ IF it.drop = "none"
       THEN Edit(WithDrop(chains[it.chain])) /\ NowDenies(it.chain)
       ELSE UNCHANGED <<kernel, wanted, due, budget, denying>>
  /\ Become("insert")

\* Mutant: -A instead of -I 1.
WithAcceptLast(seq, r) == Append(seq, Printed[r])

\* -I 1 of an ACCEPT, from the text built for it.
WithAccept(seq, r) == <<Printed[r]>> \o seq

\* -I <chain> 1, once per missing ACCEPT.
InsertAccept(r) ==
  /\ it.pc = "insert"
  /\ r \in it.new
  /\ Edit(WithAccept(chains[it.chain], r))
  /\ UNCHANGED denying
  /\ it' = [it EXCEPT !.new = @ \ {r}]

\* -D, once per stale ACCEPT, when all missing ones are there.
DeleteAccept(r) ==
  /\ it.pc = "insert"
  /\ it.new = {}
  /\ r \in it.old
  /\ Edit(Without(chains[it.chain], r))
  /\ UNCHANGED denying
  /\ it' = [it EXCEPT !.old = @ \ {r}]

\* -D of a DROP that is not the desired one; -A of the desired one comes next.
DeleteOtherDrop ==
  /\ it.pc = "insert"
  /\ it.new = {} /\ it.old = {}
  /\ it.drop = OtherDrop
  /\ Edit(Without(chains[it.chain], OtherDrop))
  /\ UNCHANGED denying
  /\ Become("redrop")

AppendNewDrop ==
  /\ it.pc = "redrop"
  /\ Edit(WithDrop(chains[it.chain]))
  /\ NowDenies(it.chain)
  /\ it' = [it EXCEPT !.pc = "chains", !.todo = @ \ {it.chain}, !.chain = NoChain,
                      !.drop = "none"]

ChainDone ==
  /\ it.pc = "insert"
  /\ it.new = {} /\ it.old = {}
  /\ it.drop # OtherDrop
  /\ it' = [it EXCEPT !.pc = "chains", !.todo = @ \ {it.chain}, !.chain = NoChain,
                      !.drop = "none"]
  /\ UNCHANGED <<kernel, wanted, due, budget, denying>>

\* Mutant: the jump comes before the chain is filled.
AddForwardEarly(c) ==
  /\ it.pc = "chains"
  /\ c \in DOMAIN it.goal /\ Exists(c)
  /\ c \notin forward
  /\ forward' = forward \cup {c}
  /\ UNCHANGED <<chains, wanted, due, it, budget, denying>>

\* -C and -I FORWARD 1, only after every desired chain is filled.  A failing -C
\* counts as "no jump", so a second one may be put in; forward only says whether
\* there is one, which is all that matters as _remove_forward_refs deletes all.
AddForward(c) ==
  /\ it.pc = "chains" /\ it.todo = {}
  /\ c \in DOMAIN it.goal
  /\ c \notin forward
  /\ forward' = forward \cup {c}
  /\ UNCHANGED <<chains, wanted, due, it, budget, denying>>

\* Mutant: the difference the wrong way round.
StaleChainsSwapped == DOMAIN it.goal \ it.managed

\* Listed, but not desired.
StaleChains == it.managed \ DOMAIN it.goal

ForwardDone ==
  /\ it.pc = "chains" /\ it.todo = {}
  /\ DOMAIN it.goal \subseteq forward
  /\ it' = [it EXCEPT !.pc = "stale", !.todo = StaleChains]
  /\ UNCHANGED <<kernel, wanted, due, budget, denying>>

\* _remove_chain: -F, -D of the jumps, -X.
FlushStale(c) ==
  /\ it.pc = "stale"
  /\ c \in it.todo
  /\ chains' = [chains EXCEPT ![c] = <<>>]
  /\ denying' = denying \ {c}
  /\ it' = [it EXCEPT !.pc = "unref", !.chain = c, !.todo = @ \ {c}]
  /\ UNCHANGED <<forward, wanted, due, budget>>

\* Mutant: the chain is deleted while FORWARD still jumps to it.
RefsAfterRemovalKept == forward

\* _remove_forward_refs
RefsAfterRemoval == forward \ {it.chain}

RemoveForwardRefs ==
  /\ it.pc = "unref"
  /\ forward' = RefsAfterRemoval
  /\ Become("delete")
  /\ UNCHANGED <<chains, wanted, due, budget, denying>>

DeleteChain ==
  /\ it.pc = "delete"
  /\ chains' = [chains EXCEPT ![it.chain] = NoChain]
  /\ it' = [it EXCEPT !.pc = "stale", !.chain = NoChain]
  /\ UNCHANGED <<forward, wanted, due, budget, denying>>

Finish ==
  /\ it.pc = "stale"
  /\ it.todo = {}
  /\ it' = AtRest
  /\ UNCHANGED <<kernel, wanted, due, budget, denying>>

\* A command fails outside the removal of a stale chain, or the process dies:
\* the iteration ends here.  The change that caused it is still found by the
\* next iteration, or by the first one of the new process.
Raise ==
  /\ it.pc \in {"chains", "drop", "insert", "redrop", "stale", "unref", "delete"}
  /\ budget.failures > 0
  /\ Spend("failures")
  /\ it' = AtRest
  /\ due' = TRUE
  /\ UNCHANGED <<kernel, wanted, denying>>

\* A command of _remove_chain fails (-X while another rule still uses the
\* chain): logged, and on to the next stale chain.
RemovalFails ==
  /\ budget.failures > 0
  /\ Spend("failures")
  /\ \/ /\ it.pc = "stale"
        /\ \E c \in it.todo : it' = [it EXCEPT !.todo = @ \ {c}]
     \/ /\ it.pc \in {"unref", "delete"}
        /\ it' = [it EXCEPT !.pc = "stale", !.chain = NoChain]
  /\ UNCHANGED <<kernel, wanted, due, denying>>

-----------------------------------------------------------------------------
Agent ==
  \/ Begin
  \/ \E c \in Chains : CreateChain(c) \/ ReadChain(c) \/ AddForward(c) \/ FlushStale(c)
  \/ AppendDrop
  \/ \E r \in Accepts : InsertAccept(r) \/ DeleteAccept(r)
  \/ DeleteOtherDrop
  \/ AppendNewDrop
  \/ ChainDone
  \/ ForwardDone
  \/ RemoveForwardRefs
  \/ DeleteChain
  \/ Finish

Environment ==
  \/ ChangeData
  \/ Reconfigure

Next == Agent \/ Environment \/ Raise \/ RemovalFails

Spec == Init /\ [][Next]_vars /\ WF_vars(Agent)

-----------------------------------------------------------------------------
(* Properties.                                                             *)

Pcs == {"idle", "chains", "drop", "insert", "redrop", "stale", "unref", "delete"}

\* The shape of every variable.
TypeOK ==
  /\ \A c \in Chains : Exists(c) => chains[c] \in Seq(Rules)
  /\ forward \subseteq {c \in Chains : Exists(c)}
  /\ Configured \subseteq Chains
  /\ it.pc \in Pcs
  /\ it.new \subseteq Accepts /\ it.old \subseteq Shown(Accepts)

\* A packet no rule accepts is dropped, not handed back to FORWARD.
Closed(c) == chains[c] # <<>> /\ Last(chains[c]) \in Drops

\* Fail closed: once the agent's DROP is in a chain, it is the last rule in
\* every state between two commands, after any failure, crash and restart,
\* until the chain is flushed to be removed.
FailClosed ==
  \A c \in denying : Exists(c) /\ chains[c] # <<>> /\ Last(chains[c]) = Drop

\* No ACCEPT sits behind a DROP, where it would grant nothing although the
\* agent counts it as present.
AcceptsReachable ==
  \A c \in Chains : Exists(c) =>
    \A i, j \in DOMAIN chains[c] :
      i < j /\ chains[c][i] \in Drops => chains[c][j] \in Drops

\* The DROP and every rule that is built as it is printed is there once, so the
\* single -D of a revoked one revokes it.  Only a rule whose text is printed
\* differently is put in again by every pass, in front of the copy that pass
\* then deletes.
NoRuleTwice ==
  \A c \in Chains : Exists(c) =>
    \A i, j \in DOMAIN chains[c] :
      chains[c][i] = chains[c][j] /\ i # j => chains[c][i] \in Accepts \ Plain

\* While a configured chain is reconciled, an ACCEPT that is installed and
\* stays wanted is never missing, not even between two commands, and not when
\* the comparison takes it for a stale one.
GrantsUninterrupted ==
  [][\A c \in DOMAIN it.goal :
       Exists(c) /\ Exists(c)' =>
         (AcceptsOf(chains[c]) \cap Shown(it.goal[c])) \subseteq AcceptsOf(chains'[c])]_vars

\* All that is wanted is granted, and of the rules built as they are printed
\* nothing else.
AsWanted(has, goal) ==
  /\ Shown(goal) \subseteq has
  /\ has \cap Plain \subseteq goal

\* A jump is only ever added to a chain that already holds all it should.
JumpOnlyWhenFilled ==
  [][\A c \in forward' \ forward :
       /\ AsWanted(AcceptsOf(chains[c]), it.goal[c])
       /\ Closed(c)]_vars

\* A chain that denies what no rule accepts does so until it is flushed because
\* it is no longer configured.  The one exception is the DROP of another form
\* the agent finds in it, which is deleted before its own is appended.
ClosedStaysClosed ==
  [][\A c \in Chains :
       Exists(c) /\ Closed(c) =>
         \/ Exists(c)' /\ Closed(c)'
         \/ it.pc = "insert" /\ it.chain = c /\ it.drop = OtherDrop
         \/ it.pc = "stale" /\ c \notin DOMAIN it.goal]_vars

\* When the agent rests with no change due, every configured chain has the
\* wanted ACCEPTs, the agent's own DROP at its end and its jump, whatever
\* failed on the way; and if nothing failed, no other chain is left.  A removal
\* that failed is the only one nothing makes due again.
SettledChains ==
  ~due /\ it.pc = "idle" =>
    /\ \A c \in Configured :
         /\ Exists(c) /\ AsWanted(AcceptsOf(chains[c]), wanted[c])
         /\ chains[c] # <<>> /\ Last(chains[c]) = Drop
         /\ c \in forward
    /\ budget.failures = MaxFailures => \A c \in Chains : Exists(c) => c \in Configured

\* How many steps a pass may still take.  A chain costs at most one per ACCEPT
\* to insert, one per ACCEPT to delete, and six more; a jump one, a stale chain
\* three.
PerChain == Cardinality(Accepts) + Cardinality(Accepts) + 6

InHand ==
  IF it.pc = "chains"
  THEN IF it.chain = NoChain THEN 0 ELSE PerChain - 1
  ELSE Cardinality(it.new) + Cardinality(it.old)
         + (IF it.pc = "drop" THEN 4 ELSE IF it.pc = "insert" THEN 3 ELSE 2)

ToFill == Cardinality(it.todo \ {it.chain}) * PerChain + InHand

ToRefer == Cardinality(DOMAIN it.goal \ forward) + 3 * Cardinality(StaleChains) + 2

ToRemove ==
  3 * Cardinality(it.todo)
    + (IF it.pc = "stale" THEN 1 ELSE IF it.pc = "unref" THEN 3 ELSE 2)

StepsLeft ==
  IF it.pc = "idle" THEN 0
  ELSE IF it.pc \in {"stale", "unref", "delete"} THEN ToRemove ELSE ToFill + ToRefer

\* A pass ends: every step of it, and every failure, leaves fewer to take than
\* before, and it begins with no more than the configured and the listed chains
\* account for.
PassEnds ==
  [][/\ StepsLeft' \in Nat
     /\ it.pc # "idle" /\ <<it, forward>>' # <<it, forward>> => StepsLeft' < StepsLeft
     /\ Begin => StepsLeft' <= Cardinality(Chains) * (PerChain + 4) + 2]_vars

\* After the last change the configured chains get the wanted ACCEPTs, the
\* agent's own DROP and their jump.
Converges ==
  <>[](\A c \in Configured : /\ Exists(c)
                             /\ AsWanted(AcceptsOf(chains[c]), wanted[c])
                             /\ c \in denying
                             /\ c \in forward)

\* Comment in _reconcile_chain: "Remove stale ACCEPT rules".  When the agent
\* rests with no change due, no configured chain grants what is not wanted.
RevokedIsGone ==
  ~due /\ it.pc = "idle" =>
    \A c \in Configured : AcceptsOf(chains[c]) \subseteq Shown(wanted[c])
=============================================================================
