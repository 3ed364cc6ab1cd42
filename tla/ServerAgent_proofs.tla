------------------------- MODULE ServerAgent_proofs -------------------------
(***************************************************************************)
(* What the agent's polling keeps true for any rows, lag, changes and      *)
(* failures: a disabled account the cursor has passed stays cut off, and   *)
(* when every row is behind the cursor the rules are the database's.       *)
(*                                                                         *)
(* The argument: a commit stamps its row no more than Lag before it is     *)
(* seen.  So a row stamped more than Lag before the iteration began has    *)
(* not changed since (it is firm), and every read of this iteration agrees *)
(* with it.  What an iteration has done for the firm rows is enough, since *)
(* its cursor passes no other.                                             *)
(***************************************************************************)
EXTENDS ServerAgent, TLAPS

\* A row no read of the iteration in progress can have seen otherwise.
Firm(r) == Live(r) /\ db[r].at < it.started - Lag
Unchanged(r) == Firm(r) \/ db[r].val = NotYet

\* An account that must be cut off.
Out(a) == Firm(a) /\ DisabledRow(a)

\* No unusual event makes the rules differ from the database for long.
Quiet == NothingDeleted /\ layout = 0
Right == fw = ChainRules(View, layout)

-----------------------------------------------------------------------------
(* The inductive invariant.                                                *)

\* Rows, time, and the fields of the agent's two records.
Shape ==
  /\ db = [r \in Rows |-> [val |-> db[r].val, at |-> db[r].at]]
  /\ \A r \in Rows : /\ db[r].val \in Values(r) \cup {NotYet, Deleted}
                     /\ db[r].at \in 0..MaxClock
  /\ layout \in Nat
  /\ mem = [cursor |-> mem.cursor, lastCounts |-> mem.lastCounts,
            lastResolved |-> mem.lastResolved]
  /\ it = [pc |-> it.pc, started |-> it.started, services |-> it.services,
           resolved |-> it.resolved, resolvedChanged |-> it.resolvedChanged,
           changed |-> it.changed, seen |-> it.seen, unread |-> it.unread,
           seenLayout |-> it.seenLayout, todo |-> it.todo]
  /\ it.pc \in Pcs
  /\ it.pc = "idle" => it = AtRest
  /\ it.todo \subseteq Accounts

\* The cursor stays a lag behind the iteration that set it.
Times ==
  /\ clock \in Nat /\ Lag <= clock /\ clock <= MaxClock
  /\ mem.cursor \in Nat /\ mem.cursor + Lag <= clock
  /\ it.started \in Nat /\ it.started <= clock
  /\ it.pc # "idle" => mem.cursor + Lag <= it.started

\* What is on the host is about known accounts and services.
Host ==
  /\ ipsets \subseteq Services
  /\ \A rule \in fw : rule.client \in Accounts /\ rule.dest \in Services \cup {Anywhere}
  /\ ccd = [a \in Accounts |-> ccd[a]]
  /\ \A a \in Accounts : ccd[a].kind \in {"none", "empty", "disable", "push"}

\* Which tables have been read.
Reading ==
  /\ it.seen = [r \in DOMAIN it.seen |-> it.seen[r]]
  /\ it.pc \in {"routing", "updated", "totals"} => DOMAIN it.seen = {}
  /\ it.pc = "snapshot" =>
       \/ it.unread = <<Accounts, Services, Departments, Links>> /\ DOMAIN it.seen = {}
       \/ it.unread = <<Services, Departments, Links>> /\ DOMAIN it.seen = Accounts
       \/ it.unread = <<Departments, Links>> /\ DOMAIN it.seen = Accounts \cup Services
       \/ it.unread = <<Links>> /\ DOMAIN it.seen = Rows \ Links
  /\ it.pc = "firewall" => DOMAIN it.seen = Rows
  /\ it.pc = "fetch" =>
       \/ it.unread = <<Accounts, Departments, Links>> /\ DOMAIN it.seen = {}
       \/ it.unread = <<Departments, Links>> /\ DOMAIN it.seen = Accounts
       \/ it.unread = <<Links>> /\ DOMAIN it.seen = Accounts \cup Departments
  /\ it.pc = "ccd" => DOMAIN it.seen = Rows \ Services

\* Reads agree with what cannot have changed.
Agrees ==
  it.pc # "idle" =>
    /\ \A r \in DOMAIN it.seen : Unchanged(r) => it.seen[r] = db[r].val
    /\ it.seenLayout \in Nat /\ it.seenLayout <= layout

\* What the iteration has done to the rules, from the counts on.
RulesDone ==
  it.pc \in {"totals", "fetch", "ccd"} =>
    /\ \A a \in Accounts : Out(a) => ~HasRule(a)
    /\ Quiet /\ (\A r \in Rows : Live(r) => Firm(r)) => Right

\* The CCD files that are or will be written.
FilesDone ==
  it.pc = "ccd" \/ (it.pc = "fetch" /\ DOMAIN it.seen # {}) =>
    \A a \in Accounts : Out(a) => a \in it.todo \/ PushesNoAddress(a)

Inv == /\ Shape /\ Times /\ Host /\ Reading /\ Agrees
       /\ RulesDone /\ FilesDone /\ DisabledCutOff /\ SettledRules

-----------------------------------------------------------------------------
(* Rules and files made from rows.                                         *)

\* Every rule lets an active account through.
LEMMA RulesOfActive ==
  ASSUME NEW view, NEW lay, NEW rule \in ChainRules(view, lay)
  PROVE  /\ rule.client \in Accounts /\ view[rule.client].status = "ACTIVE"
         /\ In(view, rule.client)
         /\ rule.dest \in Services \cup {Anywhere}
<1> DEFINE Active == {a \in Accounts : In(view, a) /\ view[a].status = "ACTIVE"}
           All == {a \in Active : view[a].access = "ALL"}
<1>1. \/ \E a \in All : rule = Rule(a, lay, Anywhere, FALSE)
      \/ \E a \in Active \ All : \E s \in Matched(view, a) : rule = Rule(a, lay, s, view[s].domains)
  BY DEF ChainRules
<1> QED BY <1>1 DEF Rule, Matched

\* A row belongs to one table.
LEMMA DisjointRows ==
  /\ \A a \in Accounts : a \notin Services /\ a \notin Departments /\ a \notin Links
  /\ \A s \in Services : s \notin Departments /\ s \notin Links
  /\ \A d \in Departments : d \notin Links
  /\ Accounts \subseteq Rows /\ Services \subseteq Rows
  /\ Departments \subseteq Rows /\ Links \subseteq Rows
BY RowsAssumption DEF Rows

\* No rows, no rules.
LEMMA NothingStored ==
  ASSUME \A r \in Rows : db[r].val = NotYet
  PROVE  ChainRules(View, layout) = {}
<1> SUFFICES ASSUME NEW rule \in ChainRules(View, layout) PROVE FALSE
  OBVIOUS
<1>1. In(View, rule.client) /\ rule.client \in Rows
  BY RulesOfActive, DisjointRows
<1> QED BY <1>1 DEF In, View

\* A file of one of the four kinds; of a disabled account, the one that says so.
LEMMA FileShape ==
  ASSUME NEW view, NEW resolved, NEW lay, NEW a
  PROVE  /\ CcdFile(view, resolved, lay, a).kind \in {"disable", "push"}
         /\ view[a].status = "DISABLED" => CcdFile(view, resolved, lay, a).kind = "disable"
BY DEF CcdFile, Disable

\* Rows the cursor has passed are firm in every iteration.
LEMMA PassedIsFirm ==
  ASSUME Inv, it.pc # "idle", NEW r \in Rows, Passed(r)
  PROVE  Firm(r)
<1>1. mem.cursor + Lag <= it.started /\ mem.cursor \in Nat /\ it.started \in Nat
  BY DEF Inv, Times
<1>2. Lag \in Nat /\ db[r].at \in 0..MaxClock /\ MaxClock \in Nat
  BY TimeAssumption DEF Inv, Shape
<1> QED BY <1>1, <1>2 DEF Passed, Firm

\* What reconciliation wants has no rule of an account that must be cut off.
LEMMA DesiredCutsOff ==
  ASSUME Inv, it.pc = "firewall", NEW a \in Accounts, Out(a)
  PROVE  \A rule \in Desired : rule.client # a
<1>1. a \in DOMAIN it.seen
  BY DisjointRows DEF Inv, Reading
<1>2. it.seen[a].status = "DISABLED"
  BY <1>1 DEF Inv, Agrees, Out, Unchanged, DisabledRow
<1> QED BY <1>2, RulesOfActive DEF Desired

\* Of a database that is firm throughout, it wants the database's rules.
LEMMA DesiredIsRight ==
  ASSUME Inv, it.pc = "firewall", Quiet, \A r \in Rows : Live(r) => Firm(r)
  PROVE  Desired = ChainRules(View, layout)
<1>1. \A r \in Rows : Unchanged(r)
  BY DEF Quiet, NothingDeleted, Live, Unchanged
<1>2. DOMAIN it.seen = Rows /\ it.seen = [r \in DOMAIN it.seen |-> it.seen[r]]
  BY DEF Inv, Reading
<1>3. \A r \in Rows : it.seen[r] = db[r].val
  BY <1>1, <1>2 DEF Inv, Agrees
<1>4. it.seen = View
  BY <1>2, <1>3 DEF View
<1>5. it.seenLayout = layout
  BY DEF Inv, Agrees, Quiet
<1> QED BY <1>4, <1>5 DEF Desired

-----------------------------------------------------------------------------
(* Init and the environment.                                               *)

\* The agent starts against a database it has not looked at.
LEMMA InitInv == Init => Inv
<1> SUFFICES ASSUME Init PROVE Inv
  OBVIOUS
<1>0. PICK rows \in InitialRows : db = [r \in Rows |-> [val |-> rows[r], at |-> 0]]
  BY DEF Init
<1>1. /\ Lag \in Nat /\ MaxClock \in Nat /\ Lag <= MaxClock
      /\ \A r \in Rows : /\ db[r].val = rows[r] /\ db[r].at = 0
                         /\ rows[r] \in Values(r) \cup {NotYet}
      /\ it = AtRest /\ it.pc = "idle" /\ it.started = 0 /\ it.seen = <<>> /\ it.todo = {}
      /\ mem.cursor = 0 /\ clock = Lag /\ layout = 0 /\ fw = {} /\ ipsets = {}
  BY <1>0, TimeAssumption, RowsAssumption DEF Init, AtRest, FreshMem
<1>2. Shape
  BY <1>0, <1>1 DEF Init, Shape, AtRest, FreshMem, Pcs
<1>3. Times
  BY <1>1 DEF Times
<1>4. Host
  BY <1>1 DEF Init, Host, NoFile
<1>5. Reading /\ Agrees /\ RulesDone /\ FilesDone
  BY <1>1 DEF Reading, Agrees, RulesDone, FilesDone
<1>6. \A r \in Rows : ~Passed(r)
  BY <1>1 DEF Passed
<1>7. DisabledCutOff
  BY <1>6, DisjointRows DEF DisabledCutOff
<1>8. SettledRules
  <2> SUFFICES ASSUME \A r \in Rows : Live(r) => Passed(r), NothingDeleted
               PROVE  fw = ChainRules(View, layout)
    BY DEF SettledRules
  <2>1. \A r \in Rows : db[r].val = NotYet
    BY <1>6 DEF NothingDeleted, Live
  <2> QED BY <1>1, <2>1, NothingStored
<1> QED BY <1>2, <1>3, <1>4, <1>5, <1>7, <1>8 DEF Inv

\* What the environment may do: rows stay, or carry a stamp too young for the
\* iteration, or are deleted; subnets and time go forward.
LEMMA EnvironmentKeeps ==
  ASSUME Inv, UNCHANGED <<hostVars, mem, it>>,
         db' = [r \in Rows |-> [val |-> db'[r].val, at |-> db'[r].at]],
         \A r \in Rows : \/ db'[r] = db[r]
                         \/ /\ db'[r].val \in Values(r)
                            /\ db'[r].at \in 0..MaxClock /\ db'[r].at + Lag >= clock
                         \/ /\ db'[r].val = Deleted /\ r \notin Accounts
                            /\ db'[r].at \in 0..MaxClock,
         clock' \in Nat, clock <= clock', clock' <= MaxClock,
         layout' \in Nat, layout <= layout'
  PROVE  Inv'
<1>1. UNCHANGED <<ipsets, fw, ccd, mem, it>>
  BY DEF hostVars
<1>2. Shape'
  BY <1>1 DEF Inv, Shape
<1>3. Times' /\ Host' /\ Reading'
  BY <1>1, TimeAssumption DEF Inv, Times, Host, Reading
<1>4. ASSUME NEW r \in Rows
      PROVE  /\ Passed(r)' => db'[r] = db[r]
             /\ it.pc # "idle" /\ Firm(r)' => db'[r] = db[r]
             /\ db'[r].val = NotYet => db'[r] = db[r]
  <2>1. /\ Lag \in Nat /\ MaxClock \in Nat /\ clock \in Nat
        /\ mem.cursor \in Nat /\ mem.cursor + Lag <= clock
        /\ it.started \in Nat /\ it.started <= clock
    BY TimeAssumption DEF Inv, Times
  <2>2. CASE db'[r].val \in Values(r) /\ db'[r].at \in 0..MaxClock /\ db'[r].at + Lag >= clock
    BY <1>1, <2>1, <2>2, RowsAssumption DEF Passed, Firm
  <2>3. CASE db'[r].val = Deleted
    BY <2>3, RowsAssumption DEF Passed, Firm, Live
  <2> QED BY <2>2, <2>3
<1>5. ASSUME NEW r \in Rows, db'[r] = db[r]
      PROVE  /\ Live(r)' = Live(r) /\ Passed(r)' = Passed(r) /\ Firm(r)' = Firm(r)
             /\ DisabledRow(r)' = DisabledRow(r) /\ Out(r)' = Out(r)
             /\ Unchanged(r)' = Unchanged(r)
  BY <1>1, <1>5 DEF Live, Passed, Firm, DisabledRow, Out, Unchanged
<1>6. Agrees'
  <2> SUFFICES ASSUME it.pc # "idle" PROVE Agrees'
    BY <1>1 DEF Agrees
  <2>1. DOMAIN it.seen \subseteq Rows
    BY DEF Inv, Reading, Shape, Pcs, Rows
  <2>2. ASSUME NEW r \in DOMAIN it.seen, Unchanged(r)' PROVE it.seen[r] = db'[r].val
    <3>1. db'[r] = db[r]
      BY <1>4, <2>1, <2>2 DEF Unchanged
    <3> QED BY <1>5, <2>1, <2>2, <3>1 DEF Inv, Agrees
  <2>3. it.seenLayout \in Nat /\ it.seenLayout <= layout'
    BY DEF Inv, Agrees, Shape
  <2> QED BY <1>1, <2>2, <2>3 DEF Agrees
<1>7. ASSUME \A r \in Rows : db'[r].val # Deleted, layout' = 0,
             \A r \in Rows : Live(r)' => db'[r] = db[r]
      PROVE  /\ NothingDeleted /\ layout = 0 /\ View' = View
             /\ \A r \in Rows : db'[r] = db[r]
  <2>1. \A r \in Rows : db'[r] = db[r]
    <3> TAKE r \in Rows
    <3>1. CASE db'[r].val = NotYet
      BY <1>4, <3>1
    <3> QED BY <1>7, <3>1 DEF Live
  <2>2. layout = 0
    BY <1>7 DEF Inv, Shape
  <2> QED BY <1>7, <2>1, <2>2 DEF NothingDeleted, View
<1>8. RulesDone'
  <2> SUFFICES ASSUME it.pc \in {"totals", "fetch", "ccd"} PROVE RulesDone'
    BY <1>1 DEF RulesDone
  <2>1. ASSUME NEW a \in Accounts, Out(a)' PROVE ~HasRule(a)'
    <3>1. a \in Rows /\ db'[a] = db[a]
      BY <1>4, <2>1, DisjointRows DEF Out
    <3> QED BY <1>1, <1>5, <2>1, <3>1 DEF Inv, RulesDone, HasRule
  <2>2. ASSUME Quiet', \A r \in Rows : Live(r)' => Firm(r)' PROVE Right'
    <3>1. \A r \in Rows : Live(r)' => db'[r] = db[r]
      BY <1>4, <2>2
    <3>2. /\ NothingDeleted /\ layout = 0 /\ View' = View
          /\ \A r \in Rows : db'[r] = db[r]
      BY <1>7, <2>2, <3>1 DEF Quiet, NothingDeleted
    <3>3. \A r \in Rows : Live(r) => Firm(r)
      BY <1>5, <2>2, <3>2
    <3> QED BY <1>1, <2>2, <3>2, <3>3 DEF Inv, RulesDone, Quiet, Right
  <2> QED BY <1>1, <2>1, <2>2 DEF RulesDone
<1>9. FilesDone'
  <2> SUFFICES ASSUME it.pc = "ccd" \/ (it.pc = "fetch" /\ DOMAIN it.seen # {}),
                      NEW a \in Accounts, Out(a)'
               PROVE  a \in it.todo \/ PushesNoAddress(a)
    BY <1>1 DEF FilesDone, PushesNoAddress
  <2>1. a \in Rows /\ db'[a] = db[a]
    BY <1>4, DisjointRows DEF Out
  <2> QED BY <1>5, <2>1 DEF Inv, FilesDone
<1>10. DisabledCutOff'
  <2> SUFFICES ASSUME NEW a \in Accounts, Passed(a)', DisabledRow(a)'
               PROVE  ~HasRule(a) /\ PushesNoAddress(a)
    BY <1>1 DEF DisabledCutOff, HasRule, PushesNoAddress
  <2>1. a \in Rows /\ db'[a] = db[a]
    BY <1>4, DisjointRows
  <2> QED BY <1>5, <2>1 DEF Inv, DisabledCutOff
<1>11. SettledRules'
  <2> SUFFICES ASSUME \A r \in Rows : Live(r)' => Passed(r)', NothingDeleted', layout' = 0
               PROVE  fw' = ChainRules(View', layout')
    BY DEF SettledRules
  <2>1. \A r \in Rows : Live(r)' => db'[r] = db[r]
    BY <1>4
  <2>2. /\ NothingDeleted /\ layout = 0 /\ View' = View
        /\ \A r \in Rows : db'[r] = db[r]
    BY <1>7, <2>1 DEF NothingDeleted
  <2> QED BY <1>1, <1>5, <2>2 DEF Inv, SettledRules
<1> QED BY <1>2, <1>3, <1>6, <1>8, <1>9, <1>10, <1>11 DEF Inv

\* A commit is stamped at most CommitDelay before it is seen.
LEMMA WriteInv ==
  ASSUME Inv, NEW r \in Rows, NEW val \in Values(r), Write(r, val)
  PROVE  Inv'
<1>1. PICK d \in 0..CommitDelay : db' = [db EXCEPT ![r] = [val |-> val, at |-> clock - d]]
  BY DEF Write
<1>2. /\ clock \in Nat /\ Lag \in Nat /\ CommitDelay \in Nat /\ MaxClock \in Nat
      /\ Lag <= clock /\ clock <= MaxClock /\ CommitDelay <= Lag
  BY TimeAssumption DEF Inv, Times
<1>3. clock - d \in 0..MaxClock /\ (clock - d) + Lag >= clock
  BY <1>1, <1>2
<1> DEFINE row == [val |-> val, at |-> clock - d]
<1>4. DOMAIN db = Rows /\ \A k \in Rows : db[k] = [val |-> db[k].val, at |-> db[k].at]
  BY DEF Inv, Shape
<1>5. \A k \in Rows : db'[k] = IF k = r THEN row ELSE db[k]
  BY <1>1, <1>4
<1>6. DOMAIN db' = Rows
  BY <1>1, <1>4
<1>7. db' = [k \in Rows |-> [val |-> db'[k].val, at |-> db'[k].at]]
  BY <1>1, <1>4, <1>5, <1>6
<1>8. row.val = val /\ row.at = clock - d
  OBVIOUS
<1> HIDE DEF row
<1>9. UNCHANGED <<hostVars, mem, it, clock, layout>> /\ layout \in Nat
  BY DEF Write, Inv, Shape
<1> QED BY <1>2, <1>3, <1>5, <1>7, <1>8, <1>9, EnvironmentKeeps

\* Rows change, subnets and answers change, time passes.
LEMMA EnvironmentInv == ASSUME Inv, Environment PROVE Inv'
<1>1. /\ clock \in Nat /\ MaxClock \in Nat /\ clock <= MaxClock /\ layout \in Nat
      /\ db = [r \in Rows |-> [val |-> db[r].val, at |-> db[r].at]]
      /\ \A r \in Rows : db[r].at \in 0..MaxClock
  BY TimeAssumption DEF Inv, Times, Shape
<1>2. ASSUME NEW r \in Rows, InsertRow(r) \/ UpdateRow(r) PROVE Inv'
  BY <1>2, WriteInv DEF InsertRow, UpdateRow
<1>3. ASSUME NEW r \in Rows, DeleteRow(r) PROVE Inv'
  <2> DEFINE gone == {r} \cup {l \in Links : LinkOf[l][2] = r /\ Live(l)}
  <2>1. /\ db' = [k \in Rows |-> IF k \in gone THEN [db[k] EXCEPT !.val = Deleted] ELSE db[k]]
        /\ UNCHANGED <<hostVars, mem, it, clock, layout>>
    BY <1>3 DEF DeleteRow
  <2>2. \A k \in gone : k \notin Accounts
    BY <1>3, DisjointRows DEF DeleteRow
  <2> HIDE DEF gone
  <2>3. \A k \in Rows : \/ db'[k] = db[k]
                        \/ /\ db'[k].val = Deleted /\ k \notin Accounts
                           /\ db'[k].at \in 0..MaxClock
    BY <1>1, <2>1, <2>2
  <2>4. db' = [k \in Rows |-> [val |-> db'[k].val, at |-> db'[k].at]]
    BY <1>1, <2>1
  <2> QED BY <1>1, <2>1, <2>3, <2>4, EnvironmentKeeps
<1>4. ASSUME ChangeSubnets \/ ChangeAnswer \/ Tick PROVE Inv'
  <2>1. /\ UNCHANGED <<db, hostVars, mem, it>>
        /\ \/ layout' = layout /\ clock' = clock
           \/ layout' = layout + 1 /\ clock' = clock
           \/ layout' = layout /\ clock' = clock + 1 /\ clock < MaxClock
    BY <1>4 DEF ChangeSubnets, ChangeAnswer, Tick
  <2>2. /\ clock' \in Nat /\ clock <= clock' /\ clock' <= MaxClock
        /\ layout' \in Nat /\ layout <= layout'
    BY <1>1, <2>1
  <2>3. db' = [r \in Rows |-> [val |-> db'[r].val, at |-> db'[r].at]]
    BY <1>1, <2>1
  <2> QED BY <2>1, <2>2, <2>3, EnvironmentKeeps
<1> QED BY <1>2, <1>3, <1>4 DEF Environment

-----------------------------------------------------------------------------
(* The iteration.                                                          *)

\* While the database rests, so do the words about it.
LEMMA SameRows ==
  ASSUME UNCHANGED <<db, layout>>
  PROVE  /\ NothingDeleted' = NothingDeleted /\ Quiet' = Quiet /\ View' = View
         /\ \A r : Live(r)' = Live(r) /\ DisabledRow(r)' = DisabledRow(r)
         /\ it'.started = it.started =>
              \A r : Firm(r)' = Firm(r) /\ Unchanged(r)' = Unchanged(r) /\ Out(r)' = Out(r)
         /\ mem'.cursor = mem.cursor => \A r : Passed(r)' = Passed(r)
BY DEF NothingDeleted, Quiet, View, Live, DisabledRow, Firm, Unchanged, Out, Passed

\* Steps that give the agent only something to remember.
LEMMA LookKeeps ==
  ASSUME Inv, UNCHANGED <<db, layout, clock, fw, ccd>>, mem'.cursor = mem.cursor,
         Shape', Times', Reading', Agrees', RulesDone', FilesDone', ipsets' \subseteq Services
  PROVE  Inv'
<1>1. Host'
  BY DEF Inv, Host
<1>2. DisabledCutOff'
  BY SameRows DEF Inv, DisabledCutOff, HasRule, PushesNoAddress
<1>3. SettledRules'
  BY SameRows DEF Inv, SettledRules
<1> QED BY <1>1, <1>2, <1>3 DEF Inv

\* An iteration begins: every read of it is still to come.
LEMMA StartInv == ASSUME Inv, StartIteration PROVE Inv'
<1>1. /\ it.pc = "idle" /\ it = AtRest
      /\ it' = [it EXCEPT !.pc = "routing", !.started = clock]
      /\ UNCHANGED <<db, layout, clock, fw, ccd, ipsets, mem>>
  BY DEF StartIteration, envVars, hostVars, Inv, Shape
<1>2. /\ it'.pc = "routing" /\ it'.started = clock /\ it'.seen = <<>> /\ it'.todo = {}
      /\ it'.seenLayout = 0
  BY <1>1 DEF AtRest
<1>3. Shape'
  BY <1>1, <1>2 DEF Inv, Shape, Pcs, AtRest
<1>4. Times'
  BY <1>1, <1>2 DEF Inv, Times
<1>5. Reading' /\ RulesDone' /\ FilesDone'
  BY <1>2 DEF Reading, RulesDone, FilesDone
<1>6. Agrees'
  BY <1>1, <1>2 DEF Inv, Shape, Agrees
<1> QED BY <1>1, <1>3, <1>4, <1>5, <1>6, LookKeeps DEF Inv, Host

\* _reconcile_routing: whatever becomes of the sets.
LEMMA RoutingInv == ASSUME Inv, ReconcileRouting PROVE Inv'
<1>1. /\ it.pc = "routing" /\ UNCHANGED <<db, layout, clock, fw, ccd>>
      /\ \E x, y, z : it' = [it EXCEPT !.pc = "updated", !.services = x,
                                       !.resolved = y, !.resolvedChanged = z]
      /\ \E m : mem' = [mem EXCEPT !.lastResolved = m]
  BY DEF ReconcileRouting, envVars
<1>2. /\ it'.pc = "updated" /\ it'.started = it.started /\ it'.seen = it.seen
      /\ it'.todo = it.todo /\ it'.seenLayout = it.seenLayout /\ mem'.cursor = mem.cursor
  BY <1>1 DEF Inv, Shape
<1>3. Shape'
  <2>1. /\ mem' = [cursor |-> mem'.cursor, lastCounts |-> mem'.lastCounts,
                   lastResolved |-> mem'.lastResolved]
    BY <1>1 DEF Inv, Shape
  <2>2. it' = [pc |-> it'.pc, started |-> it'.started, services |-> it'.services,
               resolved |-> it'.resolved, resolvedChanged |-> it'.resolvedChanged,
               changed |-> it'.changed, seen |-> it'.seen, unread |-> it'.unread,
               seenLayout |-> it'.seenLayout, todo |-> it'.todo]
    BY <1>1 DEF Inv, Shape
  <2> QED BY <1>1, <1>2, <2>1, <2>2 DEF Inv, Shape, Pcs
<1>4. Times'
  BY <1>1, <1>2 DEF Inv, Times
<1>5. Reading' /\ RulesDone' /\ FilesDone'
  BY <1>1, <1>2 DEF Inv, Reading, RulesDone, FilesDone
<1>6. Agrees'
  BY <1>1, <1>2, SameRows DEF Inv, Agrees
<1>7. ipsets' \subseteq Services
  <2> DEFINE wanted == {route.service : route \in Resolve(View)}
  <2>1. wanted \subseteq Services
    BY DEF Resolve, AddressRoute
  <2>2. ipsets' = IpsetsAfter(wanted) \/ \E some \in SUBSET wanted : ipsets' = ipsets \cup some
    BY DEF ReconcileRouting
  <2> HIDE DEF wanted
  <2> QED BY <2>1, <2>2 DEF Inv, Host, IpsetsAfter
<1> QED BY <1>1, <1>2, <1>3, <1>4, <1>5, <1>6, <1>7, LookKeeps

\* No fresh row: the cursor has passed all there are, so nothing is to be done
\* for them.
LEMMA CountUpdatedInv == ASSUME Inv, CountUpdated PROVE Inv'
<1>1. /\ it.pc = "updated" /\ UNCHANGED <<db, layout, clock, fw, ccd, ipsets, mem>>
      /\ it' = IF Updated THEN [it EXCEPT !.pc = "snapshot", !.changed = TRUE,
                                          !.unread = SnapshotTables]
               ELSE [it EXCEPT !.pc = "totals"]
  BY DEF CountUpdated, envVars, hostVars
<1>2. /\ it'.pc = IF Updated THEN "snapshot" ELSE "totals"
      /\ Updated => it'.unread = SnapshotTables
      /\ it'.started = it.started /\ it'.seen = it.seen
      /\ it'.todo = it.todo /\ it'.seenLayout = it.seenLayout
  BY <1>1 DEF Inv, Shape
<1>3. Shape'
  <2>1. it' = [pc |-> it'.pc, started |-> it'.started, services |-> it'.services,
               resolved |-> it'.resolved, resolvedChanged |-> it'.resolvedChanged,
               changed |-> it'.changed, seen |-> it'.seen, unread |-> it'.unread,
               seenLayout |-> it'.seenLayout, todo |-> it'.todo]
    BY <1>1 DEF Inv, Shape
  <2> QED BY <1>1, <1>2, <2>1 DEF Inv, Shape, Pcs
<1>4. Times'
  BY <1>1, <1>2 DEF Inv, Times
<1>5. Reading' /\ FilesDone'
  BY <1>1, <1>2 DEF Inv, Reading, FilesDone, SnapshotTables
<1>6. Agrees'
  BY <1>1, <1>2, SameRows DEF Inv, Agrees
<1>7. RulesDone'
  <2> SUFFICES ASSUME ~Updated PROVE RulesDone'
    BY <1>2 DEF RulesDone
  <2>1. \A r \in Rows : Live(r) => Passed(r)
    <3>1. \A r \in Rows : db[r].at \in 0..MaxClock /\ MaxClock \in Nat /\ mem.cursor \in Nat
      BY TimeAssumption DEF Inv, Shape, Times
    <3> QED BY <3>1 DEF Updated, Passed
  <2>2. \A a \in Accounts : Out(a) => ~HasRule(a)
    BY <2>1, DisjointRows DEF Inv, DisabledCutOff, Out, Firm
  <2>3. Quiet => Right
    BY <2>1 DEF Inv, SettledRules, Quiet, Right
  <2> QED BY <1>1, <1>2, <2>2, <2>3, SameRows DEF RulesDone, HasRule, Right
<1> QED BY <1>1, <1>3, <1>4, <1>5, <1>6, <1>7, LookKeeps DEF Inv, Host

\* Only the counts are remembered.
LEMMA CountTotalsInv == ASSUME Inv, CountTotals PROVE Inv'
<1>1. /\ it.pc = "totals" /\ UNCHANGED <<db, layout, clock, fw, ccd, ipsets>>
      /\ \E m : mem' = [mem EXCEPT !.lastCounts = m]
      /\ \/ it' = [it EXCEPT !.pc = "snapshot", !.changed = TRUE, !.unread = SnapshotTables]
         \/ it' = StartFetch
  BY DEF CountTotals, envVars, hostVars
<1>2. /\ \/ it'.pc = "snapshot" /\ it'.unread = SnapshotTables /\ it'.seen = it.seen
            /\ it'.seenLayout = it.seenLayout
         \/ it'.pc = "fetch" /\ it'.unread = FetchTables /\ it'.seen = <<>> /\ it'.seenLayout = 0
      /\ it'.started = it.started /\ it'.todo = it.todo
      /\ mem'.cursor = mem.cursor
  BY <1>1 DEF Inv, Shape, StartFetch
<1>3. Shape'
  <2>1. it' = [pc |-> it'.pc, started |-> it'.started, services |-> it'.services,
               resolved |-> it'.resolved, resolvedChanged |-> it'.resolvedChanged,
               changed |-> it'.changed, seen |-> it'.seen, unread |-> it'.unread,
               seenLayout |-> it'.seenLayout, todo |-> it'.todo]
    BY <1>1 DEF Inv, Shape, StartFetch
  <2>2. mem' = [cursor |-> mem'.cursor, lastCounts |-> mem'.lastCounts,
                lastResolved |-> mem'.lastResolved]
    BY <1>1 DEF Inv, Shape
  <2> QED BY <1>1, <1>2, <2>1, <2>2 DEF Inv, Shape, Pcs
<1>4. Times'
  BY <1>1, <1>2 DEF Inv, Times
<1>5. Reading'
  BY <1>1, <1>2 DEF Inv, Reading, SnapshotTables, FetchTables
<1>6. Agrees'
  <2>1. layout \in Nat
    BY DEF Inv, Shape
  <2> QED BY <1>1, <1>2, <2>1, SameRows DEF Inv, Agrees
<1>7. RulesDone'
  BY <1>1, <1>2, SameRows DEF Inv, RulesDone, HasRule, Right
<1>8. FilesDone'
  BY <1>2 DEF FilesDone
<1> QED BY <1>1, <1>2, <1>3, <1>4, <1>5, <1>6, <1>7, <1>8, LookKeeps DEF Inv, Host

\* One more table is read, as it is now.
LEMMA SeenFacts ==
  ASSUME Inv, it.pc \in {"snapshot", "fetch"}
  PROVE  /\ Seen = [r \in DOMAIN Seen |-> Seen[r]]
         /\ DOMAIN Seen = DOMAIN it.seen \cup Head(it.unread)
         /\ \A r \in DOMAIN Seen : Unchanged(r) => Seen[r] = db[r].val
         /\ SeenLayout \in Nat /\ SeenLayout <= layout
<1>1. layout \in Nat /\ it.pc # "idle"
  BY DEF Inv, Shape
<1> QED BY <1>1 DEF Inv, Agrees, Seen, SeenLayout

\* The firewall's snapshot, table by table.
LEMMA SnapshotInv == ASSUME Inv, SnapshotFirewall PROVE Inv'
<1>1. /\ it.pc = "snapshot" /\ UNCHANGED <<db, layout, clock, fw, ccd, ipsets, mem>>
      /\ it' = [it EXCEPT !.pc = IF Len(it.unread) = 1 THEN "firewall" ELSE "snapshot",
                          !.seen = Seen, !.seenLayout = SeenLayout,
                          !.unread = Tail(it.unread)]
  BY DEF SnapshotFirewall, envVars, hostVars
<1>2. /\ it'.pc = IF Len(it.unread) = 1 THEN "firewall" ELSE "snapshot"
      /\ it'.unread = Tail(it.unread) /\ it'.seen = Seen /\ it'.seenLayout = SeenLayout
      /\ it'.started = it.started /\ it'.todo = it.todo
  BY <1>1 DEF Inv, Shape
<1>3. Shape'
  <2>1. it' = [pc |-> it'.pc, started |-> it'.started, services |-> it'.services,
               resolved |-> it'.resolved, resolvedChanged |-> it'.resolvedChanged,
               changed |-> it'.changed, seen |-> it'.seen, unread |-> it'.unread,
               seenLayout |-> it'.seenLayout, todo |-> it'.todo]
    BY <1>1 DEF Inv, Shape
  <2> QED BY <1>1, <1>2, <2>1 DEF Inv, Shape, Pcs
<1>4. Times'
  BY <1>1, <1>2 DEF Inv, Times
<1>5. Reading'
  <2>1. \/ it.unread = <<Accounts, Services, Departments, Links>> /\ DOMAIN it.seen = {}
        \/ it.unread = <<Services, Departments, Links>> /\ DOMAIN it.seen = Accounts
        \/ it.unread = <<Departments, Links>> /\ DOMAIN it.seen = Accounts \cup Services
        \/ it.unread = <<Links>> /\ DOMAIN it.seen = Rows \ Links
    BY <1>1 DEF Inv, Reading
  <2>2. Rows \ Links = Accounts \cup Services \cup Departments
    BY DisjointRows DEF Rows
  <2>3. /\ it'.seen = [r \in DOMAIN it'.seen |-> it'.seen[r]]
        /\ DOMAIN it'.seen = DOMAIN it.seen \cup Head(it.unread)
    BY <1>1, <1>2, SeenFacts
  <2> HIDE DEF Rows
  <2>4. CASE it.unread = <<Accounts, Services, Departments, Links>> /\ DOMAIN it.seen = {}
    BY <1>2, <2>3, <2>4 DEF Reading
  <2>5. CASE it.unread = <<Services, Departments, Links>> /\ DOMAIN it.seen = Accounts
    BY <1>2, <2>3, <2>5 DEF Reading
  <2>6. CASE it.unread = <<Departments, Links>> /\ DOMAIN it.seen = Accounts \cup Services
    BY <1>2, <2>2, <2>3, <2>6 DEF Reading
  <2>7. CASE it.unread = <<Links>> /\ DOMAIN it.seen = Rows \ Links
    <3>1. it'.pc = "firewall" /\ DOMAIN it'.seen = Rows
      BY <1>2, <2>3, <2>7, DisjointRows
    <3> QED BY <2>3, <3>1 DEF Reading
  <2> QED BY <2>1, <2>4, <2>5, <2>6, <2>7
<1>6. Agrees'
  BY <1>1, <1>2, SeenFacts, SameRows DEF Agrees
<1>7. RulesDone' /\ FilesDone'
  BY <1>2 DEF RulesDone, FilesDone
<1> QED BY <1>1, <1>3, <1>4, <1>5, <1>6, <1>7, LookKeeps DEF Inv, Host

\* The rules become what the snapshot asks for.
LEMMA FirewallInv == ASSUME Inv, ReconcileFirewall PROVE Inv'
<1>1. /\ it.pc = "firewall" /\ UNCHANGED <<db, layout, clock, ccd, ipsets, mem>>
      /\ it' = StartFetch /\ fw' = Desired
  BY DEF ReconcileFirewall, envVars
<1>2. /\ it'.pc = "fetch" /\ it'.unread = FetchTables /\ it'.seen = <<>> /\ it'.seenLayout = 0
      /\ it'.started = it.started /\ it'.todo = it.todo
  BY <1>1 DEF Inv, Shape, StartFetch
<1>3. Shape'
  <2>1. it' = [pc |-> it'.pc, started |-> it'.started, services |-> it'.services,
               resolved |-> it'.resolved, resolvedChanged |-> it'.resolvedChanged,
               changed |-> it'.changed, seen |-> it'.seen, unread |-> it'.unread,
               seenLayout |-> it'.seenLayout, todo |-> it'.todo]
    BY <1>1 DEF Inv, Shape, StartFetch
  <2> QED BY <1>1, <1>2, <2>1 DEF Inv, Shape, Pcs
<1>4. Times'
  BY <1>1, <1>2 DEF Inv, Times
<1>5. Reading' /\ FilesDone'
  BY <1>2 DEF Reading, FilesDone, FetchTables
<1>6. Agrees'
  BY <1>1, <1>2 DEF Inv, Shape, Agrees
<1>7. Host'
  BY <1>1, RulesOfActive DEF Inv, Host, Desired
<1>8. \A a \in Accounts : Out(a) => ~HasRule(a)'
  BY <1>1, DesiredCutsOff DEF HasRule
<1>9. Quiet /\ (\A r \in Rows : Live(r) => Firm(r)) => Right'
  BY <1>1, DesiredIsRight, SameRows DEF Right
<1>10. RulesDone'
  BY <1>1, <1>2, <1>8, <1>9, SameRows DEF RulesDone
<1>11. DisabledCutOff'
  BY <1>1, <1>8, SameRows, PassedIsFirm, DisjointRows
  DEF Inv, DisabledCutOff, Out, PushesNoAddress
<1>12. SettledRules'
  BY <1>1, <1>9, SameRows, PassedIsFirm DEF SettledRules, Quiet, Right
<1> QED BY <1>3, <1>4, <1>5, <1>6, <1>7, <1>10, <1>11, <1>12 DEF Inv

\* An iteration ends at any point; the cursor is the old one, or forgotten.
LEMMA EndKeeps ==
  ASSUME Inv, it' = AtRest, UNCHANGED <<db, layout, clock, ipsets>>,
         mem' = mem \/ mem' = FreshMem,
         Host', DisabledCutOff', SettledRules'
  PROVE  Inv'
<1>1. it'.pc = "idle" /\ it'.started = 0 /\ it'.seen = <<>> /\ it'.todo = {}
  BY DEF AtRest
<1>2. Shape'
  BY <1>1 DEF Inv, Shape, Pcs, AtRest, FreshMem
<1>3. Times'
  <2>1. mem'.cursor = mem.cursor \/ mem'.cursor = 0
    BY DEF FreshMem
  <2> QED BY <1>1, <2>1, TimeAssumption DEF Inv, Times
<1>4. Reading' /\ Agrees' /\ RulesDone' /\ FilesDone'
  BY <1>1 DEF Reading, Agrees, RulesDone, FilesDone
<1> QED BY <1>2, <1>3, <1>4 DEF Inv

\* iptables refuses a rule: what was added is wanted, what was deleted is not.
LEMMA FirewallRaisesInv == ASSUME Inv, FirewallRaises PROVE Inv'
<1>1. /\ it.pc = "firewall" /\ UNCHANGED <<db, layout, clock, ccd, ipsets, mem>>
      /\ it' = AtRest
  BY DEF FirewallRaises, envVars, Raise
<1>2. /\ fw' \subseteq fw \cup Desired
      /\ Desired = fw => fw' = fw
  BY DEF FirewallRaises
<1>3. Host'
  BY <1>1, <1>2, RulesOfActive DEF Inv, Host, Desired
<1>4. DisabledCutOff'
  <2> SUFFICES ASSUME NEW a \in Accounts, Passed(a), DisabledRow(a)
               PROVE  ~HasRule(a)' /\ PushesNoAddress(a)
    BY <1>1, SameRows DEF DisabledCutOff, PushesNoAddress
  <2>1. ~HasRule(a) /\ PushesNoAddress(a)
    BY DEF Inv, DisabledCutOff
  <2>2. Out(a)
    BY <1>1, PassedIsFirm, DisjointRows DEF Out
  <2> QED BY <1>1, <1>2, <2>1, <2>2, DesiredCutsOff DEF HasRule
<1>5. SettledRules'
  <2> SUFFICES ASSUME \A r \in Rows : Live(r) => Passed(r), Quiet
               PROVE  fw' = ChainRules(View, layout)
    BY <1>1, SameRows DEF SettledRules, Quiet
  <2>1. fw = ChainRules(View, layout)
    BY DEF Inv, SettledRules, Quiet
  <2>2. Desired = ChainRules(View, layout)
    BY <1>1, PassedIsFirm, DesiredIsRight
  <2> QED BY <1>2, <2>1, <2>2
<1> QED BY <1>1, <1>3, <1>4, <1>5, EndKeeps

\* The accounts of the CCD pass, and the tables their tags come from.
LEMMA FetchInv == ASSUME Inv, FetchAccounts PROVE Inv'
<1>1. /\ it.pc = "fetch" /\ UNCHANGED <<db, layout, clock, fw, ccd, ipsets, mem>>
      /\ it' = [it EXCEPT !.pc = IF Len(it.unread) = 1 THEN "ccd" ELSE "fetch",
                          !.seen = Seen, !.seenLayout = SeenLayout, !.todo = Fetched,
                          !.unread = Tail(it.unread)]
  BY DEF FetchAccounts, envVars, hostVars
<1>2. /\ it'.pc = IF Len(it.unread) = 1 THEN "ccd" ELSE "fetch"
      /\ it'.unread = Tail(it.unread) /\ it'.seen = Seen /\ it'.seenLayout = SeenLayout
      /\ it'.started = it.started /\ it'.todo = Fetched
  BY <1>1 DEF Inv, Shape
<1>3. Shape'
  <2>1. it' = [pc |-> it'.pc, started |-> it'.started, services |-> it'.services,
               resolved |-> it'.resolved, resolvedChanged |-> it'.resolvedChanged,
               changed |-> it'.changed, seen |-> it'.seen, unread |-> it'.unread,
               seenLayout |-> it'.seenLayout, todo |-> it'.todo]
    BY <1>1 DEF Inv, Shape
  <2>2. Fetched \subseteq Accounts
    BY DEF Inv, Shape, Fetched
  <2>3. it'.pc \in Pcs /\ it'.pc # "idle"
    BY <1>2 DEF Pcs
  <2>4. it'.todo \subseteq Accounts
    BY <1>2, <2>2
  <2> QED BY <1>1, <2>1, <2>3, <2>4 DEF Inv, Shape
<1>4. Times'
  BY <1>1, <1>2 DEF Inv, Times
<1>5. /\ it'.seen = [r \in DOMAIN it'.seen |-> it'.seen[r]]
      /\ DOMAIN it'.seen = DOMAIN it.seen \cup Head(it.unread)
  BY <1>1, <1>2, SeenFacts
<1>6. \/ it.unread = <<Accounts, Departments, Links>> /\ DOMAIN it.seen = {}
      \/ it.unread = <<Departments, Links>> /\ DOMAIN it.seen = Accounts
      \/ it.unread = <<Links>> /\ DOMAIN it.seen = Accounts \cup Departments
  BY <1>1 DEF Inv, Reading
<1>7. Reading'
  <2>1. CASE it.unread = <<Accounts, Departments, Links>> /\ DOMAIN it.seen = {}
    BY <1>2, <1>5, <2>1 DEF Reading
  <2>2. CASE it.unread = <<Departments, Links>> /\ DOMAIN it.seen = Accounts
    BY <1>2, <1>5, <2>2 DEF Reading
  <2>3. CASE it.unread = <<Links>> /\ DOMAIN it.seen = Accounts \cup Departments
    <3>1. Rows \ Services = Accounts \cup Departments \cup Links
      BY DisjointRows DEF Rows
    <3>2. it'.pc = "ccd" /\ DOMAIN it'.seen = Rows \ Services
      BY <1>2, <1>5, <2>3, <3>1
    <3> QED BY <1>5, <3>2 DEF Reading
  <2> QED BY <1>6, <2>1, <2>2, <2>3
<1>8. Agrees'
  BY <1>1, <1>2, SeenFacts, SameRows DEF Agrees
<1>9. RulesDone'
  BY <1>1, <1>2, SameRows DEF Inv, RulesDone, HasRule, Right
<1>10. FilesDone'
  <2> SUFFICES ASSUME NEW a \in Accounts, Out(a)
               PROVE  a \in Fetched \/ PushesNoAddress(a)
    BY <1>1, <1>2, SameRows DEF FilesDone, PushesNoAddress
  <2>1. CASE Head(it.unread) = Accounts
    <3>1. a \notin Fetched => db[a].at < mem.cursor
      <4>1. /\ db[a].at \in 0..MaxClock /\ MaxClock \in Nat /\ mem.cursor \in Nat
        BY TimeAssumption, DisjointRows DEF Inv, Shape, Times
      <4> QED BY <2>1, <4>1 DEF Fetched, Out, Firm
    <3> QED BY <3>1 DEF Inv, DisabledCutOff, Out, Firm, Passed
  <2>2. CASE Head(it.unread) # Accounts
    <3>1. DOMAIN it.seen # {} /\ Fetched = it.todo
      BY <1>6, <2>2 DEF Fetched
    <3> QED BY <1>1, <3>1 DEF Inv, FilesDone
  <2> QED BY <2>1, <2>2
<1> QED BY <1>1, <1>3, <1>4, <1>7, <1>8, <1>9, <1>10, LookKeeps DEF Inv, Host

\* A read raises.
LEMMA FetchRaisesInv == ASSUME Inv, FetchRaises PROVE Inv'
<1>1. it' = AtRest /\ UNCHANGED <<db, layout, clock, fw, ccd, ipsets, mem>>
  BY DEF FetchRaises, Raise, envVars, hostVars
<1>2. Host'
  BY <1>1 DEF Inv, Host
<1>3. DisabledCutOff' /\ SettledRules'
  BY <1>1, SameRows DEF Inv, DisabledCutOff, SettledRules, HasRule, PushesNoAddress
<1> QED BY <1>1, <1>2, <1>3, EndKeeps

\* A file is written: that of a disabled account says so.
LEMMA WriteCcdInv == ASSUME Inv, NEW b \in Accounts, WriteCcd(b) PROVE Inv'
<1> DEFINE file == CcdFile(CcdView, it.resolved, it.seenLayout, b)
<1>1. /\ it.pc = "ccd" /\ UNCHANGED <<db, layout, clock, fw, ipsets, mem>>
      /\ ccd' = [ccd EXCEPT ![b] = file]
      /\ it' = [it EXCEPT !.todo = @ \ {b}]
  BY DEF WriteCcd, envVars
<1>2. /\ it'.pc = "ccd" /\ it'.unread = it.unread /\ it'.seen = it.seen
      /\ it'.seenLayout = it.seenLayout /\ it'.started = it.started
      /\ it'.todo = it.todo \ {b}
  BY <1>1 DEF Inv, Shape
<1>3. Shape'
  <2>1. it' = [pc |-> it'.pc, started |-> it'.started, services |-> it'.services,
               resolved |-> it'.resolved, resolvedChanged |-> it'.resolvedChanged,
               changed |-> it'.changed, seen |-> it'.seen, unread |-> it'.unread,
               seenLayout |-> it'.seenLayout, todo |-> it'.todo]
    BY <1>1 DEF Inv, Shape
  <2> QED BY <1>1, <1>2, <2>1 DEF Inv, Shape, Pcs
<1>4. Times' /\ Reading'
  BY <1>1, <1>2 DEF Inv, Times, Reading
<1>5. Agrees'
  BY <1>1, <1>2, SameRows DEF Inv, Agrees
<1>6. RulesDone'
  BY <1>1, <1>2, SameRows DEF Inv, RulesDone, HasRule, Right
<1>7. file.kind \in {"disable", "push"}
  BY FileShape
<1>8. Out(b) => file.kind = "disable"
  <2> SUFFICES ASSUME Out(b) PROVE CcdView[b].status = "DISABLED"
    BY FileShape
  <2>1. b \in DOMAIN it.seen /\ b \notin Services
    BY <1>1, DisjointRows DEF Inv, Reading
  <2>2. it.seen[b].status = "DISABLED"
    BY <1>1, <2>1 DEF Inv, Agrees, Out, Unchanged, DisabledRow
  <2> QED BY <2>1, <2>2 DEF CcdView
<1> HIDE DEF file
<1>9. \A a \in Accounts : ccd'[a] = IF a = b THEN file ELSE ccd[a]
  BY <1>1 DEF Inv, Host
<1>10. ccd' = [a \in Accounts |-> ccd'[a]]
  BY <1>1 DEF Inv, Host
<1>11. Host'
  BY <1>1, <1>7, <1>9, <1>10 DEF Inv, Host
<1>12. \A a \in Accounts : Out(a) /\ PushesNoAddress(a) => PushesNoAddress(a)'
  BY <1>8, <1>9 DEF PushesNoAddress
<1>13. FilesDone'
  <2> SUFFICES ASSUME NEW a \in Accounts, Out(a) PROVE a \in it'.todo \/ PushesNoAddress(a)'
    BY <1>1, <1>2, SameRows DEF FilesDone
  <2>1. a \in it.todo \/ PushesNoAddress(a)
    BY <1>1 DEF Inv, FilesDone
  <2> QED BY <1>2, <1>8, <1>9, <1>12, <2>1 DEF PushesNoAddress
<1>14. DisabledCutOff'
  BY <1>1, <1>12, SameRows, PassedIsFirm, DisjointRows DEF Inv, DisabledCutOff, HasRule, Out
<1>15. SettledRules'
  BY <1>1, SameRows DEF Inv, SettledRules
<1> QED BY <1>3, <1>4, <1>5, <1>6, <1>11, <1>13, <1>14, <1>15 DEF Inv

\* Files may be left empty: such a file pushes no address.
LEMMA TruncationKeeps ==
  ASSUME Inv, UNCHANGED <<db, layout, clock, fw, ipsets>>,
         it' = AtRest, mem' = mem \/ mem' = FreshMem,
         ccd' = ccd \/ \E a \in Accounts : ccd' = [ccd EXCEPT ![a] = Truncated]
  PROVE  Inv'
<1>1. \A a \in Accounts : ccd'[a] = ccd[a] \/ ccd'[a] = Truncated
  BY DEF Inv, Host
<1>2. Host'
  <2>1. ccd' = [a \in Accounts |-> ccd'[a]]
    BY DEF Inv, Host
  <2> QED BY <1>1, <2>1 DEF Inv, Host, Truncated
<1>3. \A r \in Rows : Passed(r)' => Passed(r)
  <2>1. \A r \in Rows : db[r].at \in 0..MaxClock /\ MaxClock \in Nat /\ mem.cursor \in Nat
    BY TimeAssumption DEF Inv, Shape, Times
  <2> QED BY <2>1 DEF Passed, Live, FreshMem
<1>4. DisabledCutOff'
  BY <1>1, <1>3, SameRows, DisjointRows
  DEF Inv, DisabledCutOff, HasRule, PushesNoAddress, Truncated
<1>5. SettledRules'
  BY <1>3, SameRows DEF Inv, SettledRules
<1> QED BY <1>2, <1>4, <1>5, EndKeeps

\* The cursor moves: what it passes is firm, and has been seen to.
LEMMA AdvanceInv == ASSUME Inv, AdvanceCursor PROVE Inv'
<1>1. /\ it.pc = "ccd" /\ it.todo = {} /\ UNCHANGED <<db, layout, clock, fw, ccd, ipsets>>
      /\ it' = AtRest /\ mem' = [mem EXCEPT !.cursor = it.started - Lag]
  BY DEF AdvanceCursor, NextCursor, envVars, hostVars
<1>2. it'.pc = "idle" /\ it'.started = 0 /\ it'.seen = <<>> /\ it'.todo = {}
  BY <1>1 DEF AtRest
<1>3. mem'.cursor = it.started - Lag
  BY <1>1 DEF Inv, Shape
<1>4. Shape'
  BY <1>1, <1>2 DEF Inv, Shape, Pcs, AtRest
<1>5. Times'
  BY <1>1, <1>2, <1>3, TimeAssumption DEF Inv, Times
<1>6. Host'
  BY <1>1 DEF Inv, Host
<1>7. Reading' /\ Agrees' /\ RulesDone' /\ FilesDone'
  BY <1>2 DEF Reading, Agrees, RulesDone, FilesDone
<1>8. \A r \in Rows : Passed(r)' => Firm(r)
  BY <1>1, <1>3 DEF Passed, Firm, Live
<1>9. DisabledCutOff'
  BY <1>1, <1>8, SameRows, DisjointRows
  DEF Inv, DisabledCutOff, RulesDone, FilesDone, HasRule, PushesNoAddress, Out
<1>10. SettledRules'
  BY <1>1, <1>8, SameRows DEF Inv, SettledRules, RulesDone, Quiet, Right
<1> QED BY <1>4, <1>5, <1>6, <1>7, <1>9, <1>10 DEF Inv

\* Every step keeps the inductive invariant.
LEMMA NextInv == ASSUME Inv, [Next]_vars PROVE Inv'
<1>1. CASE UNCHANGED vars
  <2>1. UNCHANGED <<db, layout, clock, fw, ccd, ipsets, mem, it>>
    BY <1>1 DEF vars
  <2>2. Shape' /\ Times' /\ Reading'
    BY <2>1 DEF Inv, Shape, Times, Reading
  <2>3. Agrees' /\ RulesDone' /\ FilesDone'
    BY <2>1, SameRows DEF Inv, Agrees, RulesDone, FilesDone, HasRule, Right, PushesNoAddress
  <2> QED BY <2>1, <2>2, <2>3, LookKeeps DEF Inv, Host
<1>2. CASE Agent
  BY <1>2, StartInv, RoutingInv, CountUpdatedInv, CountTotalsInv, SnapshotInv, FirewallInv,
     FirewallRaisesInv, FetchInv, WriteCcdInv, AdvanceInv DEF Agent
<1>3. CASE Failure
  <2>1. ASSUME NEW a \in Accounts, WriteRaises(a) PROVE Inv'
    BY <2>1, TruncationKeeps DEF WriteRaises, Raise, envVars
  <2>2. ASSUME Crash PROVE Inv'
    <3>1. ccd' = ccd \/ \E a \in Accounts : ccd' = [ccd EXCEPT ![a] = Truncated]
      BY <2>2 DEF Crash, Inv, Shape
    <3> QED BY <2>2, <3>1, TruncationKeeps DEF Crash, envVars
  <2> QED BY <1>3, <2>1, <2>2, FetchRaisesInv DEF Failure
<1> QED BY <1>1, <1>2, <1>3, EnvironmentInv DEF Next

-----------------------------------------------------------------------------
(* What follows.                                                           *)

\* The inductive invariant holds of every behaviour.
THEOREM Invariance == Spec => []Inv
<1> QED BY InitInv, NextInv, PTL DEF Spec

\* Rows, rules, files and the agent's memory keep their shape.
THEOREM TypeCorrect == Spec => []TypeOK
<1>1. ASSUME Inv PROVE TypeOK
  <2>1. mem.cursor \in 0..clock /\ it.started \in 0..clock /\ clock \in 0..MaxClock
    BY <1>1, TimeAssumption DEF Inv, Times
  <2>2. /\ \A r \in Rows : /\ db[r].val \in Values(r) \cup {NotYet, Deleted}
                           /\ db[r].at \in 0..MaxClock
        /\ it.pc \in Pcs /\ it.todo \subseteq Accounts
    BY <1>1 DEF Inv, Shape
  <2> QED BY <1>1, <2>1, <2>2 DEF Inv, Host, TypeOK
<1> QED BY <1>1, Invariance, PTL

\* Whatever commits between the reads of an iteration, and wherever iptables, a
\* write or the process fails, an account the cursor has passed as disabled has
\* no rule and gets no address.
THEOREM DisabledStayCutOff == Spec => []DisabledCutOff
<1> QED BY Invariance, PTL DEF Inv

\* No insert or update falls between two reads: with every row behind the
\* cursor, and none deleted, the rules are those the database asks for.
THEOREM SettledIsRight == Spec => []SettledRules
<1> QED BY Invariance, PTL DEF Inv

-----------------------------------------------------------------------------
(* CCD files.  They are made from the services read when the iteration     *)
(* began, the tags and accounts read at its end, and addresses resolved in *)
(* between.  If all rows are firm that is as if they were read at once.    *)

Calm == NothingDeleted /\ layout = 0 /\ answer = 0
AllFirm == Calm /\ \A r \in Rows : Live(r) => Firm(r)
AllPassed == Calm /\ \A r \in Rows : Live(r) => Passed(r)

\* The file is as the database asks for, or a write of it failed.
RightFile(a) == ccd[a] \in {Truncated, CcdFile(View, Resolve(View), layout, a)}

\* The file will be written before the iteration ends.
ToWrite(a) ==
  \/ it.pc = "fetch" /\ DOMAIN it.seen = {} /\ it.changed
  \/ it.pc \in {"fetch", "ccd"} /\ DOMAIN it.seen # {} /\ a \in it.todo

FilesKept ==
  /\ answer \in Nat
  /\ it.pc \in {"snapshot", "firewall"} => it.changed
  /\ it.pc \notin {"idle", "routing"} /\ AllFirm =>
       /\ it.services = [s \in Services |-> db[s].val]
       /\ it.resolved = Resolve(View)
  /\ it.pc \in {"totals", "fetch", "ccd"} /\ AllFirm =>
       \A a \in Accounts : Live(a) => RightFile(a) \/ ToWrite(a)
  /\ AllPassed => \A a \in Accounts : Live(a) => RightFile(a)

\* While the database and DNS rest, so do the words about them.
LEMMA SameData ==
  ASSUME UNCHANGED <<db, layout, answer>>
  PROVE  /\ Calm' = Calm /\ View' = View /\ Resolve(View)' = Resolve(View)
         /\ \A r : Live(r)' = Live(r)
         /\ it'.started = it.started => (AllFirm' <=> AllFirm)
         /\ mem'.cursor = mem.cursor => (AllPassed' <=> AllPassed)
         /\ \A a : ccd'[a] = ccd[a] => (RightFile(a)' <=> RightFile(a))
<1>1. Calm' = Calm /\ View' = View /\ Resolve(View)' = Resolve(View)
  BY DEF Calm, NothingDeleted, View, Resolve, In
<1>2. \A r : Live(r)' = Live(r)
  BY DEF Live
<1>3. it'.started = it.started => (AllFirm' <=> AllFirm)
  BY <1>1, <1>2 DEF AllFirm, Firm
<1>4. mem'.cursor = mem.cursor => (AllPassed' <=> AllPassed)
  BY <1>1, <1>2 DEF AllPassed, Passed
<1>5. ASSUME NEW a, ccd'[a] = ccd[a] PROVE RightFile(a)' <=> RightFile(a)
  <2>1. CcdFile(View, Resolve(View), layout, a)' = CcdFile(View, Resolve(View), layout, a)
    BY <1>1 DEF CcdFile, Matched, In, AccountTags
  <2> QED BY <1>5, <2>1 DEF RightFile
<1> QED BY <1>1, <1>2, <1>3, <1>4, <1>5

\* Of what the environment does, only the passing of time leaves all rows firm,
\* or passed.
LEMMA EnvironmentRests ==
  ASSUME Inv, answer \in Nat, Environment
  PROVE  /\ UNCHANGED <<ccd, mem, it>> /\ answer' \in Nat
         /\ AllFirm' \/ AllPassed' => UNCHANGED <<db, layout, answer>>
<1>1. /\ clock \in Nat /\ Lag \in Nat /\ CommitDelay \in Nat /\ CommitDelay <= Lag
      /\ mem.cursor \in Nat /\ mem.cursor + Lag <= clock
      /\ it.started \in Nat /\ it.started <= clock
  BY TimeAssumption DEF Inv, Times
<1>2. ASSUME NEW r \in Rows, InsertRow(r) \/ UpdateRow(r)
      PROVE  UNCHANGED <<ccd, mem, it, answer>> /\ ~AllFirm' /\ ~AllPassed'
  <2>1. PICK val \in Values(r) : Write(r, val)
    BY <1>2 DEF InsertRow, UpdateRow
  <2>2. PICK d \in 0..CommitDelay : db' = [db EXCEPT ![r] = [val |-> val, at |-> clock - d]]
    BY <2>1 DEF Write
  <2>3. UNCHANGED <<ccd, mem, it, answer>>
    BY <2>1 DEF Write, hostVars
  <2>4. db'[r].val = val /\ db'[r].at = clock - d
    BY <2>2 DEF Inv, Shape
  <2>5. Live(r)' /\ ~Passed(r)' /\ ~Firm(r)'
    BY <1>1, <2>3, <2>4, RowsAssumption DEF Live, Passed, Firm
  <2> QED BY <2>3, <2>5 DEF AllFirm, AllPassed
<1>3. ASSUME NEW r \in Rows, DeleteRow(r)
      PROVE  UNCHANGED <<ccd, mem, it, answer>> /\ ~AllFirm' /\ ~AllPassed'
  <2>1. db'[r].val = Deleted
    BY <1>3 DEF DeleteRow, Inv, Shape
  <2> QED BY <1>3, <2>1 DEF DeleteRow, hostVars, AllFirm, AllPassed, Calm, NothingDeleted
<1>4. ASSUME ChangeSubnets \/ ChangeAnswer
      PROVE  UNCHANGED <<ccd, mem, it>> /\ answer' \in Nat /\ ~AllFirm' /\ ~AllPassed'
  BY <1>4 DEF ChangeSubnets, ChangeAnswer, hostVars, AllFirm, AllPassed, Calm, Inv, Shape
<1>5. ASSUME Tick PROVE UNCHANGED <<ccd, mem, it, db, layout, answer>>
  BY <1>5 DEF Tick, hostVars
<1> QED BY <1>2, <1>3, <1>4, <1>5 DEF Environment

\* A step that leaves the database, the cursor, the files, and what was read and
\* is to be written alone.
LEMMA RestKeeps ==
  ASSUME Inv, FilesKept,
         \/ UNCHANGED <<db, layout, answer>>
         \/ answer' \in Nat /\ ~AllFirm' /\ ~AllPassed',
         UNCHANGED <<ccd, mem, it>>
  PROVE  FilesKept'
<1>1. CASE UNCHANGED <<db, layout, answer>>
  BY <1>1, SameData DEF FilesKept, ToWrite
<1>2. CASE answer' \in Nat /\ ~AllFirm' /\ ~AllPassed'
  BY <1>2 DEF FilesKept
<1> QED BY <1>1, <1>2

\* Nothing is due when an iteration has ended; passed rows were passed before.
LEMMA EndKeepsFiles ==
  ASSUME FilesKept, UNCHANGED <<db, layout, answer>>, it' = AtRest,
         AllPassed' => \A a \in Accounts : Live(a) => RightFile(a)'
  PROVE  FilesKept'
<1>1. it'.pc = "idle"
  BY DEF AtRest
<1> QED BY <1>1, SameData DEF FilesKept

\* Rows the cursor has passed are firm.
LEMMA AllPassedFirm == ASSUME Inv, it.pc # "idle", AllPassed PROVE AllFirm
BY PassedIsFirm DEF AllPassed, AllFirm

\* No count, no read of a table but the last changes what will be written.
LEMMA LookKeepsFiles ==
  ASSUME Inv, Inv', FilesKept,
         ReconcileRouting \/ StartIteration \/ CountUpdated \/ CountTotals
           \/ SnapshotFirewall \/ ReconcileFirewall
  PROVE  FilesKept'
<1>1. UNCHANGED <<db, layout, answer, ccd>> /\ mem'.cursor = mem.cursor
  BY DEF ReconcileRouting, StartIteration, CountUpdated, CountTotals, SnapshotFirewall,
         ReconcileFirewall, envVars, hostVars, Inv, Shape
<1>2. AllPassed' => \A a \in Accounts : Live(a)' => RightFile(a)'
  BY <1>1, SameData DEF FilesKept
<1>3. answer' \in Nat
  BY <1>1 DEF FilesKept
<1>4. CASE StartIteration
  <2>1. it'.pc = "routing"
    BY <1>4 DEF StartIteration, Inv, Shape
  <2> QED BY <1>2, <1>3, <2>1 DEF FilesKept
<1>5. CASE ReconcileRouting
  <2>1. /\ it'.pc = "updated" /\ it'.services = [s \in Services |-> db[s].val]
        /\ it'.resolved = Resolve(View)
    BY <1>5 DEF ReconcileRouting, Inv, Shape
  <2>2. it'.services = [s \in Services |-> db'[s].val] /\ it'.resolved = Resolve(View)'
    BY <1>1, <2>1, SameData
  <2> QED BY <1>2, <1>3, <2>1, <2>2 DEF FilesKept
<1>6. ASSUME it'.services = it.services, it'.resolved = it.resolved, it'.started = it.started,
             it.pc \notin {"idle", "routing"}
      PROVE  it'.pc \notin {"idle", "routing"} /\ AllFirm' =>
               /\ it'.services = [s \in Services |-> db'[s].val]
               /\ it'.resolved = Resolve(View)'
  BY <1>1, <1>6, SameData DEF FilesKept
<1>7. CASE CountUpdated
  <2>1. /\ it.pc = "updated" /\ it'.services = it.services /\ it'.resolved = it.resolved
        /\ it'.started = it.started /\ it'.pc \in {"snapshot", "totals"}
        /\ it'.pc = "snapshot" => it'.changed
        /\ it'.pc = "totals" => ~Updated
    BY <1>7 DEF CountUpdated, Inv, Shape
  <2>2. ~Updated /\ Calm => AllPassed
    <3>1. \A r \in Rows : db[r].at \in 0..MaxClock /\ MaxClock \in Nat /\ mem.cursor \in Nat
      BY TimeAssumption DEF Inv, Shape, Times
    <3> QED BY <3>1 DEF Updated, AllPassed, Passed
  <2>3. it'.pc = "totals" /\ AllFirm' =>
          \A a \in Accounts : Live(a)' => RightFile(a)'
    BY <1>1, <2>1, <2>2, SameData DEF FilesKept, AllFirm
  <2> QED BY <1>2, <1>3, <1>6, <2>1, <2>3 DEF FilesKept
<1>8. CASE CountTotals
  <2>1. /\ it.pc = "totals" /\ it'.services = it.services /\ it'.resolved = it.resolved
        /\ it'.started = it.started /\ it'.pc \in {"snapshot", "fetch"}
        /\ it'.pc = "snapshot" => it'.changed
    BY <1>8 DEF CountTotals, StartFetch, Inv, Shape
  <2>2. AllFirm' => \A a \in Accounts : Live(a)' => RightFile(a)'
    BY <1>1, <2>1, SameData DEF FilesKept, ToWrite
  <2> QED BY <1>2, <1>3, <1>6, <2>1, <2>2 DEF FilesKept
<1>9. CASE SnapshotFirewall
  <2>1. /\ it.pc = "snapshot" /\ it'.services = it.services /\ it'.resolved = it.resolved
        /\ it'.started = it.started /\ it'.pc \in {"snapshot", "firewall"}
        /\ it'.changed = it.changed
    BY <1>9 DEF SnapshotFirewall, Inv, Shape
  <2> QED BY <1>2, <1>3, <1>6, <2>1 DEF FilesKept
<1>10. CASE ReconcileFirewall
  <2>1. /\ it.pc = "firewall" /\ it'.services = it.services /\ it'.resolved = it.resolved
        /\ it'.started = it.started /\ it'.pc = "fetch" /\ it'.seen = <<>>
        /\ it'.changed = it.changed
    BY <1>10 DEF ReconcileFirewall, StartFetch, Inv, Shape
  <2>2. \A a : ToWrite(a)'
    BY <2>1 DEF FilesKept, ToWrite
  <2> QED BY <1>2, <1>3, <1>6, <2>1, <2>2 DEF FilesKept
<1> QED BY <1>4, <1>5, <1>7, <1>8, <1>9, <1>10

\* The accounts of the CCD pass are chosen: all of them after a change, and
\* without one every file is right already.
LEMMA FetchKeepsFiles ==
  ASSUME Inv, Inv', FilesKept, FetchAccounts
  PROVE  FilesKept'
<1>1. /\ it.pc = "fetch" /\ UNCHANGED <<db, layout, answer, ccd, mem>>
      /\ it'.services = it.services /\ it'.resolved = it.resolved
      /\ it'.started = it.started /\ it'.pc \in {"fetch", "ccd"} /\ it'.todo = Fetched
      /\ it'.seen = Seen
  BY DEF FetchAccounts, envVars, hostVars, Inv, Shape
<1>2. DOMAIN it'.seen = DOMAIN it.seen \cup Head(it.unread)
  BY <1>1, SeenFacts
<1>3. \/ it.unread = <<Accounts, Departments, Links>> /\ DOMAIN it.seen = {}
      \/ it.unread = <<Departments, Links>> /\ DOMAIN it.seen = Accounts
      \/ it.unread = <<Links>> /\ DOMAIN it.seen = Accounts \cup Departments
  BY <1>1 DEF Inv, Reading
<1>4. ASSUME AllFirm, NEW a \in Accounts, Live(a)
      PROVE  RightFile(a) \/ (DOMAIN it'.seen # {} /\ a \in Fetched)
  <2>1. RightFile(a) \/ ToWrite(a)
    BY <1>1, <1>4 DEF FilesKept
  <2>2. CASE ToWrite(a) /\ DOMAIN it.seen = {}
    <3>1. it.changed /\ Head(it.unread) = Accounts
      BY <1>3, <2>2 DEF ToWrite
    <3> QED BY <1>2, <1>4, <3>1 DEF Fetched, FullRebuild
  <2>3. CASE ToWrite(a) /\ DOMAIN it.seen # {}
    <3>1. a \in it.todo /\ Head(it.unread) # Accounts
      <4>1. a \in it.todo
        BY <2>3 DEF ToWrite
      <4>2. a \notin Departments /\ a \notin Links
        BY DisjointRows
      <4>3. Head(it.unread) = Departments \/ Head(it.unread) = Links
        BY <1>3, <2>3
      <4> QED BY <4>1, <4>2, <4>3
    <3> QED BY <1>2, <2>3, <3>1 DEF Fetched
  <2> QED BY <2>1, <2>2, <2>3
<1>5. AllFirm' => \A a \in Accounts : Live(a)' => RightFile(a)' \/ ToWrite(a)'
  BY <1>1, <1>4, SameData DEF ToWrite
<1>6. AllPassed' => \A a \in Accounts : Live(a)' => RightFile(a)'
  BY <1>1, SameData DEF FilesKept
<1>7. AllFirm' => /\ it'.services = [s \in Services |-> db'[s].val]
                  /\ it'.resolved = Resolve(View)'
  BY <1>1, SameData DEF FilesKept
<1> QED BY <1>1, <1>5, <1>6, <1>7 DEF FilesKept

\* A file that is written of firm rows is as the database asks for.
LEMMA WriteKeepsFiles ==
  ASSUME Inv, Inv', FilesKept, NEW b \in Accounts, WriteCcd(b)
  PROVE  FilesKept'
<1> DEFINE file == CcdFile(CcdView, it.resolved, it.seenLayout, b)
<1>1. /\ it.pc = "ccd" /\ UNCHANGED <<db, layout, answer, mem>>
      /\ ccd' = [ccd EXCEPT ![b] = file]
      /\ it'.services = it.services /\ it'.resolved = it.resolved
      /\ it'.started = it.started /\ it'.pc = "ccd" /\ it'.todo = it.todo \ {b}
      /\ it'.seen = it.seen
  BY DEF WriteCcd, envVars, Inv, Shape
<1>2. ASSUME AllFirm PROVE file = CcdFile(View, Resolve(View), layout, b)
  <2>1. DOMAIN it.seen = Rows \ Services
    BY <1>1 DEF Inv, Reading
  <2>2. \A r \in Rows : Unchanged(r)
    BY <1>2 DEF AllFirm, Calm, NothingDeleted, Live, Unchanged
  <2>3. /\ it.services = [s \in Services |-> db[s].val] /\ it.resolved = Resolve(View)
    BY <1>1, <1>2 DEF FilesKept
  <2>4. it.seenLayout = layout
    BY <1>1, <1>2 DEF Inv, Agrees, AllFirm, Calm
  <2>5. \A r \in DOMAIN it.seen : it.seen[r] = db[r].val
    BY <1>1, <2>1, <2>2 DEF Inv, Agrees
  <2>6. CcdView = View
    <3>1. DOMAIN it.seen \cup Services = Rows
      BY <2>1, DisjointRows
    <3> QED BY <2>1, <2>3, <2>5, <3>1 DEF CcdView, View
  <2> QED BY <2>3, <2>4, <2>6
<1> HIDE DEF file
<1>3. \A a \in Accounts : ccd'[a] = IF a = b THEN file ELSE ccd[a]
  BY <1>1 DEF Inv, Host
<1>4. AllFirm => RightFile(b)'
  <2> SUFFICES ASSUME AllFirm PROVE RightFile(b)'
    OBVIOUS
  <2>1. CcdFile(View, Resolve(View), layout, b)' = CcdFile(View, Resolve(View), layout, b)
    BY <1>1, SameData DEF CcdFile, Matched, In, AccountTags
  <2> QED BY <1>2, <1>3, <2>1 DEF RightFile
<1>5. ASSUME NEW a \in Accounts, a # b PROVE RightFile(a)' <=> RightFile(a)
  BY <1>1, <1>3, <1>5, SameData
<1>6. AllFirm' <=> AllFirm
  BY <1>1, SameData
<1>7. ASSUME AllFirm, NEW a \in Accounts, Live(a) PROVE RightFile(a)' \/ ToWrite(a)'
  <2>1. RightFile(a) \/ ToWrite(a)
    BY <1>1, <1>7 DEF FilesKept
  <2>2. CASE a = b
    BY <1>4, <1>7, <2>2
  <2>3. CASE a # b
    BY <1>1, <1>5, <2>1, <2>3 DEF ToWrite
  <2> QED BY <2>2, <2>3
<1>8. ASSUME AllPassed', NEW a \in Accounts, Live(a) PROVE RightFile(a)'
  <2>1. AllPassed /\ AllFirm
    BY <1>1, <1>8, SameData, AllPassedFirm
  <2> QED BY <1>4, <1>5, <1>8, <2>1 DEF FilesKept
<1>9. AllFirm' => /\ it'.services = [s \in Services |-> db'[s].val]
                  /\ it'.resolved = Resolve(View)'
  BY <1>1, SameData DEF FilesKept
<1>10. \A a : Live(a)' = Live(a)
  BY <1>1, SameData
<1> QED BY <1>1, <1>6, <1>7, <1>8, <1>9, <1>10 DEF FilesKept

\* The end of an iteration: all files that were due are written.
LEMMA AdvanceKeepsFiles ==
  ASSUME Inv, FilesKept, AdvanceCursor
  PROVE  FilesKept'
<1>1. /\ it.pc = "ccd" /\ it.todo = {} /\ UNCHANGED <<db, layout, answer, ccd>>
      /\ it' = AtRest /\ mem'.cursor = it.started - Lag
  BY DEF AdvanceCursor, NextCursor, envVars, hostVars, Inv, Shape
<1>2. AllPassed' => AllFirm
  BY <1>1, SameData DEF AllPassed, AllFirm, Passed, Firm
<1>3. AllFirm => \A a \in Accounts : Live(a) => RightFile(a)
  BY <1>1 DEF FilesKept, ToWrite
<1> QED BY <1>1, <1>2, <1>3, EndKeepsFiles, SameData

\* A failure leaves files as they are or one of them empty, and passes no row.
LEMMA FailureKeepsFiles ==
  ASSUME Inv, FilesKept, FirewallRaises \/ Failure
  PROVE  FilesKept'
<1>1. /\ UNCHANGED <<db, layout, answer>> /\ it' = AtRest
      /\ mem' = mem \/ mem' = FreshMem
      /\ ccd' = ccd \/ \E a \in Accounts : ccd' = [ccd EXCEPT ![a] = Truncated]
  <2>1. it.todo \subseteq Accounts
    BY DEF Inv, Shape
  <2>2. CASE FirewallRaises
    BY <2>2 DEF FirewallRaises, Raise, envVars
  <2>3. CASE Failure
    BY <2>1, <2>3 DEF Failure, FetchRaises, WriteRaises, Crash, Raise, envVars, hostVars
  <2> QED BY <2>2, <2>3
<1>2. AllPassed' => AllPassed
  <2>1. \A r \in Rows : db[r].at \in 0..MaxClock /\ MaxClock \in Nat /\ mem.cursor \in Nat
    BY TimeAssumption DEF Inv, Shape, Times
  <2>2. mem'.cursor = mem.cursor \/ mem'.cursor = 0
    BY <1>1 DEF FreshMem
  <2>3. CASE mem'.cursor = mem.cursor
    BY <1>1, <2>3, SameData
  <2>4. CASE mem'.cursor = 0
    <3>1. Calm' = Calm /\ \A r \in Rows : Live(r)' = Live(r)
      BY <1>1, SameData
    <3>2. \A r \in Rows : ~Passed(r)'
      BY <1>1, <2>1, <2>4 DEF Passed
    <3> QED BY <3>1, <3>2 DEF AllPassed
  <2> QED BY <2>2, <2>3, <2>4
<1>3. \A a \in Accounts : ccd'[a] = ccd[a] \/ ccd'[a] = Truncated
  BY <1>1 DEF Inv, Host
<1>4. \A a \in Accounts : RightFile(a) => RightFile(a)'
  <2> TAKE a \in Accounts
  <2>1. CASE ccd'[a] = ccd[a]
    BY <1>1, <2>1, SameData
  <2>2. CASE ccd'[a] = Truncated
    BY <2>2 DEF RightFile
  <2> QED BY <1>3, <2>1, <2>2
<1> QED BY <1>1, <1>2, <1>4, EndKeepsFiles DEF FilesKept

\* What is said of CCD files holds of every behaviour.
THEOREM FilesInvariance == Spec => []FilesKept
<1>1. Init => FilesKept
  <2> SUFFICES ASSUME Init PROVE FilesKept
    OBVIOUS
  <2>1. answer = 0 /\ it.pc = "idle" /\ mem.cursor = 0 /\ \A r \in Rows : db[r].at = 0
    BY DEF Init, AtRest, FreshMem
  <2>2. \A a \in Accounts : Live(a) => ~AllPassed
    BY <2>1, DisjointRows DEF AllPassed, Passed
  <2> QED BY <2>1, <2>2 DEF FilesKept
<1>2. ASSUME Inv, Inv', FilesKept, [Next]_vars PROVE FilesKept'
  <2>1. CASE UNCHANGED vars
    BY <1>2, <2>1, RestKeeps DEF vars
  <2>2. CASE Environment
    <3>1. answer \in Nat
      BY <1>2 DEF FilesKept
    <3>2. /\ UNCHANGED <<ccd, mem, it>> /\ answer' \in Nat
          /\ AllFirm' \/ AllPassed' => UNCHANGED <<db, layout, answer>>
      BY <1>2, <2>2, <3>1, EnvironmentRests
    <3> QED BY <1>2, <3>2, RestKeeps
  <2>3. CASE Failure \/ FirewallRaises
    BY <1>2, <2>3, FailureKeepsFiles
  <2>4. CASE Agent /\ ~FirewallRaises
    BY <1>2, <2>4, LookKeepsFiles, FetchKeepsFiles, WriteKeepsFiles, AdvanceKeepsFiles
    DEF Agent
  <2> QED BY <1>2, <2>1, <2>2, <2>3, <2>4 DEF Next
<1> QED BY <1>1, <1>2, Invariance, PTL DEF Spec

\* When the cursor has passed every row, rules and CCD files are those the database
\* asks for, but for files whose write failed.
THEOREM SettledHostIsRight == Spec => []SettledHost
<1>1. Inv /\ FilesKept => SettledHost
  BY DEF Inv, FilesKept, SettledHost, SettledFiles, AllPassed, Calm, RightFile
<1> QED BY <1>1, Invariance, FilesInvariance, PTL
=============================================================================
