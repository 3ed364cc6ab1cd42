---------------------------- MODULE ServerAgent ----------------------------
(***************************************************************************)
(* The polling agent of a VPN gateway (services/server_agent.py).  Command *)
(* line and API change rows of PostgreSQL; every few seconds the agent     *)
(* compares the database with what it enforces on the host: ACCEPT rules,  *)
(* the ipsets they match, and one CCD file per account.                    *)
(*                                                                         *)
(* An iteration reads the database several times, one SELECT per table, at *)
(* PostgreSQL's default isolation, so rows change between any two of its   *)
(* reads.  It learns of changes from updated_at >= cursor and from row     *)
(* counts.  It may raise half way, and the process may crash.              *)
(***************************************************************************)
EXTENDS Integers, Sequences, FiniteSets

CONSTANTS
  Accounts, Services, Departments,
  Links,           \* rows of account_departments that may exist
  LinkOf,          \* the account and the department a link row joins
  AccountRows,     \* [status, access, tags]
  ServiceRows,     \* [tags, domains]: domains or static subnets as destination
  DepartmentRows,  \* [tags]
  NotYet, Deleted, \* a row before its insert and after its delete
  InitialRows,     \* databases the agent may first start against
  Lag,             \* AgentService.lag
  CommitDelay,     \* longest time from stamping updated_at to the commit
  MaxClock,        \* bound of the clock
  LastChange,      \* bound of the time at which the environment still changes
  MaxChanges,      \* bound of the number of environment changes
  MaxFailures      \* bound of the number of exceptions and crashes

Rows == Accounts \cup Services \cup Departments \cup Links

ASSUME TimeAssumption ==
  /\ Lag \in Nat /\ CommitDelay \in Nat /\ MaxClock \in Nat /\ LastChange \in Nat
  /\ CommitDelay <= Lag /\ Lag <= MaxClock
ASSUME BoundAssumption == MaxChanges \in Nat /\ MaxFailures \in Nat
ASSUME LinkAssumption == LinkOf \in [Links -> Accounts \X Departments]

VARIABLES
  db,        \* every row: its value and updated_at
  layout,    \* how the network's subnets map offsets to client IPs
  answer,    \* what DNS answers for the services' domains
  clock,
  ipsets,    \* domain services that have an ipset in the kernel
  fw,        \* ACCEPT rules of the managed chain
  ccd,       \* CCD files
  mem,       \* what the agent remembers between iterations
  it,        \* the iteration in progress
  budget     \* changes and failures still to come

hostVars == <<ipsets, fw, ccd>>
envVars == <<db, layout, answer, clock>>
vars == <<db, layout, answer, clock, ipsets, fw, ccd, mem, it, budget>>

-----------------------------------------------------------------------------
(* Rows as a query returns them.                                           *)

Values(r) ==
  CASE r \in Accounts -> AccountRows
    [] r \in Services -> ServiceRows
    [] r \in Departments -> DepartmentRows
    [] r \in Links -> {"member"}

\* Every row has its own uuid, and a stored row has a value.
ASSUME RowsAssumption ==
  /\ Accounts \cap (Services \cup Departments \cup Links) = {}
  /\ Services \cap (Departments \cup Links) = {} /\ Departments \cap Links = {}
  /\ \A r \in Rows : NotYet \notin Values(r) /\ Deleted \notin Values(r)
  /\ \A rows \in InitialRows : \A r \in Rows : rows[r] \in Values(r) \cup {NotYet}
  /\ NotYet # Deleted

View == [r \in Rows |-> db[r].val]

In(view, r) == view[r] \notin {NotYet, Deleted}
Live(r) == db[r].val \notin {NotYet, Deleted}

\* _account_tags over department_granted_tags: own tags and those granted by
\* the departments the account belongs to.
AccountTags(view, a) ==
  view[a].tags \cup
  UNION {view[LinkOf[l][2]].tags :
          l \in {k \in Links : LinkOf[k][1] = a /\ In(view, k) /\ In(view, LinkOf[k][2])}}

\* Services of a view that share a tag with the account.
Matched(view, a) ==
  {s \in Services : In(view, s) /\ AccountTags(view, a) \cap view[s].tags # {}}

\* _build_chain_rules: what one chain should ACCEPT.  A client is its account
\* at the address the network's layout gives it.
Rule(a, lay, dest, set) == [client |-> a, layout |-> lay, dest |-> dest, matchSet |-> set]
Anywhere == "anywhere"

ChainRules(view, lay) ==
  LET Active == {a \in Accounts : In(view, a) /\ view[a].status = "ACTIVE"}
      All == {a \in Active : view[a].access = "ALL"}
  IN {Rule(a, lay, Anywhere, FALSE) : a \in All}
     \cup UNION {{Rule(a, lay, s, view[s].domains) : s \in Matched(view, a)} :
                 a \in Active \ All}

\* A destination a CCD file routes: the static subnets of a service, or what its
\* domains resolved to.
SubnetRoute(s) == [service |-> s, via |-> "subnets", answer |-> 0]
AddressRoute(s, ans) == [service |-> s, via |-> "domains", answer |-> ans]

\* _reconcile_dns: the answer for each domain service of the snapshot.
Resolve(view) ==
  {AddressRoute(s, answer) : s \in {k \in Services : In(view, k) /\ view[k].domains}}

\* process_instance and _build_ccd_push_lines: "disable", or the address and
\* the routes of the matched services.
Disable == [kind |-> "disable"]
Truncated == [kind |-> "empty"]
NoFile == [kind |-> "none"]

CcdFile(view, resolved, lay, a) ==
  IF view[a].status = "DISABLED" THEN Disable
  ELSE [kind |-> "push", layout |-> lay,
        routes |->
          UNION {IF view[s].domains THEN {route \in resolved : route.service = s}
                 ELSE {SubnetRoute(s)} : s \in Matched(view, a)}]

\* Rows of a table whose deletions are counted (the tuple counted_models).
Counted == <<Services, Departments, Links>>
RowCounts(view) ==
  [t \in 1..3 |-> Cardinality({r \in Counted[t] : In(view, r)})]

NoCounts == <<>>
NeverResolved == {NoCounts}

-----------------------------------------------------------------------------
(* The agent's memory.                                                     *)

FreshMem == [cursor |-> 0, lastCounts |-> NoCounts, lastResolved |-> NeverResolved]

AtRest == [pc |-> "idle", started |-> 0, services |-> <<>>, resolved |-> {},
           resolvedChanged |-> FALSE, changed |-> FALSE, seen |-> <<>>,
           unread |-> <<>>, seenLayout |-> 0, todo |-> {}]

Init ==
  /\ \E rows \in InitialRows : db = [r \in Rows |-> [val |-> rows[r], at |-> 0]]
  /\ layout = 0
  /\ answer = 0
  /\ clock = Lag
  /\ ipsets = {}
  /\ fw = {}
  /\ ccd = [a \in Accounts |-> NoFile]
  /\ mem = FreshMem
  /\ it = AtRest
  /\ budget = [changes |-> MaxChanges, failures |-> MaxFailures]

-----------------------------------------------------------------------------
(* The environment: command line and API, DNS, time.                       *)

MayChange == budget.changes > 0 /\ clock <= LastChange
Spend(kind) == budget' = [budget EXCEPT ![kind] = @ - 1]

\* A transaction commits: the row carries the updated_at stamped when it was
\* written, up to CommitDelay before the commit.
Write(r, val) ==
  /\ MayChange
  /\ \E d \in 0..CommitDelay :
        db' = [db EXCEPT ![r] = [val |-> val, at |-> clock - d]]
  /\ Spend("changes")
  /\ UNCHANGED <<layout, answer, clock, hostVars, mem, it>>

InsertRow(r) ==
  /\ db[r].val = NotYet
  /\ r \in Links => Live(LinkOf[r][1]) /\ Live(LinkOf[r][2])
  /\ \E val \in Values(r) : Write(r, val)

UpdateRow(r) ==
  /\ Live(r)
  /\ \E val \in Values(r) \ {db[r].val} : Write(r, val)

\* service-delete, account-department-remove, department-delete, and DELETE of
\* the API.  The command refuses a department that has members, the API takes
\* the links along (ON DELETE CASCADE).  Nothing deletes an account.
DeleteRow(r) ==
  LET gone == {r} \cup {l \in Links : LinkOf[l][2] = r /\ Live(l)}
  IN
  /\ MayChange
  /\ Live(r)
  /\ r \notin Accounts
  /\ db' = [k \in Rows |-> IF k \in gone THEN [db[k] EXCEPT !.val = Deleted] ELSE db[k]]
  /\ Spend("changes")
  /\ UNCHANGED <<layout, answer, clock, hostVars, mem, it>>

\* network-add-subnet and network-remove-subnet rewrite Network.subnets.
ChangeSubnets ==
  /\ MayChange
  /\ layout' = layout + 1
  /\ Spend("changes")
  /\ UNCHANGED <<db, answer, clock, hostVars, mem, it>>

\* The domains of the services resolve to other addresses.
ChangeAnswer ==
  /\ MayChange
  /\ answer' = answer + 1
  /\ Spend("changes")
  /\ UNCHANGED <<db, layout, clock, hostVars, mem, it>>

Tick ==
  /\ clock < MaxClock
  /\ clock' = clock + 1
  /\ UNCHANGED <<db, layout, answer, hostVars, mem, it, budget>>

-----------------------------------------------------------------------------
(* One iteration.                                                          *)

StartIteration ==
  /\ it.pc = "idle"
  /\ it' = [it EXCEPT !.pc = "routing", !.started = clock]
  /\ UNCHANGED <<envVars, hostVars, mem, budget>>

\* Mutant: stale sets are not destroyed.
IpsetsKept(wanted) == wanted \cup ipsets

\* The set of a service that is gone cannot be destroyed while a rule matches it.
InUse == {s \in Services : \E rule \in fw : rule.matchSet /\ rule.dest = s}
IpsetsAfter(wanted) == wanted \cup (ipsets \cap InUse)

\* _reconcile_routing: fetch services, resolve their domains, reconcile the
\* ipsets.  A failure of ipset is swallowed and leaves a part of the work done.
ReconcileRouting ==
  LET resolved == Resolve(View)
      wanted == {route.service : route \in resolved}
  IN /\ it.pc = "routing"
     /\ it' = [it EXCEPT !.pc = "updated",
                         !.services = [s \in Services |-> db[s].val],
                         !.resolved = resolved,
                         !.resolvedChanged = resolved # mem.lastResolved]
     /\ mem' = [mem EXCEPT !.lastResolved = resolved]
     /\ \/ /\ ipsets' = IpsetsAfter(wanted)
           /\ UNCHANGED budget
        \/ /\ budget.failures > 0
           /\ Spend("failures")
           /\ \E some \in SUBSET wanted : ipsets' = ipsets \cup some
     /\ UNCHANGED <<envVars, fw, ccd>>

\* The order in which the firewall snapshot and the CCD pass read the tables.
SnapshotTables == <<Accounts, Services, Departments, Links>>
FetchTables == <<Accounts, Departments, Links>>
StartFetch ==
  [it EXCEPT !.pc = "fetch", !.unread = FetchTables, !.seen = <<>>, !.seenLayout = 0]

\* Mutants: tables nobody looks at.
UpdatedInAccounts == \E r \in Accounts \cup Services : Live(r) /\ db[r].at >= mem.cursor
UpdatedInOthers == \E r \in Rows \ Accounts : Live(r) /\ db[r].at >= mem.cursor

Updated == \E r \in Rows : Live(r) /\ db[r].at >= mem.cursor

\* _has_firewall_data_changed, first part: any row with updated_at >= cursor.
\* The early return leaves the counts alone.  (Four SELECTs: what commits after
\* the first of them is as if it committed after all.)
CountUpdated ==
  /\ it.pc = "updated"
  /\ it' = IF Updated THEN [it EXCEPT !.pc = "snapshot", !.changed = TRUE,
                                       !.unread = SnapshotTables]
           ELSE [it EXCEPT !.pc = "totals"]
  /\ UNCHANGED <<envVars, hostVars, mem, budget>>

\* Second part: total row counts against those of the previous call.
CountTotals ==
  LET counts == RowCounts(View)
      deleted == mem.lastCounts # NoCounts /\ counts # mem.lastCounts
  IN /\ it.pc = "totals"
     /\ mem' = [mem EXCEPT !.lastCounts = counts]
     /\ it' = IF deleted THEN [it EXCEPT !.pc = "snapshot", !.changed = TRUE,
                                         !.unread = SnapshotTables]
              ELSE StartFetch
     /\ UNCHANGED <<envVars, hostVars, budget>>

\* One SELECT: the next table joins what was read before.  Accounts come with
\* their networks.
Seen ==
  [r \in DOMAIN it.seen \cup Head(it.unread) |->
     IF r \in Head(it.unread) THEN db[r].val ELSE it.seen[r]]
SeenLayout == IF Head(it.unread) = Accounts THEN layout ELSE it.seenLayout

\* _reconcile_firewall loads a snapshot of its own, not it.services.
SnapshotFirewall ==
  /\ it.pc = "snapshot"
  /\ it' = [it EXCEPT !.pc = IF Len(it.unread) = 1 THEN "firewall" ELSE "snapshot",
                      !.seen = Seen, !.seenLayout = SeenLayout,
                      !.unread = Tail(it.unread)]
  /\ UNCHANGED <<envVars, hostVars, mem, budget>>

\* The rules that are to be added, and whether iptables can add them: a rule
\* that matches a set needs the set.
Desired == ChainRules(it.seen, it.seenLayout)
Addable == \A rule \in Desired \ fw : rule.matchSet => rule.dest \in ipsets

ReconcileFirewall ==
  /\ it.pc = "firewall"
  /\ Addable
  /\ fw' = Desired
  /\ it' = StartFetch
  /\ UNCHANGED <<envVars, ipsets, ccd, mem, budget>>

\* An exception leaves the iteration; the looper starts the next one later.
\* mem keeps what the iteration has already put there, except the cursor.
Raise == it' = AtRest

\* iptables refuses a rule: new rules come before stale ones are deleted.
FirewallRaises ==
  /\ it.pc = "firewall"
  /\ \/ /\ ~Addable
        /\ \E some \in SUBSET {rule \in Desired \ fw :
                                 rule.matchSet => rule.dest \in ipsets} :
              fw' = fw \cup some
        /\ UNCHANGED budget
     \/ /\ budget.failures > 0
        /\ Addable
        /\ Spend("failures")
        /\ \/ \E some \in SUBSET (Desired \ fw) : fw' = fw \cup some
           \/ \E some \in SUBSET (fw \ Desired) : fw' = (fw \cup Desired) \ some
  /\ Raise
  /\ UNCHANGED <<envVars, ipsets, ccd, mem>>

\* Mutant: only new DNS answers rebuild every file.
FullRebuildForDns == it.resolvedChanged

FullRebuild == it.changed \/ it.resolvedChanged

\* Accounts for the CCD pass: all of them after a change, else those updated
\* since the cursor.
Fetched ==
  IF Head(it.unread) = Accounts
    THEN {a \in Accounts : Live(a) /\ (FullRebuild \/ db[a].at >= mem.cursor)}
  ELSE it.todo

FetchAccounts ==
  /\ it.pc = "fetch"
  /\ it' = [it EXCEPT !.pc = IF Len(it.unread) = 1 THEN "ccd" ELSE "fetch",
                      !.seen = Seen, !.seenLayout = SeenLayout, !.todo = Fetched,
                      !.unread = Tail(it.unread)]
  /\ UNCHANGED <<envVars, hostVars, mem, budget>>

\* A read of the database raises.
FetchRaises ==
  /\ it.pc \in {"routing", "updated", "totals", "snapshot", "fetch"}
  /\ budget.failures > 0
  /\ Spend("failures")
  /\ Raise
  /\ UNCHANGED <<envVars, hostVars, mem>>

\* What a CCD file is made from: the tags come from this fetch, the services from
\* the one at the start of the iteration.
CcdView ==
  [r \in DOMAIN it.seen \cup Services |->
     IF r \in Services THEN it.services[r] ELSE it.seen[r]]

\* process_instance, one account.
WriteCcd(a) ==
  /\ it.pc = "ccd"
  /\ a \in it.todo
  /\ ccd' = [ccd EXCEPT ![a] =
               CcdFile(CcdView, it.resolved, it.seenLayout, a)]
  /\ it' = [it EXCEPT !.todo = @ \ {a}]
  /\ UNCHANGED <<envVars, ipsets, fw, mem, budget>>

\* The file is truncated by open() and cannot be written.
WriteRaises(a) ==
  /\ it.pc = "ccd"
  /\ a \in it.todo
  /\ budget.failures > 0
  /\ Spend("failures")
  /\ ccd' = [ccd EXCEPT ![a] = Truncated]
  /\ Raise
  /\ UNCHANGED <<envVars, ipsets, fw, mem>>

\* Mutants: the cursor without the lag, and with the sign of the lag wrong.
CursorWithoutLag == it.started
CursorAhead == it.started + Lag

NextCursor == it.started - Lag

AdvanceCursor ==
  /\ it.pc = "ccd"
  /\ it.todo = {}
  /\ mem' = [mem EXCEPT !.cursor = NextCursor]
  /\ it' = AtRest
  /\ UNCHANGED <<envVars, hostVars, budget>>

\* The process dies and systemd starts it again (Restart=on-failure).
Crash ==
  /\ budget.failures > 0
  /\ Spend("failures")
  /\ mem' = FreshMem
  /\ it' = AtRest
  /\ \/ UNCHANGED ccd
     \/ it.pc = "ccd" /\ \E a \in it.todo : ccd' = [ccd EXCEPT ![a] = Truncated]
  /\ UNCHANGED <<envVars, ipsets, fw>>

-----------------------------------------------------------------------------
Agent ==
  \/ StartIteration
  \/ ReconcileRouting
  \/ CountUpdated
  \/ CountTotals
  \/ SnapshotFirewall
  \/ ReconcileFirewall
  \/ FirewallRaises
  \/ FetchAccounts
  \/ \E a \in Accounts : WriteCcd(a)
  \/ AdvanceCursor

Environment ==
  \/ \E r \in Rows : InsertRow(r) \/ UpdateRow(r) \/ DeleteRow(r)
  \/ ChangeSubnets
  \/ ChangeAnswer
  \/ Tick

Failure ==
  \/ FetchRaises
  \/ \E a \in Accounts : WriteRaises(a)
  \/ Crash

Next == Agent \/ Environment \/ Failure

\* The looper runs one iteration after another, and time passes.
Fairness == WF_vars(Agent) /\ WF_vars(Tick)

Spec == Init /\ [][Next]_vars /\ Fairness

-----------------------------------------------------------------------------
(* Properties.                                                             *)

Pcs == {"idle", "routing", "updated", "totals", "snapshot", "firewall", "fetch", "ccd"}

\* The shape of every variable, with the agent's clock arithmetic in range.
TypeOK ==
  /\ \A r \in Rows : /\ db[r].val \in Values(r) \cup {NotYet, Deleted}
                     /\ db[r].at \in 0..MaxClock
  /\ clock \in 0..MaxClock
  /\ ipsets \subseteq Services
  /\ \A rule \in fw : rule.client \in Accounts /\ rule.dest \in Services \cup {Anywhere}
  /\ \A a \in Accounts : ccd[a].kind \in {"none", "empty", "disable", "push"}
  /\ mem.cursor \in 0..clock
  /\ it.pc \in Pcs /\ it.started \in 0..clock /\ it.todo \subseteq Accounts

\* A row the cursor has passed: the filter will not return it again.
Passed(r) == Live(r) /\ db[r].at < mem.cursor

DisabledRow(a) == Live(a) /\ db[a].val.status = "DISABLED"
HasRule(a) == \E rule \in fw : rule.client = a

\* The account's CCD file says "disable", or a failed write left it empty.
PushesNoAddress(a) == ccd[a].kind \in {"disable", "empty"}

\* Once the cursor has passed the update that disabled an account, no rule lets
\* it through and its CCD file pushes no address: not while later iterations
\* work on older snapshots, not after iptables or a write failed half way.
DisabledCutOff ==
  \A a \in Accounts : Passed(a) /\ DisabledRow(a) => ~HasRule(a) /\ PushesNoAddress(a)

NothingDeleted == \A r \in Rows : db[r].val # Deleted

\* Inserts and updates are never lost between two reads: when every row is
\* behind the cursor, the rules are those the database asks for.
SettledRules ==
  (\A r \in Rows : Live(r) => Passed(r)) /\ NothingDeleted /\ layout = 0
    => fw = ChainRules(View, layout)

\* Nor are they lost to the CCD files, which are made from two reads of different
\* moments: each is as the database asks for, or empty since a write failed.  A new
\* DNS answer is left out, since the iteration that hears it may raise.
SettledFiles ==
  (\A r \in Rows : Live(r) => Passed(r)) /\ NothingDeleted /\ layout = 0 /\ answer = 0
    => \A a \in Accounts : Live(a) =>
         ccd[a] \in {Truncated, CcdFile(View, Resolve(View), layout, a)}

\* At rest the host enforces the database.
SettledHost == SettledRules /\ SettledFiles

\* A disabled account loses its rules and its address, whatever else happens.
DisableTakesEffect ==
  \A a \in Accounts :
    <>[]DisabledRow(a) => <>[](~HasRule(a) /\ ccd[a].kind \in {"disable", "empty"})

\* Inserted and updated rows reach the rules and the CCD files, after any
\* bounded number of exceptions and crashes.  (A write that fails in a rebuild
\* only a count asked for leaves its file empty: no row calls for another.)
UpdatesTakeEffect ==
  <>[](NothingDeleted /\ layout = 0 /\ answer = 0
         => /\ fw = ChainRules(View, layout)
            /\ \A a \in Accounts : Live(a) =>
                 ccd[a] \in {Truncated, CcdFile(View, Resolve(View), layout, a)})

\* The ipset of a deleted service goes once no rule matches it.
IpsetsCollected ==
  \A s \in Services :
    <>[](db[s].val = Deleted /\ s \notin InUse) => <>[](s \notin ipsets)

\* Docstring of _has_firewall_data_changed: counts are tracked because
\* otherwise a deleted service "would otherwise never be detected as a change".
DeletionTakesEffect ==
  \A s \in Services :
    <>[](db[s].val = Deleted) => <>[](\A rule \in fw : rule.dest # s)

\* Same docstring: "Check if any access-relevant data changed".
SubnetChangeTakesEffect ==
  \A a \in Accounts : <>[](\A rule \in fw : rule.client = a => rule.layout = layout)

\* Comment in _iteration: when a service changed, "every CCD needs
\* re-evaluating"; so no file keeps a route of a deleted service whose rules
\* are gone.
CcdFollowsRules ==
  \A s \in Services :
    <>[](db[s].val = Deleted /\ \A rule \in fw : rule.dest # s)
      => <>[](\A a \in Accounts :
                ccd[a].kind = "push" => \A route \in ccd[a].routes : route.service # s)
=============================================================================
