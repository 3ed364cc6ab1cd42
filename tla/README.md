# Exordos VPN in TLA+

Models of the parts of Exordos VPN whose correctness depends on the order in which
things happen: who owns a client address, how the gateway agent turns database rows
into firewall rules and OpenVPN files, how it edits iptables chains, ipsets and routes
under traffic, when a login is let in, and how departments stay a tree. TLC checks the
models on small instances; TLAPS proves their safety
properties, and one refinement, for every instance.

Paths below are relative to the repository (`exordos_vpn/` is the Python package).

## 1. The system

| Component | State | Operations | Talks to |
|---|---|---|---|
| Command line (`cmd/cli.py`) | none | account-, network-, department-, otp-, service-* | PostgreSQL |
| User API (`user_api/`) | none | create/update/delete of the same rows, `/auth/` | PostgreSQL; OpenVPN through `etc/openvpn/check_auth.sh` |
| Models (`dm/models.py`, `migrations/`) | tables accounts, address_allocations, account_auth_cache, services, networks, departments, account_departments, otp_devices, certificates | allocation of offsets, history spans, PIN and login cache, effective tags | - |
| Scheduler (`services/scheduler.py`) | none | frees offsets of accounts disabled for long | PostgreSQL |
| Server agent (`services/server_agent.py`) | cursor, row counts, DNS cache, last answers - in memory; iptables, ipsets, routes, CCD files - on the host | one iteration every few seconds | PostgreSQL, DNS, kernel, OpenVPN (which reads the CCD files) |
| Certificates, ovpn config, crypto, PrivateBin (`common/`) | key files | issue, render, send | OpenSSL, HTTP |

Nothing but the database connects the writers (CLI, API, scheduler) to each other and
to the agent. There are no locks except one: `account-enable` re-reads its row with
`FOR UPDATE`.

What is hard, and what "correct" means there:

* **Address lifecycle.** `save()` writes a whole row back, and nearly every command
  reads that row without a lock, sometimes with a human at a prompt in between, while
  the scheduler frees offsets and other commands take them. An address must have one
  owner, the history must agree with the accounts, an ACTIVE account must have an
  address.
* **Change detection.** The agent polls with `updated_at >= cursor`, and each SELECT
  sees a different moment. A row committed late carries an older timestamp; a deleted
  row carries none. No change may be missed, above all no revocation, and an
  exception or a crash half way must not lose one either.
* **Firewall edits.** A chain is changed rule by rule while packets pass. In between
  any two commands, and after any failed one, it must still deny by default, hold no
  unreachable grant, and keep the grants that stay.
* **Authentication.** A login reads the account, the cached login and the devices one
  after the other, and caches the password it let in. Commands reset PINs, replace
  devices and disable accounts in between, and write back rows they read before. A
  cached login must end with the credentials it was made of.
* **Departments.** Tags are handed down along parent links. The cycle check reads one
  ancestor after the other and then saves a whole row; the delete checks read and then
  delete; other commands commit in between, and the API checks nothing. Cycles must do
  no harm to what is computed from the tree.
* **DNS, ipsets, routes.** Rules match a set, and packets follow the routes, while the
  agent changes both by single commands that may fail. No rule may see half a
  membership, no route that stays wanted may be missing, and a lookup that fails may
  take no access away.
* **Address arithmetic.** Offsets run through subnets of any size, down to those
  without a client address; each client address must have exactly one offset.

`PROJECT.json` lists the components and, under "hazards", the line where each of
these can bite.

## 2. Modules

| Module | Models |
|---|---|
| `AddressPool` | how offsets number the client addresses of a list of subnets |
| `AddressLifecycle` | accounts, spans, commands in flight, scheduler, subnets |
| `ServerAgent` | the agent's loop against a changing database |
| `FirewallChain` | one `_reconcile_firewall`, iptables command by iptables command |
| `DnsCache` | the agent's cache of DNS answers: time-outs, back-off, what was heard last |
| `HostNetwork` | one `_reconcile_routing`, ipset and ip command by command, over `DnsCache` |
| `AtomicSets` | what ipsets promise to the rules that match them: the abstract specification `HostNetwork` implements |
| `Login` | PINs, OTP devices, `/auth/` and the cached login |
| `Departments` | departments, memberships, and the commands that check before they write |
| `DepartmentTree` | what is computed from the departments: effective tags, the drawn tree |
| `<Module>_proofs` | the inductive invariant and the theorems of `AddressPool`, `AddressLifecycle`, `ServerAgent`, `FirewallChain`, `HostNetwork`, `Login` and `Departments` (with `DepartmentTree`) |
| `Induction` | lemmas: induction over numbers and finite sets, sums and iterated steps |
| `MC<Module>` | the instance TLC checks |

`ServerAgent` is the iteration as a whole. It takes two of its parts as single steps,
each of which another module has in detail:

* `_reconcile_firewall` succeeds, or fails after any part of its additions and then of
  its deletions. `FirewallChain` starts from a snapshot (`Begin`) and shows which
  chains the commands pass through.
* `_reconcile_routing` leaves ipsets that are right, or some of them.
  `HostNetwork` shows the sets and routes between any two commands.

The modules share no state and meet at these steps. `ServerAgent` also takes the tags of
a membership from the member's department alone; `DepartmentTree` is where the tags of
its ancestors are added. `AddressLifecycle` extends `AddressPool` and takes from it how
many offsets the subnets of a network have and which addresses they are.

### AddressLifecycle

* `acct`: the accounts table, reduced to `status`, `address_offset` and whether
  `updated_at` is older than `offset_days` (`aged`). `span`: the account's row in
  address_allocations. An account is inserted once, so it has one span.
  `subnets`: each network's list of subnets, from which `AddressPool` computes
  `Network.max_offset()` and the address of an offset. `cmd`: what a running command
  has read and will write.
* A command is two steps. The first reads (`ReadForDisable`, `ReadForEdit`) or chooses
  an offset (`AllocateOffset`, `RequestOffset`); the second commits (`SaveAccount`,
  `InsertAccount`) or does not (`Abort`). `EnableAccount` is one step because of its
  row lock; `FreeUnusedOffsets` is the scheduler's one transaction.
* The unique index on (network, offset) and the unique account name are guards of the
  commit. Offset 0 is NULL.

### ServerAgent

* `db`: every row of accounts, services, departments and memberships with its
  `updated_at`; `layout`: how subnets map offsets to addresses; `answer`: what DNS
  says. `ipsets`, `fw`, `ccd`: the host. `mem`: `last_processed_at`,
  `_last_row_counts`, `_last_resolved_for_ccd`. `it`: the iteration in progress, with
  its program counter and local variables.
* One action per database read: `ReconcileRouting` (services), `CountUpdated`,
  `CountTotals`, `SnapshotFirewall` (one step per table), `FetchAccounts` (one step
  per table), then one `WriteCcd` per account and `AdvanceCursor`. The environment
  moves between any two of them.
* `Write` stamps a row up to `CommitDelay` before it becomes visible, as a
  transaction does that stamps and commits later. `CommitDelay <= Lag` is the
  assumption under which the code's lag of 30 s works at all.
* A rule is (client, layout of its address, destination, matched through an ipset?).
  A rule that matches a set cannot be added before the set exists, and a set cannot
  be destroyed while a rule matches it.
* Failures: ipset errors are swallowed (`ReconcileRouting`); an exception anywhere
  else ends the iteration with `mem` as far as it got (`FirewallRaises`,
  `FetchRaises`, `WriteRaises`); `Crash` loses `mem` (systemd restarts the agent).

### FirewallChain

* `chains`: each managed chain as a sequence of rules; `forward`: the chains FORWARD
  jumps to; `wanted`: the ACCEPTs of each configured chain; `due`: a change is not
  reconciled yet; `it`: the reconciliation in progress; `denying`: a history variable,
  the chains in which the agent's own DROP has been put.
* One action per iptables command. `Raise` stops after any command; `RemovalFails`,
  at any of the three commands that remove a stale chain, is the one failure the code
  swallows. `Reconfigure` restarts the agent with other
  chains (an instance added, a subnet changed, the firewall switched off).
* A chain may start with a DROP written differently (`OtherDrop`).
* The agent compares texts. `Printed` is what `iptables -S` prints of a rule built in a
  given text: the built text itself, as long as subnets, whitelist entries and matches are
  written as iptables writes them (`Plain`), and another one for a subnet `0.0.0.0/0`, an
  entry without a mask or with host bits, or a protocol behind a set match.
  Chains hold printed texts, `wanted` and `it.new` built ones, and the comparisons
  (`Missing`, `Surplus`, `Matches`) take them as they are. Of `Printed` nothing is assumed
  but that a printed text is printed as itself. `-D` takes the printed text and removes
  one copy.
* `_forward_ref_exists` takes any failure of `-C` for "no jump" and may put in a second
  one. `forward` says only whether there is one: two do what one does, and
  `_remove_forward_refs` deletes all.

### HostNetwork, DnsCache, AtomicSets

* `rows`: table services; `answer`, `cache`, `heard`: what DNS would say, `_dns_cache`,
  and the last answer of each domain (a history variable); `sets`, `routes`: the
  kernel's; `onLink`: nexthops it reaches; `rules`: the sets iptables matches; `it`: the
  pass in progress.
* One action per command: `CreateTemp`, `FlushTemp`, `AddMember`, `CreateSet`, `Swap`,
  `DestroyTemp`, `DestroyStale`; `ReplaceRoute`, `DeleteRoute`. `Begin` is the SELECT,
  the lookups and `ipset list -name`; `PlanRoutes` is `ip route get` and `ip route show`.
* `SetsRaise`, `RoutesRaise`: a command fails, and the rest of the sets, or of the
  routes, waits for the next pass. `DestroyFails` is logged and left. `Crash` loses the
  cache and may change `routing_enabled`. A link may go down at any time and takes its
  routes along (`ChangeLink`).
* Time is counted in iterations of the looper (4 s): `wait` is what is left until
  `next_attempt_at`. Services and DNS change between passes only: a pass reads both when
  it begins and not again, so a later change is as if it came after the pass.
* A query without ORDER BY returns services in any order (`Orders`); of two with the
  same destination the last one wins.
* `AtomicSets` knows only what rules see: a set appears empty, takes on a complete
  membership in one step, and disappears when no rule matches it. `SetsAreAtomic` is its
  specification under the mapping from kernel sets to services.

### Login

* `acct`, `device`, `links`, `cache`: the tables accounts, otp_devices,
  account_otp_devices and account_auth_cache. The accounts and devices are one user's,
  since devices are looked up by user. A password is a PIN and perhaps the code a secret
  yields in a `window`. Generated PINs and secrets are numbers never used before.
* A login is `StartLogin` (reads the account), `CheckCacheAndPin`, `CheckCode`,
  `StoreLogin`; it ends where the code returns. `req` holds the row as read. A command
  that saves a row is two steps: `ReadAccount`, then `Disable`, `SetOtpRequired`,
  `Reset`, `ResetPin` or `Edit`. `otp-add`, `otp-remove`, `account-set-otp` and the
  creations write only rows they do not depend on before, and are one step.
  `account-enable` holds a row lock.
* `fresh` and `mixed` are history variables: a request is fresh until somebody commits
  to its account; an account is mixed once a request that was not fresh wrote to it. No
  guard uses them.
* `Expire` drops a cached login at any time, `PassWindow` moves to the next period.
  Caching is on; with `auth_cache_ttl_hours` = 0 nothing is cached.

### Departments

* `exists`, `dept`, `links`: the two tables. `cmd`: a running command's row as read,
  the parent it wants to set, and where its walk is. `alone` is a history variable:
  nobody has committed since the command's first read. No guard uses it; it separates
  what the cycle check promises from what it cannot.
* `StartMove`, then one step per ancestor read (`Climb`) until `Refuse` or `Accept`,
  then `Save`: department-set-parent. `EditTags`, `MakeRoot` and `ApiUpdate` read a row
  and save it whole later. `CheckChildren`, `CheckMembers`, `DeleteDepartment`:
  department-delete. Creating a row, adding or removing a membership and the API's
  DELETE are one step, since the constraints check again at the commit: foreign keys
  (parents restrict, memberships cascade) and unique indexes.
* `Forest`, `Closed` and `MayMoveUnder` say what acyclic and "not below" mean without
  following links: no set of departments holds the parent of each of its members, and
  some set closed under parents holds the new parent but not the department.
* `EffectiveTags` and `Drawing` follow the links as the code does, with its visited
  sets. The drawing grows by steps (`Grown`): the branch being drawn gets its next
  child, or the tip is done with. The branch is the stack of the code's recursion,
  which, too, tests `visited` when it comes to a child and not before.

## 3. Runs

| Run | States | Result |
|---|---|---|
| `address_lifecycle` | 1.2 M (symmetry) | holds |
| `address_revival` | - | `FreedCannotBeRevived` violated |
| `server_agent` | 0.9 M | holds, with liveness |
| `agent_deletion` | 0.3 M | `DeletionTakesEffect` violated |
| `agent_subnets` | 0.3 M | `SubnetChangeTakesEffect` violated |
| `agent_ccd` | 0.3 M | `CcdFollowsRules` violated |
| `firewall_chain` | 1.3 M | holds, with liveness |
| `rule_copies` | - | `RevokedIsGone` violated |
| `host_network` | 0.7 M | holds, with liveness and refinement |
| `login` | 0.7 M (symmetry) | holds |
| `departments` | 1.4 M (symmetry) | holds |
| `department_race` | - | `MovesKeepForest` violated |

`address_lifecycle`: three accounts, two on one network (they compete for its offsets)
and one alone; offsets 2 and 3, the column's last. Networks change between two lists of
subnets: a lone /30 (one client address), and a /30, a /31 without client addresses and
a /29 (more addresses than offsets). Two commands in flight are enough for a stale row
to wait while another command and the scheduler act; the proofs remove the bound. Shown:
an open span always names the offset's present holder (so one offset has one open span
at most: the accounts' unique index), the defensive "reallocated" close never fires,
ACTIVE accounts have an address, an account never moves to another offset, and two
accounts of a network never have the same address whatever non-overlapping subnets come
and go (`AddressesDistinct`). `PoolsNumbered` compares `ip_for_offset` and `max_offset`
with what they are for, on these lists: every client address has exactly one offset (the
proof is for any list of subnets that do not overlap). Lists with overlapping subnets and
the empty list are not modelled (`IsPool`), although commands can make both:
`network-add-subnet` refuses only a subnet that is already in the list (`cli.py:1580`),
and `network-remove-subnet` may take the last one (`cli.py:1602`). With the first, two
offsets may share an address; with the second, no offset has one and `ip_for_offset`
raises.

`server_agent`: one account, service, department and membership. The account is a
member to begin with, and the service is still to come: it is inserted, by domains or by
subnets; account, service and department are updated; service, department and membership
are deleted. `MaxChanges` = 2 changes, among them new subnets and new DNS
answers, and `MaxFailures` = 1 exception or crash. `Lag` = `CommitDelay` = 1,
`MaxClock` = 4, changes up to time `LastChange` = 2, so that the cursor passes the last
change with room to spare. Two changes cover the races the loop has: a change before and
one after a read. What a race needs before them is there from the start: inserting a
service by domains brings a rule that needs the service's ipset first, and then the
service is deleted, or its domains are, while the rule is still there and keeps the set.
(The proofs are for any database to begin with; memberships are inserted only there.)
The clock stops at `MaxClock`, where the agent goes
on iterating. Shown: once the cursor has passed a disabling update the account has no
rule and no address (`DisabledCutOff`); once it has passed all rows rules and CCD
files are exactly those of the database, if nothing was deleted (`SettledHost`); disabling,
inserting and updating eventually take effect whatever fails meanwhile
(`DisableTakesEffect`, `UpdatesTakeEffect`); the ipset of a deleted service goes once no
rule matches it (`IpsetsCollected`). `UpdatesTakeEffect` excludes runs with deletions,
subnet changes and new DNS answers: the first two are findings below; a DNS change whose
iteration raises is lost until the next one (`_last_resolved_for_ccd` is set first). It
allows an empty CCD file: a write that fails in a rebuild that only a count asked for is
not repeated.

`firewall_chain`: two chains, two ACCEPTs, one of them in two texts, one change (data or
configuration), one failure; the initial states are all combinations of chains an earlier
run may have left. The actions on one chain depend on that chain alone, so two suffice for
one to become stale while the other is filled. Each ACCEPT is wanted and not, alone and
with the other, the second one in its printed text, in the other, and in both
(`Wantable`). Deadlock checking is off: with no change due the agent rests. Shown: the
agent's DROP, once in a chain, stays its last rule until the chain is flushed
(`FailClosed`), and a chain that denies by any DROP at its end goes on denying
(`ClosedStaysClosed`) but for the one command at which a DROP of another form is
exchanged; no ACCEPT is behind a DROP; the DROP and every rule with one text are there
once, so one `-D` revokes such a rule (`NoRuleTwice`); ACCEPTs that stay wanted are never
missing in between, in whatever text; a jump is only added to a filled chain; when the
agent rests with nothing due, the configured chains grant all that is wanted and, of the
rules with one text, nothing else, and a chain is left over only if its removal failed
(`SettledChains`); after the last change the chains converge. `rule_copies` is the same
instance, asked whether the rules with several texts are revoked too (finding 5).

`host_network`: two services, two domains, two addresses, two nexthops, a static
destination and the default route. A service may be by domain (one or both domains) or
by subnets, so that services come to share a domain and a destination. TTLs 0 and 2,
`MinInterval` = `TtlFloor` = 1, a back-off that doubles up to 3 (so it is cut off before
the next power), pauses of 1 and 2 units: an answer is fresh, due or overdue at a pass.
One domain answers at first, the other fails. `MaxChanges` = 2, `MaxFailures` = 1: a
change before and after a failing or dying pass. Shown: the cache serves what was heard
last, and back-off stays in its bounds (`ServesLastAnswer`); rules see only whole
memberships (`SetsAreAtomic`); an address leaves a set that stays only because DNS
answered without it (`WithdrawnOnlyByAnswer`); a destination that stays routed is never
without a route (`RoutesUninterrupted`); after the last change sets, left-over sets and
routes follow (`SetsFollowDns`, `StaleSetsGo`, `RoutesFollow`), the default route
excepted (below).

`login`: one account, two devices, one login beside one command, two PINs, two secrets,
two periods. Two of each are what it takes to tell the old one from the new one; one
command beside a login is enough, since commands that run one after the other, during one
login, are all reached. One account: accounts of one user share devices only, and devices
are changed in single steps. Shown: a cached login is of an ACTIVE account, its present
PIN and its present requirement of a code (`CachedLoginIsCurrent`); a login that nobody
overtakes is let in exactly when its password opens the account
(`LoginVerdictIsRight`); a command that assigns a device by itself assigns one that works
(`HandedCredentialsWork`). The first two except accounts that an overtaken request wrote
to: such a request can store a login of credentials that were replaced meanwhile, and a
whole-row save can put an old PIN back. The cached login may outlive its *device*: the
code clears the cache on a reset, on a change of the requirement and on disabling, and
lets a login on a replaced device stand until it expires.

`departments`: three departments, one account, one tag, two commands; any forest to
begin with, and `MaxCommits` = 2 changes. Two are enough for both commands to commit,
or for a third party to do so during a walk; cycles of every length, with tails, are
reached by the first. The proofs remove the bound. Tags are handed on independently of
each other, so one tag suffices. Shown: while nobody interferes the cycle check is
exact and a move keeps the forest; nobody's parent is ever missing; effective and
granted tags are those of all ancestors, on cycles too; the tree shows every department
exactly once, for every order of names. The last two are evaluated when no command
runs, as they depend on the tables alone. A walk ends because it stops at any
department it has seen: a bound on its steps that needs no run.

### Fairness

`WF(Agent)` in `ServerAgent`, `FirewallChain` and `HostNetwork`: the looper calls
`_iteration` again after every return or exception (`iter_min_period`), and an
iteration's calls all have time-outs, so some agent step is always taken. It is one weak
fairness over all agent steps; it does not promise any particular order. `WF(Tick)`:
time passes. Environment and failures have no fairness and are bounded in number:
liveness is claimed for runs with finitely many of them. In `HostNetwork` fairness also
covers the passes' starts, and with them the passing of time: a pass begins after one of
`Pauses`. `Login`, `AddressLifecycle` and `Departments` claim no liveness: a command may
wait at a prompt for ever.

### Findings

1. `agent_deletion`: row counts are recorded only by iterations that see no fresh row.
   A service whose insert or update is still within the lag and which is then deleted
   changes no recorded count; its ACCEPT rules stay.
2. `agent_subnets`: network rows are not watched; rules and CCD files keep addresses
   of the old subnets until another row changes.
3. `agent_ccd`: CCD files are built from the services read at the start of the
   iteration. A service deleted between that read and the counts keeps its pushed
   route.
4. `address_revival`: every saving command except `account-enable` does what the
   comment in `account-enable` warns of. It can bring a freed offset back (the
   unique index only stops it when someone else has taken it), and the account can
   then be enabled with an address whose span is closed.
5. `rule_copies`: rules are compared by text, and some are printed by `iptables -S` in
   another text than they were built in. Each pass then inserts a copy and deletes one; a
   pass that fails in between leaves a second copy for good, the revocation deletes one,
   and the other goes on granting until something else makes a pass due.
6. `department_race`: "cycles are refused" only as long as no other parent change
   commits between the walk and the save; the API refuses none.

Also noticed, without a run:

* The docstring of `_reconcile_chain` promises updates "to avoid windows without
  protection" (`server_agent.py:975-977`), but a DROP of another form is deleted before
  the agent's own is appended (`:1003-1008`): between the two commands, and until the next
  pass if the second fails, packets no rule accepts return to FORWARD.
  `ClosedStaysClosed` names this as its one exception.
* Two texts that are printed alike, both wanted (`firewall_global_whitelist` =
  `10.0.0.0/8,10.1.2.3/8`), add a copy with every pass, without any failure: two are
  inserted, one is deleted.
* `department-delete` is "refused while it has children or members" (`README.md:113`,
  `cli.py:1881`), but a member added between its check and its DELETE goes with the
  cascade. A child added there is safe: the foreign key refuses the DELETE
  (`ParentsExist`).
* A comment in `_print_department_tree` says that what no root reaches "can only be a
  cycle member"; it can also be a department below a cycle, which is drawn as a root of
  its own when its name sorts first.
* The README says ALL accounts get routes for every service "regardless of tags"
  (`README.md`, External resources); the code gates routes by tag
  (`_account_matched_services`).
* A missing ipset (its creation failed and was swallowed) makes iptables refuse the rule,
  which does abort the firewall and CCD pass that the `try` in `_reconcile_routing` means
  to protect; it heals one iteration after ipset works again.
* "will try in next iteration", logged when a stale chain cannot be removed
  (`server_agent.py:863`), comes true only if data changes. `SettledChains` says
  how much that matters: the chain stays, everything else is as it should be.
* A failure right after `ipset create` leaves an empty set under the name rules use,
  until the next pass. `AtomicSets` allows it: a set appears empty.
* `ip route show` prints `default`, which the agent does not read as a destination: it
  replaces its default route in every pass and never deletes it. Routes also stay when
  routing is switched off.
* Answers that were kept over failing lookups are lost at a restart.
* Spans record the address when they are opened or closed, so after a change of subnets
  two of them may show the same one (`models.py:275-285`).
* `--otp-uuid` may name a disabled device, or another user's. Two creations at a time may
  each make a device for a user who has none.

## 4. Proofs

`AddressLifecycle_proofs` proves, for all accounts, networks, commands, offsets and lists
of subnets, from the constants' assumptions (`NetworkOfAssumption`,
`MaxOffsetAssumption`, `SubnetListsAssumption`), that every invariant of the run holds,
and that no offset has two open spans (`OneOpenSpanPerOffset`, which follows).

None of them is inductive: a stale row waiting in a command can undo any. The
strengthening `Inv` says of every pending row what must hold of the stored one:

* `RowAgrees(row, span)`: the row's offset is NULL or the span's; it is the span's
  while the span is open; an ACTIVE row has one.
* `RowsAgree` for stored rows, `SavesAgree` for rows about to be saved,
  `InsertsHaveOffset` for rows about to be inserted, `OneHolderPerOffset` for the
  unique index.

The delicate step is the scheduler's: it closes a span while a command may hold the
row with its offset. `RowAgrees` survives because a closed span asks for less, never
more, and because no span is ever opened for an existing account. That is also why
finding 4 is possible and why it goes no further. `NeverReallocated` follows since an
open span's offset is held, hence taken, hence refused by the unique index before the
defensive close could run. One lemma per action (`InsertInv`, `SaveInv`, ...), joined in
`NextInv`. `AddressesDistinct` adds to the unique index that `ip_for_offset` is injective.

`AddressPool_proofs` proves that, and all of `PoolNumbered`, for any list of subnets that
do not overlap, of any length and sizes: the subnet an offset falls into is the one
between two sums of `Slots` (`WalkStops`, `WalkPasses`), those sums grow (`SlotsGrow`),
and `LastOffset` is 1 more than the last of them, which counts the client addresses
(`LastOffsetCounts`).

`ServerAgent_proofs` proves, for all rows, lags, clocks, numbers of changes and failures,
that `TypeOK`, `DisabledCutOff` and `SettledHost` are invariants. It assumes that a
transaction commits within the lag of its stamp (`TimeAssumption`) and that rows of
different tables are different (`RowsAssumption`). The idea is the one the code's lag is
there for: a row stamped more than `Lag` before the iteration began (`Firm`) was committed
before it began, so all reads of the iteration agree with it (`Agrees`), although they are
made at different moments. `RulesDone` and `FilesDone` say what the iteration has done for
the firm rows at each point, from "nothing fresh was counted" or from its own snapshot on;
the cursor it sets passes exactly these. A new commit needs no argument about the
iteration: it is never firm (`EnvironmentKeeps`). A failing firewall command cannot harm
either, because what it adds or deletes differs from the rules only by rows that are not
behind the cursor (`FirewallRaisesInv`). For the CCD files a second invariant is proved on
top (`FilesKept`): if all rows are firm, the services, the resolved addresses, the tags and
the accounts are as if read at once, and each file is right or will be written before the
cursor moves: by the rebuild, if anything fresh was counted, and otherwise it was right
before.

`FirewallChain_proofs` proves, for all chains, ACCEPTs, numbers of changes and failures,
and whatever iptables prints of them, `TypeOK`, `FailClosed`, `AcceptsReachable`,
`NoRuleTwice`, `SettledChains`, `GrantsUninterrupted`, `JumpOnlyWhenFilled` and
`ClosedStaysClosed`. Of the texts it assumes that a printed one is printed as itself
(`PrintedAssumption`). The inductive invariant says of the
chain in hand that its ACCEPTs are the goal without what is still to be added and with
what is still to be deleted, and what its last rule is (`EditOK`); of a rule with a second
text, how many copies there are at least (`Balanced`), which is why deleting one of them
never takes the grant away; of the others which
are done (`FillOK`); of a stale one what it has lost so far (`RemoveOK`). `Terminates`
proves `PassEnds`, for finitely many chains and ACCEPTs: `StepsLeft` goes down with
every command and every failure, and is at most `|Chains| * (2 |Accepts| + 10) + 2` when
a pass begins, whatever it finds. With `SettledChains` that is what `Converges` rests
on; only that the agent keeps taking steps is left to fairness.

`HostNetwork_proofs` proves, for all domains and failures, and any finitely
many addresses, services and TTLs, `TypeOK`, `ServesLastAnswer`, `RoutesUninterrupted`,
`WithdrawnOnlyByAnswer`, and the refinement `SetsAreAtomic` (`Implementation`). The
invariant says what is in the temporary set at every command: with what is still to be
added it is the goal (`SetsOK`), so a swap always brings a complete membership; that
nothing listed and wanted is on the list of sets or routes to delete; and for
`WithdrawnOnlyByAnswer` that the goal is what the cache serves (`Aimed`). Each step then
is a step of `AtomicSets` or unseen (`StepSeen`). `PassLeavesGoal` proves
`PassInstalls`, the safety half of `SetsFollowDns` and `RoutesFollow`: a pass whose
commands all succeed leaves every set as the cache has it and every route as some
service asks. `Terminates` proves `PassEnds`, for finitely many addresses and static
destinations: `StepsLeft` counts the commands left for the set in hand, the other sets
and the routes. It goes down with every command, every failure and the end of a pass,
also while links come and go, and is bounded when a pass begins by the services, the
ipsets' names, the addresses and the destinations. That the routes still to be replaced
and those still to be deleted are together no more than the destinations is where
`RoutesOK` and `RoutesPlanned` are needed.

`Login_proofs` proves, for all accounts, devices, requests, PINs and secrets, `TypeOK`,
`CachedLoginIsCurrent`, `LoginVerdictIsRight` and `HandedCredentialsWork`. The invariant
says what a fresh request knows (`Knows`): its row is the stored one, and a login about
to be cached has the account's present PIN and requirement (`Fits`). A commit makes the
other requests of its account unfresh, so nothing need be shown of them.
`HandedCredentialsWork` needs one more invariant, `PinsGiven`: no row stored or read has
a PIN beyond those generated, so a reset changes the row it saves and leaves the
requirement of a code as it read it.

`Departments_proofs` proves, for all departments, tags, accounts and commands, from
`NullAssumption`, that `TypeOK`, `ParentsExist` and `VerdictIsRight` are invariants and
that `AloneKeepsForest` holds of every step. The strengthening says of an undisturbed command what its reads have established
(`Sound`), for the walk `WalkOK`: what was seen has its parents among what was seen or
is the next stop, and every closed set with the new parent holds the next stop. At a
root the departments seen form the closed set that `MayMoveUnder` asks for
(`AcceptInv`); at a department seen before they are the set that `Forest` forbids
(`RefuseInv`). A commit needs no argument about the others: it leaves none of them
alone (`CommitInv`). `MoveKeepsForest`: a cycle after the move would pass through the
new parent, and its part inside the closed set would have been a cycle before. None of
this follows ancestor chains, so it needs no induction over them.

What is computed from the table does follow them. `TagsReachAll`: what is ahead of a
walk is nothing where it stops (`AheadEnds`) and otherwise its next department and what
is ahead of that one's parent (`AheadClimbs`), so the recursion collects the tags of all
that is ahead (`CollectsTagsAhead`), which are its ancestors (`LineIsAhead`).
`TreeComplete`: every step of the drawing draws a department or is done with one
(`GrowStep`), each once, so after two steps per department nothing is left to do
(`EndsComplete`), for every order of the names. Both need that there are finitely many
departments, which is an invariant (`FinitelyMany`).

`Induction` has the induction these proofs use. The library's induction theorems take an
operator, which the provers cannot instantiate, so the lemmas speak of sets: a set of
natural numbers has a least element (`LeastElement`, from the library's theorem on
well-founded relations), so a set with 0 that is closed under adding 1 holds all of `Nat`
(`SetInduction`). From that comes that recursive definitions of sums along a sequence
(`RunningSums`) and of repeated steps (`Iteration`) define what they say.

`OneOpenSpanPerOffset`, `PassInstalls` and the `PassEnds` of `FirewallChain` and
`HostNetwork` are proved and in no run: the first is a consequence of `OpenSpanHasOwner`
and the unique index, the others are the safety halves of `Converges`, `SetsFollowDns`
and `RoutesFollow`, which the runs check.

Only model-checked:

* liveness: `DisableTakesEffect`, `UpdatesTakeEffect`, `IpsetsCollected`, `Converges`,
  `SetsFollowDns`, `StaleSetsGo`, `RoutesFollow` (TLAPS has no rule for fairness and
  ENABLED here);
* the six findings, which are counterexamples.

## 5. Not modelled

Certificates, client configuration, crypto, PrivateBin, logging, bootstrap and IAM
permissions have no protocol state. The restalchemy ORM, PostgreSQL, the looper, DNS,
ipset, ip and iptables are external and modelled by how this code uses them. Port ranges
and the contents of the whitelist are data. Several openvpn instances share one
firewall pass; the models have one. Destinations inside `private_networks` change only
which `push route` lines are written. `network-create` and `network-delete` are guarded by
a foreign key and a count and touch no other state. The login cache's sliding expiry is
reduced to "may expire at any time", since no property is about its length.

## 6. What could follow

1. A measure for the iterations of `ServerAgent`, as `StepsLeft` is for the passes of
   `FirewallChain` and `HostNetwork`.
2. `Enforcement`: the abstract specification "the host enforces some committed state not
   older than the cursor", implemented by `ServerAgent` for runs without deletions;
   `SettledHost` is what it says at rest.
3. Two accounts and two networks in `ServerAgent`, with the address of an offset from
   `AddressPool` as the meaning of `layout`.
