---------------------------- MODULE HostNetwork ----------------------------
(***************************************************************************)
(* _reconcile_routing (services/server_agent.py): at the start of every    *)
(* iteration the agent asks DNS for the domains of the services and brings *)
(* the host's ipsets and nexthop routes in line, one ipset or ip command   *)
(* at a time.  A command may fail: the rest of the ipsets, or of the       *)
(* routes, then waits for the next iteration.  The process may die between *)
(* two commands.  Rules match a set, and packets follow the routes, at     *)
(* every moment in between.                                                *)
(***************************************************************************)
EXTENDS DnsCache, FiniteSetsExt

CONSTANTS
  Services,
  ServiceRows,    \* [domains, subnets, nexthop]
  NoRow,          \* a service that is not stored
  Nexthops,
  None,           \* no nexthop
  Subnets,        \* static destinations
  Default,        \* the one of them that ip route shows as "default"
  NoSet, NoRoute, \* a set and a route that are not in the kernel
  InitialRows,    \* stored services to begin with: a set of functions
  Pauses,         \* how many units of time may pass between two iterations
  MaxChanges,     \* bound of the number of changes of the environment
  MaxFailures     \* bound of the number of failing commands and crashes

ASSUME RowsAssumption ==
  /\ IsFiniteSet(Services)
  /\ NoRow \notin ServiceRows
  /\ \A row \in ServiceRows : /\ row.domains \subseteq Domains
                              /\ row.subnets \subseteq Subnets
                              /\ row.nexthop \in Nexthops \cup {None}
  /\ InitialRows \subseteq [Services -> ServiceRows \cup {NoRow}]
ASSUME NullAssumption ==
  /\ \A members \in SUBSET Addresses : members # NoSet
  /\ NoRoute \notin Nexthops /\ None \notin Nexthops
ASSUME FiniteAssumption == IsFiniteSet(Addresses) /\ IsFiniteSet(Subnets)
ASSUME BoundAssumption ==
  Pauses \subseteq Nat \ {0} /\ MaxChanges \in Nat /\ MaxFailures \in Nat

VARIABLES
  rows,      \* table services
  rules,     \* services whose set an iptables rule matches
  sets,      \* the kernel's ipsets with the agent's prefix, by name
  routes,    \* the kernel's routes with the agent's proto id
  onLink,    \* nexthops the gateway reaches directly
  enabled,   \* routing_enabled
  it,        \* the pass in progress
  budget     \* changes and failures still to come

hostVars == <<sets, routes>>
envVars == <<rows, rules, onLink, enabled>>
vars == <<dnsVars, envVars, hostVars, it, budget>>

-----------------------------------------------------------------------------
(* Names, memberships and routes.                                          *)

\* A service's set and the temporary one have their own names, both with the
\* managed prefix.
SetName(s) == <<s, "set">>
TempName(s) == <<s, "tmp">>
Names == Services \X {"set", "tmp"}

Present(n) == sets[n] # NoSet
Stored(view) == {s \in Services : view[s] # NoRow}
ByDomain(view) == {s \in Stored(view) : view[s].domains # {}}

DomainsOf(view) == UNION {view[s].domains : s \in Stored(view)}

\* Mutant: a domain in back-off counts for nothing.
HealthyMemberships(view, resolved) ==
  [s \in ByDomain(view) |->
     UNION {resolved[d].ips : d \in {k \in view[s].domains : resolved[k].backoff = 0}}]

\* desired_ips of each domain service: what its domains resolved to.
Memberships(view, resolved) ==
  [s \in ByDomain(view) |-> UNION {resolved[d].ips : d \in view[s].domains}]

\* Destinations of a service: its subnets and a host route per address.
DestinationsOf(row) == row.subnets \cup UNION {Known(d).ips : d \in row.domains}
Destinations == Subnets \cup Addresses

\* _filter_routable_services
Routed(view) ==
  {s \in Stored(view) : view[s].nexthop # None /\ view[s].nexthop \in onLink}

\* _build_desired_routes: of two services with the same destination the one the
\* query returned last has its way.
DesiredRoutes(view, last) ==
  LET claimed == UNION {DestinationsOf(view[s]) : s \in Routed(view)}
      Claims(dst) == {s \in Routed(view) : dst \in DestinationsOf(view[s])}
  IN [dst \in claimed |->
        view[CHOOSE s \in Claims(dst) :
               \A t \in Claims(dst) : last[t] <= last[s]].nexthop]

\* An order in which a query without ORDER BY may return the rows.
Orders == {f \in [Services -> 1..Cardinality(Services)] :
             \A s, t \in Services : s # t => f[s] # f[t]}

\* _get_current_routes
Current(dst) == IF dst = Default THEN NoRoute ELSE routes[dst]

\* Mutants: another nexthop goes unnoticed; what is replaced is deleted as well.
AbsentRoutes(want) == {dst \in DOMAIN want : Current(dst) = NoRoute}
OutdatedRoutes(want) ==
  {dst \in Destinations : Current(dst) # NoRoute /\
     (dst \in DOMAIN want => Current(dst) # want[dst])}

\* The two differences _reconcile_routes works off.
WrongRoutes(want) == {dst \in DOMAIN want : Current(dst) # want[dst]}

StaleRoutes(want) == {dst \in Destinations : Current(dst) # NoRoute} \ DOMAIN want

-----------------------------------------------------------------------------
AtRest == [pc |-> "idle", rows |-> [s \in Services |-> NoRow],
           goal |-> [s \in {} |-> {}], listed |-> {}, todo |-> {}, stale |-> {},
           current |-> None, adds |-> {}, want |-> [dst \in {} |-> None],
           old |-> {}]

Init ==
  /\ DnsInit
  /\ rows \in InitialRows
  /\ sets = [n \in Names |-> NoSet]
  /\ rules = {}
  /\ routes = [dst \in Destinations |-> NoRoute]
  /\ onLink = Nexthops
  /\ enabled = TRUE
  /\ it = AtRest
  /\ budget = [changes |-> MaxChanges, failures |-> MaxFailures]

Spend(kind) == budget[kind] > 0 /\ budget' = [budget EXCEPT ![kind] = @ - 1]

-----------------------------------------------------------------------------
(* The environment.  The pass reads services and DNS when it begins and not *)
(* again: what changes later is as if it changed after the pass.           *)

\* service-create, -reset, -delete, -add-domain, -set-nexthop, ... and the API.
ChangeService(s) ==
  /\ it.pc = "idle"
  /\ Spend("changes")
  /\ \E row \in (ServiceRows \cup {NoRow}) \ {rows[s]} :
        rows' = [rows EXCEPT ![s] = row]
  /\ UNCHANGED <<dnsVars, hostVars, rules, onLink, enabled, it>>

ChangeDns(d) ==
  /\ it.pc = "idle"
  /\ Spend("changes")
  /\ ChangeAnswer(d)
  /\ UNCHANGED <<envVars, hostVars, it>>

\* An interface of the gateway comes up or goes down; with it the kernel drops
\* the routes that need it.
ChangeLink(g) ==
  /\ Spend("changes")
  /\ \/ /\ g \notin onLink
        /\ onLink' = onLink \cup {g}
        /\ UNCHANGED routes
     \/ /\ g \in onLink
        /\ onLink' = onLink \ {g}
        /\ routes' = [dst \in Destinations |->
                        IF routes[dst] = g THEN NoRoute ELSE routes[dst]]
  /\ UNCHANGED <<dnsVars, rows, rules, enabled, sets, it>>

\* _reconcile_firewall, later in the iteration, adds rules that match a set, if
\* the set is there, and removes them.
MatchSet(s) ==
  /\ it.pc = "idle"
  /\ s \in ByDomain(rows) \ rules
  /\ Present(SetName(s))
  /\ rules' = rules \cup {s}
  /\ UNCHANGED <<dnsVars, hostVars, rows, onLink, enabled, it, budget>>

UnmatchSet(s) ==
  /\ it.pc = "idle"
  /\ s \in rules
  /\ rules' = rules \ {s}
  /\ UNCHANGED <<dnsVars, hostVars, rows, onLink, enabled, it, budget>>

-----------------------------------------------------------------------------
(* The pass, command by command.                                           *)

\* SELECT of the services, DNS, and ipset list -name.
Begin(time) ==
  /\ it.pc = "idle"
  /\ ReconcileDns(DomainsOf(rows), time)
  /\ LET goal == Memberships(rows, cache')
         listed == {n \in Names : Present(n)}
     IN it' = [AtRest EXCEPT
                 !.pc = "sets", !.rows = rows, !.goal = goal, !.listed = listed,
                 !.todo = DOMAIN goal,
                 !.stale = listed \ {SetName(s) : s \in DOMAIN goal}]
  /\ UNCHANGED <<envVars, hostVars, budget>>

Put(n, members) ==
  /\ sets' = [sets EXCEPT ![n] = members]
  /\ UNCHANGED <<dnsVars, envVars, routes, budget>>

OnlyIt == UNCHANGED <<dnsVars, envVars, hostVars, budget>>

\* Mutant: a set of the right size is taken to be right.
UpToDateBySize(s) == SetName(s) \in it.listed

\* The early return of _reconcile_ipset.
UpToDate(s) == SetName(s) \in it.listed /\ sets[SetName(s)] = it.goal[s]

KeepSet(s) ==
  /\ it.pc = "sets"
  /\ s \in it.todo
  /\ UpToDate(s)
  /\ it' = [it EXCEPT !.todo = @ \ {s}]
  /\ OnlyIt

\* create <name>_tmp -exist: one that an earlier failure left is taken as it is.
CreateTemp(s) ==
  /\ it.pc = "sets"
  /\ s \in it.todo
  /\ ~UpToDate(s)
  /\ Put(TempName(s), IF Present(TempName(s)) THEN sets[TempName(s)] ELSE {})
  /\ it' = [it EXCEPT !.pc = "flush", !.todo = @ \ {s}, !.current = s]

\* Mutant: no flush.
FlushedNot(s) == sets[TempName(s)]

Flushed(s) == {}

FlushTemp ==
  /\ it.pc = "flush"
  /\ Put(TempName(it.current), Flushed(it.current))
  /\ it' = [it EXCEPT !.pc = "add", !.adds = it.goal[it.current]]

AddMember(ip) ==
  /\ it.pc = "add"
  /\ ip \in it.adds
  /\ Put(TempName(it.current), sets[TempName(it.current)] \cup {ip})
  /\ it' = [it EXCEPT !.adds = @ \ {ip}]

\* create <name> -exist, for a set the list did not show.
CreateSet ==
  /\ it.pc = "add" /\ it.adds = {}
  /\ SetName(it.current) \notin it.listed
  /\ Put(SetName(it.current),
         IF Present(SetName(it.current)) THEN sets[SetName(it.current)] ELSE {})
  /\ it' = [it EXCEPT !.pc = "swap"]

\* Mutant: the set is swapped before its last member is added.
ReadyEarly == Cardinality(it.adds) <= 1

Ready == it.adds = {}

\* swap exchanges the two sets under their names; rules go by the name.
Swap ==
  /\ \/ it.pc = "swap"
     \/ it.pc = "add" /\ Ready /\ SetName(it.current) \in it.listed
  /\ sets' = [sets EXCEPT ![SetName(it.current)] = sets[TempName(it.current)],
                          ![TempName(it.current)] = sets[SetName(it.current)]]
  /\ it' = [it EXCEPT !.pc = "destroy"]
  /\ UNCHANGED <<dnsVars, envVars, routes, budget>>

DestroyTemp ==
  /\ it.pc = "destroy"
  /\ Put(TempName(it.current), NoSet)
  /\ it' = [it EXCEPT !.pc = "sets", !.current = None]

\* Mutant: what the list showed and no service wants is not looked at.
StaleNames == {n \in it.stale : n[2] = "set"}

Leftover == it.stale

\* destroy of a listed set no service has any more.  The kernel refuses while a
\* rule matches it, or when it is gone already; that is logged and left.
DestroyStale(n) ==
  LET refused == ~Present(n) \/ \E s \in rules : n = SetName(s)
  IN /\ it.pc = "sets" /\ it.todo = {}
     /\ n \in Leftover
     /\ Put(n, IF refused THEN sets[n] ELSE NoSet)
     /\ it' = [it EXCEPT !.stale = @ \ {n}]

\* destroy fails for another reason: logged and left as well.
DestroyFails(n) ==
  /\ it.pc = "sets" /\ it.todo = {}
  /\ n \in Leftover
  /\ Spend("failures")
  /\ it' = [it EXCEPT !.stale = @ \ {n}]
  /\ UNCHANGED <<dnsVars, envVars, hostVars>>

SetsDone ==
  /\ it.pc = "sets" /\ it.todo = {} /\ Leftover = {}
  /\ it' = [it EXCEPT !.pc = "routes"]
  /\ OnlyIt

\* A command fails or times out: the exception is logged in _reconcile_routing.
SetsRaise ==
  /\ it.pc \in {"sets", "flush", "add", "swap", "destroy"}
  /\ Spend("failures")
  /\ it' = [it EXCEPT !.pc = "routes", !.current = None]
  /\ UNCHANGED <<dnsVars, envVars, hostVars>>

SkipRoutes ==
  /\ it.pc = "routes"
  /\ ~enabled
  /\ it' = AtRest
  /\ OnlyIt

\* ip route get for each nexthop and ip route show: what has to be done.
PlanRoutes ==
  /\ it.pc = "routes"
  /\ enabled
  /\ \E last \in Orders :
       LET want == DesiredRoutes(it.rows, last)
       IN it' = [it EXCEPT !.pc = "replace", !.want = want,
                           !.todo = WrongRoutes(want), !.old = StaleRoutes(want)]
  /\ OnlyIt

\* ip route replace; the kernel refuses a nexthop it does not reach.
ReplaceRoute(dst) ==
  /\ it.pc = "replace"
  /\ dst \in it.todo
  /\ it.want[dst] \in onLink
  /\ routes' = [routes EXCEPT ![dst] = it.want[dst]]
  /\ it' = [it EXCEPT !.todo = @ \ {dst}]
  /\ UNCHANGED <<dnsVars, envVars, sets, budget>>

\* ip route del, when all wanted routes are there.
DeleteRoute(dst) ==
  /\ it.pc = "replace" /\ it.todo = {}
  /\ dst \in it.old
  /\ routes[dst] # NoRoute
  /\ routes' = [routes EXCEPT ![dst] = NoRoute]
  /\ it' = [it EXCEPT !.old = @ \ {dst}]
  /\ UNCHANGED <<dnsVars, envVars, sets, budget>>

RoutesDone ==
  /\ it.pc = "replace" /\ it.todo = {} /\ it.old = {}
  /\ it' = AtRest
  /\ OnlyIt

\* The kernel refuses, because the link changed since the plan was made.
RoutesRefused ==
  /\ it.pc = "replace"
  /\ \/ \E dst \in it.todo : it.want[dst] \notin onLink
     \/ it.todo = {} /\ \E dst \in it.old : routes[dst] = NoRoute
  /\ it' = AtRest
  /\ OnlyIt

RoutesRaise ==
  /\ it.pc \in {"routes", "replace"}
  /\ Spend("failures")
  /\ it' = AtRest
  /\ UNCHANGED <<dnsVars, envVars, hostVars>>

\* The process dies and is started again, perhaps with another configuration.
Crash ==
  /\ Spend("failures")
  /\ ForgetDns
  /\ enabled' \in BOOLEAN
  /\ it' = AtRest
  /\ UNCHANGED <<rows, rules, onLink, hostVars>>

-----------------------------------------------------------------------------
Agent ==
  \/ \E time \in Pauses : Begin(time)
  \/ \E s \in Services : KeepSet(s) \/ CreateTemp(s)
  \/ FlushTemp
  \/ \E ip \in Addresses : AddMember(ip)
  \/ CreateSet
  \/ Swap
  \/ DestroyTemp
  \/ \E n \in Names : DestroyStale(n)
  \/ SetsDone
  \/ SkipRoutes
  \/ PlanRoutes
  \/ \E dst \in Destinations : ReplaceRoute(dst) \/ DeleteRoute(dst)
  \/ RoutesDone
  \/ RoutesRefused

Environment ==
  \/ \E s \in Services : ChangeService(s) \/ MatchSet(s) \/ UnmatchSet(s)
  \/ \E d \in Domains : ChangeDns(d)
  \/ \E g \in Nexthops : ChangeLink(g)

Failure ==
  \/ SetsRaise
  \/ \E n \in Names : DestroyFails(n)
  \/ RoutesRaise
  \/ Crash

Next == Agent \/ Environment \/ Failure

\* The looper starts one iteration after the other, and commands end.
Spec == Init /\ [][Next]_vars /\ WF_vars(Agent)

-----------------------------------------------------------------------------
(* Properties.                                                             *)

Pcs == {"idle", "sets", "flush", "add", "swap", "destroy", "routes", "replace"}

\* The shape of every variable.
TypeOK ==
  /\ DnsTypeOK
  /\ rows \in [Services -> ServiceRows \cup {NoRow}]
  /\ sets \in [Names -> {NoSet} \cup SUBSET Addresses]
  /\ rules \subseteq {s \in Services : Present(SetName(s))}
  /\ routes \in [Destinations -> Nexthops \cup {NoRoute}]
  /\ it.pc \in Pcs
  /\ it.current \in Services \cup {None}

\* The docstring of _reconcile_ipset: rules never see a set half filled.  The
\* sets change only as AtomicSets says, whatever fails or dies in between.
Sets == INSTANCE AtomicSets WITH
          visible <- [s \in Services |-> sets[SetName(s)]],
          goal <- it.goal,
          used <- rules
SetsAreAtomic == Sets!Spec

\* An address leaves a set that stays only because DNS answered without it, or
\* because no domain of the service vouched for it in this life of the agent:
\* a failing lookup, a left-over temporary set and an old answer take no access
\* away.
WithdrawnOnlyByAnswer ==
  [][\A s \in Services :
       LET before == sets[SetName(s)]
           after == sets'[SetName(s)]
       IN before # NoSet /\ after # NoSet =>
            \A ip \in before \ after : \A d \in it.rows[s].domains : ip \notin heard[d]]_vars

\* A destination that has a route and keeps being routed is never without one
\* between two commands.
RoutesUninterrupted ==
  [][\A dst \in DOMAIN it.want :
       routes[dst] # NoRoute /\ onLink' = onLink => routes'[dst] # NoRoute]_vars

\* A pass whose commands all succeed ends with what it began for: every set holds
\* what the cache serves for its service, and every route leads where a service
\* sends its destination.  The agent never sees its own default route, so that
\* one may be of no service any more.
PassInstalls ==
  [][/\ SetsDone =>
          \A s \in ByDomain(it.rows) :
            sets[SetName(s)] = UNION {Known(d).ips : d \in it.rows[s].domains}
     /\ RoutesDone =>
          \A dst \in Destinations \ ({Default} \ DOMAIN it.want) :
            routes[dst] # NoRoute =>
              \E s \in Stored(it.rows) : /\ dst \in DestinationsOf(it.rows[s])
                                         /\ routes[dst] = it.rows[s].nexthop]_vars

\* What is left of a pass: commands for the set in hand, for the sets, and for the
\* routes.
InHand ==
  CASE it.pc = "flush" -> Cardinality(Addresses) + 4
    [] it.pc = "add" -> Cardinality(it.adds) + 3
    [] it.pc = "swap" -> 2
    [] it.pc = "destroy" -> 1
    [] OTHER -> 0

PerSet == Cardinality(Addresses) + 5

SetsLeft == Cardinality(it.todo) * PerSet + InHand + Cardinality(it.stale) + 1

RoutesLeft == Cardinality(Destinations) + 2

StepsLeft ==
  CASE it.pc = "idle" -> 0
    [] it.pc = "replace" -> Cardinality(it.todo) + Cardinality(it.old) + 1
    [] it.pc = "routes" -> RoutesLeft
    [] OTHER -> SetsLeft + RoutesLeft

\* A pass ends: every step of it, and every failure, leaves fewer to take than
\* before, and it begins with no more than the services, the ipsets on the host,
\* the addresses and the destinations account for.
PassEnds ==
  [][/\ StepsLeft' \in Nat
     /\ it.pc # "idle" /\ it' # it => StepsLeft' < StepsLeft
     /\ (\E time \in Pauses : Begin(time)) =>
          StepsLeft' <= Cardinality(Services) * PerSet + Cardinality(Names) + 1 + RoutesLeft]_vars

\* After the last change every set holds what DNS said last, and what DNS says
\* now if it answers.
SetsFollowDns ==
  <>[](\A s \in ByDomain(rows) :
         /\ Present(SetName(s))
         /\ \A d \in rows[s].domains :
              answer[d] # Fails => answer[d] \subseteq sets[SetName(s)]
         /\ (\A d \in rows[s].domains : answer[d] # Fails)
              => sets[SetName(s)] = UNION {answer[d] : d \in rows[s].domains})

\* Temporary sets go, and so does the set of a service without domains once no
\* rule matches it.
StaleSetsGo ==
  \A s \in Services :
    /\ <>[](sets[TempName(s)] = NoSet)
    /\ <>[](s \notin ByDomain(rows) /\ s \notin rules) => <>[](sets[SetName(s)] = NoSet)

\* Routes follow the services, their answers and the links.  Not a default
\* route: the agent does not recognise its own, so it never deletes it.
RoutesFollow ==
  <>[](enabled =>
         \A dst \in Destinations \ {Default} :
           LET via == {rows[s].nexthop : s \in {t \in Routed(rows) :
                                                dst \in DestinationsOf(rows[t])}}
           IN IF via = {} THEN routes[dst] = NoRoute ELSE routes[dst] \in via)
=============================================================================
