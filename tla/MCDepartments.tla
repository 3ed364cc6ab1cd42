--------------------------- MODULE MCDepartments ---------------------------
(***************************************************************************)
(* Three departments, one account, one tag and two commands.  A behaviour  *)
(* starts from any forest and makes MaxCommits changes: enough for both    *)
(* commands to commit, and for a third party to commit before, between or  *)
(* after them.                                                             *)
(***************************************************************************)
EXTENDS DepartmentTree, Naturals, TLC

CONSTANTS d1, d2, d3, k1, k2, MaxCommits

VARIABLE commits

MCDepartments == {d1, d2, d3}
MCCommands == {k1, k2}
Symmetric == Permutations(MCCommands) \cup Permutations(MCDepartments)

Tables == <<exists, dept, links>>

MCInit ==
  /\ exists \in SUBSET Departments
  /\ dept \in [Departments -> [parent : Parents, tags : {{}}]]
  /\ \A d \in Departments \ exists : dept[d] = Blank
  /\ ParentsExist /\ Forest
  /\ links = {}
  /\ cmd = [k \in Commands |-> Idle]
  /\ commits = 0

Bounded ==
  /\ Next
  /\ commits' = IF Tables' = Tables THEN commits ELSE commits + 1
  /\ commits' <= MaxCommits

\* The bound is reached.
Done == commits = MaxCommits /\ UNCHANGED <<vars, commits>>

MCNext == Bounded \/ Done

MCSpec == MCInit /\ [][MCNext]_<<vars, commits>>
=============================================================================
