---------------------------- MODULE Departments ----------------------------
(***************************************************************************)
(* The tree of departments and their members, in the tables departments    *)
(* and account_departments.                                                *)
(*                                                                         *)
(* Every department hands its tags down, so the parent links must form a   *)
(* forest.  Nothing in the database says so: department-set-parent looks   *)
(* for a cycle by reading one ancestor after the other and then saves the  *)
(* whole row it read first, while other commands commit in between.  The   *)
(* user API changes parents without looking.                               *)
(*                                                                         *)
(* A command that reads and later writes is several steps, one per read    *)
(* that can tell a difference; one that commits what it has just read, or  *)
(* what the database's constraints check again, is one.                    *)
(***************************************************************************)
EXTENDS FiniteSets

CONSTANTS
  Departments,    \* department rows that may be created
  NoDepartment,   \* SQL NULL in the column parent
  Tags,           \* network access tags
  Accounts,       \* accounts that may become members
  Commands        \* concurrently running CLI/API invocations

ASSUME NullAssumption == NoDepartment \notin Departments

VARIABLES
  exists,         \* departments that have a row
  dept,           \* the rows; blank where there is none
  links,          \* account_departments, as pairs <<account, department>>
  cmd             \* what each running command read and is about to write

vars == <<exists, dept, links, cmd>>

-----------------------------------------------------------------------------
Parents == Departments \cup {NoDepartment}
Rows == [parent : Parents, tags : SUBSET Tags]
Blank == [parent |-> NoDepartment, tags |-> {}]

\* A running command.  row: the row of department id as read and, at "save",
\* as it will be written; to: the parent that department-set-parent gives it;
\* at, seen: the walk through the ancestors of that parent.  alone is a history
\* variable: nobody has committed since the command's first read.
Pending ==
  [pc : {"idle", "walk", "refused", "save", "members", "delete"}, id : Parents,
   row : Rows, to : Parents, at : Parents, seen : SUBSET Departments, alone : BOOLEAN]
Idle ==
  [pc |-> "idle", id |-> NoDepartment, row |-> Blank, to |-> NoDepartment,
   at |-> NoDepartment, seen |-> {}, alone |-> TRUE]

Init ==
  /\ exists = {}
  /\ dept = [d \in Departments |-> Blank]
  /\ links = {}
  /\ cmd = [k \in Commands |-> Idle]

Disturbed(c) == IF c.pc = "idle" THEN c ELSE [c EXCEPT !.alone = FALSE]

\* Somebody commits: the commands in flight no longer are alone.
Commit == cmd' = [k \in Commands |-> Disturbed(cmd[k])]

\* Command k commits and ends.
CommitAndEnd(k) ==
  cmd' = [j \in Commands |-> IF j = k THEN Idle ELSE Disturbed(cmd[j])]

ChildrenOf(d) == {e \in exists : dept[e].parent = d}
MembersOf(d) == {a \in Accounts : <<a, d>> \in links}

-----------------------------------------------------------------------------
(* Creating, and changes of one row.                                       *)

\* department-create and its API twin; the foreign key demands that the parent
\* still exists at the commit.
Create(d, p, t) ==
  /\ d \notin exists
  /\ p \in exists \cup {NoDepartment}
  /\ exists' = exists \cup {d}
  /\ dept' = [dept EXCEPT ![d] = [parent |-> p, tags |-> t]]
  /\ Commit
  /\ UNCHANGED links

\* k has read d's row and will save it as row.  save() writes only a row that
\* was changed, and then all of it.
WillSave(k, d, row) ==
  /\ cmd[k].pc = "idle"
  /\ d \in exists
  /\ row # dept[d]
  /\ cmd' = [cmd EXCEPT ![k] = [Idle EXCEPT !.pc = "save", !.id = d, !.row = row]]
  /\ UNCHANGED <<exists, dept, links>>

\* department-add-tag and department-remove-tag.
EditTags(k, d, t) == WillSave(k, d, [dept[d] EXCEPT !.tags = t])

\* department-set-parent with an empty parent.
MakeRoot(k, d) == WillSave(k, d, [dept[d] EXCEPT !.parent = NoDepartment])

\* PUT on a department: any fields, no cycle check.
ApiUpdate(k, d, row) == WillSave(k, d, row)

\* Mutant: parent is a plain column without a foreign key.
StorableUnchecked(c) == c.id \in exists

\* The UPDATE finds the row, and the foreign key finds the parent.
Storable(c) == c.id \in exists /\ c.row.parent \in exists \cup {NoDepartment}

Save(k) ==
  /\ cmd[k].pc = "save"
  /\ Storable(cmd[k])
  /\ dept' = [dept EXCEPT ![cmd[k].id] = cmd[k].row]
  /\ CommitAndEnd(k)
  /\ UNCHANGED <<exists, links>>

\* A command ends without a write: refused, failed or interrupted.
Abort(k) ==
  /\ cmd[k].pc # "idle"
  /\ cmd' = [cmd EXCEPT ![k] = Idle]
  /\ UNCHANGED <<exists, dept, links>>

-----------------------------------------------------------------------------
(* department-set-parent: the walk of _department_creates_cycle, one       *)
(* ancestor per step.                                                      *)

StartMove(k, d, p) ==
  /\ cmd[k].pc = "idle"
  /\ d \in exists
  /\ cmd' = [cmd EXCEPT ![k] =
               [Idle EXCEPT !.pc = "walk", !.id = d, !.row = dept[d], !.to = p, !.at = p]]
  /\ UNCHANGED <<exists, dept, links>>

\* The SELECT of the next ancestor found it.
Found(c) == c.at \in exists

\* Mutant: refuses to pass through the present parent.
MeetsOwnParent(c) == c.at \in {c.id, c.row.parent}

\* The walk has come to the moved department or to where it was before.
MeetsItself(c) == c.at = c.id \/ c.at \in c.seen

Refuse(k) ==
  LET c == cmd[k] IN
  /\ c.pc = "walk" /\ Found(c) /\ MeetsItself(c)
  /\ cmd' = [cmd EXCEPT ![k] = [c EXCEPT !.pc = "refused", !.at = NoDepartment, !.seen = {}]]
  /\ UNCHANGED <<exists, dept, links>>

Climb(k) ==
  LET c == cmd[k] IN
  /\ c.pc = "walk" /\ Found(c) /\ ~MeetsItself(c)
  /\ dept[c.at].parent # NoDepartment
  /\ cmd' = [cmd EXCEPT ![k].at = dept[c.at].parent, ![k].seen = c.seen \cup {c.at}]
  /\ UNCHANGED <<exists, dept, links>>

\* Mutant: only the new parent itself is looked at.
ChainEndsAtOnce(c) == Found(c) /\ ~MeetsItself(c)

\* The chain ends at a root, or at a department deleted during the walk.
ChainEnds(c) ==
  \/ Found(c) /\ ~MeetsItself(c) /\ dept[c.at].parent = NoDepartment
  \/ ~Found(c) /\ c.seen # {}

Accept(k) ==
  LET c == cmd[k] IN
  /\ c.pc = "walk" /\ ChainEnds(c)
  /\ cmd' = [cmd EXCEPT ![k] =
               IF c.row.parent = c.to THEN Idle
               ELSE [c EXCEPT !.pc = "save", !.row.parent = c.to,
                              !.at = NoDepartment, !.seen = {}]]
  /\ UNCHANGED <<exists, dept, links>>

\* The new parent itself does not exist.
ParentNotFound(k) ==
  /\ cmd[k].pc = "walk" /\ ~Found(cmd[k]) /\ cmd[k].seen = {}
  /\ cmd' = [cmd EXCEPT ![k] = Idle]
  /\ UNCHANGED <<exists, dept, links>>

-----------------------------------------------------------------------------
(* Deleting, and memberships.                                              *)

\* department-delete reads the children, then the members, then deletes.
CheckChildren(k, d) ==
  /\ cmd[k].pc = "idle"
  /\ d \in exists
  /\ ChildrenOf(d) = {}
  /\ cmd' = [cmd EXCEPT ![k] = [Idle EXCEPT !.pc = "members", !.id = d]]
  /\ UNCHANGED <<exists, dept, links>>

CheckMembers(k) ==
  /\ cmd[k].pc = "members"
  /\ MembersOf(cmd[k].id) = {}
  /\ cmd' = [cmd EXCEPT ![k].pc = "delete"]
  /\ UNCHANGED <<exists, dept, links>>

\* Mutant: memberships outlive their department.
CascadeNothing(d) == links

\* The foreign key of the memberships: ON DELETE CASCADE.
Cascade(d) == {l \in links : l[2] # d}

\* The foreign key of parent refuses to orphan a child.
RemoveRow(d) ==
  /\ d \in exists
  /\ ChildrenOf(d) \subseteq {d}
  /\ exists' = exists \ {d}
  /\ dept' = [dept EXCEPT ![d] = Blank]
  /\ links' = Cascade(d)

DeleteDepartment(k) ==
  /\ cmd[k].pc = "delete"
  /\ RemoveRow(cmd[k].id)
  /\ CommitAndEnd(k)

\* DELETE on a department: nothing is checked but the foreign keys.
ApiDelete(d) == RemoveRow(d) /\ Commit

\* account-department-add, account-create --departments and their API twin;
\* the unique index and the foreign key repeat the command's checks.
AddMember(a, d) ==
  /\ d \in exists /\ <<a, d>> \notin links
  /\ links' = links \cup {<<a, d>>}
  /\ Commit
  /\ UNCHANGED <<exists, dept>>

RemoveMember(a, d) ==
  /\ <<a, d>> \in links
  /\ links' = links \ {<<a, d>>}
  /\ Commit
  /\ UNCHANGED <<exists, dept>>

-----------------------------------------------------------------------------
Next ==
  \/ \E d \in Departments, p \in Parents, t \in SUBSET Tags : Create(d, p, t)
  \/ \E k \in Commands, d \in Departments, t \in SUBSET Tags : EditTags(k, d, t)
  \/ \E k \in Commands, d \in Departments : MakeRoot(k, d) \/ CheckChildren(k, d)
  \/ \E k \in Commands, d \in Departments, row \in Rows : ApiUpdate(k, d, row)
  \/ \E k \in Commands, d, p \in Departments : StartMove(k, d, p)
  \/ \E k \in Commands :
       \/ Refuse(k) \/ Climb(k) \/ Accept(k) \/ ParentNotFound(k)
       \/ Save(k) \/ Abort(k) \/ CheckMembers(k) \/ DeleteDepartment(k)
  \/ \E d \in Departments : ApiDelete(d)
  \/ \E a \in Accounts, d \in Departments : AddMember(a, d) \/ RemoveMember(a, d)

Spec == Init /\ [][Next]_vars

-----------------------------------------------------------------------------
(* What the parent links should be, said without following them.           *)

\* A set of departments that holds the parent of each of its members.
Closed(S) == \A d \in S : dept[d].parent \in S \cup {NoDepartment}

\* No department is its own ancestor: there is no set to go round in.
Forest == ~\E S \in SUBSET exists : S # {} /\ \A d \in S : dept[d].parent \in S

\* d is neither p nor an ancestor of p.
MayMoveUnder(d, p) == \E S \in SUBSET exists : p \in S /\ d \notin S /\ Closed(S)

-----------------------------------------------------------------------------
(* Properties.                                                             *)

TypeOK ==
  /\ exists \subseteq Departments
  /\ dept \in [Departments -> Rows]
  /\ links \subseteq Accounts \X exists
  /\ cmd \in [Commands -> Pending]

\* A parent always exists, although a department may be deleted between a
\* command's look at it and the save that makes it a parent.
ParentsExist == \A d \in exists : dept[d].parent \in exists \cup {NoDepartment}

\* While nobody interferes, the cycle check is exact: it lets a department move
\* only under one that is not below it, and it refuses only such a move or one
\* below a cycle that is there already.
VerdictIsRight ==
  \A k \in Commands :
    cmd[k].alone =>
      /\ cmd[k].pc = "save" /\ cmd[k].to # NoDepartment =>
           MayMoveUnder(cmd[k].id, cmd[k].to)
      /\ cmd[k].pc = "refused" => ~MayMoveUnder(cmd[k].id, cmd[k].to) \/ ~Forest

\* k is a department-set-parent that saves.
SavesMove(k) == Save(k) /\ cmd[k].to # NoDepartment

\* A department-set-parent that nobody interfered with keeps the forest a forest.
AloneKeepsForest ==
  [][\A k \in Commands : SavesMove(k) /\ cmd[k].alone /\ Forest => Forest']_vars

\* department-set-parent never closes a cycle ("cycles are refused").
MovesKeepForest == [][\A k \in Commands : SavesMove(k) /\ Forest => Forest']_vars
=============================================================================
