------------------------- MODULE Departments_proofs -------------------------
(***************************************************************************)
(* For any number of departments and concurrent commands: references stay  *)
(* whole, the cycle check of department-set-parent is right as long as     *)
(* nobody interferes, and then a move keeps the departments a forest.      *)
(*                                                                         *)
(* No ancestor chain is followed in the proofs.  A department lies above   *)
(* another if it is in every closed set with it; the walk's own set of     *)
(* visited departments is the closed set that shows that one does not.     *)
(*                                                                         *)
(* What is computed from the tables is right for any tables that the       *)
(* invariant allows, cycles included: the walk that collects tags leaves   *)
(* fewer departments unseen at each step, and the drawing of the tree is   *)
(* as many steps as departments are drawn and done with.                   *)
(***************************************************************************)
EXTENDS DepartmentTree, Induction

\* The walk so far: what was seen has its parents in what was seen, but for the
\* next stop; and that stop is above the new parent.
WalkOK(c) ==
  /\ c.to \in Departments
  /\ c.seen \subseteq exists
  /\ c.id \notin c.seen
  /\ \A e \in c.seen : dept[e].parent \in c.seen \cup {c.at}
  /\ c.seen = {} => c.at = c.to
  /\ c.seen # {} => c.to \in c.seen /\ c.at \in exists
  /\ \A S \in SUBSET exists : c.to \in S /\ Closed(S) => c.at \in S

AcceptedRightly(c) == MayMoveUnder(c.id, c.to)
RefusedRightly(c) == ~MayMoveUnder(c.id, c.to) \/ ~Forest

\* What an undisturbed command has established.
Sound(c) ==
  /\ c.pc = "walk" => WalkOK(c)
  /\ c.pc = "save" /\ c.to # NoDepartment => AcceptedRightly(c)
  /\ c.pc = "refused" => RefusedRightly(c)

AloneSound == \A k \in Commands : cmd[k].alone => Sound(cmd[k])

\* A move saves the parent it was checked for.
MovesAsChecked ==
  \A k \in Commands :
    cmd[k].pc = "save" /\ cmd[k].to # NoDepartment => cmd[k].row.parent = cmd[k].to

Inv == TypeOK /\ ParentsExist /\ AloneSound /\ MovesAsChecked

-----------------------------------------------------------------------------
\* The idle command and the blank row have their types.
LEMMA Constants == Idle \in Pending /\ Blank \in Rows
BY DEF Idle, Pending, Blank, Rows, Parents

\* Nothing exists and nothing runs at first.
LEMMA InitInv == Init => Inv
<1> SUFFICES ASSUME Init PROVE Inv
  OBVIOUS
<1>1. TypeOK
  BY Constants DEF Init, TypeOK
<1>2. ParentsExist
  BY DEF Init, ParentsExist
<1>3. \A k \in Commands : cmd[k].pc = "idle"
  BY DEF Init, Idle
<1> QED
  BY <1>1, <1>2, <1>3 DEF Inv, AloneSound, MovesAsChecked, Sound

\* Losing its solitude keeps a command's type.
LEMMA DisturbedType == ASSUME NEW c \in Pending PROVE Disturbed(c) \in Pending
BY DEF Disturbed, Pending

\* A commit leaves every command idle or disturbed, and none at a new place.
LEMMA CommitCmd ==
  ASSUME TypeOK, Commit \/ \E k \in Commands : CommitAndEnd(k)
  PROVE  /\ cmd' \in [Commands -> Pending]
         /\ \A j \in Commands : cmd'[j].alone => cmd'[j].pc = "idle"
         /\ \A j \in Commands : cmd'[j].pc = "idle" \/ cmd'[j] = [cmd[j] EXCEPT !.alone = FALSE]
<1>1. \A j \in Commands : cmd[j] \in Pending
  BY DEF TypeOK
<1>2. /\ cmd' = [j \in Commands |-> cmd'[j]]
      /\ \A j \in Commands : cmd'[j] = Idle \/ cmd'[j] = Disturbed(cmd[j])
  BY DEF Commit, CommitAndEnd
<1>3. \A j \in Commands : cmd'[j] \in Pending
  BY <1>1, <1>2, Constants, DisturbedType
<1>4. ASSUME NEW j \in Commands
      PROVE  /\ cmd'[j].alone => cmd'[j].pc = "idle"
             /\ cmd'[j].pc = "idle" \/ cmd'[j] = [cmd[j] EXCEPT !.alone = FALSE]
  BY <1>1, <1>2 DEF Disturbed, Idle, Pending
<1> QED
  BY <1>2, <1>3, <1>4

\* After a commit nothing is claimed of any command.
LEMMA CommitInv ==
  ASSUME Inv, Commit \/ \E k \in Commands : CommitAndEnd(k),
         exists' \subseteq Departments, dept' \in [Departments -> Rows],
         links' \subseteq Accounts \X exists', ParentsExist'
  PROVE  Inv'
<1>1. TypeOK'
  BY CommitCmd DEF Inv, TypeOK
<1>2. AloneSound'
  BY CommitCmd DEF Inv, AloneSound, Sound
<1>3. MovesAsChecked'
  <2> SUFFICES ASSUME NEW j \in Commands, cmd'[j].pc = "save", cmd'[j].to # NoDepartment
               PROVE  cmd'[j].row.parent = cmd'[j].to
    BY DEF MovesAsChecked
  <2>1. cmd'[j] = [cmd[j] EXCEPT !.alone = FALSE] /\ cmd[j] \in Pending
    BY CommitCmd DEF Inv, TypeOK
  <2>2. cmd[j].pc = "save" /\ cmd[j].to # NoDepartment
    BY <2>1 DEF Pending
  <2> QED
    BY <2>1, <2>2 DEF Inv, MovesAsChecked, Pending
<1> QED
  BY <1>1, <1>2, <1>3 DEF Inv

\* A step of one command that commits nothing needs to be looked at only there.
LEMMA StepInv ==
  ASSUME Inv, UNCHANGED <<exists, dept, links>>,
         NEW k \in Commands, NEW c \in Pending, cmd' = [cmd EXCEPT ![k] = c],
         c.alone => Sound(c),
         c.pc = "save" /\ c.to # NoDepartment => c.row.parent = c.to
  PROVE  Inv'
<1>1. TypeOK'
  BY DEF Inv, TypeOK
<1>2. ParentsExist'
  BY DEF Inv, ParentsExist
<1>3. \A e : Sound(e)' <=> Sound(e)
  BY DEF Sound, WalkOK, AcceptedRightly, RefusedRightly, MayMoveUnder, Forest, Closed
<1>4. \A j \in Commands : cmd'[j] = IF j = k THEN c ELSE cmd[j]
  BY DEF Inv, TypeOK
<1>5. AloneSound'
  BY <1>3, <1>4 DEF Inv, AloneSound
<1>6. MovesAsChecked'
  BY <1>4 DEF Inv, MovesAsChecked
<1> QED
  BY <1>1, <1>2, <1>5, <1>6 DEF Inv

-----------------------------------------------------------------------------
(* The commands that commit.                                               *)

\* A new department has no children and no members, and an existing parent.
LEMMA CreateInv ==
  ASSUME Inv, NEW d \in Departments, NEW p \in Parents, NEW t \in SUBSET Tags, Create(d, p, t)
  PROVE  Inv'
<1>1. exists' \subseteq Departments /\ links' \subseteq Accounts \X exists'
  BY DEF Inv, TypeOK, Create
<1>2. dept' \in [Departments -> Rows]
  BY DEF Inv, TypeOK, Create, Rows
<1>3. ParentsExist'
  BY DEF Inv, TypeOK, Create, ParentsExist
<1> QED
  BY <1>1, <1>2, <1>3, CommitInv DEF Create

\* The row that is saved has a parent the foreign key finds.
LEMMA SaveInv ==
  ASSUME Inv, NEW k \in Commands, Save(k)
  PROVE  Inv'
<1>1. cmd[k].id \in Departments /\ cmd[k].row \in Rows
  BY DEF Inv, TypeOK, Pending, Save, Storable
<1>2. dept' \in [Departments -> Rows]
  BY <1>1 DEF Inv, TypeOK, Save
<1>3. exists' \subseteq Departments /\ links' \subseteq Accounts \X exists'
  BY DEF Inv, TypeOK, Save
<1>4. ParentsExist'
  BY <1>1 DEF Inv, TypeOK, Save, Storable, ParentsExist
<1> QED
  BY <1>2, <1>3, <1>4, CommitInv DEF Save

\* The foreign keys: a department goes without children, its memberships with it.
LEMMA RemoveRowKeeps ==
  ASSUME Inv, NEW d, RemoveRow(d)
  PROVE  /\ exists' \subseteq Departments
         /\ dept' \in [Departments -> Rows]
         /\ links' \subseteq Accounts \X exists'
         /\ ParentsExist'
<1>1. d \in Departments /\ exists' \subseteq Departments
  BY DEF Inv, TypeOK, RemoveRow
<1>2. dept' \in [Departments -> Rows]
  BY Constants DEF Inv, TypeOK, RemoveRow
<1>3. links' \subseteq Accounts \X exists'
  BY DEF Inv, TypeOK, RemoveRow, Cascade
<1>4. ParentsExist'
  BY DEF Inv, TypeOK, RemoveRow, ParentsExist, ChildrenOf
<1> QED
  BY <1>1, <1>2, <1>3, <1>4

\* A deletion, by the command or the API.
LEMMA DeleteInv ==
  ASSUME Inv, (\E k \in Commands : DeleteDepartment(k)) \/ \E d \in Departments : ApiDelete(d)
  PROVE  Inv'
BY RemoveRowKeeps, CommitInv DEF DeleteDepartment, ApiDelete

\* A membership comes or goes.
LEMMA MemberInv ==
  ASSUME Inv, NEW a \in Accounts, NEW d \in Departments, AddMember(a, d) \/ RemoveMember(a, d)
  PROVE  Inv'
<1>1. /\ exists' \subseteq Departments /\ dept' \in [Departments -> Rows]
      /\ links' \subseteq Accounts \X exists' /\ Commit
  BY DEF Inv, TypeOK, AddMember, RemoveMember
<1>2. ParentsExist'
  BY DEF Inv, ParentsExist, AddMember, RemoveMember
<1> QED
  BY <1>1, <1>2, CommitInv

-----------------------------------------------------------------------------
(* The steps of one command that commit nothing.                           *)

\* Reading a row and preparing what to save.
LEMMA WillSaveInv ==
  ASSUME Inv, NEW k \in Commands, NEW d \in Departments, NEW row \in Rows, WillSave(k, d, row)
  PROVE  Inv'
<1> DEFINE c == [Idle EXCEPT !.pc = "save", !.id = d, !.row = row]
<1>1. c \in Pending /\ c.pc = "save" /\ c.to = NoDepartment
  BY Constants DEF Idle, Pending, Parents
<1>2. Sound(c)
  BY <1>1 DEF Sound
<1> HIDE DEF c
<1> QED
  BY <1>1, <1>2, StepInv DEF WillSave, c

\* A command that gives up.
LEMMA AbortInv ==
  ASSUME Inv, NEW k \in Commands, Abort(k) \/ ParentNotFound(k)
  PROVE  Inv'
<1>1. Idle.pc = "idle" /\ Sound(Idle)
  BY DEF Idle, Sound
<1> QED
  BY <1>1, Constants, StepInv DEF Abort, ParentNotFound

\* The walk starts at the new parent.
LEMMA StartMoveInv ==
  ASSUME Inv, NEW k \in Commands, NEW d \in Departments, NEW p \in Departments,
         StartMove(k, d, p)
  PROVE  Inv'
<1> DEFINE c == [Idle EXCEPT !.pc = "walk", !.id = d, !.row = dept[d], !.to = p, !.at = p]
<1>1. /\ c \in Pending /\ c.pc = "walk"
      /\ c.id = d /\ c.to = p /\ c.at = p /\ c.seen = {}
  BY Constants DEF Inv, TypeOK, Idle, Pending, Parents
<1> HIDE DEF c
<1>2. Sound(c)
  BY <1>1 DEF Sound, WalkOK
<1> QED
  BY <1>1, <1>2, StepInv DEF StartMove, c

\* What was seen goes round in a circle, or the moved department is above its
\* new parent.
LEMMA RefuseInv ==
  ASSUME Inv, NEW k \in Commands, Refuse(k)
  PROVE  Inv'
<1> DEFINE c == cmd[k]
<1> DEFINE n == [c EXCEPT !.pc = "refused", !.at = NoDepartment, !.seen = {}]
<1>1. /\ c \in Pending /\ c.pc = "walk" /\ Found(c) /\ MeetsItself(c)
      /\ cmd' = [cmd EXCEPT ![k] = n] /\ UNCHANGED <<exists, dept, links>>
  BY DEF Inv, TypeOK, Refuse
<1>2. /\ n \in Pending /\ n.pc = "refused"
      /\ n.id = c.id /\ n.to = c.to /\ n.alone = c.alone
  BY <1>1 DEF Pending, Parents
<1>3. c.alone => WalkOK(c)
  BY <1>1 DEF Inv, AloneSound, Sound
<1> HIDE DEF c, n
<1>4. ASSUME WalkOK(c) PROVE RefusedRightly(n)
  <2>1. CASE c.at = c.id
    BY <1>2, <1>4, <2>1 DEF WalkOK, RefusedRightly, MayMoveUnder
  <2>2. CASE c.at \in c.seen
    BY <1>4, <2>2 DEF WalkOK, RefusedRightly, Forest
  <2> QED
    BY <1>1, <2>1, <2>2 DEF MeetsItself
<1>5. n.alone => Sound(n)
  BY <1>2, <1>3, <1>4 DEF Sound
<1> QED
  BY <1>1, <1>2, <1>5, StepInv

\* The walk climbs: what it has seen stays closed but for the next stop.
LEMMA ClimbInv ==
  ASSUME Inv, NEW k \in Commands, Climb(k)
  PROVE  Inv'
<1> DEFINE c == cmd[k]
<1> DEFINE n == [c EXCEPT !.at = dept[c.at].parent, !.seen = c.seen \cup {c.at}]
<1>1. /\ c \in Pending /\ c.pc = "walk" /\ c.at \in exists /\ c.at # c.id
      /\ dept[c.at].parent # NoDepartment
      /\ cmd' = [cmd EXCEPT ![k] = n] /\ UNCHANGED <<exists, dept, links>>
  BY DEF Inv, TypeOK, Climb, Found, MeetsItself
<1>2. dept[c.at].parent \in exists /\ exists \subseteq Departments
  BY <1>1 DEF Inv, TypeOK, ParentsExist
<1>3. /\ n \in Pending /\ n.pc = "walk" /\ n.id = c.id /\ n.to = c.to
      /\ n.at = dept[c.at].parent /\ n.seen = c.seen \cup {c.at} /\ n.alone = c.alone
  BY <1>1, <1>2 DEF Pending, Parents
<1>4. c.alone => WalkOK(c)
  BY <1>1 DEF Inv, AloneSound, Sound
<1> HIDE DEF c, n
<1>5. ASSUME WalkOK(c) PROVE WalkOK(n)
  <2>1. \A e \in n.seen : dept[e].parent \in n.seen \cup {n.at}
    BY <1>3, <1>5 DEF WalkOK
  <2>2. n.to \in n.seen /\ n.at \in exists
    BY <1>2, <1>3, <1>5 DEF WalkOK
  <2>3. \A S \in SUBSET exists : n.to \in S /\ Closed(S) => n.at \in S
    BY <1>1, <1>3, <1>5 DEF WalkOK, Closed
  <2> QED
    BY <1>1, <1>3, <1>5, <2>1, <2>2, <2>3 DEF WalkOK
<1>6. n.alone => Sound(n)
  BY <1>3, <1>4, <1>5 DEF Sound
<1> QED
  BY <1>1, <1>3, <1>6, StepInv

\* What was seen, with the root at its end, is the closed set that shows that the
\* moved department is not above its new parent.
LEMMA AcceptInv ==
  ASSUME Inv, NEW k \in Commands, Accept(k)
  PROVE  Inv'
<1> DEFINE c == cmd[k]
<1> DEFINE n == [c EXCEPT !.pc = "save", !.row.parent = c.to, !.at = NoDepartment, !.seen = {}]
<1>1. /\ c \in Pending /\ c.pc = "walk" /\ ChainEnds(c)
      /\ cmd' = [cmd EXCEPT ![k] = IF c.row.parent = c.to THEN Idle ELSE n]
      /\ UNCHANGED <<exists, dept, links>>
  BY DEF Inv, TypeOK, Accept
<1>2. /\ n \in Pending /\ n.pc = "save" /\ n.id = c.id /\ n.to = c.to
      /\ n.row.parent = c.to /\ n.alone = c.alone
  BY <1>1 DEF Pending, Parents, Rows
<1>3. c.alone => WalkOK(c)
  BY <1>1 DEF Inv, AloneSound, Sound
<1> HIDE DEF c, n
<1>4. ASSUME WalkOK(c) PROVE AcceptedRightly(n)
  <2> DEFINE S == c.seen \cup {c.at}
  <2>1. /\ c.at \in exists /\ c.at # c.id /\ dept[c.at].parent = NoDepartment
    BY <1>1, <1>4 DEF ChainEnds, Found, MeetsItself, WalkOK
  <2>2. S \in SUBSET exists /\ c.to \in S /\ c.id \notin S
    BY <1>4, <2>1 DEF WalkOK
  <2>3. Closed(S)
    BY <1>4, <2>1 DEF WalkOK, Closed
  <2> QED
    BY <1>2, <2>2, <2>3 DEF AcceptedRightly, MayMoveUnder
<1>5. n.alone => Sound(n)
  BY <1>2, <1>3, <1>4 DEF Sound
<1>6. Idle.pc = "idle" /\ Sound(Idle)
  BY DEF Idle, Sound
<1> QED
  BY <1>1, <1>2, <1>5, <1>6, Constants, StepInv

\* What department-delete looks up.
LEMMA CheckInv ==
  ASSUME Inv, NEW k \in Commands,
         CheckMembers(k) \/ \E d \in Departments : CheckChildren(k, d)
  PROVE  Inv'
<1>1. CASE CheckMembers(k)
  <2> DEFINE n == [cmd[k] EXCEPT !.pc = "delete"]
  <2>1. /\ cmd[k] \in Pending /\ n \in Pending /\ n.pc = "delete"
        /\ n.id = cmd[k].id /\ n.alone = cmd[k].alone
    BY DEF Inv, TypeOK, Pending
  <2>2. n.alone => Sound(n)
    BY <2>1 DEF Sound
  <2>3. cmd' = [cmd EXCEPT ![k] = n] /\ UNCHANGED <<exists, dept, links>>
    BY <1>1 DEF CheckMembers
  <2> HIDE DEF n
  <2> QED
    BY <2>1, <2>2, <2>3, StepInv
<1>2. ASSUME NEW d \in Departments, CheckChildren(k, d) PROVE Inv'
  <2> DEFINE n == [Idle EXCEPT !.pc = "members", !.id = d]
  <2>1. n \in Pending /\ n.pc = "members" /\ n.id = d
    BY Constants DEF Idle, Pending, Parents
  <2>2. cmd' = [cmd EXCEPT ![k] = n] /\ UNCHANGED <<exists, dept, links>>
    BY <1>2 DEF CheckChildren
  <2> HIDE DEF n
  <2>3. Sound(n)
    BY <2>1 DEF Sound
  <2> QED
    BY <2>1, <2>2, <2>3, StepInv
<1> QED
  BY <1>1, <1>2

-----------------------------------------------------------------------------
\* Every step keeps the invariant.
LEMMA NextInv == Inv /\ [Next]_vars => Inv'
<1> SUFFICES ASSUME Inv, [Next]_vars PROVE Inv'
  OBVIOUS
<1>1. CASE UNCHANGED vars
  BY <1>1
  DEF vars, Inv, TypeOK, ParentsExist, AloneSound, MovesAsChecked, Sound, WalkOK,
      AcceptedRightly, RefusedRightly, MayMoveUnder, Forest, Closed
<1>2. ASSUME NEW d \in Departments, NEW p \in Parents, NEW t \in SUBSET Tags, Create(d, p, t)
      PROVE  Inv'
  BY <1>2, CreateInv
<1>3. ASSUME NEW k \in Commands, NEW d \in Departments, NEW row \in Rows, WillSave(k, d, row)
      PROVE  Inv'
  BY <1>3, WillSaveInv
<1>4. ASSUME NEW k \in Commands, NEW d \in Departments,
             \/ \E t \in SUBSET Tags : EditTags(k, d, t)
             \/ MakeRoot(k, d)
      PROVE  Inv'
  <2>1. dept[d] \in Rows /\ NoDepartment \in Parents
    BY DEF Inv, TypeOK, Parents
  <2>2. /\ \A t \in SUBSET Tags : [dept[d] EXCEPT !.tags = t] \in Rows
        /\ [dept[d] EXCEPT !.parent = NoDepartment] \in Rows
    BY <2>1 DEF Rows
  <2> QED
    BY <1>3, <1>4, <2>2 DEF EditTags, MakeRoot
<1>5. ASSUME NEW k \in Commands, NEW d \in Departments, NEW p \in Departments,
             StartMove(k, d, p)
      PROVE  Inv'
  BY <1>5, StartMoveInv
<1>6. ASSUME NEW k \in Commands,
             \/ Refuse(k) \/ Climb(k) \/ Accept(k) \/ ParentNotFound(k)
             \/ Save(k) \/ Abort(k) \/ CheckMembers(k) \/ DeleteDepartment(k)
             \/ \E d \in Departments : CheckChildren(k, d)
      PROVE  Inv'
  BY <1>6, RefuseInv, ClimbInv, AcceptInv, AbortInv, SaveInv, CheckInv, DeleteInv
<1>7. ASSUME NEW d \in Departments,
             ApiDelete(d) \/ \E a \in Accounts : AddMember(a, d) \/ RemoveMember(a, d)
      PROVE  Inv'
  BY <1>7, DeleteInv, MemberInv
<1> QED
  BY <1>1, <1>2, <1>3, <1>4, <1>5, <1>6, <1>7 DEF Next, ApiUpdate

\* The invariant holds in every reachable state.
THEOREM Invariance == Spec => []Inv
BY InitInv, NextInv, PTL DEF Spec

\* Rows, links and commands in flight are well formed for every instance.
THEOREM TypeCorrect == Spec => []TypeOK
<1>1. Inv => TypeOK
  BY DEF Inv
<1> QED
  BY <1>1, Invariance, PTL

\* No department is left with a parent that was deleted, whatever deletions race
\* with the commands that look a parent up first and store it later.
THEOREM ParentsAlwaysExist == Spec => []ParentsExist
<1>1. Inv => ParentsExist
  BY DEF Inv
<1> QED
  BY <1>1, Invariance, PTL

\* The walk of _department_creates_cycle decides exactly right when undisturbed.
THEOREM WalkDecides == Spec => []VerdictIsRight
<1>1. Inv => VerdictIsRight
  BY DEF Inv, AloneSound, Sound, AcceptedRightly, RefusedRightly, VerdictIsRight
<1> QED
  BY <1>1, Invariance, PTL

\* Were there a circle after the move, it would pass through the moved department
\* and its new parent; what of it lies above the new parent was a circle before.
LEMMA MoveKeepsForest ==
  ASSUME Inv, NEW k \in Commands, SavesMove(k), cmd[k].alone, Forest
  PROVE  Forest'
<1> DEFINE d == cmd[k].id
<1> DEFINE p == cmd[k].to
<1>1. /\ cmd[k].pc = "save" /\ p # NoDepartment /\ cmd[k].row.parent = p
      /\ d \in exists /\ d \in Departments /\ exists' = exists
      /\ dept' = [dept EXCEPT ![d] = cmd[k].row] /\ dept \in [Departments -> Rows]
  BY DEF SavesMove, Save, Storable, Inv, TypeOK, MovesAsChecked
<1>2. MayMoveUnder(d, p)
  BY <1>1 DEF Inv, AloneSound, Sound, AcceptedRightly
<1>3. PICK C \in SUBSET exists : p \in C /\ d \notin C /\ Closed(C)
  BY <1>2 DEF MayMoveUnder
<1>4. /\ dept'[d].parent = p
      /\ \A e \in Departments \ {d} : dept'[e] = dept[e]
  BY <1>1
<1>5. SUFFICES ASSUME NEW S \in SUBSET exists, S # {}, \A e \in S : dept'[e].parent \in S
               PROVE  FALSE
  BY <1>1 DEF Forest
<1>6. exists \subseteq Departments
  BY DEF Inv, TypeOK
<1>7. CASE d \notin S
  BY <1>4, <1>5, <1>6, <1>7 DEF Forest
<1>8. CASE d \in S
  <2> DEFINE R == S \cap C
  <2>1. p \in R
    BY <1>3, <1>4, <1>5, <1>8
  <2>2. \A e \in R : dept[e].parent \in S
    BY <1>3, <1>4, <1>5, <1>6
  <2>3. NoDepartment \notin S
    BY <1>6, NullAssumption
  <2>4. \A e \in R : dept[e].parent \in R
    BY <1>3, <2>2, <2>3 DEF Closed
  <2> QED
    BY <2>1, <2>4 DEF Forest
<1> QED
  BY <1>7, <1>8

\* A department-set-parent that nobody interfered with keeps the departments a
\* forest, for any forest of any size.
THEOREM AloneMovesKeepForest == Spec => AloneKeepsForest
<1>1. Inv /\ [Next]_vars =>
        [\A k \in Commands : SavesMove(k) /\ cmd[k].alone /\ Forest => Forest']_vars
  BY MoveKeepsForest
<1> QED
  BY <1>1, Invariance, PTL DEF Spec, AloneKeepsForest

-----------------------------------------------------------------------------
(* department_effective_tags and department_granted_tags.                  *)

\* S holds cur and the parents of its members, as far as they exist and are not
\* in seen.
ClosedBeyond(S, cur, seen) ==
  /\ cur \in exists \ seen => cur \in S
  /\ \A e \in S : dept[e].parent \in exists \ seen => dept[e].parent \in S

\* What a walk that starts at cur and has seen seen comes by: what all those sets
\* have in common.
Ahead(cur, seen) ==
  {e \in exists : \A S \in SUBSET exists : ClosedBeyond(S, cur, seen) => e \in S}

\* A walk that meets nothing new comes by nothing.
LEMMA AheadEnds ==
  ASSUME NEW cur, NEW seen, cur \notin exists \/ cur \in seen
  PROVE  Ahead(cur, seen) = {}
<1>1. ClosedBeyond({}, cur, seen)
  BY DEF ClosedBeyond
<1> QED BY <1>1 DEF Ahead

\* Otherwise it comes by cur, and by what is ahead of cur's parent.
LEMMA AheadClimbs ==
  ASSUME NEW cur, NEW seen, cur \in exists \ seen
  PROVE  Ahead(cur, seen) = {cur} \cup Ahead(dept[cur].parent, seen \cup {cur})
<1> DEFINE up == dept[cur].parent
<1>1. ASSUME NEW S \in SUBSET exists, ClosedBeyond(S, cur, seen)
      PROVE  ClosedBeyond(S, up, seen \cup {cur}) /\ cur \in S
  BY <1>1 DEF ClosedBeyond
<1>2. ASSUME NEW S \in SUBSET exists, ClosedBeyond(S, up, seen \cup {cur})
      PROVE  ClosedBeyond(S \cup {cur}, cur, seen) /\ S \cup {cur} \in SUBSET exists
  BY <1>2 DEF ClosedBeyond
<1> HIDE DEF up
<1>3. Ahead(cur, seen) \subseteq {cur} \cup Ahead(up, seen \cup {cur})
  BY <1>2 DEF Ahead
<1>4. {cur} \cup Ahead(up, seen \cup {cur}) \subseteq Ahead(cur, seen)
  BY <1>1 DEF Ahead
<1> QED BY <1>3, <1>4 DEF up

TagsAhead(cur, seen) == UNION {dept[e].tags : e \in Ahead(cur, seen)}

\* The tags ahead are collected the way department_effective_tags does.
LEMMA TagsAheadClimb ==
  ASSUME NEW cur, NEW seen
  PROVE  TagsAhead(cur, seen) =
           IF cur \notin exists \/ cur \in seen THEN {}
           ELSE dept[cur].tags \cup TagsAhead(dept[cur].parent, seen \cup {cur})
<1>1. CASE cur \notin exists \/ cur \in seen
  BY <1>1, AheadEnds DEF TagsAhead
<1>2. CASE ~(cur \notin exists \/ cur \in seen)
  <2>1. Ahead(cur, seen) = {cur} \cup Ahead(dept[cur].parent, seen \cup {cur})
    BY <1>2, AheadClimbs
  <2>2. UNION {dept[e].tags : e \in {cur} \cup Ahead(dept[cur].parent, seen \cup {cur})}
          = dept[cur].tags
              \cup UNION {dept[e].tags : e \in Ahead(dept[cur].parent, seen \cup {cur})}
    OBVIOUS
  <2> QED BY <1>2, <2>1, <2>2 DEF TagsAhead
<1> QED BY <1>1, <1>2

Walks == Parents \X SUBSET Departments

Collects(above) ==
  \A walk \in Walks :
    above[walk] = IF walk[1] \notin exists \/ walk[1] \in walk[2] THEN {}
                  ELSE dept[walk[1]].tags
                         \cup above[<<dept[walk[1]].parent, walk[2] \cup {walk[1]}>>]

\* The walk ends: each step leaves fewer departments to be seen, so there is only
\* one way to collect the tags.
LEMMA CollectsTagsAhead ==
  ASSUME IsFiniteSet(exists), exists \subseteq Departments, dept \in [Departments -> Rows],
         NEW above, Collects(above), NEW walk \in Walks
  PROVE  above[walk] = TagsAhead(walk[1], walk[2])
<1> DEFINE Unseen(w) == Cardinality(exists \ w[2])
           Wrong == {w \in Walks : above[w] # TagsAhead(w[1], w[2])}
           Sizes == {n \in Nat : \E w \in Wrong : Unseen(w) = n}
<1>1. ASSUME NEW w \in Walks PROVE IsFiniteSet(exists \ w[2]) /\ Unseen(w) \in Nat
  BY FS_Subset, FS_CardinalityType
<1> SUFFICES ASSUME walk \in Wrong PROVE FALSE
  OBVIOUS
<1>2. Sizes # {}
  BY <1>1
<1>3. PICK n \in Sizes : \A m \in Sizes : n <= m
  BY <1>2, LeastElement
<1>4. PICK w \in Wrong : Unseen(w) = n
  BY <1>3
<1> DEFINE cur == w[1]
           up == <<dept[cur].parent, w[2] \cup {cur}>>
<1>5. above[w] = IF cur \notin exists \/ cur \in w[2] THEN {} ELSE dept[cur].tags \cup above[up]
  BY <1>4 DEF Collects
<1>6. TagsAhead(cur, w[2]) = IF cur \notin exists \/ cur \in w[2] THEN {}
                             ELSE dept[cur].tags \cup TagsAhead(up[1], up[2])
  BY TagsAheadClimb
<1>7. cur \in exists \ w[2] /\ above[up] # TagsAhead(up[1], up[2])
  BY <1>4, <1>5, <1>6
<1>8. up \in Wrong
  <2>1. dept[cur].parent \in Parents /\ w[2] \cup {cur} \in SUBSET Departments
    BY <1>4, <1>7 DEF Rows, Walks
  <2> QED BY <1>7, <2>1 DEF Walks
<1>9. Unseen(up) = n - 1
  <2>1. up[2] = w[2] \cup {cur}
    OBVIOUS
  <2>2. exists \ up[2] = (exists \ w[2]) \ {cur}
    BY <2>1
  <2> DEFINE unseen == exists \ w[2]
  <2>3. IsFiniteSet(unseen) /\ cur \in unseen /\ Cardinality(unseen) = n
    BY <1>1, <1>4, <1>7
  <2> HIDE DEF unseen
  <2>4. Cardinality(unseen \ {cur}) = n - 1
    BY <2>3, FS_RemoveElement
  <2> QED BY <2>2, <2>4 DEF unseen
<1>10. Unseen(up) \in Sizes
  BY <1>1, <1>8
<1> HIDE DEF Unseen
<1>11. n - 1 \in Sizes
  BY <1>9, <1>10
<1>12. n \in Nat /\ ~(n <= n - 1)
  BY <1>3
<1> QED BY <1>3, <1>11, <1>12

\* department_effective_tags collects the tags ahead of the department itself.
LEMMA EffectiveTagsAhead ==
  ASSUME IsFiniteSet(exists), exists \subseteq Departments, dept \in [Departments -> Rows],
         NEW d \in exists
  PROVE  EffectiveTags(d) = TagsAhead(d, {})
<1> DEFINE above[walk \in Parents \X SUBSET Departments] ==
             IF walk[1] \notin exists \/ walk[1] \in walk[2] THEN {}
             ELSE dept[walk[1]].tags \cup above[<<dept[walk[1]].parent, walk[2] \cup {walk[1]}>>]
           f == [walk \in Walks |-> TagsAhead(walk[1], walk[2])]
<1>1. EffectiveTags(d) = above[<<d, {}>>]
  BY DEF EffectiveTags
<1>2. ASSUME NEW walk \in Walks
      PROVE f[walk] = IF walk[1] \notin exists \/ walk[1] \in walk[2] THEN {}
             ELSE dept[walk[1]].tags \cup f[<<dept[walk[1]].parent, walk[2] \cup {walk[1]}>>]
  <2>1. CASE walk[1] \notin exists \/ walk[1] \in walk[2]
    BY <2>1, TagsAheadClimb
  <2>2. CASE ~(walk[1] \notin exists \/ walk[1] \in walk[2])
    <3>1. dept[walk[1]].parent \in Parents /\ walk[2] \cup {walk[1]} \in SUBSET Departments
      BY <2>2 DEF Rows, Walks
    <3>2. <<dept[walk[1]].parent, walk[2] \cup {walk[1]}>> \in Walks
      BY <3>1 DEF Walks
    <3> QED BY <2>2, <3>2, TagsAheadClimb
  <2> QED BY <2>1, <2>2
<1>3. f = [walk \in Parents \X SUBSET Departments |->
             IF walk[1] \notin exists \/ walk[1] \in walk[2] THEN {}
             ELSE dept[walk[1]].tags \cup f[<<dept[walk[1]].parent, walk[2] \cup {walk[1]}>>]]
  BY <1>2 DEF Walks
<1>4. above = [walk \in Parents \X SUBSET Departments |->
             IF walk[1] \notin exists \/ walk[1] \in walk[2] THEN {}
             ELSE dept[walk[1]].tags \cup above[<<dept[walk[1]].parent, walk[2] \cup {walk[1]}>>]]
  BY <1>3
<1> HIDE DEF above, f
<1>5. Collects(above)
  BY <1>4 DEF Collects, Walks
<1>6. <<d, {}>> \in Walks
  BY DEF Walks, Parents
<1> QED BY <1>1, <1>5, <1>6, CollectsTagsAhead

\* With nothing seen yet, ahead of a department is the department and its ancestors.
LEMMA LineIsAhead ==
  ASSUME ParentsExist, exists \subseteq Departments, NEW d \in exists
  PROVE  LineOf(d) = Ahead(d, {})
<1>1. ASSUME NEW S \in SUBSET exists PROVE d \in S /\ Closed(S) <=> ClosedBeyond(S, d, {})
  BY NullAssumption DEF Closed, ClosedBeyond, ParentsExist
<1> QED BY <1>1 DEF LineOf, Ahead

\* Tags are right in every well-formed table.
LEMMA TagsAreInherited ==
  ASSUME TypeOK, ParentsExist, IsFiniteSet(exists)
  PROVE  TagsInherited
<1>1. /\ exists \subseteq Departments
      /\ dept \in [Departments -> Rows]
      /\ links \subseteq Accounts \X exists
  BY DEF TypeOK
<1>2. ASSUME NEW d \in exists PROVE EffectiveTags(d) = UNION {dept[e].tags : e \in LineOf(d)}
  BY <1>1, EffectiveTagsAhead, LineIsAhead DEF TagsAhead
<1>3. ASSUME NEW a \in Accounts
      PROVE  GrantedTags(a) =
               {t \in Tags : \E d, e \in exists :
                               <<a, d>> \in links /\ e \in LineOf(d) /\ t \in dept[e].tags}
  <2>1. \A e \in exists : dept[e].tags \subseteq Tags
    BY <1>1 DEF Rows
  <2>2. \A d \in exists : LineOf(d) \subseteq exists
    BY DEF LineOf
  <2>3. ASSUME NEW t
        PROVE  t \in GrantedTags(a)
                 <=> \E d \in exists : <<a, d>> \in links /\ t \in EffectiveTags(d)
    BY DEF GrantedTags
  <2>4. ASSUME NEW t, NEW d \in exists
        PROVE  t \in EffectiveTags(d) <=> \E e \in LineOf(d) : t \in dept[e].tags
    BY <1>2
  <2> HIDE <1>2
  <2> QED BY <2>1, <2>2, <2>3, <2>4
<1> QED BY <1>2, <1>3 DEF TagsInherited

-----------------------------------------------------------------------------
(* _print_department_tree.                                                 *)

\* Every department has its place in an order.
LEMMA OrderLists ==
  ASSUME IsFiniteSet(exists), NEW order \in SetToSeqs(exists)
  PROVE  /\ Cardinality(exists) \in Nat
         /\ order \in [1..Cardinality(exists) -> exists]
         /\ Len(order) = Cardinality(exists)
         /\ \A e \in exists : \E i \in 1..Cardinality(exists) : order[i] = e
<1> DEFINE N == Cardinality(exists)
<1>1. N \in Nat
  BY FS_CardinalityType
<1>2. order \in [1..N -> exists] /\ \A i, j \in 1..N : i # j => order[i] # order[j]
  BY DEF SetToSeqs
<1> HIDE DEF N
<1>3. Len(order) = N
  BY <1>1, <1>2
<1>4. order \in Injection(1..N, exists)
  BY <1>2 DEF Injection, IsInjective
<1>5. IsFiniteSet(1..N) /\ Cardinality(1..N) = N
  BY <1>1, FS_Interval
<1>6. order \in Surjection(1..N, exists)
  BY <1>4, <1>5, FS_Injection DEF N
<1> QED BY <1>1, <1>2, <1>3, <1>6 DEF Surjection, N

\* The first by name of some departments is one of them.
LEMMA FirstIsOne ==
  ASSUME IsFiniteSet(exists), NEW order \in SetToSeqs(exists),
         NEW S \in SUBSET exists, S # {}
  PROVE  FirstOf(S, order) \in S
<1> DEFINE N == Cardinality(exists)
           Places == {i \in 1..N : order[i] \in S}
<1>1. N \in Nat /\ DOMAIN order = 1..N /\ \E i \in 1..N : order[i] \in S
  BY OrderLists
<1> HIDE DEF N
<1>2. PICK i \in Places : \A j \in Places : i <= j
  <2>1. Places \in SUBSET Nat /\ Places # {}
    BY <1>1
  <2> HIDE DEF Places
  <2> QED BY <2>1, LeastElement
<1>3. i \in DOMAIN order /\ order[i] \in S /\ \A j \in 1..(i - 1) : order[j] \notin S
  BY <1>1, <1>2
<1> QED BY <1>3 DEF FirstOf

Trees == [path : Seq(exists), shown : Seq(exists \X Parents)]

\* What holds of a drawing at any time: nothing is shown twice, what the branch
\* passes through is shown, everything below what was left is shown, and
\* everything is shown where it belongs.
WellDrawn(tree) ==
  /\ tree \in Trees
  /\ \A i, j \in DOMAIN tree.shown : i # j => tree.shown[i][1] # tree.shown[j][1]
  /\ \A i \in DOMAIN tree.path : tree.path[i] \in Visited(tree)
  /\ \A e \in exists :
       Above(e) \in Visited(tree) /\ (\A i \in DOMAIN tree.path : tree.path[i] # Above(e))
         => e \in Visited(tree)
  /\ \A i \in DOMAIN tree.shown :
       \/ tree.shown[i][2] = dept[tree.shown[i][1]].parent
       \/ tree.shown[i][2] = NoDepartment /\ ~Forest

Complete(tree) == tree.path = <<>> /\ Visited(tree) = exists

\* n steps drew so many departments and left so many, unless the drawing is complete.
StepsTaken(tree, n) ==
  n = Len(tree.shown) + (Len(tree.shown) - Len(tree.path)) \/ Complete(tree)

\* The departments that may come next are not shown yet; they hang below the tip,
\* or there is a cycle.
LEMMA BranchFits ==
  ASSUME exists \subseteq Departments, ParentsExist,
         NEW tree, WellDrawn(tree), NEW e \in Branches(tree)
  PROVE  /\ e \in exists \ Visited(tree)
         /\ \/ Tip(tree) = dept[e].parent
            \/ Tip(tree) = NoDepartment /\ ~Forest
<1> DEFINE below == {x \in exists \ Visited(tree) : Above(x) = Tip(tree)}
<1>1. e \in exists \ Visited(tree)
  BY DEF Branches
<1>2. CASE e \in below
  <2>1. Above(e) = Tip(tree)
    BY <1>2
  <2>2. dept[e].parent \in exists \cup {NoDepartment}
    BY <1>1 DEF ParentsExist
  <2> QED BY <1>1, <2>1, <2>2 DEF Above
<1>3. CASE e \notin below
  <2>1. tree.path = <<>> /\ below = {}
    BY <1>3 DEF Branches
  <2>2. Tip(tree) = NoDepartment
    BY <2>1 DEF Tip
  <2>3. ASSUME NEW x \in exists \ Visited(tree)
        PROVE  dept[x].parent \in exists \ Visited(tree)
    <3>1. Above(x) # NoDepartment
      BY <2>1, <2>2
    <3>2. dept[x].parent \in exists /\ Above(x) = dept[x].parent
      BY <3>1 DEF Above
    <3>3. Above(x) \notin Visited(tree)
      BY <2>1 DEF WellDrawn
    <3> QED BY <3>2, <3>3
  <2>4. ~Forest
    <3> DEFINE S == exists \ Visited(tree)
    <3>1. S \in SUBSET exists /\ S # {} /\ \A x \in S : dept[x].parent \in S
      BY <1>1, <2>3
    <3> HIDE DEF S
    <3> QED BY <3>1 DEF Forest
  <2> QED BY <1>1, <2>2, <2>4
<1> QED BY <1>1, <1>2, <1>3

\* Showing one more department.
LEMMA ShowOne ==
  ASSUME NEW tree \in Trees, NEW e \in exists, NEW d \in Parents, NEW next \in Trees,
         next.shown = Append(tree.shown, <<e, d>>)
  PROVE  /\ Len(next.shown) = Len(tree.shown) + 1
         /\ DOMAIN next.shown = DOMAIN tree.shown \cup {Len(tree.shown) + 1}
         /\ next.shown[Len(tree.shown) + 1] = <<e, d>>
         /\ \A i \in DOMAIN tree.shown : next.shown[i] = tree.shown[i]
         /\ Visited(next) = Visited(tree) \cup {e}
<1>1. tree.shown \in Seq(exists \X Parents)
  BY DEF Trees
<1>2. /\ Len(next.shown) = Len(tree.shown) + 1
      /\ DOMAIN next.shown = DOMAIN tree.shown \cup {Len(tree.shown) + 1}
      /\ next.shown[Len(tree.shown) + 1] = <<e, d>>
      /\ \A i \in DOMAIN tree.shown : next.shown[i] = tree.shown[i]
  BY <1>1
<1>3. Visited(next) = Visited(tree) \cup {e}
  BY <1>2 DEF Visited
<1> QED BY <1>2, <1>3

\* A step keeps a drawing well drawn, and is one step.
LEMMA DrawBranch ==
  ASSUME IsFiniteSet(exists), exists \subseteq Departments, ParentsExist,
         NEW order \in SetToSeqs(exists), NEW n \in Int,
         NEW tree, WellDrawn(tree), StepsTaken(tree, n), Branches(tree) # {}
  PROVE  WellDrawn(Grown(tree, order)) /\ StepsTaken(Grown(tree, order), n + 1)
<1> DEFINE e == FirstOf(Branches(tree), order)
           next == Grown(tree, order)
<1>1. tree \in Trees /\ tree.path \in Seq(exists) /\ tree.shown \in Seq(exists \X Parents)
  BY DEF WellDrawn, Trees
<1>2. e \in Branches(tree)
  <2>1. Branches(tree) \in SUBSET exists
    BY DEF Branches
  <2> QED BY <2>1, FirstIsOne
<1>3. next = [path |-> Append(tree.path, e), shown |-> Append(tree.shown, <<e, Tip(tree)>>)]
  BY DEF Grown
<1> HIDE DEF e, next
<1>4. /\ e \in exists \ Visited(tree)
      /\ \/ Tip(tree) = dept[e].parent
         \/ Tip(tree) = NoDepartment /\ ~Forest
  BY <1>2, BranchFits
<1>5. Tip(tree) \in Parents
  BY <1>1 DEF Tip, Last, Parents
<1>6. next \in Trees /\ next.path = Append(tree.path, e)
  BY <1>1, <1>3, <1>4, <1>5 DEF Trees
<1>7. next.shown = Append(tree.shown, <<e, Tip(tree)>>)
  BY <1>3
<1>8. /\ Len(next.shown) = Len(tree.shown) + 1
      /\ DOMAIN next.shown = DOMAIN tree.shown \cup {Len(tree.shown) + 1}
      /\ next.shown[Len(tree.shown) + 1] = <<e, Tip(tree)>>
      /\ \A i \in DOMAIN tree.shown : next.shown[i] = tree.shown[i]
      /\ Visited(next) = Visited(tree) \cup {e}
  <2>1. tree \in Trees /\ e \in exists /\ next \in Trees
    BY <1>1, <1>4, <1>6
  <2> QED BY <1>5, <1>7, <2>1, ShowOne
<1>9. /\ Len(next.path) = Len(tree.path) + 1
      /\ DOMAIN next.path = DOMAIN tree.path \cup {Len(tree.path) + 1}
      /\ next.path[Len(tree.path) + 1] = e
      /\ \A i \in DOMAIN tree.path : next.path[i] = tree.path[i]
  BY <1>1, <1>4, <1>6
<1>10. \A i, j \in DOMAIN next.shown : i # j => next.shown[i][1] # next.shown[j][1]
  <2>1. \A i \in DOMAIN tree.shown : tree.shown[i][1] # e
    BY <1>4 DEF Visited
  <2>2. \A i, j \in DOMAIN tree.shown : i # j => tree.shown[i][1] # tree.shown[j][1]
    BY DEF WellDrawn
  <2> QED BY <1>8, <2>1, <2>2
<1>11. \A i \in DOMAIN next.path : next.path[i] \in Visited(next)
  BY <1>8, <1>9 DEF WellDrawn
<1>12. ASSUME NEW x \in exists, Above(x) \in Visited(next),
              \A i \in DOMAIN next.path : next.path[i] # Above(x)
       PROVE  x \in Visited(next)
  <2>1. Above(x) # e /\ \A i \in DOMAIN tree.path : tree.path[i] # Above(x)
    BY <1>9, <1>12
  <2> QED BY <1>8, <1>12, <2>1 DEF WellDrawn
<1>13. ASSUME NEW i \in DOMAIN next.shown
       PROVE  \/ next.shown[i][2] = dept[next.shown[i][1]].parent
              \/ next.shown[i][2] = NoDepartment /\ ~Forest
  BY <1>4, <1>8 DEF WellDrawn
<1>14. WellDrawn(next)
  BY <1>6, <1>10, <1>11, <1>12, <1>13 DEF WellDrawn
<1>15. StepsTaken(next, n + 1)
  <2> DEFINE l == Len(tree.shown)
             m == Len(tree.path)
  <2>1. l \in Nat /\ m \in Nat /\ Len(next.shown) = l + 1 /\ Len(next.path) = m + 1
    BY <1>1, <1>8, <1>9
  <2>2. ~Complete(tree)
    BY <1>4 DEF Complete
  <2>3. n = l + (l - m)
    BY <2>2 DEF StepsTaken
  <2> HIDE DEF l, m
  <2>4. n + 1 = (l + 1) + ((l + 1) - (m + 1))
    BY <2>1, <2>3
  <2> QED BY <2>1, <2>4 DEF StepsTaken
<1> QED BY <1>14, <1>15 DEF next

\* Being done with the tip leaves nothing undrawn below it.
LEMMA LeaveTip ==
  ASSUME exists \subseteq Departments, NEW order, NEW n \in Int,
         NEW tree, WellDrawn(tree), StepsTaken(tree, n),
         Branches(tree) = {}, tree.path # <<>>
  PROVE  WellDrawn(Grown(tree, order)) /\ StepsTaken(Grown(tree, order), n + 1)
<1> DEFINE next == Grown(tree, order)
           m == Len(tree.path)
<1>1. tree \in Trees /\ tree.path \in Seq(exists) /\ tree.shown \in Seq(exists \X Parents)
  BY DEF WellDrawn, Trees
<1>2. next = [tree EXCEPT !.path = Front(tree.path)]
  BY DEF Grown
<1>3. m \in Nat \ {0} /\ DOMAIN tree.path = 1..m
  BY <1>1
<1> HIDE DEF next, m
<1>4. next.shown = tree.shown /\ next.path = SubSeq(tree.path, 1, m - 1)
  BY <1>1, <1>2 DEF Trees, Front, m
<1>5. /\ next.path \in Seq(exists)
      /\ Len(next.path) = m - 1
      /\ DOMAIN next.path = 1..(m - 1)
      /\ \A i \in 1..(m - 1) : next.path[i] = tree.path[i]
  BY <1>1, <1>3, <1>4 DEF m
<1>6. next \in Trees
  BY <1>1, <1>2, <1>4, <1>5 DEF Trees
<1>7. Visited(next) = Visited(tree)
  BY <1>4 DEF Visited
<1>8. Tip(tree) = tree.path[m]
  BY DEF Tip, Last, m
<1>9. \A i \in DOMAIN next.path : next.path[i] \in Visited(next)
  BY <1>3, <1>5, <1>7 DEF WellDrawn
<1>10. ASSUME NEW x \in exists, Above(x) \in Visited(next),
              \A i \in DOMAIN next.path : next.path[i] # Above(x)
       PROVE  x \in Visited(next)
  <2>1. CASE Above(x) = Tip(tree)
    BY <1>7, <2>1 DEF Branches
  <2>2. CASE Above(x) # Tip(tree)
    <3>1. \A i \in DOMAIN tree.path : tree.path[i] # Above(x)
      <4> SUFFICES ASSUME NEW i \in DOMAIN tree.path PROVE tree.path[i] # Above(x)
        OBVIOUS
      <4>1. i = m \/ i \in 1..(m - 1)
        BY <1>3
      <4> QED BY <1>5, <1>8, <1>10, <2>2, <4>1
    <3> QED BY <1>7, <1>10, <3>1 DEF WellDrawn
  <2> QED BY <2>1, <2>2
<1>11. WellDrawn(next)
  BY <1>4, <1>6, <1>9, <1>10 DEF WellDrawn
<1>12. StepsTaken(next, n + 1)
  <2>1. ~Complete(tree)
    BY DEF Complete
  <2> DEFINE l == Len(tree.shown)
  <2>2. l \in Nat /\ Len(next.shown) = l
    BY <1>1, <1>4
  <2>3. n = l + (l - m)
    BY <2>1 DEF StepsTaken, m
  <2> HIDE DEF l
  <2>4. n + 1 = l + (l - (m - 1))
    BY <1>3, <2>2, <2>3
  <2> QED BY <1>5, <2>2, <2>4 DEF StepsTaken
<1> QED BY <1>11, <1>12 DEF next

\* One step of the drawing, whichever it is.
LEMMA GrowStep ==
  ASSUME IsFiniteSet(exists), exists \subseteq Departments, ParentsExist,
         NEW order \in SetToSeqs(exists), NEW n \in Int,
         NEW tree, WellDrawn(tree), StepsTaken(tree, n)
  PROVE  WellDrawn(Grown(tree, order)) /\ StepsTaken(Grown(tree, order), n + 1)
<1>1. CASE Branches(tree) # {}
  BY <1>1, DrawBranch
<1>2. CASE Branches(tree) = {} /\ tree.path # <<>>
  BY <1>2, LeaveTip
<1>3. CASE Branches(tree) = {} /\ tree.path = <<>>
  <2>1. Grown(tree, order) = tree
    BY <1>3 DEF Grown
  <2>2. Visited(tree) \subseteq exists
    BY DEF WellDrawn, Trees, Visited
  <2>3. Complete(tree)
    BY <1>3, <2>2 DEF Complete, Branches
  <2> QED BY <2>1, <2>3 DEF StepsTaken
<1> QED BY <1>1, <1>2, <1>3

\* No department is drawn twice, so that twice as many steps as departments draw all.
LEMMA EndsComplete ==
  ASSUME IsFiniteSet(exists), NEW tree, WellDrawn(tree),
         StepsTaken(tree, Cardinality(exists) + Cardinality(exists))
  PROVE  ShowsEach(tree)
<1> DEFINE f == [i \in DOMAIN tree.shown |-> tree.shown[i][1]]
           len == Len(tree.shown)
           N == Cardinality(exists)
<1>1. /\ tree.path \in Seq(exists) /\ tree.shown \in Seq(exists \X Parents)
      /\ len \in Nat /\ N \in Nat /\ DOMAIN tree.shown = 1..len
      /\ Visited(tree) \subseteq exists
  BY FS_CardinalityType DEF WellDrawn, Trees, Visited
<1>2. IsFiniteSet(1..len) /\ Cardinality(1..len) = len
  <2> HIDE DEF len
  <2> QED BY <1>1, FS_Interval
<1>3. f \in Bijection(1..len, Visited(tree))
  BY <1>1 DEF WellDrawn, Visited, Bijection, Injection, Surjection, IsInjective
<1>4. IsFiniteSet(Visited(tree)) /\ Cardinality(Visited(tree)) = len
  BY <1>2, <1>3, FS_Bijection DEF ExistsBijection
<1>5. len <= N /\ (len = N => Visited(tree) = exists)
  BY <1>1, <1>4, FS_Subset
<1>6. Complete(tree)
  <2> SUFFICES ASSUME ~Complete(tree) PROVE FALSE
    OBVIOUS
  <2> DEFINE m == Len(tree.path)
  <2>1. N + N = len + (len - m)
    BY DEF StepsTaken
  <2>2. m \in Nat
    BY <1>1
  <2>3. len = N /\ m = 0
    <3> HIDE DEF len, m, N
    <3> QED BY <1>1, <1>5, <2>1, <2>2
  <2>4. tree.path = <<>>
    BY <1>1, <2>3
  <2> QED BY <1>5, <2>3, <2>4 DEF Complete
<1>7. len = N
  BY <1>4, <1>6 DEF Complete
<1> QED BY <1>6, <1>7 DEF ShowsEach, Complete, WellDrawn

\* Two steps for each department complete the drawing.
LEMMA DrawingIsComplete ==
  ASSUME IsFiniteSet(exists), exists \subseteq Departments, ParentsExist,
         NEW order \in SetToSeqs(exists)
  PROVE  ShowsEach(Drawing(order))
<1> DEFINE N == Cardinality(exists)
           blank == [path |-> <<>>, shown |-> <<>>]
           Good == {t \in Trees : WellDrawn(t)}
           step == [t \in Good |-> Grown(t, order)]
           grown[n \in 0..(2 * Len(order))] ==
             IF n = 0 THEN blank ELSE Grown(grown[n - 1], order)
<1>1. N \in Nat /\ Len(order) = N /\ 2 * N \in Nat
  BY OrderLists
<1>2. WellDrawn(blank) /\ StepsTaken(blank, 0)
  <2>1. blank \in Trees
    BY DEF Trees
  <2>2. DOMAIN blank.shown = {} /\ DOMAIN blank.path = {} /\ Visited(blank) = {}
    BY DEF Visited
  <2> QED BY <2>1, <2>2 DEF WellDrawn, StepsTaken
<1>3. \A t \in Good : Grown(t, order) \in Good
  <2> SUFFICES ASSUME NEW t \in Good PROVE WellDrawn(Grown(t, order))
    BY DEF WellDrawn
  <2>1. t.shown \in Seq(exists \X Parents) /\ t.path \in Seq(exists)
    BY DEF Trees
  <2> DEFINE n == Len(t.shown) + (Len(t.shown) - Len(t.path))
  <2>2. n \in Int /\ StepsTaken(t, n)
    BY <2>1 DEF StepsTaken
  <2> HIDE DEF n
  <2> QED BY <2>2, GrowStep
<1>4. step \in [Good -> Good] /\ blank \in Good
  BY <1>2, <1>3 DEF WellDrawn
<1> HIDE DEF blank, Good, N
<1>5. PICK f \in [0..(N + N) -> Good] :
         f[0] = blank /\ \A i \in 1..(N + N) : f[i] = step[f[i - 1]]
  <2> DEFINE M == N + N
  <2>1. M \in Nat
    BY <1>1
  <2> HIDE DEF step, grown, M
  <2>2. \E f : Iterates(f, M, Good, blank, step)
    BY <1>4, <2>1, Iteration
  <2> QED BY <2>2 DEF Iterates, M
<1>6. f = [n \in 0..(2 * Len(order)) |-> IF n = 0 THEN blank ELSE Grown(f[n - 1], order)]
  <2>1. 0..(2 * Len(order)) = 0..(N + N)
    BY <1>1
  <2>2. ASSUME NEW i \in 0..(N + N) PROVE f[i] = IF i = 0 THEN blank ELSE Grown(f[i - 1], order)
    <3>1. CASE i = 0
      BY <1>5, <3>1
    <3>2. CASE i # 0
      <4>1. i \in 1..(N + N) /\ i - 1 \in 0..(N + N)
        BY <1>1, <3>2
      <4> QED BY <1>5, <3>2, <4>1
    <3> QED BY <3>1, <3>2
  <2> QED BY <2>1, <2>2
<1>7. grown = [n \in 0..(2 * Len(order)) |-> IF n = 0 THEN blank ELSE Grown(grown[n - 1], order)]
  BY <1>6
<1>8. Drawing(order) = grown[N + N]
  <2>1. 2 * Len(order) = N + N
    BY <1>1
  <2> QED BY <2>1 DEF Drawing, blank
<1> HIDE DEF grown, step
<1> DEFINE Kept == {n \in 0..(N + N) : WellDrawn(grown[n]) /\ StepsTaken(grown[n], n)}
<1>9. 0 \in Kept
  BY <1>1, <1>2, <1>7
<1>10. ASSUME NEW n \in 0..((N + N) - 1), n \in Kept PROVE n + 1 \in Kept
  <2>1. /\ n \in Int /\ n + 1 # 0 /\ (n + 1) - 1 = n
        /\ n + 1 \in 0..(2 * Len(order)) /\ n + 1 \in 0..(N + N)
    BY <1>1
  <2>2. grown[n + 1] = Grown(grown[n], order)
    BY <1>7, <2>1
  <2>3. WellDrawn(Grown(grown[n], order)) /\ StepsTaken(Grown(grown[n], order), n + 1)
    BY <1>10, <2>1, GrowStep
  <2> QED BY <2>1, <2>2, <2>3
<1>11. N + N \in Kept
  <2> HIDE DEF Kept
  <2>1. \A n \in 0..((N + N) - 1) : n \in Kept => n + 1 \in Kept
    BY <1>10
  <2>2. 0 \in Nat /\ N + N \in Nat
    BY <1>1
  <2>3. 0..(N + N) \subseteq Kept
    BY <1>9, <2>1, <2>2, IntervalInduction
  <2> QED BY <2>2, <2>3
<1> QED BY <1>8, <1>11, EndsComplete DEF N

-----------------------------------------------------------------------------
\* There are ever finitely many departments: they are created one by one.
LEMMA FinitelyMany == Spec => []IsFiniteSet(exists)
<1>1. Init => IsFiniteSet(exists)
  BY FS_EmptySet DEF Init
<1>2. ASSUME IsFiniteSet(exists), [Next]_vars PROVE IsFiniteSet(exists)'
  <2>1. exists' = exists \/ (\E d : exists' = exists \cup {d}) \/ (\E d : exists' = exists \ {d})
    BY <1>2 DEF Next, vars, Create, EditTags, MakeRoot, ApiUpdate, WillSave, CheckChildren,
                StartMove, Refuse, Climb, Accept, ParentNotFound, Save, Abort, CheckMembers,
                DeleteDepartment, ApiDelete, RemoveRow, AddMember, RemoveMember
  <2> QED BY <1>2, <2>1, FS_AddElement, FS_RemoveElement
<1> QED BY <1>1, <1>2, PTL DEF Spec

\* Every department has its own tags and those of all its ancestors, and every
\* account those of its departments, although parent links may form cycles.
THEOREM TagsReachAll == Spec => []TagsInherited
<1>1. Inv /\ IsFiniteSet(exists) => TagsInherited
  BY TagsAreInherited DEF Inv
<1> QED BY <1>1, Invariance, FinitelyMany, PTL

\* department-list --tree ends and shows every department once and where it
\* belongs; without a cycle, under its parent.
THEOREM TreeComplete == Spec => []TreeShowsEach
<1>1. Inv /\ IsFiniteSet(exists) => TreeShowsEach
  BY DrawingIsComplete DEF Inv, TypeOK, TreeShowsEach
<1> QED BY <1>1, Invariance, FinitelyMany, PTL
=============================================================================
