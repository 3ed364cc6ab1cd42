--------------------------- MODULE DepartmentTree ---------------------------
(***************************************************************************)
(* What is computed from one SELECT of the departments: the tags each of   *)
(* them hands to its members, and the tree department-list --tree draws.   *)
(* Both follow parent links, must survive cycles, and are compared with    *)
(* definitions that follow none.                                           *)
(***************************************************************************)
EXTENDS Departments, Integers, SequencesExt

-----------------------------------------------------------------------------
(* department_effective_tags and department_granted_tags.                  *)

\* Mutant: inheritance stops at the parent.
EffectiveTagsOfTwo(d) ==
  dept[d].tags \cup (IF dept[d].parent \in exists THEN dept[dept[d].parent].tags ELSE {})

\* From d upwards until a root, a missing row, or a department seen before.
EffectiveTags(d) ==
  LET above[walk \in Parents \X SUBSET Departments] ==
        LET cur == walk[1]
            seen == walk[2]
        IN  IF cur \notin exists \/ cur \in seen THEN {}
            ELSE dept[cur].tags \cup above[<<dept[cur].parent, seen \cup {cur}>>]
  IN  above[<<d, {}>>]

GrantedTags(a) == UNION {EffectiveTags(d) : d \in {e \in exists : <<a, e>> \in links}}

\* d and its ancestors: what every closed set with d has in common.
LineOf(d) == {e \in exists : \A S \in SUBSET exists : d \in S /\ Closed(S) => e \in S}

-----------------------------------------------------------------------------
(* _print_department_tree.  A tree is drawn as [path, shown]: path is the  *)
(* branch being drawn, from its root to its tip, and shown what has been   *)
(* drawn, as pairs <<department, the one it hangs below>>.                 *)

\* _department_children: one whose parent is missing is a root.
Above(e) == IF dept[e].parent \in exists THEN dept[e].parent ELSE NoDepartment

Visited(tree) == {tree.shown[i][1] : i \in DOMAIN tree.shown}
Tip(tree) == IF tree.path = <<>> THEN NoDepartment ELSE Last(tree.path)

\* Mutant: only true roots start a tree.
BranchesAtRoots(tree) == {e \in exists \ Visited(tree) : Above(e) = Tip(tree)}

\* What may be drawn next: what hangs below the tip and is not visited; once all
\* roots are drawn, whatever is unvisited, on a cycle or below one (each_root).
Branches(tree) ==
  LET below == {e \in exists \ Visited(tree) : Above(e) = Tip(tree)}
  IN  IF tree.path = <<>> /\ below = {} THEN exists \ Visited(tree) ELSE below

\* The first of S by name.
FirstOf(S, order) ==
  order[CHOOSE i \in DOMAIN order : order[i] \in S /\ \A j \in 1..(i - 1) : order[j] \notin S]

\* _add_department_branch, _department_node_dict: draws the next branch, or is
\* done with the tip.
Grown(tree, order) ==
  IF Branches(tree) # {} THEN
    LET e == FirstOf(Branches(tree), order)
    IN  [path |-> Append(tree.path, e), shown |-> Append(tree.shown, <<e, Tip(tree)>>)]
  ELSE IF tree.path # <<>> THEN [tree EXCEPT !.path = Front(tree.path)]
  ELSE tree

\* The whole drawing of the departments, which order lists by name: each of them
\* is drawn once and done with once.
Drawing(order) ==
  LET grown[n \in 0..(2 * Len(order))] ==
        IF n = 0 THEN [path |-> <<>>, shown |-> <<>>] ELSE Grown(grown[n - 1], order)
  IN  grown[2 * Len(order)]

-----------------------------------------------------------------------------
(* Properties, of every table the commands can leave.                      *)

\* No command is running: the tables are all there is.
Quiet == \A k \in Commands : cmd[k].pc = "idle"

\* A department has its own tags and those of all its ancestors, and an account
\* those of its departments, be there a cycle or not.
TagsInherited ==
  Quiet =>
    /\ \A d \in exists : EffectiveTags(d) = UNION {dept[e].tags : e \in LineOf(d)}
    /\ \A a \in Accounts :
         GrantedTags(a) =
           {t \in Tags : \E d, e \in exists :
                           <<a, d>> \in links /\ e \in LineOf(d) /\ t \in dept[e].tags}

\* The drawing comes to its end, and then shows every department exactly once,
\* below its parent or as a root, and as a root only if it has no parent or there
\* is a cycle.
ShowsEach(tree) ==
  /\ tree.path = <<>>
  /\ Len(tree.shown) = Cardinality(exists)
  /\ Visited(tree) = exists
  /\ \A i \in DOMAIN tree.shown :
       \/ tree.shown[i][2] = dept[tree.shown[i][1]].parent
       \/ tree.shown[i][2] = NoDepartment /\ ~Forest

TreeShowsEach == Quiet => \A order \in SetToSeqs(exists) : ShowsEach(Drawing(order))
=============================================================================
