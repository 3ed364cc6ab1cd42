--------------------------- MODULE MCServerAgent ---------------------------
(***************************************************************************)
(* One account that reaches one service through one department.  The       *)
(* service is inserted; account, service and department are updated;       *)
(* service, department and membership are deleted.                         *)
(***************************************************************************)
EXTENDS ServerAgent, TLC

CONSTANTS a1, s1, d1, l1

MCAccounts == {a1}
MCServices == {s1}
MCDepartments == {d1}
MCLinks == {l1}
MCLinkOf == (l1 :> <<a1, d1>>)

T == "t"
MCAccountRows ==
  {[status |-> "ACTIVE", access |-> "RESTRICTED", tags |-> {}],
   [status |-> "ACTIVE", access |-> "ALL", tags |-> {T}],
   [status |-> "DISABLED", access |-> "RESTRICTED", tags |-> {T}]}
MCServiceRows == {[tags |-> {T}, domains |-> d] : d \in BOOLEAN}
MCDepartmentRows == {[tags |-> {T}], [tags |-> {}]}

\* The account has its membership and waits for the service.
MCInitialRows ==
  {(a1 :> [status |-> "ACTIVE", access |-> "RESTRICTED", tags |-> {}])
     @@ (s1 :> NotYet)
     @@ (d1 :> [tags |-> {T}])
     @@ (l1 :> "member")}
=============================================================================
