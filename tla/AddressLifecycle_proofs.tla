---------------------- MODULE AddressLifecycle_proofs ----------------------
(***************************************************************************)
(* For any number of accounts, networks and concurrent commands: the       *)
(* history never shows two owners of an address, an open span tells the    *)
(* truth, and an ACTIVE account has an address.                            *)
(*                                                                         *)
(* The properties are not inductive: a stale row waiting in a command can  *)
(* undo them.  The strengthening says of every pending row what the        *)
(* properties say of the stored one, relative to the account's span; it is *)
(* kept by every later step because a span only ever closes.               *)
(***************************************************************************)
EXTENDS AddressLifecycle, AddressPool_proofs

\* What holds between an account's row, stored or pending, and its span.
RowAgrees(row, s) ==
  /\ row.address_offset \in {NoOffset, s.address_offset}
  /\ IsOpen(s) => row.address_offset = s.address_offset
  /\ row.status = "ACTIVE" => row.address_offset # NoOffset

\* The unique index of migration 0001.
OneHolderPerOffset ==
  \A a, b \in Accounts :
    SameOffset(a, b) /\ acct[a].address_offset # NoOffset
      => acct[a].address_offset # acct[b].address_offset

RowsAgree ==
  \A a \in Accounts :
    /\ Exists(a) => span[a] # NoSpan
    /\ ~Exists(a) => span[a] = NoSpan
    /\ RowAgrees(acct[a], span[a])

SavesAgree ==
  \A p \in Commands :
    cmd[p].op = "save" =>
      /\ Exists(cmd[p].account)
      /\ cmd[p].row \in Rows
      /\ RowAgrees(cmd[p].row, span[cmd[p].account])

InsertsHaveOffset ==
  \A p \in Commands : cmd[p].op = "insert" => cmd[p].row.address_offset \in Offsets

Inv ==
  /\ TypeOK
  /\ OneHolderPerOffset
  /\ RowsAgree
  /\ SavesAgree
  /\ InsertsHaveOffset
  /\ NeverReallocated

-----------------------------------------------------------------------------
\* The NULL offset is not an offset, and the absent row is not a row.
LEMMA Nulls ==
  /\ NoOffset \notin Offsets
  /\ NoRow \notin Rows
  /\ NoSpan \notin Spans
  /\ Idle.op = "idle"
BY MaxOffsetAssumption DEF NoOffset, Offsets, NoRow, Rows, NoSpan, Spans, Idle, Statuses

\* Nothing is created or running at first.
LEMMA InitInv == Init => Inv
BY NetworkOfAssumption, Nulls
DEF Init, Inv, TypeOK, OneHolderPerOffset, RowsAgree, SavesAgree, InsertsHaveOffset,
    NeverReallocated, SameOffset, RowAgrees, Exists, IsOpen, NoRow, NoSpan, Idle, NoOffset,
    Reasons

\* Starting a command whose pending row agrees with its account's span.
LEMMA StartInv ==
  ASSUME Inv,
         NEW p \in Commands, NEW a \in Accounts, NEW row \in Rows, NEW op \in {"insert", "save"},
         Start(p, op, a, row),
         op = "insert" => row.address_offset \in Offsets,
         op = "save" => Exists(a) /\ RowAgrees(row, span[a])
  PROVE  Inv'
<1> USE DEF Inv, Start
<1>1. TypeOK'
  BY DEF TypeOK, Pending
<1>2. SavesAgree'
  BY Nulls DEF SavesAgree, TypeOK, RowAgrees, Exists, IsOpen
<1>3. InsertsHaveOffset'
  BY Nulls DEF InsertsHaveOffset, TypeOK
<1>4. OneHolderPerOffset' /\ RowsAgree' /\ NeverReallocated'
  BY DEF OneHolderPerOffset, RowsAgree, NeverReallocated, SameOffset, RowAgrees, Exists, IsOpen
<1> QED BY <1>1, <1>2, <1>3, <1>4

\* An insert: the offset has no holder, so no open span is superseded, and the
\* new span agrees with the new row.
LEMMA InsertInv == ASSUME Inv, NEW p \in Commands, InsertAccount(p) PROVE Inv'
<1> DEFINE a == cmd[p].account
           row == cmd[p].row
<1>1. cmd[p] \in Pending /\ a \in Accounts /\ row \in Rows /\ row.address_offset \in Offsets
  BY DEF Inv, TypeOK, InsertAccount, Pending, InsertsHaveOffset
<1>2. acct[a] = NoRow /\ span[a] = NoSpan /\ ~Taken(a, row.address_offset)
  BY <1>1 DEF InsertAccount, NameTaken, Exists, Inv, RowsAgree
<1>3. ASSUME NEW b \in Accounts, b # a, NetworkOf[b] = NetworkOf[a], IsOpen(span[b])
      PROVE  span[b].address_offset # row.address_offset
  BY <1>1, <1>2, <1>3, Nulls DEF Taken, Inv, RowsAgree, RowAgrees
<1>4. /\ acct' = [acct EXCEPT ![a] = row]
      /\ span' = [span EXCEPT ![a] = [address_offset |-> row.address_offset,
                                      release_reason |-> "none"]]
      /\ cmd' = [cmd EXCEPT ![p] = Idle]
      /\ subnets' = subnets
  BY <1>1, <1>3 DEF InsertAccount, Close, Inv, TypeOK
<1> HIDE DEF a, row
<1> USE DEF Inv
<1>5. TypeOK'
  BY <1>1, <1>4 DEF TypeOK, Spans, Reasons
<1>6. OneHolderPerOffset'
  BY <1>1, <1>2, <1>4 DEF OneHolderPerOffset, SameOffset, Taken, TypeOK
<1>7. RowsAgree'
  BY <1>1, <1>4, Nulls DEF RowsAgree, RowAgrees, Exists, IsOpen, TypeOK, NoSpan, NoOffset, Rows
<1>8. SavesAgree'
  BY <1>1, <1>2, <1>4, Nulls DEF SavesAgree, RowAgrees, Exists, IsOpen, TypeOK
<1>9. InsertsHaveOffset' /\ NeverReallocated'
  BY <1>1, <1>4, Nulls DEF InsertsHaveOffset, NeverReallocated, TypeOK
<1> QED BY <1>5, <1>6, <1>7, <1>8, <1>9

\* A stale save: the pending row agrees with the span, whatever happened since
\* it was read.
LEMMA SaveInv == ASSUME Inv, NEW p \in Commands, SaveAccount(p) PROVE Inv'
<1> DEFINE a == cmd[p].account
           row == [cmd[p].row EXCEPT !.aged = FALSE]
<1>1. /\ a \in Accounts
      /\ row \in Rows
      /\ RowAgrees(row, span[a])
      /\ span[a] # NoSpan
      /\ ~Taken(a, row.address_offset)
  BY DEF Inv, TypeOK, SaveAccount, Pending, SavesAgree, RowsAgree, RowAgrees, Rows
<1>2. /\ acct' = [acct EXCEPT ![a] = row]
      /\ cmd' = [cmd EXCEPT ![p] = Idle]
      /\ span' = span /\ subnets' = subnets
  BY DEF SaveAccount
<1> HIDE DEF a, row
<1> USE DEF Inv
<1>3. TypeOK'
  BY <1>1, <1>2 DEF TypeOK
<1>4. OneHolderPerOffset'
  BY <1>1, <1>2 DEF OneHolderPerOffset, SameOffset, Taken, TypeOK
<1>5. RowsAgree'
  BY <1>1, <1>2, Nulls DEF RowsAgree, RowAgrees, Exists, IsOpen, TypeOK
<1>6. SavesAgree'
  BY <1>1, <1>2, Nulls DEF SavesAgree, RowAgrees, Exists, IsOpen, TypeOK
<1>7. InsertsHaveOffset' /\ NeverReallocated'
  BY <1>1, <1>2, Nulls DEF InsertsHaveOffset, NeverReallocated, TypeOK
<1> QED BY <1>3, <1>4, <1>5, <1>6, <1>7

\* account-enable and the passing of time rewrite one row and leave its offset.
LEMMA RewriteInv ==
  ASSUME Inv, NEW a \in Accounts, NEW row \in Rows,
         Exists(a),
         row.address_offset = acct[a].address_offset,
         RowAgrees(row, span[a]),
         acct' = [acct EXCEPT ![a] = row],
         UNCHANGED <<span, subnets, cmd>>
  PROVE  Inv'
<1> USE DEF Inv
<1>1. TypeOK'
  BY DEF TypeOK
<1>2. OneHolderPerOffset'
  BY DEF OneHolderPerOffset, SameOffset, TypeOK
<1>3. RowsAgree'
  BY Nulls DEF RowsAgree, RowAgrees, Exists, IsOpen, TypeOK
<1>4. SavesAgree'
  BY Nulls DEF SavesAgree, RowAgrees, Exists, IsOpen, TypeOK
<1>5. InsertsHaveOffset' /\ NeverReallocated'
  BY DEF InsertsHaveOffset, NeverReallocated
<1> QED BY <1>1, <1>2, <1>3, <1>4, <1>5

\* The scheduler frees offsets of DISABLED rows and closes their spans with them.
LEMMA FreeInv == ASSUME Inv, FreeUnusedOffsets PROVE Inv'
<1> USE DEF Inv
<1>1. ASSUME NEW a \in Accounts, Freeable(a)
      PROVE  /\ acct'[a] = [acct[a] EXCEPT !.address_offset = NoOffset]
             /\ acct[a] \in Rows /\ acct'[a] \in Rows
             /\ span'[a] # NoSpan /\ span'[a] \in Spans
             /\ ~IsOpen(span'[a])
             /\ span'[a].address_offset = span[a].address_offset
             /\ span'[a].release_reason # "reallocated"
  <2>1. acct[a] # NoRow /\ span[a] # NoSpan
    BY <1>1, Nulls DEF Freeable, NoRow, RowsAgree, Exists
  <2>2. acct[a] \in Rows /\ span[a] \in Spans
    BY <2>1 DEF TypeOK
  <2>3. CASE IsOpen(span[a])
    BY <1>1, <2>1, <2>2, <2>3, Nulls DEF FreeUnusedOffsets, Close, Rows, Spans, IsOpen, NoSpan, Reasons
  <2>4. CASE ~IsOpen(span[a])
    BY <1>1, <2>1, <2>2, <2>4, Nulls DEF FreeUnusedOffsets, Close, Rows, Spans, IsOpen, NoSpan, NeverReallocated
  <2> QED BY <2>3, <2>4
<1>2. ASSUME NEW a \in Accounts, ~Freeable(a)
      PROVE  acct'[a] = acct[a] /\ span'[a] = span[a]
  BY <1>2 DEF FreeUnusedOffsets
<1>3. /\ acct' = [a \in Accounts |-> acct'[a]]
      /\ span' = [a \in Accounts |-> span'[a]]
      /\ subnets' = subnets /\ cmd' = cmd
  BY DEF FreeUnusedOffsets
<1>4. TypeOK'
  <2>1. \A a \in Accounts : acct'[a] \in Rows \cup {NoRow} /\ span'[a] \in Spans \cup {NoSpan}
    BY <1>1, <1>2 DEF TypeOK
  <2> QED BY <2>1, <1>3 DEF TypeOK
<1>5. \A a \in Accounts : acct'[a].address_offset \in {NoOffset, acct[a].address_offset}
  BY <1>1, <1>2 DEF Rows
<1>6. OneHolderPerOffset'
  BY <1>5 DEF OneHolderPerOffset, SameOffset
<1>7. \A a \in Accounts :
        /\ (acct'[a] = NoRow) = (acct[a] = NoRow)
        /\ (span'[a] = NoSpan) = (span[a] = NoSpan)
        /\ span'[a].address_offset = span[a].address_offset
        /\ IsOpen(span'[a]) => IsOpen(span[a]) /\ acct'[a] = acct[a]
  <2> TAKE a \in Accounts
  <2>1. CASE Freeable(a)
    BY <1>1, <2>1, Nulls DEF Freeable, NoRow, RowsAgree, Exists
  <2>2. CASE ~Freeable(a)
    BY <1>2, <2>2
  <2> QED BY <2>1, <2>2
<1>8. \A a \in Accounts : acct'[a].status = "ACTIVE" => acct'[a] = acct[a]
  BY <1>1, <1>2 DEF Freeable, Rows
<1>9. RowsAgree'
  <2> SUFFICES ASSUME NEW a \in Accounts
               PROVE  /\ acct'[a] # NoRow => span'[a] # NoSpan
                      /\ acct'[a] = NoRow => span'[a] = NoSpan
                      /\ RowAgrees(acct'[a], span'[a])
    BY DEF RowsAgree, Exists, RowAgrees, IsOpen
  <2> QED BY <1>5, <1>7, <1>8 DEF RowsAgree, RowAgrees, Exists
<1>10. SavesAgree'
  <2> SUFFICES ASSUME NEW p \in Commands, cmd[p].op = "save"
               PROVE  /\ acct'[cmd[p].account] # NoRow
                      /\ cmd[p].row \in Rows
                      /\ RowAgrees(cmd[p].row, span'[cmd[p].account])
    BY <1>3 DEF SavesAgree, Exists, RowAgrees, IsOpen
  <2>1. cmd[p].account \in Accounts
    BY Nulls DEF TypeOK, Pending
  <2> QED BY <2>1, <1>7 DEF SavesAgree, RowAgrees, Exists
<1>11. InsertsHaveOffset' /\ NeverReallocated'
  BY <1>1, <1>2, <1>3 DEF InsertsHaveOffset, NeverReallocated
<1> QED BY <1>4, <1>6, <1>9, <1>10, <1>11

\* One case per action of Next, and the stuttering step.
LEMMA NextInv == Inv /\ [Next]_vars => Inv'
<1> SUFFICES ASSUME Inv, [Next]_vars PROVE Inv'
  OBVIOUS
<1>1. ASSUME NEW p \in Commands, NEW a \in Accounts,
             AllocateOffset(p, a) \/ RequestOffset(p, a)
      PROVE  Inv'
  <2>1. PICK o \in Offsets, st \in Statuses :
          Start(p, "insert", a, [status |-> st, address_offset |-> o, aged |-> FALSE])
    BY <1>1 DEF AllocateOffset, Unused, RequestOffset, Statuses
  <2>2. [status |-> st, address_offset |-> o, aged |-> FALSE] \in Rows
    BY DEF Rows
  <2> QED BY <2>1, <2>2, StartInv
<1>2. ASSUME NEW p \in Commands, NEW a \in Accounts, ReadForDisable(p, a)
      PROVE  Inv'
  <2> DEFINE row == [acct[a] EXCEPT !.status = "DISABLED"]
  <2>1. Exists(a) /\ acct[a].status = "ACTIVE" /\ Start(p, "save", a, row)
    BY <1>2 DEF ReadForDisable
  <2>2. acct[a] \in Rows /\ RowAgrees(acct[a], span[a])
    BY <2>1 DEF Inv, TypeOK, RowsAgree, Exists
  <2>3. row \in Rows /\ RowAgrees(row, span[a])
    BY <2>2 DEF Rows, Statuses, RowAgrees
  <2> HIDE DEF row
  <2> QED BY <2>1, <2>3, StartInv
<1>3. ASSUME NEW p \in Commands, NEW a \in Accounts, ReadForEdit(p, a)
      PROVE  Inv'
  <2>1. Exists(a) /\ Start(p, "save", a, acct[a])
    BY <1>3 DEF ReadForEdit
  <2>2. acct[a] \in Rows /\ RowAgrees(acct[a], span[a])
    BY <2>1 DEF Inv, TypeOK, RowsAgree, Exists
  <2> QED BY <2>1, <2>2, StartInv
<1>4. ASSUME NEW p \in Commands, Abort(p) PROVE Inv'
  <2> USE <1>4 DEF Inv, Abort
  <2>1. TypeOK'
    BY DEF TypeOK
  <2>2. SavesAgree' /\ InsertsHaveOffset'
    BY Nulls DEF SavesAgree, InsertsHaveOffset, TypeOK, RowAgrees, Exists, IsOpen
  <2>3. OneHolderPerOffset' /\ RowsAgree' /\ NeverReallocated'
    BY DEF OneHolderPerOffset, RowsAgree, NeverReallocated, SameOffset, RowAgrees,
           Exists, IsOpen
  <2> QED BY <2>1, <2>2, <2>3
<1>5. ASSUME NEW a \in Accounts, EnableAccount(a) PROVE Inv'
  <2> DEFINE row == [status |-> "ACTIVE", address_offset |-> acct[a].address_offset,
                     aged |-> FALSE]
  <2>1. Exists(a) /\ acct[a] \in Rows /\ RowAgrees(acct[a], span[a])
    BY <1>5 DEF EnableAccount, Exists, NoRow, Inv, TypeOK, RowsAgree
  <2>2. row \in Rows /\ RowAgrees(row, span[a])
    BY <1>5, <2>1 DEF EnableAccount, StillHeld, Rows, Statuses, RowAgrees
  <2>3. /\ acct' = [acct EXCEPT ![a] = row]
        /\ UNCHANGED <<span, subnets, cmd>>
    BY <1>5 DEF EnableAccount
  <2>4. row.address_offset = acct[a].address_offset
    OBVIOUS
  <2> HIDE DEF row
  <2> QED BY <2>1, <2>2, <2>3, <2>4, RewriteInv
<1>6. ASSUME NEW a \in Accounts, GrowOld(a) PROVE Inv'
  <2> DEFINE row == [acct[a] EXCEPT !.aged = TRUE]
  <2>1. Exists(a) /\ acct[a] \in Rows /\ RowAgrees(acct[a], span[a])
    BY <1>6 DEF GrowOld, Exists, NoRow, Inv, TypeOK, RowsAgree
  <2>2. /\ row \in Rows
        /\ row.address_offset = acct[a].address_offset
        /\ RowAgrees(row, span[a])
    BY <2>1 DEF Rows, RowAgrees
  <2>3. /\ acct' = [acct EXCEPT ![a] = row]
        /\ UNCHANGED <<span, subnets, cmd>>
    BY <1>6 DEF GrowOld
  <2> HIDE DEF row
  <2> QED BY <2>1, <2>2, <2>3, RewriteInv
<1>7. ASSUME NEW n \in Networks, ChangeSubnets(n) PROVE Inv'
  <2>1. TypeOK'
    BY <1>7 DEF ChangeSubnets, Inv, TypeOK
  <2> QED BY <1>7, <2>1 DEF ChangeSubnets, Inv, OneHolderPerOffset, RowsAgree, SavesAgree,
             InsertsHaveOffset, NeverReallocated, SameOffset, RowAgrees, Exists, IsOpen
<1>8. CASE UNCHANGED vars
  BY <1>8 DEF vars, Inv, TypeOK, OneHolderPerOffset, RowsAgree, SavesAgree, InsertsHaveOffset,
              NeverReallocated, SameOffset, RowAgrees, Exists, IsOpen
<1> QED
  BY <1>1, <1>2, <1>3, <1>4, <1>5, <1>6, <1>7, <1>8, InsertInv, SaveInv, FreeInv DEF Next

\* The inductive invariant holds in every reachable state: rows, spans and the
\* stale rows that commands are about to write back agree on who owns an offset.
THEOREM Invariance == Spec => []Inv
<1> QED BY InitInv, NextInv, PTL DEF Spec

\* Every table row and every pending write keeps its shape.
THEOREM TypeCorrect == Spec => []TypeOK
<1>1. Inv => TypeOK
  BY DEF Inv
<1> QED BY <1>1, Invariance, PTL

\* No interleaving leaves the span of an account open that does not hold the
\* offset (models.py: the "trail stays truthful").
THEOREM OpenSpansTruthful == Spec => []OpenSpanHasOwner
<1>1. Inv => OpenSpanHasOwner
  BY DEF Inv, RowsAgree, RowAgrees, OpenSpanHasOwner
<1> QED BY <1>1, Invariance, PTL

\* An address never has two open spans (_open_address_allocation: "this offset
\* never shows two concurrent owners").
THEOREM OneOwnerInTrail == Spec => []OneOpenSpanPerOffset
<1>1. Inv => OneOpenSpanPerOffset
  <2> SUFFICES ASSUME Inv, NEW a \in Accounts, NEW b \in Accounts,
                      SameOffset(a, b), IsOpen(span[a]), IsOpen(span[b])
               PROVE  span[a].address_offset # span[b].address_offset
    BY DEF OneOpenSpanPerOffset
  <2>1. /\ acct[a].address_offset = span[a].address_offset
        /\ acct[b].address_offset = span[b].address_offset
    BY DEF Inv, RowsAgree, RowAgrees
  <2>2. span[a].address_offset # NoOffset
    BY Nulls DEF Inv, TypeOK, IsOpen, Spans
  <2> QED BY <2>1, <2>2 DEF Inv, OneHolderPerOffset
<1> QED BY <1>1, Invariance, PTL

\* The defensive close of _open_address_allocation is never needed.
THEOREM DefensiveCloseUnneeded == Spec => []NeverReallocated
<1>1. Inv => NeverReallocated
  BY DEF Inv
<1> QED BY <1>1, Invariance, PTL

\* Whole-row writes from unlocked reads never leave an ACTIVE account without
\* an address, nor with another one than its span records.
THEOREM ActiveAddressed == Spec => []ActiveHasOffset
<1>1. Inv => ActiveHasOffset
  BY DEF Inv, RowsAgree, RowAgrees, ActiveHasOffset
<1> QED BY <1>1, Invariance, PTL

\* An account that holds an offset holds the one its span records.
THEOREM AddressNeverMoves == Spec => []OffsetOnlyOwn
<1>1. Inv => OffsetOnlyOwn
  BY DEF Inv, RowsAgree, RowAgrees, OffsetOnlyOwn
<1> QED BY <1>1, Invariance, PTL

-----------------------------------------------------------------------------
\* Offsets of a network that are different are different addresses, if they are
\* addresses at all.
LEMMA AddressesDiffer ==
  ASSUME Inv, NEW n \in Networks, NEW o \in Offsets, NEW q \in Offsets, o # q,
         AddressAt(n, o) # NoAddress
  PROVE  AddressAt(n, o) # AddressAt(n, q)
<1> DEFINE pool == subnets[n]
<1>1. pool \in SubnetLists /\ IsPool(pool)
  BY SubnetListsAssumption DEF Inv, TypeOK
<1>2. AddressAt(n, o) = IpForOffset(pool, o) /\ AddressAt(n, q) = IpForOffset(pool, q)
  BY <1>1 DEF AddressAt, Addresses
<1> HIDE DEF pool
<1>3. PICK slots : CountsSlots(slots, pool) /\ LastOffset(pool) = 1 + slots[Len(pool)]
  BY <1>1, LastOffsetCounts
<1>4. LastOffset(pool) \in Int /\ o \in Int /\ q \in Int /\ o >= 2 /\ q >= 2
  BY <1>1, <1>3, PoolIndices, MaxOffsetAssumption DEF CountsSlots, Offsets
<1>5. o \in 2..LastOffset(pool)
  BY <1>1, <1>2, <1>3, <1>4, WalkPasses
<1>6. CASE q \in 2..LastOffset(pool)
  BY <1>1, <1>2, <1>5, <1>6, IpInjective
<1>7. CASE q \notin 2..LastOffset(pool)
  BY <1>1, <1>2, <1>3, <1>4, <1>7, WalkPasses
<1> QED BY <1>6, <1>7

\* No two accounts that hold offsets of one network have the same address
\* (Network.ip_for_offset behind the unique index of migration 0001), whatever
\* its subnets are by then.
THEOREM NoSharedAddress == Spec => []AddressesDistinct
<1>1. Inv => AddressesDistinct
  <2> SUFFICES ASSUME Inv, NEW a \in Accounts, NEW b \in Accounts, SameOffset(a, b),
                      acct[a].address_offset # NoOffset,
                      acct[b].address_offset # NoOffset,
                      AddressAt(NetworkOf[a], acct[a].address_offset) # NoAddress
               PROVE  AddressAt(NetworkOf[a], acct[a].address_offset)
                        # AddressAt(NetworkOf[b], acct[b].address_offset)
    BY DEF AddressesDistinct
  <2>1. /\ NetworkOf[a] \in Networks /\ NetworkOf[b] = NetworkOf[a]
        /\ acct[a].address_offset # acct[b].address_offset
    BY NetworkOfAssumption DEF SameOffset, Inv, OneHolderPerOffset
  <2>2. acct[a].address_offset \in Offsets /\ acct[b].address_offset \in Offsets
    BY DEF Inv, TypeOK, Rows, NoRow
  <2> QED BY <2>1, <2>2, AddressesDiffer
<1> QED BY <1>1, Invariance, PTL

\* Whatever subnets come and go, ip_for_offset and max_offset number the client
\* addresses a network then has.
THEOREM AlwaysNumbered == Spec => []PoolsNumbered
<1>1. Inv => PoolsNumbered
  BY SubnetListsAssumption, PoolNumbered DEF Inv, TypeOK, PoolsNumbered, Numbered
<1> QED BY <1>1, Invariance, PTL
=============================================================================
