-------------------------- MODULE AddressLifecycle --------------------------
(***************************************************************************)
(* The life of a client address: an account is created with an address     *)
(* offset of its network, is disabled, is re-enabled while it still holds  *)
(* the offset, and loses it to the scheduler once it has been disabled for *)
(* offset_days.  Every ownership of an offset is recorded as a span of the *)
(* history table address_allocations.                                      *)
(*                                                                         *)
(* Command-line tools, the user API and the scheduler share PostgreSQL and *)
(* nothing else.  A command that changes an account reads its row without  *)
(* a lock and later writes the whole row back, so other transactions may   *)
(* commit in between; account-enable re-reads under a row lock and is one  *)
(* step.  A transaction becomes visible when it commits, so its writes are *)
(* one step, taken only if the unique index lets it commit.                *)
(***************************************************************************)
EXTENDS AddressPool, FiniteSets

CONSTANTS
  Accounts,     \* account rows that may ever be created (no command deletes one)
  Networks,     \* networks (subnet pools)
  NetworkOf,    \* the network an account belongs to, fixed at its creation
  Commands,     \* concurrently running CLI/API invocations
  MaxOffset,    \* upper bound of the address_offset column (4096 in the code)
  SubnetLists   \* what Network.subnets may be as subnets come and go

ASSUME NetworkOfAssumption == NetworkOf \in [Accounts -> Networks]
ASSUME MaxOffsetAssumption == MaxOffset \in Nat
ASSUME SubnetListsAssumption == \A list \in SubnetLists : IsPool(list)

VARIABLES
  acct,         \* table accounts
  span,         \* table address_allocations
  subnets,      \* Network.subnets of each network
  cmd           \* what each running command read and is about to write

vars == <<acct, span, subnets, cmd>>

-----------------------------------------------------------------------------
(* Tables.  Offset 1 is the VPN server's; 0 stands for SQL NULL.           *)

Offsets == 2..MaxOffset
NoOffset == 0

\* What the addresses of a network are, one entry per list of subnets.
LastOffsets == [list \in SubnetLists |-> LastOffset(list)]
Addresses == [list \in SubnetLists |-> [o \in Offsets |-> IpForOffset(list, o)]]

MaxOffsetOf(n) == LastOffsets[subnets[n]]
AddressAt(n, o) == Addresses[subnets[n]][o]

Statuses == {"ACTIVE", "DISABLED"}

\* The columns of an account that decide who owns an address.  aged: its
\* updated_at is more than offset_days old.
Rows == [status : Statuses, address_offset : Offsets \cup {NoOffset}, aged : BOOLEAN]

\* No account with this identity has been created yet.
NoRow == [status |-> "absent", address_offset |-> NoOffset, aged |-> FALSE]

Exists(a) == acct[a] # NoRow

\* An account is inserted once and only an insert opens a span, so an account
\* has at most one span.
Reasons == {"none", "scheduler_cleanup", "reallocated"}
Spans == [address_offset : Offsets, release_reason : Reasons]
NoSpan == [address_offset |-> NoOffset, release_reason |-> "none"]

IsOpen(s) == s # NoSpan /\ s.release_reason = "none"

\* Mutant: spans are never closed.
CloseNothing(s, reason) == s

\* AddressAllocation._close, which skips a span that is closed already.
Close(s, reason) == IF IsOpen(s) THEN [s EXCEPT !.release_reason = reason] ELSE s

Idle == [op |-> "idle"]
Pending == [op : {"insert", "save"}, account : Accounts, row : Rows]

\* Mutant: no unique index on (network, address_offset).
TakenNever(a, o) == FALSE

\* Another account of a's network holds offset o: the unique index on
\* (network, address_offset) refuses to store it for a.
Taken(a, o) ==
  /\ o # NoOffset
  /\ \E b \in Accounts \ {a} :
        NetworkOf[b] = NetworkOf[a] /\ acct[b].address_offset = o

\* Mutant: no unique constraint on account_name.
NameTakenNever(a) == FALSE

\* An account with a's name is stored: the insert of another one conflicts.
NameTaken(a) == Exists(a)

\* Mutant: the series starts at the server's own offset.
UnusedFromServer(a) == {o \in 1..MaxOffsetOf(NetworkOf[a]) : ~Taken(a, o)}

\* What allocate_address_offset may return: any unused offset of the network.
\* One beyond the column's bound makes the assignment raise.
Unused(a) == {o \in Offsets : o <= MaxOffsetOf(NetworkOf[a]) /\ ~Taken(a, o)}

-----------------------------------------------------------------------------
Init ==
  /\ acct = [a \in Accounts |-> NoRow]
  /\ span = [a \in Accounts |-> NoSpan]
  /\ subnets \in [Networks -> SubnetLists]
  /\ cmd = [p \in Commands |-> Idle]

Start(p, op, a, row) ==
  /\ cmd[p] = Idle
  /\ cmd' = [cmd EXCEPT ![p] = [op |-> op, account |-> a, row |-> row]]
  /\ UNCHANGED <<acct, span, subnets>>

\* Account() without an offset asks allocate_address_offset for one.  The
\* insert resolves it on the Network object read here, so it cannot fail there.
AllocateOffset(p, a) ==
  /\ ~NameTaken(a)
  /\ \E o \in Unused(a) :
        Start(p, "insert", a, [status |-> "ACTIVE", address_offset |-> o, aged |-> FALSE])

\* POST /v1/accounts/ may name the offset and the status itself; an offset the
\* network cannot resolve makes the insert raise, which is Abort.
RequestOffset(p, a) ==
  /\ ~NameTaken(a)
  /\ \E o \in Offsets, st \in Statuses :
        /\ AddressAt(NetworkOf[a], o) # NoAddress
        /\ Start(p, "insert", a,
                 [status |-> st, address_offset |-> o, aged |-> FALSE])

\* Account.insert and _open_address_allocation, committed together: the row,
\* the closing of whatever span is still open on the offset, the new span.
InsertAccount(p) ==
  LET a == cmd[p].account
      row == cmd[p].row
      OnOffset(b) == /\ NetworkOf[b] = NetworkOf[a]
                     /\ span[b].address_offset = row.address_offset
  IN /\ cmd[p] # Idle /\ cmd[p].op = "insert"
     /\ ~NameTaken(a)
     /\ ~Taken(a, row.address_offset)
     /\ acct' = [acct EXCEPT ![a] = row]
     /\ span' = [b \in Accounts |->
                   IF b = a
                     THEN [address_offset |-> row.address_offset,
                           release_reason |-> "none"]
                   ELSE IF OnOffset(b) THEN Close(span[b], "reallocated") ELSE span[b]]
     /\ cmd' = [cmd EXCEPT ![p] = Idle]
     /\ UNCHANGED subnets

\* account-disable reads the row; the assignment is dirty only on an ACTIVE one.
ReadForDisable(p, a) ==
  /\ Exists(a)
  /\ acct[a].status = "ACTIVE"
  /\ Start(p, "save", a, [acct[a] EXCEPT !.status = "DISABLED"])

\* Every command that changes another column (tags, access type, PIN, OTP
\* requirement, full reset) reads the row, possibly waits for the operator to
\* confirm, and writes it back with status and address_offset as it read them.
ReadForEdit(p, a) ==
  /\ Exists(a)
  /\ Start(p, "save", a, acct[a])

\* save(): UPDATE of every column, updated_at stamped now.  The unique index
\* refuses an offset that meanwhile belongs to another account.
SaveAccount(p) ==
  LET a == cmd[p].account
      row == cmd[p].row
  IN /\ cmd[p] # Idle /\ cmd[p].op = "save"
     /\ ~Taken(a, row.address_offset)
     /\ acct' = [acct EXCEPT ![a] = [row EXCEPT !.aged = FALSE]]
     /\ cmd' = [cmd EXCEPT ![p] = Idle]
     /\ UNCHANGED <<span, subnets>>

\* The transaction rolls back: a unique index was violated, the operator
\* declined, the process was interrupted, or another exception was raised.
Abort(p) ==
  /\ cmd[p] # Idle
  /\ cmd' = [cmd EXCEPT ![p] = Idle]
  /\ UNCHANGED <<acct, span, subnets>>

\* Mutant: account-enable does not look at the offset.
StillHeldAlways(a) == TRUE

\* account-enable's check that the scheduler has not freed the offset.
StillHeld(a) == acct[a].address_offset # NoOffset

\* account-enable: re-read under a row lock, refuse when the offset is gone.
EnableAccount(a) ==
  /\ acct[a].status = "DISABLED"
  /\ StillHeld(a)
  /\ acct' = [acct EXCEPT ![a] = [status |-> "ACTIVE", aged |-> FALSE,
                                  address_offset |-> acct[a].address_offset]]
  /\ UNCHANGED <<span, subnets, cmd>>

\* SchedulerService._iteration: one transaction frees the offset of every
\* account disabled for long enough and closes its span.
Freeable(a) ==
  /\ acct[a].status = "DISABLED"
  /\ acct[a].address_offset # NoOffset
  /\ acct[a].aged

FreeUnusedOffsets ==
  /\ \E a \in Accounts : Freeable(a)
  /\ acct' = [a \in Accounts |->
                IF Freeable(a) THEN [acct[a] EXCEPT !.address_offset = NoOffset]
                ELSE acct[a]]
  /\ span' = [a \in Accounts |->
                IF Freeable(a) THEN Close(span[a], "scheduler_cleanup") ELSE span[a]]
  /\ UNCHANGED <<subnets, cmd>>

\* offset_days pass without a write to the row.
GrowOld(a) ==
  /\ acct[a].status = "DISABLED"
  /\ ~acct[a].aged
  /\ acct' = [acct EXCEPT ![a] = [acct[a] EXCEPT !.aged = TRUE]]
  /\ UNCHANGED <<span, subnets, cmd>>

\* network-add-subnet, network-remove-subnet, PUT /v1/networks/.  Lists with
\* overlapping subnets, and the empty one, are left out (SubnetListsAssumption):
\* network-add-subnet refuses only a subnet already in the list, and
\* network-remove-subnet may take the last one, after which no offset resolves.
ChangeSubnets(n) ==
  /\ \E list \in SubnetLists \ {subnets[n]} : subnets' = [subnets EXCEPT ![n] = list]
  /\ UNCHANGED <<acct, span, cmd>>

Next ==
  \/ \E p \in Commands, a \in Accounts :
        \/ AllocateOffset(p, a)
        \/ RequestOffset(p, a)
        \/ ReadForDisable(p, a)
        \/ ReadForEdit(p, a)
  \/ \E p \in Commands :
        \/ InsertAccount(p)
        \/ SaveAccount(p)
        \/ Abort(p)
  \/ \E a \in Accounts :
        \/ EnableAccount(a)
        \/ GrowOld(a)
  \/ FreeUnusedOffsets
  \/ \E n \in Networks : ChangeSubnets(n)

Spec == Init /\ [][Next]_vars

-----------------------------------------------------------------------------
(* Properties.                                                             *)

\* Every table row and every pending write has its shape.
TypeOK ==
  /\ acct \in [Accounts -> Rows \cup {NoRow}]
  /\ span \in [Accounts -> Spans \cup {NoSpan}]
  /\ subnets \in [Networks -> SubnetLists]
  /\ cmd \in [Commands -> Pending \cup {Idle}]

SameOffset(a, b) ==
  /\ a # b
  /\ NetworkOf[a] = NetworkOf[b]

\* However the scheduler, creations and stale whole-row writes interleave, no
\* two open spans of the history name the same offset of the same network: the
\* trail never shows two concurrent owners of an address.
OneOpenSpanPerOffset ==
  \A a, b \in Accounts :
    SameOffset(a, b) /\ IsOpen(span[a]) /\ IsOpen(span[b])
      => span[a].address_offset # span[b].address_offset

\* An open span tells the truth: the account it names holds that offset now.
\* In particular a stale write that drops an offset can never leave its span
\* open behind.
OpenSpanHasOwner ==
  \A a \in Accounts :
    IsOpen(span[a]) => acct[a].address_offset = span[a].address_offset

\* The defensive close of _open_address_allocation never finds anything to
\* close: no legal run ends a span as "reallocated".
NeverReallocated ==
  \A a \in Accounts : span[a].release_reason # "reallocated"

\* An ACTIVE account has an address, although rows are written back whole from
\* unlocked reads: the state account-enable refuses to create is not created
\* by any other pair of commands and the scheduler either.
ActiveHasOffset ==
  \A a \in Accounts : acct[a].status = "ACTIVE" => acct[a].address_offset # NoOffset

\* An account never moves to another address: what it holds, now or after any
\* free and any stale write, is the one offset its span records.
OffsetOnlyOwn ==
  \A a \in Accounts :
    acct[a].address_offset \in {NoOffset, span[a].address_offset}

\* No two accounts that hold an offset share an address, whatever non-overlapping
\* subnets come and go while they hold it.
AddressesDistinct ==
  \A a, b \in Accounts :
    LET ip == AddressAt(NetworkOf[a], acct[a].address_offset)
    IN /\ SameOffset(a, b)
       /\ acct[a].address_offset # NoOffset
       /\ acct[b].address_offset # NoOffset
       /\ ip # NoAddress
       => ip # AddressAt(NetworkOf[b], acct[b].address_offset)

Numbered == {list \in SubnetLists : NumbersAddresses(list)}

\* Whatever subnets that do not overlap a network has, ip_for_offset gives every
\* client address of every subnet exactly one offset, and max_offset is the last.
PoolsNumbered == \A n \in Networks : subnets[n] \in Numbered

\* The docstring of account-enable: once the scheduler has freed the offset,
\* "the account cannot be revived".
FreedCannotBeRevived ==
  \A a \in Accounts :
    span[a].release_reason = "scheduler_cleanup" => acct[a].status # "ACTIVE"
=============================================================================
