---------------------------- MODULE Login_proofs ----------------------------
(***************************************************************************)
(* Cached logins and the verdicts of POST /v1/auth/, for any accounts,     *)
(* devices, requests and commands of a user: no cached login outlives the  *)
(* credentials it was let in with, except where a request that was         *)
(* overtaken wrote to the account (mixed); and what a command hands out    *)
(* works.                                                                  *)
(*                                                                         *)
(* The inductive invariant Inv says what a request that nobody overtook    *)
(* still knows: the row it read is the row stored, and a login that is     *)
(* about to be cached has the account's present credentials.               *)
(***************************************************************************)
EXTENDS Login, TLAPS

\* A login as the account's row asks for it.
Fits(row, password) ==
  /\ row.status = "ACTIVE"
  /\ password.pin = row.pin
  /\ (password.code = NoCode) = ~row.otp_required

CacheFits ==
  \A a \in Accounts \ mixed : cache[a] # NoLogin => Fits(acct[a], cache[a])

HandedIsPin ==
  /\ handed \in [Accounts -> {0} \cup Pins]
  /\ \A a \in Accounts \ mixed : Exists(a) => handed[a] = acct[a].pin

\* What request r still knows of its account, if nobody overtook it.
Knows(r) ==
  LET q == req[r] IN
  /\ q.kind \in Kinds \cup {"cache"} => q.row = acct[q.account]
  /\ q.kind = "cache" => q.row.status = "ACTIVE"
  /\ q.kind \in {"code", "store"} /\ q.account \notin mixed =>
       Fits(acct[q.account], q.password)
  /\ q.kind = "code" =>
       cache[q.account] # q.password /\ acct[q.account].otp_required

FreshKnow == \A r \in Requests : Running(req[r]) /\ req[r].fresh => Knows(r)

\* Accounts are not deleted, so a request's account is there.
AccountsStay == \A r \in Requests : Running(req[r]) => Exists(req[r].account)

Indexed == req = [r \in Requests |-> req[r]]

Inv ==
  /\ TypeOK
  /\ Indexed
  /\ window \in Nat \ {0}
  /\ CacheFits
  /\ HandedIsPin
  /\ FreshKnow
  /\ AccountsStay

-----------------------------------------------------------------------------
\* Requests keep their shape when they are overtaken.
LEMMA OvertakenShape ==
  ASSUME NEW a, NEW q
  PROVE  /\ q \in Attempts \cup {Idle, Refused} => Overtaken(q, a) \in Attempts \cup {Idle, Refused}
         /\ q \in Changes \cup {Idle} => Overtaken(q, a) \in Changes \cup {Idle}
         /\ q \in Attempts \cup {Idle, Refused} \cup Changes
              /\ Running(Overtaken(q, a)) /\ Overtaken(q, a).fresh
              => Overtaken(q, a) = q /\ q.account # a
         /\ q \in Attempts \cup {Idle, Refused} \cup Changes /\ Running(Overtaken(q, a))
              => Running(q) /\ Overtaken(q, a).account = q.account
<1>1. CASE Running(q) /\ q.account = a
  <2>1. Overtaken(q, a) = [q EXCEPT !.fresh = FALSE]
    BY <1>1 DEF Overtaken
  <2>2. q \in Attempts => [q EXCEPT !.fresh = FALSE] \in Attempts
                          /\ [q EXCEPT !.fresh = FALSE].fresh = FALSE
                          /\ [q EXCEPT !.fresh = FALSE].account = q.account
    BY DEF Attempts
  <2>3. q \in Changes => [q EXCEPT !.fresh = FALSE] \in Changes
                         /\ [q EXCEPT !.fresh = FALSE].fresh = FALSE
                         /\ [q EXCEPT !.fresh = FALSE].account = q.account
    BY DEF Changes
  <2> QED BY <1>1, <2>1, <2>2, <2>3 DEF Running
<1>2. CASE ~(Running(q) /\ q.account = a)
  BY <1>2 DEF Overtaken
<1> QED BY <1>1, <1>2

\* A login the user typed is not the absence of one.
LEMMA PasswordIsLogin == \A p \in Passwords : p # NoLogin
BY DEF Passwords, Pins, NoLogin

\* Whoever commits to an account overtakes all other requests to it.
LEMMA CommitOvertakes ==
  ASSUME TypeOK, NEW a \in Accounts,
         \/ Commit(a)
         \/ \E r \in Requests : CommitAndEnd(r) /\ req[r].account = a
  PROVE  /\ \A r \in Requests : req'[r] \in IF r \in Logins THEN Attempts \cup {Idle, Refused}
                                             ELSE Changes \cup {Idle}
         /\ \A r \in Requests : Running(req'[r]) /\ req'[r].fresh =>
                                  req'[r] = req[r] /\ req[r].account # a
         /\ \A r \in Requests : Running(req'[r]) =>
                                  Running(req[r]) /\ req'[r].account = req[r].account
<1>1. \A r \in Requests : req[r] \in IF r \in Logins THEN Attempts \cup {Idle, Refused}
                                     ELSE Changes \cup {Idle}
  BY DEF TypeOK
<1>2. \A r \in Requests : req'[r] = Idle \/ req'[r] = Overtaken(req[r], a)
  BY DEF Commit, CommitAndEnd
<1>3. ~Running(Idle)
  BY DEF Running
<1>4. ASSUME NEW r \in Requests
      PROVE  /\ req'[r] \in IF r \in Logins THEN Attempts \cup {Idle, Refused}
                            ELSE Changes \cup {Idle}
             /\ Running(req'[r]) /\ req'[r].fresh => req'[r] = req[r] /\ req[r].account # a
             /\ Running(req'[r]) => Running(req[r]) /\ req'[r].account = req[r].account
  <2>1. CASE req'[r] = Idle
    BY <1>3, <2>1
  <2>2. CASE req'[r] = Overtaken(req[r], a)
    <3>1. CASE r \in Logins
      BY <1>1, <2>2, <3>1, OvertakenShape
    <3>2. CASE r \notin Logins
      BY <1>1, <2>2, <3>2, OvertakenShape
    <3> QED BY <3>1, <3>2
  <2> QED BY <1>2, <2>1, <2>2
<1> QED BY <1>4

\* A commit to account a leaves the others alone, and what it leaves a with
\* agrees unless a counts as mixed.
LEMMA CommitKeeps ==
  ASSUME Inv, NEW a \in Accounts,
         handed' \in [Accounts -> {0} \cup Pins],
         \A b \in Accounts \ {a} :
            acct'[b] = acct[b] /\ cache'[b] = cache[b] /\ handed'[b] = handed[b],
         mixed \subseteq mixed',
         \A r \in Requests : Running(req'[r]) /\ req'[r].fresh =>
                               req'[r] = req[r] /\ req[r].account # a,
         a \notin mixed' => /\ acct'[a] # NoRow => handed'[a] = acct'[a].pin
                            /\ cache'[a] # NoLogin => Fits(acct'[a], cache'[a])
  PROVE  CacheFits' /\ HandedIsPin' /\ FreshKnow'
<1>1. CacheFits'
  <2> SUFFICES ASSUME NEW b \in Accounts, b \notin mixed', cache'[b] # NoLogin
               PROVE  Fits(acct'[b], cache'[b])
    BY DEF CacheFits, Fits
  <2>1. CASE b = a
    BY <2>1
  <2>2. CASE b # a
    <3>1. b \notin mixed
      OBVIOUS
    <3> QED BY <2>2, <3>1 DEF Inv, CacheFits
  <2> QED BY <2>1, <2>2
<1>2. HandedIsPin'
  <2> SUFFICES ASSUME NEW b \in Accounts, b \notin mixed', acct'[b] # NoRow
               PROVE  handed'[b] = acct'[b].pin
    BY DEF HandedIsPin, Exists
  <2>1. CASE b = a
    BY <2>1
  <2>2. CASE b # a
    BY <2>2 DEF Inv, HandedIsPin, Exists
  <2> QED BY <2>1, <2>2
<1>3. FreshKnow'
  <2> SUFFICES ASSUME NEW r \in Requests, Running(req'[r]), req'[r].fresh
               PROVE  Knows(r)'
    BY DEF FreshKnow, Running
  <2>1. req'[r] = req[r] /\ req[r].account # a /\ Knows(r)
    BY DEF Inv, FreshKnow
  <2>2. req[r].account \in Accounts
    <3>1. req[r] \in IF r \in Logins THEN Attempts \cup {Idle, Refused} ELSE Changes \cup {Idle}
      BY DEF Inv, TypeOK
    <3> QED BY <2>1, <3>1 DEF Attempts, Changes, Running
  <2> HIDE DEF Inv
  <2> QED BY <2>1, <2>2 DEF Knows
<1> QED BY <1>1, <1>2, <1>3

-----------------------------------------------------------------------------
\* A command that read an account and is about to save it.
LEMMA CommandFacts ==
  ASSUME Inv, NEW r \in Commands, req[r].kind \in Kinds
  PROVE  /\ r \in Requests /\ req[r] \in Changes /\ Running(req[r])
         /\ req[r].account \in Accounts /\ Exists(req[r].account)
         /\ req[r].row \in Rows
         /\ req[r].fresh => req[r].row = acct[req[r].account]
<1>1. r \in Requests /\ r \notin Logins
  BY RequestsAssumption DEF Requests
<1>2. req[r] \in Changes \cup {Idle}
  BY <1>1 DEF Inv, TypeOK
<1>3. req[r] # Idle /\ req[r] # Refused
  <2>1. Idle.kind \notin Kinds /\ Refused.kind \notin Kinds
    BY DEF Idle, Refused, Kinds
  <2> QED BY <2>1
<1>4. req[r] \in Changes /\ Running(req[r])
  BY <1>2, <1>3 DEF Running
<1>5. req[r].account \in Accounts /\ req[r].row \in Rows
  BY <1>4 DEF Changes
<1> QED BY <1>1, <1>4, <1>5 DEF Inv, AccountsStay, FreshKnow, Knows

\* A stored row is not the absence of one.
LEMMA RowIsStored == \A row \in Rows : row # NoRow
BY DEF Rows, Statuses, NoRow

\* A command saves its row, whole or not at all; with the row it changes the
\* cached login goes, and the PIN that is given out is the one saved.
LEMMA SaveKeeps ==
  ASSUME Inv, NEW r \in Commands, req[r].kind \in Kinds, NEW row \in Rows,
         \/ acct' = [acct EXCEPT ![req[r].account] = row]
         \/ acct' = acct /\ row = req[r].row,
         \/ cache' = [cache EXCEPT ![req[r].account] = NoLogin]
         \/ cache' = cache /\ row = req[r].row,
         \/ handed' = [handed EXCEPT ![req[r].account] = row.pin]
         \/ handed' = handed /\ row.pin = req[r].row.pin,
         device' \in [Devices -> DeviceRows \cup {NoDevice}],
         links' \subseteq {a \in Accounts : Exists(a)} \X Stored',
         window' = window, CommitAndEnd(r), MarkMixed(r)
  PROVE  Inv'
<1> DEFINE a == req[r].account
<1>1. /\ r \in Requests /\ a \in Accounts /\ Exists(a) /\ req[r].row \in Rows
      /\ req[r].fresh => req[r].row = acct[a]
  BY CommandFacts
<1>2. /\ acct \in [Accounts -> Rows \cup {NoRow}]
      /\ cache \in [Accounts -> Passwords \cup {NoLogin}]
      /\ handed \in [Accounts -> {0} \cup Pins]
      /\ mixed \subseteq {b \in Accounts : Exists(b)}
  BY DEF Inv, TypeOK, HandedIsPin
<1>3. row.pin \in Pins
  BY DEF Rows
<1>4. /\ acct' \in [Accounts -> Rows \cup {NoRow}]
      /\ cache' \in [Accounts -> Passwords \cup {NoLogin}]
      /\ handed' \in [Accounts -> {0} \cup Pins]
  BY <1>1, <1>2, <1>3
<1>5. \A b \in Accounts \ {a} :
        acct'[b] = acct[b] /\ cache'[b] = cache[b] /\ handed'[b] = handed[b]
  BY <1>1, <1>2
<1>6. \A b \in Accounts : Exists(b) => Exists(b)'
  BY <1>1, <1>2, <1>5, RowIsStored DEF Exists
<1>7. /\ mixed \subseteq mixed' /\ mixed' \subseteq mixed \cup {a}
      /\ a \notin mixed' => a \notin mixed /\ req[r].fresh
  BY DEF MarkMixed
<1>8. ASSUME a \notin mixed'
      PROVE  /\ acct'[a] # NoRow => handed'[a] = acct'[a].pin
             /\ cache'[a] # NoLogin => Fits(acct'[a], cache'[a])
  <2>1. acct[a] = req[r].row /\ a \notin mixed
    BY <1>1, <1>7, <1>8
  <2>2. acct'[a] = row
    BY <1>1, <1>2, <2>1
  <2>3. handed[a] = acct[a].pin /\ (cache[a] # NoLogin => Fits(acct[a], cache[a]))
    BY <1>1, <2>1 DEF Inv, HandedIsPin, CacheFits
  <2>4. handed'[a] = row.pin
    BY <1>1, <1>2, <2>1, <2>3
  <2>5. cache'[a] # NoLogin => Fits(row, cache'[a])
    BY <1>1, <1>2, <2>1, <2>3
  <2> QED BY <2>2, <2>4, <2>5
<1>9. /\ \A x \in Requests : req'[x] \in IF x \in Logins THEN Attempts \cup {Idle, Refused}
                                          ELSE Changes \cup {Idle}
      /\ \A x \in Requests : Running(req'[x]) /\ req'[x].fresh =>
                               req'[x] = req[x] /\ req[x].account # a
      /\ \A x \in Requests : Running(req'[x]) =>
                               Running(req[x]) /\ req'[x].account = req[x].account
  BY <1>1, CommitOvertakes DEF Inv
<1> HIDE DEF a
<1>10. CacheFits' /\ HandedIsPin' /\ FreshKnow'
  BY <1>1, <1>4, <1>5, <1>7, <1>8, <1>9, CommitKeeps
<1>11. TypeOK'
  <2>1. links' \subseteq {b \in Accounts : Exists(b)'} \X Stored'
    BY <1>6
  <2>2. mixed' \subseteq {b \in Accounts : Exists(b)'}
    BY <1>1, <1>2, <1>6, <1>7
  <2> QED BY <1>4, <1>9, <2>1, <2>2 DEF TypeOK
<1>12. AccountsStay'
  <2>1. \A x \in Requests : Running(req[x]) => req[x].account \in Accounts /\ Exists(req[x].account)
    BY DEF Inv, TypeOK, AccountsStay, Attempts, Changes, Running
  <2> QED BY <1>6, <1>9, <2>1 DEF AccountsStay, Exists
<1>13. Indexed'
  BY DEF CommitAndEnd, Indexed
<1> QED BY <1>10, <1>11, <1>12, <1>13 DEF Inv

-----------------------------------------------------------------------------
\* The devices a command may choose are devices.
LEMMA ChoicesAreDevices ==
  \A named \in Stored \cup {NoDevice} : Choices(named) \subseteq Devices
BY DEF Choices, Stored, Usable

\* Assigning a device stores it and links account a to it.
LEMMA AssignShape ==
  ASSUME TypeOK, NEW a \in Accounts, NEW d \in Devices, NEW kept \in SUBSET links,
         NEW resetting \in BOOLEAN, Assign(a, d, kept, resetting)
  PROVE  /\ device' \in [Devices -> DeviceRows \cup {NoDevice}]
         /\ links' \subseteq ({b \in Accounts : Exists(b)} \cup {a}) \X Stored'
<1>1. device \in [Devices -> DeviceRows \cup {NoDevice}]
  BY DEF TypeOK
<1>2. \A row \in DeviceRows : row # NoDevice
  BY DEF DeviceRows, Statuses, NoDevice
<1> DEFINE row == IF d \notin Stored THEN [status |-> "ACTIVE", secret |-> NewSecret]
                  ELSE IF resetting THEN [device[d] EXCEPT !.secret = NewSecret] ELSE device[d]
<1>3. device' = [device EXCEPT ![d] = row]
  BY <1>1 DEF Assign
<1>4. (resetting \/ d \notin Stored) => NewSecret \in Secrets
  BY DEF Assign
<1>5. row \in DeviceRows
  <2>1. CASE d \notin Stored
    BY <1>4, <2>1 DEF DeviceRows, Statuses
  <2>2. CASE d \in Stored
    <3>1. device[d] \in DeviceRows
      BY <1>1, <2>2 DEF Stored
    <3>2. CASE resetting
      <4>1. NewSecret \in Secrets
        BY <1>4, <3>2
      <4>2. [device[d] EXCEPT !.secret = NewSecret] \in DeviceRows
        BY <3>1, <4>1 DEF DeviceRows
      <4> QED BY <2>2, <3>2, <4>2
    <3> QED BY <2>2, <3>1, <3>2
  <2> QED BY <2>1, <2>2
<1> HIDE DEF row
<1>6. device' \in [Devices -> DeviceRows \cup {NoDevice}]
  BY <1>1, <1>3, <1>5
<1>7. Stored \subseteq Stored' /\ d \in Stored'
  BY <1>1, <1>2, <1>3, <1>5 DEF Stored
<1>8. links' = kept \cup {<<a, d>>}
  BY DEF Assign
<1> QED BY <1>6, <1>7, <1>8 DEF TypeOK

\* Steps that touch devices and links only.
LEMMA DeviceStep ==
  ASSUME Inv, UNCHANGED <<acct, cache, window, req, given, mixed>>,
         device' \in [Devices -> DeviceRows \cup {NoDevice}],
         links' \subseteq {a \in Accounts : Exists(a)} \X Stored'
  PROVE  Inv'
<1>1. UNCHANGED <<acct, cache, window, req, pins, handed, mixed>>
  BY DEF given
<1>2. TypeOK'
  BY <1>1 DEF Inv, TypeOK, Exists
<1> QED BY <1>1, <1>2
    DEF Inv, Indexed, CacheFits, HandedIsPin, FreshKnow, AccountsStay, Knows, Exists, Fits, Running

\* otp-add, otp-remove, account-set-otp and POST /v1/otp_devices/: whoever is
\* logged in stays so.
LEMMA DevicesInv ==
  ASSUME Inv,
         \/ \E d \in Devices : \/ AddDevice(d) \/ DisableDevice(d)
                               \/ \E status \in Statuses : PostDevice(d, status)
         \/ \E a \in Accounts, named \in Stored \cup {NoDevice} : SetOtp(a, named)
  PROVE  Inv'
<1>1. /\ TypeOK
      /\ device \in [Devices -> DeviceRows \cup {NoDevice}]
      /\ links \subseteq {a \in Accounts : Exists(a)} \X Stored
      /\ \A row \in DeviceRows : row # NoDevice
  BY DEF Inv, TypeOK, DeviceRows, Statuses, NoDevice
<1>2. ASSUME NEW d \in Devices, NEW row \in DeviceRows, device' = [device EXCEPT ![d] = row],
             links' \subseteq links \cup ({a \in Accounts : Exists(a)} \X {d}),
             UNCHANGED <<acct, cache, window, req, given, mixed>>
      PROVE  Inv'
  <2>1. device' \in [Devices -> DeviceRows \cup {NoDevice}]
    BY <1>1, <1>2
  <2>2. Stored \subseteq Stored' /\ d \in Stored'
    BY <1>1, <1>2 DEF Stored
  <2>3. links' \subseteq {a \in Accounts : Exists(a)} \X Stored'
    BY <1>1, <1>2, <2>2
  <2> QED BY <1>2, <2>1, <2>3, DeviceStep
<1>3. ASSUME NEW d \in Devices, AddDevice(d) PROVE Inv'
  <2>1. [status |-> "ACTIVE", secret |-> NewSecret] \in DeviceRows
    BY <1>3 DEF AddDevice, DeviceRows, Statuses
  <2>2. {b \in Accounts : acct[b].status = "ACTIVE"} \subseteq {b \in Accounts : Exists(b)}
    BY DEF Exists, NoRow
  <2>3. links' \subseteq links \cup ({a \in Accounts : Exists(a)} \X {d})
    BY <1>3, <2>2 DEF AddDevice
  <2> QED BY <1>2, <1>3, <2>1, <2>3 DEF AddDevice
<1>4. ASSUME NEW d \in Devices, DisableDevice(d) PROVE Inv'
  <2>1. device[d] \in DeviceRows
    BY <1>1, <1>4 DEF DisableDevice, Usable, Stored
  <2>2. [device[d] EXCEPT !.status = "DISABLED"] \in DeviceRows
    BY <2>1 DEF DeviceRows, Statuses
  <2>3. device' = [device EXCEPT ![d] = [device[d] EXCEPT !.status = "DISABLED"]]
    BY <1>4 DEF DisableDevice
  <2> QED BY <1>2, <1>4, <2>2, <2>3 DEF DisableDevice
<1>5. ASSUME NEW d \in Devices, NEW status \in Statuses, PostDevice(d, status) PROVE Inv'
  <2>1. [status |-> status, secret |-> NewSecret] \in DeviceRows
    BY <1>5 DEF PostDevice, DeviceRows
  <2> QED BY <1>2, <1>5, <2>1 DEF PostDevice
<1>6. ASSUME NEW a \in Accounts, NEW named \in Stored \cup {NoDevice}, SetOtp(a, named)
      PROVE  Inv'
  <2>1. PICK d \in Choices(named) : Assign(a, d, {l \in links : l[1] # a}, FALSE)
    BY <1>6 DEF SetOtp
  <2>2. d \in Devices
    BY ChoicesAreDevices
  <2>3. Exists(a)
    BY <1>6 DEF SetOtp
  <2>4. /\ device' \in [Devices -> DeviceRows \cup {NoDevice}]
        /\ links' \subseteq ({b \in Accounts : Exists(b)} \cup {a}) \X Stored'
    BY <1>1, <2>1, <2>2, AssignShape
  <2> QED BY <1>6, <2>3, <2>4, DeviceStep DEF SetOtp
<1> QED BY <1>3, <1>4, <1>5, <1>6

-----------------------------------------------------------------------------
\* A commit to account a by somebody who read it just now: nobody becomes mixed.
LEMMA DirectCommit ==
  ASSUME Inv, NEW a \in Accounts, NEW row \in Rows,
         acct' = [acct EXCEPT ![a] = row],
         handed' \in {handed, [handed EXCEPT ![a] = row.pin]},
         a \notin mixed => handed'[a] = row.pin /\ cache[a] = NoLogin,
         device' \in [Devices -> DeviceRows \cup {NoDevice}],
         links' \subseteq ({b \in Accounts : Exists(b)} \cup {a}) \X Stored',
         Commit(a), UNCHANGED <<cache, window, mixed>>
  PROVE  Inv'
<1>1. /\ acct \in [Accounts -> Rows \cup {NoRow}]
      /\ handed \in [Accounts -> {0} \cup Pins]
      /\ mixed \subseteq {b \in Accounts : Exists(b)}
      /\ row.pin \in Pins /\ row # NoRow
  BY RowIsStored DEF Inv, TypeOK, HandedIsPin, Rows
<1>2. /\ acct' \in [Accounts -> Rows \cup {NoRow}]
      /\ handed' \in [Accounts -> {0} \cup Pins]
      /\ acct'[a] = row
      /\ \A b \in Accounts \ {a} : acct'[b] = acct[b] /\ handed'[b] = handed[b]
  BY <1>1
<1>3. \A b \in Accounts : Exists(b) \/ b = a => Exists(b)'
  BY <1>1, <1>2 DEF Exists
<1>4. /\ \A x \in Requests : req'[x] \in IF x \in Logins THEN Attempts \cup {Idle, Refused}
                                          ELSE Changes \cup {Idle}
      /\ \A x \in Requests : Running(req'[x]) /\ req'[x].fresh =>
                               req'[x] = req[x] /\ req[x].account # a
      /\ \A x \in Requests : Running(req'[x]) =>
                               Running(req[x]) /\ req'[x].account = req[x].account
  BY CommitOvertakes DEF Inv
<1>5. CacheFits' /\ HandedIsPin' /\ FreshKnow'
  BY <1>1, <1>2, <1>4, CommitKeeps
<1>6. TypeOK'
  <2>1. links' \subseteq {b \in Accounts : Exists(b)'} \X Stored'
    BY <1>3
  <2>2. mixed' \subseteq {b \in Accounts : Exists(b)'}
    BY <1>1, <1>3
  <2>3. cache' \in [Accounts -> Passwords \cup {NoLogin}]
    BY DEF Inv, TypeOK
  <2> QED BY <1>2, <1>4, <2>1, <2>2, <2>3 DEF TypeOK
<1>7. AccountsStay'
  <2>1. \A x \in Requests : Running(req[x]) => req[x].account \in Accounts /\ Exists(req[x].account)
    BY DEF Inv, TypeOK, AccountsStay, Attempts, Changes, Running
  <2> QED BY <1>3, <1>4, <2>1 DEF AccountsStay, Exists
<1>8. Indexed'
  BY DEF Commit, Indexed
<1> QED BY <1>5, <1>6, <1>7, <1>8 DEF Inv

\* An account that is not ACTIVE has no cached login.
LEMMA InactiveHasNoLogin ==
  ASSUME Inv, NEW a \in Accounts, a \notin mixed, acct[a].status # "ACTIVE"
  PROVE  cache[a] = NoLogin
BY DEF Inv, CacheFits, Fits

\* account-create and POST /v1/accounts/: the PIN given out is the one stored.
LEMMA CreateInv ==
  ASSUME Inv, NEW a \in Accounts, NEW otp \in BOOLEAN,
         \/ CreateAccount(a, otp)
         \/ \E status \in Statuses : CreateByApi(a, status, otp)
  PROVE  Inv'
<1>1. PICK status \in Statuses :
        acct' = [acct EXCEPT ![a] = [status |-> status, pin |-> NewPin, otp_required |-> otp]]
  BY DEF CreateAccount, CreateByApi, Statuses
<1> DEFINE row == [status |-> status, pin |-> NewPin, otp_required |-> otp]
<1>2. ~Exists(a) /\ NewPin \in Pins /\ GivePin(a) /\ Commit(a) /\ UNCHANGED <<cache, window, mixed>>
  BY DEF CreateAccount, CreateByApi
<1>3. row \in Rows /\ row.pin = NewPin
  BY <1>2 DEF Rows
<1>4. /\ handed \in [Accounts -> {0} \cup Pins]
      /\ links \subseteq {b \in Accounts : Exists(b)} \X Stored
      /\ device \in [Devices -> DeviceRows \cup {NoDevice}]
  BY DEF Inv, HandedIsPin, TypeOK
<1>5. handed' = [handed EXCEPT ![a] = row.pin]
  BY <1>2, <1>3 DEF GivePin
<1>6. a \notin mixed => handed'[a] = row.pin /\ cache[a] = NoLogin
  <2>1. acct[a].status # "ACTIVE"
    BY <1>2 DEF Exists, NoRow
  <2> QED BY <1>4, <1>5, <2>1, InactiveHasNoLogin
<1>7. /\ device' \in [Devices -> DeviceRows \cup {NoDevice}]
      /\ links' \subseteq ({b \in Accounts : Exists(b)} \cup {a}) \X Stored'
  <2>1. CASE UNCHANGED otpTables
    BY <1>4, <2>1 DEF otpTables, Stored
  <2>2. CASE \E d \in Choices(NoDevice) : Assign(a, d, links, FALSE)
    <3>1. PICK d \in Devices : Assign(a, d, links, FALSE)
      BY <2>2, ChoicesAreDevices
    <3> QED BY <3>1, AssignShape DEF Inv
  <2> QED BY <2>1, <2>2 DEF CreateAccount, CreateByApi
<1> HIDE DEF row
<1>8. acct' = [acct EXCEPT ![a] = row]
  BY <1>1 DEF row
<1> QED BY <1>2, <1>3, <1>5, <1>6, <1>7, <1>8, DirectCommit

\* account-enable: an account that was disabled comes back without a login.
LEMMA EnableInv == ASSUME Inv, NEW a \in Accounts, Enable(a) PROVE Inv'
<1> DEFINE row == [acct[a] EXCEPT !.status = "ACTIVE"]
<1>1. /\ acct \in [Accounts -> Rows \cup {NoRow}]
      /\ handed \in [Accounts -> {0} \cup Pins]
      /\ device \in [Devices -> DeviceRows \cup {NoDevice}]
      /\ links \subseteq {b \in Accounts : Exists(b)} \X Stored
  BY DEF Inv, TypeOK, HandedIsPin
<1>2. acct[a] \in Rows /\ Exists(a) /\ acct[a].status # "ACTIVE"
  BY <1>1 DEF Enable, NoRow, Exists
<1>3. row \in Rows /\ row.pin = acct[a].pin
  BY <1>2 DEF Rows, Statuses
<1>4. a \notin mixed => handed[a] = row.pin /\ cache[a] = NoLogin
  BY <1>2, <1>3, InactiveHasNoLogin DEF Inv, HandedIsPin
<1>5. /\ acct' = [acct EXCEPT ![a] = row] /\ handed' = handed
      /\ device' = device /\ links' = links /\ Stored' = Stored
      /\ Commit(a) /\ UNCHANGED <<cache, window, mixed>>
  BY <1>1 DEF Enable, given, otpTables, Stored
<1> HIDE DEF row
<1> QED BY <1>1, <1>3, <1>4, <1>5, DirectCommit

\* The commands that save the row they read.
LEMMA SaveInv ==
  ASSUME Inv, NEW r \in Commands,
         \/ Disable(r) \/ SetOtpRequired(r) \/ ResetPin(r) \/ Edit(r)
         \/ \E named \in Stored \cup {NoDevice} : Reset(r, named)
  PROVE  Inv'
<1> DEFINE q == req[r]
           a == q.account
<1>1. req[r].kind \in Kinds
  BY DEF Disable, SetOtpRequired, ResetPin, Edit, Reset, Kinds
<1>2. a \in Accounts /\ Exists(a) /\ q.row \in Rows
  BY <1>1, CommandFacts
<1>3. CommitAndEnd(r) /\ MarkMixed(r) /\ window' = window
  BY DEF Disable, SetOtpRequired, ResetPin, Edit, Reset
<1>4. /\ links \subseteq {b \in Accounts : Exists(b)} \X Stored
      /\ device \in [Devices -> DeviceRows \cup {NoDevice}]
  BY DEF Inv, TypeOK
<1>5. UNCHANGED otpTables => /\ device' \in [Devices -> DeviceRows \cup {NoDevice}]
                             /\ links' \subseteq {b \in Accounts : Exists(b)} \X Stored'
  BY <1>4 DEF otpTables, Stored
<1>6. CASE Disable(r)
  <2> DEFINE row == [q.row EXCEPT !.status = "DISABLED"]
  <2>1. row \in Rows /\ row.pin = q.row.pin
    BY <1>2 DEF Rows, Statuses
  <2>2. acct' = [acct EXCEPT ![a] = row] \/ (acct' = acct /\ row = q.row)
    BY <1>6 DEF Disable, Save
  <2>3. cache' = [cache EXCEPT ![a] = NoLogin] /\ handed' = handed /\ UNCHANGED otpTables
    BY <1>6 DEF Disable, DropLogin, given
  <2> HIDE DEF row
  <2> QED BY <1>1, <1>3, <1>5, <2>1, <2>2, <2>3, SaveKeeps
<1>7. CASE SetOtpRequired(r)
  <2> DEFINE required == q.kind = "otp on"
             row == [q.row EXCEPT !.otp_required = required]
  <2>1. row \in Rows /\ row.pin = q.row.pin /\ (~Toggles(q, required) => row = q.row)
    BY <1>2 DEF Rows, Toggles
  <2>2. acct' = [acct EXCEPT ![a] = row] \/ (acct' = acct /\ row = q.row)
    BY <1>7 DEF SetOtpRequired, Save
  <2>3. cache' = [cache EXCEPT ![a] = NoLogin] \/ (cache' = cache /\ row = q.row)
    BY <1>7, <2>1 DEF SetOtpRequired, DropLogin
  <2>4. handed' = handed /\ UNCHANGED otpTables
    BY <1>7 DEF SetOtpRequired, given
  <2> HIDE DEF row
  <2> QED BY <1>1, <1>3, <1>5, <2>1, <2>2, <2>3, <2>4, SaveKeeps
<1>8. ASSUME NewPin \in Pins, Save(q, [q.row EXCEPT !.pin = NewPin]), DropLogin(a), GivePin(a),
             device' \in [Devices -> DeviceRows \cup {NoDevice}],
             links' \subseteq {b \in Accounts : Exists(b)} \X Stored'
      PROVE  Inv'
  <2> DEFINE row == [q.row EXCEPT !.pin = NewPin]
  <2>1. row \in Rows /\ row.pin = NewPin
    BY <1>2, <1>8 DEF Rows
  <2>2. acct' = [acct EXCEPT ![a] = row] \/ (acct' = acct /\ row = q.row)
    BY <1>8 DEF Save
  <2>3. cache' = [cache EXCEPT ![a] = NoLogin] /\ handed' = [handed EXCEPT ![a] = row.pin]
    BY <1>8, <2>1 DEF DropLogin, GivePin
  <2> HIDE DEF row
  <2> QED BY <1>1, <1>3, <1>8, <2>1, <2>2, <2>3, SaveKeeps
<1>9. CASE ResetPin(r)
  BY <1>5, <1>8, <1>9 DEF ResetPin
<1>10. ASSUME NEW named \in Stored \cup {NoDevice}, Reset(r, named) PROVE Inv'
  <2>1. /\ device' \in [Devices -> DeviceRows \cup {NoDevice}]
        /\ links' \subseteq {b \in Accounts : Exists(b)} \X Stored'
    <3>1. CASE UNCHANGED otpTables
      BY <1>5, <3>1
    <3>2. CASE \E d \in Choices(named) : Assign(a, d, links, TRUE)
      <4>1. PICK d \in Devices : Assign(a, d, links, TRUE)
        BY <3>2, ChoicesAreDevices
      <4>2. {b \in Accounts : Exists(b)} \cup {a} = {b \in Accounts : Exists(b)}
        BY <1>2
      <4> QED BY <1>2, <4>1, <4>2, AssignShape DEF Inv
    <3> QED BY <1>10, <3>1, <3>2 DEF Reset
  <2> QED BY <1>8, <1>10, <2>1 DEF Reset
<1>11. CASE Edit(r)
  <2>1. acct' = [acct EXCEPT ![a] = q.row] /\ cache' = cache /\ handed' = handed
        /\ UNCHANGED otpTables
    BY <1>11 DEF Edit, given
  <2> QED BY <1>1, <1>2, <1>3, <1>5, <2>1, SaveKeeps
<1> QED BY <1>6, <1>7, <1>9, <1>10, <1>11

-----------------------------------------------------------------------------
\* A request goes on without a commit: what it knows afterwards it must have read.
LEMMA RequestStep ==
  ASSUME Inv, NEW r \in Requests, NEW q, req' = [req EXCEPT ![r] = q],
         UNCHANGED <<acct, otpTables, cache, window, given, mixed>>,
         q \in IF r \in Logins THEN Attempts \cup {Idle, Refused} ELSE Changes \cup {Idle},
         Running(q) => Exists(q.account),
         Running(q) /\ q.fresh => Knows(r)'
  PROVE  Inv'
<1>1. UNCHANGED <<acct, device, links, cache, window, handed, mixed>>
  BY DEF otpTables, given
<1>2. DOMAIN req = Requests /\ req' = [x \in Requests |-> IF x = r THEN q ELSE req[x]]
  BY DEF Inv, Indexed
<1>3. Indexed'
  BY <1>2 DEF Indexed
<1>4. \A x \in Requests : req'[x] = IF x = r THEN q ELSE req[x]
  BY <1>2
<1>5. TypeOK'
  BY <1>1, <1>4 DEF Inv, TypeOK, Exists, Stored
<1>6. FreshKnow'
  <2> SUFFICES ASSUME NEW x \in Requests, Running(req'[x]), req'[x].fresh PROVE Knows(x)'
    BY DEF FreshKnow, Running
  <2>1. CASE x = r
    BY <1>4, <2>1
  <2>2. CASE x # r
    <3>1. req'[x] = req[x] /\ Knows(x)
      BY <1>4, <2>2 DEF Inv, FreshKnow
    <3> QED BY <1>1, <3>1 DEF Knows
  <2> QED BY <2>1, <2>2
<1>7. AccountsStay'
  BY <1>1, <1>4 DEF Inv, AccountsStay, Exists, Running
<1>8. CacheFits' /\ HandedIsPin' /\ (window \in Nat \ {0})'
  BY <1>1 DEF Inv, CacheFits, HandedIsPin, Exists
<1> QED BY <1>3, <1>5, <1>6, <1>7, <1>8 DEF Inv

\* An ACTIVE account is stored.
LEMMA ActiveExists == \A a \in Accounts : acct[a].status = "ACTIVE" => Exists(a)
BY DEF Exists, NoRow

\* The first read of a command and of a login, and the end of either.
LEMMA ReadInv ==
  ASSUME Inv,
         \/ \E r \in Commands, a \in Accounts, kind \in Kinds : ReadAccount(r, kind, a)
         \/ \E r \in Logins, a \in Accounts, password \in Typed : StartLogin(r, a, password)
         \/ \E r \in Requests : End(r)
  PROVE  Inv'
<1>1. ~Running(Idle) /\ ~Running(Refused)
  BY DEF Running
<1>2. ASSUME NEW r \in Commands, NEW a \in Accounts, NEW kind \in Kinds, ReadAccount(r, kind, a)
      PROVE  Inv'
  <2> DEFINE q == [kind |-> kind, account |-> a, row |-> acct[a], fresh |-> TRUE]
  <2>1. /\ req' = [req EXCEPT ![r] = q] /\ Exists(a)
        /\ UNCHANGED <<acct, otpTables, cache, window, given, mixed>>
    BY <1>2 DEF ReadAccount, Start
  <2>2. r \in Requests /\ r \notin Logins
    BY RequestsAssumption DEF Requests
  <2>3. acct[a] \in Rows
    BY <2>1 DEF Inv, TypeOK, Exists
  <2>4. q \in Changes /\ q.account = a
    BY <2>3 DEF Changes
  <2>5. Knows(r)'
    <3>1. req'[r] = q
      BY <2>1, <2>2 DEF Inv, Indexed
    <3>2. kind \notin {"cache", "code", "store"}
      BY DEF Kinds
    <3> QED BY <2>1, <3>1, <3>2 DEF Knows
  <2> HIDE DEF q
  <2> QED BY <2>1, <2>2, <2>4, <2>5, RequestStep
<1>3. ASSUME NEW r \in Logins, NEW a \in Accounts, NEW password \in Typed,
             StartLogin(r, a, password)
      PROVE  Inv'
  <2> DEFINE q == [kind |-> "cache", account |-> a, row |-> acct[a],
                   password |-> password, fresh |-> TRUE]
  <2>1. /\ req' = [req EXCEPT ![r] = IF acct[a].status = "ACTIVE" THEN q ELSE Refused]
        /\ UNCHANGED <<acct, otpTables, cache, window, given, mixed>>
    BY <1>3 DEF StartLogin, Start
  <2>2. r \in Requests
    BY DEF Requests
  <2>3. CASE acct[a].status = "ACTIVE"
    <3>1. acct[a] \in Rows \cup {NoRow} /\ password \in Passwords
      BY DEF Inv, TypeOK, Typed
    <3>2. q \in Attempts /\ q.account = a
      BY <3>1 DEF Attempts
    <3>3. Knows(r)'
      <4>1. req'[r] = q
        BY <2>1, <2>2, <2>3 DEF Inv, Indexed
      <4> QED BY <2>1, <2>3, <4>1 DEF Knows
    <3>4. Exists(a)
      BY <2>3, ActiveExists
    <3> HIDE DEF q
    <3> QED BY <2>1, <2>2, <2>3, <3>2, <3>3, <3>4, RequestStep
  <2>4. CASE acct[a].status # "ACTIVE"
    BY <1>1, <2>1, <2>2, <2>4, RequestStep
  <2> QED BY <2>3, <2>4
<1>4. ASSUME NEW r \in Requests, End(r) PROVE Inv'
  <2>1. Idle \in IF r \in Logins THEN Attempts \cup {Idle, Refused} ELSE Changes \cup {Idle}
    OBVIOUS
  <2> QED BY <1>1, <1>4, <2>1, RequestStep DEF End
<1> QED BY <1>2, <1>3, <1>4

\* A login that runs, at one of its steps.
LEMMA LoginFacts ==
  ASSUME Inv, NEW r \in Logins, req[r].kind \in {"cache", "code", "store"}
  PROVE  /\ r \in Requests /\ req[r] \in Attempts /\ Running(req[r])
         /\ req[r].account \in Accounts /\ Exists(req[r].account)
         /\ req[r].password \in Passwords /\ req[r].password # NoLogin
         /\ req[r].fresh => Knows(r)
<1>1. r \in Requests
  BY DEF Requests
<1>2. req[r] \in Attempts \cup {Idle, Refused}
  BY <1>1 DEF Inv, TypeOK
<1>3. req[r] # Idle /\ req[r] # Refused
  <2>1. Idle.kind = "idle" /\ Refused.kind = "refused"
    BY DEF Idle, Refused
  <2> QED BY <2>1
<1>4. req[r] \in Attempts /\ Running(req[r])
  BY <1>2, <1>3 DEF Running
<1>5. req[r].account \in Accounts /\ req[r].password \in Passwords
  BY <1>4 DEF Attempts
<1> QED BY <1>1, <1>4, <1>5, PasswordIsLogin DEF Inv, AccountsStay, FreshKnow

\* A login is compared with the cached one, then with the PIN, then with the
\* codes of the account's devices.
LEMMA CheckInv ==
  ASSUME Inv, NEW r \in Logins, CheckCacheAndPin(r) \/ CheckCode(r)
  PROVE  Inv'
<1> DEFINE q == req[r]
           a == q.account
<1>1. /\ r \in Requests /\ q \in Attempts /\ Running(q) /\ a \in Accounts /\ Exists(a)
      /\ q.password # NoLogin /\ (q.fresh => Knows(r)) /\ DOMAIN req = Requests
      /\ q.kind \in {"cache", "code"}
  BY LoginFacts DEF CheckCacheAndPin, CheckCode, Inv, Indexed
<1>2. ~Running(Refused)
  BY DEF Running
<1>3. ASSUME NEW k \in {"code", "store"}, GoOn(r, k),
             q.fresh => /\ a \notin mixed => Fits(acct[a], q.password)
                        /\ k = "code" => cache[a] # q.password /\ acct[a].otp_required
      PROVE  Inv'
  <2> DEFINE go == [q EXCEPT !.kind = k, !.row = NoRow]
  <2>1. /\ req' = [req EXCEPT ![r] = go]
        /\ UNCHANGED <<acct, otpTables, cache, window, given, mixed>>
    BY <1>3 DEF GoOn
  <2>2. /\ go \in Attempts /\ go.account = a /\ go.kind = k
        /\ go.password = q.password /\ go.fresh = q.fresh
    BY <1>1 DEF Attempts
  <2> HIDE DEF go
  <2>3. req'[r] = go
    BY <1>1, <2>1
  <2>4. go.fresh => Knows(r)'
    <3>1. k \notin Kinds \cup {"cache"}
      BY DEF Kinds
    <3>2. SUFFICES ASSUME q.fresh PROVE Knows(r)'
      BY <2>2
    <3>3. Fits(acct[a], q.password)' <=> Fits(acct[a], q.password)
      BY <2>1, <2>2, <2>3 DEF Fits
    <3> QED BY <1>3, <2>1, <2>2, <2>3, <3>1, <3>2 DEF Knows, Fits
  <2> QED BY <1>1, <2>1, <2>2, <2>4, RequestStep
<1>4. GoOn(r, "refused") => Inv'
  <2> SUFFICES ASSUME GoOn(r, "refused") PROVE Inv'
    OBVIOUS
  <2> QED BY <1>1, <1>2, RequestStep DEF GoOn
<1>5. CASE CheckCacheAndPin(r)
  <2>1. q.kind = "cache"
    BY <1>5 DEF CheckCacheAndPin
  <2>2. q.fresh => q.row = acct[a] /\ q.row.status = "ACTIVE"
    BY <1>1, <2>1 DEF Knows
  <2>3. CASE cache[a] = q.password
    <3>1. GoOn(r, "store")
      BY <1>5, <2>3 DEF CheckCacheAndPin
    <3>2. a \notin mixed => Fits(acct[a], q.password)
      BY <1>1, <2>3 DEF Inv, CacheFits
    <3> QED BY <1>3, <3>1, <3>2
  <2>4. CASE cache[a] # q.password /\ PinRight(q)
    <3>1. q.fresh => Fits(acct[a], q.password)
      BY <2>2, <2>4 DEF PinRight, Fits
    <3>2. CASE q.row.otp_required
      <4>1. GoOn(r, "code")
        BY <1>5, <2>4, <3>2 DEF CheckCacheAndPin
      <4> QED BY <1>3, <2>2, <2>4, <3>1, <3>2, <4>1
    <3>3. CASE ~q.row.otp_required
      <4>1. GoOn(r, "store")
        BY <1>5, <2>4, <3>3 DEF CheckCacheAndPin
      <4> QED BY <1>3, <3>1, <4>1
    <3> QED BY <3>2, <3>3
  <2>5. CASE cache[a] # q.password /\ ~PinRight(q)
    BY <1>4, <1>5, <2>5 DEF CheckCacheAndPin
  <2> QED BY <2>3, <2>4, <2>5
<1>6. CASE CheckCode(r)
  <2>1. q.kind = "code"
    BY <1>6 DEF CheckCode
  <2>2. q.fresh /\ a \notin mixed => Fits(acct[a], q.password)
    BY <1>1, <2>1 DEF Knows
  <2>3. CASE CodeRight(q)
    <3>1. GoOn(r, "store")
      BY <1>6, <2>3 DEF CheckCode
    <3> QED BY <1>3, <2>2, <3>1
  <2>4. CASE ~CodeRight(q)
    BY <1>4, <1>6, <2>4 DEF CheckCode
  <2> QED BY <2>3, <2>4
<1> QED BY <1>5, <1>6

\* A login that nobody overtook is cached with the account's credentials; one
\* that was overtaken makes the account mixed.
LEMMA StoreInv == ASSUME Inv, NEW r \in Logins, StoreLogin(r) PROVE Inv'
<1> DEFINE q == req[r]
           a == q.account
<1>1. /\ r \in Requests /\ a \in Accounts /\ Exists(a) /\ q.password \in Passwords
      /\ (q.fresh => Knows(r)) /\ q.kind = "store"
  BY LoginFacts DEF StoreLogin
<1>2. /\ cache' = [cache EXCEPT ![a] = q.password]
      /\ UNCHANGED <<acct, device, links, secrets, window, pins, handed>>
      /\ CommitAndEnd(r) /\ MarkMixed(r)
  BY DEF StoreLogin, otpTables, given
<1>3. cache \in [Accounts -> Passwords \cup {NoLogin}] /\ handed \in [Accounts -> {0} \cup Pins]
      /\ mixed \subseteq {b \in Accounts : Exists(b)}
  BY DEF Inv, TypeOK, HandedIsPin
<1>4. /\ mixed \subseteq mixed' /\ mixed' \subseteq mixed \cup {a}
      /\ a \notin mixed' => a \notin mixed /\ q.fresh
  BY <1>2 DEF MarkMixed
<1>5. a \notin mixed' => Fits(acct[a], q.password) /\ handed[a] = acct[a].pin
  BY <1>1, <1>4 DEF Knows, Inv, HandedIsPin
<1>6. /\ \A x \in Requests : req'[x] \in IF x \in Logins THEN Attempts \cup {Idle, Refused}
                                          ELSE Changes \cup {Idle}
      /\ \A x \in Requests : Running(req'[x]) /\ req'[x].fresh =>
                               req'[x] = req[x] /\ req[x].account # a
      /\ \A x \in Requests : Running(req'[x]) =>
                               Running(req[x]) /\ req'[x].account = req[x].account
  BY <1>1, <1>2, CommitOvertakes DEF Inv
<1>7. cache'[a] = q.password /\ \A b \in Accounts \ {a} : cache'[b] = cache[b]
  BY <1>1, <1>2, <1>3
<1> HIDE DEF a, q
<1>8. CacheFits' /\ HandedIsPin' /\ FreshKnow'
  BY <1>1, <1>2, <1>3, <1>4, <1>5, <1>6, <1>7, CommitKeeps
<1>9. TypeOK'
  <2>1. cache' \in [Accounts -> Passwords \cup {NoLogin}]
    BY <1>1, <1>2, <1>3
  <2>2. mixed' \subseteq {b \in Accounts : Exists(b)'}
    BY <1>1, <1>2, <1>3, <1>4 DEF Exists
  <2> QED BY <1>2, <1>6, <2>1, <2>2 DEF Inv, TypeOK, Exists, Stored
<1>10. AccountsStay' /\ Indexed' /\ (window \in Nat \ {0})'
  BY <1>2, <1>6 DEF Inv, AccountsStay, Exists, CommitAndEnd, Indexed
<1> QED BY <1>8, <1>9, <1>10 DEF Inv

\* A cached login runs out of time.
LEMMA ExpireInv == ASSUME Inv, NEW a \in Accounts, Expire(a) PROVE Inv'
<1>1. /\ cache' = [cache EXCEPT ![a] = NoLogin]
      /\ UNCHANGED <<acct, device, links, secrets, window, req, pins, handed, mixed>>
  BY DEF Expire, DropLogin, otpTables, given
<1>2. cache \in [Accounts -> Passwords \cup {NoLogin}]
  BY DEF Inv, TypeOK
<1>3. \A b \in Accounts : cache'[b] = IF b = a THEN NoLogin ELSE cache[b]
  BY <1>1, <1>2
<1>4. TypeOK'
  BY <1>1, <1>2 DEF Inv, TypeOK, Exists, Stored
<1>5. CacheFits'
  BY <1>1, <1>3 DEF Inv, CacheFits, Fits
<1>6. FreshKnow'
  <2> SUFFICES ASSUME NEW r \in Requests, Running(req[r]), req[r].fresh PROVE Knows(r)'
    BY <1>1 DEF FreshKnow, Running
  <2>1. Knows(r)
    BY DEF Inv, FreshKnow
  <2>2. req[r].kind = "code" => req[r].account \in Accounts /\ req[r].password # NoLogin
    <3>1. req[r] \in Attempts \cup Changes
      BY DEF Inv, TypeOK, Running
    <3> QED BY <3>1, PasswordIsLogin DEF Attempts, Changes, Kinds
  <2> QED BY <1>1, <1>3, <2>1, <2>2 DEF Knows, Fits
<1>7. HandedIsPin' /\ AccountsStay' /\ Indexed' /\ (window \in Nat \ {0})'
  BY <1>1 DEF Inv, HandedIsPin, AccountsStay, Indexed, Exists, Running
<1> QED BY <1>4, <1>5, <1>6, <1>7 DEF Inv

\* Time passes for codes.
LEMMA WindowInv == ASSUME Inv, PassWindow PROVE Inv'
<1>1. /\ UNCHANGED <<acct, device, links, secrets, cache, req, pins, handed, mixed>>
      /\ window' = window + 1
  BY DEF PassWindow, otpTables, given
<1>2. (window \in Nat \ {0})'
  BY <1>1 DEF Inv
<1> QED BY <1>1, <1>2
    DEF Inv, TypeOK, Indexed, CacheFits, HandedIsPin, FreshKnow, AccountsStay, Knows, Exists,
        Fits, Running, Stored

\* No accounts and no requests.
LEMMA InitInv == Init => Inv
<1> SUFFICES ASSUME Init PROVE Inv
  OBVIOUS
<1>1. TypeOK
  BY DEF Init, TypeOK
<1>2. Indexed
  BY DEF Init, Indexed
<1>3. CacheFits /\ HandedIsPin /\ window \in Nat \ {0}
  BY DEF Init, CacheFits, HandedIsPin, Exists
<1>4. FreshKnow /\ AccountsStay
  BY DEF Init, FreshKnow, AccountsStay, Running
<1> QED BY <1>1, <1>2, <1>3, <1>4 DEF Inv

\* Every step keeps the inductive invariant.
LEMMA NextInv == ASSUME Inv, [Next]_vars PROVE Inv'
<1>1. CASE UNCHANGED vars
  <2>1. UNCHANGED <<acct, cache, window, req, given, mixed>> /\ UNCHANGED <<device, links>>
    BY <1>1 DEF vars, otpTables
  <2> QED BY <2>1, DeviceStep DEF Inv, TypeOK, Stored
<1>2. ASSUME NEW a \in Accounts,
             \/ \E otp \in BOOLEAN :
                   \/ CreateAccount(a, otp)
                   \/ \E status \in Statuses : CreateByApi(a, status, otp)
             \/ \E named \in Stored \cup {NoDevice} : SetOtp(a, named)
             \/ Enable(a)
             \/ Expire(a)
      PROVE  Inv'
  BY <1>2, CreateInv, DevicesInv, EnableInv, ExpireInv
<1>3. ASSUME NEW r \in Commands,
             \/ \E a \in Accounts, kind \in Kinds : ReadAccount(r, kind, a)
             \/ \E named \in Stored \cup {NoDevice} : Reset(r, named)
             \/ Disable(r) \/ SetOtpRequired(r) \/ ResetPin(r) \/ Edit(r)
      PROVE  Inv'
  BY <1>3, ReadInv, SaveInv
<1>4. ASSUME NEW r \in Logins,
             \/ \E a \in Accounts, password \in Typed : StartLogin(r, a, password)
             \/ CheckCacheAndPin(r) \/ CheckCode(r) \/ StoreLogin(r)
      PROVE  Inv'
  BY <1>4, ReadInv, CheckInv, StoreInv
<1>5. ASSUME \E r \in Requests : End(r) PROVE Inv'
  BY <1>5, ReadInv
<1>6. ASSUME NEW d \in Devices,
             \/ AddDevice(d) \/ DisableDevice(d)
             \/ \E status \in Statuses : PostDevice(d, status)
      PROVE  Inv'
  BY <1>6, DevicesInv
<1> QED BY <1>1, <1>2, <1>3, <1>4, <1>5, <1>6, WindowInv DEF Next

\* The inductive invariant holds of every behaviour.
THEOREM Invariance == Spec => []Inv
<1> QED BY InitInv, NextInv, PTL DEF Spec

-----------------------------------------------------------------------------
\* Tables and requests keep their shape, and links lead to stored rows.
THEOREM TypeCorrect == Spec => []TypeOK
<1>1. Inv => TypeOK
  BY DEF Inv
<1> QED BY <1>1, Invariance, PTL

\* A cached login belongs to an ACTIVE account, with its present PIN and with
\* or without a code as the account asks for now, unless an overtaken request
\* wrote to the account.
THEOREM NoOutdatedLogin == Spec => []CachedLoginIsCurrent
<1>1. Inv => CachedLoginIsCurrent
  <2> SUFFICES ASSUME Inv, NEW a \in Accounts \ mixed, cache[a] # NoLogin
               PROVE  /\ acct[a].status = "ACTIVE"
                      /\ cache[a].pin = handed[a]
                      /\ (cache[a].code = NoCode) = ~acct[a].otp_required
    BY DEF CachedLoginIsCurrent
  <2>1. Fits(acct[a], cache[a])
    BY DEF Inv, CacheFits
  <2>2. handed[a] = acct[a].pin
    BY <2>1, ActiveExists DEF Inv, HandedIsPin, Fits
  <2> QED BY <2>1, <2>2 DEF Fits
<1> QED BY <1>1, Invariance, PTL

-----------------------------------------------------------------------------
(* Verdicts.                                                               *)

\* A login's verdict comes only from its own checks.
LEMMA OthersGiveNoVerdict ==
  ASSUME Inv, [Next]_vars, NEW r \in Logins, req[r].kind \in {"cache", "code"},
         ~CheckCacheAndPin(r), ~CheckCode(r)
  PROVE  req'[r].kind \notin {"store", "refused"}
<1>1. /\ r \in Requests /\ req[r] \in Attempts /\ DOMAIN req = Requests
      /\ req = [x \in Requests |-> req[x]]
  BY LoginFacts DEF Inv, Indexed
<1>2. Idle.kind = "idle" /\ req[r] # Idle
  BY DEF Idle
<1>3. \A a \in Accounts : Overtaken(req[r], a).kind = req[r].kind
  BY <1>1 DEF Overtaken, Attempts
<1>4. CASE req'[r] = req[r]
  BY <1>4
<1>5. CASE req'[r] = Idle \/ \E a \in Accounts : req'[r] = Overtaken(req[r], a)
  BY <1>2, <1>3, <1>5
<1>6. ASSUME NEW a \in Accounts, Commit(a)
      PROVE  req'[r] = Overtaken(req[r], a)
  BY <1>1, <1>6 DEF Commit
<1>7. ASSUME NEW x \in Requests, CommitAndEnd(x), req[x].account \in Accounts
      PROVE  req'[r] = Idle \/ \E a \in Accounts : req'[r] = Overtaken(req[r], a)
  BY <1>1, <1>7 DEF CommitAndEnd
<1>8. ASSUME NEW a \in Accounts,
             \/ \E otp \in BOOLEAN :
                   \/ CreateAccount(a, otp)
                   \/ \E status \in Statuses : CreateByApi(a, status, otp)
             \/ Enable(a)
      PROVE  \E b \in Accounts : req'[r] = Overtaken(req[r], b)
  BY <1>6, <1>8 DEF CreateAccount, CreateByApi, Enable
<1>9. ASSUME NEW x \in Commands,
             \/ \E named \in Stored \cup {NoDevice} : Reset(x, named)
             \/ Disable(x) \/ SetOtpRequired(x) \/ ResetPin(x) \/ Edit(x)
      PROVE  req'[r] = Idle \/ \E a \in Accounts : req'[r] = Overtaken(req[r], a)
  <2>1. CommitAndEnd(x) /\ req[x].kind \in Kinds
    BY <1>9 DEF Reset, Disable, SetOtpRequired, ResetPin, Edit, Kinds
  <2> QED BY <1>7, <2>1, CommandFacts
<1>10. ASSUME NEW x \in Logins, StoreLogin(x)
       PROVE  req'[r] = Idle \/ \E a \in Accounts : req'[r] = Overtaken(req[r], a)
  <2>1. CommitAndEnd(x) /\ req[x].kind = "store"
    BY <1>10 DEF StoreLogin
  <2> QED BY <1>7, <2>1, LoginFacts
<1>11. ASSUME NEW x \in Requests, NEW q, Start(x, q) PROVE req'[r] = req[r]
  BY <1>1, <1>2, <1>11 DEF Start
<1>12. ASSUME NEW x \in Logins, CheckCacheAndPin(x) \/ CheckCode(x) PROVE req'[r] = req[r]
  <2>1. x # r
    BY <1>12
  <2> QED BY <1>1, <1>12, <2>1 DEF CheckCacheAndPin, CheckCode, GoOn
<1>13. ASSUME NEW x \in Requests, End(x) PROVE req'[r] = req[r] \/ req'[r] = Idle
  BY <1>1, <1>13 DEF End
<1>14. ASSUME \/ UNCHANGED vars \/ PassWindow
              \/ \E a \in Accounts : \/ Expire(a)
                                    \/ \E named \in Stored \cup {NoDevice} : SetOtp(a, named)
              \/ \E d \in Devices : \/ AddDevice(d) \/ DisableDevice(d)
                                    \/ \E status \in Statuses : PostDevice(d, status)
       PROVE  req'[r] = req[r]
  BY <1>14 DEF vars, PassWindow, Expire, SetOtp, AddDevice, DisableDevice, PostDevice
<1>15. ASSUME \/ \E x \in Commands, a \in Accounts, kind \in Kinds : ReadAccount(x, kind, a)
              \/ \E x \in Logins, a \in Accounts, password \in Typed : StartLogin(x, a, password)
       PROVE  req'[r] = req[r]
  BY <1>11, <1>15 DEF ReadAccount, StartLogin, Requests
<1> QED BY <1>4, <1>5, <1>8, <1>9, <1>10, <1>12, <1>13, <1>14, <1>15 DEF Next

\* A login that nobody overtakes is let in just if its password is the cached
\* login, or the PIN its user was given with a valid code of one of the active
\* devices the account has, if it needs one.
THEOREM VerdictsRight == Spec => LoginVerdictIsRight
<1> DEFINE Right ==
      \A r \in Logins :
        LET q == req[r] IN
        /\ q.kind \in {"cache", "code"} /\ q.fresh /\ q.account \notin mixed
        /\ req'[r].kind \in {"store", "refused"}
        => (req'[r].kind = "store") = Opens(q.account, q.password)
<1>1. ASSUME Inv, [Next]_vars PROVE Right
  <2> SUFFICES ASSUME NEW r \in Logins, req[r].kind \in {"cache", "code"}, req[r].fresh,
                      req[r].account \notin mixed, req'[r].kind \in {"store", "refused"}
               PROVE  (req'[r].kind = "store") = Opens(req[r].account, req[r].password)
    OBVIOUS
  <2> DEFINE q == req[r]
             a == q.account
             p == q.password
  <2>1. /\ r \in Requests /\ q \in Attempts /\ a \in Accounts /\ Exists(a) /\ Knows(r)
        /\ DOMAIN req = Requests
    BY <1>1, LoginFacts DEF Inv, Indexed
  <2>2. handed[a] = acct[a].pin /\ window \in Nat \ {0} /\ acct[a].otp_required \in BOOLEAN
    <3>1. acct[a] \in Rows
      BY <1>1, <2>1 DEF Inv, TypeOK, Exists
    <3> QED BY <1>1, <2>1, <3>1 DEF Inv, HandedIsPin, Rows
  <2>3. CheckCacheAndPin(r) \/ CheckCode(r)
    BY <1>1, OthersGiveNoVerdict
  <2>4. \A kind : GoOn(r, kind) => IF kind = "refused" THEN req'[r] = Refused
                                   ELSE req'[r].kind = kind
    BY <2>1 DEF GoOn, Attempts
  <2>5. Refused.kind = "refused"
    BY DEF Refused
  <2>6. CASE CheckCacheAndPin(r)
    <3>1. q.kind = "cache" /\ q.row = acct[a]
      BY <2>1, <2>6 DEF CheckCacheAndPin, Knows
    <3>2. CASE cache[a] = p
      <4>1. req'[r].kind = "store"
        BY <2>4, <2>6, <3>2 DEF CheckCacheAndPin
      <4> QED BY <3>2, <4>1 DEF Opens
    <3>3. CASE cache[a] # p /\ PinRight(q)
      <4>1. ~q.row.otp_required /\ req'[r].kind = "store"
        BY <2>4, <2>6, <3>3 DEF CheckCacheAndPin
      <4>2. p.pin = acct[a].pin /\ p.code = NoCode
        BY <3>1, <3>3, <4>1 DEF PinRight
      <4> QED BY <2>2, <3>1, <4>1, <4>2 DEF Opens
    <3>4. CASE cache[a] # p /\ ~PinRight(q)
      <4>1. req'[r].kind = "refused"
        BY <2>4, <2>5, <2>6, <3>4 DEF CheckCacheAndPin
      <4>2. ~Opens(a, p)
        <5>1. CASE p.pin # acct[a].pin
          BY <2>2, <3>4, <5>1 DEF Opens
        <5>2. CASE p.pin = acct[a].pin /\ acct[a].otp_required /\ p.code = NoCode
          <6>1. p.code.window # window
            BY <2>2, <5>2 DEF NoCode
          <6> QED BY <3>4, <5>2, <6>1 DEF Opens
        <5>3. CASE p.pin = acct[a].pin /\ ~acct[a].otp_required /\ p.code # NoCode
          BY <3>4, <5>3 DEF Opens
        <5> QED BY <2>2, <3>1, <3>4, <5>1, <5>2, <5>3 DEF PinRight
      <4> QED BY <4>1, <4>2 DEF Opens
    <3> QED BY <3>2, <3>3, <3>4
  <2>7. CASE CheckCode(r)
    <3>1. q.kind = "code" /\ cache[a] # p /\ acct[a].otp_required /\ Fits(acct[a], p)
      BY <2>1, <2>7 DEF CheckCode, Knows
    <3>2. CodeRight(q) <=> Opens(a, p)
      <4>1. CodeRight(q) <=> /\ p.code.window = window
                             /\ \E d \in Devices : /\ <<a, d>> \in links
                                                   /\ device[d].status = "ACTIVE"
                                                   /\ device[d].secret = p.code.secret
        <5>1. \A d \in Devices : device[d].status = "ACTIVE" => d \in Stored
          BY DEF Stored, NoDevice
        <5> QED BY <5>1 DEF CodeRight, DevicesOf, Stored
      <4> QED BY <2>2, <3>1, <4>1 DEF Opens, Fits
    <3>3. req'[r].kind = IF CodeRight(q) THEN "store" ELSE "refused"
      BY <2>4, <2>5, <2>7 DEF CheckCode
    <3> QED BY <3>2, <3>3 DEF Opens
  <2> QED BY <2>3, <2>6, <2>7
<1>2. Inv /\ [Next]_vars => [Right]_vars
  BY <1>1
<1> QED BY <1>2, Invariance, PTL DEF Spec, LoginVerdictIsRight

-----------------------------------------------------------------------------
(* What a command hands out.                                               *)

\* No row, stored or read, has a PIN that was not generated yet, so that a reset
\* really changes the row it saves.
PinsGiven ==
  /\ pins \in Nat
  /\ \A a \in Accounts : acct[a].pin <= pins
  /\ \A r \in Commands : req[r].kind \in Kinds => req[r].row.pin <= pins

\* A command's row is the one it had, or one that is stored.
RowFromTable(r) ==
  req'[r].kind \in Kinds =>
    \/ req[r].kind \in Kinds /\ req'[r].row = req[r].row
    \/ \E a \in Accounts : req'[r].row = acct[a]

\* Only reading an account changes the row that a command goes by.
LEMMA RowsFromTable ==
  ASSUME Inv, [Next]_vars, NEW r \in Commands
  PROVE  RowFromTable(r)
<1>1. /\ r \in Requests /\ r \notin Logins
      /\ req[r] \in Changes \cup {Idle} /\ req = [x \in Requests |-> req[x]]
  BY RequestsAssumption DEF Requests, Inv, TypeOK, Indexed
<1>2. Idle.kind \notin Kinds
  BY DEF Idle, Kinds
<1>3. \A a \in Accounts : Overtaken(req[r], a).kind = req[r].kind
                          /\ (req[r] \in Changes => Overtaken(req[r], a).row = req[r].row)
  BY <1>1 DEF Overtaken, Changes, Running
<1>4. CASE req'[r] = req[r] \/ req'[r] = Idle
  BY <1>2, <1>4 DEF RowFromTable
<1>5. CASE \E a \in Accounts : req'[r] = Overtaken(req[r], a)
  BY <1>1, <1>2, <1>3, <1>5 DEF RowFromTable
<1>6. ASSUME NEW a \in Accounts, Commit(a)
      PROVE  req'[r] = Overtaken(req[r], a)
  BY <1>1, <1>6 DEF Commit
<1>7. ASSUME NEW x \in Requests, CommitAndEnd(x), req[x].account \in Accounts
      PROVE  req'[r] = Idle \/ \E a \in Accounts : req'[r] = Overtaken(req[r], a)
  BY <1>1, <1>7 DEF CommitAndEnd
<1>8. ASSUME NEW a \in Accounts,
             \/ \E otp \in BOOLEAN :
                   \/ CreateAccount(a, otp)
                   \/ \E status \in Statuses : CreateByApi(a, status, otp)
             \/ Enable(a)
      PROVE  \E b \in Accounts : req'[r] = Overtaken(req[r], b)
  BY <1>6, <1>8 DEF CreateAccount, CreateByApi, Enable
<1>9. ASSUME NEW x \in Commands,
             \/ \E named \in Stored \cup {NoDevice} : Reset(x, named)
             \/ Disable(x) \/ SetOtpRequired(x) \/ ResetPin(x) \/ Edit(x)
      PROVE  req'[r] = Idle \/ \E a \in Accounts : req'[r] = Overtaken(req[r], a)
  <2>1. CommitAndEnd(x) /\ req[x].kind \in Kinds
    BY <1>9 DEF Reset, Disable, SetOtpRequired, ResetPin, Edit, Kinds
  <2> QED BY <1>7, <2>1, CommandFacts
<1>10. ASSUME NEW x \in Logins, StoreLogin(x)
       PROVE  req'[r] = Idle \/ \E a \in Accounts : req'[r] = Overtaken(req[r], a)
  <2>1. CommitAndEnd(x) /\ req[x].kind = "store"
    BY <1>10 DEF StoreLogin
  <2> QED BY <1>7, <2>1, LoginFacts
<1>11. ASSUME NEW x \in Commands, NEW a \in Accounts, NEW kind \in Kinds, ReadAccount(x, kind, a)
       PROVE  RowFromTable(r)
  <2>1. CASE x = r
    <3>1. req'[r] = [kind |-> kind, account |-> a, row |-> acct[a], fresh |-> TRUE]
      BY <1>1, <1>11, <2>1 DEF ReadAccount, Start
    <3> QED BY <3>1 DEF RowFromTable
  <2>2. CASE x # r
    <3>1. req'[r] = req[r]
      BY <1>1, <1>11, <2>2 DEF ReadAccount, Start
    <3> QED BY <3>1, <1>4
  <2> QED BY <2>1, <2>2
<1>12. ASSUME NEW x \in Logins,
              \/ \E a \in Accounts, password \in Typed : StartLogin(x, a, password)
              \/ CheckCacheAndPin(x) \/ CheckCode(x)
       PROVE  req'[r] = req[r]
  BY <1>1, <1>12 DEF StartLogin, Start, CheckCacheAndPin, CheckCode, GoOn
<1>13. ASSUME NEW x \in Requests, End(x) PROVE req'[r] = req[r] \/ req'[r] = Idle
  BY <1>1, <1>13 DEF End
<1>14. ASSUME \/ UNCHANGED vars \/ PassWindow
              \/ \E a \in Accounts : \/ Expire(a)
                                    \/ \E named \in Stored \cup {NoDevice} : SetOtp(a, named)
              \/ \E d \in Devices : \/ AddDevice(d) \/ DisableDevice(d)
                                    \/ \E status \in Statuses : PostDevice(d, status)
       PROVE  req'[r] = req[r]
  BY <1>14 DEF vars, PassWindow, Expire, SetOtp, AddDevice, DisableDevice, PostDevice
<1> QED BY <1>4, <1>5, <1>8, <1>9, <1>10, <1>11, <1>12, <1>13, <1>14 DEF Next

\* PINs are counted up, and an account gets the new one or keeps one that some
\* command read.
LEMMA PinsCount ==
  ASSUME Inv, PinsGiven, [Next]_vars
  PROVE  /\ pins' \in Nat /\ pins <= pins'
         /\ \A b \in Accounts : acct'[b].pin <= pins'
<1>1. /\ pins \in Nat /\ NewPin = pins + 1
      /\ acct \in [Accounts -> Rows \cup {NoRow}]
      /\ \A b \in Accounts : acct[b].pin \in Nat /\ acct[b].pin <= pins
  <2>1. \A row \in Rows \cup {NoRow} : row.pin \in Nat
    BY BoundAssumption DEF Rows, NoRow, Pins
  <2> QED BY <2>1 DEF PinsGiven, NewPin, Inv, TypeOK
<1>2. ASSUME NEW a \in Accounts, NEW row, row.pin <= pins', pins' \in {pins, NewPin},
             acct' = acct \/ acct' = [acct EXCEPT ![a] = row]
      PROVE  /\ pins' \in Nat /\ pins <= pins'
             /\ \A b \in Accounts : acct'[b].pin <= pins'
  BY <1>1, <1>2
<1>3. CASE UNCHANGED <<acct, pins>>
  BY <1>1, <1>3
<1>4. ASSUME NEW a \in Accounts,
             \/ \E otp \in BOOLEAN :
                   \/ CreateAccount(a, otp)
                   \/ \E status \in Statuses : CreateByApi(a, status, otp)
             \/ Enable(a)
      PROVE  /\ pins' \in Nat /\ pins <= pins'
             /\ \A b \in Accounts : acct'[b].pin <= pins'
  <2>1. CASE Enable(a)
    <3>1. acct[a] \in Rows /\ pins' = pins
      BY <1>1, <2>1 DEF Enable, given, NoRow
    <3>2. [acct[a] EXCEPT !.status = "ACTIVE"].pin = acct[a].pin
      BY <3>1 DEF Rows
    <3>3. acct' = [acct EXCEPT ![a] = [acct[a] EXCEPT !.status = "ACTIVE"]]
      BY <2>1 DEF Enable
    <3> QED BY <1>1, <1>2, <3>1, <3>2, <3>3
  <2>2. ASSUME NEW otp \in BOOLEAN, NEW status, pins' = NewPin,
               acct' = [acct EXCEPT ![a] = [status |-> status, pin |-> NewPin, otp_required |-> otp]]
        PROVE  /\ pins' \in Nat /\ pins <= pins'
               /\ \A b \in Accounts : acct'[b].pin <= pins'
    BY <1>1, <1>2, <2>2
  <2> QED BY <1>4, <2>1, <2>2 DEF CreateAccount, CreateByApi, GivePin
<1>5. ASSUME NEW r \in Commands,
             \/ \E named \in Stored \cup {NoDevice} : Reset(r, named)
             \/ Disable(r) \/ SetOtpRequired(r) \/ ResetPin(r) \/ Edit(r)
      PROVE  /\ pins' \in Nat /\ pins <= pins'
             /\ \A b \in Accounts : acct'[b].pin <= pins'
  <2> DEFINE q == req[r]
  <2>1. q.kind \in Kinds
    BY <1>5 DEF Reset, Disable, SetOtpRequired, ResetPin, Edit, Kinds
  <2>2. q.account \in Accounts /\ q.row \in Rows /\ q.row.pin <= pins
    BY <2>1, CommandFacts DEF PinsGiven
  <2>3. \A required : /\ [q.row EXCEPT !.status = "DISABLED"].pin = q.row.pin
                      /\ [q.row EXCEPT !.otp_required = required].pin = q.row.pin
                      /\ [q.row EXCEPT !.pin = NewPin].pin = NewPin
    BY <2>2 DEF Rows
  <2>4. CASE Disable(r)
    BY <1>1, <1>2, <2>2, <2>3, <2>4 DEF Disable, Save, given
  <2>5. CASE SetOtpRequired(r)
    <3>1. \E required : Save(q, [q.row EXCEPT !.otp_required = required])
      BY <2>5 DEF SetOtpRequired
    <3>2. PICK required : Save(q, [q.row EXCEPT !.otp_required = required])
      BY <3>1
    <3>3. pins' = pins
      BY <2>5 DEF SetOtpRequired, given
    <3> QED BY <1>1, <1>2, <2>2, <2>3, <3>2, <3>3 DEF Save
  <2>6. CASE ResetPin(r) \/ \E named \in Stored \cup {NoDevice} : Reset(r, named)
    <3>1. Save(q, [q.row EXCEPT !.pin = NewPin]) /\ pins' = NewPin
      BY <2>6 DEF ResetPin, Reset, GivePin
    <3>2. NewPin <= pins'
      BY <1>1, <3>1
    <3> QED BY <1>1, <1>2, <2>2, <2>3, <3>1, <3>2 DEF Save
  <2>7. CASE Edit(r)
    BY <1>1, <1>2, <2>2, <2>7 DEF Edit, given
  <2> QED BY <1>5, <2>4, <2>5, <2>6, <2>7
<1>6. ASSUME \/ \E a \in Accounts : \/ Expire(a)
                                    \/ \E named \in Stored \cup {NoDevice} : SetOtp(a, named)
             \/ \E d \in Devices : \/ AddDevice(d) \/ DisableDevice(d)
                                    \/ \E status \in Statuses : PostDevice(d, status)
             \/ \E r \in Commands, a \in Accounts, kind \in Kinds : ReadAccount(r, kind, a)
             \/ \E r \in Logins : \/ \E a \in Accounts, password \in Typed : StartLogin(r, a, password)
                                  \/ CheckCacheAndPin(r) \/ CheckCode(r) \/ StoreLogin(r)
             \/ \E r \in Requests : End(r)
             \/ PassWindow \/ UNCHANGED vars
      PROVE  UNCHANGED <<acct, pins>>
  BY <1>6 DEF Expire, SetOtp, AddDevice, DisableDevice, PostDevice, ReadAccount, StartLogin, Start,
              CheckCacheAndPin, CheckCode, GoOn, StoreLogin, End, PassWindow, vars, given
<1> QED BY <1>3, <1>4, <1>5, <1>6 DEF Next

\* No row ever has a PIN beyond those generated.
LEMMA PinsAreGiven == Spec => []PinsGiven
<1>1. ASSUME Init PROVE PinsGiven
  <2>1. Idle.kind \notin Kinds /\ NoRow.pin = 0
    BY DEF Idle, Kinds, NoRow
  <2>2. \A r \in Commands : req[r] = Idle
    BY <1>1 DEF Init, Requests
  <2>3. pins = 0 /\ \A a \in Accounts : acct[a] = NoRow
    BY <1>1 DEF Init
  <2> QED BY <2>1, <2>2, <2>3 DEF PinsGiven
<1>2. ASSUME Inv, PinsGiven, [Next]_vars PROVE PinsGiven'
  <2>1. /\ pins \in Nat /\ pins' \in Nat /\ pins <= pins'
        /\ \A b \in Accounts : acct'[b].pin <= pins'
    BY <1>2, PinsCount DEF PinsGiven
  <2>2. ASSUME NEW r \in Commands, req'[r].kind \in Kinds
        PROVE  req'[r].row.pin <= pins'
    <3>1. CASE req[r].kind \in Kinds /\ req'[r].row = req[r].row
      <4>1. req[r].row.pin \in Nat
        BY <1>2, <3>1, CommandFacts, BoundAssumption DEF Rows, Pins
      <4> QED BY <1>2, <2>1, <3>1, <4>1 DEF PinsGiven
    <3>2. ASSUME NEW a \in Accounts, req'[r].row = acct[a]
          PROVE  req'[r].row.pin <= pins'
      <4>1. \A row \in Rows \cup {NoRow} : row.pin \in Nat
        BY BoundAssumption DEF Rows, NoRow, Pins
      <4>2. acct[a].pin \in Nat
        BY <1>2, <4>1 DEF Inv, TypeOK
      <4> QED BY <1>2, <2>1, <3>2, <4>2 DEF PinsGiven
    <3> QED BY <1>2, <2>2, <3>1, <3>2, RowsFromTable DEF RowFromTable
  <2> QED BY <2>1, <2>2 DEF PinsGiven
<1> QED BY <1>1, <1>2, Invariance, PTL DEF Spec

\* A device that a command chooses by itself is active once it is assigned.
LEMMA ChosenIsActive ==
  ASSUME TypeOK, NEW a \in Accounts, NEW d \in Choices(NoDevice), NEW kept,
         NEW resetting \in BOOLEAN, Assign(a, d, kept, resetting)
  PROVE  /\ d \in Devices /\ <<a, d>> \in links'
         /\ device'[d].status = "ACTIVE"
         /\ resetting => device'[d].secret = secrets'
<1>1. device \in [Devices -> DeviceRows \cup {NoDevice}] /\ d \in Devices
  BY ChoicesAreDevices DEF TypeOK
<1>2. <<a, d>> \in links'
  BY DEF Assign
<1>3. CASE d \notin Stored
  BY <1>1, <1>2, <1>3 DEF Assign
<1>4. CASE d \in Stored
  <2>1. device[d].status = "ACTIVE" /\ device[d] \in DeviceRows
    <3>1. d \in Usable
      BY <1>4 DEF Choices
    <3> QED BY <1>1, <3>1 DEF Usable, Stored
  <2>2. [device[d] EXCEPT !.secret = NewSecret].status = "ACTIVE"
        /\ [device[d] EXCEPT !.secret = NewSecret].secret = NewSecret
    BY <2>1 DEF DeviceRows
  <2>3. device'[d] = IF resetting THEN [device[d] EXCEPT !.secret = NewSecret] ELSE device[d]
    BY <1>1, <1>4 DEF Assign
  <2>4. resetting => secrets' = NewSecret
    BY DEF Assign
  <2> QED BY <1>1, <1>2, <2>1, <2>2, <2>3, <2>4
<1> QED BY <1>3, <1>4

\* A command that assigns a device by itself leaves an account that needs a code
\* with an active device; a reset gives that device the secret it prints.
THEOREM HandedOutWorks == Spec => HandedCredentialsWork
<1> DEFINE Works ==
      \A a \in Accounts :
        LET resets == \E r \in Commands : req[r].kind = "reset" /\ req[r].account = a
                                          /\ Reset(r, NoDevice)
        IN /\ resets \/ CreateAccount(a, TRUE) \/ SetOtp(a, NoDevice)
           /\ acct'[a].otp_required
           => \E d \in Devices : /\ <<a, d>> \in links'
                                 /\ device'[d].status = "ACTIVE"
                                 /\ resets => device'[d].secret = secrets'
<1>1. ASSUME Inv, PinsGiven PROVE Works
  <2>1. ASSUME NEW a \in Accounts, acct'[a].otp_required, NEW r \in Commands,
               req[r].kind = "reset", req[r].account = a, Reset(r, NoDevice)
        PROVE  \E d \in Devices : /\ <<a, d>> \in links'
                                  /\ device'[d].status = "ACTIVE"
                                  /\ device'[d].secret = secrets'
    <3>1. req[r].row \in Rows /\ acct \in [Accounts -> Rows \cup {NoRow}] /\ req[r].kind \in Kinds
      BY <1>1, <2>1, CommandFacts DEF Kinds, Inv, TypeOK
    <3>2. /\ [req[r].row EXCEPT !.pin = NewPin].pin = NewPin
          /\ [req[r].row EXCEPT !.pin = NewPin].otp_required = req[r].row.otp_required
      BY <3>1 DEF Rows
    <3>3. req[r].row.pin # NewPin
      BY <1>1, <3>1, BoundAssumption DEF PinsGiven, NewPin, Rows, Pins
    <3>4. acct' = [acct EXCEPT ![a] = [req[r].row EXCEPT !.pin = NewPin]]
      BY <2>1, <3>2, <3>3 DEF Reset, Save
    <3>5. req[r].row.otp_required
      BY <2>1, <3>1, <3>2, <3>4
    <3>6. \E d \in Choices(NoDevice) : Assign(a, d, links, TRUE)
      BY <2>1, <3>5 DEF Reset
    <3> QED BY <1>1, <3>6, ChosenIsActive DEF Inv
  <2>2. ASSUME NEW a \in Accounts, CreateAccount(a, TRUE) \/ SetOtp(a, NoDevice)
        PROVE  \E d \in Devices : <<a, d>> \in links' /\ device'[d].status = "ACTIVE"
    <3>1. \E d \in Choices(NoDevice), kept \in SUBSET links : Assign(a, d, kept, FALSE)
      BY <2>2 DEF CreateAccount, SetOtp
    <3> QED BY <1>1, <3>1, ChosenIsActive DEF Inv
  <2> QED BY <2>1, <2>2
<1>2. Inv /\ PinsGiven => [Works]_vars
  BY <1>1
<1> QED BY <1>2, Invariance, PinsAreGiven, PTL DEF HandedCredentialsWork
=============================================================================
