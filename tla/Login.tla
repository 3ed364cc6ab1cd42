------------------------------- MODULE Login -------------------------------
(***************************************************************************)
(* Logging in: an account's PIN and OTP devices, the login that is cached  *)
(* so that a client can reconnect with the same password, and the commands *)
(* that change an account's credentials and drop the cached login.         *)
(*                                                                         *)
(* The accounts and devices are those of one user: devices are looked up   *)
(* by user, and a device serves all accounts of its user.  A command reads *)
(* the account's row and may write it back whole; a login reads the        *)
(* account, the cached login and the devices one after the other.  Others  *)
(* commit in between.  Caching is on (auth_cache_ttl_hours > 0).           *)
(***************************************************************************)
EXTENDS Integers, FiniteSets

CONSTANTS
  Accounts,
  Devices,      \* OTP device rows that may be created
  Logins,       \* POST /v1/auth/ requests that run at a time
  Commands,     \* command-line invocations that run at a time
  MaxPin,       \* bound of the number of PINs generated
  MaxSecret,    \* bound of the number of OTP secrets generated
  Windows       \* periods in which an OTP code is valid: 1..Windows

ASSUME BoundAssumption == MaxPin \in Nat /\ MaxSecret \in Nat /\ Windows \in Nat \ {0}
ASSUME RequestsAssumption == Logins \cap Commands = {}

VARIABLES
  acct,         \* table accounts
  device,       \* table otp_devices
  links,        \* table account_otp_devices, as pairs <<account, device>>
  cache,        \* table account_auth_cache: unexpired entries
  window,       \* the present period
  req,          \* what each login or command read and is about to do
  pins,         \* PINs generated so far
  secrets,      \* OTP secrets generated so far
  handed,       \* the PIN each account was last given (history)
  mixed         \* accounts that an overtaken request wrote to (history)

otpTables == <<device, links, secrets>>
given == <<pins, handed>>
vars == <<acct, otpTables, cache, window, req, given, mixed>>

-----------------------------------------------------------------------------
(* Tables, passwords and requests.                                         *)

Pins == 1..MaxPin
Secrets == 1..MaxSecret
Statuses == {"ACTIVE", "DISABLED"}

Rows == [status : Statuses, pin : Pins, otp_required : BOOLEAN]
NoRow == [status |-> "absent", pin |-> 0, otp_required |-> FALSE]

\* Mutant: a command goes on with an account it did not find.
ExistsAlways(a) == TRUE

Exists(a) == acct[a] # NoRow

DeviceRows == [status : Statuses, secret : Secrets]
NoDevice == [status |-> "absent", secret |-> 0]
Stored == {d \in Devices : device[d] # NoDevice}

\* What a user types: the PIN, and after it perhaps the code an OTP secret
\* yields in some period.
NoCode == [secret |-> 0, window |-> 0]
Codes == [secret : Secrets, window : 1..Windows]
Passwords == [pin : Pins, code : Codes \cup {NoCode}]
NoLogin == [pin |-> 0, code |-> NoCode]

\* A request in flight and the account's row as it read it.  fresh is a history
\* variable: nobody has since changed that row or the account's cached login.
Idle == [kind |-> "idle"]
Refused == [kind |-> "refused"]
Attempts == [kind : {"cache", "code", "store"}, account : Accounts,
             row : Rows \cup {NoRow}, password : Passwords, fresh : BOOLEAN]
Kinds == {"disable", "otp on", "otp off", "reset", "reset pin", "edit"}
Changes == [kind : Kinds, account : Accounts, row : Rows, fresh : BOOLEAN]
Requests == Logins \cup Commands
Running(q) == q \notin {Idle, Refused}

Init ==
  /\ acct = [a \in Accounts |-> NoRow]
  /\ device = [d \in Devices |-> NoDevice]
  /\ links = {}
  /\ cache = [a \in Accounts |-> NoLogin]
  /\ window = 1
  /\ req = [r \in Requests |-> Idle]
  /\ pins = 0 /\ secrets = 0
  /\ handed = [a \in Accounts |-> 0]
  /\ mixed = {}

\* A request's first read.
Start(r, request) ==
  /\ req[r] = Idle
  /\ req' = [req EXCEPT ![r] = request]
  /\ UNCHANGED <<acct, otpTables, cache, window, given, mixed>>

Overtaken(q, a) == IF Running(q) /\ q.account = a THEN [q EXCEPT !.fresh = FALSE] ELSE q

\* Somebody changes a's row or cached login.
Commit(a) == req' = [r \in Requests |-> Overtaken(req[r], a)]

\* Request r commits and ends.
CommitAndEnd(r) ==
  req' = [q \in Requests |-> IF q = r THEN Idle ELSE Overtaken(req[q], req[r].account)]

\* What an overtaken request writes may not agree with what it does not write.
MarkMixed(r) == mixed' = IF req[r].fresh THEN mixed ELSE mixed \cup {req[r].account}

-----------------------------------------------------------------------------
(* OTP devices.                                                            *)

\* Mutant: disabled devices count.
StoredUsable == Stored

\* The devices a command finds by itself.
Usable == {d \in Stored : device[d].status = "ACTIVE"}

NewSecret == secrets + 1

\* _resolve_otp_device: the device named; else the user's only active one, or a
\* new one if there is none; of several it does not choose, and the command ends.
Choices(named) ==
  IF named # NoDevice THEN {named}
  ELSE IF Usable = {} THEN Devices \ Stored
  ELSE IF Cardinality(Usable) = 1 THEN Usable
  ELSE {}

\* Account a gets device d, which is created or, by a reset, given another
\* secret; kept are the links that stay.
Assign(a, d, kept, resetting) ==
  LET renewed == resetting \/ d \notin Stored IN
  /\ renewed => NewSecret \in Secrets
  /\ device' = [device EXCEPT ![d] =
                  IF d \notin Stored THEN [status |-> "ACTIVE", secret |-> NewSecret]
                  ELSE IF renewed THEN [@ EXCEPT !.secret = NewSecret] ELSE @]
  /\ links' = kept \cup {<<a, d>>}
  /\ secrets' = IF renewed THEN NewSecret ELSE secrets

\* otp-add: a new device, for all the user's active accounts.
AddDevice(d) ==
  /\ d \notin Stored
  /\ NewSecret \in Secrets
  /\ device' = [device EXCEPT ![d] = [status |-> "ACTIVE", secret |-> NewSecret]]
  /\ links' = links \cup {<<a, d>> : a \in {b \in Accounts : acct[b].status = "ACTIVE"}}
  /\ secrets' = NewSecret
  /\ UNCHANGED <<acct, cache, window, req, given, mixed>>

\* POST /v1/otp_devices/: a device with a status of the caller's choice, for no
\* account yet.
PostDevice(d, status) ==
  /\ d \notin Stored
  /\ NewSecret \in Secrets
  /\ device' = [device EXCEPT ![d] = [status |-> status, secret |-> NewSecret]]
  /\ secrets' = NewSecret
  /\ UNCHANGED <<acct, links, cache, window, req, given, mixed>>

\* otp-remove.
DisableDevice(d) ==
  /\ d \in Usable
  /\ device' = [device EXCEPT ![d].status = "DISABLED"]
  /\ UNCHANGED <<acct, links, secrets, cache, window, req, given, mixed>>

\* account-set-otp; it changes links and devices only.
SetOtp(a, named) ==
  /\ Exists(a)
  /\ \E d \in Choices(named) :
        Assign(a, d, {l \in links : l[1] # a}, FALSE)
  /\ UNCHANGED <<acct, cache, window, req, given, mixed>>

-----------------------------------------------------------------------------
(* Accounts.                                                               *)

NewPin == pins + 1

GivePin(a) == pins' = NewPin /\ handed' = [handed EXCEPT ![a] = NewPin]

\* account-create, with --no-otp or not.
CreateAccount(a, otp) ==
  /\ ~Exists(a)
  /\ NewPin \in Pins
  /\ acct' = [acct EXCEPT ![a] = [status |-> "ACTIVE", pin |-> NewPin, otp_required |-> otp]]
  /\ GivePin(a)
  /\ IF otp THEN \E d \in Choices(NoDevice) : Assign(a, d, links, FALSE)
     ELSE UNCHANGED otpTables
  /\ Commit(a)
  /\ UNCHANGED <<cache, window, mixed>>

\* POST /v1/accounts/: no device, and a status of the caller's choice.
CreateByApi(a, status, otp) ==
  /\ ~Exists(a)
  /\ NewPin \in Pins
  /\ acct' = [acct EXCEPT ![a] = [status |-> status, pin |-> NewPin, otp_required |-> otp]]
  /\ GivePin(a)
  /\ Commit(a)
  /\ UNCHANGED <<otpTables, cache, window, mixed>>

ReadAccount(r, kind, a) ==
  /\ Exists(a)
  /\ Start(r, [kind |-> kind, account |-> a, row |-> acct[a], fresh |-> TRUE])

\* save() writes only a row that was changed, and then all of it.
Save(q, row) ==
  acct' = IF row = q.row THEN acct ELSE [acct EXCEPT ![q.account] = row]

DropLogin(a) == cache' = [cache EXCEPT ![a] = NoLogin]

\* account-disable drops the cached login, even of an account disabled before.
Disable(r) ==
  LET q == req[r] IN
  /\ q.kind = "disable"
  /\ Save(q, [q.row EXCEPT !.status = "DISABLED"])
  /\ DropLogin(q.account)
  /\ CommitAndEnd(r) /\ MarkMixed(r)
  /\ UNCHANGED <<otpTables, window, given>>

\* Mutant: turning the requirement off leaves the cached login.
TogglesOn(q, required) == required /\ ~q.row.otp_required

Toggles(q, required) == q.row.otp_required # required

\* account-otp-required on | off
SetOtpRequired(r) ==
  LET q == req[r]
      required == q.kind = "otp on"
  IN /\ q.kind \in {"otp on", "otp off"}
     /\ Save(q, [q.row EXCEPT !.otp_required = required])
     /\ IF Toggles(q, required) THEN DropLogin(q.account) ELSE UNCHANGED cache
     /\ CommitAndEnd(r) /\ MarkMixed(r)
     /\ UNCHANGED <<otpTables, window, given>>

\* account-reset, after the operator's confirmation: PIN, cached login, device.
Reset(r, named) ==
  LET q == req[r] IN
  /\ q.kind = "reset"
  /\ NewPin \in Pins
  /\ Save(q, [q.row EXCEPT !.pin = NewPin])
  /\ DropLogin(q.account)
  /\ GivePin(q.account)
  /\ IF q.row.otp_required THEN \E d \in Choices(named) : Assign(q.account, d, links, TRUE)
     ELSE UNCHANGED otpTables
  /\ CommitAndEnd(r) /\ MarkMixed(r)
  /\ UNCHANGED window

\* account-reset-pin
ResetPin(r) ==
  LET q == req[r] IN
  /\ q.kind = "reset pin"
  /\ NewPin \in Pins
  /\ Save(q, [q.row EXCEPT !.pin = NewPin])
  /\ DropLogin(q.account)
  /\ GivePin(q.account)
  /\ CommitAndEnd(r) /\ MarkMixed(r)
  /\ UNCHANGED <<otpTables, window>>

\* Any other command that saves the account: tags, access type.
Edit(r) ==
  LET q == req[r] IN
  /\ q.kind = "edit"
  /\ acct' = [acct EXCEPT ![q.account] = q.row]
  /\ CommitAndEnd(r) /\ MarkMixed(r)
  /\ UNCHANGED <<otpTables, cache, window, given>>

\* account-enable reads under a lock, so nothing comes between.
Enable(a) ==
  /\ acct[a].status = "DISABLED"
  /\ acct' = [acct EXCEPT ![a].status = "ACTIVE"]
  /\ Commit(a)
  /\ UNCHANGED <<otpTables, cache, window, given, mixed>>

\* A request ends without a commit: refused, declined, failed, interrupted.
End(r) ==
  /\ req[r] # Idle
  /\ req' = [req EXCEPT ![r] = Idle]
  /\ UNCHANGED <<acct, otpTables, cache, window, given, mixed>>

-----------------------------------------------------------------------------
(* POST /v1/auth/                                                          *)

\* PINs and codes that were given out or shown so far, right or wrong for a.
Typed == {p \in Passwords : /\ p.pin <= pins
                            /\ p.code.secret <= secrets
                            /\ p.code.window <= window}

StartLogin(r, a, password) ==
  Start(r, IF acct[a].status = "ACTIVE"
             THEN [kind |-> "cache", account |-> a, row |-> acct[a],
                   password |-> password, fresh |-> TRUE]
             ELSE Refused)

\* The row is not looked at again.
GoOn(r, kind) ==
  /\ req' = [req EXCEPT ![r] = IF kind = "refused" THEN Refused
                              ELSE [@ EXCEPT !.kind = kind, !.row = NoRow]]
  /\ UNCHANGED <<acct, otpTables, cache, window, given, mixed>>

\* Mutant: what follows the PIN is not looked at here.
PinFirst(q) == q.password.pin = q.row.pin

\* With OTP the password is split behind the PIN; without, all of it is the PIN.
PinRight(q) ==
  /\ q.password.pin = q.row.pin
  /\ (q.password.code = NoCode) = ~q.row.otp_required

\* check_auth_cache, then the PIN.
CheckCacheAndPin(r) ==
  LET q == req[r] IN
  /\ q.kind = "cache"
  /\ GoOn(r, IF cache[q.account] = q.password THEN "store"
             ELSE IF ~PinRight(q) THEN "refused"
             ELSE IF q.row.otp_required THEN "code" ELSE "store")

DevicesOf(a) == {d \in Stored : <<a, d>> \in links}

CodeRight(q) ==
  /\ q.password.code.window = window
  /\ \E d \in DevicesOf(q.account) :
        device[d].status = "ACTIVE" /\ device[d].secret = q.password.code.secret

CheckCode(r) ==
  LET q == req[r] IN
  /\ q.kind = "code"
  /\ GoOn(r, IF CodeRight(q) THEN "store" ELSE "refused")

\* update_auth_cache: the login succeeds, and its time starts anew.
StoreLogin(r) ==
  LET q == req[r] IN
  /\ q.kind = "store"
  /\ cache' = [cache EXCEPT ![q.account] = q.password]
  /\ CommitAndEnd(r) /\ MarkMixed(r)
  /\ UNCHANGED <<acct, otpTables, window, given>>

\* auth_cache_expires_at has passed.
Expire(a) ==
  /\ cache[a] # NoLogin
  /\ DropLogin(a)
  /\ UNCHANGED <<acct, otpTables, window, req, given, mixed>>

\* The codes typed so far are no longer valid.
PassWindow ==
  /\ window < Windows
  /\ window' = window + 1
  /\ UNCHANGED <<acct, otpTables, cache, req, given, mixed>>

-----------------------------------------------------------------------------
Next ==
  \/ \E a \in Accounts :
        \/ \E otp \in BOOLEAN :
              \/ CreateAccount(a, otp)
              \/ \E status \in Statuses : CreateByApi(a, status, otp)
        \/ \E named \in Stored \cup {NoDevice} : SetOtp(a, named)
        \/ Enable(a)
        \/ Expire(a)
  \/ \E r \in Commands :
        \/ \E a \in Accounts, kind \in Kinds : ReadAccount(r, kind, a)
        \/ \E named \in Stored \cup {NoDevice} : Reset(r, named)
        \/ Disable(r) \/ SetOtpRequired(r) \/ ResetPin(r) \/ Edit(r)
  \/ \E r \in Logins :
        \/ \E a \in Accounts, password \in Typed : StartLogin(r, a, password)
        \/ CheckCacheAndPin(r) \/ CheckCode(r) \/ StoreLogin(r)
  \/ \E r \in Requests : End(r)
  \/ \E d \in Devices :
        \/ AddDevice(d) \/ DisableDevice(d)
        \/ \E status \in Statuses : PostDevice(d, status)
  \/ PassWindow

Spec == Init /\ [][Next]_vars

-----------------------------------------------------------------------------
(* Properties.                                                             *)

\* The shape of tables and requests; links lead to stored rows.
TypeOK ==
  /\ acct \in [Accounts -> Rows \cup {NoRow}]
  /\ device \in [Devices -> DeviceRows \cup {NoDevice}]
  /\ links \subseteq {a \in Accounts : Exists(a)} \X Stored
  /\ cache \in [Accounts -> Passwords \cup {NoLogin}]
  /\ \A r \in Requests : req[r] \in IF r \in Logins THEN Attempts \cup {Idle, Refused}
                                    ELSE Changes \cup {Idle}
  /\ mixed \subseteq {a \in Accounts : Exists(a)}

\* A cached login is of an ACTIVE account, has its present PIN and a code only
\* if one is asked for, after any sequence of disabling, enabling, resets and
\* changes of the OTP requirement, unless a request that was overtaken wrote to
\* the account: "a cached login must not outlive" them (the comments in
\* Account.disable and account-otp-required).
CachedLoginIsCurrent ==
  \A a \in Accounts \ mixed :
    cache[a] # NoLogin =>
      /\ acct[a].status = "ACTIVE"
      /\ cache[a].pin = handed[a]
      /\ (cache[a].code = NoCode) = ~acct[a].otp_required

\* The password opens the account, by what its user was given and by the
\* devices it has now.
Opens(a, password) ==
  \/ password = cache[a]
  \/ /\ password.pin = handed[a]
     /\ IF acct[a].otp_required
          THEN /\ password.code.window = window
               /\ \E d \in Devices : /\ <<a, d>> \in links
                                     /\ device[d].status = "ACTIVE"
                                     /\ device[d].secret = password.code.secret
          ELSE password.code = NoCode

\* A login nobody overtakes is let in just if its password opens the account.
LoginVerdictIsRight ==
  [][\A r \in Logins :
       LET q == req[r] IN
       /\ q.kind \in {"cache", "code"} /\ q.fresh /\ q.account \notin mixed
       /\ req'[r].kind \in {"store", "refused"}
       => (req'[r].kind = "store") = Opens(q.account, q.password)]_vars

\* A command that assigns a device by itself assigns one that is of use: active,
\* and with the secret it prints, if it prints one.
HandedCredentialsWork ==
  [][\A a \in Accounts :
       LET resets == \E r \in Commands : req[r].kind = "reset" /\ req[r].account = a
                                         /\ Reset(r, NoDevice)
       IN /\ resets \/ CreateAccount(a, TRUE) \/ SetOtp(a, NoDevice)
          /\ acct'[a].otp_required
          => \E d \in Devices : /\ <<a, d>> \in links'
                                /\ device'[d].status = "ACTIVE"
                                /\ resets => device'[d].secret = secrets']_vars
=============================================================================
