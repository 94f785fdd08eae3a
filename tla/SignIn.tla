------------------------------- MODULE SignIn -------------------------------
(***************************************************************************)
(* The admin account: the password, the second factors (authenticator,     *)
(* backup codes, e-mailed code, passkeys), the sessions, and the settings  *)
(* that change them.  Requests run at the same time; every access to the   *)
(* database, to the pending logins and to the login limiter is one step,   *)
(* and none of the handlers holds a transaction or a lock across two.      *)
(*                                                                         *)
(* One account, one client address.  A request that is refused before it   *)
(* reads or changes anything that matters here is not a step; that is all  *)
(* a pending login that lapses, an enrollment that does, or a session that *)
(* expires leads to, so none of these is a step either.                    *)
(***************************************************************************)
EXTENDS LoginLimiter, FiniteSets

CONSTANTS
  Handlers,     \* requests that may be served at once
  Devices,      \* browsers, each with its device cookie
  Skew,         \* time steps a code is accepted early or late
  BackupCount,  \* backupCodeCount
  Settings,     \* the requests of a signed-in admin that are considered
  MaxClock,     \* bound on time, in time steps of the authenticator
  MaxRequests,  \* bound on the requests
  MaxFaults     \* bound on the database calls that fail

ASSUME SignInAssumption ==
  /\ Skew \in Nat /\ BackupCount \in Nat
  /\ MaxClock \in Nat \ {0} /\ MaxRequests \in Nat /\ MaxFaults \in Nat

VARIABLES
  clock,
  tries,     \* the limiter's entry for the address
  cred,      \* version of the stored e-mail and password hash
  totp,      \* the four meta keys of the authenticator
  keys,      \* a passkey is registered
  enrolling, \* pkEnroll holds a ceremony
  pending,   \* twoFA: password-verified logins waiting for a second factor
  rows,      \* the sessions table
  req,       \* handler -> its request and how far it is
  seen       \* history: counts, codes issued and spent, what went wrong

store == <<cred, totp, keys, rows>>
memory == <<tries, pending, enrolling>>
vars == <<clock, store, memory, req, seen>>

Logins == 1 .. (MaxRequests + 1)
NoEntry == [live |-> FALSE, sent |-> 0, mail |-> 0, sentAt |-> 0, wa |-> FALSE]

\* login: the login it belongs to; code: what it carries; from: when it was
\* let in; own: the session it was sent in.
Idle == [pc |-> "idle", login |-> 0, code |-> <<>>, from |-> 0, own |-> 0]

Arrive(h, pc, login, code, own) ==
  /\ req[h] = Idle /\ seen.requests < MaxRequests
  /\ req' = [req EXCEPT ![h] = [pc |-> pc, login |-> login, code |-> code,
                                from |-> clock, own |-> own]]
  /\ seen' = [seen EXCEPT !.requests = @ + 1]
Count == /\ seen.requests < MaxRequests
         /\ seen' = [seen EXCEPT !.requests = @ + 1]
At(h, pc) == req[h].pc = pc
Goto(h, pc) == req' = [req EXCEPT ![h].pc = pc]
Done(h) == req' = [req EXCEPT ![h] = Idle]
Others(h, pc) == \E g \in Handlers \ {h} : At(g, pc)

\* Something went wrong that the properties allow for (history).
When(condition, what) == IF condition THEN {what} ELSE {}
Note(what) == seen' = [seen EXCEPT !.mishaps = @ \cup what]
\* A database call fails.
Fault(what) ==
  /\ seen.faults < MaxFaults
  /\ seen' = [seen EXCEPT !.faults = @ + 1, !.mishaps = @ \cup what]

\* Every failed check of a password or a code counts against the address.
Fail(h) == tries' = Failed(tries, clock) /\ Done(h)

-----------------------------------------------------------------------------
(* Codes.  A code of the authenticator names its secret and time step, a   *)
(* backup code its number, an e-mailed one its login and its number.       *)

Wrong == <<"wrong">>
Password(v) == <<"password", v>>
Passkey == <<"passkey">>
AuthCode(s, c) == <<"totp", s, c>>
BackupCode(n) == <<"backup", n>>
MailCode(t, k) == <<"mail", t, k>>

Near == ((clock - Skew) .. (clock + Skew)) \cap Nat
BackupsOf(k) == (k * BackupCount - BackupCount + 1) .. (k * BackupCount)

\* What may be typed: what the admin's device, list or mail box holds, or
\* something else.
OwnCodes == {AuthCode(totp.secret, c) : c \in Near}
              \cup {BackupCode(n) : n \in seen.issued}
Typed(t) == OwnCodes \cup {MailCode(t, k) : k \in 1 .. pending[t].sent}
                     \cup {Wrong}

Validates(secret, code) ==
  secret # 0 /\ \E c \in Near : code = AuthCode(secret, c)

\* An accepted code is spent (history).
Spent(code) == [seen EXCEPT !.spent = @ \cup {code},
                            !.twice = @ \cup ({code} \cap seen.spent)]

-----------------------------------------------------------------------------
(* The first step of a login: the password *)

LoginPost(h) ==
  /\ ~Blocked(tries, clock)
  /\ \E code \in {Password(cred), Wrong} : Arrive(h, "password", 0, code, 0)
  /\ UNCHANGED <<clock, store, memory>>

CheckAdminPassword(h) ==
  /\ At(h, "password")
  /\ \/ /\ req[h].code = Password(cred)
        /\ req' = [req EXCEPT ![h] = [Idle EXCEPT !.pc = "enabled",
                                        !.login = seen.logins + 1,
                                        !.from = req[h].from]]
        /\ seen' = [seen EXCEPT !.logins = @ + 1,
                                !.cred = [@ EXCEPT ![seen.logins + 1] = cred]]
        /\ UNCHANGED tries
     \/ req[h].code # Password(cred) /\ Fail(h) /\ UNCHANGED seen
     \/ req[h].code = Password(cred) /\ Fault({}) /\ Fail(h)
  /\ UNCHANGED <<clock, store, pending, enrolling>>

\* A factor is looked up, and an error of the look-up is taken for "no".
LooksUp(on, answer) ==
  \/ answer = on /\ UNCHANGED seen
  \/ on /\ ~answer /\ Fault({"unread"})

TOTPEnabled(h) ==
  /\ At(h, "enabled")
  /\ \E on \in BOOLEAN : /\ LooksUp(totp.secret # 0, on)
                         /\ Goto(h, IF on THEN "park" ELSE "passkeys")
  /\ UNCHANGED <<clock, store, memory>>

\* The factors in place from the start of login l until now.
InPlace(l) == When(totp.secret # 0 /\ seen.totpSince < l, "totp")
                \cup When(keys /\ seen.keysSince < l, "key")

\* The login passed; its request goes on to create a session.  code: the
\* factors it was not asked for, if it proved none (history).
Passed(h, unasked) ==
  req' = [req EXCEPT ![h].pc = "forget", ![h].code = [unasked |-> unasked]]

\* Mutant: a right password clears the limiter.
ParkAndForgive(h) == /\ pending' = [pending EXCEPT ![req[h].login] =
                                     [NoEntry EXCEPT !.live = TRUE]]
                     /\ Done(h) /\ tries' = NoTries

\* beginTOTPStage parks the login and leaves the limiter as it is.
Park(h) == /\ pending' = [pending EXCEPT ![req[h].login] =
                            [NoEntry EXCEPT !.live = TRUE]]
           /\ Done(h) /\ UNCHANGED tries
PasswordOnly(h) == /\ tries' = NoTries
                   /\ Passed(h, InPlace(req[h].login)) /\ UNCHANGED pending

PasskeysEnabled(h) ==
  /\ \/ At(h, "park") /\ Park(h) /\ UNCHANGED seen
     \/ /\ At(h, "passkeys")
        /\ \E on \in BOOLEAN : /\ LooksUp(keys, on)
                               /\ IF on THEN Park(h) ELSE PasswordOnly(h)
  /\ UNCHANGED <<clock, store, enrolling>>


-----------------------------------------------------------------------------
(* The second step: a code.  The request shows the token of login t, and   *)
(* keeps its entry whatever becomes of it.                                 *)

Shown(t) == pending[t].live

LoginTOTPPost(h) ==
  /\ ~Blocked(tries, clock)
  /\ \E t \in Logins : /\ Shown(t)
                       /\ \E code \in Typed(t) : Arrive(h, "secret", t, code, 0)
  /\ UNCHANGED <<clock, store, memory>>

GetTOTPSecret(h) ==
  /\ At(h, "secret")
  /\ \/ /\ Goto(h, IF totp.secret = 0 THEN "orpasskeys"
                   ELSE IF Validates(totp.secret, req[h].code) THEN "last"
                   ELSE "codes")
        /\ UNCHANGED <<tries, seen>>
     \/ Fault({}) /\ Fail(h)
  /\ UNCHANGED <<clock, store, pending, enrolling>>

\* Mutant: passkeys are not considered.
NoSecretPasses(h) ==
  /\ At(h, "orpasskeys") /\ Goto(h, "unproven")
  /\ UNCHANGED <<clock, store, memory, seen>>

\* No authenticator any more: the code does not matter, a passkey does.
NoSecret(h) ==
  /\ At(h, "orpasskeys")
  /\ \E on \in BOOLEAN :
       /\ LooksUp(keys, on)
       /\ IF on THEN Fail(h) ELSE Goto(h, "unproven") /\ UNCHANGED tries
  /\ UNCHANGED <<clock, store, pending, enrolling>>

\* Mutant: the last counter itself passes.
GetTOTPLastCounterOffByOne(h) ==
  /\ At(h, "last")
  /\ IF req[h].code[3] >= totp.last
     THEN Goto(h, "setlast") /\ UNCHANGED tries
     ELSE Fail(h)
  /\ Note(When(Others(h, "setlast"), "overlap"))
  /\ UNCHANGED <<clock, store, pending, enrolling>>

GetTOTPLastCounter(h) ==
  /\ At(h, "last")
  /\ \/ /\ req[h].code[3] > totp.last
        /\ Goto(h, "setlast")
        /\ Note(When(Others(h, "setlast"), "overlap"))
        /\ UNCHANGED tries
     \/ req[h].code[3] <= totp.last /\ Fail(h) /\ UNCHANGED seen
     \/ Fault({}) /\ Fail(h)
  /\ UNCHANGED <<clock, store, pending, enrolling>>

\* Mutant: the step after the latest one that could pass is stored.
SetTOTPNextCounter(h) ==
  /\ At(h, "setlast")
  /\ totp' = [totp EXCEPT !.last = clock + Skew + 1]
  /\ Goto(h, "proven") /\ seen' = Spent(req[h].code)
  /\ UNCHANGED <<clock, cred, keys, rows, memory>>

SetTOTPLastCounter(h) ==
  /\ At(h, "setlast")
  /\ \/ /\ totp' = [totp EXCEPT !.last = req[h].code[3]]
        /\ Goto(h, "proven") /\ seen' = Spent(req[h].code) /\ UNCHANGED tries
     \/ Fault({}) /\ Fail(h) /\ UNCHANGED totp
  /\ UNCHANGED <<clock, cred, keys, rows, pending, enrolling>>

\* ConsumeTOTPBackupCode: the codes are read, and the rest is written back.
\* A failed read is taken for "no such code", a failed write for a use.
IsBackup(h, n) == req[h].code = BackupCode(n)
AfterCodes(h) == IF req[h].login = 0 THEN "idle" ELSE "mail"

ReadBackupCodes(h) ==
  /\ At(h, "codes")
  /\ \/ \E n \in totp.codes :
          /\ IsBackup(h, n)
          /\ req' = [req EXCEPT ![h].pc = "setcodes",
                                ![h].code = <<"rest", n, totp.codes \ {n}>>]
          /\ Note(When(Others(h, "setcodes"), "overlap"))
     \/ /\ \A n \in totp.codes : ~IsBackup(h, n)
        /\ Goto(h, AfterCodes(h)) /\ UNCHANGED seen
     \/ (\E n \in totp.codes : IsBackup(h, n)) /\ Fault({})
        /\ Goto(h, AfterCodes(h))
  /\ UNCHANGED <<clock, store, memory>>

WriteBackupCodes(h) ==
  LET code == req[h].code
      now == Spent(BackupCode(code[2]))
  IN
  /\ At(h, "setcodes")
  /\ \/ /\ totp' = [totp EXCEPT !.codes = code[3]]
        /\ seen' = now
     \/ /\ seen.faults < MaxFaults /\ UNCHANGED totp
        /\ seen' = [now EXCEPT !.faults = @ + 1, !.mishaps = @ \cup {"kept"}]
  /\ Goto(h, IF req[h].login = 0 THEN "off1" ELSE "proven")
  /\ UNCHANGED <<clock, cred, keys, rows, memory>>

\* The e-mailed code is compared, and dropped after it.
CompareMailCode(h) ==
  LET t == req[h].login IN
  /\ At(h, "mail")
  /\ IF pending[t].mail # 0 /\ req[h].code = MailCode(t, pending[t].mail)
     THEN /\ Goto(h, "dropmail") /\ UNCHANGED tries
          /\ Note(When(Others(h, "dropmail"), "overlap"))
     ELSE Fail(h) /\ UNCHANGED seen
  /\ UNCHANGED <<clock, store, pending, enrolling>>

DropMailCode(h) ==
  /\ At(h, "dropmail")
  /\ pending' = [pending EXCEPT ![req[h].login].mail = 0]
  /\ seen' = Spent(req[h].code) /\ Goto(h, "proven")
  /\ UNCHANGED <<clock, store, tries, enrolling>>

\* Both ways end in deleting the token and clearing the limiter.
Accept(h) ==
  /\ At(h, "proven") \/ At(h, "unproven")
  /\ pending' = [pending EXCEPT ![req[h].login].live = FALSE]
  /\ tries' = NoTries
  /\ Passed(h, IF At(h, "proven") THEN {} ELSE InPlace(req[h].login))
  /\ UNCHANGED <<clock, store, enrolling, seen>>

\* A code is e-mailed if the last one was asked for in an earlier time step.
\* The entry is not locked between the check and the new code in it, and if
\* sending fails whatever code it holds by then is dropped.
LoginTOTPEmail(h) ==
  /\ ~Blocked(tries, clock)
  /\ \E t \in Logins : /\ Shown(t)
                       /\ pending[t].sent = 0 \/ clock > pending[t].sentAt
                       /\ Arrive(h, "code", t, <<>>, 0)
  /\ UNCHANGED <<clock, store, memory>>

KeepMailCode(h) ==
  LET t == req[h].login IN
  /\ At(h, "code")
  /\ pending' = [pending EXCEPT ![t].mail = pending[t].sent + 1,
                   ![t].sent = @ + 1, ![t].sentAt = clock]
  /\ Goto(h, "send")
  /\ UNCHANGED <<clock, store, tries, enrolling, seen>>

SendLoginCode(h) ==
  /\ At(h, "send")
  /\ pending' \in {pending, [pending EXCEPT ![req[h].login].mail = 0]}
  /\ Done(h)
  /\ UNCHANGED <<clock, store, tries, enrolling, seen>>

\* Without a registered passkey there is no ceremony to keep in the entry.
BeginLogin == keys

BeginPasskeyLogin ==
  /\ ~Blocked(tries, clock) /\ BeginLogin /\ Count
  /\ \E t \in Logins : /\ Shown(t)
                       /\ pending' = [pending EXCEPT ![t].wa = TRUE]
  /\ UNCHANGED <<clock, store, tries, enrolling, req>>

FinishPasskeyLogin(h) ==
  /\ ~Blocked(tries, clock)
  /\ \E t \in Logins, code \in {Passkey, Wrong} :
       Shown(t) /\ pending[t].wa /\ Arrive(h, "assert", t, code, 0)
  /\ UNCHANGED <<clock, store, memory>>

\* FinishLogin, with its update of the passkey's counter.
VerifyPasskey(h) ==
  /\ At(h, "assert")
  /\ \/ /\ keys /\ req[h].code = Passkey /\ Goto(h, "proven")
        /\ UNCHANGED <<tries, pending, seen>>
     \/ /\ \/ ~(keys /\ req[h].code = Passkey) /\ UNCHANGED seen
           \/ keys /\ req[h].code = Passkey /\ Fault({})
        /\ pending' = [pending EXCEPT ![req[h].login].wa = FALSE]
        /\ Fail(h)
  /\ UNCHANGED <<clock, store, enrolling>>

-----------------------------------------------------------------------------
(* CreateSession: three statements *)

\* The rows of the same device are deleted.  (Rows older than a month are as
\* well: they stopped being live long ago, and a month does not pass here.)
ForgetDevice(h) ==
  /\ At(h, "forget")
  /\ \/ \E d \in Devices :
          /\ rows' = {s \in rows : s.device # d}
          /\ req' = [req EXCEPT ![h].pc = "revoke",
                       ![h].code = [unasked |-> @.unasked, device |-> d]]
          /\ UNCHANGED seen
     \/ Fault({}) /\ Done(h) /\ UNCHANGED rows
  /\ UNCHANGED <<clock, cred, totp, keys, memory>>

Revoked(set) == {[s EXCEPT !.state = "revoked"] : s \in set}

\* Mutant: only the sessions of the same device are revoked.
RevokeOwnDevice(h) ==
  LET its == {s \in rows : s.device = req[h].code.device} IN
  /\ At(h, "revoke")
  /\ rows' = (rows \ its) \cup Revoked(its)
  /\ req' = [req EXCEPT ![h].pc = "insert",
               ![h].code = [unasked |-> @.unasked, device |-> @.device,
                            after |-> seen.sessions]]
  /\ UNCHANGED <<clock, cred, totp, keys, memory, seen>>

RevokeLive(h) ==
  /\ At(h, "revoke")
  /\ \/ /\ rows' = Revoked(rows)
        /\ req' = [req EXCEPT ![h].pc = "insert",
                     ![h].code = [unasked |-> @.unasked, device |-> @.device,
                                  after |-> seen.sessions]]
        /\ UNCHANGED seen
     \/ Fault({}) /\ Done(h) /\ UNCHANGED rows
  /\ UNCHANGED <<clock, cred, totp, keys, memory>>

\* n: the token, counted in the order of the inserts; after: the sessions
\* there had been when this login revoked the live ones (history).
InsertSession(h) ==
  LET r == req[h] IN
  /\ At(h, "insert") /\ Done(h)
  /\ \/ /\ rows' = rows \cup
             {[n |-> seen.sessions + 1, login |-> r.login, state |-> "live",
               device |-> r.code.device, after |-> r.code.after,
               unasked |-> r.code.unasked]}
        /\ seen' = [seen EXCEPT !.sessions = @ + 1]
     \/ Fault({}) /\ UNCHANGED rows
  /\ UNCHANGED <<clock, cred, totp, keys, memory>>

-----------------------------------------------------------------------------
(* Settings: requests that sessionAuth lets through *)

Live == {s \in rows : s.state = "live"}
Admits(what) == what \in Settings /\ Live # {}
Admitted(h, what, pc, code) ==
  what \in Settings /\ \E s \in Live : Arrive(h, pc, 0, code, s.n)

\* Also while an authenticator is active: the new one is on trial.
StartTOTPEnrollment ==
  /\ Admits("totp") /\ seen.requests < MaxRequests
  /\ totp' = [totp EXCEPT !.pending = seen.secrets + 1]
  /\ seen' = [seen EXCEPT !.requests = @ + 1, !.secrets = @ + 1]
  /\ UNCHANGED <<clock, cred, keys, rows, memory, req>>

\* A code of the pending secret is right; EnableTOTP reads that key again.
ConfirmTOTPEnrollment(h) ==
  /\ totp.pending # 0
  /\ Admitted(h, "totp", "promote", <<totp.pending>>)
  /\ UNCHANGED <<clock, store, memory>>

ReadPending(h) ==
  /\ At(h, "promote")
  /\ IF totp.pending = 0 THEN Done(h) /\ UNCHANGED seen
     ELSE /\ req' = [req EXCEPT ![h].pc = "on1",
                       ![h].code = <<totp.pending, seen.enrolled + 1>>]
          /\ seen' = [seen EXCEPT !.enrolled = @ + 1,
                        !.confirmed = @ \cup {req[h].code[1]},
                        !.mishaps = @ \cup When(totp.pending # req[h].code[1],
                                                "restarted")]
  /\ UNCHANGED <<clock, store, memory>>

\* DisableTOTP wants a code, an unused backup code or one of the
\* authenticator, which may be used again.
DisableTOTP(h) ==
  /\ \E code \in OwnCodes :
       Admitted(h, "totp", IF Validates(totp.secret, code) THEN "off1"
                           ELSE "codes", code)
  /\ UNCHANGED <<clock, store, memory>>

\* Each key is written on its own; a failed write leaves the rest as it is.
Written(h) ==
  CASE At(h, "on1") -> [totp EXCEPT !.secret = req[h].code[1]]
    [] At(h, "on2") -> [totp EXCEPT !.codes = BackupsOf(req[h].code[2])]
    [] At(h, "on3") -> [totp EXCEPT !.last = 0]
    [] At(h, "on4") -> [totp EXCEPT !.pending = 0]
    [] At(h, "off1") -> [totp EXCEPT !.secret = 0]
    [] At(h, "off2") -> [totp EXCEPT !.pending = 0]
    [] At(h, "off3") -> [totp EXCEPT !.codes = {}]
    [] At(h, "off4") -> [totp EXCEPT !.last = 0]
    [] OTHER -> totp

After == [on1 |-> "on2", on2 |-> "on3", on3 |-> "on4", on4 |-> "idle",
          off1 |-> "off2", off2 |-> "off3", off3 |-> "off4", off4 |-> "idle"]

\* An accepted code passes again if it lies above the counter that is now
\* stored, and its secret is now the active one, or a check that has read the
\* secret is about to read the counter: the counter was forgotten, or the
\* secret is one that was in use before, confirmed twice (history).
Reopens(new) ==
  \E code \in seen.spent :
    /\ code[1] = "totp" /\ code[3] > new.last
    /\ \/ code[2] = new.secret
       \/ \E g \in Handlers : At(g, "last") /\ req[g].code = code

WriteTOTPKey(h) ==
  /\ req[h].pc \in DOMAIN After
  /\ \/ /\ totp' = Written(h)
        /\ seen' = [seen EXCEPT
             !.issued = @ \cup IF At(h, "on2") THEN totp'.codes ELSE {},
             !.totpSince = IF totp.secret = 0 /\ totp'.secret # 0
                           THEN seen.logins ELSE @,
             !.mishaps = @ \cup When(Reopens(totp'), "reopened")]
        /\ IF After[req[h].pc] = "idle" THEN Done(h)
           ELSE Goto(h, After[req[h].pc])
     \/ Fault({}) /\ Done(h) /\ UNCHANGED totp
  /\ UNCHANGED <<clock, cred, keys, rows, memory>>

\* UpdateAdminCredentials, after the current password was found right.
ChangeCredentials(h) ==
  /\ Admitted(h, "password", "hash", <<>>)
  /\ UNCHANGED <<clock, store, memory>>

SetCredentials(h) ==
  /\ At(h, "hash")
  /\ \/ cred' = cred + 1 /\ Goto(h, "drop") /\ UNCHANGED seen
     \/ Fault({}) /\ Done(h) /\ UNCHANGED cred
  /\ UNCHANGED <<clock, totp, keys, rows, memory>>

\* Mutant: only the session the change was made in is ended.
DropOwnSession(h) ==
  /\ At(h, "drop") /\ Done(h)
  /\ rows' = {s \in rows : s.n # req[h].own}
  /\ seen' = [seen EXCEPT !.dropped = [session |-> seen.sessions,
                                       login |-> seen.logins]]
  /\ UNCHANGED <<clock, cred, totp, keys, memory>>

DropSessions(h) ==
  /\ At(h, "drop") /\ Done(h)
  /\ \/ /\ rows' = {}
        /\ seen' = [seen EXCEPT !.dropped = [session |-> seen.sessions,
                                             login |-> seen.logins]]
     \/ Fault({"undropped"}) /\ UNCHANGED rows
  /\ UNCHANGED <<clock, cred, totp, keys, memory>>

BeginPasskeyEnrollment ==
  /\ Admits("passkey") /\ Count /\ enrolling' = TRUE
  /\ UNCHANGED <<clock, store, tries, pending, req>>

\* The ceremony is taken from its slot, and the passkey added after it.
TakeEnrollment(h) ==
  /\ enrolling /\ Admitted(h, "passkey", "register", <<>>)
  /\ enrolling' = FALSE
  /\ UNCHANGED <<clock, store, tries, pending>>

RegisterPasskey(h) ==
  /\ At(h, "register") /\ Done(h)
  /\ \/ /\ keys' = TRUE
        /\ seen' = [seen EXCEPT !.keysSince = IF keys THEN @ ELSE seen.logins]
     \/ Fault({}) /\ UNCHANGED keys
  /\ UNCHANGED <<clock, cred, totp, rows, memory>>

DeletePasskey ==
  /\ Admits("passkey") /\ Count /\ keys /\ keys' = FALSE
  /\ UNCHANGED <<clock, cred, totp, rows, memory, req>>

\* RevokeDevice looks the row up, and revokes it or forgets it.
RevokeDevice(h) ==
  /\ \E s \in rows : /\ Admitted(h, "devices", IF s.state = "live" THEN "sign out"
                                               ELSE "delete", <<s.n>>)
                     /\ req'[h].own # s.n
  /\ UNCHANGED <<clock, store, memory>>

EndDevice(h) ==
  LET its == {s \in rows : s.n = req[h].code[1]} IN
  /\ \/ At(h, "sign out") /\ rows' = (rows \ its) \cup Revoked(its)
     \/ At(h, "delete") /\ rows' = rows \ its
  /\ Done(h)
  /\ UNCHANGED <<clock, cred, totp, keys, memory, seen>>

\* RevokeOtherDevices, and Logout.
RevokeOtherDevices ==
  /\ Admits("devices") /\ Count
  /\ \E s \in Live : rows' = {s} \cup Revoked(rows \ {s})
  /\ UNCHANGED <<clock, cred, totp, keys, memory, req>>

Logout ==
  /\ Admits("devices") /\ Count
  /\ \E s \in Live : rows' = rows \ {s}
  /\ UNCHANGED <<clock, cred, totp, keys, memory, req>>

-----------------------------------------------------------------------------
(* Time *)

Tick ==
  /\ clock < MaxClock /\ clock' = clock + 1
  /\ UNCHANGED <<store, memory, req, seen>>

\* Another address fails while the map is full, and the dead are swept.
Sweep ==
  /\ tries # NoTries /\ Dead(tries, clock) /\ tries' = NoTries
  /\ UNCHANGED <<clock, store, pending, enrolling, req, seen>>

-----------------------------------------------------------------------------
\* An admin who is signed in, with either factor, both or none; the password
\* of one more login may have passed, and one may have failed a while ago.
Init ==
  /\ clock = 1 /\ cred = 1
  /\ tries \in {NoTries, Failed(NoTries, 0)}
  /\ keys \in BOOLEAN /\ enrolling = FALSE
  /\ totp \in {[secret |-> 0, pending |-> 0, codes |-> {}, last |-> 0],
               [secret |-> 1, pending |-> 0, codes |-> BackupsOf(1), last |-> 0]}
  /\ \E parked \in BOOLEAN :
       /\ parked => keys \/ totp.secret # 0
       /\ pending = [t \in Logins |->
                       [NoEntry EXCEPT !.live = parked /\ t = 1]]
  /\ \E d \in Devices : rows = {[n |-> 0, login |-> 0, state |-> "live",
                                 device |-> d, after |-> 0, unasked |-> {}]}
  /\ req = [h \in Handlers |-> Idle]
  /\ seen = [requests |-> 0, logins |-> 1, sessions |-> 0, secrets |-> 1,
             enrolled |-> 1, issued |-> totp.codes, confirmed |-> {1},
             spent |-> {}, twice |-> {}, totpSince |-> -1, keysSince |-> -1,
             cred |-> [l \in {0} \cup Logins |-> 1],
             dropped |-> [session |-> -1, login |-> -1],
             faults |-> 0, mishaps |-> {}]

Next ==
  \/ \E h \in Handlers :
       \/ LoginPost(h) \/ CheckAdminPassword(h)
       \/ TOTPEnabled(h) \/ PasskeysEnabled(h)
       \/ LoginTOTPPost(h) \/ GetTOTPSecret(h) \/ NoSecret(h)
       \/ GetTOTPLastCounter(h) \/ SetTOTPLastCounter(h)
       \/ ReadBackupCodes(h) \/ WriteBackupCodes(h)
       \/ CompareMailCode(h) \/ DropMailCode(h) \/ Accept(h)
       \/ LoginTOTPEmail(h) \/ KeepMailCode(h) \/ SendLoginCode(h)
       \/ FinishPasskeyLogin(h) \/ VerifyPasskey(h)
       \/ ForgetDevice(h) \/ RevokeLive(h) \/ InsertSession(h)
       \/ ConfirmTOTPEnrollment(h) \/ ReadPending(h) \/ DisableTOTP(h)
       \/ WriteTOTPKey(h) \/ ChangeCredentials(h) \/ SetCredentials(h)
       \/ DropSessions(h) \/ TakeEnrollment(h) \/ RegisterPasskey(h)
       \/ RevokeDevice(h) \/ EndDevice(h)
  \/ BeginPasskeyLogin \/ StartTOTPEnrollment \/ BeginPasskeyEnrollment
  \/ DeletePasskey \/ RevokeOtherDevices \/ Logout
  \/ Tick \/ Sweep

Spec == Init /\ [][Next]_vars

-----------------------------------------------------------------------------
(* Properties *)

TypeOK ==
  /\ clock \in 1 .. MaxClock /\ keys \in BOOLEAN /\ enrolling \in BOOLEAN
  /\ tries.failures \in 0 .. MaxFailures
  /\ cred \in 1 .. (MaxRequests + 1)
  /\ totp.secret \in 0 .. seen.secrets /\ totp.pending \in 0 .. seen.secrets
  /\ totp.codes \subseteq seen.issued /\ totp.last \in 0 .. (clock + Skew)
  /\ \A s, t \in rows : s.n = t.n => s = t

\* "An account may only have one live session at a time" (CreateSession), as
\* far as its statements can promise it: a session survives the login of a
\* newer one only if it was inserted between that login's UPDATE and INSERT.
OneLiveSession ==
  \A a, b \in Live : a.n < b.n => a.n > b.after

\* A login is never let through without a factor that was in place from the
\* moment its password was accepted, whatever is enabled, disabled or removed
\* while it is under way, unless the look-up of a factor failed: LoginPost
\* and verifySecondFactor drop that error.
FactorsAreAsked ==
  \A s \in rows : s.unasked # {} => "unread" \in seen.mishaps

\* A code of the authenticator, a backup code and an e-mailed code let one
\* login in, unless two checks of codes overlapped, the write that removes a
\* backup code failed, or settings forgot the counter of a secret in use or
\* brought back a secret that had been in use.
CodesWorkOnce ==
  seen.twice # {} =>
    seen.mishaps \cap {"overlap", "kept", "reopened"} # {}

\* "each code works exactly once" (ConsumeTOTPBackupCode): no backup code
\* lets two logins in.
BackupCodesWorkOnce == \A code \in seen.twice : code[1] # "backup"

\* "anyone logged in must re-authenticate" (UpdateAdminCredentials): once the
\* sessions are deleted, the only session of an old password is one whose
\* login had passed its password before, and which was created after.
OldPasswordEnds ==
  \A s \in Live :
    \/ seen.cred[s.login] = cred
    \/ s.n > seen.dropped.session /\ s.login <= seen.dropped.login
    \/ "undropped" \in seen.mishaps \/ \E h \in Handlers : At(h, "drop")

\* The authenticator in force proved itself with a code, unless an enrollment
\* was started while another was being confirmed.
SecretWasConfirmed ==
  totp.secret \in seen.confirmed \cup {0} \/ "restarted" \in seen.mishaps

\* Nobody is let in past a factor that is set up, and none is set up with a
\* secret nobody has shown a code of (HandleLoginPost, ConfirmTOTP).
FactorsHold == FactorsAreAsked /\ SecretWasConfirmed

\* Failures of an address are forgotten by a login that is complete, or with
\* time: a password that is right, with its codes yet to come, forgets none,
\* and a lock ends early only by a request that was let in before it.
Weaker(e, f) == f.failures < e.failures \/ f.until < e.until
LetIn(h) == Blocked(tries, clock) => req[h].from <= tries.until - Lockout
FailuresCount ==
  [][Weaker(tries, tries') =>
       \/ Dead(tries, clock)
       \/ \E h \in Handlers :
            /\ LetIn(h)
            /\ \/ WindowOver(tries, clock) /\ req'[h] = Idle
               \/ req'[h].pc = "forget" /\ ~At(h, "forget")]_vars
=============================================================================
