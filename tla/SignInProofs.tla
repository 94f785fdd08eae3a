---------------------------- MODULE SignInProofs ----------------------------
(* Theorems about SignIn, for every value of the constants. *)
EXTENDS SignIn, FiniteSetTheorems, TLAPS

Record(q) == q = [pc |-> q.pc, login |-> q.login, code |-> q.code,
                  from |-> q.from, own |-> q.own]
Row(s) == s = [n |-> s.n, login |-> s.login, state |-> s.state,
               device |-> s.device, after |-> s.after, unasked |-> s.unasked]

\* The sessions are numbered, and a login that is about to insert one sees
\* none alive but those that were inserted after it revoked the others.
Numbered ==
  /\ "sessions" \in DOMAIN seen /\ seen.sessions \in Nat
  /\ \A s \in rows : Row(s) /\ s.n \in Nat /\ s.n <= seen.sessions
Requests ==
  /\ DOMAIN req = Handlers /\ req = [h \in Handlers |-> req[h]]
  /\ \A h \in Handlers : Record(req[h])
Inserting(h) ==
  At(h, "insert") => /\ req[h].code.after \in Nat /\ req[h].code.after <= seen.sessions
                     /\ \A s \in Live : s.n > req[h].code.after

SessionInv ==
  /\ Numbered /\ Requests
  /\ \A h \in Handlers : Inserting(h)
  /\ OneLiveSession

LEMMA SessionInit == Init => SessionInv
<1> SUFFICES ASSUME Init PROVE SessionInv
  OBVIOUS
<1>1. PICK d \in Devices : rows = {[n |-> 0, login |-> 0, state |-> "live",
                                    device |-> d, after |-> 0, unasked |-> {}]}
  BY DEF Init
<1>2. seen.sessions = 0 /\ "sessions" \in DOMAIN seen
  BY DEF Init
<1>3. Numbered
  BY <1>1, <1>2 DEF Numbered, Row
<1>4. Requests /\ \A h \in Handlers : Inserting(h)
  BY DEF Init, Requests, Record, Idle, Inserting, At
<1>5. OneLiveSession
  BY <1>1 DEF OneLiveSession, Live
<1> QED
  BY <1>3, <1>4, <1>5 DEF SessionInv

\* A handler goes anywhere but to the insert; no session is counted.
Elsewhere(h) ==
  /\ req' = [req EXCEPT ![h] = req'[h]] /\ Record(req'[h]) /\ req'[h].pc # "insert"
Uncounted == seen'.sessions = seen.sessions /\ "sessions" \in DOMAIN seen'

SomeoneElse == req' = req \/ \E h \in Handlers : Elsewhere(h)

LEMMA ElsewhereKeeps ==
  ASSUME SessionInv, SomeoneElse, Uncounted,
         Live' \subseteq Live, \A s \in rows' : Row(s) /\ \E r \in rows : s.n = r.n
  PROVE  SessionInv'
<1>1. Requests'
  BY DEF SessionInv, Requests, Elsewhere, SomeoneElse
<1>2. Numbered'
  BY DEF SessionInv, Numbered, Uncounted
<1>3. ASSUME NEW g \in Handlers PROVE Inserting(g)'
  <2>1. At(g, "insert")' => req'[g] = req[g]
    BY DEF At, Elsewhere, SomeoneElse, SessionInv, Requests
  <2> QED
    BY <2>1 DEF SessionInv, Inserting, At, Uncounted
<1>4. OneLiveSession'
  BY DEF SessionInv, OneLiveSession
<1> QED
  BY <1>1, <1>2, <1>3, <1>4 DEF SessionInv

\* The same, when the sessions table is not touched.
LEMMA QuietKeeps ==
  ASSUME SessionInv, SomeoneElse, Uncounted, rows' = rows
  PROVE  SessionInv'
<1>1. \A s \in rows' : Row(s) /\ \E r \in rows : s.n = r.n
  BY DEF SessionInv, Numbered
<1>2. Live' \subseteq Live
  BY DEF Live
<1> QED
  BY <1>1, <1>2, ElsewhereKeeps

\* How requests arrive, move and end.
LEMMA Moves ==
  ASSUME SessionInv, NEW h \in Handlers
  PROVE  /\ \A pc, l, c, o : pc # "insert" /\ Arrive(h, pc, l, c, o) => Elsewhere(h) /\ Uncounted
         /\ \A pc : pc # "insert" /\ Goto(h, pc) => Elsewhere(h)
         /\ Done(h) => Elsewhere(h)
         /\ \A u : Passed(h, u) => Elsewhere(h)
         /\ Fail(h) => Elsewhere(h)
         /\ \A q : req' = [req EXCEPT ![h] = q] /\ Record(q) /\ q.pc # "insert" => Elsewhere(h)
<1> USE DEF SessionInv, Requests, Elsewhere, Record
<1>1. ASSUME NEW pc, NEW l, NEW c, NEW o, pc # "insert", Arrive(h, pc, l, c, o)
      PROVE  Elsewhere(h) /\ Uncounted
  BY <1>1 DEF Arrive, Uncounted, Numbered
<1>2. ASSUME NEW q, req' = [req EXCEPT ![h] = q], Record(q), q.pc # "insert"
      PROVE  Elsewhere(h)
  BY <1>2
<1>3. ASSUME NEW pc, pc # "insert", Goto(h, pc) PROVE Elsewhere(h)
  BY <1>3 DEF Goto
<1>4. ASSUME Done(h) PROVE Elsewhere(h)
  BY <1>4 DEF Done, Idle
<1>5. ASSUME NEW u, Passed(h, u) PROVE Elsewhere(h)
  <2>1. req'[h] = [req[h] EXCEPT !.pc = "forget", !.code = [unasked |-> u]]
    BY <1>5 DEF Passed
  <2>2. Record(req'[h]) /\ req'[h].pc = "forget"
    BY <2>1
  <2>3. req' = [req EXCEPT ![h] = req'[h]]
    BY <1>5 DEF Passed
  <2> QED
    BY <2>2, <2>3
<1> QED
  BY <1>1, <1>2, <1>3, <1>4, <1>5 DEF Fail

LEMMA Counts ==
  ASSUME SessionInv
  PROVE  /\ \A w : Fault(w) => Uncounted
         /\ \A w : Note(w) => Uncounted
         /\ \A on, a : LooksUp(on, a) => Uncounted
         /\ Count => Uncounted
         /\ UNCHANGED seen => Uncounted
         /\ \A c : seen' = Spent(c) => Uncounted
BY DEF SessionInv, Numbered, Uncounted, Fault, Note, LooksUp, Count, Spent

-----------------------------------------------------------------------------

LEMMA FirstStepKeeps ==
  ASSUME SessionInv, NEW h \in Handlers,
         \/ LoginPost(h) \/ CheckAdminPassword(h) \/ TOTPEnabled(h) \/ PasskeysEnabled(h)
  PROVE  SessionInv'
<1>1. CASE LoginPost(h)
  <2>1. Elsewhere(h) /\ Uncounted /\ rows' = rows
    BY <1>1, Moves DEF LoginPost, store
  <2> QED
    BY <2>1, QuietKeeps DEF SomeoneElse
<1>2. CASE CheckAdminPassword(h)
  <2>1. rows' = rows
    BY <1>2 DEF CheckAdminPassword, store
  <2>2. Uncounted
    BY <1>2 DEF CheckAdminPassword, Uncounted, SessionInv, Numbered, Fault
  <2>3. Elsewhere(h)
    <3>1. PICK q : q = [Idle EXCEPT !.pc = "enabled", !.login = seen.logins + 1, !.from = req[h].from]
      OBVIOUS
    <3>2. q = [pc |-> "enabled", login |-> seen.logins + 1, code |-> <<>>, from |-> req[h].from, own |-> 0]
      BY <3>1 DEF Idle
    <3>3. Record(q) /\ q.pc # "insert"
      BY <3>2 DEF Record
    <3> QED
      BY <1>2, <3>1, <3>3, Moves DEF CheckAdminPassword
  <2> QED
    BY <2>1, <2>2, <2>3, QuietKeeps DEF SomeoneElse
<1>3. CASE TOTPEnabled(h)
  <2>1. Elsewhere(h) /\ Uncounted /\ rows' = rows
    BY <1>3, Moves, Counts DEF TOTPEnabled, store
  <2> QED
    BY <2>1, QuietKeeps DEF SomeoneElse
<1>4. CASE PasskeysEnabled(h)
  <2>1. Elsewhere(h) /\ Uncounted /\ rows' = rows
    BY <1>4, Moves, Counts DEF PasskeysEnabled, Park, PasswordOnly, store
  <2> QED
    BY <2>1, QuietKeeps DEF SomeoneElse
<1> QED
  BY <1>1, <1>2, <1>3, <1>4

LEMMA CodesKeep ==
  ASSUME SessionInv, NEW h \in Handlers,
         \/ LoginTOTPPost(h) \/ GetTOTPSecret(h) \/ NoSecret(h)
         \/ GetTOTPLastCounter(h) \/ SetTOTPLastCounter(h)
         \/ ReadBackupCodes(h) \/ WriteBackupCodes(h)
         \/ CompareMailCode(h) \/ DropMailCode(h) \/ Accept(h)
  PROVE  SessionInv'
<1>1. CASE LoginTOTPPost(h)
  <2>1. Elsewhere(h) /\ Uncounted /\ rows' = rows
    BY <1>1, Moves DEF LoginTOTPPost, store
  <2> QED
    BY <2>1, QuietKeeps DEF SomeoneElse
<1>2. CASE GetTOTPSecret(h)
  <2>1. Elsewhere(h) /\ Uncounted /\ rows' = rows
    BY <1>2, Moves, Counts DEF GetTOTPSecret, store
  <2> QED
    BY <2>1, QuietKeeps DEF SomeoneElse
<1>3. CASE NoSecret(h)
  <2>1. Elsewhere(h) /\ Uncounted /\ rows' = rows
    BY <1>3, Moves, Counts DEF NoSecret, store
  <2> QED
    BY <2>1, QuietKeeps DEF SomeoneElse
<1>4. CASE GetTOTPLastCounter(h)
  <2>1. Elsewhere(h) /\ Uncounted /\ rows' = rows
    BY <1>4, Moves, Counts DEF GetTOTPLastCounter, store
  <2> QED
    BY <2>1, QuietKeeps DEF SomeoneElse
<1>5. CASE SetTOTPLastCounter(h)
  <2>1. Elsewhere(h) /\ Uncounted /\ rows' = rows
    BY <1>5, Moves, Counts DEF SetTOTPLastCounter
  <2> QED
    BY <2>1, QuietKeeps DEF SomeoneElse
<1>6. CASE ReadBackupCodes(h)
  <2>1. Uncounted /\ rows' = rows
    BY <1>6, Counts DEF ReadBackupCodes, store
  <2>2. AfterCodes(h) # "insert"
    BY DEF AfterCodes
  <2>3. ASSUME NEW n, req' = [req EXCEPT ![h].pc = "setcodes",
                                         ![h].code = <<"rest", n, totp.codes \ {n}>>]
        PROVE  Elsewhere(h)
    <3>1. req'[h] = [req[h] EXCEPT !.pc = "setcodes", !.code = <<"rest", n, totp.codes \ {n}>>]
      BY <2>3 DEF SessionInv, Requests
    <3>2. Record(req'[h]) /\ req'[h].pc = "setcodes"
      BY <3>1 DEF SessionInv, Requests, Record
    <3>3. req' = [req EXCEPT ![h] = req'[h]]
      BY <2>3 DEF SessionInv, Requests
    <3> QED
      BY <3>2, <3>3 DEF Elsewhere
  <2> QED
    BY <1>6, <2>1, <2>2, <2>3, Moves, QuietKeeps DEF SomeoneElse, ReadBackupCodes
<1>7. CASE WriteBackupCodes(h)
  <2>1. Elsewhere(h) /\ rows' = rows
    BY <1>7, Moves DEF WriteBackupCodes
  <2>2. Uncounted
    BY <1>7 DEF WriteBackupCodes, Spent, Uncounted, SessionInv, Numbered
  <2> QED
    BY <2>1, <2>2, QuietKeeps DEF SomeoneElse
<1>8. CASE CompareMailCode(h) \/ DropMailCode(h) \/ Accept(h)
  <2>1. Elsewhere(h) /\ Uncounted /\ rows' = rows
    BY <1>8, Moves, Counts DEF CompareMailCode, DropMailCode, Accept, store
  <2> QED
    BY <2>1, QuietKeeps DEF SomeoneElse
<1> QED
  BY <1>1, <1>2, <1>3, <1>4, <1>5, <1>6, <1>7, <1>8

LEMMA MailAndPasskeysKeep ==
  ASSUME SessionInv, NEW h \in Handlers,
         \/ LoginTOTPEmail(h) \/ KeepMailCode(h) \/ SendLoginCode(h)
         \/ FinishPasskeyLogin(h) \/ VerifyPasskey(h) \/ BeginPasskeyLogin
  PROVE  SessionInv'
<1>1. Uncounted /\ rows' = rows
  BY Moves, Counts
  DEF LoginTOTPEmail, KeepMailCode, SendLoginCode, FinishPasskeyLogin, VerifyPasskey,
      BeginPasskeyLogin, store
<1>2. Elsewhere(h) \/ req' = req
  BY Moves
  DEF LoginTOTPEmail, KeepMailCode, SendLoginCode, FinishPasskeyLogin, VerifyPasskey,
      BeginPasskeyLogin
<1> QED
  BY <1>1, <1>2, QuietKeeps DEF SomeoneElse

-----------------------------------------------------------------------------
(* The statements of CreateSession, and the settings that end sessions *)

\* A handler whose two fields are set.
LEMMA Moved ==
  ASSUME Requests, NEW h \in Handlers, NEW pc, NEW code,
         req' = [req EXCEPT ![h].pc = pc, ![h].code = code]
  PROVE  /\ req'[h].pc = pc /\ req'[h].code = code /\ Record(req'[h])
         /\ req' = [req EXCEPT ![h] = req'[h]]
<1>1. req'[h] = [req[h] EXCEPT !.pc = pc, !.code = code]
  BY DEF Requests
<1>2. Record(req[h])
  BY DEF Requests
<1>3. PICK q : q = [pc |-> pc, login |-> req[h].login, code |-> code,
                    from |-> req[h].from, own |-> req[h].own]
  OBVIOUS
<1>4. req'[h].pc = pc /\ req'[h].code = code /\ Record(req'[h])
  <2>1. req'[h] = q
    BY <1>1, <1>2, <1>3 DEF Record
  <2>2. q.pc = pc /\ q.code = code /\ Record(q)
    BY <1>3 DEF Record
  <2> QED
    BY <2>1, <2>2 DEF Record
<1>5. req' = [req EXCEPT ![h] = req'[h]]
  BY DEF Requests
<1> QED
  BY <1>4, <1>5

\* Revoked rows keep their number and are not live.
LEMMA RevokedRows ==
  ASSUME SessionInv, NEW set \in SUBSET rows
  PROVE  \A s \in Revoked(set) : /\ Row(s) /\ s.state = "revoked"
                                 /\ \E r \in rows : s.n = r.n
<1> SUFFICES ASSUME NEW s \in Revoked(set)
             PROVE  Row(s) /\ s.state = "revoked" /\ \E r \in rows : s.n = r.n
  OBVIOUS
<1>1. PICK r \in rows : s = [r EXCEPT !.state = "revoked"]
  BY DEF Revoked
<1>2. Row(r)
  BY DEF SessionInv, Numbered
<1>3. s = [n |-> r.n, login |-> r.login, state |-> "revoked",
           device |-> r.device, after |-> r.after, unasked |-> r.unasked]
  BY <1>1, <1>2 DEF Row
<1> QED
  BY <1>3 DEF Row

LEMMA FewerKeeps ==
  ASSUME SessionInv, SomeoneElse, Uncounted,
         NEW gone \in SUBSET rows, NEW set \in SUBSET rows,
         rows' = (rows \ gone) \cup Revoked(set)
  PROVE  SessionInv'
<1>1. \A s \in rows' : Row(s) /\ \E r \in rows : s.n = r.n
  BY RevokedRows DEF SessionInv, Numbered
<1>2. Live' \subseteq Live
  BY RevokedRows DEF Live
<1> QED
  BY <1>1, <1>2, ElsewhereKeeps

LEMMA NoneRevoked == Revoked({}) = {}
BY DEF Revoked

LEMMA ForgetKeeps ==
  ASSUME SessionInv, NEW h \in Handlers, ForgetDevice(h)
  PROVE  SessionInv'
<1>1. CASE \E d \in Devices :
             /\ rows' = {s \in rows : s.device # d}
             /\ req' = [req EXCEPT ![h].pc = "revoke",
                          ![h].code = [unasked |-> @.unasked, device |-> d]]
             /\ UNCHANGED seen
  <2>1. PICK d \in Devices :
             /\ rows' = {s \in rows : s.device # d}
             /\ req' = [req EXCEPT ![h].pc = "revoke",
                          ![h].code = [unasked |-> @.unasked, device |-> d]]
             /\ UNCHANGED seen
    BY <1>1
  <2>2. PICK code : code = [unasked |-> req[h].code.unasked, device |-> d]
    OBVIOUS
  <2>3. req' = [req EXCEPT ![h].pc = "revoke", ![h].code = code]
    BY <2>1, <2>2
  <2>4. /\ req'[h].pc = "revoke" /\ Record(req'[h])
        /\ req' = [req EXCEPT ![h] = req'[h]]
    BY <2>3, Moved DEF SessionInv
  <2>5. Elsewhere(h)
    BY <2>4 DEF Elsewhere
  <2>6. PICK its \in SUBSET rows : its = {s \in rows : s.device = d}
    OBVIOUS
  <2>7. rows' = (rows \ its) \cup Revoked({}) /\ {} \in SUBSET rows
    BY <2>1, <2>6, NoneRevoked
  <2>8. Uncounted
    BY <2>1, Counts
  <2> QED
    BY <2>5, <2>7, <2>8, FewerKeeps DEF SomeoneElse
<1>2. CASE Fault({}) /\ Done(h) /\ UNCHANGED rows
  BY <1>2, Moves, Counts, QuietKeeps DEF SomeoneElse
<1> QED
  BY <1>1, <1>2 DEF ForgetDevice

\* Nobody is live when the sessions have been revoked.
LEMMA RevokeKeeps ==
  ASSUME SessionInv, NEW h \in Handlers, RevokeLive(h)
  PROVE  SessionInv'
<1>1. CASE Fault({}) /\ Done(h) /\ UNCHANGED rows
  BY <1>1, Moves, Counts, QuietKeeps DEF SomeoneElse
<1>2. CASE rows' = Revoked(rows) /\ UNCHANGED seen
           /\ req' = [req EXCEPT ![h].pc = "insert",
                        ![h].code = [unasked |-> @.unasked, device |-> @.device,
                                     after |-> seen.sessions]]
  <2>1. PICK code : code = [unasked |-> req[h].code.unasked, device |-> req[h].code.device,
                            after |-> seen.sessions]
    OBVIOUS
  <2>2. req' = [req EXCEPT ![h].pc = "insert", ![h].code = code]
    BY <1>2, <2>1
  <2>3. /\ req'[h].code = code /\ Record(req'[h]) /\ req' = [req EXCEPT ![h] = req'[h]]
    BY <2>2, Moved DEF SessionInv
  <2>4. Live' = {} /\ \A s \in rows' : Row(s) /\ \E r \in rows : s.n = r.n
    BY <1>2, RevokedRows DEF Live
  <2>5. Numbered' /\ OneLiveSession'
    BY <1>2, <2>4 DEF SessionInv, Numbered, OneLiveSession
  <2>6. Requests'
    BY <2>3 DEF SessionInv, Requests
  <2>7. \A g \in Handlers : Inserting(g)'
    BY <1>2, <2>1, <2>3, <2>4 DEF SessionInv, Inserting, Numbered, Requests, At
  <2> QED
    BY <2>5, <2>6, <2>7 DEF SessionInv
<1> QED
  BY <1>1, <1>2 DEF RevokeLive

\* The new session comes after every one there is, and after the one that was
\* the last when its login revoked the others.
LEMMA InsertKeeps ==
  ASSUME SessionInv, NEW h \in Handlers, InsertSession(h)
  PROVE  SessionInv'
<1>1. Done(h) /\ At(h, "insert")
  BY DEF InsertSession
<1>2. CASE Fault({}) /\ UNCHANGED rows
  BY <1>1, <1>2, Moves, Counts, QuietKeeps DEF SomeoneElse
<1>3. CASE seen' = [seen EXCEPT !.sessions = @ + 1]
           /\ rows' = rows \cup
             {[n |-> seen.sessions + 1, login |-> req[h].login, state |-> "live",
               device |-> req[h].code.device, after |-> req[h].code.after,
               unasked |-> req[h].code.unasked]}
  <2>1. PICK b : b = [n |-> seen.sessions + 1, login |-> req[h].login, state |-> "live",
                      device |-> req[h].code.device, after |-> req[h].code.after,
                      unasked |-> req[h].code.unasked]
    OBVIOUS
  <2>2. Row(b) /\ b.n = seen.sessions + 1 /\ b.after = req[h].code.after
    BY <2>1 DEF Row
  <2>3. rows' = rows \cup {b} /\ Live' \subseteq Live \cup {b}
    BY <1>3, <2>1 DEF Live
  <2>4. /\ seen.sessions \in Nat /\ seen'.sessions = seen.sessions + 1
        /\ "sessions" \in DOMAIN seen'
    BY <1>3 DEF SessionInv, Numbered
  <2>5. Numbered'
    BY <2>2, <2>3, <2>4 DEF SessionInv, Numbered
  <2>6. Elsewhere(h)
    BY <1>1, Moves
  <2>7. Requests'
    BY <2>6 DEF SessionInv, Requests, Elsewhere
  <2>8. ASSUME NEW g \in Handlers PROVE Inserting(g)'
    <3>1. At(g, "insert")' => req'[g] = req[g] /\ At(g, "insert")
      BY <2>6 DEF At, Elsewhere, SessionInv, Requests
    <3> QED
      BY <2>2, <2>3, <2>4, <3>1 DEF SessionInv, Inserting
  <2>9. /\ \A s \in Live : s.n \in Nat /\ s.n <= seen.sessions /\ s.n > req[h].code.after
        /\ req[h].code.after \in Nat
    BY <1>1 DEF SessionInv, Numbered, Inserting, Live
  <2>10. OneLiveSession'
    BY <2>2, <2>3, <2>4, <2>9 DEF SessionInv, OneLiveSession
  <2> QED
    BY <2>5, <2>7, <2>8, <2>10 DEF SessionInv
<1> QED
  BY <1>2, <1>3 DEF InsertSession

LEMMA EnrollmentKeeps ==
  ASSUME SessionInv, NEW h \in Handlers,
         \/ ConfirmTOTPEnrollment(h) \/ ReadPending(h) \/ DisableTOTP(h) \/ WriteTOTPKey(h)
         \/ TakeEnrollment(h) \/ RegisterPasskey(h) \/ ChangeCredentials(h) \/ SetCredentials(h)
  PROVE  SessionInv'
<1>1. rows' = rows
  BY DEF ConfirmTOTPEnrollment, ReadPending, DisableTOTP, WriteTOTPKey, TakeEnrollment,
         RegisterPasskey, ChangeCredentials, SetCredentials, store
<1>2. ASSUME NEW what, NEW pc, NEW code, pc # "insert", Admitted(h, what, pc, code)
      PROVE  Elsewhere(h) /\ Uncounted
  BY <1>2, Moves DEF Admitted
<1>3. CASE ConfirmTOTPEnrollment(h) \/ DisableTOTP(h) \/ TakeEnrollment(h) \/ ChangeCredentials(h)
  BY <1>1, <1>2, <1>3, QuietKeeps
  DEF SomeoneElse, ConfirmTOTPEnrollment, DisableTOTP, TakeEnrollment, ChangeCredentials
<1>4. CASE ReadPending(h)
  <2>1. Uncounted
    BY <1>4 DEF ReadPending, Uncounted, SessionInv, Numbered
  <2>2. ASSUME NEW code, req' = [req EXCEPT ![h].pc = "on1", ![h].code = code]
        PROVE  Elsewhere(h)
    <3>1. /\ req'[h].pc = "on1" /\ Record(req'[h])
          /\ req' = [req EXCEPT ![h] = req'[h]]
      BY <2>2, Moved DEF SessionInv
    <3> QED
      BY <3>1 DEF Elsewhere
  <2> QED
    BY <1>1, <1>4, <2>1, <2>2, Moves, QuietKeeps DEF SomeoneElse, ReadPending
<1>5. CASE WriteTOTPKey(h)
  <2>1. Uncounted
    BY <1>5 DEF WriteTOTPKey, Uncounted, SessionInv, Numbered, Fault
  <2>2. After[req[h].pc] # "insert"
    BY <1>5 DEF WriteTOTPKey, After
  <2>3. Elsewhere(h)
    BY <1>5, <2>2, Moves DEF WriteTOTPKey
  <2> QED
    BY <1>1, <2>1, <2>3, QuietKeeps DEF SomeoneElse
<1>6. CASE RegisterPasskey(h)
  <2>1. Uncounted
    BY <1>6 DEF RegisterPasskey, Uncounted, SessionInv, Numbered, Fault
  <2>2. Elsewhere(h)
    BY <1>6, Moves DEF RegisterPasskey
  <2> QED
    BY <1>1, <2>1, <2>2, QuietKeeps DEF SomeoneElse
<1>7. CASE SetCredentials(h)
  <2>1. Uncounted /\ Elsewhere(h)
    BY <1>7, Moves, Counts DEF SetCredentials
  <2> QED
    BY <1>1, <2>1, QuietKeeps DEF SomeoneElse
<1> QED
  BY <1>3, <1>4, <1>5, <1>6, <1>7

LEMMA EndingsKeep ==
  ASSUME SessionInv, NEW h \in Handlers,
         \/ DropSessions(h) \/ RevokeDevice(h) \/ EndDevice(h)
  PROVE  SessionInv'
<1>1. {} \in SUBSET rows /\ rows \in SUBSET rows
  OBVIOUS
<1>2. CASE DropSessions(h)
  <2>1. CASE Fault({"undropped"}) /\ UNCHANGED rows
    BY <1>2, <2>1, Moves, Counts, QuietKeeps DEF SomeoneElse, DropSessions
  <2>2. CASE rows' = {} /\ seen' = [seen EXCEPT !.dropped = [session |-> seen.sessions,
                                                              login |-> seen.logins]]
    <3>1. Uncounted
      BY <2>2 DEF Uncounted, SessionInv, Numbered
    <3>2. rows' = (rows \ rows) \cup Revoked({})
      BY <2>2, NoneRevoked
    <3>3. Elsewhere(h)
      BY <1>2, Moves DEF DropSessions
    <3> QED
      BY <1>1, <3>1, <3>2, <3>3, FewerKeeps DEF SomeoneElse
  <2> QED
    BY <1>2, <2>1, <2>2 DEF DropSessions
<1>3. CASE RevokeDevice(h)
  <2>1. Elsewhere(h) /\ Uncounted /\ rows' = rows
    BY <1>3, Moves DEF RevokeDevice, Admitted, store
  <2> QED
    BY <2>1, QuietKeeps DEF SomeoneElse
<1>4. CASE EndDevice(h)
  <2>1. PICK its \in SUBSET rows : its = {s \in rows : s.n = req[h].code[1]}
    OBVIOUS
  <2>2. \/ rows' = (rows \ its) \cup Revoked(its)
        \/ rows' = (rows \ its) \cup Revoked({})
    BY <1>4, <2>1, NoneRevoked DEF EndDevice
  <2>3. Elsewhere(h) /\ Uncounted
    BY <1>4, Moves, Counts DEF EndDevice
  <2> QED
    BY <1>1, <2>2, <2>3, FewerKeeps DEF SomeoneElse
<1> QED
  BY <1>2, <1>3, <1>4

LEMMA SignOutsKeep ==
  ASSUME SessionInv, RevokeOtherDevices \/ Logout
  PROVE  SessionInv'
<1>1. {} \in SUBSET rows
  OBVIOUS
<1>2. CASE RevokeOtherDevices
  <2>1. PICK s \in Live : rows' = {s} \cup Revoked(rows \ {s})
    BY <1>2 DEF RevokeOtherDevices
  <2>2. PICK its \in SUBSET rows : its = rows \ {s}
    OBVIOUS
  <2>3. rows' = (rows \ its) \cup Revoked(its)
    BY <2>1, <2>2 DEF Live
  <2>4. req' = req /\ Uncounted
    BY <1>2, Counts DEF RevokeOtherDevices
  <2> QED
    BY <2>3, <2>4, FewerKeeps DEF SomeoneElse
<1>3. CASE Logout
  <2>1. PICK s \in Live : rows' = rows \ {s}
    BY <1>3 DEF Logout
  <2>2. PICK its \in SUBSET rows : its = {s}
    BY DEF Live
  <2>3. rows' = (rows \ its) \cup Revoked({})
    BY <2>1, <2>2, NoneRevoked
  <2>4. req' = req /\ Uncounted
    BY <1>3, Counts DEF Logout
  <2> QED
    BY <1>1, <2>3, <2>4, FewerKeeps DEF SomeoneElse
<1> QED
  BY <1>2, <1>3

\* Steps of no handler leave the requests and the sessions as they are.
LEMMA OthersKeep ==
  ASSUME SessionInv,
         \/ BeginPasskeyLogin \/ StartTOTPEnrollment \/ BeginPasskeyEnrollment
         \/ DeletePasskey \/ Tick \/ Sweep \/ UNCHANGED vars
  PROVE  SessionInv'
<1>1. rows' = rows /\ req' = req
  BY DEF BeginPasskeyLogin, StartTOTPEnrollment, BeginPasskeyEnrollment, DeletePasskey,
         Tick, Sweep, vars, store
<1>2. seen'.sessions = seen.sessions /\ "sessions" \in DOMAIN seen'
  BY DEF BeginPasskeyLogin, StartTOTPEnrollment, BeginPasskeyEnrollment, DeletePasskey,
         Tick, Sweep, vars, Count, SessionInv, Numbered
<1> QED
  BY <1>1, <1>2
  DEF SessionInv, Numbered, Requests, Inserting, OneLiveSession, Live, At

LEMMA SessionNext == SessionInv /\ [Next]_vars => SessionInv'
<1> SUFFICES ASSUME SessionInv, [Next]_vars PROVE SessionInv'
  OBVIOUS
<1>1. ASSUME NEW h \in Handlers,
             \/ LoginPost(h) \/ CheckAdminPassword(h)
             \/ TOTPEnabled(h) \/ PasskeysEnabled(h)
             \/ LoginTOTPPost(h) \/ GetTOTPSecret(h) \/ NoSecret(h)
             \/ GetTOTPLastCounter(h) \/ SetTOTPLastCounter(h)
             \/ ReadBackupCodes(h) \/ WriteBackupCodes(h)
             \/ CompareMailCode(h) \/ DropMailCode(h) \/ Accept(h)
      PROVE  SessionInv'
  BY <1>1, FirstStepKeeps, CodesKeep
<1>2. ASSUME NEW h \in Handlers,
             \/ LoginTOTPEmail(h) \/ KeepMailCode(h) \/ SendLoginCode(h)
             \/ FinishPasskeyLogin(h) \/ VerifyPasskey(h)
             \/ ForgetDevice(h) \/ RevokeLive(h) \/ InsertSession(h)
      PROVE  SessionInv'
  BY <1>2, MailAndPasskeysKeep, ForgetKeeps, RevokeKeeps, InsertKeeps
<1>3. ASSUME NEW h \in Handlers,
             \/ ConfirmTOTPEnrollment(h) \/ ReadPending(h) \/ DisableTOTP(h)
             \/ WriteTOTPKey(h) \/ ChangeCredentials(h) \/ SetCredentials(h)
             \/ DropSessions(h) \/ TakeEnrollment(h) \/ RegisterPasskey(h)
             \/ RevokeDevice(h) \/ EndDevice(h)
      PROVE  SessionInv'
  BY <1>3, EnrollmentKeeps, EndingsKeep
<1> QED
  BY <1>1, <1>2, <1>3, SignOutsKeep, OthersKeep DEF Next

\* CreateSession's statements keep one session alive, but for those inserted
\* between the UPDATE and the INSERT of a newer login, whatever else the
\* requests of the account do meanwhile.
THEOREM OneSession == Spec => []OneLiveSession
<1>1. SessionInv => OneLiveSession
  BY DEF SessionInv
<1> QED
  BY <1>1, SessionInit, SessionNext, PTL DEF Spec

-----------------------------------------------------------------------------
(* The login limiter across everything the requests of the account do.     *)

\* The steps of a login after its password; the two that a setting may take
\* as well ("codes", "setcodes") are told apart by the login.
LoginSteps == {"enabled", "park", "passkeys", "secret", "orpasskeys", "last", "setlast",
               "mail", "dropmail", "assert", "proven", "unproven"}
Fits(q) == q.pc \in LoginSteps => q.login # 0
\* A request that was held against the limiter when it came.
Guarded(q) == q.pc = "password" \/ q.login # 0

Limits ==
  /\ clock \in Nat
  /\ tries \in [failures : 0 .. MaxFailures, first : Nat, until : Nat]
  /\ tries.until <= clock + Lockout
  /\ tries.failures = 0 => tries.until = 0

\* A lock that is in force began after every such request was let in.
Before(q) == Guarded(q) => /\ q.from \in Nat /\ q.from <= clock
                           /\ tries.until > clock => q.from <= tries.until - Lockout

LimitInv ==
  /\ Limits /\ Requests
  /\ "logins" \in DOMAIN seen /\ seen.logins \in Nat
  /\ \A h \in Handlers : Fits(req[h]) /\ Before(req[h])

\* How a request may go on: as it was let in, or let in now.
Follows(h, q) ==
  /\ Record(q) /\ Fits(q)
  /\ Guarded(q) => \/ Guarded(req[h]) /\ q.from = req[h].from
                   \/ ~Blocked(tries, clock) /\ q.from = clock
GoesOn(h) == req' = [req EXCEPT ![h] = req'[h]] /\ Follows(h, req'[h])

Clears(h) == /\ tries' = NoTries
             /\ req[h].pc # "forget" /\ req'[h].pc = "forget"
Counted == "logins" \in DOMAIN seen' /\ seen'.logins \in Nat

LimitStep(h) ==
  /\ GoesOn(h) /\ Counted /\ clock' = clock
  /\ tries' = tries \/ (Guarded(req[h]) /\ (Fail(h) \/ Clears(h)))

LEMMA LimitInit == Init => LimitInv
<1> SUFFICES ASSUME Init PROVE LimitInv
  OBVIOUS
<1>1. Limits
  BY LimiterAssumption DEF Init, Limits, NoTries, Failed, WindowOver, LimiterAssumption
<1> QED
  BY <1>1 DEF Init, LimitInv, Requests, Record, Idle, Fits, LoginSteps, Before, Guarded

\* One more failure never shortens a lock.
LEMMA FailedLimits ==
  ASSUME Limits
  PROVE  /\ Failed(tries, clock) \in [failures : 0 .. MaxFailures, first : Nat, until : Nat]
         /\ Failed(tries, clock).until \in {0, tries.until, clock + Lockout}
         /\ Failed(tries, clock).until <= clock + Lockout
         /\ Failed(tries, clock).failures # 0
         /\ ~WindowOver(tries, clock) => ~Weaker(tries, Failed(tries, clock))
         /\ tries.failures = 0 => ~Weaker(tries, Failed(tries, clock))
<1> USE LimiterAssumption DEF LimiterAssumption, Limits
<1>1. CASE tries.failures = 0 \/ WindowOver(tries, clock)
  <2>1. Failed(tries, clock) = [failures |-> 1, first |-> clock, until |-> 0]
    BY <1>1 DEF Failed
  <2> QED
    BY <1>1, <2>1 DEF Weaker
<1>2. CASE ~(tries.failures = 0 \/ WindowOver(tries, clock)) /\ tries.failures + 1 >= MaxFailures
  <2>1. Failed(tries, clock) = [tries EXCEPT !.failures = MaxFailures, !.until = clock + Lockout]
    BY <1>2 DEF Failed
  <2>2. /\ Failed(tries, clock) \in [failures : 0 .. MaxFailures, first : Nat, until : Nat]
        /\ Failed(tries, clock).until = clock + Lockout
        /\ Failed(tries, clock).failures = MaxFailures
    <3>1. MaxFailures \in 0 .. MaxFailures /\ clock + Lockout \in Nat
      OBVIOUS
    <3>2. tries = [failures |-> tries.failures, first |-> tries.first, until |-> tries.until]
      OBVIOUS
    <3>3. Failed(tries, clock) = [failures |-> MaxFailures, first |-> tries.first,
                                  until |-> clock + Lockout]
      BY <2>1, <3>2
    <3>4. tries.first \in Nat
      OBVIOUS
    <3> HIDE DEF Limits
    <3> QED
      BY <3>1, <3>3, <3>4
  <2>3. ~Weaker(tries, Failed(tries, clock))
    BY <2>2 DEF Weaker
  <2> QED
    BY <1>2, <2>2, <2>3
<1>3. CASE ~(tries.failures = 0 \/ WindowOver(tries, clock)) /\ ~(tries.failures + 1 >= MaxFailures)
  <2>1. Failed(tries, clock) = [tries EXCEPT !.failures = @ + 1]
    BY <1>3 DEF Failed
  <2> QED
    BY <1>3, <2>1 DEF Weaker
<1> QED
  BY <1>1, <1>2, <1>3

LEMMA LimitStepKeeps ==
  ASSUME LimitInv, NEW h \in Handlers, LimitStep(h)
  PROVE  LimitInv'
<1>1. Limits'
  <2>1. CASE tries' = tries
    BY <2>1 DEF LimitInv, Limits, LimitStep
  <2>2. CASE Fail(h)
    BY <2>2, FailedLimits DEF LimitInv, Limits, LimitStep, Fail
  <2>3. CASE Clears(h)
    BY <2>3, LimiterAssumption DEF LimitInv, Limits, LimitStep, Clears, NoTries, LimiterAssumption
  <2> QED
    BY <2>1, <2>2, <2>3 DEF LimitStep
<1>2. Requests'
  BY DEF LimitInv, LimitStep, GoesOn, Follows, Requests
<1>3. /\ clock' = clock /\ clock \in Nat /\ tries.until \in Nat /\ Lockout \in Nat
      /\ tries'.until \in {0, tries.until, clock + Lockout}
  BY FailedLimits, LimiterAssumption
  DEF LimitInv, Limits, LimitStep, Fail, Clears, NoTries, LimiterAssumption
<1>4. ASSUME NEW g \in Handlers PROVE Fits(req'[g]) /\ Before(req[g])'
  <2>1. Fits(req[g]) /\ Before(req[g])
    BY DEF LimitInv
  <2>2. CASE g # h
    <3>1. req'[g] = req[g]
      BY <2>2 DEF LimitInv, LimitStep, GoesOn, Requests
    <3> QED
      BY <1>3, <2>1, <3>1 DEF Before, Guarded
  <2>3. CASE g = h
    BY <1>3, <2>1, <2>3 DEF LimitStep, GoesOn, Follows, Before, Blocked
  <2> QED
    BY <2>2, <2>3
<1> QED
  BY <1>1, <1>2, <1>4 DEF LimitInv, LimitStep, Counted

\* What FailuresCount says of a step.
Forgiven ==
  Weaker(tries, tries') =>
    \/ Dead(tries, clock)
    \/ \E h \in Handlers :
         /\ LetIn(h)
         /\ \/ WindowOver(tries, clock) /\ req'[h] = Idle
            \/ req'[h].pc = "forget" /\ ~At(h, "forget")

LEMMA LimitStepForgives ==
  ASSUME LimitInv, NEW h \in Handlers, LimitStep(h)
  PROVE  Forgiven
<1>1. CASE tries' = tries
  BY <1>1 DEF Forgiven, Weaker, LimitInv, Limits
<1>2. ASSUME Guarded(req[h]) PROVE LetIn(h)
  BY <1>2 DEF LimitInv, Limits, Before, LetIn, Blocked
<1>3. CASE Guarded(req[h]) /\ Fail(h)
  <2>1. req'[h] = Idle
    BY <1>3 DEF Fail, Done, LimitInv, Requests
  <2>2. ~WindowOver(tries, clock) => ~Weaker(tries, tries')
    BY <1>3, FailedLimits DEF Fail, LimitInv
  <2> QED
    BY <1>2, <1>3, <2>1, <2>2 DEF Forgiven
<1>4. CASE Guarded(req[h]) /\ Clears(h)
  BY <1>2, <1>4 DEF Forgiven, Clears, At
<1> QED
  BY <1>1, <1>3, <1>4 DEF LimitStep

\* How requests arrive, move and end, as far as the limiter goes.
LEMMA LimitMoves ==
  ASSUME LimitInv, NEW h \in Handlers
  PROVE  /\ \A pc, l, c, o : /\ Arrive(h, pc, l, c, o) /\ (pc \in LoginSteps => l # 0)
                             /\ ~Blocked(tries, clock) \/ (pc # "password" /\ l = 0)
                             => GoesOn(h) /\ Counted
         /\ \A pc, c : /\ req' = [req EXCEPT ![h].pc = pc, ![h].code = c]
                       /\ pc # "password" /\ (pc \in LoginSteps => req[h].login # 0)
                       => GoesOn(h) /\ req'[h].pc = pc
         /\ \A pc : /\ Goto(h, pc) /\ pc # "password"
                    /\ pc \in LoginSteps => req[h].login # 0
                    => GoesOn(h)
         /\ Done(h) => GoesOn(h)
<1> USE DEF LimitInv
<1>1. ASSUME NEW pc, NEW l, NEW c, NEW o, Arrive(h, pc, l, c, o), pc \in LoginSteps => l # 0,
             ~Blocked(tries, clock) \/ (pc # "password" /\ l = 0)
      PROVE  GoesOn(h) /\ Counted
  <2>1. PICK q : q = [pc |-> pc, login |-> l, code |-> c, from |-> clock, own |-> o]
    OBVIOUS
  <2>2. req' = [req EXCEPT ![h] = q] /\ req'[h] = q
    BY <1>1, <2>1 DEF Arrive, Requests
  <2>3. Record(q) /\ q.pc = pc /\ q.login = l /\ q.from = clock
    BY <2>1 DEF Record
  <2>4. GoesOn(h)
    BY <1>1, <2>2, <2>3 DEF GoesOn, Follows, Fits, Guarded
  <2>5. Counted
    BY <1>1 DEF Arrive, Counted
  <2> QED
    BY <2>4, <2>5
<1>2. ASSUME NEW pc, NEW q, q = req'[h], q.pc = pc, q.login = req[h].login, q.from = req[h].from,
             Record(q), req' = [req EXCEPT ![h] = q],
             pc # "password", pc \in LoginSteps => req[h].login # 0
      PROVE  GoesOn(h)
  BY <1>2 DEF GoesOn, Follows, Fits, Guarded
<1>3. Record(req[h])
  BY DEF Requests
<1>4. ASSUME NEW pc, NEW c, req' = [req EXCEPT ![h].pc = pc, ![h].code = c],
             pc # "password", pc \in LoginSteps => req[h].login # 0
      PROVE  GoesOn(h) /\ req'[h].pc = pc
  <2>1. PICK q : q = [req[h] EXCEPT !.pc = pc, !.code = c]
    OBVIOUS
  <2>2. req' = [req EXCEPT ![h] = q] /\ req'[h] = q
    BY <1>4, <2>1 DEF Requests
  <2>3. Record(q) /\ q.pc = pc /\ q.login = req[h].login /\ q.from = req[h].from
    BY <1>3, <2>1 DEF Record
  <2> QED
    BY <1>2, <1>4, <2>2, <2>3
<1>5. ASSUME NEW pc, Goto(h, pc), pc # "password", pc \in LoginSteps => req[h].login # 0
      PROVE  GoesOn(h)
  <2>1. PICK q : q = [req[h] EXCEPT !.pc = pc]
    OBVIOUS
  <2>2. req' = [req EXCEPT ![h] = q] /\ req'[h] = q
    BY <1>5, <2>1 DEF Goto, Requests
  <2>3. Record(q) /\ q.pc = pc /\ q.login = req[h].login /\ q.from = req[h].from
    BY <1>3, <2>1 DEF Record
  <2> QED
    BY <1>2, <1>5, <2>2, <2>3
<1>6. ASSUME Done(h) PROVE GoesOn(h)
  <2>1. req' = [req EXCEPT ![h] = Idle] /\ req'[h] = Idle
    BY <1>6 DEF Done, Requests
  <2>2. Record(Idle) /\ Fits(Idle) /\ ~Guarded(Idle)
    BY DEF Idle, Record, Fits, LoginSteps, Guarded
  <2> QED
    BY <2>1, <2>2 DEF GoesOn, Follows
<1> QED
  BY <1>1, <1>4, <1>5, <1>6

LEMMA LimitPassed ==
  ASSUME LimitInv, NEW h \in Handlers, NEW u, Passed(h, u)
  PROVE  GoesOn(h) /\ req'[h].pc = "forget"
<1>1. PICK c : c = [unasked |-> u]
  OBVIOUS
<1>2. req' = [req EXCEPT ![h].pc = "forget", ![h].code = c]
  BY <1>1 DEF Passed
<1>3. "forget" # "password" /\ "forget" \notin LoginSteps
  BY DEF LoginSteps
<1> QED
  BY <1>2, <1>3, LimitMoves

LEMMA LimitCounts ==
  ASSUME LimitInv
  PROVE  /\ \A w : Fault(w) => Counted
         /\ \A w : Note(w) => Counted
         /\ \A on, a : LooksUp(on, a) => Counted
         /\ Count => Counted
         /\ UNCHANGED seen => Counted
         /\ \A c : seen' = Spent(c) => Counted
BY DEF LimitInv, Counted, Fault, Note, LooksUp, Count, Spent

LEMMA FirstStepLimits ==
  ASSUME LimitInv, NEW h \in Handlers,
         \/ LoginPost(h) \/ CheckAdminPassword(h) \/ TOTPEnabled(h) \/ PasskeysEnabled(h)
  PROVE  LimitStep(h)
<1> USE DEF LoginSteps, LimitStep, memory
<1>1. CASE LoginPost(h)
  BY <1>1, LimitMoves DEF LoginPost
<1>2. CASE CheckAdminPassword(h)
  <2>1. clock' = clock /\ Guarded(req[h])
    BY <1>2 DEF CheckAdminPassword, Guarded, At
  <2>2. CASE Fail(h) /\ (UNCHANGED seen \/ Fault({}))
    BY <2>1, <2>2, LimitMoves, LimitCounts DEF Fail
  <2>3. CASE /\ req' = [req EXCEPT ![h] = [Idle EXCEPT !.pc = "enabled", !.login = seen.logins + 1,
                                                       !.from = req[h].from]]
             /\ seen' = [seen EXCEPT !.logins = @ + 1,
                                     !.cred = [@ EXCEPT ![seen.logins + 1] = cred]]
             /\ UNCHANGED tries
    <3>1. PICK q : q = [Idle EXCEPT !.pc = "enabled", !.login = seen.logins + 1, !.from = req[h].from]
      OBVIOUS
    <3>2. q = [pc |-> "enabled", login |-> seen.logins + 1, code |-> <<>>, from |-> req[h].from, own |-> 0]
      BY <3>1 DEF Idle
    <3>3. Record(q) /\ q.login # 0 /\ q.from = req[h].from
      BY <3>2 DEF Record, LimitInv
    <3>4. req' = [req EXCEPT ![h] = q] /\ req'[h] = q
      BY <2>3, <3>1 DEF LimitInv, Requests
    <3>5. GoesOn(h)
      BY <2>1, <3>3, <3>4 DEF GoesOn, Follows, Fits
    <3>6. Counted
      BY <2>3 DEF Counted, LimitInv
    <3> QED
      BY <2>1, <2>3, <3>5, <3>6
  <2> QED
    BY <1>2, <2>2, <2>3 DEF CheckAdminPassword
<1>3. CASE TOTPEnabled(h)
  <2>1. req[h].login # 0
    BY <1>3 DEF TOTPEnabled, At, LimitInv, Fits
  <2> QED
    BY <1>3, <2>1, LimitMoves, LimitCounts DEF TOTPEnabled
<1>4. CASE PasskeysEnabled(h)
  <2>1. req[h].login # 0 /\ Guarded(req[h]) /\ req[h].pc # "forget" /\ clock' = clock
    BY <1>4 DEF PasskeysEnabled, At, LimitInv, Fits, Guarded
  <2>2. CASE Park(h)
    BY <1>4, <2>1, <2>2, LimitMoves, LimitCounts DEF PasskeysEnabled, Park
  <2>3. CASE PasswordOnly(h)
    <3>1. Clears(h) /\ GoesOn(h)
      BY <2>1, <2>3, LimitPassed DEF PasswordOnly, Clears
    <3>2. Counted
      BY <1>4, LimitCounts DEF PasskeysEnabled
    <3> QED
      BY <2>1, <3>1, <3>2
  <2> QED
    BY <1>4, <2>2, <2>3 DEF PasskeysEnabled
<1> QED
  BY <1>1, <1>2, <1>3, <1>4

LEMMA CodesLimit ==
  ASSUME LimitInv, NEW h \in Handlers,
         \/ LoginTOTPPost(h) \/ GetTOTPSecret(h) \/ NoSecret(h)
         \/ GetTOTPLastCounter(h) \/ SetTOTPLastCounter(h)
         \/ ReadBackupCodes(h) \/ WriteBackupCodes(h)
         \/ CompareMailCode(h) \/ DropMailCode(h) \/ Accept(h)
  PROVE  LimitStep(h)
<1> USE DEF LoginSteps, LimitStep, memory
<1>1. CASE LoginTOTPPost(h)
  BY <1>1, LimitMoves DEF LoginTOTPPost, Logins
<1>2. ASSUME NEW pc \in LoginSteps, At(h, pc) PROVE req[h].login # 0 /\ Guarded(req[h])
  BY <1>2 DEF At, LimitInv, Fits, Guarded
<1>3. ASSUME Fail(h), clock' = clock, Counted, Guarded(req[h]) PROVE LimitStep(h)
  BY <1>3, LimitMoves DEF Fail
<1>4. CASE GetTOTPSecret(h)
  BY <1>2, <1>3, <1>4, LimitMoves, LimitCounts DEF GetTOTPSecret
<1>5. CASE NoSecret(h)
  BY <1>2, <1>3, <1>5, LimitMoves, LimitCounts DEF NoSecret
<1>6. CASE GetTOTPLastCounter(h)
  BY <1>2, <1>3, <1>6, LimitMoves, LimitCounts DEF GetTOTPLastCounter
<1>7. CASE SetTOTPLastCounter(h)
  BY <1>2, <1>3, <1>7, LimitMoves, LimitCounts DEF SetTOTPLastCounter
<1>8. CASE ReadBackupCodes(h)
  <2>1. clock' = clock /\ tries' = tries /\ Counted
    BY <1>8, LimitCounts DEF ReadBackupCodes
  <2>2. ASSUME NEW c, req' = [req EXCEPT ![h].pc = "setcodes", ![h].code = c]
        PROVE  GoesOn(h)
    BY <2>2, LimitMoves
  <2>3. Goto(h, AfterCodes(h)) => GoesOn(h)
    <3>1. AfterCodes(h) # "password" /\ (AfterCodes(h) \in LoginSteps => req[h].login # 0)
      BY DEF AfterCodes
    <3> QED
      BY <3>1, LimitMoves
  <2> QED
    BY <1>8, <2>1, <2>2, <2>3 DEF ReadBackupCodes
<1>9. CASE WriteBackupCodes(h)
  <2>1. clock' = clock /\ tries' = tries
    BY <1>9 DEF WriteBackupCodes
  <2>2. Counted
    BY <1>9 DEF WriteBackupCodes, Spent, Counted, LimitInv
  <2>3. GoesOn(h)
    <3>1. CASE req[h].login = 0
      BY <1>9, <3>1, LimitMoves DEF WriteBackupCodes
    <3>2. CASE req[h].login # 0
      BY <1>9, <3>2, LimitMoves DEF WriteBackupCodes
    <3> QED
      BY <3>1, <3>2
  <2> QED
    BY <2>1, <2>2, <2>3
<1>10. CASE CompareMailCode(h)
  BY <1>2, <1>3, <1>10, LimitMoves, LimitCounts DEF CompareMailCode
<1>11. CASE DropMailCode(h)
  BY <1>2, <1>11, LimitMoves, LimitCounts DEF DropMailCode
<1>12. CASE Accept(h)
  <2>1. Guarded(req[h]) /\ req[h].pc # "forget"
    BY <1>2, <1>12 DEF Accept, At
  <2>2. GoesOn(h) /\ Clears(h)
    BY <1>12, <2>1, LimitPassed DEF Accept, Clears
  <2> QED
    BY <1>12, <2>1, <2>2, LimitCounts DEF Accept
<1> QED
  BY <1>1, <1>4, <1>5, <1>6, <1>7, <1>8, <1>9, <1>10, <1>11, <1>12

LEMMA MailAndPasskeysLimit ==
  ASSUME LimitInv, NEW h \in Handlers,
         \/ LoginTOTPEmail(h) \/ KeepMailCode(h) \/ SendLoginCode(h)
         \/ FinishPasskeyLogin(h) \/ VerifyPasskey(h)
  PROVE  LimitStep(h)
<1> USE DEF LoginSteps, LimitStep, memory
<1>1. CASE LoginTOTPEmail(h)
  <2>1. PICK t \in Logins : Arrive(h, "code", t, <<>>, 0)
    BY <1>1 DEF LoginTOTPEmail
  <2> QED
    BY <1>1, <2>1, LimitMoves DEF LoginTOTPEmail
<1>2. CASE KeepMailCode(h) \/ SendLoginCode(h)
  BY <1>2, LimitMoves, LimitCounts DEF KeepMailCode, SendLoginCode
<1>3. CASE FinishPasskeyLogin(h)
  BY <1>3, LimitMoves DEF FinishPasskeyLogin, Logins
<1>4. CASE VerifyPasskey(h)
  <2>1. req[h].login # 0 /\ Guarded(req[h])
    BY <1>4 DEF VerifyPasskey, At, LimitInv, Fits, Guarded
  <2> QED
    BY <1>4, <2>1, LimitMoves, LimitCounts DEF VerifyPasskey, Fail
<1> QED
  BY <1>1, <1>2, <1>3, <1>4

LEMMA SessionsLimit ==
  ASSUME LimitInv, NEW h \in Handlers,
         ForgetDevice(h) \/ RevokeLive(h) \/ InsertSession(h)
  PROVE  LimitStep(h)
<1> USE DEF LoginSteps, LimitStep, memory
<1>1. tries' = tries /\ clock' = clock
  BY DEF ForgetDevice, RevokeLive, InsertSession
<1>2. ASSUME NEW c, NEW pc \in {"revoke", "insert"}, req' = [req EXCEPT ![h].pc = pc, ![h].code = c]
      PROVE  GoesOn(h)
  BY <1>2, LimitMoves
<1>3. CASE ForgetDevice(h)
  BY <1>1, <1>2, <1>3, LimitMoves, LimitCounts DEF ForgetDevice
<1>4. CASE RevokeLive(h)
  BY <1>1, <1>2, <1>4, LimitMoves, LimitCounts DEF RevokeLive
<1>5. CASE InsertSession(h)
  <2>1. Counted
    BY <1>5 DEF InsertSession, Fault, Counted, LimitInv
  <2> QED
    BY <1>1, <1>5, <2>1, LimitMoves DEF InsertSession
<1> QED
  BY <1>3, <1>4, <1>5

LEMMA SettingsLimit ==
  ASSUME LimitInv, NEW h \in Handlers,
         \/ ConfirmTOTPEnrollment(h) \/ ReadPending(h) \/ DisableTOTP(h)
         \/ WriteTOTPKey(h) \/ ChangeCredentials(h) \/ SetCredentials(h)
         \/ DropSessions(h) \/ TakeEnrollment(h) \/ RegisterPasskey(h)
         \/ RevokeDevice(h) \/ EndDevice(h)
  PROVE  LimitStep(h)
<1> USE DEF LoginSteps, LimitStep, memory
<1>1. tries' = tries /\ clock' = clock
  BY DEF ConfirmTOTPEnrollment, ReadPending, DisableTOTP, WriteTOTPKey, ChangeCredentials,
         SetCredentials, DropSessions, TakeEnrollment, RegisterPasskey, RevokeDevice, EndDevice
<1>2. ASSUME NEW what, NEW pc, NEW code, pc # "password", pc \notin LoginSteps,
             Admitted(h, what, pc, code)
      PROVE  GoesOn(h) /\ Counted
  BY <1>2, LimitMoves DEF Admitted
<1>3. CASE ConfirmTOTPEnrollment(h) \/ TakeEnrollment(h) \/ ChangeCredentials(h)
  BY <1>1, <1>2, <1>3 DEF ConfirmTOTPEnrollment, TakeEnrollment, ChangeCredentials
<1>4. CASE DisableTOTP(h)
  BY <1>1, <1>2, <1>4 DEF DisableTOTP
<1>5. CASE RevokeDevice(h)
  BY <1>1, <1>2, <1>5 DEF RevokeDevice
<1>6. CASE ReadPending(h)
  <2>1. Counted
    BY <1>6 DEF ReadPending, Counted, LimitInv
  <2>2. ASSUME NEW c, req' = [req EXCEPT ![h].pc = "on1", ![h].code = c]
        PROVE  GoesOn(h)
    BY <2>2, LimitMoves
  <2> QED
    BY <1>1, <1>6, <2>1, <2>2, LimitMoves DEF ReadPending
<1>7. CASE WriteTOTPKey(h)
  <2>1. Counted
    BY <1>7 DEF WriteTOTPKey, Counted, LimitInv, Fault
  <2>2. After[req[h].pc] # "password" /\ After[req[h].pc] \notin LoginSteps
    BY <1>7 DEF WriteTOTPKey, After
  <2>3. GoesOn(h)
    BY <1>7, <2>2, LimitMoves DEF WriteTOTPKey
  <2> QED
    BY <1>1, <2>1, <2>3
<1>8. CASE SetCredentials(h)
  BY <1>1, <1>8, LimitMoves, LimitCounts DEF SetCredentials
<1>9. CASE DropSessions(h) \/ RegisterPasskey(h) \/ EndDevice(h)
  <2>1. Counted
    BY <1>9 DEF DropSessions, RegisterPasskey, EndDevice, Counted, LimitInv, Fault
  <2>2. GoesOn(h)
    BY <1>9, LimitMoves DEF DropSessions, RegisterPasskey, EndDevice
  <2> QED
    BY <1>1, <2>1, <2>2
<1> QED
  BY <1>3, <1>4, <1>5, <1>6, <1>7, <1>8, <1>9

LEMMA HandlersLimit ==
  ASSUME LimitInv, Next
  PROVE  \/ \E h \in Handlers : LimitStep(h)
         \/ /\ UNCHANGED <<req, tries, clock>> /\ Counted
         \/ Tick \/ Sweep
<1>1. ASSUME BeginPasskeyLogin \/ StartTOTPEnrollment \/ BeginPasskeyEnrollment
             \/ DeletePasskey \/ RevokeOtherDevices \/ Logout
      PROVE  UNCHANGED <<req, tries, clock>> /\ Counted
  BY <1>1
  DEF BeginPasskeyLogin, StartTOTPEnrollment, BeginPasskeyEnrollment, DeletePasskey,
      RevokeOtherDevices, Logout, memory, Count, Counted, LimitInv
<1> QED
  BY <1>1, FirstStepLimits, CodesLimit, MailAndPasskeysLimit, SessionsLimit, SettingsLimit
  DEF Next

LEMMA LimitNext == LimitInv /\ [Next]_vars => LimitInv'
<1> SUFFICES ASSUME LimitInv, [Next]_vars PROVE LimitInv'
  OBVIOUS
<1>1. CASE UNCHANGED <<req, tries, clock>> /\ Counted
  BY <1>1 DEF LimitInv, Limits, Requests, Before, Counted
<1>2. CASE Tick
  BY <1>2, LimiterAssumption
  DEF Tick, memory, LimitInv, Limits, Requests, Before, LimiterAssumption
<1>3. CASE Sweep
  BY <1>3, LimiterAssumption
  DEF Sweep, NoTries, LimitInv, Limits, Requests, Before, LimiterAssumption
<1>4. CASE UNCHANGED vars
  BY <1>1, <1>4 DEF vars, memory, Counted, LimitInv
<1> QED
  BY <1>1, <1>2, <1>3, <1>4, HandlersLimit, LimitStepKeeps

LEMMA LimitForgives == LimitInv /\ [Next]_vars => Forgiven
<1> SUFFICES ASSUME LimitInv, [Next]_vars PROVE Forgiven
  OBVIOUS
<1>1. tries' = tries => Forgiven
  BY DEF Forgiven, Weaker, LimitInv, Limits
<1> QED
  BY <1>1, HandlersLimit, LimitStepForgives DEF Tick, Sweep, Forgiven, vars, memory

\* The failures of an address are forgotten by a login that is complete or
\* with time, whatever factors, settings and other logins are under way; a
\* lock ends early only by a request that was let in before it.
THEOREM FailuresCountHolds == Spec => FailuresCount
<1>1. LimitInv /\ [Next]_vars => [Forgiven]_vars
  BY LimitForgives
<1> QED
  BY <1>1, LimitInit, LimitNext, PTL DEF Spec, FailuresCount, Forgiven

-----------------------------------------------------------------------------
(* What the other invariants rest on: the fields of the records, and how a *)
(* request moves.                                                          *)

Fields == {"requests", "logins", "sessions", "secrets", "enrolled", "issued", "confirmed",
           "spent", "twice", "totpSince", "keysSince", "cred", "dropped", "faults", "mishaps"}
Fielded == /\ DOMAIN seen = Fields
           /\ DOMAIN totp = {"secret", "pending", "codes", "last"}

\* Request h has this step, login and code after the step; the others wait.
Becomes(h, pc, login, code) ==
  /\ Requests'
  /\ req'[h].pc = pc /\ req'[h].login = login /\ req'[h].code = code
  /\ \A g \in Handlers : g # h => req'[g] = req[g]

LEMMA FieldedInit == Init => Fielded
BY DEF Init, Fielded, Fields

LEMMA FieldedNext == Fielded /\ [Next]_vars => Fielded'
<1> SUFFICES ASSUME [Next]_vars PROVE DOMAIN seen' = DOMAIN seen /\ DOMAIN totp' = DOMAIN totp
  BY DEF Fielded
<1> USE DEF Arrive, Count, Fault, Note, LooksUp, Spent, store
<1>1. ASSUME NEW h \in Handlers,
             \/ LoginPost(h) \/ CheckAdminPassword(h)
             \/ TOTPEnabled(h) \/ PasskeysEnabled(h)
             \/ LoginTOTPPost(h) \/ GetTOTPSecret(h) \/ NoSecret(h)
             \/ GetTOTPLastCounter(h) \/ SetTOTPLastCounter(h)
             \/ ReadBackupCodes(h) \/ WriteBackupCodes(h)
             \/ CompareMailCode(h) \/ DropMailCode(h) \/ Accept(h)
      PROVE  DOMAIN seen' = DOMAIN seen /\ DOMAIN totp' = DOMAIN totp
  BY <1>1
  DEF LoginPost, CheckAdminPassword, TOTPEnabled, PasskeysEnabled, LoginTOTPPost, GetTOTPSecret,
      NoSecret, GetTOTPLastCounter, SetTOTPLastCounter, ReadBackupCodes, WriteBackupCodes,
      CompareMailCode, DropMailCode, Accept
<1>2. ASSUME NEW h \in Handlers,
             \/ LoginTOTPEmail(h) \/ KeepMailCode(h) \/ SendLoginCode(h)
             \/ FinishPasskeyLogin(h) \/ VerifyPasskey(h)
             \/ ForgetDevice(h) \/ RevokeLive(h) \/ InsertSession(h)
             \/ ConfirmTOTPEnrollment(h) \/ ReadPending(h) \/ DisableTOTP(h)
             \/ ChangeCredentials(h) \/ SetCredentials(h)
             \/ DropSessions(h) \/ TakeEnrollment(h) \/ RegisterPasskey(h)
             \/ RevokeDevice(h) \/ EndDevice(h)
      PROVE  DOMAIN seen' = DOMAIN seen /\ DOMAIN totp' = DOMAIN totp
  BY <1>2
  DEF LoginTOTPEmail, KeepMailCode, SendLoginCode, FinishPasskeyLogin, VerifyPasskey,
      ForgetDevice, RevokeLive, InsertSession, ConfirmTOTPEnrollment, ReadPending, DisableTOTP,
      ChangeCredentials, SetCredentials, DropSessions, TakeEnrollment, RegisterPasskey,
      RevokeDevice, EndDevice, Admitted
<1>3. ASSUME NEW h \in Handlers, WriteTOTPKey(h)
      PROVE  DOMAIN seen' = DOMAIN seen /\ DOMAIN totp' = DOMAIN totp
  BY <1>3 DEF WriteTOTPKey, Written
<1>4. ASSUME \/ BeginPasskeyLogin \/ StartTOTPEnrollment \/ BeginPasskeyEnrollment
             \/ DeletePasskey \/ RevokeOtherDevices \/ Logout
             \/ Tick \/ Sweep \/ UNCHANGED vars
      PROVE  DOMAIN seen' = DOMAIN seen /\ DOMAIN totp' = DOMAIN totp
  BY <1>4
  DEF BeginPasskeyLogin, StartTOTPEnrollment, BeginPasskeyEnrollment, DeletePasskey,
      RevokeOtherDevices, Logout, Tick, Sweep, vars
<1> QED
  BY <1>1, <1>2, <1>3, <1>4 DEF Next

LEMMA Become ==
  ASSUME Requests, NEW h \in Handlers
  PROVE  /\ \A pc, l, c, o : Arrive(h, pc, l, c, o) => Becomes(h, pc, l, c)
         /\ \A pc : Goto(h, pc) => Becomes(h, pc, req[h].login, req[h].code)
         /\ Done(h) => Becomes(h, "idle", 0, <<>>)
         /\ Fail(h) => Becomes(h, "idle", 0, <<>>)
         /\ \A u : Passed(h, u) => Becomes(h, "forget", req[h].login, [unasked |-> u])
         /\ \A pc, c : req' = [req EXCEPT ![h].pc = pc, ![h].code = c]
                       => Becomes(h, pc, req[h].login, c)
<1>1. ASSUME NEW q, Record(q), req' = [req EXCEPT ![h] = q]
      PROVE  Becomes(h, q.pc, q.login, q.code)
  BY <1>1 DEF Becomes, Requests
<1>2. ASSUME NEW pc, NEW l, NEW c, NEW o, Arrive(h, pc, l, c, o)
      PROVE  Becomes(h, pc, l, c)
  <2>1. PICK q : q = [pc |-> pc, login |-> l, code |-> c, from |-> clock, own |-> o]
    OBVIOUS
  <2>2. Record(q) /\ q.pc = pc /\ q.login = l /\ q.code = c
    BY <2>1 DEF Record
  <2> QED
    BY <1>1, <1>2, <2>1, <2>2 DEF Arrive
<1>3. ASSUME NEW pc, NEW c, req' = [req EXCEPT ![h].pc = pc, ![h].code = c]
      PROVE  Becomes(h, pc, req[h].login, c)
  <2>1. req'[h] = [req[h] EXCEPT !.pc = pc, !.code = c]
    BY <1>3 DEF Requests
  <2>2. Record(req[h])
    BY DEF Requests
  <2>3. PICK q : q = [pc |-> pc, login |-> req[h].login, code |-> c, from |-> req[h].from, own |-> req[h].own]
    OBVIOUS
  <2>4. q = req'[h]
    BY <2>1, <2>2, <2>3 DEF Record
  <2>5. Record(q) /\ q.pc = pc /\ q.login = req[h].login /\ q.code = c
    BY <2>3 DEF Record
  <2>6. req' = [req EXCEPT ![h] = q]
    BY <1>3, <2>4 DEF Requests
  <2> QED
    BY <1>1, <2>5, <2>6
<1>4. ASSUME NEW pc, Goto(h, pc) PROVE Becomes(h, pc, req[h].login, req[h].code)
  <2>1. req'[h] = [req[h] EXCEPT !.pc = pc]
    BY <1>4 DEF Requests, Goto
  <2>2. Record(req[h])
    BY DEF Requests
  <2>3. PICK q : q = [pc |-> pc, login |-> req[h].login, code |-> req[h].code,
                      from |-> req[h].from, own |-> req[h].own]
    OBVIOUS
  <2>4. q = req'[h]
    BY <2>1, <2>2, <2>3 DEF Record
  <2>5. Record(q) /\ q.pc = pc /\ q.login = req[h].login /\ q.code = req[h].code
    BY <2>3 DEF Record
  <2>6. req' = [req EXCEPT ![h] = q]
    BY <1>4, <2>4 DEF Requests, Goto
  <2> QED
    BY <1>1, <2>5, <2>6
<1>5. Done(h) => Becomes(h, "idle", 0, <<>>)
  <2>1. Record(Idle) /\ Idle.pc = "idle" /\ Idle.login = 0 /\ Idle.code = <<>>
    BY DEF Record, Idle
  <2> QED
    BY <1>1, <2>1 DEF Done
<1>6. ASSUME NEW u, Passed(h, u) PROVE Becomes(h, "forget", req[h].login, [unasked |-> u])
  <2>1. PICK c : c = [unasked |-> u]
    OBVIOUS
  <2>2. req' = [req EXCEPT ![h].pc = "forget", ![h].code = c]
    BY <1>6, <2>1 DEF Passed
  <2> QED
    BY <1>3, <2>1, <2>2
<1> QED
  BY <1>2, <1>3, <1>4, <1>5, <1>6 DEF Fail

\* The request of a login whose password was right.
LEMMA BecomeLogin ==
  ASSUME Requests, NEW h \in Handlers, NEW l,
         req' = [req EXCEPT ![h] = [Idle EXCEPT !.pc = "enabled", !.login = l, !.from = req[h].from]]
  PROVE  Becomes(h, "enabled", l, <<>>)
<1>1. PICK q : q = [Idle EXCEPT !.pc = "enabled", !.login = l, !.from = req[h].from]
  OBVIOUS
<1>2. q = [pc |-> "enabled", login |-> l, code |-> <<>>, from |-> req[h].from, own |-> 0]
  BY <1>1 DEF Idle
<1>3. Record(q) /\ q.pc = "enabled" /\ q.login = l /\ q.code = <<>>
  BY <1>2 DEF Record
<1>4. req' = [req EXCEPT ![h] = q]
  BY <1>1
<1> QED
  BY <1>3, <1>4 DEF Becomes, Requests

-----------------------------------------------------------------------------
(* Every login and every change of the credentials takes a request.        *)

Waiting(p) == {h \in Handlers : At(h, p)}
Room(p, count) == /\ IsFiniteSet(Waiting(p)) /\ count \in Nat
                  /\ count + Cardinality(Waiting(p)) <= seen.requests + 1

CountInv ==
  /\ Fielded /\ Requests
  /\ seen.requests \in 0 .. MaxRequests
  /\ Room("password", seen.logins) /\ Room("hash", cred) /\ cred # 0

LEMMA WaitingMoves ==
  ASSUME NEW h \in Handlers, NEW pc, NEW l, NEW c, Becomes(h, pc, l, c),
         NEW p, IsFiniteSet(Waiting(p))
  PROVE  /\ IsFiniteSet(Waiting(p)')
         /\ Cardinality(Waiting(p)) \in Nat /\ Cardinality(Waiting(p)') \in Nat
         /\ pc # p => Cardinality(Waiting(p)') <= Cardinality(Waiting(p))
         /\ pc # p /\ At(h, p) => Cardinality(Waiting(p)') = Cardinality(Waiting(p)) - 1
         /\ Cardinality(Waiting(p)') <= Cardinality(Waiting(p)) + 1
<1> USE DEF Becomes, At
<1> DEFINE S == Waiting(p)
           T == Waiting(p)'
<1>1. At(h, p) <=> h \in S
  BY DEF Waiting
<1>2. IF pc = p THEN T = S \cup {h} ELSE T = S \ {h}
  BY DEF Waiting
<1> HIDE DEF S, T
<1>3. Cardinality(S) \in Nat /\ IsFiniteSet(S)
  BY FS_CardinalityType DEF S
<1>4. CASE pc = p
  <2>1. IsFiniteSet(T) /\ (Cardinality(T) = Cardinality(S) \/ Cardinality(T) = Cardinality(S) + 1)
    BY <1>2, <1>3, <1>4, FS_AddElement
  <2> QED
    BY <1>3, <1>4, <2>1 DEF S, T
<1>5. CASE pc # p
  <2>1. /\ IsFiniteSet(T)
        /\ Cardinality(T) = IF h \in S THEN Cardinality(S) - 1 ELSE Cardinality(S)
    BY <1>2, <1>3, <1>5, FS_RemoveElement
  <2>2. Cardinality(T) \in Nat
    BY <2>1, FS_CardinalityType
  <2> QED
    BY <1>1, <1>3, <1>5, <2>1, <2>2 DEF S, T
<1> QED
  BY <1>4, <1>5

\* What a step may do to the counts: nothing but count requests, let a
\* request in, or turn one that waits into a login or a change.
Uses(h) ==
  LET pc == req'[h].pc IN
  /\ Becomes(h, pc, req'[h].login, req'[h].code)
  /\ seen'.requests \in {seen.requests, seen.requests + 1} /\ seen'.requests <= MaxRequests
  /\ \/ /\ pc \notin {"password", "hash"} \/ seen'.requests = seen.requests + 1
        /\ seen'.logins = seen.logins /\ cred' = cred
     \/ /\ At(h, "password") /\ pc = "enabled"
        /\ seen'.logins = seen.logins + 1 /\ cred' = cred
     \/ /\ At(h, "hash") /\ pc = "drop"
        /\ seen'.logins = seen.logins /\ cred' = cred + 1

LEMMA UsesKeeps ==
  ASSUME CountInv, Fielded', NEW h \in Handlers, Uses(h)
  PROVE  CountInv'
<1> DEFINE pc == req'[h].pc
<1>1. Requests' /\ seen'.requests \in 0 .. MaxRequests /\ seen.requests \in Nat
  BY SignInAssumption DEF CountInv, Uses, Becomes, SignInAssumption
<1>2. ASSUME NEW p \in {"password", "hash"}, NEW count, NEW new,
             Room(p, count),
             \/ new = count /\ (pc # p \/ seen'.requests = seen.requests + 1)
             \/ new = count + 1 /\ At(h, p) /\ pc # p
      PROVE  IsFiniteSet(Waiting(p)') /\ new \in Nat
             /\ new + Cardinality(Waiting(p)') <= seen'.requests + 1
  <2>1. Becomes(h, pc, req'[h].login, req'[h].code) /\ IsFiniteSet(Waiting(p))
    BY <1>2 DEF Uses, Room
  <2> HIDE DEF pc
  <2>2. /\ IsFiniteSet(Waiting(p)')
        /\ Cardinality(Waiting(p)) \in Nat /\ Cardinality(Waiting(p)') \in Nat
        /\ pc # p => Cardinality(Waiting(p)') <= Cardinality(Waiting(p))
        /\ pc # p /\ At(h, p) => Cardinality(Waiting(p)') = Cardinality(Waiting(p)) - 1
        /\ Cardinality(Waiting(p)') <= Cardinality(Waiting(p)) + 1
    BY <2>1, WaitingMoves
  <2> QED
    BY <1>1, <1>2, <2>2 DEF Room, Uses
<1>3. Room("password", seen.logins)'
  <2>1. \/ seen'.logins = seen.logins /\ (pc # "password" \/ seen'.requests = seen.requests + 1)
        \/ seen'.logins = seen.logins + 1 /\ At(h, "password") /\ pc # "password"
    BY DEF Uses
  <2> QED
    BY <1>2, <2>1 DEF CountInv, Room
<1>4. Room("hash", cred)' /\ cred' # 0
  <2>1. \/ cred' = cred /\ (pc # "hash" \/ seen'.requests = seen.requests + 1)
        \/ cred' = cred + 1 /\ At(h, "hash") /\ pc # "hash"
    BY DEF Uses
  <2> QED
    BY <1>2, <2>1 DEF CountInv, Room
<1> QED
  BY <1>1, <1>3, <1>4 DEF CountInv

SameCounts == seen'.requests = seen.requests /\ seen'.logins = seen.logins
OneMore == /\ seen'.requests = seen.requests + 1 /\ seen'.requests <= MaxRequests
           /\ seen'.logins = seen.logins

\* How the handlers' steps count.
LEMMA Counting ==
  ASSUME CountInv
  PROVE  /\ \A w : Fault(w) => SameCounts
         /\ \A w : Note(w) => SameCounts
         /\ \A on, a : LooksUp(on, a) => SameCounts
         /\ UNCHANGED seen => SameCounts
         /\ \A c : seen' = Spent(c) => SameCounts
         /\ Count => OneMore
         /\ \A h, pc, l, c, o : Arrive(h, pc, l, c, o) => OneMore
<1> USE SignInAssumption
    DEF CountInv, Fielded, Fields, SameCounts, OneMore, SignInAssumption
<1>1. \A w : Fault(w) => SameCounts
  BY DEF Fault
<1>2. \A w : Note(w) => SameCounts
  BY DEF Note
<1>3. \A c : seen' = Spent(c) => SameCounts
  BY DEF Spent
<1>4. Count => OneMore
  BY DEF Count
<1>5. \A h, pc, l, c, o : Arrive(h, pc, l, c, o) => OneMore
  BY DEF Arrive
<1> QED
  BY <1>1, <1>2, <1>3, <1>4, <1>5 DEF LooksUp

\* A request that comes, and one that goes on but waits for none of the two.
LEMMA PlainUse ==
  ASSUME CountInv, NEW h \in Handlers, NEW pc, NEW l, NEW c, Becomes(h, pc, l, c), cred' = cred,
         OneMore \/ (SameCounts /\ pc # "password" /\ pc # "hash")
  PROVE  Uses(h)
BY SignInAssumption DEF Uses, Becomes, OneMore, SameCounts, CountInv, SignInAssumption

LEMMA LoginsUse ==
  ASSUME CountInv, NEW h \in Handlers,
         \/ LoginPost(h) \/ CheckAdminPassword(h)
         \/ TOTPEnabled(h) \/ PasskeysEnabled(h)
         \/ LoginTOTPPost(h) \/ GetTOTPSecret(h) \/ NoSecret(h)
         \/ GetTOTPLastCounter(h) \/ SetTOTPLastCounter(h)
         \/ ReadBackupCodes(h) \/ WriteBackupCodes(h)
         \/ CompareMailCode(h) \/ DropMailCode(h) \/ Accept(h)
  PROVE  Uses(h)
<1> USE DEF store
<1>0. Requests
  BY DEF CountInv
<1>1. CASE LoginPost(h) \/ LoginTOTPPost(h)
  BY <1>0, <1>1, Become, Counting, PlainUse DEF LoginPost, LoginTOTPPost
<1>2. CASE CheckAdminPassword(h)
  <2>1. CASE Fail(h) /\ (UNCHANGED seen \/ Fault({}))
    BY <1>0, <1>2, <2>1, Become, Counting, PlainUse DEF CheckAdminPassword
  <2>2. CASE /\ req' = [req EXCEPT ![h] = [Idle EXCEPT !.pc = "enabled", !.login = seen.logins + 1,
                                                       !.from = req[h].from]]
             /\ seen' = [seen EXCEPT !.logins = @ + 1,
                                     !.cred = [@ EXCEPT ![seen.logins + 1] = cred]]
    <3>1. seen'.logins = seen.logins + 1 /\ seen'.requests = seen.requests
      BY <2>2 DEF CountInv, Fielded, Fields
    <3>2. Becomes(h, "enabled", seen.logins + 1, <<>>)
      BY <1>0, <2>2, BecomeLogin
    <3> QED
      BY <1>2, <3>1, <3>2, SignInAssumption
      DEF CheckAdminPassword, Becomes, Uses, CountInv, SignInAssumption
  <2> QED
    BY <1>2, <2>1, <2>2 DEF CheckAdminPassword
<1>3. CASE TOTPEnabled(h)
  BY <1>0, <1>3, Become, Counting, PlainUse DEF TOTPEnabled
<1>4. CASE PasskeysEnabled(h)
  <2>1. SameCounts /\ cred' = cred
    BY <1>4, Counting DEF PasskeysEnabled
  <2>2. CASE Park(h)
    BY <1>0, <2>1, <2>2, Become, PlainUse DEF Park
  <2>3. CASE PasswordOnly(h)
    <3>1. PICK u : Passed(h, u)
      BY <2>3 DEF PasswordOnly
    <3>2. Becomes(h, "forget", req[h].login, [unasked |-> u])
      BY <1>0, <3>1, Become
    <3> QED
      BY <2>1, <3>2, PlainUse
  <2> QED
    BY <1>4, <2>2, <2>3 DEF PasskeysEnabled
<1>5. CASE GetTOTPSecret(h) \/ NoSecret(h)
  BY <1>0, <1>5, Become, Counting, PlainUse DEF GetTOTPSecret, NoSecret
<1>6. CASE GetTOTPLastCounter(h) \/ SetTOTPLastCounter(h)
  BY <1>0, <1>6, Become, Counting, PlainUse DEF GetTOTPLastCounter, SetTOTPLastCounter
<1>7. CASE ReadBackupCodes(h)
  <2>1. ASSUME NEW n, req' = [req EXCEPT ![h].pc = "setcodes",
                                         ![h].code = <<"rest", n, totp.codes \ {n}>>]
        PROVE  Becomes(h, "setcodes", req[h].login, <<"rest", n, totp.codes \ {n}>>)
    BY <1>0, <2>1, Become
  <2>2. SameCounts /\ cred' = cred
    BY <1>7, Counting DEF ReadBackupCodes
  <2>3. CASE Goto(h, AfterCodes(h))
    <3>1. AfterCodes(h) # "password" /\ AfterCodes(h) # "hash"
      BY DEF AfterCodes
    <3> QED
      BY <1>0, <2>2, <2>3, <3>1, Become, PlainUse
  <2>4. CASE ~Goto(h, AfterCodes(h))
    <3>1. PICK n : req' = [req EXCEPT ![h].pc = "setcodes",
                                      ![h].code = <<"rest", n, totp.codes \ {n}>>]
      BY <1>7, <2>4 DEF ReadBackupCodes
    <3>2. PICK c : c = <<"rest", n, totp.codes \ {n}>>
      OBVIOUS
    <3>3. Becomes(h, "setcodes", req[h].login, c)
      BY <2>1, <3>1, <3>2
    <3> QED
      BY <2>2, <3>3, PlainUse
  <2> QED
    BY <2>3, <2>4
<1>8. CASE WriteBackupCodes(h)
  <2>1. SameCounts
    BY <1>8 DEF WriteBackupCodes, Spent, CountInv, Fielded, Fields, SameCounts
  <2> QED
    BY <1>0, <1>8, <2>1, Become, PlainUse DEF WriteBackupCodes
<1>9. CASE CompareMailCode(h) \/ DropMailCode(h)
  BY <1>0, <1>9, Become, Counting, PlainUse DEF CompareMailCode, DropMailCode
<1>10. CASE Accept(h)
  <2>1. PICK u : Passed(h, u)
    BY <1>10 DEF Accept
  <2>2. Becomes(h, "forget", req[h].login, [unasked |-> u])
    BY <1>0, <2>1, Become
  <2>3. SameCounts /\ cred' = cred
    BY <1>10, Counting DEF Accept
  <2> QED
    BY <2>2, <2>3, PlainUse
<1> QED
  BY <1>1, <1>2, <1>3, <1>4, <1>5, <1>6, <1>7, <1>8, <1>9, <1>10

LEMMA RequestsUse ==
  ASSUME CountInv, NEW h \in Handlers,
         \/ LoginTOTPEmail(h) \/ KeepMailCode(h) \/ SendLoginCode(h)
         \/ FinishPasskeyLogin(h) \/ VerifyPasskey(h)
         \/ ForgetDevice(h) \/ RevokeLive(h) \/ InsertSession(h)
         \/ ConfirmTOTPEnrollment(h) \/ ReadPending(h) \/ DisableTOTP(h)
         \/ WriteTOTPKey(h) \/ ChangeCredentials(h) \/ SetCredentials(h)
         \/ DropSessions(h) \/ TakeEnrollment(h) \/ RegisterPasskey(h)
         \/ RevokeDevice(h) \/ EndDevice(h)
  PROVE  Uses(h)
<1> USE DEF store
<1>0. Requests
  BY DEF CountInv
<1>1. CASE LoginTOTPEmail(h) \/ KeepMailCode(h) \/ SendLoginCode(h)
  BY <1>0, <1>1, Become, Counting, PlainUse DEF LoginTOTPEmail, KeepMailCode, SendLoginCode
<1>2. CASE FinishPasskeyLogin(h) \/ VerifyPasskey(h)
  BY <1>0, <1>2, Become, Counting, PlainUse DEF FinishPasskeyLogin, VerifyPasskey
<1>3. ASSUME NEW pc \in {"revoke", "insert", "on1"}, NEW c, cred' = cred, SameCounts,
             req' = [req EXCEPT ![h].pc = pc, ![h].code = c]
      PROVE  Uses(h)
  BY <1>0, <1>3, Become, PlainUse
<1>4. CASE ForgetDevice(h) \/ RevokeLive(h)
  <2>1. SameCounts /\ cred' = cred
    BY <1>4, Counting DEF ForgetDevice, RevokeLive
  <2> QED
    BY <1>0, <1>3, <1>4, <2>1, Become, PlainUse DEF ForgetDevice, RevokeLive
<1>5. CASE InsertSession(h) \/ DropSessions(h) \/ RegisterPasskey(h) \/ EndDevice(h)
  <2>1. SameCounts /\ cred' = cred
    BY <1>5
    DEF InsertSession, DropSessions, RegisterPasskey, EndDevice, CountInv, Fielded, Fields, Fault,
        SameCounts
  <2>2. Done(h)
    BY <1>5 DEF InsertSession, DropSessions, RegisterPasskey, EndDevice
  <2> QED
    BY <1>0, <2>1, <2>2, Become, PlainUse
<1>6. CASE ConfirmTOTPEnrollment(h) \/ DisableTOTP(h) \/ ChangeCredentials(h)
           \/ TakeEnrollment(h) \/ RevokeDevice(h)
  BY <1>0, <1>6, Become, Counting, PlainUse
  DEF ConfirmTOTPEnrollment, DisableTOTP, ChangeCredentials, TakeEnrollment, RevokeDevice, Admitted
<1>7. CASE ReadPending(h)
  <2>1. SameCounts /\ cred' = cred
    BY <1>7 DEF ReadPending, CountInv, Fielded, Fields, SameCounts
  <2> QED
    BY <1>0, <1>3, <1>7, <2>1, Become, PlainUse DEF ReadPending
<1>8. CASE WriteTOTPKey(h)
  <2>1. SameCounts /\ cred' = cred
    BY <1>8 DEF WriteTOTPKey, CountInv, Fielded, Fields, Fault, SameCounts
  <2>2. After[req[h].pc] # "password" /\ After[req[h].pc] # "hash"
    BY <1>8 DEF WriteTOTPKey, After
  <2> QED
    BY <1>0, <1>8, <2>1, <2>2, Become, PlainUse DEF WriteTOTPKey
<1>9. CASE SetCredentials(h)
  <2>1. SameCounts
    BY <1>9, Counting DEF SetCredentials
  <2>2. CASE Done(h) /\ cred' = cred
    BY <1>0, <2>1, <2>2, Become, PlainUse
  <2>3. CASE cred' = cred + 1 /\ Goto(h, "drop")
    BY <1>0, <1>9, <2>1, <2>3, Become, SignInAssumption
    DEF SetCredentials, SameCounts, Becomes, Uses, CountInv, SignInAssumption
  <2> QED
    BY <1>9, <2>2, <2>3 DEF SetCredentials
<1> QED
  BY <1>1, <1>2, <1>4, <1>5, <1>6, <1>7, <1>8, <1>9

LEMMA CountInit == Init => CountInv
<1> SUFFICES ASSUME Init PROVE CountInv
  OBVIOUS
<1>1. Waiting("password") = {} /\ Waiting("hash") = {}
  BY DEF Init, Waiting, At, Idle
<1>2. Requests
  BY DEF Init, Requests, Record, Idle
<1>3. seen.requests = 0 /\ seen.logins = 1 /\ cred = 1
  BY DEF Init
<1>4. IsFiniteSet({}) /\ Cardinality({}) = 0
  BY FS_EmptySet
<1> QED
  BY <1>1, <1>2, <1>3, <1>4, FieldedInit, SignInAssumption
  DEF CountInv, Room, SignInAssumption

LEMMA CountNext == CountInv /\ [Next]_vars => CountInv'
<1> SUFFICES ASSUME CountInv, [Next]_vars PROVE CountInv'
  OBVIOUS
<1>1. Fielded'
  BY FieldedNext DEF CountInv
<1>2. ASSUME req' = req, cred' = cred, seen'.logins = seen.logins,
             seen'.requests \in {seen.requests, seen.requests + 1}, seen'.requests <= MaxRequests
      PROVE  CountInv'
  <2>1. Waiting("password")' = Waiting("password") /\ Waiting("hash")' = Waiting("hash")
    BY <1>2 DEF Waiting, At
  <2>2. Requests'
    BY <1>2 DEF CountInv, Requests
  <2> QED
    BY <1>1, <1>2, <2>1, <2>2, SignInAssumption, FS_CardinalityType
    DEF CountInv, Room, SignInAssumption
<1>3. CASE \/ BeginPasskeyLogin \/ StartTOTPEnrollment \/ BeginPasskeyEnrollment
           \/ DeletePasskey \/ RevokeOtherDevices \/ Logout
           \/ Tick \/ Sweep \/ UNCHANGED vars
  <2>1. req' = req /\ cred' = cred
    BY <1>3
    DEF BeginPasskeyLogin, StartTOTPEnrollment, BeginPasskeyEnrollment, DeletePasskey,
        RevokeOtherDevices, Logout, Tick, Sweep, vars, store
  <2>3. CASE StartTOTPEnrollment
    <3>1. seen' = [seen EXCEPT !.requests = @ + 1, !.secrets = @ + 1] /\ seen.requests < MaxRequests
      BY <2>3 DEF StartTOTPEnrollment
    <3>2. OneMore
      BY <3>1, SignInAssumption DEF OneMore, CountInv, Fielded, Fields, SignInAssumption
    <3> QED
      BY <1>2, <2>1, <3>2 DEF OneMore
  <2>2. Count \/ UNCHANGED seen => OneMore \/ SameCounts
    BY Counting
  <2>4. CASE ~StartTOTPEnrollment
    <3>1. Count \/ UNCHANGED seen
      BY <1>3, <2>4
      DEF BeginPasskeyLogin, BeginPasskeyEnrollment, DeletePasskey, RevokeOtherDevices, Logout,
          Tick, Sweep, vars
    <3>2. OneMore \/ SameCounts
      BY <2>2, <3>1
    <3> QED
      BY <1>2, <2>1, <3>2, SignInAssumption DEF OneMore, SameCounts, CountInv, SignInAssumption
  <2> QED
    BY <2>3, <2>4
<1> QED
  BY <1>1, <1>3, LoginsUse, RequestsUse, UsesKeeps DEF Next

-----------------------------------------------------------------------------
(* Where every step takes its request, and with what.                      *)

Goes(h, pc) == Becomes(h, pc, req[h].login, req[h].code)
Ends(h) == Becomes(h, "idle", 0, <<>>)

LEMMA LoginLands ==
  ASSUME CountInv, NEW h \in Handlers
  PROVE  /\ LoginPost(h) => \E c : Becomes(h, "password", 0, c)
         /\ CheckAdminPassword(h) =>
              \/ Ends(h) /\ (UNCHANGED seen \/ Fault({}))
              \/ /\ Becomes(h, "enabled", seen.logins + 1, <<>>)
                 /\ seen' = [seen EXCEPT !.logins = @ + 1,
                                         !.cred = [@ EXCEPT ![seen.logins + 1] = cred]]
         /\ TOTPEnabled(h) =>
              \/ Goes(h, "park")
              \/ Goes(h, "passkeys") /\ LooksUp(totp.secret # 0, FALSE)
         /\ PasskeysEnabled(h) =>
              \/ Ends(h) /\ Park(h)
              \/ /\ Becomes(h, "forget", req[h].login, [unasked |-> InPlace(req[h].login)])
                 /\ At(h, "passkeys") /\ LooksUp(keys, FALSE) /\ UNCHANGED pending
<1>0. Requests
  BY DEF CountInv
<1>1. LoginPost(h) => \E c : Becomes(h, "password", 0, c)
  BY <1>0, Become DEF LoginPost
<1>2. ASSUME CheckAdminPassword(h)
      PROVE  \/ Ends(h) /\ (UNCHANGED seen \/ Fault({}))
             \/ /\ Becomes(h, "enabled", seen.logins + 1, <<>>)
                /\ seen' = [seen EXCEPT !.logins = @ + 1,
                                        !.cred = [@ EXCEPT ![seen.logins + 1] = cred]]
  BY <1>0, <1>2, Become, BecomeLogin DEF CheckAdminPassword, Ends
<1>3. TOTPEnabled(h) =>
              \/ Goes(h, "park")
              \/ Goes(h, "passkeys") /\ LooksUp(totp.secret # 0, FALSE)
  BY <1>0, Become DEF TOTPEnabled, Goes
<1>4. Park(h) => Ends(h)
  BY <1>0, Become DEF Park, Ends
<1>5. PasswordOnly(h) => Becomes(h, "forget", req[h].login, [unasked |-> InPlace(req[h].login)])
  BY <1>0, Become DEF PasswordOnly
<1>6. PasswordOnly(h) => UNCHANGED pending
  BY DEF PasswordOnly
<1> QED
  BY <1>1, <1>2, <1>3, <1>4, <1>5, <1>6 DEF PasskeysEnabled

LEMMA CodeLands ==
  ASSUME CountInv, NEW h \in Handlers
  PROVE  /\ LoginTOTPPost(h) =>
              \E t \in Logins : \E c \in Typed(t) : Shown(t) /\ Becomes(h, "secret", t, c)
         /\ GetTOTPSecret(h) =>
              \/ Ends(h)
              \/ Goes(h, "orpasskeys") /\ totp.secret = 0
              \/ Goes(h, "last") /\ Validates(totp.secret, req[h].code)
              \/ Goes(h, "codes")
         /\ NoSecret(h) => Ends(h) \/ (Goes(h, "unproven") /\ LooksUp(keys, FALSE))
         /\ GetTOTPLastCounter(h) =>
              \/ Ends(h)
              \/ /\ Goes(h, "setlast") /\ req[h].code[3] > totp.last
                 /\ Note(When(Others(h, "setlast"), "overlap"))
         /\ SetTOTPLastCounter(h) =>
              \/ Ends(h) /\ UNCHANGED totp /\ Fault({})
              \/ /\ Goes(h, "proven") /\ seen' = Spent(req[h].code)
                 /\ totp' = [totp EXCEPT !.last = req[h].code[3]]
         /\ CompareMailCode(h) =>
              \/ Ends(h) /\ UNCHANGED seen
              \/ /\ Goes(h, "dropmail") /\ Note(When(Others(h, "dropmail"), "overlap"))
                 /\ pending[req[h].login].mail # 0
                 /\ req[h].code = MailCode(req[h].login, pending[req[h].login].mail)
         /\ DropMailCode(h) => Goes(h, "proven")
         /\ Accept(h) => \E u : /\ Becomes(h, "forget", req[h].login, [unasked |-> u])
                                /\ u = IF At(h, "proven") THEN {} ELSE InPlace(req[h].login)
<1>0. Requests
  BY DEF CountInv
<1>1. LoginTOTPPost(h) => \E t \in Logins : \E c \in Typed(t) : Shown(t) /\ Becomes(h, "secret", t, c)
  BY <1>0, Become DEF LoginTOTPPost
<1>2. GetTOTPSecret(h) =>
        \/ Ends(h)
        \/ Goes(h, "orpasskeys") /\ totp.secret = 0
        \/ Goes(h, "last") /\ Validates(totp.secret, req[h].code)
        \/ Goes(h, "codes")
  BY <1>0, Become DEF GetTOTPSecret, Ends, Goes
<1>3. NoSecret(h) => Ends(h) \/ (Goes(h, "unproven") /\ LooksUp(keys, FALSE))
  BY <1>0, Become DEF NoSecret, Ends, Goes
<1>4. GetTOTPLastCounter(h) =>
        \/ Ends(h)
        \/ /\ Goes(h, "setlast") /\ req[h].code[3] > totp.last
           /\ Note(When(Others(h, "setlast"), "overlap"))
  BY <1>0, Become DEF GetTOTPLastCounter, Ends, Goes
<1>5. SetTOTPLastCounter(h) =>
        \/ Ends(h) /\ UNCHANGED totp /\ Fault({})
        \/ /\ Goes(h, "proven") /\ seen' = Spent(req[h].code)
           /\ totp' = [totp EXCEPT !.last = req[h].code[3]]
  BY <1>0, Become DEF SetTOTPLastCounter, Ends, Goes
<1>6. CompareMailCode(h) =>
        \/ Ends(h) /\ UNCHANGED seen
        \/ /\ Goes(h, "dropmail") /\ Note(When(Others(h, "dropmail"), "overlap"))
           /\ pending[req[h].login].mail # 0
           /\ req[h].code = MailCode(req[h].login, pending[req[h].login].mail)
  BY <1>0, Become DEF CompareMailCode, Ends, Goes
<1>7. DropMailCode(h) => Goes(h, "proven")
  BY <1>0, Become DEF DropMailCode, Goes
<1>8. ASSUME Accept(h)
      PROVE  \E u : /\ Becomes(h, "forget", req[h].login, [unasked |-> u])
                    /\ u = IF At(h, "proven") THEN {} ELSE InPlace(req[h].login)
  <2>1. PICK u : Passed(h, u) /\ u = IF At(h, "proven") THEN {} ELSE InPlace(req[h].login)
    BY <1>8 DEF Accept
  <2> QED
    BY <1>0, <2>1, Become
<1> QED
  BY <1>1, <1>2, <1>3, <1>4, <1>5, <1>6, <1>7, <1>8

LEMMA BackupLands ==
  ASSUME CountInv, NEW h \in Handlers
  PROVE  /\ ReadBackupCodes(h) =>
              \/ \E n \in totp.codes :
                   /\ IsBackup(h, n) /\ Note(When(Others(h, "setcodes"), "overlap"))
                   /\ Becomes(h, "setcodes", req[h].login, <<"rest", n, totp.codes \ {n}>>)
              \/ Goes(h, AfterCodes(h)) /\ (UNCHANGED seen \/ Fault({}))
         /\ WriteBackupCodes(h) => Goes(h, IF req[h].login = 0 THEN "off1" ELSE "proven")
<1>0. Requests
  BY DEF CountInv
<1>1. ASSUME NEW n \in totp.codes, IsBackup(h, n), Note(When(Others(h, "setcodes"), "overlap")),
             req' = [req EXCEPT ![h].pc = "setcodes",
                                ![h].code = <<"rest", n, totp.codes \ {n}>>]
      PROVE  Becomes(h, "setcodes", req[h].login, <<"rest", n, totp.codes \ {n}>>)
  BY <1>0, <1>1, Become
<1>2. Goto(h, AfterCodes(h)) => Goes(h, AfterCodes(h))
  BY <1>0, Become DEF Goes
<1>3. WriteBackupCodes(h) => Goes(h, IF req[h].login = 0 THEN "off1" ELSE "proven")
  <2>1. ASSUME NEW pc, Goto(h, pc) PROVE Goes(h, pc)
    BY <1>0, <2>1, Become DEF Goes
  <2> QED
    BY <2>1 DEF WriteBackupCodes
<1>4. ASSUME ReadBackupCodes(h)
      PROVE  \/ \E n \in totp.codes :
                  /\ IsBackup(h, n) /\ Note(When(Others(h, "setcodes"), "overlap"))
                  /\ Becomes(h, "setcodes", req[h].login, <<"rest", n, totp.codes \ {n}>>)
             \/ Goes(h, AfterCodes(h)) /\ (UNCHANGED seen \/ Fault({}))
  <2>1. CASE Goto(h, AfterCodes(h)) /\ (UNCHANGED seen \/ Fault({}))
    BY <1>2, <2>1
  <2>2. CASE \E n \in totp.codes :
               /\ IsBackup(h, n)
               /\ req' = [req EXCEPT ![h].pc = "setcodes",
                                     ![h].code = <<"rest", n, totp.codes \ {n}>>]
               /\ Note(When(Others(h, "setcodes"), "overlap"))
    BY <1>1, <2>2
  <2> QED
    BY <1>4, <2>1, <2>2 DEF ReadBackupCodes
<1> QED
  BY <1>3, <1>4

LEMMA SessionLands ==
  ASSUME CountInv, NEW h \in Handlers
  PROVE  /\ LoginTOTPEmail(h) => \E t \in Logins : Shown(t) /\ Becomes(h, "code", t, <<>>)
         /\ KeepMailCode(h) => Goes(h, "send")
         /\ SendLoginCode(h) => Ends(h)
         /\ FinishPasskeyLogin(h) => \E t \in Logins : \E c : Shown(t) /\ Becomes(h, "assert", t, c)
         /\ VerifyPasskey(h) => Ends(h) \/ Goes(h, "proven")
         /\ ForgetDevice(h) =>
              \/ Ends(h)
              \/ \E d : Becomes(h, "revoke", req[h].login,
                                [unasked |-> req[h].code.unasked, device |-> d])
         /\ RevokeLive(h) =>
              \/ Ends(h)
              \/ Becomes(h, "insert", req[h].login,
                         [unasked |-> req[h].code.unasked, device |-> req[h].code.device,
                          after |-> seen.sessions])
         /\ InsertSession(h) => Ends(h)
<1>0. Requests
  BY DEF CountInv
<1>1. ASSUME LoginTOTPEmail(h) PROVE \E t \in Logins : Shown(t) /\ Becomes(h, "code", t, <<>>)
  <2>1. PICK t \in Logins : Shown(t) /\ Arrive(h, "code", t, <<>>, 0)
    BY <1>1 DEF LoginTOTPEmail
  <2> QED
    BY <1>0, <2>1, Become
<1>2. (KeepMailCode(h) => Goes(h, "send")) /\ (SendLoginCode(h) => Ends(h))
  BY <1>0, Become DEF KeepMailCode, SendLoginCode, Ends, Goes
<1>3. FinishPasskeyLogin(h) => \E t \in Logins : \E c : Shown(t) /\ Becomes(h, "assert", t, c)
  BY <1>0, Become DEF FinishPasskeyLogin
<1>4. VerifyPasskey(h) => Ends(h) \/ Goes(h, "proven")
  BY <1>0, Become DEF VerifyPasskey, Ends, Goes
<1>5. Done(h) => Ends(h)
  BY <1>0, Become DEF Ends
<1>6. ASSUME NEW d, req' = [req EXCEPT ![h].pc = "revoke",
                              ![h].code = [unasked |-> @.unasked, device |-> d]]
      PROVE  Becomes(h, "revoke", req[h].login, [unasked |-> req[h].code.unasked, device |-> d])
  <2>1. PICK code : code = [unasked |-> req[h].code.unasked, device |-> d]
    OBVIOUS
  <2>2. req' = [req EXCEPT ![h].pc = "revoke", ![h].code = code]
    BY <1>6, <2>1
  <2> QED
    BY <1>0, <2>1, <2>2, Become
<1>7. ASSUME req' = [req EXCEPT ![h].pc = "insert",
                       ![h].code = [unasked |-> @.unasked, device |-> @.device,
                                    after |-> seen.sessions]]
      PROVE  Becomes(h, "insert", req[h].login,
                     [unasked |-> req[h].code.unasked, device |-> req[h].code.device,
                      after |-> seen.sessions])
  <2>1. PICK code : code = [unasked |-> req[h].code.unasked, device |-> req[h].code.device,
                            after |-> seen.sessions]
    OBVIOUS
  <2>2. req' = [req EXCEPT ![h].pc = "insert", ![h].code = code]
    BY <1>7, <2>1
  <2> QED
    BY <1>0, <2>1, <2>2, Become
<1>8. ForgetDevice(h) =>
        \/ Ends(h)
        \/ \E d : Becomes(h, "revoke", req[h].login, [unasked |-> req[h].code.unasked, device |-> d])
  BY <1>5, <1>6 DEF ForgetDevice
<1>9. RevokeLive(h) =>
        \/ Ends(h)
        \/ Becomes(h, "insert", req[h].login,
                   [unasked |-> req[h].code.unasked, device |-> req[h].code.device,
                    after |-> seen.sessions])
  BY <1>5, <1>7 DEF RevokeLive
<1>10. InsertSession(h) => Ends(h)
  BY <1>5 DEF InsertSession
<1> QED
  BY <1>1, <1>2, <1>3, <1>4, <1>8, <1>9, <1>10

LEMMA SettingLands ==
  ASSUME CountInv, NEW h \in Handlers
  PROVE  /\ ConfirmTOTPEnrollment(h) => Becomes(h, "promote", 0, <<totp.pending>>)
         /\ ReadPending(h) =>
              \/ Ends(h) /\ UNCHANGED seen
              \/ /\ totp.pending # 0
                 /\ Becomes(h, "on1", req[h].login, <<totp.pending, seen.enrolled + 1>>)
                 /\ seen' = [seen EXCEPT !.enrolled = @ + 1,
                               !.confirmed = @ \cup {req[h].code[1]},
                               !.mishaps = @ \cup When(totp.pending # req[h].code[1], "restarted")]
         /\ DisableTOTP(h) => \E c \in OwnCodes, pc \in {"off1", "codes"} : Becomes(h, pc, 0, c)
         /\ WriteTOTPKey(h) =>
              \/ Ends(h) /\ (After[req[h].pc] = "idle" \/ (UNCHANGED totp /\ Fault({})))
              \/ Goes(h, After[req[h].pc]) /\ After[req[h].pc] # "idle" /\ totp' = Written(h)
         /\ ChangeCredentials(h) => Becomes(h, "hash", 0, <<>>)
         /\ SetCredentials(h) => \/ Ends(h) /\ cred' = cred
                                 \/ Goes(h, "drop") /\ cred' = cred + 1
         /\ DropSessions(h) => Ends(h)
         /\ TakeEnrollment(h) => Becomes(h, "register", 0, <<>>)
         /\ RegisterPasskey(h) => Ends(h)
         /\ RevokeDevice(h) => \E c : \E pc \in {"sign out", "delete"} : Becomes(h, pc, 0, c)
         /\ EndDevice(h) => Ends(h)
<1>0. Requests
  BY DEF CountInv
<1>1. ASSUME NEW what, NEW pc, NEW code, Admitted(h, what, pc, code)
      PROVE  Becomes(h, pc, 0, code)
  BY <1>0, <1>1, Become DEF Admitted
<1>2. Done(h) => Ends(h)
  BY <1>0, Become DEF Ends
<1>3. \A pc : Goto(h, pc) => Goes(h, pc)
  BY <1>0, Become DEF Goes
<1>4. ConfirmTOTPEnrollment(h) => Becomes(h, "promote", 0, <<totp.pending>>)
  BY <1>1 DEF ConfirmTOTPEnrollment
<1>5. ASSUME req' = [req EXCEPT ![h].pc = "on1", ![h].code = <<totp.pending, seen.enrolled + 1>>]
      PROVE  Becomes(h, "on1", req[h].login, <<totp.pending, seen.enrolled + 1>>)
  BY <1>0, <1>5, Become
<1>6. ReadPending(h) =>
        \/ Ends(h) /\ UNCHANGED seen
        \/ /\ totp.pending # 0
           /\ Becomes(h, "on1", req[h].login, <<totp.pending, seen.enrolled + 1>>)
           /\ seen' = [seen EXCEPT !.enrolled = @ + 1,
                         !.confirmed = @ \cup {req[h].code[1]},
                         !.mishaps = @ \cup When(totp.pending # req[h].code[1], "restarted")]
  BY <1>2, <1>5 DEF ReadPending
<1>7. DisableTOTP(h) => \E c \in OwnCodes, pc \in {"off1", "codes"} : Becomes(h, pc, 0, c)
  BY <1>1 DEF DisableTOTP
<1>8. WriteTOTPKey(h) =>
        \/ Ends(h) /\ (After[req[h].pc] = "idle" \/ (UNCHANGED totp /\ Fault({})))
        \/ Goes(h, After[req[h].pc]) /\ After[req[h].pc] # "idle" /\ totp' = Written(h)
  BY <1>2, <1>3 DEF WriteTOTPKey
<1>9. ChangeCredentials(h) => Becomes(h, "hash", 0, <<>>)
  BY <1>1 DEF ChangeCredentials
<1>10. SetCredentials(h) => \/ Ends(h) /\ cred' = cred
                            \/ Goes(h, "drop") /\ cred' = cred + 1
  BY <1>2, <1>3 DEF SetCredentials
<1>11. TakeEnrollment(h) => Becomes(h, "register", 0, <<>>)
  BY <1>1 DEF TakeEnrollment
<1>12. RevokeDevice(h) => \E c : \E pc \in {"sign out", "delete"} : Becomes(h, pc, 0, c)
  <2>1. \A s \in rows : (IF s.state = "live" THEN "sign out" ELSE "delete") \in {"sign out", "delete"}
    OBVIOUS
  <2> QED
    BY <1>1, <2>1 DEF RevokeDevice
<1>13. DropSessions(h) \/ RegisterPasskey(h) \/ EndDevice(h) => Ends(h)
  BY <1>2 DEF DropSessions, RegisterPasskey, EndDevice
<1> QED
  BY <1>4, <1>6, <1>7, <1>8, <1>9, <1>10, <1>11, <1>12, <1>13

-----------------------------------------------------------------------------
(* The logins that requests and pending entries name have passed their     *)
(* password.                                                               *)

Entry == [live : BOOLEAN, sent : Nat, mail : Nat, sentAt : Nat, wa : BOOLEAN]

KnownInv ==
  /\ clock \in Nat
  /\ pending \in [Logins -> Entry]
  /\ \A h \in Handlers : req[h].login \in 0 .. seen.logins
  /\ \A t \in Logins : pending[t].live => t <= seen.logins

\* What a step does to the entry of a login.
Touches(t) ==
  /\ pending'[t] \in Entry
  /\ \A u \in Logins : u # t => pending'[u] = pending[u]

LEMMA EntryTouched ==
  ASSUME pending \in [Logins -> Entry], NEW t \in Logins
  PROVE  /\ \A e \in Entry : pending' = [pending EXCEPT ![t] = e] =>
              Touches(t) /\ pending'[t] = e /\ pending' \in [Logins -> Entry]
         /\ \A b \in BOOLEAN : pending' = [pending EXCEPT ![t].live = b] =>
              /\ Touches(t) /\ pending' \in [Logins -> Entry] /\ pending'[t].live = b
              /\ pending'[t].sent = pending[t].sent /\ pending'[t].mail = pending[t].mail
              /\ ~b /\ pending[t] = NoEntry => pending'[t] = NoEntry
         /\ \A b \in BOOLEAN : pending' = [pending EXCEPT ![t].wa = b] =>
              /\ Touches(t) /\ pending' \in [Logins -> Entry] /\ pending'[t].live = pending[t].live
              /\ pending'[t].sent = pending[t].sent /\ pending'[t].mail = pending[t].mail
              /\ ~b /\ pending[t] = NoEntry => pending'[t] = NoEntry
         /\ pending' = [pending EXCEPT ![t].mail = 0] =>
              /\ Touches(t) /\ pending' \in [Logins -> Entry] /\ pending'[t].live = pending[t].live
              /\ pending'[t].sent = pending[t].sent /\ pending'[t].mail = 0
              /\ pending[t] = NoEntry => pending'[t] = NoEntry
<1> USE DEF Touches
<1>1. pending[t] \in Entry /\ pending[t].sent \in Nat /\ pending[t].mail \in Nat
  BY DEF Entry
<1>2. ASSUME NEW e \in Entry, pending' = [pending EXCEPT ![t] = e]
      PROVE  Touches(t) /\ pending'[t] = e /\ pending' \in [Logins -> Entry]
  BY <1>2
<1>3. ASSUME NEW b \in BOOLEAN, pending' = [pending EXCEPT ![t].live = b]
      PROVE  /\ Touches(t) /\ pending' \in [Logins -> Entry] /\ pending'[t].live = b
             /\ pending'[t].sent = pending[t].sent /\ pending'[t].mail = pending[t].mail
             /\ ~b /\ pending[t] = NoEntry => pending'[t] = NoEntry
  <2>1. PICK e : e = [live |-> b, sent |-> pending[t].sent, mail |-> pending[t].mail,
                      sentAt |-> pending[t].sentAt, wa |-> pending[t].wa]
    OBVIOUS
  <2>2. e \in Entry /\ e = [pending[t] EXCEPT !.live = b]
    BY <1>1, <2>1 DEF Entry
  <2>3. ASSUME ~b, pending[t] = NoEntry PROVE e = NoEntry
    <3>1. b = FALSE
      BY <2>3
    <3>2. /\ pending[t].live = FALSE /\ pending[t].wa = FALSE /\ pending[t].mail = 0
          /\ pending[t].sent = 0 /\ pending[t].sentAt = 0
      BY <2>3 DEF NoEntry
    <3>3. e = [live |-> FALSE, sent |-> 0, mail |-> 0, sentAt |-> 0, wa |-> FALSE]
      BY <2>1, <3>1, <3>2
    <3> QED
      BY <3>3 DEF NoEntry
  <2>4. pending[t] = NoEntry => pending[t].live = FALSE /\ pending[t].wa = FALSE /\ pending[t].mail = 0
    BY DEF NoEntry
  <2>5. e.live = b /\ e.sent = pending[t].sent /\ e.mail = pending[t].mail /\ e.wa = pending[t].wa
    BY <2>1
  <2>6. pending' = [pending EXCEPT ![t] = e]
    BY <1>3, <2>2
  <2> QED
    BY <1>2, <2>2, <2>3, <2>4, <2>5, <2>6
<1>4. ASSUME NEW b \in BOOLEAN, pending' = [pending EXCEPT ![t].wa = b]
      PROVE  /\ Touches(t) /\ pending' \in [Logins -> Entry] /\ pending'[t].live = pending[t].live
             /\ pending'[t].sent = pending[t].sent /\ pending'[t].mail = pending[t].mail
             /\ ~b /\ pending[t] = NoEntry => pending'[t] = NoEntry
  <2>1. PICK e : e = [live |-> pending[t].live, sent |-> pending[t].sent, mail |-> pending[t].mail,
                      sentAt |-> pending[t].sentAt, wa |-> b]
    OBVIOUS
  <2>2. e \in Entry /\ e = [pending[t] EXCEPT !.wa = b]
    BY <1>1, <2>1 DEF Entry
  <2>3. ASSUME ~b, pending[t] = NoEntry PROVE e = NoEntry
    <3>1. b = FALSE
      BY <2>3
    <3>2. /\ pending[t].live = FALSE /\ pending[t].wa = FALSE /\ pending[t].mail = 0
          /\ pending[t].sent = 0 /\ pending[t].sentAt = 0
      BY <2>3 DEF NoEntry
    <3>3. e = [live |-> FALSE, sent |-> 0, mail |-> 0, sentAt |-> 0, wa |-> FALSE]
      BY <2>1, <3>1, <3>2
    <3> QED
      BY <3>3 DEF NoEntry
  <2>4. pending[t] = NoEntry => pending[t].live = FALSE /\ pending[t].wa = FALSE /\ pending[t].mail = 0
    BY DEF NoEntry
  <2>5. e.live = pending[t].live /\ e.sent = pending[t].sent /\ e.mail = pending[t].mail /\ e.wa = b
    BY <2>1
  <2>6. pending' = [pending EXCEPT ![t] = e]
    BY <1>4, <2>2
  <2> QED
    BY <1>2, <2>2, <2>3, <2>4, <2>5, <2>6
<1>5. ASSUME pending' = [pending EXCEPT ![t].mail = 0]
      PROVE  /\ Touches(t) /\ pending' \in [Logins -> Entry] /\ pending'[t].live = pending[t].live
             /\ pending'[t].sent = pending[t].sent /\ pending'[t].mail = 0
             /\ pending[t] = NoEntry => pending'[t] = NoEntry
  <2>1. PICK e : e = [live |-> pending[t].live, sent |-> pending[t].sent, mail |-> 0,
                      sentAt |-> pending[t].sentAt, wa |-> pending[t].wa]
    OBVIOUS
  <2>2. e \in Entry /\ e = [pending[t] EXCEPT !.mail = 0]
    BY <1>1, <2>1 DEF Entry
  <2>3. pending[t] = NoEntry /\ e.live = FALSE /\ e.wa = FALSE /\ e.mail = 0 => e = NoEntry
    BY <2>1 DEF NoEntry
  <2>4. pending[t] = NoEntry => pending[t].live = FALSE /\ pending[t].wa = FALSE /\ pending[t].mail = 0
    BY DEF NoEntry
  <2>5. e.live = pending[t].live /\ e.sent = pending[t].sent /\ e.mail = 0 /\ e.wa = pending[t].wa
    BY <2>1
  <2>6. pending' = [pending EXCEPT ![t] = e]
    BY <1>5, <2>2
  <2> QED
    BY <1>2, <2>2, <2>3, <2>4, <2>5, <2>6
<1> QED
  BY <1>2, <1>3, <1>4, <1>5

\* One more code is e-mailed for a login.
LEMMA EntryMailed ==
  ASSUME pending \in [Logins -> Entry], NEW t \in Logins, clock \in Nat,
         pending' = [pending EXCEPT ![t].mail = pending[t].sent + 1,
                                    ![t].sent = @ + 1, ![t].sentAt = clock]
  PROVE  /\ Touches(t) /\ pending' \in [Logins -> Entry] /\ pending'[t].live = pending[t].live
         /\ pending'[t].sent = pending[t].sent + 1 /\ pending'[t].mail = pending[t].sent + 1
<1>1. pending[t] \in Entry /\ pending[t].sent \in Nat
  BY DEF Entry
<1>2. PICK e : e = [live |-> pending[t].live, sent |-> pending[t].sent + 1,
                    mail |-> pending[t].sent + 1, sentAt |-> clock, wa |-> pending[t].wa]
  OBVIOUS
<1>3. e \in Entry
  BY <1>1, <1>2 DEF Entry
<1>4. pending' = [pending EXCEPT ![t] = e]
  BY <1>1, <1>2 DEF Entry
<1>5. /\ e.live = pending[t].live /\ e.sent = pending[t].sent + 1
      /\ e.mail = pending[t].sent + 1
  BY <1>2
<1> QED
  BY <1>3, <1>4, <1>5, EntryTouched

\* The entry a step touches, and how.
LEMMA PendingMoves ==
  ASSUME CountInv, KnownInv, NEW h \in Handlers
  PROVE  /\ PasskeysEnabled(h) /\ req[h].login \in Logins =>
              \/ UNCHANGED pending
              \/ /\ Touches(req[h].login) /\ pending' \in [Logins -> Entry]
                 /\ pending'[req[h].login].sent = 0 /\ pending'[req[h].login].mail = 0
                 /\ Ends(h)
         /\ KeepMailCode(h) /\ req[h].login \in Logins =>
              LET t == req[h].login IN
              /\ Touches(t) /\ pending' \in [Logins -> Entry]
              /\ pending'[t].live = pending[t].live
              /\ pending'[t].sent = pending[t].sent + 1 /\ pending'[t].mail = pending[t].sent + 1
<1>1. ASSUME Park(h), req[h].login \in Logins
      PROVE  /\ Touches(req[h].login) /\ pending' \in [Logins -> Entry]
             /\ pending'[req[h].login].sent = 0 /\ pending'[req[h].login].mail = 0
  <2>1. PICK e : e = [NoEntry EXCEPT !.live = TRUE]
    OBVIOUS
  <2>2. e \in Entry /\ e.sent = 0 /\ e.mail = 0
    BY <2>1 DEF Entry, NoEntry
  <2>3. pending' = [pending EXCEPT ![req[h].login] = e]
    BY <1>1, <2>1 DEF Park
  <2> QED
    BY <1>1, <2>2, <2>3, EntryTouched DEF KnownInv
<1>2. ASSUME KeepMailCode(h), NEW t \in Logins, t = req[h].login
      PROVE  /\ Touches(t) /\ pending' \in [Logins -> Entry]
             /\ pending'[t].live = pending[t].live
             /\ pending'[t].sent = pending[t].sent + 1 /\ pending'[t].mail = pending[t].sent + 1
  <2>1. pending' = [pending EXCEPT ![t].mail = pending[t].sent + 1,
                                   ![t].sent = @ + 1, ![t].sentAt = clock]
    BY <1>2 DEF KeepMailCode
  <2> QED
    BY <2>1, EntryMailed DEF KnownInv
<1> QED
  BY <1>1, <1>2, LoginLands

HandlerStep(h) ==
  \/ LoginPost(h) \/ CheckAdminPassword(h)
  \/ TOTPEnabled(h) \/ PasskeysEnabled(h)
  \/ LoginTOTPPost(h) \/ GetTOTPSecret(h) \/ NoSecret(h)
  \/ GetTOTPLastCounter(h) \/ SetTOTPLastCounter(h)
  \/ ReadBackupCodes(h) \/ WriteBackupCodes(h)
  \/ CompareMailCode(h) \/ DropMailCode(h) \/ Accept(h)
  \/ LoginTOTPEmail(h) \/ KeepMailCode(h) \/ SendLoginCode(h)
  \/ FinishPasskeyLogin(h) \/ VerifyPasskey(h)
  \/ ForgetDevice(h) \/ RevokeLive(h) \/ InsertSession(h)
  \/ ConfirmTOTPEnrollment(h) \/ ReadPending(h) \/ DisableTOTP(h)
  \/ WriteTOTPKey(h) \/ ChangeCredentials(h) \/ SetCredentials(h)
  \/ DropSessions(h) \/ TakeEnrollment(h) \/ RegisterPasskey(h)
  \/ RevokeDevice(h) \/ EndDevice(h)
OtherStep ==
  \/ BeginPasskeyLogin \/ StartTOTPEnrollment \/ BeginPasskeyEnrollment
  \/ DeletePasskey \/ RevokeOtherDevices \/ Logout
  \/ Tick \/ Sweep \/ UNCHANGED vars

LEMMA EveryStep == [Next]_vars => OtherStep \/ \E h \in Handlers : HandlerStep(h)
BY DEF Next, HandlerStep, OtherStep

LEMMA StepUses == ASSUME CountInv, NEW h \in Handlers, HandlerStep(h) PROVE Uses(h)
BY LoginsUse, RequestsUse DEF HandlerStep

\* The login a request goes on with: its own, none, one that is parked and
\* shown, or the one that begins.
Names(h, l) ==
  \/ l \in {0, req[h].login}
  \/ l \in Logins /\ Shown(l)
  \/ l = seen.logins + 1 /\ CheckAdminPassword(h) /\ seen'.logins = seen.logins + 1

LEMMA StepNames ==
  ASSUME CountInv, KnownInv, NEW h \in Handlers, HandlerStep(h)
  PROVE  Names(h, req'[h].login)
<1> USE DEF Names, Becomes, Ends, Goes
<1>1. CASE LoginPost(h) \/ TOTPEnabled(h) \/ PasskeysEnabled(h)
  BY <1>1, LoginLands
<1>2. CASE CheckAdminPassword(h)
  BY <1>2, LoginLands DEF CountInv, Fielded, Fields
<1>3. CASE LoginTOTPPost(h) \/ GetTOTPSecret(h) \/ NoSecret(h) \/ GetTOTPLastCounter(h)
           \/ SetTOTPLastCounter(h) \/ CompareMailCode(h) \/ DropMailCode(h) \/ Accept(h)
  <2>1. CASE LoginTOTPPost(h)
    BY <2>1, CodeLands
  <2>2. CASE Accept(h)
    BY <2>2, CodeLands
  <2>3. CASE ~LoginTOTPPost(h) /\ ~Accept(h)
    <3>1. req'[h].login \in {0, req[h].login}
      BY <1>3, <2>3, CodeLands
    <3> QED
      BY <3>1
  <2> QED
    BY <2>1, <2>2, <2>3
<1>4. CASE ReadBackupCodes(h) \/ WriteBackupCodes(h)
  BY <1>4, BackupLands
<1>5. CASE LoginTOTPEmail(h) \/ KeepMailCode(h) \/ SendLoginCode(h)
        \/ FinishPasskeyLogin(h) \/ VerifyPasskey(h)
           \/ ForgetDevice(h) \/ RevokeLive(h) \/ InsertSession(h)
  BY <1>5, SessionLands
<1>6. CASE \/ ConfirmTOTPEnrollment(h) \/ ReadPending(h) \/ DisableTOTP(h)
           \/ WriteTOTPKey(h) \/ ChangeCredentials(h) \/ SetCredentials(h)
           \/ DropSessions(h) \/ TakeEnrollment(h) \/ RegisterPasskey(h)
           \/ RevokeDevice(h) \/ EndDevice(h)
  <2>1. req'[h].login \in {0, req[h].login}
    BY <1>6, SettingLands
  <2> QED
    BY <2>1
<1> QED
  BY <1>1, <1>2, <1>3, <1>4, <1>5, <1>6 DEF HandlerStep

\* Whose entry a step may touch.
LEMMA StepTouches ==
  ASSUME CountInv, KnownInv, NEW h \in Handlers, HandlerStep(h)
  PROVE  /\ pending' \in [Logins -> Entry]
         /\ \A t \in Logins : pending'[t].live => pending[t].live \/ t = req[h].login
<1>1. CASE UNCHANGED pending
  BY <1>1 DEF KnownInv
<1>2. ASSUME req[h].login \notin Logins,
             \/ \E e : pending' = [pending EXCEPT ![req[h].login] = e]
             \/ pending' = [pending EXCEPT ![req[h].login].live = FALSE]
             \/ pending' = [pending EXCEPT ![req[h].login].mail = 0]
             \/ pending' = [pending EXCEPT ![req[h].login].wa = FALSE]
      PROVE  UNCHANGED pending
  BY <1>2 DEF KnownInv
<1>3. CASE PasskeysEnabled(h)
  <2>1. CASE req[h].login \in Logins
    BY <1>1, <1>3, <2>1, PendingMoves DEF Touches
  <2>2. CASE req[h].login \notin Logins
    BY <1>1, <1>2, <1>3, <2>2 DEF PasskeysEnabled, Park, PasswordOnly
  <2> QED
    BY <2>1, <2>2
<1>4. CASE DropMailCode(h) \/ Accept(h) \/ SendLoginCode(h) \/ VerifyPasskey(h)
  <2>1. \/ UNCHANGED pending
        \/ pending' = [pending EXCEPT ![req[h].login].live = FALSE]
        \/ pending' = [pending EXCEPT ![req[h].login].mail = 0]
        \/ pending' = [pending EXCEPT ![req[h].login].wa = FALSE]
    BY <1>4 DEF DropMailCode, Accept, SendLoginCode, VerifyPasskey
  <2>2. CASE req[h].login \in Logins
    BY <1>1, <2>1, <2>2, EntryTouched DEF KnownInv, Touches
  <2> QED
    BY <1>1, <1>2, <2>1, <2>2
<1>5. CASE KeepMailCode(h)
  <2>1. CASE req[h].login \in Logins
    BY <1>5, <2>1, PendingMoves DEF Touches
  <2>2. CASE req[h].login \notin Logins
    BY <1>1, <1>5, <2>2 DEF KeepMailCode, KnownInv
  <2> QED
    BY <2>1, <2>2
<1> QED
  <2>1. \/ UNCHANGED pending \/ PasskeysEnabled(h) \/ KeepMailCode(h)
        \/ DropMailCode(h) \/ Accept(h) \/ SendLoginCode(h) \/ VerifyPasskey(h)
    BY DEF HandlerStep, memory, LoginPost, CheckAdminPassword, TOTPEnabled, LoginTOTPPost,
           GetTOTPSecret, NoSecret, GetTOTPLastCounter, SetTOTPLastCounter, ReadBackupCodes,
           WriteBackupCodes, CompareMailCode, LoginTOTPEmail, FinishPasskeyLogin, ForgetDevice,
           RevokeLive, InsertSession, ConfirmTOTPEnrollment, ReadPending, DisableTOTP,
           WriteTOTPKey, ChangeCredentials, SetCredentials, DropSessions, TakeEnrollment,
           RegisterPasskey, RevokeDevice, EndDevice
  <2> QED
    BY <1>1, <1>3, <1>4, <1>5, <2>1

\* Time only passes between the requests' steps.
LEMMA StepClock == ASSUME NEW h \in Handlers, HandlerStep(h) PROVE clock' = clock
BY DEF HandlerStep, LoginPost, CheckAdminPassword, TOTPEnabled, PasskeysEnabled, LoginTOTPPost,
       GetTOTPSecret, NoSecret, GetTOTPLastCounter, SetTOTPLastCounter, ReadBackupCodes,
       WriteBackupCodes, CompareMailCode, DropMailCode, Accept, LoginTOTPEmail, KeepMailCode,
       SendLoginCode, FinishPasskeyLogin, VerifyPasskey, ForgetDevice, RevokeLive,
       InsertSession, ConfirmTOTPEnrollment, ReadPending, DisableTOTP, WriteTOTPKey,
       ChangeCredentials, SetCredentials, DropSessions, TakeEnrollment, RegisterPasskey,
       RevokeDevice, EndDevice

LEMMA OtherTouches ==
  ASSUME CountInv, KnownInv, OtherStep
  PROVE  /\ req' = req /\ pending' \in [Logins -> Entry] /\ seen'.logins = seen.logins
         /\ \A t \in Logins : /\ pending'[t].live = pending[t].live
                              /\ pending'[t].sent = pending[t].sent
                              /\ pending'[t].mail = pending[t].mail
                              /\ pending'[t] = pending[t] \/ pending[t].live
<1>1. CASE BeginPasskeyLogin
  <2>1. PICK t \in Logins : Shown(t) /\ pending' = [pending EXCEPT ![t].wa = TRUE]
    BY <1>1 DEF BeginPasskeyLogin
  <2>2. /\ Touches(t) /\ pending' \in [Logins -> Entry] /\ pending'[t].live = pending[t].live
        /\ pending'[t].sent = pending[t].sent /\ pending'[t].mail = pending[t].mail
    BY <2>1, EntryTouched DEF KnownInv
  <2>3. req' = req /\ seen'.logins = seen.logins
    BY <1>1, Counting DEF BeginPasskeyLogin, OneMore
  <2> QED
    BY <2>1, <2>2, <2>3 DEF Touches, Shown
<1>2. CASE ~BeginPasskeyLogin
  <2>1. req' = req /\ UNCHANGED pending
    BY <1>2
    DEF OtherStep, StartTOTPEnrollment, BeginPasskeyEnrollment, DeletePasskey, RevokeOtherDevices,
        Logout, Tick, Sweep, vars, memory
  <2>2. CASE StartTOTPEnrollment
    BY <2>1, <2>2 DEF StartTOTPEnrollment, CountInv, Fielded, Fields, KnownInv
  <2>3. CASE ~StartTOTPEnrollment
    <3>1. Count \/ UNCHANGED seen
      BY <1>2, <2>3
      DEF OtherStep, BeginPasskeyEnrollment, DeletePasskey, RevokeOtherDevices, Logout, Tick, Sweep,
          vars
    <3> QED
      BY <2>1, <3>1, Counting DEF OneMore, KnownInv
  <2> QED
    BY <2>2, <2>3
<1> QED
  BY <1>1, <1>2

LEMMA KnownInit == Init => KnownInv
<1> SUFFICES ASSUME Init PROVE KnownInv
  OBVIOUS
<1>1. PICK parked \in BOOLEAN :
        pending = [t \in Logins |-> [NoEntry EXCEPT !.live = parked /\ t = 1]]
  BY DEF Init
<1>2. ASSUME NEW t \in Logins
      PROVE  pending[t] \in Entry /\ (pending[t].live => t = 1)
  <2>1. PICK b \in BOOLEAN : b = (parked /\ t = 1)
    OBVIOUS
  <2>2. pending[t] = [NoEntry EXCEPT !.live = b]
    BY <1>1, <2>1
  <2>3. pending[t] = [live |-> b, sent |-> 0, mail |-> 0, sentAt |-> 0, wa |-> FALSE]
    BY <2>2 DEF NoEntry
  <2>4. pending[t] \in Entry
    BY <2>3 DEF Entry
  <2>5. pending[t].live = b
    BY <2>3
  <2>6. b => t = 1
    BY <2>1
  <2> QED
    BY <2>4, <2>5, <2>6
<1>3. pending \in [Logins -> Entry]
  BY <1>1, <1>2
<1>4. clock = 1 /\ seen.logins = 1 /\ \A h \in Handlers : req[h].login = 0
  BY DEF Init, Idle
<1> QED
  BY <1>2, <1>3, <1>4 DEF KnownInv

LEMMA KnownNext == CountInv /\ KnownInv /\ [Next]_vars => KnownInv'
<1> SUFFICES ASSUME CountInv, KnownInv, [Next]_vars PROVE KnownInv'
  OBVIOUS
<1>0. seen.logins \in Nat
  BY DEF CountInv, Room
<1>1. CASE OtherStep
  <2>1. clock' \in Nat
    BY <1>1
    DEF OtherStep, BeginPasskeyLogin, StartTOTPEnrollment, BeginPasskeyEnrollment, DeletePasskey,
        RevokeOtherDevices, Logout, Tick, Sweep, vars, KnownInv
  <2> QED
    BY <1>1, <2>1, OtherTouches DEF KnownInv
<1>2. ASSUME NEW h \in Handlers, HandlerStep(h) PROVE KnownInv'
  <2>1. /\ seen'.logins \in {seen.logins, seen.logins + 1}
        /\ \A g \in Handlers : g # h => req'[g] = req[g]
    BY <1>2, StepUses DEF Uses, Becomes
  <2>2. req'[h].login \in 0 .. seen'.logins
    <3>1. req[h].login \in 0 .. seen.logins
      BY DEF KnownInv
    <3>2. \A t \in Logins : Shown(t) => t \in 0 .. seen.logins
      BY SignInAssumption DEF KnownInv, Shown, Logins, SignInAssumption
    <3> QED
      BY <1>0, <1>2, <2>1, <3>1, <3>2, StepNames DEF Names
  <2> QED
    BY <1>0, <1>2, <2>1, <2>2, StepTouches, StepClock, SignInAssumption
    DEF KnownInv, Logins, SignInAssumption
<1> QED
  BY <1>1, <1>2, EveryStep

\* The history but for its counts of requests and faults, and what a step
\* may add to the mishaps.
Plain ==
  /\ seen'.logins = seen.logins /\ seen'.sessions = seen.sessions
  /\ seen'.secrets = seen.secrets /\ seen'.enrolled = seen.enrolled
  /\ seen'.issued = seen.issued /\ seen'.confirmed = seen.confirmed
  /\ seen'.spent = seen.spent /\ seen'.twice = seen.twice
  /\ seen'.totpSince = seen.totpSince /\ seen'.keysSince = seen.keysSince
  /\ seen'.cred = seen.cred /\ seen'.dropped = seen.dropped
  /\ seen.mishaps \subseteq seen'.mishaps

LEMMA Plainly ==
  ASSUME Fielded
  PROVE  /\ \A w : Fault(w) => Plain /\ w \subseteq seen'.mishaps
         /\ \A w : Note(w) => Plain /\ w \subseteq seen'.mishaps
         /\ \A on, a : LooksUp(on, a) => Plain /\ (on = a \/ "unread" \in seen'.mishaps)
         /\ UNCHANGED seen => Plain
         /\ Count => Plain
         /\ \A h, pc, l, c, o : Arrive(h, pc, l, c, o) => Plain
<1> USE DEF Fielded, Fields, Plain
<1>1. \A w : Fault(w) => Plain /\ w \subseteq seen'.mishaps
  BY DEF Fault
<1>2. \A w : Note(w) => Plain /\ w \subseteq seen'.mishaps
  BY DEF Note
<1>3. Count => Plain
  BY DEF Count
<1>4. \A h, pc, l, c, o : Arrive(h, pc, l, c, o) => Plain
  BY DEF Arrive
<1>5. UNCHANGED seen => Plain
  OBVIOUS
<1>6. ASSUME NEW on, NEW a, LooksUp(on, a) PROVE Plain /\ (on = a \/ "unread" \in seen'.mishaps)
  <2>1. (on = a /\ UNCHANGED seen) \/ Fault({"unread"})
    BY <1>6 DEF LooksUp
  <2> HIDE DEF Plain
  <2> QED
    BY <1>1, <1>5, <2>1
<1> QED
  BY <1>1, <1>2, <1>3, <1>4, <1>5, <1>6

LEMMA StepPlain ==
  ASSUME Fielded, NEW h \in Handlers, HandlerStep(h)
  PROVE  \/ Plain
         \/ CheckAdminPassword(h) \/ SetTOTPLastCounter(h) \/ WriteBackupCodes(h)
         \/ DropMailCode(h) \/ InsertSession(h) \/ ReadPending(h) \/ WriteTOTPKey(h)
         \/ DropSessions(h) \/ RegisterPasskey(h)
<1>1. CASE \/ LoginPost(h) \/ TOTPEnabled(h) \/ PasskeysEnabled(h) \/ LoginTOTPPost(h)
           \/ GetTOTPSecret(h) \/ NoSecret(h) \/ GetTOTPLastCounter(h) \/ ReadBackupCodes(h)
           \/ CompareMailCode(h) \/ Accept(h)
  BY <1>1, Plainly
  DEF LoginPost, TOTPEnabled, PasskeysEnabled, LoginTOTPPost, GetTOTPSecret, NoSecret,
      GetTOTPLastCounter, ReadBackupCodes, CompareMailCode, Accept
<1>2. CASE \/ LoginTOTPEmail(h) \/ KeepMailCode(h) \/ SendLoginCode(h)
           \/ FinishPasskeyLogin(h) \/ VerifyPasskey(h)
           \/ ForgetDevice(h) \/ RevokeLive(h)
  BY <1>2, Plainly
  DEF LoginTOTPEmail, KeepMailCode, SendLoginCode, FinishPasskeyLogin, VerifyPasskey,
      ForgetDevice, RevokeLive
<1>3. CASE \/ ConfirmTOTPEnrollment(h) \/ DisableTOTP(h) \/ ChangeCredentials(h)
           \/ SetCredentials(h) \/ TakeEnrollment(h) \/ RevokeDevice(h) \/ EndDevice(h)
  BY <1>3, Plainly
  DEF ConfirmTOTPEnrollment, DisableTOTP, ChangeCredentials, SetCredentials, TakeEnrollment,
      RevokeDevice, EndDevice, Admitted
<1> QED
  BY <1>1, <1>2, <1>3 DEF HandlerStep

LEMMA OtherPlain ==
  ASSUME Fielded, OtherStep
  PROVE  Plain \/ StartTOTPEnrollment
BY Plainly
DEF OtherStep, BeginPasskeyLogin, BeginPasskeyEnrollment, DeletePasskey, RevokeOtherDevices, Logout,
    Tick, Sweep, vars

\* The steps that add to the history more than that.
Rest ==
  /\ seen'.logins = seen.logins /\ seen'.sessions = seen.sessions /\ seen'.secrets = seen.secrets
  /\ seen'.cred = seen.cred /\ seen'.dropped = seen.dropped
  /\ seen.mishaps \subseteq seen'.mishaps
Spends(code) ==
  /\ Rest /\ seen'.enrolled = seen.enrolled /\ seen'.issued = seen.issued
  /\ seen'.confirmed = seen.confirmed
  /\ seen'.totpSince = seen.totpSince /\ seen'.keysSince = seen.keysSince
  /\ seen'.spent = seen.spent \cup {code}
  /\ seen'.twice = seen.twice \cup ({code} \cap seen.spent)
Enrolls(h) ==
  /\ Rest /\ seen'.issued = seen.issued /\ seen'.spent = seen.spent /\ seen'.twice = seen.twice
  /\ seen'.totpSince = seen.totpSince /\ seen'.keysSince = seen.keysSince
  /\ seen'.enrolled = seen.enrolled + 1
  /\ seen'.confirmed = seen.confirmed \cup {req[h].code[1]}
  /\ totp.pending = req[h].code[1] \/ "restarted" \in seen'.mishaps
Keeps(h) ==
  /\ Rest /\ seen'.spent = seen.spent /\ seen'.twice = seen.twice
  /\ seen'.enrolled = seen.enrolled /\ seen'.confirmed = seen.confirmed
  /\ seen'.keysSince = seen.keysSince
  /\ seen'.issued = seen.issued \cup IF At(h, "on2") THEN totp'.codes ELSE {}
  /\ seen'.totpSince = IF totp.secret = 0 /\ totp'.secret # 0 THEN seen.logins
                       ELSE seen.totpSince
  /\ Reopens(totp') => "reopened" \in seen'.mishaps
Registers ==
  /\ Rest /\ seen'.spent = seen.spent /\ seen'.twice = seen.twice
  /\ seen'.enrolled = seen.enrolled /\ seen'.issued = seen.issued
  /\ seen'.confirmed = seen.confirmed /\ seen'.totpSince = seen.totpSince
  /\ seen'.keysSince = IF keys THEN seen.keysSince ELSE seen.logins

LEMMA Spending ==
  ASSUME Fielded, NEW code
  PROVE  /\ seen' = Spent(code) => Spends(code) /\ seen'.mishaps = seen.mishaps
         /\ seen' = [Spent(code) EXCEPT !.faults = @ + 1, !.mishaps = @ \cup {"kept"}]
              => Spends(code) /\ "kept" \in seen'.mishaps
<1> USE DEF Fielded, Fields, Spends, Rest
<1>1. PICK a, b : a = seen.spent \cup {code} /\ b = seen.twice \cup ({code} \cap seen.spent)
  OBVIOUS
<1>2. Spent(code) = [seen EXCEPT !.spent = a, !.twice = b]
  BY <1>1 DEF Spent
<1>3. ASSUME seen' = Spent(code) PROVE Spends(code) /\ seen'.mishaps = seen.mishaps
  BY <1>1, <1>2, <1>3
<1>4. ASSUME seen' = [Spent(code) EXCEPT !.faults = @ + 1, !.mishaps = @ \cup {"kept"}]
      PROVE  Spends(code) /\ "kept" \in seen'.mishaps
  <2>1. PICK now : now = [seen EXCEPT !.spent = a, !.twice = b]
    OBVIOUS
  <2>2. DOMAIN now = DOMAIN seen /\ now.mishaps = seen.mishaps
    BY <2>1
  <2>3. PICK c, d : c = now.faults + 1 /\ d = now.mishaps \cup {"kept"}
    OBVIOUS
  <2>4. seen' = [now EXCEPT !.faults = c, !.mishaps = d]
    BY <1>2, <1>4, <2>1, <2>3
  <2> QED
    BY <1>1, <2>1, <2>2, <2>3, <2>4
<1> QED
  BY <1>3, <1>4

LEMMA Histories ==
  ASSUME Fielded, NEW h \in Handlers
  PROVE  /\ SetTOTPLastCounter(h) =>
              Plain \/ (Spends(req[h].code) /\ seen'.mishaps = seen.mishaps)
         /\ WriteBackupCodes(h) =>
              /\ Spends(BackupCode(req[h].code[2]))
              /\ \/ totp' = [totp EXCEPT !.codes = req[h].code[3]]
                 \/ totp' = totp /\ "kept" \in seen'.mishaps
         /\ DropMailCode(h) => Spends(req[h].code) /\ seen'.mishaps = seen.mishaps
         /\ ReadPending(h) => (Done(h) /\ UNCHANGED seen) \/ Enrolls(h)
         /\ WriteTOTPKey(h) => (Plain /\ totp' = totp) \/ (Keeps(h) /\ totp' = Written(h))
         /\ RegisterPasskey(h) => (Plain /\ keys' = keys) \/ (Registers /\ keys' = TRUE)
<1>1. SetTOTPLastCounter(h) => Plain \/ (Spends(req[h].code) /\ seen'.mishaps = seen.mishaps)
  BY Spending, Plainly DEF SetTOTPLastCounter
<1>2. WriteBackupCodes(h) =>
        /\ Spends(BackupCode(req[h].code[2]))
        /\ \/ totp' = [totp EXCEPT !.codes = req[h].code[3]]
           \/ totp' = totp /\ "kept" \in seen'.mishaps
  BY Spending DEF WriteBackupCodes
<1>3. DropMailCode(h) => Spends(req[h].code) /\ seen'.mishaps = seen.mishaps
  BY Spending DEF DropMailCode
<1>4. ReadPending(h) => (Done(h) /\ UNCHANGED seen) \/ Enrolls(h)
  <2>1. PICK x, y, z : /\ x = seen.enrolled + 1 /\ y = seen.confirmed \cup {req[h].code[1]}
                       /\ z = seen.mishaps \cup When(totp.pending # req[h].code[1], "restarted")
    OBVIOUS
  <2>2. \/ ~ReadPending(h) \/ (Done(h) /\ UNCHANGED seen)
        \/ seen' = [seen EXCEPT !.enrolled = x, !.confirmed = y, !.mishaps = z]
    BY <2>1 DEF ReadPending
  <2>3. seen' = [seen EXCEPT !.enrolled = x, !.confirmed = y, !.mishaps = z] => Enrolls(h)
    BY <2>1 DEF Fielded, Fields, Enrolls, Rest, When
  <2> QED
    BY <2>2, <2>3
<1>5. WriteTOTPKey(h) => (Plain /\ totp' = totp) \/ (Keeps(h) /\ totp' = Written(h))
  <2>1. PICK x, y, z :
           /\ x = seen.issued \cup IF At(h, "on2") THEN totp'.codes ELSE {}
           /\ y = IF totp.secret = 0 /\ totp'.secret # 0 THEN seen.logins ELSE seen.totpSince
           /\ z = seen.mishaps \cup When(Reopens(totp'), "reopened")
    OBVIOUS
  <2>2. \/ ~WriteTOTPKey(h) \/ (Fault({}) /\ UNCHANGED totp)
        \/ /\ seen' = [seen EXCEPT !.issued = x, !.totpSince = y, !.mishaps = z]
           /\ totp' = Written(h)
    BY <2>1 DEF WriteTOTPKey
  <2>3. seen' = [seen EXCEPT !.issued = x, !.totpSince = y, !.mishaps = z] => Keeps(h)
    BY <2>1 DEF Fielded, Fields, Keeps, Rest, When
  <2> QED
    BY <2>2, <2>3, Plainly
<1>6. RegisterPasskey(h) => (Plain /\ keys' = keys) \/ (Registers /\ keys' = TRUE)
  <2>1. PICK y : y = IF keys THEN seen.keysSince ELSE seen.logins
    OBVIOUS
  <2>2. \/ ~RegisterPasskey(h) \/ (Fault({}) /\ UNCHANGED keys)
        \/ seen' = [seen EXCEPT !.keysSince = y] /\ keys' = TRUE
    BY <2>1 DEF RegisterPasskey
  <2>3. seen' = [seen EXCEPT !.keysSince = y] => Registers
    BY <2>1 DEF Fielded, Fields, Registers, Rest
  <2> QED
    BY <2>2, <2>3, Plainly
<1> QED
  BY <1>1, <1>2, <1>3, <1>4, <1>5, <1>6

\* Where the rows come from: a row keeps its number and its login.
From(s, r) == s.n = r.n /\ s.login = r.login /\ s.unasked = r.unasked
Unique == \A s, t \in rows : s.n = t.n => s = t
RowsKept == /\ \A s \in rows' : \E r \in rows : From(s, r)
            /\ Unique => Unique'

LEMMA RevokedFrom ==
  ASSUME SessionInv, NEW set \in SUBSET rows
  PROVE  \A s \in Revoked(set) :
           \E r \in set : From(s, r) /\ s = [r EXCEPT !.state = "revoked"]
<1> SUFFICES ASSUME NEW s \in Revoked(set)
             PROVE  \E r \in set : From(s, r) /\ s = [r EXCEPT !.state = "revoked"]
  OBVIOUS
<1>1. PICK r \in set : s = [r EXCEPT !.state = "revoked"]
  BY DEF Revoked
<1>2. Row(r)
  BY DEF SessionInv, Numbered
<1>3. s = [n |-> r.n, login |-> r.login, state |-> "revoked",
           device |-> r.device, after |-> r.after, unasked |-> r.unasked]
  BY <1>1, <1>2 DEF Row
<1> QED
  BY <1>1, <1>3 DEF From

LEMMA FewerRows ==
  ASSUME SessionInv, NEW gone \in SUBSET rows, NEW set \in SUBSET rows, set \subseteq gone,
         rows' = (rows \ gone) \cup Revoked(set)
  PROVE  RowsKept
<1>1. \A s \in Revoked(set) : \E r \in set : From(s, r) /\ s = [r EXCEPT !.state = "revoked"]
  BY RevokedFrom
<1>2. \A s \in rows' : \E r \in rows : From(s, r)
  BY <1>1 DEF From
<1>3. ASSUME Unique, NEW s \in rows', NEW t \in rows', s.n = t.n PROVE s = t
  <2>1. CASE s \in rows \ gone /\ t \in rows \ gone
    BY <1>3, <2>1 DEF Unique
  <2>2. CASE s \in Revoked(set) /\ t \in Revoked(set)
    <3>1. PICK r \in set : From(s, r) /\ s = [r EXCEPT !.state = "revoked"]
      BY <1>1, <2>2
    <3>2. PICK q \in set : From(t, q) /\ t = [q EXCEPT !.state = "revoked"]
      BY <1>1, <2>2
    <3>3. r = q
      BY <1>3, <3>1, <3>2 DEF Unique, From
    <3> QED
      BY <3>1, <3>2, <3>3
  <2>3. CASE s \in rows \ gone /\ t \in Revoked(set)
    BY <1>1, <1>3, <2>3 DEF Unique, From
  <2>4. CASE t \in rows \ gone /\ s \in Revoked(set)
    BY <1>1, <1>3, <2>4 DEF Unique, From
  <2> QED
    BY <2>1, <2>2, <2>3, <2>4
<1> QED
  BY <1>2, <1>3 DEF RowsKept, Unique

LEMMA SameRows == rows' = rows => RowsKept
BY DEF RowsKept, From, Unique

LEMMA StepRows ==
  ASSUME SessionInv, NEW h \in Handlers, HandlerStep(h)
  PROVE  \/ RowsKept
         \/ /\ InsertSession(h) /\ seen' = [seen EXCEPT !.sessions = @ + 1]
            /\ \E b : /\ rows' = rows \cup {b} /\ b.n = seen.sessions + 1
                      /\ b.login = req[h].login /\ b.unasked = req[h].code.unasked
<1>0. {} \in SUBSET rows /\ rows \in SUBSET rows
  OBVIOUS
<1>1. CASE ForgetDevice(h)
  <2>1. CASE \E d \in Devices : rows' = {s \in rows : s.device # d}
    <3>1. PICK d \in Devices : rows' = {s \in rows : s.device # d}
      BY <2>1
    <3>2. PICK its \in SUBSET rows : its = {s \in rows : s.device = d}
      OBVIOUS
    <3>3. rows' = (rows \ its) \cup Revoked({})
      BY <3>1, <3>2, NoneRevoked
    <3> QED
      BY <1>0, <3>3, FewerRows
  <2> QED
    BY <1>1, <2>1, SameRows DEF ForgetDevice
<1>2. CASE RevokeLive(h)
  <2>1. CASE rows' = Revoked(rows)
    <3>1. rows' = (rows \ rows) \cup Revoked(rows)
      BY <2>1
    <3> QED
      BY <1>0, <3>1, FewerRows
  <2> QED
    BY <1>2, <2>1, SameRows DEF RevokeLive
<1>3. CASE DropSessions(h)
  <2>1. CASE rows' = {}
    <3>1. rows' = (rows \ rows) \cup Revoked({})
      BY <2>1, NoneRevoked
    <3> QED
      BY <1>0, <3>1, FewerRows
  <2> QED
    BY <1>3, <2>1, SameRows DEF DropSessions
<1>4. CASE EndDevice(h)
  <2>1. PICK its \in SUBSET rows : its = {s \in rows : s.n = req[h].code[1]}
    OBVIOUS
  <2>2. \/ rows' = (rows \ its) \cup Revoked(its)
        \/ rows' = (rows \ its) \cup Revoked({})
    BY <1>4, <2>1, NoneRevoked DEF EndDevice
  <2> QED
    BY <1>0, <2>2, FewerRows
<1>5. CASE InsertSession(h)
  <2>1. CASE /\ rows' = rows \cup
                  {[n |-> seen.sessions + 1, login |-> req[h].login, state |-> "live",
                    device |-> req[h].code.device, after |-> req[h].code.after,
                    unasked |-> req[h].code.unasked]}
             /\ seen' = [seen EXCEPT !.sessions = @ + 1]
    <3>1. PICK b : b = [n |-> seen.sessions + 1, login |-> req[h].login, state |-> "live",
                        device |-> req[h].code.device, after |-> req[h].code.after,
                        unasked |-> req[h].code.unasked]
      OBVIOUS
    <3>2. b.n = seen.sessions + 1 /\ b.login = req[h].login /\ b.unasked = req[h].code.unasked
      BY <3>1
    <3>3. rows' = rows \cup {b}
      BY <2>1, <3>1
    <3> QED
      BY <1>5, <2>1, <3>2, <3>3
  <2> QED
    BY <1>5, <2>1, SameRows DEF InsertSession
<1> QED
  <2>1. \/ rows' = rows \/ ForgetDevice(h) \/ RevokeLive(h) \/ InsertSession(h)
        \/ DropSessions(h) \/ EndDevice(h)
    BY DEF HandlerStep, store, LoginPost, CheckAdminPassword, TOTPEnabled, PasskeysEnabled,
           LoginTOTPPost, GetTOTPSecret, NoSecret, GetTOTPLastCounter, SetTOTPLastCounter,
           ReadBackupCodes, WriteBackupCodes, CompareMailCode, DropMailCode, Accept,
           LoginTOTPEmail, KeepMailCode, SendLoginCode, FinishPasskeyLogin, VerifyPasskey,
           ConfirmTOTPEnrollment, ReadPending, DisableTOTP, WriteTOTPKey, ChangeCredentials,
           SetCredentials, TakeEnrollment, RegisterPasskey, RevokeDevice
  <2> QED
    BY <1>1, <1>2, <1>3, <1>4, <1>5, <2>1, SameRows

LEMMA OtherRows ==
  ASSUME SessionInv, OtherStep
  PROVE  RowsKept
<1>1. CASE RevokeOtherDevices
  <2>1. PICK s \in Live : rows' = {s} \cup Revoked(rows \ {s})
    BY <1>1 DEF RevokeOtherDevices
  <2>2. PICK its \in SUBSET rows : its = rows \ {s}
    OBVIOUS
  <2>3. rows' = (rows \ its) \cup Revoked(its)
    BY <2>1, <2>2 DEF Live
  <2> QED
    BY <2>3, FewerRows
<1>2. CASE Logout
  <2>1. PICK s \in Live : rows' = rows \ {s}
    BY <1>2 DEF Logout
  <2>2. PICK its \in SUBSET rows : its = {s}
    BY DEF Live
  <2>3. rows' = (rows \ its) \cup Revoked({}) /\ {} \in SUBSET rows
    BY <2>1, <2>2, NoneRevoked
  <2> QED
    BY <2>3, FewerRows
<1>3. CASE ~RevokeOtherDevices /\ ~Logout
  <2>1. rows' = rows
    BY <1>3
    DEF OtherStep, BeginPasskeyLogin, StartTOTPEnrollment, BeginPasskeyEnrollment, DeletePasskey,
        Tick, Sweep, vars, store
  <2> QED
    BY <2>1, SameRows
<1> QED
  BY <1>1, <1>2, <1>3

-----------------------------------------------------------------------------
(* What an old password still opens.                                       *)

\* The sessions were not deleted, or are about to be.
Excused == "undropped" \in seen.mishaps \/ \E h \in Handlers : At(h, "drop")

PasswordInv ==
  /\ DOMAIN seen.cred = {0} \cup Logins
  /\ seen.dropped.login \in Int /\ seen.dropped.login <= seen.logins
  /\ seen.dropped.session \in Int /\ seen.dropped.session <= seen.sessions
  /\ \A l \in 0 .. seen.logins : seen.cred[l] = cred \/ l <= seen.dropped.login \/ Excused
  /\ \A s \in rows : s.login \in 0 .. seen.logins /\ s.n > seen.dropped.session

LEMMA PasswordSuffices == PasswordInv => OldPasswordEnds
BY DEF PasswordInv, OldPasswordEnds, Live, Excused

LEMMA PasswordInit == Init => PasswordInv
<1> SUFFICES ASSUME Init PROVE PasswordInv
  OBVIOUS
<1>1. PICK d \in Devices : rows = {[n |-> 0, login |-> 0, state |-> "live",
                                    device |-> d, after |-> 0, unasked |-> {}]}
  BY DEF Init
<1>2. /\ seen.cred = [l \in {0} \cup Logins |-> 1] /\ seen.logins = 1 /\ seen.sessions = 0
      /\ seen.dropped = [session |-> -1, login |-> -1] /\ cred = 1
  BY DEF Init
<1> QED
  BY <1>1, <1>2, SignInAssumption DEF PasswordInv, Logins, SignInAssumption

\* Whoever is about to delete the sessions stays so until it has tried to.
LEMMA StepExcuses ==
  ASSUME CountInv, NEW h \in Handlers, HandlerStep(h), Excused,
         seen.mishaps \subseteq seen'.mishaps
  PROVE  Excused' \/ DropSessions(h)
<1>1. CASE At(h, "drop")
  <2> USE <1>1 DEF At
  <2>1. req[h] # Idle
    BY DEF Idle
  <2>2. \A what, pc, l, c, o : ~Arrive(h, pc, l, c, o) /\ ~Admitted(h, what, pc, c)
    BY <2>1 DEF Arrive, Admitted
  <2>3. ~(\/ LoginPost(h) \/ LoginTOTPPost(h) \/ LoginTOTPEmail(h) \/ FinishPasskeyLogin(h)
          \/ ConfirmTOTPEnrollment(h) \/ DisableTOTP(h) \/ ChangeCredentials(h)
          \/ TakeEnrollment(h) \/ RevokeDevice(h))
    BY <2>2
    DEF LoginPost, LoginTOTPPost, LoginTOTPEmail, FinishPasskeyLogin, ConfirmTOTPEnrollment,
        DisableTOTP, ChangeCredentials, TakeEnrollment, RevokeDevice
  <2>4. ~(\/ CheckAdminPassword(h) \/ TOTPEnabled(h) \/ PasskeysEnabled(h) \/ GetTOTPSecret(h)
          \/ NoSecret(h) \/ GetTOTPLastCounter(h) \/ SetTOTPLastCounter(h) \/ ReadBackupCodes(h)
          \/ WriteBackupCodes(h) \/ CompareMailCode(h) \/ DropMailCode(h) \/ Accept(h))
    BY DEF CheckAdminPassword, TOTPEnabled, PasskeysEnabled, GetTOTPSecret, NoSecret,
           GetTOTPLastCounter, SetTOTPLastCounter, ReadBackupCodes, WriteBackupCodes,
           CompareMailCode, DropMailCode, Accept
  <2>5. ~(\/ KeepMailCode(h) \/ SendLoginCode(h) \/ VerifyPasskey(h) \/ ForgetDevice(h)
          \/ RevokeLive(h)
          \/ InsertSession(h) \/ ReadPending(h) \/ WriteTOTPKey(h) \/ SetCredentials(h)
          \/ RegisterPasskey(h) \/ EndDevice(h))
    BY DEF KeepMailCode, SendLoginCode, VerifyPasskey, ForgetDevice, RevokeLive, InsertSession,
           ReadPending, WriteTOTPKey, After, SetCredentials, RegisterPasskey, EndDevice
  <2> QED
    BY <2>3, <2>4, <2>5 DEF HandlerStep
<1>2. CASE ~At(h, "drop")
  <2>1. \A g \in Handlers : g # h => req'[g] = req[g]
    BY StepUses DEF Uses, Becomes
  <2> QED
    BY <1>2, <2>1 DEF Excused, At
<1> QED
  BY <1>1, <1>2

\* There is room for the login of a password that is being checked.
LEMMA LoginFits ==
  ASSUME CountInv, NEW h \in Handlers, At(h, "password")
  PROVE  seen.logins + 1 \in Logins
<1>1. h \in Waiting("password")
  BY DEF Waiting
<1>2. PICK S : S = Waiting("password")
  OBVIOUS
<1>3. IsFiniteSet(S) /\ S # {}
  BY <1>1, <1>2 DEF CountInv, Room
<1>4. Cardinality(S) \in Nat /\ Cardinality(S) # 0
  BY <1>3, FS_CardinalityType, FS_EmptySet
<1> QED
  BY <1>2, <1>4, SignInAssumption DEF CountInv, Room, Logins, SignInAssumption

LEMMA PasswordStep ==
  ASSUME SessionInv, CountInv, KnownInv, PasswordInv, NEW h \in Handlers, HandlerStep(h)
  PROVE  PasswordInv'
<1>0. /\ seen.logins \in Nat /\ seen.sessions \in Nat /\ cred \in Nat
      /\ req[h].login \in 0 .. seen.logins
  BY DEF SessionInv, Numbered, CountInv, Room, KnownInv
<1>1. ASSUME Plain, cred' = cred, RowsKept PROVE PasswordInv'
  <2>1. Excused => Excused' \/ DropSessions(h)
    BY <1>1, StepExcuses DEF Plain
  <2>2. CASE ~DropSessions(h)
    BY <1>0, <1>1, <2>1, <2>2 DEF PasswordInv, Plain, RowsKept, From
  <2>3. CASE DropSessions(h)
    <3>1. Fault({"undropped"}) => Excused'
      BY Plainly DEF Excused, CountInv
    <3>2. Fault({"undropped"}) \/ seen'.dropped.login = seen.logins
      BY <2>3 DEF DropSessions, CountInv, Fielded, Fields
    <3> QED
      BY <1>0, <1>1, <3>1, <3>2 DEF PasswordInv, Plain, RowsKept, From
  <2> QED
    BY <2>2, <2>3
<1>2. CASE CheckAdminPassword(h)
  <2>1. rows' = rows /\ cred' = cred
    BY <1>2 DEF CheckAdminPassword, store
  <2>2. CASE UNCHANGED seen \/ Fault({})
    BY <1>1, <2>1, <2>2, Plainly, SameRows DEF CountInv
  <2>3. CASE seen' = [seen EXCEPT !.logins = @ + 1, !.cred = [@ EXCEPT ![seen.logins + 1] = cred]]
    <3>1. /\ seen'.logins = seen.logins + 1 /\ seen'.sessions = seen.sessions
          /\ seen'.dropped = seen.dropped /\ seen'.mishaps = seen.mishaps
          /\ seen'.cred = [seen.cred EXCEPT ![seen.logins + 1] = cred]
      BY <2>3 DEF CountInv, Fielded, Fields
    <3>2. seen.logins + 1 \in Logins
      BY <1>2, LoginFits DEF CheckAdminPassword
    <3>3. Excused => Excused'
      BY <1>2, <3>1, StepExcuses DEF CheckAdminPassword, DropSessions, At
    <3> QED
      BY <1>0, <2>1, <3>1, <3>2, <3>3 DEF PasswordInv
  <2> QED
    BY <1>2, <2>2, <2>3 DEF CheckAdminPassword
<1>3. CASE InsertSession(h)
  <2>1. cred' = cred
    BY <1>3 DEF InsertSession
  <2>2. CASE Plain /\ RowsKept
    BY <1>1, <2>1, <2>2
  <2>3. CASE /\ seen' = [seen EXCEPT !.sessions = @ + 1]
             /\ \E b : /\ rows' = rows \cup {b} /\ b.n = seen.sessions + 1
                       /\ b.login = req[h].login /\ b.unasked = req[h].code.unasked
    <3>1. /\ seen'.logins = seen.logins /\ seen'.sessions = seen.sessions + 1
          /\ seen'.dropped = seen.dropped /\ seen'.mishaps = seen.mishaps /\ seen'.cred = seen.cred
      BY <2>3 DEF CountInv, Fielded, Fields
    <3>2. Excused => Excused'
      BY <1>3, <3>1, StepExcuses DEF InsertSession, DropSessions, At
    <3> QED
      BY <1>0, <2>1, <2>3, <3>1, <3>2 DEF PasswordInv
  <2>4. CASE Fault({}) /\ UNCHANGED rows
    BY <2>2, <2>4, Plainly, SameRows DEF CountInv
  <2> QED
    BY <1>3, <2>2, <2>3, <2>4, StepRows DEF InsertSession
<1>4. CASE SetCredentials(h)
  <2>1. Plain /\ RowsKept
    BY <1>4, Plainly, SameRows DEF SetCredentials, CountInv
  <2>2. CASE cred' = cred
    BY <1>1, <2>1, <2>2
  <2>3. CASE Goes(h, "drop")
    <3>1. Excused'
      BY <2>3 DEF Excused, Goes, Becomes, At
    <3> QED
      BY <1>0, <2>1, <3>1 DEF PasswordInv, Plain, RowsKept, From
  <2> QED
    BY <1>4, <2>2, <2>3, SettingLands
<1>5. CASE DropSessions(h)
  <2>1. cred' = cred
    BY <1>5 DEF DropSessions
  <2>2. CASE Fault({"undropped"}) /\ UNCHANGED rows
    BY <1>1, <2>1, <2>2, Plainly, SameRows DEF CountInv
  <2>3. CASE rows' = {} /\ seen' = [seen EXCEPT !.dropped = [session |-> seen.sessions,
                                                              login |-> seen.logins]]
    <3>1. /\ seen'.logins = seen.logins /\ seen'.sessions = seen.sessions
          /\ seen'.dropped = [session |-> seen.sessions, login |-> seen.logins]
          /\ seen'.cred = seen.cred
      BY <2>3 DEF CountInv, Fielded, Fields
    <3>2. seen'.dropped.login = seen.logins /\ seen'.dropped.session = seen.sessions
      BY <3>1
    <3> QED
      BY <1>0, <2>3, <3>1, <3>2 DEF PasswordInv
  <2> QED
    BY <1>5, <2>2, <2>3 DEF DropSessions
<1>6. CASE SetTOTPLastCounter(h) \/ WriteBackupCodes(h) \/ DropMailCode(h) \/ ReadPending(h)
           \/ WriteTOTPKey(h) \/ RegisterPasskey(h)
  <2>1. rows' = rows /\ cred' = cred
    BY <1>6
    DEF SetTOTPLastCounter, WriteBackupCodes, DropMailCode, ReadPending, WriteTOTPKey,
        RegisterPasskey, store
  <2>2. /\ seen'.logins = seen.logins /\ seen'.sessions = seen.sessions
        /\ seen'.dropped = seen.dropped /\ seen'.cred = seen.cred
        /\ seen.mishaps \subseteq seen'.mishaps
    BY <1>6, Histories DEF Plain, Rest, Spends, Enrolls, Keeps, Registers, CountInv
  <2>3. Excused => Excused' \/ DropSessions(h)
    BY <2>2, StepExcuses
  <2>4. ~DropSessions(h)
    BY <1>6
    DEF DropSessions, SetTOTPLastCounter, WriteBackupCodes, DropMailCode, ReadPending,
        WriteTOTPKey, After, RegisterPasskey, At
  <2> QED
    BY <1>0, <2>1, <2>2, <2>3, <2>4 DEF PasswordInv
<1>7. CASE /\ Plain /\ ~CheckAdminPassword(h) /\ ~InsertSession(h) /\ ~SetCredentials(h)
  <2>1. RowsKept
    BY <1>7, StepRows
  <2>2. cred' = cred
    BY <1>7
    DEF HandlerStep, store, LoginPost, TOTPEnabled, PasskeysEnabled, LoginTOTPPost, GetTOTPSecret,
        NoSecret, GetTOTPLastCounter, SetTOTPLastCounter, ReadBackupCodes, WriteBackupCodes,
        CompareMailCode, DropMailCode, Accept, LoginTOTPEmail, KeepMailCode, SendLoginCode,
        FinishPasskeyLogin, VerifyPasskey, ForgetDevice, RevokeLive, ConfirmTOTPEnrollment,
        ReadPending, DisableTOTP, WriteTOTPKey, ChangeCredentials, DropSessions,
        TakeEnrollment, RegisterPasskey, RevokeDevice, EndDevice
  <2> QED
    BY <1>1, <1>7, <2>1, <2>2
<1> QED
  BY <1>2, <1>3, <1>4, <1>5, <1>6, <1>7, StepPlain DEF CountInv

LEMMA PasswordOther ==
  ASSUME SessionInv, CountInv, PasswordInv, OtherStep
  PROVE  PasswordInv'
<1>1. req' = req /\ cred' = cred
  BY DEF OtherStep, BeginPasskeyLogin, StartTOTPEnrollment, BeginPasskeyEnrollment, DeletePasskey,
         RevokeOtherDevices, Logout, Tick, Sweep, vars, store
<1>2. /\ seen'.logins = seen.logins /\ seen'.sessions = seen.sessions
      /\ seen'.dropped = seen.dropped /\ seen'.cred = seen.cred
      /\ seen.mishaps \subseteq seen'.mishaps
  <2>1. CASE StartTOTPEnrollment
    BY <2>1 DEF StartTOTPEnrollment, CountInv, Fielded, Fields
  <2>2. CASE Plain
    BY <2>2 DEF Plain
  <2> QED
    BY <2>1, <2>2, OtherPlain DEF CountInv
<1>3. Excused => Excused'
  BY <1>1, <1>2 DEF Excused, At
<1>4. RowsKept
  BY OtherRows
<1> QED
  BY <1>1, <1>2, <1>3, <1>4 DEF PasswordInv, RowsKept, From

-----------------------------------------------------------------------------
(* The factors a login is asked for.                                       *)

Unread == "unread" \in seen.mishaps
AskedTotp(h) == totp.secret = 0 \/ seen.totpSince >= req[h].login \/ Unread
AskedKey(h) == ~keys \/ seen.keysSince >= req[h].login \/ Unread

\* A login that goes on without a factor was not to be asked for it, whatever
\* was enabled since its password passed.
Asked(h) ==
  /\ req[h].pc \in {"passkeys", "orpasskeys", "unproven"} => AskedTotp(h)
  /\ At(h, "unproven") => AskedKey(h)
  /\ req[h].pc \in {"forget", "revoke", "insert"} => req[h].code.unasked = {} \/ Unread
Confirmed(h) == At(h, "on1") => \/ req[h].code[1] \in seen.confirmed
                                \/ "restarted" \in seen.mishaps

FactorInv ==
  /\ seen.totpSince \in Int /\ seen.keysSince \in Int
  /\ \A h \in Handlers : Asked(h) /\ Confirmed(h)
  /\ FactorsAreAsked /\ SecretWasConfirmed

LEMMA FactorInit == Init => FactorInv
<1> SUFFICES ASSUME Init PROVE FactorInv
  OBVIOUS
<1>1. PICK d \in Devices : rows = {[n |-> 0, login |-> 0, state |-> "live",
                                    device |-> d, after |-> 0, unasked |-> {}]}
  BY DEF Init
<1>2. FactorsAreAsked
  BY <1>1 DEF FactorsAreAsked
<1>3. /\ seen.confirmed = {1} /\ seen.totpSince = -1 /\ seen.keysSince = -1
      /\ \A h \in Handlers : req[h].pc = "idle"
  BY DEF Init, Idle
<1>4. totp.secret \in {0, 1}
  BY DEF Init
<1> QED
  BY <1>2, <1>3, <1>4 DEF FactorInv, Asked, Confirmed, SecretWasConfirmed, At

\* What every step does to the factors and to the history of them.
FactorsMove ==
  /\ seen.mishaps \subseteq seen'.mishaps /\ seen.confirmed \subseteq seen'.confirmed
  /\ seen'.totpSince \in {seen.totpSince, seen.logins}
  /\ seen'.keysSince \in {seen.keysSince, seen.logins}
  /\ \/ totp'.secret = 0 \/ seen'.totpSince = seen.logins
     \/ totp.secret # 0 /\ seen'.totpSince = seen.totpSince
  /\ ~keys' \/ seen'.keysSince = seen.logins \/ (keys /\ seen'.keysSince = seen.keysSince)

\* The authenticator's secret is written by EnableTOTP and DisableTOTP only.
LEMMA SecretWritten ==
  ASSUME Fielded, NEW h \in Handlers, HandlerStep(h)
  PROVE  \/ totp'.secret = totp.secret
         \/ WriteTOTPKey(h) /\ \/ At(h, "on1") /\ totp'.secret = req[h].code[1]
                               \/ At(h, "off1") /\ totp'.secret = 0
<1>1. CASE SetTOTPLastCounter(h) \/ WriteBackupCodes(h)
  BY <1>1 DEF SetTOTPLastCounter, WriteBackupCodes, Fielded
<1>2. CASE WriteTOTPKey(h)
  BY <1>2 DEF WriteTOTPKey, Written, Fielded, At
<1>3. CASE ~SetTOTPLastCounter(h) /\ ~WriteBackupCodes(h) /\ ~WriteTOTPKey(h)
  BY <1>3
  DEF HandlerStep, store, LoginPost, CheckAdminPassword, TOTPEnabled, PasskeysEnabled,
      LoginTOTPPost, GetTOTPSecret, NoSecret, GetTOTPLastCounter, ReadBackupCodes,
      CompareMailCode, DropMailCode, Accept, LoginTOTPEmail, KeepMailCode, SendLoginCode,
      FinishPasskeyLogin, VerifyPasskey, ForgetDevice, RevokeLive, InsertSession,
      ConfirmTOTPEnrollment, ReadPending, DisableTOTP, ChangeCredentials, SetCredentials,
      DropSessions, TakeEnrollment, RegisterPasskey, RevokeDevice, EndDevice
<1> QED
  BY <1>1, <1>2, <1>3

LEMMA StepFactors ==
  ASSUME CountInv, NEW h \in Handlers, HandlerStep(h)
  PROVE  FactorsMove
<1>0. Fielded
  BY DEF CountInv
<1>1. RegisterPasskey(h) \/ keys' = keys
  BY DEF HandlerStep, store, LoginPost, CheckAdminPassword, TOTPEnabled, PasskeysEnabled,
         LoginTOTPPost, GetTOTPSecret, NoSecret, GetTOTPLastCounter, SetTOTPLastCounter,
         ReadBackupCodes, WriteBackupCodes, CompareMailCode, DropMailCode, Accept,
         LoginTOTPEmail, KeepMailCode, SendLoginCode, FinishPasskeyLogin, VerifyPasskey,
         ForgetDevice, RevokeLive, InsertSession, ConfirmTOTPEnrollment, ReadPending,
         DisableTOTP, WriteTOTPKey, ChangeCredentials, SetCredentials, DropSessions,
         TakeEnrollment, RevokeDevice, EndDevice
<1>2. CASE WriteTOTPKey(h)
  <2>1. keys' = keys
    BY <1>2 DEF WriteTOTPKey
  <2> QED
    BY <1>0, <1>2, <2>1, Histories DEF FactorsMove, Keeps, Plain, Rest
<1>3. CASE RegisterPasskey(h)
  <2>1. totp' = totp
    BY <1>3 DEF RegisterPasskey
  <2> QED
    BY <1>0, <1>3, <2>1, Histories DEF FactorsMove, Registers, Plain, Rest
<1>4. ASSUME seen.mishaps \subseteq seen'.mishaps, seen.confirmed \subseteq seen'.confirmed,
             seen'.totpSince = seen.totpSince, seen'.keysSince = seen.keysSince,
             ~WriteTOTPKey(h), ~RegisterPasskey(h)
      PROVE  FactorsMove
  BY <1>0, <1>1, <1>4, SecretWritten DEF FactorsMove
<1>5. CASE CheckAdminPassword(h) \/ InsertSession(h) \/ DropSessions(h)
  <2>1. /\ ~WriteTOTPKey(h) /\ ~RegisterPasskey(h)
    BY <1>5 DEF CheckAdminPassword, InsertSession, DropSessions, WriteTOTPKey, RegisterPasskey, At, After
  <2>2. /\ seen.mishaps \subseteq seen'.mishaps /\ seen.confirmed \subseteq seen'.confirmed
        /\ seen'.totpSince = seen.totpSince /\ seen'.keysSince = seen.keysSince
    BY <1>0, <1>5, Plainly
    DEF CheckAdminPassword, InsertSession, DropSessions, Plain, Fielded, Fields
  <2> QED
    BY <1>4, <2>1, <2>2
<1>6. CASE SetTOTPLastCounter(h) \/ WriteBackupCodes(h) \/ DropMailCode(h) \/ ReadPending(h)
  <2>1. /\ ~WriteTOTPKey(h) /\ ~RegisterPasskey(h)
    BY <1>6 DEF SetTOTPLastCounter, WriteBackupCodes, DropMailCode, ReadPending, WriteTOTPKey,
                RegisterPasskey, At, After
  <2>2. /\ seen.mishaps \subseteq seen'.mishaps /\ seen.confirmed \subseteq seen'.confirmed
        /\ seen'.totpSince = seen.totpSince /\ seen'.keysSince = seen.keysSince
    BY <1>0, <1>6, Histories DEF Plain, Spends, Enrolls, Rest
  <2> QED
    BY <1>4, <2>1, <2>2
<1>7. CASE Plain /\ ~WriteTOTPKey(h) /\ ~RegisterPasskey(h)
  BY <1>4, <1>7 DEF Plain
<1> QED
  BY <1>0, <1>2, <1>3, <1>5, <1>6, <1>7, StepPlain

LEMMA OtherFactors ==
  ASSUME CountInv, OtherStep
  PROVE  FactorsMove /\ totp'.secret = totp.secret /\ req' = req
<1>1. req' = req /\ totp'.secret = totp.secret /\ (keys' = keys \/ ~keys')
  BY DEF OtherStep, BeginPasskeyLogin, StartTOTPEnrollment, BeginPasskeyEnrollment, DeletePasskey,
         RevokeOtherDevices, Logout, Tick, Sweep, vars, store, CountInv, Fielded
<1>2. CASE StartTOTPEnrollment
  BY <1>1, <1>2 DEF StartTOTPEnrollment, CountInv, Fielded, Fields, FactorsMove
<1>3. CASE Plain
  BY <1>1, <1>3 DEF Plain, FactorsMove
<1> QED
  BY <1>1, <1>2, <1>3, OtherPlain DEF CountInv

\* Steps that take a request to none of the places FactorInv speaks of.
LEMMA FactorLands ==
  ASSUME CountInv, NEW h \in Handlers, HandlerStep(h)
  PROVE  \/ req'[h].pc \notin {"passkeys", "orpasskeys", "unproven", "forget", "revoke", "insert", "on1"}
         \/ TOTPEnabled(h) \/ PasskeysEnabled(h) \/ GetTOTPSecret(h) \/ NoSecret(h) \/ Accept(h)
         \/ ForgetDevice(h) \/ RevokeLive(h) \/ ReadPending(h)
<1> USE DEF Becomes, Ends, Goes
<1>1. CASE LoginPost(h) \/ CheckAdminPassword(h)
  BY <1>1, LoginLands
<1>2. CASE LoginTOTPPost(h)
  BY <1>2, CodeLands
<1>3. CASE GetTOTPLastCounter(h) \/ SetTOTPLastCounter(h) \/ CompareMailCode(h) \/ DropMailCode(h)
  BY <1>3, CodeLands
<1>4. CASE ReadBackupCodes(h) \/ WriteBackupCodes(h)
  BY <1>4, BackupLands DEF AfterCodes
<1>5. CASE LoginTOTPEmail(h) \/ KeepMailCode(h) \/ SendLoginCode(h)
        \/ FinishPasskeyLogin(h) \/ VerifyPasskey(h)
           \/ InsertSession(h)
  BY <1>5, SessionLands
<1>6. CASE WriteTOTPKey(h)
  <2>1. After[req[h].pc] \in {"on2", "on3", "on4", "idle", "off2", "off3", "off4"}
    BY <1>6 DEF WriteTOTPKey, After
  <2>2. Ends(h) \/ Goes(h, After[req[h].pc])
    BY <1>6, SettingLands
  <2> QED
    BY <2>1, <2>2
<1>7. CASE \/ ConfirmTOTPEnrollment(h) \/ DisableTOTP(h)
           \/ ChangeCredentials(h) \/ SetCredentials(h)
           \/ DropSessions(h) \/ TakeEnrollment(h) \/ RegisterPasskey(h)
           \/ RevokeDevice(h) \/ EndDevice(h)
  BY <1>7, SettingLands
<1> QED
  BY <1>1, <1>2, <1>3, <1>4, <1>5, <1>6, <1>7 DEF HandlerStep

LEMMA StillAsked ==
  ASSUME KnownInv, FactorInv, FactorsMove, seen.logins \in Nat, NEW g \in Handlers,
         req'[g].login = req[g].login
  PROVE  /\ AskedTotp(g) => AskedTotp(g)'
         /\ AskedKey(g) => AskedKey(g)'
         /\ Unread => Unread'
         /\ req'[g] = req[g] => Asked(g)' /\ Confirmed(g)'
<1>1. req[g].login \in Nat /\ req[g].login <= seen.logins
  BY DEF KnownInv
<1>2. Unread => Unread'
  BY DEF Unread, FactorsMove
<1>3. AskedTotp(g) => AskedTotp(g)'
  BY <1>1, <1>2 DEF AskedTotp, FactorsMove, FactorInv
<1>4. AskedKey(g) => AskedKey(g)'
  BY <1>1, <1>2 DEF AskedKey, FactorsMove, FactorInv
<1>5. ASSUME req'[g] = req[g] PROVE Asked(g)' /\ Confirmed(g)'
  BY <1>2, <1>3, <1>4, <1>5 DEF FactorInv, Asked, Confirmed, At, FactorsMove
<1> QED
  BY <1>2, <1>3, <1>4, <1>5

\* A login that was to be asked for nothing is asked for all that is in place.
LEMMA NothingInPlace ==
  ASSUME FactorInv, NEW h \in Handlers, AskedTotp(h), AskedKey(h), req[h].login \in Nat
  PROVE  InPlace(req[h].login) = {} \/ Unread
BY DEF AskedTotp, AskedKey, InPlace, When, FactorInv

LEMMA LookedUp ==
  ASSUME Fielded, NEW on, LooksUp(on, FALSE)
  PROVE  ~on \/ "unread" \in seen'.mishaps
<1>1. Fault({"unread"}) => "unread" \in seen'.mishaps
  BY Plainly
<1> QED
  BY <1>1 DEF LooksUp

LEMMA FactorStep ==
  ASSUME SessionInv, CountInv, KnownInv, FactorInv, NEW h \in Handlers, HandlerStep(h)
  PROVE  FactorInv'
<1>0. /\ Fielded /\ FactorsMove /\ seen.logins \in Nat /\ Uses(h)
      /\ req[h].login \in Nat
  BY StepFactors, StepUses DEF CountInv, Room, KnownInv
<1>1. ASSUME NEW g \in Handlers, g # h PROVE Asked(g)' /\ Confirmed(g)'
  <2>1. req'[g] = req[g]
    BY <1>0, <1>1 DEF Uses, Becomes
  <2> QED
    BY <1>0, <2>1, StillAsked
<1>2. Unread => Unread'
  BY <1>0 DEF Unread, FactorsMove
<1>3. Asked(h)' /\ Confirmed(h)'
  <2>1. CASE req'[h].pc \notin {"passkeys", "orpasskeys", "unproven", "forget", "revoke", "insert", "on1"}
    BY <2>1 DEF Asked, Confirmed, At
  <2>2. CASE TOTPEnabled(h)
    <3>1. CASE Goes(h, "park")
      BY <3>1 DEF Goes, Becomes, Asked, Confirmed, At
    <3>2. CASE Goes(h, "passkeys") /\ LooksUp(totp.secret # 0, FALSE)
      <4>1. totp' = totp
        BY <2>2 DEF TOTPEnabled, store
      <4>2. totp.secret = 0 \/ Unread'
        BY <1>0, <3>2, LookedUp DEF Unread
      <4> QED
        BY <3>2, <4>1, <4>2 DEF Goes, Becomes, Asked, AskedTotp, Confirmed, At
    <3> QED
      BY <2>2, <3>1, <3>2, LoginLands
  <2>3. CASE PasskeysEnabled(h)
    <3>1. CASE Ends(h)
      BY <3>1 DEF Ends, Becomes, Asked, Confirmed, At
    <3>2. CASE /\ Becomes(h, "forget", req[h].login, [unasked |-> InPlace(req[h].login)])
               /\ At(h, "passkeys") /\ LooksUp(keys, FALSE)
      <4>1. ~keys \/ Unread'
        BY <1>0, <3>2, LookedUp DEF Unread
      <4>2. AskedTotp(h)
        BY <3>2 DEF FactorInv, Asked, At
      <4>3. InPlace(req[h].login) = {} \/ Unread'
        BY <1>0, <1>2, <4>1, <4>2, NothingInPlace DEF AskedKey
      <4>4. req'[h].pc = "forget" /\ req'[h].code.unasked = InPlace(req[h].login)
        BY <3>2 DEF Becomes
      <4> QED
        BY <4>3, <4>4 DEF Asked, Confirmed, At
    <3> QED
      BY <2>3, <3>1, <3>2, LoginLands
  <2>4. CASE GetTOTPSecret(h)
    <3>1. totp' = totp
      BY <2>4 DEF GetTOTPSecret, store
    <3>2. \/ Ends(h) \/ Goes(h, "last") \/ Goes(h, "codes")
          \/ Goes(h, "orpasskeys") /\ totp.secret = 0
      BY <2>4, CodeLands
    <3> QED
      BY <3>1, <3>2 DEF Ends, Goes, Becomes, Asked, AskedTotp, Confirmed, At
  <2>5. CASE NoSecret(h)
    <3>1. CASE Ends(h)
      BY <3>1 DEF Ends, Becomes, Asked, Confirmed, At
    <3>2. CASE Goes(h, "unproven") /\ LooksUp(keys, FALSE)
      <4>1. ~keys \/ Unread'
        BY <1>0, <3>2, LookedUp DEF Unread
      <4>2. keys' = keys
        BY <2>5 DEF NoSecret, store
      <4>3. AskedTotp(h)
        BY <2>5 DEF NoSecret, FactorInv, Asked, At
      <4>4. req'[h].login = req[h].login /\ req'[h].pc = "unproven"
        BY <3>2 DEF Goes, Becomes
      <4>5. AskedTotp(h)'
        BY <1>0, <4>3, <4>4, StillAsked
      <4> QED
        BY <4>1, <4>2, <4>4, <4>5 DEF Asked, AskedKey, Confirmed, At, Unread
    <3> QED
      BY <2>5, <3>1, <3>2, CodeLands
  <2>6. CASE Accept(h)
    <3>1. PICK u : /\ Becomes(h, "forget", req[h].login, [unasked |-> u])
                   /\ u = IF At(h, "proven") THEN {} ELSE InPlace(req[h].login)
      BY <2>6, CodeLands
    <3>2. u = {} \/ Unread
      <4>1. CASE At(h, "proven")
        BY <3>1, <4>1
      <4>2. CASE At(h, "unproven")
        BY <1>0, <3>1, <4>2, NothingInPlace DEF FactorInv, Asked, At
      <4> QED
        BY <2>6, <4>1, <4>2 DEF Accept
    <3>3. req'[h].pc = "forget" /\ req'[h].code.unasked = u
      BY <3>1 DEF Becomes
    <3> QED
      BY <1>2, <3>2, <3>3 DEF Asked, Confirmed, At
  <2>7. CASE ForgetDevice(h)
    <3>1. At(h, "forget")
      BY <2>7 DEF ForgetDevice
    <3>2. \/ req'[h].pc = "idle"
          \/ req'[h].pc = "revoke" /\ req'[h].code.unasked = req[h].code.unasked
      <4>1. CASE Ends(h)
        BY <4>1 DEF Ends, Becomes
      <4>2. CASE \E d : Becomes(h, "revoke", req[h].login,
                                [unasked |-> req[h].code.unasked, device |-> d])
        <5>1. PICK d : Becomes(h, "revoke", req[h].login,
                               [unasked |-> req[h].code.unasked, device |-> d])
          BY <4>2
        <5> QED
          BY <5>1 DEF Becomes
      <4> QED
        BY <2>7, <4>1, <4>2, SessionLands
    <3> QED
      BY <1>2, <3>1, <3>2 DEF FactorInv, Asked, Confirmed, At
  <2>8. CASE RevokeLive(h)
    <3>1. At(h, "revoke")
      BY <2>8 DEF RevokeLive
    <3>2. \/ req'[h].pc = "idle"
          \/ req'[h].pc = "insert" /\ req'[h].code.unasked = req[h].code.unasked
      <4>1. CASE Ends(h)
        BY <4>1 DEF Ends, Becomes
      <4>2. CASE Becomes(h, "insert", req[h].login,
                         [unasked |-> req[h].code.unasked, device |-> req[h].code.device,
                          after |-> seen.sessions])
        BY <4>2 DEF Becomes
      <4> QED
        BY <2>8, <4>1, <4>2, SessionLands
    <3> QED
      BY <1>2, <3>1, <3>2 DEF FactorInv, Asked, Confirmed, At
  <2>9. CASE ReadPending(h)
    <3>1. CASE Ends(h)
      BY <3>1 DEF Ends, Becomes, Asked, Confirmed, At
    <3>2. CASE Becomes(h, "on1", req[h].login, <<totp.pending, seen.enrolled + 1>>)
      <4>1. req'[h].pc = "on1" /\ req'[h].code[1] = totp.pending
        BY <3>2 DEF Becomes
      <4>2. Enrolls(h)
        <5>1. ~Done(h)
          BY <4>1 DEF Done, Idle, CountInv, Requests
        <5> QED
          BY <1>0, <2>9, <5>1, Histories
      <4>3. totp.pending \in seen'.confirmed \/ "restarted" \in seen'.mishaps
        BY <4>2 DEF Enrolls
      <4> QED
        BY <4>1, <4>3 DEF Asked, Confirmed, At
    <3> QED
      BY <2>9, <3>1, <3>2, SettingLands
  <2> QED
    BY <2>1, <2>2, <2>3, <2>4, <2>5, <2>6, <2>7, <2>8, <2>9, FactorLands
<1>4. FactorsAreAsked'
  <2>1. CASE RowsKept
    BY <1>2, <2>1 DEF FactorInv, FactorsAreAsked, RowsKept, From, Unread
  <2>2. ASSUME InsertSession(h), NEW b, rows' = rows \cup {b}, b.unasked = req[h].code.unasked
        PROVE  FactorsAreAsked'
    <3>1. req[h].code.unasked = {} \/ Unread
      BY <2>2 DEF InsertSession, FactorInv, Asked, At
    <3> QED
      BY <1>2, <2>2, <3>1 DEF FactorInv, FactorsAreAsked, Unread
  <2> QED
    BY <2>1, <2>2, StepRows
<1>5. SecretWasConfirmed'
  BY <1>0, SecretWritten DEF FactorInv, SecretWasConfirmed, FactorsMove, Confirmed
<1> QED
  BY <1>0, <1>1, <1>3, <1>4, <1>5 DEF FactorInv, FactorsMove

LEMMA FactorOther ==
  ASSUME SessionInv, CountInv, KnownInv, FactorInv, OtherStep
  PROVE  FactorInv'
<1>1. FactorsMove /\ totp'.secret = totp.secret /\ req' = req /\ seen.logins \in Nat
  BY OtherFactors DEF CountInv, Room
<1>2. \A g \in Handlers : Asked(g)' /\ Confirmed(g)'
  BY <1>1, StillAsked
<1>3. FactorsAreAsked'
  BY <1>1, OtherRows DEF FactorInv, FactorsAreAsked, RowsKept, From, FactorsMove
<1> QED
  BY <1>1, <1>2, <1>3 DEF FactorInv, SecretWasConfirmed, FactorsMove

-----------------------------------------------------------------------------
(* Types: what the keys of the authenticator, and the codes that requests  *)
(* carry, are made of.                                                     *)

CodeTypes(h) ==
  /\ req[h].pc \in {"last", "setlast"} =>
       /\ req[h].code = AuthCode(req[h].code[2], req[h].code[3])
       /\ req[h].code[3] \in Nat /\ req[h].code[3] <= clock + Skew
  /\ At(h, "setcodes") =>
       /\ req[h].code[2] \in seen.issued /\ req[h].code[3] \subseteq seen.issued
       /\ req[h].code[2] \notin req[h].code[3]
  /\ At(h, "on1") => req[h].code[1] \in 0 .. seen.secrets

TypeInv ==
  /\ clock \in 1 .. MaxClock /\ keys \in BOOLEAN /\ enrolling \in BOOLEAN
  /\ seen.secrets \in Nat
  /\ totp.secret \in 0 .. seen.secrets /\ totp.pending \in 0 .. seen.secrets
  /\ totp.codes \subseteq seen.issued
  /\ totp.last \in Nat /\ totp.last <= clock + Skew
  /\ Unique
  /\ \A h \in Handlers : CodeTypes(h)

LEMMA TypeInit == Init => TypeInv
<1> SUFFICES ASSUME Init PROVE TypeInv
  OBVIOUS
<1>1. PICK d \in Devices : rows = {[n |-> 0, login |-> 0, state |-> "live",
                                    device |-> d, after |-> 0, unasked |-> {}]}
  BY DEF Init
<1>2. Unique
  BY <1>1 DEF Unique
<1>3. /\ seen.secrets = 1 /\ seen.issued = totp.codes
      /\ \A h \in Handlers : req[h].pc = "idle"
  BY DEF Init, Idle
<1>4. totp.secret \in {0, 1} /\ totp.pending = 0 /\ totp.last = 0
  BY DEF Init
<1>5. clock \in 1 .. MaxClock /\ clock = 1
  BY SignInAssumption DEF Init, SignInAssumption
<1>6. keys \in BOOLEAN /\ enrolling \in BOOLEAN
  BY DEF Init
<1>7. /\ totp.secret \in 0 .. seen.secrets /\ totp.pending \in 0 .. seen.secrets
      /\ totp.last \in Nat /\ totp.last <= clock + Skew /\ seen.secrets \in Nat
  BY <1>3, <1>4, <1>5, SignInAssumption DEF SignInAssumption
<1>8. \A h \in Handlers : CodeTypes(h)
  BY <1>3 DEF CodeTypes, At
<1>9. totp.codes \subseteq seen.issued
  BY <1>3
<1> QED
  BY <1>2, <1>5, <1>6, <1>7, <1>8, <1>9 DEF TypeInv

\* Which steps take a request to a place the types speak of.
LEMMA Enters ==
  ASSUME CountInv, NEW h \in Handlers, HandlerStep(h)
  PROVE  \/ req'[h].pc \notin {"last", "setlast", "setcodes", "mail", "dropmail", "on1", "on2",
                               "enabled", "park", "passkeys"}
         \/ GetTOTPSecret(h) \/ GetTOTPLastCounter(h) \/ ReadBackupCodes(h) \/ CompareMailCode(h)
         \/ ReadPending(h) \/ CheckAdminPassword(h) \/ TOTPEnabled(h)
         \/ WriteTOTPKey(h) /\ At(h, "on1") /\ Goes(h, "on2") /\ totp' = Written(h)
<1> USE DEF Becomes, Ends, Goes
<1>1. CASE LoginPost(h) \/ PasskeysEnabled(h)
  BY <1>1, LoginLands
<1>2. CASE LoginTOTPPost(h) \/ NoSecret(h)
  BY <1>2, CodeLands
<1>3. CASE SetTOTPLastCounter(h) \/ DropMailCode(h) \/ Accept(h)
  BY <1>3, CodeLands
<1>4. CASE WriteBackupCodes(h)
  BY <1>4, BackupLands DEF AfterCodes
<1>5. CASE LoginTOTPEmail(h) \/ KeepMailCode(h) \/ SendLoginCode(h)
        \/ FinishPasskeyLogin(h) \/ VerifyPasskey(h)
           \/ ForgetDevice(h) \/ RevokeLive(h) \/ InsertSession(h)
  BY <1>5, SessionLands
<1>6. CASE WriteTOTPKey(h)
  <2>1. \/ After[req[h].pc] \in {"on3", "on4", "idle", "off2", "off3", "off4"}
        \/ After[req[h].pc] = "on2" /\ At(h, "on1")
    BY <1>6 DEF WriteTOTPKey, After, At
  <2>2. Ends(h) \/ (Goes(h, After[req[h].pc]) /\ totp' = Written(h))
    BY <1>6, SettingLands
  <2> QED
    BY <1>6, <2>1, <2>2
<1>7. CASE \/ ConfirmTOTPEnrollment(h) \/ DisableTOTP(h)
           \/ ChangeCredentials(h) \/ SetCredentials(h)
           \/ DropSessions(h) \/ TakeEnrollment(h) \/ RegisterPasskey(h)
           \/ RevokeDevice(h) \/ EndDevice(h)
  BY <1>7, SettingLands
<1> QED
  BY <1>1, <1>2, <1>3, <1>4, <1>5, <1>6, <1>7 DEF HandlerStep

\* Which steps write the authenticator's keys, and what they write.
LEMMA TotpWritten ==
  ASSUME Fielded, NEW h \in Handlers, HandlerStep(h)
  PROVE  \/ totp' = totp
         \/ /\ SetTOTPLastCounter(h) /\ seen' = Spent(req[h].code)
            /\ totp'.last = req[h].code[3] /\ totp'.secret = totp.secret
            /\ totp'.pending = totp.pending /\ totp'.codes = totp.codes
         \/ /\ WriteBackupCodes(h) /\ totp'.codes = req[h].code[3] /\ totp'.last = totp.last
            /\ totp'.secret = totp.secret /\ totp'.pending = totp.pending
         \/ /\ WriteTOTPKey(h) /\ Keeps(h) /\ totp' = Written(h)
            /\ totp'.last \in {0, totp.last} /\ totp'.pending \in {0, totp.pending}
            /\ \/ totp'.secret = totp.secret
               \/ At(h, "on1") /\ totp'.secret = req[h].code[1]
               \/ At(h, "off1") /\ totp'.secret = 0
            /\ \/ totp'.codes \in {{}, totp.codes} /\ ~At(h, "on2")
               \/ At(h, "on2") /\ totp'.codes = BackupsOf(req[h].code[2])
<1>1. CASE SetTOTPLastCounter(h)
  BY <1>1 DEF SetTOTPLastCounter, Fielded
<1>2. CASE WriteBackupCodes(h)
  BY <1>2 DEF WriteBackupCodes, Fielded
<1>3. CASE WriteTOTPKey(h)
  <2>1. CASE totp' = Written(h) /\ Keeps(h)
    <3>1. totp'.last \in {0, totp.last} /\ totp'.pending \in {0, totp.pending}
      BY <2>1 DEF Written, Fielded
    <3>2. \/ totp'.secret = totp.secret
          \/ At(h, "on1") /\ totp'.secret = req[h].code[1]
          \/ At(h, "off1") /\ totp'.secret = 0
      BY <2>1 DEF Written, Fielded
    <3>3. \/ totp'.codes \in {{}, totp.codes} /\ ~At(h, "on2")
          \/ At(h, "on2") /\ totp'.codes = BackupsOf(req[h].code[2])
      BY <2>1 DEF Written, Fielded, At
    <3> QED
      BY <1>3, <2>1, <3>1, <3>2, <3>3
  <2> QED
    BY <1>3, <2>1, Histories
<1>4. CASE ~SetTOTPLastCounter(h) /\ ~WriteBackupCodes(h) /\ ~WriteTOTPKey(h)
  BY <1>4
  DEF HandlerStep, store, LoginPost, CheckAdminPassword, TOTPEnabled, PasskeysEnabled,
      LoginTOTPPost, GetTOTPSecret, NoSecret, GetTOTPLastCounter, ReadBackupCodes,
      CompareMailCode, DropMailCode, Accept, LoginTOTPEmail, KeepMailCode, SendLoginCode,
      FinishPasskeyLogin, VerifyPasskey, ForgetDevice, RevokeLive, InsertSession,
      ConfirmTOTPEnrollment, ReadPending, DisableTOTP, ChangeCredentials, SetCredentials,
      DropSessions, TakeEnrollment, RegisterPasskey, RevokeDevice, EndDevice
<1> QED
  BY <1>1, <1>2, <1>3, <1>4

\* The history of codes and secrets only grows.
LEMMA StepGrows ==
  ASSUME CountInv, NEW h \in Handlers, HandlerStep(h)
  PROVE  /\ seen.issued \subseteq seen'.issued /\ seen'.secrets = seen.secrets
         /\ seen.spent \subseteq seen'.spent /\ seen.mishaps \subseteq seen'.mishaps
<1>0. Fielded
  BY DEF CountInv
<1>1. CASE CheckAdminPassword(h) \/ InsertSession(h) \/ DropSessions(h)
  BY <1>0, <1>1, Plainly
  DEF CheckAdminPassword, InsertSession, DropSessions, Plain, Fielded, Fields
<1>2. CASE \/ SetTOTPLastCounter(h) \/ WriteBackupCodes(h) \/ DropMailCode(h) \/ ReadPending(h)
           \/ WriteTOTPKey(h) \/ RegisterPasskey(h)
  BY <1>0, <1>2, Histories DEF Plain, Spends, Enrolls, Keeps, Registers, Rest
<1>3. CASE Plain
  BY <1>3 DEF Plain
<1> QED
  BY <1>0, <1>1, <1>2, <1>3, StepPlain

LEMMA TypeStep ==
  ASSUME SessionInv, CountInv, KnownInv, TypeInv, NEW h \in Handlers, HandlerStep(h)
  PROVE  TypeInv'
<1>0. /\ Fielded /\ Uses(h) /\ clock' = clock /\ clock \in Nat /\ Skew \in Nat
      /\ seen.issued \subseteq seen'.issued /\ seen'.secrets = seen.secrets /\ seen.secrets \in Nat
  BY StepGrows, StepUses, StepClock, SignInAssumption
  DEF CountInv, KnownInv, TypeInv, SignInAssumption
<1>1. ASSUME NEW g \in Handlers, g # h PROVE CodeTypes(g)'
  <2>1. req'[g] = req[g] /\ CodeTypes(g)
    BY <1>0, <1>1 DEF Uses, Becomes, TypeInv
  <2> QED
    BY <1>0, <2>1 DEF CodeTypes, At
<1>2. CodeTypes(h) /\ totp.codes \subseteq seen.issued /\ totp.pending \in 0 .. seen.secrets
  BY DEF TypeInv
<1>3. CodeTypes(h)'
  <2>1. CASE req'[h].pc \notin {"last", "setlast", "setcodes", "on1"}
    BY <2>1 DEF CodeTypes, At
  <2>2. CASE GetTOTPSecret(h)
    <3>1. CASE Goes(h, "last") /\ Validates(totp.secret, req[h].code)
      <4>1. PICK c \in Near : req[h].code = AuthCode(totp.secret, c)
        BY <3>1 DEF Validates
      <4>2. c \in Nat /\ c <= clock + Skew
        BY <1>0, <4>1 DEF Near
      <4>3. req'[h].code = AuthCode(totp.secret, c) /\ req'[h].pc = "last"
        BY <3>1, <4>1 DEF Goes, Becomes
      <4> QED
        BY <1>0, <4>2, <4>3 DEF CodeTypes, At, AuthCode
    <3> QED
      BY <2>2, <2>1, <3>1, CodeLands DEF Ends, Goes, Becomes
  <2>3. CASE GetTOTPLastCounter(h)
    <3>1. CASE Goes(h, "setlast")
      <4>1. At(h, "last")
        BY <2>3 DEF GetTOTPLastCounter
      <4> QED
        BY <1>0, <1>2, <3>1, <4>1 DEF Goes, Becomes, CodeTypes, At
    <3> QED
      BY <2>1, <2>3, <3>1, CodeLands DEF Ends, Becomes
  <2>4. CASE ReadBackupCodes(h)
    <3>1. ASSUME NEW n \in totp.codes,
                 Becomes(h, "setcodes", req[h].login, <<"rest", n, totp.codes \ {n}>>)
          PROVE  CodeTypes(h)'
      <4>1. req'[h].pc = "setcodes" /\ req'[h].code = <<"rest", n, totp.codes \ {n}>>
        BY <3>1 DEF Becomes
      <4>2. req'[h].code[2] = n /\ req'[h].code[3] = totp.codes \ {n}
        BY <4>1
      <4> QED
        BY <1>0, <1>2, <4>1, <4>2 DEF CodeTypes, At
    <3>2. Goes(h, AfterCodes(h)) => CodeTypes(h)'
      BY <2>1 DEF Goes, Becomes, AfterCodes
    <3> QED
      BY <2>4, <3>1, <3>2, BackupLands
  <2>5. CASE ReadPending(h)
    <3>1. CASE Becomes(h, "on1", req[h].login, <<totp.pending, seen.enrolled + 1>>)
      <4>1. req'[h].pc = "on1" /\ req'[h].code[1] = totp.pending
        BY <3>1 DEF Becomes
      <4> QED
        BY <1>0, <1>2, <4>1 DEF CodeTypes, At
    <3> QED
      BY <2>1, <2>5, <3>1, SettingLands DEF Ends, Becomes
  <2>6. CASE CompareMailCode(h) \/ CheckAdminPassword(h) \/ TOTPEnabled(h)
    <3>1. req'[h].pc \notin {"last", "setlast", "setcodes", "on1"}
      BY <2>6, CodeLands, LoginLands DEF Ends, Goes, Becomes
    <3> QED
      BY <2>1, <3>1
  <2>7. CASE Goes(h, "on2")
    BY <2>1, <2>7 DEF Goes, Becomes
  <2> QED
    BY <2>1, <2>2, <2>3, <2>4, <2>5, <2>6, <2>7, Enters
<1>4. /\ totp'.secret \in 0 .. seen'.secrets /\ totp'.pending \in 0 .. seen'.secrets
      /\ totp'.codes \subseteq seen'.issued
      /\ totp'.last \in Nat /\ totp'.last <= clock' + Skew
  <2>1. CASE totp' = totp
    BY <1>0, <2>1 DEF TypeInv
  <2>2. CASE /\ SetTOTPLastCounter(h) /\ totp'.last = req[h].code[3] /\ totp'.secret = totp.secret
             /\ totp'.pending = totp.pending /\ totp'.codes = totp.codes
    BY <1>0, <1>2, <2>2 DEF SetTOTPLastCounter, CodeTypes, TypeInv, At
  <2>3. CASE /\ WriteBackupCodes(h) /\ totp'.codes = req[h].code[3] /\ totp'.last = totp.last
             /\ totp'.secret = totp.secret /\ totp'.pending = totp.pending
    BY <1>0, <1>2, <2>3 DEF WriteBackupCodes, CodeTypes, TypeInv, At
  <2>4. CASE /\ WriteTOTPKey(h) /\ Keeps(h)
             /\ totp'.last \in {0, totp.last} /\ totp'.pending \in {0, totp.pending}
             /\ \/ totp'.secret = totp.secret
                \/ At(h, "on1") /\ totp'.secret = req[h].code[1]
                \/ At(h, "off1") /\ totp'.secret = 0
             /\ \/ totp'.codes \in {{}, totp.codes} /\ ~At(h, "on2")
                \/ At(h, "on2") /\ totp'.codes = BackupsOf(req[h].code[2])
    <3>1. totp'.codes \subseteq seen'.issued
      BY <1>0, <1>2, <2>4 DEF Keeps
    <3>2. totp'.secret \in 0 .. seen'.secrets
      BY <1>0, <1>2, <2>4 DEF CodeTypes, TypeInv
    <3>3. totp'.pending \in 0 .. seen'.secrets /\ totp'.last \in Nat /\ totp'.last <= clock' + Skew
      BY <1>0, <2>4 DEF TypeInv
    <3> QED
      BY <3>1, <3>2, <3>3
  <2> QED
    BY <1>0, <2>1, <2>2, <2>3, <2>4, TotpWritten
<1>5. Unique'
  <2>1. CASE RowsKept
    BY <2>1 DEF RowsKept, TypeInv
  <2>2. ASSUME NEW b, rows' = rows \cup {b}, b.n = seen.sessions + 1 PROVE Unique'
    BY <2>2 DEF SessionInv, Numbered, TypeInv, Unique
  <2> QED
    BY <2>1, <2>2, StepRows
<1>6. keys' \in BOOLEAN /\ enrolling' \in BOOLEAN
  <2>1. keys' = keys \/ keys' = TRUE
    BY DEF HandlerStep, store, LoginPost, CheckAdminPassword, TOTPEnabled, PasskeysEnabled,
           LoginTOTPPost, GetTOTPSecret, NoSecret, GetTOTPLastCounter, SetTOTPLastCounter,
           ReadBackupCodes, WriteBackupCodes, CompareMailCode, DropMailCode, Accept,
           LoginTOTPEmail, KeepMailCode, SendLoginCode, FinishPasskeyLogin, VerifyPasskey,
           ForgetDevice, RevokeLive, InsertSession, ConfirmTOTPEnrollment, ReadPending,
           DisableTOTP, WriteTOTPKey, ChangeCredentials, SetCredentials, DropSessions,
           TakeEnrollment, RegisterPasskey, RevokeDevice, EndDevice
  <2>2. enrolling' = enrolling \/ enrolling' = FALSE
    BY DEF HandlerStep, memory, LoginPost, CheckAdminPassword, TOTPEnabled, PasskeysEnabled,
           LoginTOTPPost, GetTOTPSecret, NoSecret, GetTOTPLastCounter, SetTOTPLastCounter,
           ReadBackupCodes, WriteBackupCodes, CompareMailCode, DropMailCode, Accept,
           LoginTOTPEmail, KeepMailCode, SendLoginCode, FinishPasskeyLogin, VerifyPasskey,
           ForgetDevice, RevokeLive, InsertSession, ConfirmTOTPEnrollment, ReadPending,
           DisableTOTP, WriteTOTPKey, ChangeCredentials, SetCredentials, DropSessions,
           TakeEnrollment, RegisterPasskey, RevokeDevice, EndDevice
  <2> QED
    BY <2>1, <2>2 DEF TypeInv
<1> QED
  BY <1>0, <1>1, <1>3, <1>4, <1>5, <1>6 DEF TypeInv

LEMMA TypeOther ==
  ASSUME SessionInv, CountInv, KnownInv, TypeInv, OtherStep
  PROVE  TypeInv'
<1>1. /\ seen'.issued = seen.issued /\ seen'.secrets \in Nat /\ seen.secrets <= seen'.secrets
      /\ totp'.secret = totp.secret /\ totp'.pending \in 0 .. seen'.secrets
      /\ totp'.codes = totp.codes /\ totp'.last = totp.last
  <2>1. CASE StartTOTPEnrollment
    BY <2>1 DEF StartTOTPEnrollment, CountInv, Fielded, Fields, TypeInv
  <2>2. CASE Plain /\ ~StartTOTPEnrollment
    <3>1. totp' = totp
      BY <2>2
      DEF OtherStep, BeginPasskeyLogin, BeginPasskeyEnrollment, DeletePasskey,
          RevokeOtherDevices, Logout, Tick, Sweep, vars, store
    <3> QED
      BY <2>2, <3>1 DEF Plain, TypeInv
  <2> QED
    BY <2>1, <2>2, OtherPlain DEF CountInv
<1>2. clock' \in 1 .. MaxClock /\ clock <= clock' /\ req' = req
  BY SignInAssumption
  DEF OtherStep, BeginPasskeyLogin, StartTOTPEnrollment, BeginPasskeyEnrollment, DeletePasskey,
      RevokeOtherDevices, Logout, Tick, Sweep, vars, TypeInv, SignInAssumption
<1>5. keys' \in BOOLEAN /\ enrolling' \in BOOLEAN
  <2>1. keys' = keys \/ keys' = FALSE
    BY DEF OtherStep, BeginPasskeyLogin, StartTOTPEnrollment, BeginPasskeyEnrollment, DeletePasskey,
           RevokeOtherDevices, Logout, Tick, Sweep, vars, store
  <2>2. enrolling' = enrolling \/ enrolling' = TRUE
    BY DEF OtherStep, BeginPasskeyLogin, StartTOTPEnrollment, BeginPasskeyEnrollment, DeletePasskey,
           RevokeOtherDevices, Logout, Tick, Sweep, vars, memory
  <2> QED
    BY <2>1, <2>2 DEF TypeInv
<1>3. Unique'
  BY OtherRows DEF RowsKept, TypeInv
<1>4. \A g \in Handlers : CodeTypes(g)'
  BY <1>1, <1>2, SignInAssumption DEF TypeInv, CodeTypes, At, SignInAssumption
<1>6. totp'.last \in Nat /\ totp'.last <= clock' + Skew /\ totp'.secret \in 0 .. seen'.secrets
  BY <1>1, <1>2, SignInAssumption DEF TypeInv, SignInAssumption
<1>7. totp'.codes \subseteq seen'.issued
  BY <1>1 DEF TypeInv
<1> QED
  BY <1>1, <1>2, <1>3, <1>4, <1>5, <1>6, <1>7 DEF TypeInv

LEMMA TypeSuffices == LimitInv /\ CountInv /\ TypeInv => TypeOK
<1> SUFFICES ASSUME LimitInv, CountInv, TypeInv PROVE TypeOK
  OBVIOUS
<1>1. tries.failures \in 0 .. MaxFailures
  BY DEF LimitInv, Limits
<1>2. PICK S : S = Waiting("hash")
  OBVIOUS
<1>3. Cardinality(S) \in Nat
  BY <1>2, FS_CardinalityType DEF CountInv, Room
<1>4. cred \in 1 .. (MaxRequests + 1)
  BY <1>2, <1>3, SignInAssumption DEF CountInv, Room, SignInAssumption
<1> QED
  BY <1>1, <1>4, SignInAssumption DEF TypeInv, TypeOK, Unique, SignInAssumption

-----------------------------------------------------------------------------
(* Backup codes: every enrollment has numbers of its own, and only codes   *)
(* that were issued are spent.                                             *)

\* Which code a step spends.
Pays(h, code) ==
  /\ seen'.spent = seen.spent \cup {code}
  /\ seen'.twice = seen.twice \cup ({code} \cap seen.spent)
  /\ \/ SetTOTPLastCounter(h) /\ At(h, "setlast") /\ code = req[h].code
     \/ WriteBackupCodes(h) /\ At(h, "setcodes") /\ code = BackupCode(req[h].code[2])
     \/ DropMailCode(h) /\ At(h, "dropmail") /\ code = req[h].code

LEMMA StepSpends ==
  ASSUME CountInv, NEW h \in Handlers, HandlerStep(h)
  PROVE  \/ seen'.spent = seen.spent /\ seen'.twice = seen.twice
         \/ \E code : Pays(h, code)
<1>0. Fielded
  BY DEF CountInv
<1>1. Plain => seen'.spent = seen.spent /\ seen'.twice = seen.twice
  BY DEF Plain
<1>2. CASE CheckAdminPassword(h) \/ InsertSession(h) \/ DropSessions(h)
  <2>1. CASE CheckAdminPassword(h)
    BY <1>0, <1>1, <2>1, Plainly DEF CheckAdminPassword, Fielded, Fields
  <2>2. CASE InsertSession(h) \/ DropSessions(h)
    BY <1>0, <1>1, <2>2, Plainly DEF InsertSession, DropSessions, Fielded, Fields
  <2> QED
    BY <1>2, <2>1, <2>2
<1>3. CASE ReadPending(h) \/ WriteTOTPKey(h) \/ RegisterPasskey(h)
  BY <1>0, <1>1, <1>3, Histories DEF Enrolls, Keeps, Registers
<1>4. CASE SetTOTPLastCounter(h)
  BY <1>0, <1>1, <1>4, Histories DEF Spends, Pays, SetTOTPLastCounter
<1>5. CASE WriteBackupCodes(h)
  <2>1. Spends(BackupCode(req[h].code[2])) /\ At(h, "setcodes")
    BY <1>0, <1>5, Histories DEF WriteBackupCodes
  <2>2. PICK code : code = BackupCode(req[h].code[2])
    OBVIOUS
  <2> QED
    BY <1>5, <2>1, <2>2 DEF Spends, Pays
<1>6. CASE DropMailCode(h)
  BY <1>0, <1>6, Histories DEF Spends, Pays, DropMailCode
<1> QED
  BY <1>0, <1>1, <1>2, <1>3, <1>4, <1>5, <1>6, StepPlain

\* What the codes are told apart by.
LEMMA Kinds ==
  /\ \A s, c : AuthCode(s, c)[1] = "totp" /\ AuthCode(s, c)[2] = s /\ AuthCode(s, c)[3] = c
  /\ \A n : BackupCode(n)[1] = "backup" /\ BackupCode(n)[2] = n
  /\ \A t, k : MailCode(t, k)[1] = "mail" /\ MailCode(t, k)[2] = t /\ MailCode(t, k)[3] = k
BY DEF AuthCode, BackupCode, MailCode

\* The backup codes of a later enrollment have higher numbers.
LEMMA BackupsApart ==
  ASSUME NEW j \in Nat, NEW k \in Nat, j < k
  PROVE  /\ j * BackupCount \in Nat /\ k * BackupCount \in Nat
         /\ \A n \in BackupsOf(k) : n \in Nat /\ n > j * BackupCount /\ n <= k * BackupCount
<1>1. BackupCount \in Nat
  BY SignInAssumption DEF SignInAssumption
<1>2. PICK d \in Nat : k = j + 1 + d
  <2>1. k - j - 1 \in Nat /\ k = j + 1 + (k - j - 1)
    OBVIOUS
  <2> QED
    BY <2>1
<1>3. k * BackupCount = j * BackupCount + BackupCount + d * BackupCount
  BY <1>1, <1>2
<1>4. j * BackupCount \in Nat /\ d * BackupCount \in Nat /\ k * BackupCount \in Nat
  BY <1>1
<1> QED
  BY <1>1, <1>3, <1>4 DEF BackupsOf

Confirming(h) == req[h].pc \in {"on1", "on2"}
Own(h) ==
  Confirming(h) =>
    /\ req[h].code[2] \in 1 .. seen.enrolled
    /\ BackupsOf(req[h].code[2]) \cap seen.issued = {}
    /\ \A g \in Handlers : Confirming(g) /\ req[g].code[2] = req[h].code[2] => g = h
EnrollInv ==
  /\ seen.enrolled \in Nat
  /\ \A n \in seen.issued : n \in Nat /\ n <= seen.enrolled * BackupCount
  /\ \A code \in seen.spent : /\ code[1] = "backup" => code[2] \in seen.issued
                             /\ code[1] = "totp" => code[3] \in Nat
  /\ \A h \in Handlers : Own(h)

LEMMA EnrollInit == Init => EnrollInv
<1> SUFFICES ASSUME Init PROVE EnrollInv
  OBVIOUS
<1>1. seen.enrolled = 1 /\ seen.spent = {} /\ seen.issued = totp.codes
  BY DEF Init
<1>2. totp.codes = {} \/ totp.codes = BackupsOf(1)
  BY DEF Init
<1>3. \A n \in BackupsOf(1) : n \in Nat /\ n <= 1 * BackupCount
  BY BackupsApart
<1>4. \A h \in Handlers : req[h].pc = "idle"
  BY DEF Init, Idle
<1> QED
  BY <1>1, <1>2, <1>3, <1>4 DEF EnrollInv, Own, Confirming

\* What a step does to the enrollments, and to a request that is at one.
LEMMA StepEnrolls ==
  ASSUME CountInv, NEW h \in Handlers, HandlerStep(h)
  PROVE  \/ /\ seen'.enrolled = seen.enrolled /\ seen'.issued = seen.issued
            /\ \/ req'[h].pc \notin {"on1", "on2"}
               \/ At(h, "on1") /\ req'[h].code = req[h].code
         \/ /\ seen'.enrolled = seen.enrolled + 1 /\ seen'.issued = seen.issued
            /\ req'[h].code[2] = seen.enrolled + 1
         \/ /\ At(h, "on2") /\ req'[h].pc \notin {"on1", "on2"}
            /\ seen'.enrolled = seen.enrolled
            /\ seen'.issued = seen.issued \cup BackupsOf(req[h].code[2])
<1>0. Fielded
  BY DEF CountInv
<1>1. CASE ReadPending(h)
  <2>1. CASE Ends(h) /\ UNCHANGED seen
    BY <2>1 DEF Ends, Becomes
  <2>2. CASE /\ Becomes(h, "on1", req[h].login, <<totp.pending, seen.enrolled + 1>>)
             /\ seen' = [seen EXCEPT !.enrolled = @ + 1,
                           !.confirmed = @ \cup {req[h].code[1]},
                           !.mishaps = @ \cup When(totp.pending # req[h].code[1], "restarted")]
    <3>1. req'[h].code = <<totp.pending, seen.enrolled + 1>>
      BY <2>2 DEF Becomes
    <3>2. req'[h].code[2] = seen.enrolled + 1
      BY <3>1
    <3>3. ~UNCHANGED seen \/ seen'.enrolled = seen.enrolled + 1
      BY <1>0, <2>2 DEF Fielded, Fields
    <3>4. seen'.enrolled = seen.enrolled + 1 /\ seen'.issued = seen.issued
      BY <1>0, <2>2 DEF Fielded, Fields
    <3> QED
      BY <3>2, <3>4
  <2> QED
    BY <1>1, <2>1, <2>2, SettingLands
<1>2. CASE WriteTOTPKey(h)
  <2>1. CASE Plain /\ totp' = totp
    <3>1. \/ req'[h].pc \notin {"on1", "on2"} \/ (At(h, "on1") /\ req'[h].code = req[h].code)
          \/ At(h, "on2") /\ req'[h].pc \notin {"on1", "on2"}
      BY <1>2, Enters DEF Goes, Becomes,
         GetTOTPSecret, GetTOTPLastCounter, ReadBackupCodes, CompareMailCode, ReadPending,
         CheckAdminPassword, TOTPEnabled, WriteTOTPKey, After, At
    <3> QED
      BY <2>1, <3>1 DEF Plain, At
  <2>2. CASE Keeps(h) /\ totp' = Written(h)
    <3>1. \/ req'[h].pc \notin {"on1", "on2"} \/ (At(h, "on1") /\ req'[h].code = req[h].code)
      BY <1>2, Enters DEF Goes, Becomes,
         GetTOTPSecret, GetTOTPLastCounter, ReadBackupCodes, CompareMailCode, ReadPending,
         CheckAdminPassword, TOTPEnabled, WriteTOTPKey, After, At
    <3>2. CASE At(h, "on2")
      <4>1. totp'.codes = BackupsOf(req[h].code[2])
        BY <1>0, <2>2, <3>2 DEF Written, At, Fielded
      <4> QED
        BY <2>2, <3>1, <3>2, <4>1 DEF Keeps, At
    <3>3. CASE ~At(h, "on2")
      BY <2>2, <3>1, <3>3 DEF Keeps
    <3> QED
      BY <3>2, <3>3
  <2> QED
    BY <1>0, <1>2, <2>1, <2>2, Histories
<1>3. CASE ~ReadPending(h) /\ ~WriteTOTPKey(h)
  <2>1. req'[h].pc \notin {"on1", "on2"}
    <3>1. CASE GetTOTPSecret(h) \/ GetTOTPLastCounter(h) \/ CompareMailCode(h) \/ CheckAdminPassword(h)
               \/ TOTPEnabled(h)
      BY <3>1, LoginLands, CodeLands DEF Ends, Goes, Becomes
    <3>2. CASE ReadBackupCodes(h)
      BY <3>2, BackupLands DEF Goes, Becomes, AfterCodes
    <3> QED
      BY <1>3, <3>1, <3>2, Enters
  <2>2. seen'.enrolled = seen.enrolled /\ seen'.issued = seen.issued
    <3>1. CASE Plain
      BY <3>1 DEF Plain
    <3>2. CASE CheckAdminPassword(h) \/ InsertSession(h) \/ DropSessions(h)
      <4>1. CASE CheckAdminPassword(h)
        BY <1>0, <3>1, <4>1, Plainly DEF CheckAdminPassword, Fielded, Fields
      <4>2. CASE InsertSession(h) \/ DropSessions(h)
        BY <1>0, <3>1, <4>2, Plainly DEF InsertSession, DropSessions, Fielded, Fields
      <4> QED
        BY <3>2, <4>1, <4>2
    <3>3. CASE SetTOTPLastCounter(h) \/ WriteBackupCodes(h) \/ DropMailCode(h) \/ RegisterPasskey(h)
      BY <1>0, <3>1, <3>3, Histories DEF Spends, Registers
    <3> QED
      BY <1>0, <1>3, <3>1, <3>2, <3>3, StepPlain
  <2> QED
    BY <2>1, <2>2
<1> QED
  BY <1>1, <1>2, <1>3

LEMMA EnrollStep ==
  ASSUME CountInv, TypeInv, EnrollInv, NEW h \in Handlers, HandlerStep(h),
         \A g \in Handlers : At(g, "dropmail") => req[g].code[1] = "mail"
  PROVE  EnrollInv'
<1>0. Uses(h) /\ seen.enrolled \in Nat
  BY StepUses DEF EnrollInv
<1>1. \A g \in Handlers : g # h => req'[g] = req[g]
  BY <1>0 DEF Uses, Becomes
<1>2. PICK top : top = seen.enrolled * BackupCount
  OBVIOUS
<1>3. \A n \in seen.issued : n \in Nat /\ n <= top
  BY <1>2 DEF EnrollInv
<1>4. \A code \in seen'.spent : /\ code[1] = "backup" => code[2] \in seen'.issued
                               /\ code[1] = "totp" => code[3] \in Nat
  <2>1. seen.issued \subseteq seen'.issued
    BY StepGrows
  <2>2. CASE seen'.spent = seen.spent
    BY <2>1, <2>2 DEF EnrollInv
  <2>3. ASSUME NEW code, Pays(h, code)
        PROVE  /\ code[1] = "backup" => code[2] \in seen.issued
               /\ code[1] = "totp" => code[3] \in Nat
    <3>1. CASE At(h, "setlast") /\ code = req[h].code
      <4>1. code = AuthCode(code[2], code[3]) /\ code[3] \in Nat
        BY <3>1 DEF TypeInv, CodeTypes, At
      <4>2. code[1] = "totp" /\ code[3] \in Nat
        BY <4>1, Kinds
      <4> QED
        BY <4>2
    <3>2. CASE At(h, "setcodes") /\ code = BackupCode(req[h].code[2])
      <4>1. req[h].code[2] \in seen.issued
        BY <3>2 DEF TypeInv, CodeTypes
      <4> QED
        BY <3>2, <4>1, Kinds
    <3>3. CASE At(h, "dropmail") /\ code = req[h].code
      BY <3>3
    <3> QED
      BY <2>3, <3>1, <3>2, <3>3 DEF Pays
  <2>4. CASE \E code : Pays(h, code)
    <3>1. PICK code : Pays(h, code)
      BY <2>4
    <3>2. /\ code[1] = "backup" => code[2] \in seen.issued
          /\ code[1] = "totp" => code[3] \in Nat
      BY <2>3, <3>1
    <3> QED
      BY <2>1, <3>1, <3>2 DEF Pays, EnrollInv
  <2> QED
    BY <2>2, <2>4, StepSpends
<1>5. CASE /\ seen'.enrolled = seen.enrolled /\ seen'.issued = seen.issued
           /\ \/ req'[h].pc \notin {"on1", "on2"}
              \/ At(h, "on1") /\ req'[h].code = req[h].code
  <2>1. \A g \in Handlers : Confirming(g)' => Confirming(g) /\ req'[g].code = req[g].code
    BY <1>1, <1>5 DEF Confirming, At
  <2>2. \A g \in Handlers : Own(g)'
    BY <1>5, <2>1 DEF EnrollInv, Own
  <2>3. \A n \in seen'.issued : n \in Nat /\ n <= seen'.enrolled * BackupCount
    BY <1>5 DEF EnrollInv
  <2> QED
    BY <1>0, <1>5, <1>4, <2>2, <2>3 DEF EnrollInv
<1>6. CASE /\ seen'.enrolled = seen.enrolled + 1 /\ seen'.issued = seen.issued
           /\ req'[h].code[2] = seen.enrolled + 1
  <2>1. top \in Nat /\ (seen.enrolled + 1) * BackupCount \in Nat
    BY <1>0, <1>2, BackupsApart
  <2>2. \A n \in BackupsOf(seen.enrolled + 1) : n \in Nat /\ n > top
    BY <1>0, <1>2, BackupsApart
  <2>3. BackupsOf(seen.enrolled + 1) \cap seen.issued = {}
    BY <1>3, <2>1, <2>2
  <2>4. (seen.enrolled + 1) * BackupCount >= top
    <3>1. BackupCount \in Nat
      BY SignInAssumption DEF SignInAssumption
    <3> QED
      BY <1>0, <1>2, <3>1
  <2>5. \A n \in seen'.issued : n \in Nat /\ n <= seen'.enrolled * BackupCount
    BY <1>3, <1>6, <2>1, <2>4
  <2>6. \A g \in Handlers : g # h /\ Confirming(g)' =>
           /\ Confirming(g) /\ req'[g].code = req[g].code
           /\ req[g].code[2] \in 1 .. seen.enrolled
    BY <1>1 DEF EnrollInv, Own, Confirming
  <2>7. Own(h)'
    BY <1>0, <1>6, <2>3, <2>6 DEF Own
  <2>8. ASSUME NEW g \in Handlers, g # h PROVE Own(g)'
    BY <1>0, <1>6, <2>6, <2>8 DEF EnrollInv, Own
  <2> QED
    BY <1>0, <1>6, <1>4, <2>5, <2>7, <2>8 DEF EnrollInv
<1>7. CASE /\ At(h, "on2") /\ req'[h].pc \notin {"on1", "on2"}
           /\ seen'.enrolled = seen.enrolled
           /\ seen'.issued = seen.issued \cup BackupsOf(req[h].code[2])
  <2>1. PICK k : k = req[h].code[2]
    OBVIOUS
  <2>2. k \in 1 .. seen.enrolled /\ Confirming(h)
    BY <1>7, <2>1 DEF EnrollInv, Own, Confirming, At
  <2>3. top \in Nat /\ \A n \in BackupsOf(k) : n \in Nat /\ n <= top
    <3>1. CASE k = seen.enrolled
      <4>1. k \in Nat /\ k - 1 \in Nat /\ k - 1 < k
        BY <1>0, <2>2
      <4> QED
        BY <1>2, <3>1, <4>1, BackupsApart
    <3>2. CASE k < seen.enrolled
      <4>1. k \in Nat /\ k - 1 \in Nat /\ k - 1 < k
        BY <1>0, <2>2
      <4>2. \A n \in BackupsOf(k) : n \in Nat /\ n <= k * BackupCount
        BY <4>1, BackupsApart
      <4>3. k * BackupCount <= top /\ k * BackupCount \in Nat /\ top \in Nat
        <5>1. PICK d \in Nat : seen.enrolled = k + d
          <6>1. seen.enrolled - k \in Nat /\ seen.enrolled = k + (seen.enrolled - k)
            BY <1>0, <3>2, <4>1
          <6> QED
            BY <6>1
        <5>2. BackupCount \in Nat
          BY SignInAssumption DEF SignInAssumption
        <5>3. top = k * BackupCount + d * BackupCount
          BY <1>2, <4>1, <5>1, <5>2
        <5>4. k * BackupCount \in Nat /\ d * BackupCount \in Nat
          BY <4>1, <5>1, <5>2
        <5> QED
          BY <5>3, <5>4
      <4> QED
        BY <4>2, <4>3
    <3> QED
      BY <1>0, <2>2, <3>1, <3>2
  <2>4. \A n \in seen'.issued : n \in Nat /\ n <= seen'.enrolled * BackupCount
    BY <1>2, <1>3, <1>7, <2>1, <2>3
  <2>5. ASSUME NEW g \in Handlers, Confirming(g)' PROVE Own(g)'
    <3>1. g # h /\ Confirming(g) /\ req'[g].code = req[g].code
      BY <1>1, <1>7, <2>5 DEF Confirming
    <3>2. PICK j : j = req[g].code[2]
      OBVIOUS
    <3>3. j \in 1 .. seen.enrolled /\ BackupsOf(j) \cap seen.issued = {} /\ j # k
      BY <2>1, <2>2, <3>1, <3>2 DEF EnrollInv, Own
    <3>4. BackupsOf(j) \cap BackupsOf(k) = {}
      <4>1. j \in Nat /\ k \in Nat
        BY <1>0, <2>2, <3>3
      <4>2. ASSUME NEW a \in Nat, NEW b \in Nat, a < b PROVE BackupsOf(a) \cap BackupsOf(b) = {}
        <5>1. \A n \in BackupsOf(a) : n <= a * BackupCount /\ n \in Int
          BY SignInAssumption DEF BackupsOf, SignInAssumption
        <5>2. a * BackupCount \in Nat /\ \A n \in BackupsOf(b) : n > a * BackupCount
          BY <4>2, BackupsApart
        <5> QED
          BY <5>1, <5>2
      <4>3. j < k \/ k < j
        BY <3>3, <4>1
      <4> QED
        BY <4>1, <4>2, <4>3
    <3>5. BackupsOf(j) \cap seen'.issued = {}
      BY <1>7, <2>1, <3>3, <3>4
    <3>6. \A f \in Handlers : Confirming(f)' => Confirming(f) /\ req'[f].code = req[f].code
      BY <1>1, <1>7 DEF Confirming
    <3>7. \A f \in Handlers : Confirming(f) /\ req[f].code[2] = j => f = g
      BY <3>1, <3>2 DEF EnrollInv, Own
    <3> QED
      BY <1>7, <3>1, <3>2, <3>3, <3>5, <3>6, <3>7 DEF Own
  <2>6. \A g \in Handlers : Own(g)'
    <3>1. \A g \in Handlers : ~Confirming(g)' => Own(g)'
      BY DEF Own
    <3> QED
      BY <2>5, <3>1
  <2> QED
    BY <1>0, <1>7, <1>4, <2>4, <2>6 DEF EnrollInv
<1> QED
  BY <1>5, <1>6, <1>7, StepEnrolls

LEMMA EnrollOther ==
  ASSUME CountInv, EnrollInv, OtherStep
  PROVE  EnrollInv'
<1>1. /\ seen'.enrolled = seen.enrolled /\ seen'.issued = seen.issued /\ seen'.spent = seen.spent
      /\ req' = req
  <2>1. CASE StartTOTPEnrollment
    BY <2>1 DEF StartTOTPEnrollment, CountInv, Fielded, Fields
  <2>2. CASE Plain
    BY <2>2
    DEF Plain, OtherStep, BeginPasskeyLogin, StartTOTPEnrollment, BeginPasskeyEnrollment,
        DeletePasskey, RevokeOtherDevices, Logout, Tick, Sweep, vars
  <2> QED
    BY <2>1, <2>2, OtherPlain DEF CountInv
<1> QED
  BY <1>1 DEF EnrollInv, Own, Confirming

-----------------------------------------------------------------------------
(* E-mailed codes: the codes of a login are numbered from its first one,   *)
(* and only codes that were sent are spent.                                *)

Young(h) == req[h].pc \in {"enabled", "park", "passkeys"}
Alike(h) == \* what a request at the mail's step, or before the second, holds
  /\ Young(h) =>
       /\ req[h].login \in Logins /\ pending[req[h].login] = NoEntry
       /\ \A g \in Handlers : Young(g) /\ req[g].login = req[h].login => g = h
  /\ At(h, "mail") \/ At(h, "dropmail") => req[h].login \in Logins
  /\ At(h, "code") =>
       req[h].login \in Logins /\ \A g \in Handlers : Young(g) => req[g].login # req[h].login
  /\ At(h, "dropmail") =>
       /\ req[h].code[1] = "mail" /\ req[h].code[2] = req[h].login
       /\ req[h].code[3] \in 1 .. pending[req[h].login].sent
MailInv ==
  /\ \A t \in Logins : /\ t > seen.logins => pending[t] = NoEntry
                       /\ pending[t].mail <= pending[t].sent
  /\ \A code \in seen.spent :
       code[1] = "mail" => code[2] \in Logins /\ code[3] \in 1 .. pending[code[2]].sent
  /\ \A h \in Handlers : Alike(h)

LEMMA MailInit == Init => MailInv
<1> SUFFICES ASSUME Init PROVE MailInv
  OBVIOUS
<1>1. PICK parked \in BOOLEAN :
        pending = [t \in Logins |-> [NoEntry EXCEPT !.live = parked /\ t = 1]]
  BY DEF Init
<1>2. ASSUME NEW t \in Logins
      PROVE  pending[t].mail <= pending[t].sent /\ (t # 1 => pending[t] = NoEntry)
  <2>1. PICK b \in BOOLEAN : b = (parked /\ t = 1)
    OBVIOUS
  <2>2. pending[t] = [NoEntry EXCEPT !.live = b]
    BY <1>1, <2>1
  <2>3. pending[t] = [live |-> b, sent |-> 0, mail |-> 0, sentAt |-> 0, wa |-> FALSE]
    BY <2>2 DEF NoEntry
  <2>4. pending[t].mail <= pending[t].sent
    BY <2>3
  <2>5. t # 1 => b = FALSE
    BY <2>1
  <2> QED
    BY <2>3, <2>4, <2>5 DEF NoEntry
<1>3. seen.logins = 1 /\ seen.spent = {} /\ \A h \in Handlers : req[h].pc = "idle"
  BY DEF Init, Idle
<1> QED
  BY <1>2, <1>3 DEF MailInv, Alike, Young, At

\* A new code is kept for the login of a request.
Mails(h) ==
  LET t == req[h].login IN
  /\ At(h, "code") /\ t \in Logins /\ Goes(h, "send") /\ Touches(t)
  /\ pending'[t].sent = pending[t].sent + 1 /\ pending'[t].mail = pending[t].sent + 1

\* What a step does to the entries of the logins.
LEMMA StepMails ==
  ASSUME CountInv, KnownInv, MailInv, NEW h \in Handlers, HandlerStep(h)
  PROVE  \/ UNCHANGED pending
         \/ /\ req[h].login \in Logins /\ Touches(req[h].login)
            /\ pending'[req[h].login].sent = pending[req[h].login].sent
            /\ pending'[req[h].login].mail \in {0, pending[req[h].login].mail}
            /\ pending[req[h].login] = NoEntry => pending'[req[h].login] = NoEntry
         \/ /\ Young(h) /\ Ends(h) /\ Touches(req[h].login)
            /\ pending'[req[h].login].sent = 0 /\ pending'[req[h].login].mail = 0
         \/ Mails(h)
<1>1. CASE PasskeysEnabled(h)
  <2>1. Young(h)
    BY <1>1 DEF PasskeysEnabled, Young, At
  <2>2. req[h].login \in Logins
    BY <2>1 DEF MailInv, Alike
  <2> QED
    BY <1>1, <2>1, <2>2, PendingMoves
<1>2. CASE DropMailCode(h) \/ Accept(h) \/ SendLoginCode(h) \/ VerifyPasskey(h)
  <2>1. \/ UNCHANGED pending
        \/ pending' = [pending EXCEPT ![req[h].login].live = FALSE]
        \/ pending' = [pending EXCEPT ![req[h].login].mail = 0]
        \/ pending' = [pending EXCEPT ![req[h].login].wa = FALSE]
    BY <1>2 DEF DropMailCode, Accept, SendLoginCode, VerifyPasskey
  <2>2. CASE req[h].login \in Logins
    BY <2>1, <2>2, EntryTouched DEF KnownInv
  <2>3. CASE req[h].login \notin Logins
    BY <2>1, <2>3 DEF KnownInv
  <2> QED
    BY <2>2, <2>3
<1>3. CASE KeepMailCode(h)
  <2>1. At(h, "code")
    BY <1>3 DEF KeepMailCode
  <2>2. req[h].login \in Logins
    BY <2>1 DEF MailInv, Alike
  <2> QED
    BY <1>3, <2>1, <2>2, PendingMoves, SessionLands DEF Mails
<1> QED
  <2>1. \/ UNCHANGED pending \/ PasskeysEnabled(h) \/ KeepMailCode(h)
        \/ DropMailCode(h) \/ Accept(h) \/ SendLoginCode(h) \/ VerifyPasskey(h)
    BY DEF HandlerStep, memory, LoginPost, CheckAdminPassword, TOTPEnabled, LoginTOTPPost,
           GetTOTPSecret, NoSecret, GetTOTPLastCounter, SetTOTPLastCounter, ReadBackupCodes,
           WriteBackupCodes, CompareMailCode, LoginTOTPEmail, FinishPasskeyLogin, ForgetDevice,
           RevokeLive, InsertSession, ConfirmTOTPEnrollment, ReadPending, DisableTOTP,
           WriteTOTPKey, ChangeCredentials, SetCredentials, DropSessions, TakeEnrollment,
           RegisterPasskey, RevokeDevice, EndDevice
  <2> QED
    BY <1>1, <1>2, <1>3, <2>1

\* Only a request for a code comes to where one is kept.
LEMMA MailAsked ==
  ASSUME CountInv, NEW h \in Handlers, HandlerStep(h), At(h, "code")'
  PROVE  \E t \in Logins : Shown(t) /\ req'[h].login = t /\ UNCHANGED pending
<1> USE DEF Becomes, Ends, Goes, At
<1>1. CASE LoginTOTPEmail(h)
  BY <1>1, SessionLands DEF LoginTOTPEmail, memory
<1>2. ~(\/ LoginPost(h) \/ CheckAdminPassword(h) \/ TOTPEnabled(h) \/ PasskeysEnabled(h))
  BY LoginLands
<1>3. ~(\/ LoginTOTPPost(h) \/ GetTOTPSecret(h) \/ NoSecret(h) \/ GetTOTPLastCounter(h)
        \/ SetTOTPLastCounter(h) \/ CompareMailCode(h) \/ DropMailCode(h) \/ Accept(h))
  BY CodeLands
<1>4. ~(ReadBackupCodes(h) \/ WriteBackupCodes(h))
  BY BackupLands DEF AfterCodes
<1>5. ~(\/ KeepMailCode(h) \/ SendLoginCode(h) \/ FinishPasskeyLogin(h) \/ VerifyPasskey(h)
        \/ ForgetDevice(h) \/ RevokeLive(h) \/ InsertSession(h))
  BY SessionLands
<1>6. ~WriteTOTPKey(h)
  <2>1. WriteTOTPKey(h) => After[req[h].pc] # "code"
    BY DEF WriteTOTPKey, After
  <2> QED
    BY <2>1, SettingLands
<1>7. ~(\/ ConfirmTOTPEnrollment(h) \/ ReadPending(h) \/ DisableTOTP(h)
        \/ ChangeCredentials(h) \/ SetCredentials(h) \/ DropSessions(h)
        \/ TakeEnrollment(h) \/ RegisterPasskey(h) \/ RevokeDevice(h) \/ EndDevice(h))
  BY SettingLands
<1> QED
  BY <1>1, <1>2, <1>3, <1>4, <1>5, <1>6, <1>7 DEF HandlerStep

\* Where the request of the step then is.
LEMMA MailLands ==
  ASSUME CountInv, KnownInv, MailInv, NEW h \in Handlers, HandlerStep(h)
  PROVE  /\ Young(h)' =>
              \/ Young(h) /\ req'[h].login = req[h].login
              \/ req'[h].login = seen.logins + 1 /\ seen'.logins = seen.logins + 1
                 /\ UNCHANGED pending
         /\ At(h, "mail")' => req'[h].login \in Logins
         /\ At(h, "dropmail")' =>
              /\ At(h, "mail") /\ UNCHANGED pending /\ req'[h].login = req[h].login
              /\ pending[req[h].login].mail # 0
              /\ req'[h].code = MailCode(req[h].login, pending[req[h].login].mail)
<1> USE DEF Young, At
<1>0. Fielded /\ req[h].login \in 0 .. seen.logins /\ seen.logins \in Nat
  BY DEF CountInv, Room, KnownInv
<1>1. CASE CheckAdminPassword(h)
  <2>1. CASE Ends(h)
    BY <2>1 DEF Ends, Becomes
  <2>2. CASE /\ Becomes(h, "enabled", seen.logins + 1, <<>>)
             /\ seen' = [seen EXCEPT !.logins = @ + 1,
                                     !.cred = [@ EXCEPT ![seen.logins + 1] = cred]]
    <3>1. seen'.logins = seen.logins + 1
      BY <1>0, <2>2 DEF Fielded, Fields
    <3>2. UNCHANGED pending
      BY <1>1 DEF CheckAdminPassword
    <3> QED
      BY <2>2, <3>1, <3>2 DEF Becomes
  <2> QED
    BY <1>1, <2>1, <2>2, LoginLands
<1>2. CASE TOTPEnabled(h)
  <2>1. Young(h)
    BY <1>2 DEF TOTPEnabled
  <2> QED
    BY <1>2, <2>1, LoginLands DEF Goes, Becomes
<1>3. CASE GetTOTPSecret(h) \/ GetTOTPLastCounter(h)
  BY <1>3, CodeLands DEF Ends, Goes, Becomes
<1>4. CASE ReadBackupCodes(h)
  <2>1. CASE \E n \in totp.codes : Becomes(h, "setcodes", req[h].login, <<"rest", n, totp.codes \ {n}>>)
    BY <2>1 DEF Becomes
  <2>2. CASE Goes(h, AfterCodes(h))
    <3>2. req[h].login # 0 => req[h].login \in Logins
      <4>1. seen.logins <= MaxRequests + 1
        <5>1. Cardinality(Waiting("password")) \in Nat
          BY FS_CardinalityType DEF CountInv, Room
        <5> QED
          BY <5>1, SignInAssumption DEF CountInv, Room, SignInAssumption
      <4> QED
        BY <1>0, <4>1, SignInAssumption DEF Logins, SignInAssumption
    <3> QED
      BY <2>2, <3>2 DEF Goes, Becomes, AfterCodes
  <2> QED
    BY <1>4, <2>1, <2>2, BackupLands
<1>5. CASE CompareMailCode(h)
  <2>1. CASE Ends(h)
    BY <2>1 DEF Ends, Becomes
  <2>2. CASE /\ Goes(h, "dropmail")
             /\ pending[req[h].login].mail # 0
             /\ req[h].code = MailCode(req[h].login, pending[req[h].login].mail)
    <3>1. At(h, "mail") /\ UNCHANGED pending
      BY <1>5 DEF CompareMailCode
    <3> QED
      BY <2>2, <3>1 DEF Goes, Becomes
  <2> QED
    BY <1>5, <2>1, <2>2, CodeLands
<1>6. CASE ReadPending(h)
  BY <1>6, SettingLands DEF Ends, Becomes
<1>7. CASE Goes(h, "on2")
  BY <1>7 DEF Goes, Becomes
<1> QED
  BY <1>1, <1>2, <1>3, <1>4, <1>5, <1>6, <1>7, Enters

\* What was sent to a login stays sent.
Sent == \A t \in Logins : pending[t].sent <= pending'[t].sent

LEMMA MailStep ==
  ASSUME CountInv, CountInv', KnownInv, TypeInv, MailInv, NEW h \in Handlers, HandlerStep(h)
  PROVE  MailInv'
<1>0. /\ Uses(h) /\ pending \in [Logins -> Entry] /\ seen.logins \in Nat
      /\ seen.logins <= seen'.logins
  BY StepUses DEF KnownInv, CountInv, Room, Uses
<1>1. \A g \in Handlers : g # h => req'[g] = req[g]
  BY <1>0 DEF Uses, Becomes
<1>2. \A t \in Logins : pending[t].sent \in Nat /\ pending[t].mail \in Nat
  BY <1>0 DEF Entry
<1>3. /\ \A t \in Logins : pending'[t].mail <= pending'[t].sent
      /\ \A t \in Logins : pending[t].sent <= pending'[t].sent
                           \/ (Young(h) /\ t = req[h].login /\ pending[t].sent = 0)
      /\ \A t \in Logins : pending[t] = NoEntry =>
            \/ pending'[t] = NoEntry
            \/ t = req[h].login /\ ((Young(h) /\ Ends(h)) \/ At(h, "code"))
      /\ \A t \in Logins : pending'[t].sent \in Nat
  <2>1. CASE UNCHANGED pending
    BY <1>2, <2>1 DEF MailInv
  <2>2. CASE /\ req[h].login \in Logins /\ Touches(req[h].login)
             /\ pending'[req[h].login].sent = pending[req[h].login].sent
             /\ pending'[req[h].login].mail \in {0, pending[req[h].login].mail}
             /\ pending[req[h].login] = NoEntry => pending'[req[h].login] = NoEntry
    BY <1>2, <2>2 DEF MailInv, Touches
  <2>3. CASE /\ Young(h) /\ Ends(h) /\ Touches(req[h].login)
             /\ pending'[req[h].login].sent = 0 /\ pending'[req[h].login].mail = 0
    <3>1. pending[req[h].login] = NoEntry
      BY <2>3 DEF MailInv, Alike
    <3>2. pending[req[h].login].sent = 0
      BY <3>1 DEF NoEntry
    <3> QED
      BY <1>2, <2>3, <3>2 DEF MailInv, Touches
  <2>4. CASE Mails(h)
    BY <1>2, <2>4 DEF MailInv, Touches, Mails
  <2> QED
    BY <2>1, <2>2, <2>3, <2>4, StepMails
<1>4. Sent
  BY <1>2, <1>3 DEF Sent
<1>5. \A t \in Logins : t > seen'.logins => pending'[t] = NoEntry
  <2> SUFFICES ASSUME NEW t \in Logins, t > seen'.logins PROVE pending'[t] = NoEntry
    OBVIOUS
  <2>1. t > seen.logins
    BY <1>0, SignInAssumption DEF Logins, SignInAssumption, CountInv, Room
  <2>2. pending[t] = NoEntry
    BY <2>1 DEF MailInv
  <2>3. t # req[h].login
    BY <1>0, <2>1, SignInAssumption DEF KnownInv, Logins, SignInAssumption
  <2> QED
    BY <1>3, <2>2, <2>3
<1>6. \A code \in seen'.spent :
        code[1] = "mail" => code[2] \in Logins /\ code[3] \in 1 .. pending'[code[2]].sent
  <2>1. ASSUME NEW t \in Logins, NEW k \in 1 .. pending[t].sent
        PROVE  k \in 1 .. pending'[t].sent
    BY <1>2, <1>4, <1>3, <2>1 DEF Sent
  <2>2. ASSUME NEW code, Pays(h, code), code[1] = "mail"
        PROVE  code[2] \in Logins /\ code[3] \in 1 .. pending[code[2]].sent
    <3>1. CASE At(h, "setlast") /\ code = req[h].code
      <4>1. code = AuthCode(code[2], code[3])
        BY <3>1 DEF TypeInv, CodeTypes, At
      <4>2. code[1] = "totp"
        BY <4>1, Kinds
      <4> QED
        BY <2>2, <4>2
    <3>2. CASE code = BackupCode(req[h].code[2])
      BY <2>2, <3>2, Kinds
    <3>3. CASE At(h, "dropmail") /\ code = req[h].code
      BY <3>3 DEF MailInv, Alike
    <3> QED
      BY <2>2, <3>1, <3>2, <3>3 DEF Pays
  <2>3. ASSUME NEW code \in seen'.spent, code[1] = "mail"
        PROVE  code[2] \in Logins /\ code[3] \in 1 .. pending[code[2]].sent
    <3>1. code \in seen.spent \/ Pays(h, code)
      <4>1. CASE seen'.spent = seen.spent
        BY <2>3, <4>1
      <4>2. CASE \E other : Pays(h, other)
        <5>1. PICK other : Pays(h, other)
          BY <4>2
        <5>2. code \in seen.spent \/ code = other
          BY <2>3, <5>1 DEF Pays
        <5> QED
          BY <5>1, <5>2
      <4> QED
        BY <4>1, <4>2, StepSpends
    <3> QED
      BY <2>2, <2>3, <3>1 DEF MailInv
  <2> QED
    BY <2>1, <2>3
<1>7. ASSUME NEW g \in Handlers PROVE Alike(g)'
  <2>1. ASSUME Young(g)'
        PROVE  /\ req'[g].login \in Logins /\ pending'[req'[g].login] = NoEntry
               /\ \A f \in Handlers : Young(f)' /\ req'[f].login = req'[g].login => f = g
    <3>1. ASSUME NEW f \in Handlers, Young(f)'
          PROVE  \/ Young(f) /\ req'[f].login = req[f].login
                 \/ /\ f = h /\ req'[f].login = seen.logins + 1
                    /\ seen'.logins = seen.logins + 1 /\ UNCHANGED pending
      <4>1. CASE f = h
        BY <3>1, <4>1, MailLands
      <4>2. CASE f # h
        BY <1>1, <3>1, <4>2 DEF Young
      <4> QED
        BY <4>1, <4>2
    <3>2. \A f \in Handlers : req[f].login \in 0 .. seen.logins
      BY DEF KnownInv
    <3>3. ASSUME NEW f \in Handlers, Young(f)', req'[f].login = req'[g].login PROVE f = g
      BY <1>0, <2>1, <3>1, <3>2, <3>3 DEF MailInv, Alike
    <3>4. CASE Young(g) /\ req'[g].login = req[g].login
      <4>1. /\ req[g].login \in Logins /\ pending[req[g].login] = NoEntry
            /\ \A f \in Handlers : Young(f) /\ req[f].login = req[g].login => f = g
        BY <3>4 DEF MailInv, Alike
      <4>2. ~Ends(h) \/ g # h
        BY <2>1 DEF Ends, Becomes, Young
      <4>3. At(h, "code") => req[g].login # req[h].login
        BY <3>4 DEF MailInv, Alike
      <4>4. pending'[req[g].login] = NoEntry
        BY <1>3, <4>1, <4>2, <4>3, <3>4
      <4> QED
        BY <3>3, <3>4, <4>1, <4>4
    <3>5. CASE /\ g = h /\ req'[g].login = seen.logins + 1
               /\ seen'.logins = seen.logins + 1 /\ UNCHANGED pending
      <4>1. seen.logins + 1 \in Logins
        <5>1. Cardinality(Waiting("password")') \in Nat
          BY FS_CardinalityType DEF CountInv, Room
        <5>2. seen'.logins <= MaxRequests + 1
          BY <5>1, SignInAssumption DEF CountInv, Room, SignInAssumption
        <5> QED
          BY <1>0, <3>5, <5>2, SignInAssumption DEF Logins, SignInAssumption
      <4>2. pending[seen.logins + 1] = NoEntry
        BY <1>0, <4>1 DEF MailInv
      <4> QED
        BY <3>3, <3>5, <4>1, <4>2
    <3> QED
      BY <2>1, <3>1, <3>4, <3>5
  <2>2. At(g, "mail")' \/ At(g, "dropmail")' => req'[g].login \in Logins
    <3>1. CASE g # h
      BY <1>1, <3>1 DEF MailInv, Alike, At
    <3>2. CASE g = h
      BY <3>2, MailLands DEF MailInv, Alike
    <3> QED
      BY <3>1, <3>2
  <2>3. ASSUME At(g, "dropmail")'
        PROVE  /\ req'[g].code[1] = "mail" /\ req'[g].code[2] = req'[g].login
               /\ req'[g].code[3] \in 1 .. pending'[req'[g].login].sent
    <3>1. CASE g # h
      <4>1. /\ req[g].code[1] = "mail" /\ req[g].code[2] = req[g].login
            /\ req[g].code[3] \in 1 .. pending[req[g].login].sent /\ req[g].login \in Logins
            /\ req'[g] = req[g]
        BY <1>1, <2>3, <3>1 DEF MailInv, Alike, At
      <4> QED
        BY <1>2, <1>3, <4>1
    <3>2. CASE g = h
      <4>1. /\ At(h, "mail") /\ UNCHANGED pending /\ req'[h].login = req[h].login
            /\ pending[req[h].login].mail # 0
            /\ req'[h].code = MailCode(req[h].login, pending[req[h].login].mail)
        BY <2>3, <3>2, MailLands
      <4>2. req[h].login \in Logins
        BY <4>1 DEF MailInv, Alike
      <4>3. pending[req[h].login].mail \in 1 .. pending[req[h].login].sent
        BY <1>2, <4>1, <4>2 DEF MailInv
      <4> QED
        BY <3>2, <4>1, <4>3, Kinds
    <3> QED
      BY <3>1, <3>2
  <2>4. ASSUME At(g, "code")'
        PROVE  /\ req'[g].login \in Logins
               /\ \A f \in Handlers : Young(f)' => req'[f].login # req'[g].login
    <3>1. CASE g # h
      <4>1. At(g, "code") /\ req'[g] = req[g]
        BY <1>1, <2>4, <3>1 DEF At
      <4>2. /\ req[g].login \in Logins /\ req[g].login <= seen.logins
            /\ \A f \in Handlers : Young(f) => req[f].login # req[g].login
        BY <1>0, <4>1 DEF MailInv, Alike, KnownInv
      <4>3. ASSUME NEW f \in Handlers, Young(f)'
            PROVE  \/ Young(f) /\ req'[f].login = req[f].login
                   \/ req'[f].login = seen.logins + 1
        BY <1>1, <4>3, MailLands DEF Young
      <4> QED
        BY <1>0, <4>1, <4>2, <4>3
    <3>2. CASE g = h
      <4>1. PICK t \in Logins : Shown(t) /\ req'[h].login = t
        BY <2>4, <3>2, MailAsked
      <4>2. pending[t] # NoEntry
        BY <4>1 DEF Shown, NoEntry
      <4>3. ASSUME NEW f \in Handlers, Young(f)' PROVE req'[f].login # t
        <5>1. f # h
          BY <2>4, <3>2, <4>3 DEF Young, At
        <5>2. Young(f) /\ req'[f] = req[f]
          BY <1>1, <4>3, <5>1 DEF Young
        <5> QED
          BY <4>2, <5>2 DEF MailInv, Alike
      <4> QED
        BY <3>2, <4>1, <4>3
    <3> QED
      BY <3>1, <3>2
  <2> QED
    BY <2>1, <2>2, <2>3, <2>4 DEF Alike
<1> QED
  BY <1>3, <1>5, <1>6, <1>7 DEF MailInv

LEMMA MailOther ==
  ASSUME CountInv, KnownInv, MailInv, OtherStep
  PROVE  MailInv'
<1>1. /\ req' = req /\ seen'.logins = seen.logins
      /\ \A t \in Logins : /\ pending'[t].sent = pending[t].sent
                           /\ pending'[t].mail = pending[t].mail
                           /\ pending'[t] = pending[t] \/ pending[t].live
  BY OtherTouches
<1>2. seen'.spent = seen.spent
  <2>1. CASE StartTOTPEnrollment
    BY <2>1 DEF StartTOTPEnrollment, CountInv, Fielded, Fields
  <2> QED
    BY <2>1, OtherPlain DEF Plain, CountInv
<1>3. \A t \in Logins : pending[t] = NoEntry => pending'[t] = NoEntry
  BY <1>1 DEF NoEntry
<1> QED
  BY <1>1, <1>2, <1>3 DEF MailInv, Alike, Young, At

-----------------------------------------------------------------------------
(* Each code lets in once.                                                 *)

Clean == seen.mishaps \cap {"overlap", "kept", "reopened"} = {}
Alone(pc) == \A g, h \in Handlers : At(g, pc) /\ At(h, pc) => g = h
Fresh(n) == BackupCode(n) \notin seen.spent

\* A code that was accepted but is not spent yet has not been spent before.
Unspent(h) ==
  /\ At(h, "setlast") => req[h].code \notin seen.spent /\ req[h].code[3] > totp.last
  /\ At(h, "setcodes") => Fresh(req[h].code[2]) /\ \A n \in req[h].code[3] : Fresh(n)
  /\ At(h, "dropmail") => req[h].code \notin seen.spent
Once ==
  /\ seen.twice = {}
  /\ Alone("setlast") /\ Alone("setcodes") /\ Alone("dropmail")
  /\ ~Reopens(totp)
  /\ \A n \in totp.codes : Fresh(n)
  /\ \A t \in Logins : pending[t].mail # 0 => MailCode(t, pending[t].mail) \notin seen.spent
  /\ \A h \in Handlers : Unspent(h)
OnceInv == Clean => Once

LEMMA OnceInit == Init => OnceInv
<1> SUFFICES ASSUME Init PROVE Once
  BY DEF OnceInv
<1>1. seen.spent = {} /\ seen.twice = {} /\ \A h \in Handlers : req[h].pc = "idle"
  BY DEF Init, Idle
<1> QED
  BY <1>1 DEF Once, Alone, Fresh, Unspent, Reopens, At

\* What is known of a request that comes to a check, or past one.
LEMMA OnceLands ==
  ASSUME CountInv, KnownInv, TypeInv, MailInv, NEW h \in Handlers, HandlerStep(h), Clean'
  PROVE  /\ At(h, "last")' =>
              /\ GetTOTPSecret(h) /\ req'[h].code[2] = totp.secret
              /\ totp' = totp /\ seen'.spent = seen.spent
         /\ At(h, "setlast")' =>
              /\ At(h, "last") /\ req'[h].code = req[h].code /\ req[h].code[3] > totp.last
              /\ totp' = totp /\ seen'.spent = seen.spent /\ ~Others(h, "setlast")
         /\ At(h, "setcodes")' =>
              /\ \E n \in totp.codes :
                   req'[h].code[2] = n /\ req'[h].code[3] = totp.codes \ {n}
              /\ totp' = totp /\ seen'.spent = seen.spent /\ ~Others(h, "setcodes")
         /\ At(h, "dropmail")' => seen'.spent = seen.spent /\ ~Others(h, "dropmail")
<1>0. /\ Fielded
      /\ \A condition : Note(When(condition, "overlap")) =>
            ~condition /\ seen'.spent = seen.spent
  <2>1. Fielded
    BY DEF CountInv
  <2>2. ASSUME NEW condition, Note(When(condition, "overlap"))
        PROVE  ~condition /\ seen'.spent = seen.spent
    <3>1. When(condition, "overlap") \subseteq seen'.mishaps /\ Plain
      BY <2>1, <2>2, Plainly
    <3> QED
      BY <3>1 DEF Plain, When, Clean
  <2> QED
    BY <2>1, <2>2
<1>1. CASE GetTOTPSecret(h)
  <2>1. totp' = totp
    BY <1>1 DEF GetTOTPSecret, store
  <2>2. CASE Goes(h, "last") /\ Validates(totp.secret, req[h].code)
    <3>1. PICK c \in Near : req[h].code = AuthCode(totp.secret, c)
      BY <2>2 DEF Validates
    <3>2. req'[h].code[2] = totp.secret /\ req'[h].pc = "last"
      BY <2>2, <3>1, Kinds DEF Goes, Becomes
    <3>3. seen'.spent = seen.spent
      <4>1. UNCHANGED seen \/ Fault({})
        BY <1>1 DEF GetTOTPSecret
      <4> QED
        BY <1>0, <4>1, Plainly DEF Plain
    <3> QED
      BY <1>1, <2>1, <3>2, <3>3 DEF At
  <2>3. CASE Ends(h) \/ Goes(h, "orpasskeys") \/ Goes(h, "codes")
    BY <2>3 DEF Ends, Goes, Becomes, At
  <2> QED
    BY <1>1, <2>2, <2>3, CodeLands
<1>2. CASE GetTOTPLastCounter(h)
  <2>1. totp' = totp /\ At(h, "last")
    BY <1>2 DEF GetTOTPLastCounter, store
  <2>2. CASE Ends(h)
    BY <2>2 DEF Ends, Becomes, At
  <2>3. CASE /\ Goes(h, "setlast") /\ req[h].code[3] > totp.last
             /\ Note(When(Others(h, "setlast"), "overlap"))
    <3>1. ~Others(h, "setlast") /\ seen'.spent = seen.spent
      BY <1>0, <2>3
    <3> QED
      BY <2>1, <2>3, <3>1 DEF Goes, Becomes, At
  <2> QED
    BY <1>2, <2>2, <2>3, CodeLands
<1>3. CASE ReadBackupCodes(h)
  <2>1. totp' = totp
    BY <1>3 DEF ReadBackupCodes, store
  <2>2. CASE Goes(h, AfterCodes(h))
    BY <2>2 DEF Goes, Becomes, At, AfterCodes
  <2>3. ASSUME NEW n \in totp.codes, Note(When(Others(h, "setcodes"), "overlap")),
               Becomes(h, "setcodes", req[h].login, <<"rest", n, totp.codes \ {n}>>)
        PROVE  /\ req'[h].pc = "setcodes" /\ req'[h].code[2] = n
               /\ req'[h].code[3] = totp.codes \ {n}
               /\ ~Others(h, "setcodes") /\ seen'.spent = seen.spent
    <3>1. req'[h].pc = "setcodes" /\ req'[h].code = <<"rest", n, totp.codes \ {n}>>
      BY <2>3 DEF Becomes
    <3>2. ~Others(h, "setcodes") /\ seen'.spent = seen.spent
      BY <1>0, <2>3
    <3> QED
      BY <3>1, <3>2
  <2> QED
    BY <1>3, <2>1, <2>2, <2>3, BackupLands DEF At
<1>4. CASE CompareMailCode(h)
  <2>1. CASE Ends(h)
    BY <2>1 DEF Ends, Becomes, At
  <2>2. CASE Goes(h, "dropmail") /\ Note(When(Others(h, "dropmail"), "overlap"))
    <3>1. ~Others(h, "dropmail") /\ seen'.spent = seen.spent
      BY <1>0, <2>2
    <3> QED
      BY <2>2, <3>1 DEF Goes, Becomes, At
  <2> QED
    BY <1>4, <2>1, <2>2, CodeLands
<1>5. CASE ReadPending(h) \/ CheckAdminPassword(h) \/ TOTPEnabled(h)
  BY <1>5, SettingLands, LoginLands DEF Ends, Goes, Becomes, At
<1>6. CASE Goes(h, "on2")
  BY <1>6 DEF Goes, Becomes, At
<1> QED
  BY <1>1, <1>2, <1>3, <1>4, <1>5, <1>6, Enters DEF At

\* The code of the requests that are past a check.
LEMMA CodesHeld ==
  ASSUME TypeInv, EnrollInv, MailInv, NEW h \in Handlers
  PROVE  /\ At(h, "last") \/ At(h, "setlast") =>
              req[h].code[1] = "totp" /\ req[h].code[3] \in Nat
         /\ At(h, "dropmail") => req[h].code[1] = "mail"
         /\ At(h, "setcodes") => req[h].code[2] \notin req[h].code[3]
<1>1. ASSUME At(h, "last") \/ At(h, "setlast")
      PROVE  req[h].code[1] = "totp" /\ req[h].code[3] \in Nat
  <2>1. req[h].code = AuthCode(req[h].code[2], req[h].code[3]) /\ req[h].code[3] \in Nat
    BY <1>1 DEF TypeInv, CodeTypes, At
  <2> QED
    BY <2>1, Kinds
<1> QED
  BY <1>1 DEF TypeInv, CodeTypes, MailInv, Alike

\* What a step adds to the codes that are spent, where nothing went wrong.
LEMMA Accepted ==
  ASSUME CountInv, TypeInv, EnrollInv, MailInv, Once, NEW h \in Handlers, HandlerStep(h),
         NEW code, Pays(h, code)
  PROVE  /\ code \notin seen.spent
         /\ code[1] = "totp" => /\ SetTOTPLastCounter(h) /\ At(h, "setlast")
                                /\ totp'.last = code[3] /\ totp'.secret = totp.secret
                                /\ totp'.codes = totp.codes
         /\ code[1] = "backup" => /\ WriteBackupCodes(h) /\ At(h, "setcodes")
                                  /\ code = BackupCode(req[h].code[2])
         /\ code[1] = "mail" => DropMailCode(h) /\ At(h, "dropmail") /\ code = req[h].code
         /\ code[1] \in {"totp", "backup", "mail"}
<1>1. CASE SetTOTPLastCounter(h) /\ At(h, "setlast") /\ code = req[h].code
  <2>1. code[1] = "totp" /\ code \notin seen.spent
    BY <1>1, CodesHeld DEF Once, Unspent
  <2>2. ~Ends(h) => totp' = [totp EXCEPT !.last = req[h].code[3]]
    BY <1>1, CodeLands
  <2>3. ~(Ends(h) /\ UNCHANGED totp /\ Fault({}))
    <3>1. Fault({}) => seen'.spent = seen.spent
      BY Plainly DEF Plain, CountInv
    <3> QED
      BY <2>1, <3>1 DEF Pays
  <2>4. totp' = [totp EXCEPT !.last = req[h].code[3]]
    BY <1>1, <2>3, CodeLands
  <2>5. /\ totp'.last = code[3] /\ totp'.secret = totp.secret /\ totp'.codes = totp.codes
    BY <1>1, <2>4 DEF CountInv, Fielded
  <2> QED
    BY <1>1, <2>1, <2>5
<1>2. CASE WriteBackupCodes(h) /\ At(h, "setcodes") /\ code = BackupCode(req[h].code[2])
  BY <1>2, Kinds DEF Once, Unspent, Fresh
<1>3. CASE DropMailCode(h) /\ At(h, "dropmail") /\ code = req[h].code
  BY <1>3, CodesHeld DEF Once, Unspent
<1> QED
  BY <1>1, <1>2, <1>3 DEF Pays

\* The steps that write the keys of the authenticator.
LEMMA KeysAfter ==
  ASSUME CountInv, TypeInv, EnrollInv, MailInv, Once, NEW h \in Handlers, HandlerStep(h), Clean'
  PROVE  /\ \/ totp'.secret = totp.secret /\ totp'.last >= totp.last
            \/ /\ WriteTOTPKey(h) /\ ~Reopens(totp') /\ seen'.spent = seen.spent
               /\ totp'.last \in {0, totp.last}
         /\ \A n \in totp'.codes : Fresh(n)'
         /\ totp'.last # totp.last =>
              \/ SetTOTPLastCounter(h) /\ At(h, "setlast")
              \/ totp'.last = 0 /\ seen'.spent = seen.spent
<1>0. Fielded /\ totp.last \in Nat
  BY DEF CountInv, TypeInv
<1>1. ASSUME NEW n, Fresh(n), ~(At(h, "setcodes") /\ n = req[h].code[2] /\ WriteBackupCodes(h))
      PROVE  Fresh(n)'
  <2>1. CASE seen'.spent = seen.spent
    BY <1>1, <2>1 DEF Fresh
  <2>2. CASE \E code : Pays(h, code)
    <3>1. PICK code : Pays(h, code)
      BY <2>2
    <3>2. code # BackupCode(n)
      BY <1>1, <3>1, Accepted, Kinds
    <3> QED
      BY <1>1, <3>1, <3>2 DEF Pays, Fresh
  <2> QED
    BY <2>1, <2>2, StepSpends
<1>2. CASE WriteBackupCodes(h)
  <2>1. At(h, "setcodes")
    BY <1>2 DEF WriteBackupCodes
  <2>2. totp' = [totp EXCEPT !.codes = req[h].code[3]]
    <3>1. "kept" \notin seen'.mishaps
      BY DEF Clean
    <3> QED
      BY <1>0, <1>2, <3>1, Histories
  <2>3. totp'.secret = totp.secret /\ totp'.last = totp.last /\ totp'.codes = req[h].code[3]
    BY <1>0, <2>2 DEF Fielded
  <2>4. \A n \in req[h].code[3] : Fresh(n) /\ n # req[h].code[2]
    BY <2>1, CodesHeld DEF Once, Unspent
  <2> QED
    BY <1>0, <1>1, <2>3, <2>4
<1>3. ASSUME ~WriteBackupCodes(h), NEW n, Fresh(n) PROVE Fresh(n)'
  BY <1>1, <1>3
<1>4. CASE totp' = totp /\ ~WriteBackupCodes(h)
  BY <1>0, <1>3, <1>4 DEF Once
<1>5. CASE /\ SetTOTPLastCounter(h) /\ totp'.last = req[h].code[3] /\ totp'.secret = totp.secret
           /\ totp'.codes = totp.codes /\ ~WriteBackupCodes(h)
  <2>1. At(h, "setlast")
    BY <1>5 DEF SetTOTPLastCounter
  <2>2. req[h].code[3] > totp.last /\ req[h].code[3] \in Nat
    BY <2>1, CodesHeld DEF Once, Unspent
  <2> QED
    BY <1>0, <1>3, <1>5, <2>1, <2>2 DEF Once
<1>6. CASE /\ WriteTOTPKey(h) /\ Keeps(h) /\ totp'.last \in {0, totp.last}
           /\ ~WriteBackupCodes(h)
           /\ \/ totp'.codes \in {{}, totp.codes} /\ ~At(h, "on2")
              \/ At(h, "on2") /\ totp'.codes = BackupsOf(req[h].code[2])
  <2>1. ~Reopens(totp') /\ seen'.spent = seen.spent
    BY <1>6 DEF Keeps, Clean
  <2>2. \A n \in totp'.codes : Fresh(n)
    <3>1. CASE totp'.codes \in {{}, totp.codes}
      BY <3>1 DEF Once
    <3>2. CASE At(h, "on2") /\ totp'.codes = BackupsOf(req[h].code[2])
      <4>1. BackupsOf(req[h].code[2]) \cap seen.issued = {}
        BY <3>2 DEF EnrollInv, Own, Confirming, At
      <4>2. \A n : ~Fresh(n) => n \in seen.issued
        BY Kinds DEF Fresh, EnrollInv
      <4> QED
        BY <3>2, <4>1, <4>2
    <3> QED
      BY <1>6, <3>1, <3>2
  <2> QED
    BY <1>3, <1>6, <2>1, <2>2
<1>7. WriteBackupCodes(h) => ~WriteTOTPKey(h) /\ ~SetTOTPLastCounter(h)
  BY DEF WriteBackupCodes, SetTOTPLastCounter, WriteTOTPKey, At, After
<1> QED
  BY <1>0, <1>2, <1>4, <1>5, <1>6, <1>7, TotpWritten

LEMMA StillOnce ==
  ASSUME CountInv, KnownInv, TypeInv, TypeInv', EnrollInv, MailInv, Once,
         NEW h \in Handlers, HandlerStep(h), Clean'
  PROVE  ~Reopens(totp)'
<1> SUFFICES ASSUME NEW code \in seen'.spent, code[1] = "totp", code[3] > totp'.last,
                    \/ code[2] = totp'.secret
                    \/ \E g \in Handlers : At(g, "last")' /\ req'[g].code = code
             PROVE  FALSE
  BY DEF Reopens
<1>1. \A g \in Handlers : g # h => req'[g] = req[g]
  BY StepUses DEF Uses, Becomes
<1>2. code \in seen.spent
  <2>1. CASE seen'.spent = seen.spent
    BY <2>1
  <2>2. CASE \E other : Pays(h, other)
    <3>1. PICK other : Pays(h, other)
      BY <2>2
    <3>2. totp.last \in Nat /\ totp'.last \in Nat
      BY DEF TypeInv
    <3>3. code # other
      <4>1. other[1] = "totp" => totp'.last = other[3]
        BY <3>1, Accepted
      <4> QED
        BY <3>2, <4>1
    <3> QED
      BY <3>1, <3>3 DEF Pays
  <2> QED
    BY <2>1, <2>2, StepSpends
<1>3. CASE /\ WriteTOTPKey(h) /\ ~Reopens(totp') /\ seen'.spent = seen.spent
  <2>1. ASSUME NEW g \in Handlers, At(g, "last")', req'[g].code = code PROVE FALSE
    <3>1. CASE g = h
      <4>1. GetTOTPSecret(h)
        BY <2>1, <3>1, OnceLands
      <4> QED
        BY <1>3, <4>1 DEF GetTOTPSecret, WriteTOTPKey, After, At
    <3>2. CASE g # h
      <4>1. At(g, "last") /\ req[g].code = code
        BY <1>1, <2>1, <3>2 DEF At
      <4> QED
        BY <1>2, <1>3, <4>1 DEF Reopens
    <3> QED
      BY <3>1, <3>2
  <2>2. code[2] # totp'.secret
    BY <1>2, <1>3 DEF Reopens
  <2> QED
    BY <2>1, <2>2
<1>4. CASE totp'.secret = totp.secret /\ totp'.last >= totp.last
  <2>1. code[3] > totp.last
    <3>1. totp.last \in Nat /\ totp'.last \in Nat
      BY DEF TypeInv
    <3>2. CASE totp'.last = totp.last
      BY <3>2
    <3>3. CASE totp'.last # totp.last
      <4>1. code[3] \in Int
        BY <1>2 DEF EnrollInv
      <4> QED
        BY <1>4, <3>1, <4>1
    <3> QED
      BY <3>2, <3>3
  <2>2. code[2] # totp.secret
    BY <1>2, <2>1 DEF Once, Reopens
  <2>3. ASSUME NEW g \in Handlers, At(g, "last")', req'[g].code = code PROVE FALSE
    <3>1. CASE g = h
      BY <1>4, <2>2, <2>3, <3>1, OnceLands
    <3>2. CASE g # h
      <4>1. At(g, "last") /\ req[g].code = code
        BY <1>1, <2>3, <3>2 DEF At
      <4> QED
        BY <1>2, <2>1, <4>1 DEF Once, Reopens
    <3> QED
      BY <3>1, <3>2
  <2> QED
    BY <1>4, <2>2, <2>3
<1> QED
  BY <1>3, <1>4, KeysAfter

LEMMA OnceStep ==
  ASSUME CountInv, KnownInv, TypeInv, TypeInv', EnrollInv, MailInv, OnceInv,
         NEW h \in Handlers, HandlerStep(h)
  PROVE  OnceInv'
<1> SUFFICES ASSUME Clean' PROVE Once'
  BY DEF OnceInv
<1>1. Once
  BY StepGrows DEF Clean, OnceInv
<1>2. \A g \in Handlers : g # h => req'[g] = req[g]
  BY StepUses DEF Uses, Becomes
<1>3. seen'.twice = {}
  <2>1. CASE seen'.twice = seen.twice
    BY <1>1, <2>1 DEF Once
  <2>2. ASSUME NEW code, Pays(h, code) PROVE seen'.twice = {}
    BY <1>1, <2>2, Accepted DEF Once, Pays
  <2> QED
    BY <2>1, <2>2, StepSpends
<1>4. ASSUME NEW pc, Alone(pc), At(h, pc)' => ~Others(h, pc) PROVE Alone(pc)'
  BY <1>2, <1>4 DEF Alone, At, Others
<1>5. Alone("setlast")' /\ Alone("setcodes")' /\ Alone("dropmail")'
  BY <1>1, <1>4, OnceLands DEF Once
<1>6. ASSUME NEW code, code \notin seen.spent,
             code[1] = "totp" => ~(SetTOTPLastCounter(h) /\ At(h, "setlast") /\ totp'.last = code[3]),
             code[1] = "backup" => ~At(h, "setcodes"),
             code[1] = "mail" => ~(DropMailCode(h) /\ At(h, "dropmail") /\ code = req[h].code)
      PROVE  code \notin seen'.spent
  <2>1. ASSUME NEW other, Pays(h, other) PROVE code # other
    BY <1>1, <1>6, <2>1, Accepted
  <2>2. CASE seen'.spent = seen.spent
    BY <1>6, <2>2
  <2>3. CASE \E other : Pays(h, other)
    BY <1>6, <2>1, <2>3 DEF Pays
  <2> QED
    BY <2>2, <2>3, StepSpends
<1>7. ASSUME NEW t \in Logins, pending'[t].mail # 0
      PROVE  MailCode(t, pending'[t].mail) \notin seen'.spent
  <2>1. CASE pending'[t].mail = pending[t].mail
    <3>1. MailCode(t, pending[t].mail) \notin seen.spent
      BY <1>1, <1>7, <2>1 DEF Once
    <3>2. DropMailCode(h) /\ At(h, "dropmail") => req[h].code # MailCode(t, pending[t].mail)
      <4>1. CASE req[h].login = t
        <5>1. DropMailCode(h) => pending' = [pending EXCEPT ![t].mail = 0]
          BY <4>1 DEF DropMailCode
        <5>2. DropMailCode(h) => pending'[t].mail = 0
          BY <5>1, EntryTouched DEF KnownInv
        <5> QED
          BY <1>7, <5>2
      <4>2. CASE req[h].login # t
        BY <4>2, Kinds DEF MailInv, Alike
      <4> QED
        BY <4>1, <4>2
    <3> QED
      BY <1>6, <2>1, <3>1, <3>2, Kinds
  <2>2. CASE pending'[t].mail = pending[t].sent + 1 /\ pending'[t].sent = pending[t].sent + 1
             /\ seen'.spent = seen.spent
    <3>1. pending[t].sent \in Nat
      BY DEF KnownInv, Entry
    <3>2. MailCode(t, pending[t].sent + 1) \in seen.spent => pending[t].sent + 1 \in 1 .. pending[t].sent
      BY Kinds DEF MailInv
    <3> QED
      BY <2>2, <3>1, <3>2
  <2>3. CASE UNCHANGED pending
    BY <2>1, <2>3
  <2>4. CASE /\ Touches(req[h].login) /\ pending'[req[h].login].mail \in {0, pending[req[h].login].mail}
    BY <1>7, <2>1, <2>4 DEF Touches
  <2>5. CASE Touches(req[h].login) /\ pending'[req[h].login].mail = 0
    BY <1>7, <2>1, <2>5 DEF Touches
  <2>6. CASE Mails(h)
    <3>1. PICK u \in Logins :
              /\ u = req[h].login /\ Goes(h, "send") /\ Touches(u)
              /\ pending'[u].sent = pending[u].sent + 1 /\ pending'[u].mail = pending[u].sent + 1
      BY <2>6 DEF Mails
    <3>2. CASE u # t
      BY <2>1, <3>1, <3>2 DEF Touches
    <3>3. seen'.spent = seen.spent
      <4>1. req'[h].pc = "send"
        BY <3>1 DEF Goes, Becomes
      <4>2. \A code : ~Pays(h, code)
        <5>1. SetTOTPLastCounter(h) \/ DropMailCode(h) => req'[h].pc # "send"
          BY CodeLands DEF Ends, Goes, Becomes
        <5>2. WriteBackupCodes(h) => req'[h].pc # "send"
          BY BackupLands DEF Goes, Becomes
        <5> QED
          BY <4>1, <5>1, <5>2 DEF Pays
      <4> QED
        BY <4>2, StepSpends
    <3> QED
      BY <2>2, <3>1, <3>2, <3>3
  <2> QED
    BY <2>3, <2>4, <2>5, <2>6, StepMails
<1>8. ASSUME NEW g \in Handlers PROVE Unspent(g)'
  <2>1. ASSUME At(g, "setlast")'
        PROVE  req'[g].code \notin seen'.spent /\ req'[g].code[3] > totp'.last
    <3>1. CASE g = h
      <4>1. /\ At(h, "last") /\ req'[h].code = req[h].code /\ req[h].code[3] > totp.last
            /\ totp' = totp /\ seen'.spent = seen.spent
        BY <2>1, <3>1, OnceLands
      <4>2. req[h].code \notin seen.spent
        BY <1>1, <4>1, CodesHeld DEF Once, Reopens
      <4> QED
        BY <3>1, <4>1, <4>2
    <3>2. CASE g # h
      <4>1. At(g, "setlast") /\ req'[g] = req[g]
        BY <1>2, <2>1, <3>2 DEF At
      <4>2. /\ req[g].code \notin seen.spent /\ req[g].code[3] > totp.last
            /\ req[g].code[1] = "totp" /\ req[g].code[3] \in Nat /\ totp.last \in Nat
        BY <1>1, <4>1, CodesHeld DEF Once, Unspent, TypeInv
      <4>3. ~At(h, "setlast")
        BY <1>1, <3>2, <4>1 DEF Once, Alone
      <4>4. totp'.last = totp.last \/ totp'.last = 0
        BY <1>1, <4>3, KeysAfter
      <4>5. req[g].code \notin seen'.spent
        BY <1>6, <4>2, <4>3
      <4> QED
        BY <4>1, <4>2, <4>4, <4>5
    <3> QED
      BY <3>1, <3>2
  <2>2. ASSUME At(g, "setcodes")'
        PROVE  /\ BackupCode(req'[g].code[2]) \notin seen'.spent
               /\ \A n \in req'[g].code[3] : BackupCode(n) \notin seen'.spent
    <3>1. CASE g = h
      <4>1. PICK n \in totp.codes :
              req'[h].code[2] = n /\ req'[h].code[3] = totp.codes \ {n}
        BY <2>2, <3>1, OnceLands
      <4>2. seen'.spent = seen.spent
        BY <2>2, <3>1, OnceLands
      <4> QED
        BY <1>1, <3>1, <4>1, <4>2 DEF Once, Fresh
    <3>2. CASE g # h
      <4>1. At(g, "setcodes") /\ req'[g] = req[g]
        BY <1>2, <2>2, <3>2 DEF At
      <4>2. ~At(h, "setcodes")
        BY <1>1, <3>2, <4>1 DEF Once, Alone
      <4>3. ASSUME NEW n, Fresh(n) PROVE BackupCode(n) \notin seen'.spent
        BY <1>6, <4>2, <4>3, Kinds DEF Fresh
      <4>4. Fresh(req[g].code[2]) /\ \A n \in req[g].code[3] : Fresh(n)
        BY <1>1, <4>1 DEF Once, Unspent
      <4> QED
        BY <4>1, <4>3, <4>4
    <3> QED
      BY <3>1, <3>2
  <2>3. ASSUME At(g, "dropmail")' PROVE req'[g].code \notin seen'.spent
    <3>1. CASE g = h
      <4>1. /\ At(h, "mail") /\ UNCHANGED pending
            /\ pending[req[h].login].mail # 0
            /\ req'[h].code = MailCode(req[h].login, pending[req[h].login].mail)
        BY <2>3, <3>1, MailLands
      <4>2. req[h].login \in Logins
        BY <4>1 DEF MailInv, Alike
      <4> QED
        BY <1>1, <2>3, <3>1, <4>1, <4>2, OnceLands DEF Once
    <3>2. CASE g # h
      <4>1. At(g, "dropmail") /\ req'[g] = req[g]
        BY <1>2, <2>3, <3>2 DEF At
      <4>2. ~At(h, "dropmail")
        BY <1>1, <3>2, <4>1 DEF Once, Alone
      <4>3. req[g].code \notin seen.spent /\ req[g].code[1] = "mail"
        BY <1>1, <4>1, CodesHeld DEF Once, Unspent
      <4> QED
        BY <1>6, <4>1, <4>2, <4>3
    <3> QED
      BY <3>1, <3>2
  <2> QED
    BY <2>1, <2>2, <2>3 DEF Unspent, Fresh
<1>9. \A n \in totp'.codes : Fresh(n)'
  BY <1>1, KeysAfter
<1>10. ~Reopens(totp)'
  BY <1>1, StillOnce
<1> QED
  BY <1>3, <1>5, <1>7, <1>8, <1>9, <1>10 DEF Once, Fresh

LEMMA OnceOther ==
  ASSUME CountInv, KnownInv, OnceInv, OtherStep
  PROVE  OnceInv'
<1>1. /\ seen'.spent = seen.spent /\ seen'.twice = seen.twice /\ seen.mishaps \subseteq seen'.mishaps
      /\ totp'.secret = totp.secret /\ totp'.codes = totp.codes /\ totp'.last = totp.last
  <2>1. CASE StartTOTPEnrollment
    BY <2>1 DEF StartTOTPEnrollment, CountInv, Fielded, Fields
  <2>2. CASE Plain /\ ~StartTOTPEnrollment
    <3>1. totp' = totp
      BY <2>2
      DEF OtherStep, BeginPasskeyLogin, BeginPasskeyEnrollment, DeletePasskey,
          RevokeOtherDevices, Logout, Tick, Sweep, vars, store
    <3> QED
      BY <2>2, <3>1 DEF Plain
  <2> QED
    BY <2>1, <2>2, OtherPlain DEF CountInv
<1>2. req' = req /\ \A t \in Logins : pending'[t].mail = pending[t].mail
  BY OtherTouches
<1> SUFFICES ASSUME Clean' PROVE Once'
  BY DEF OnceInv
<1>3. Once
  BY <1>1 DEF Clean, OnceInv
<1>4. ~Reopens(totp)'
  BY <1>1, <1>2, <1>3 DEF Once, Reopens, At
<1>5. \A h \in Handlers : Unspent(h)'
  BY <1>1, <1>2, <1>3 DEF Once, Unspent, Fresh, At
<1> QED
  BY <1>1, <1>2, <1>3, <1>4, <1>5 DEF Once, Alone, Fresh, At

-----------------------------------------------------------------------------
(* The account, from all of the above.                                     *)

AccountInv ==
  /\ SessionInv /\ LimitInv /\ CountInv /\ KnownInv /\ PasswordInv /\ FactorInv
  /\ TypeInv /\ EnrollInv /\ MailInv /\ OnceInv

LEMMA AccountInit == Init => AccountInv
BY SessionInit, LimitInit, CountInit, KnownInit, PasswordInit, FactorInit, TypeInit, EnrollInit,
   MailInit, OnceInit DEF AccountInv

LEMMA AccountNext == AccountInv /\ [Next]_vars => AccountInv'
<1> SUFFICES ASSUME AccountInv, [Next]_vars PROVE AccountInv'
  OBVIOUS
<1> USE DEF AccountInv
<1>1. SessionInv' /\ LimitInv' /\ CountInv' /\ KnownInv'
  BY SessionNext, LimitNext, CountNext, KnownNext
<1>2. CASE OtherStep
  BY <1>1, <1>2, PasswordOther, FactorOther, TypeOther, EnrollOther, MailOther, OnceOther
<1>3. ASSUME NEW h \in Handlers, HandlerStep(h) PROVE AccountInv'
  <2>1. PasswordInv' /\ FactorInv' /\ TypeInv'
    BY <1>3, PasswordStep, FactorStep, TypeStep
  <2>2. EnrollInv'
    <3>1. \A g \in Handlers : At(g, "dropmail") => req[g].code[1] = "mail"
      BY DEF MailInv, Alike
    <3> QED
      BY <1>3, <3>1, EnrollStep
  <2>3. MailInv' /\ OnceInv'
    BY <1>1, <1>3, <2>1, MailStep, OnceStep
  <2> QED
    BY <1>1, <2>1, <2>2, <2>3
<1> QED
  BY <1>2, <1>3, EveryStep

\* The stored keys, the limiter's entry and the tables are what the handlers
\* take them for; two requests never share a session's token.
THEOREM TypeCorrect == Spec => []TypeOK
<1>1. AccountInv => TypeOK
  BY TypeSuffices DEF AccountInv
<1> QED
  BY <1>1, AccountInit, AccountNext, PTL DEF Spec

\* UpdateAdminCredentials: a session of an old password lives on only if its
\* login had passed the password before, and was finished after.
THEOREM OldPassword == Spec => []OldPasswordEnds
<1>1. AccountInv => OldPasswordEnds
  BY PasswordSuffices DEF AccountInv
<1> QED
  BY <1>1, AccountInit, AccountNext, PTL DEF Spec

\* HandleLoginPost and verifySecondFactor ask for a factor that was in place
\* throughout the login, and ConfirmTOTP puts none in place whose secret did
\* not prove itself.
THEOREM Factors == Spec => []FactorsHold
<1>1. AccountInv => FactorsHold
  BY DEF AccountInv, FactorInv, FactorsHold
<1> QED
  BY <1>1, AccountInit, AccountNext, PTL DEF Spec

\* verifySecondFactor accepts no code twice, but for the overlaps, the failed
\* write and the forgotten counter that the property names.
THEOREM CodesOnce == Spec => []CodesWorkOnce
<1>1. AccountInv => CodesWorkOnce
  BY DEF AccountInv, OnceInv, Once, Clean, CodesWorkOnce
<1> QED
  BY <1>1, AccountInit, AccountNext, PTL DEF Spec
=============================================================================
