---------------------------- MODULE SessionProofs ----------------------------
(* What Session.tla promises, for any number of requests, passwords and tokens.

   The argument: a token that is issued is newer than every one there is (Numbers),
   so what becomes of the session is told by the step that issued it; memory and
   disk each know the password of their session (Known), a start that changes
   anything follows a failed save (Same), and a login that holds a password which
   is no longer stored knows that it is stale (Fresh).  For the lockout, the logins
   under way that will fail are counted with those that have (Budget). *)
EXTENDS Session, FiniteSetTheorems, TLAPS

Numbers ==
  /\ ended \subseteq 0..issued /\ given \subseteq 0..issued
  /\ state.session \in 0..issued /\ disk.session \in 0..issued

Same == ~unsaved => disk = state

Knows(s) == s.session \in given => proof[s.session] = s.hash \/ s.session \in crossed
Known == Knows(state) /\ Knows(disk)

Fresh ==
  \A r \in Requests :
    req[r].place = "login" /\ req[r].proved # None
      => req[r].stale \/ req[r].proved = state.hash

Wrong == {r \in Requests : req[r].place = "login" /\ req[r].proved = None}
Budget ==
  IF state.locked
    THEN tries + Cardinality(Wrong) < MaxFailures + Cardinality(Requests)
    ELSE tries <= state.failures /\ tries < MaxFailures

Inv == TypeOK /\ Numbers /\ Same /\ Known /\ Fresh /\ EndedStaysEnded /\ Budget

(* Steps that neither change the state nor answer a login. *)
Aside ==
  \/ \E r \in Requests : LoginArrives(r) \/ SetupArrives(r) \/ SettingsArrive(r)
                         \/ EnsureFails(r)
  \/ HttpsLooks \/ HttpsListens \/ HttpsFails
  \/ UNCHANGED vars

LEMMA AsideKeeps ==
  Aside => UNCHANGED <<state, disk, given, issued, proof, crossed, ended, unsaved,
                       reverted, tries>>
BY DEF Aside, LoginArrives, SetupArrives, SettingsArrive, EnsureFails, HttpsLooks,
       HttpsListens, HttpsFails, vars, history

(* Whichever way the save goes, a transaction keeps the types. *)
LEMMA UpdateTypes ==
  ASSUME TypeOK, NEW next \in AppState, Update(next)
  PROVE  /\ state' \in AppState /\ disk' \in AppState /\ unsaved' \in BOOLEAN
         /\ events' \in 0..MaxEvents
<1>1. state' = next /\ (disk' = next \/ disk' = disk)
  BY DEF Update
<1>2. unsaved' \in BOOLEAN
  BY DEF Update
<1>3. events' = events \/ (events + 1 <= MaxEvents /\ events' = events + 1)
  BY DEF Update, Count
<1>4. events' \in 0..MaxEvents
  BY <1>3, NumbersAssumption DEF TypeOK
<1> QED BY <1>1, <1>2, <1>4 DEF TypeOK

(* So does answering a request. *)
LEMMA FinishTypes ==
  ASSUME TypeOK, NEW r \in Requests, NEW hash, Finish(r, hash)
  PROVE  req' \in [Requests -> Pending]
<1>1. Idle \in Pending
  BY DEF Idle, Pending
<1>2. \A p \in Pending, late \in BOOLEAN : [p EXCEPT !.stale = late] \in Pending
  BY DEF Pending
<1>3. \A q \in Requests :
        [req[q] EXCEPT !.stale = @ \/ (req[q].place # "idle" /\ hash # state.hash)] \in Pending
  <2> TAKE q \in Requests
  <2> DEFINE late == req[q].stale \/ (req[q].place # "idle" /\ hash # state.hash)
  <2>1. req[q] \in Pending
    BY DEF TypeOK
  <2>2. late \in BOOLEAN
    BY <2>1 DEF Pending
  <2> HIDE DEF late
  <2>3. [req[q] EXCEPT !.stale = late] \in Pending
    BY <1>2, <2>1, <2>2
  <2> QED BY <2>3 DEF late
<1> QED BY <1>1, <1>3 DEF Finish

(* So does issuing a token. *)
LEMMA IssueTypes ==
  ASSUME TypeOK, issued < MaxTokens, NEW w \in Passwords \cup {None}, NEW late, NEW sent,
         Issue(w, late, sent)
  PROVE  /\ issued' \in Tokens /\ given' \subseteq Tokens /\ crossed' \subseteq Tokens
         /\ ended' \subseteq Tokens /\ proof' \in [Tokens -> Passwords \cup {None}]
         /\ reverted' \in BOOLEAN
<1>1. NewToken \in Tokens
  BY NumbersAssumption DEF TypeOK, Tokens, NewToken
<1>2. state.session \in Tokens
  BY DEF TypeOK, AppState
<1>3. proof' \in [Tokens -> Passwords \cup {None}]
  BY <1>1 DEF TypeOK, Issue
<1> QED BY <1>1, <1>2, <1>3 DEF TypeOK, Issue

LEMMA KeepTypes ==
  ASSUME TypeOK, KeepSession
  PROVE  /\ issued' \in Tokens /\ given' \subseteq Tokens /\ crossed' \subseteq Tokens
         /\ ended' \subseteq Tokens /\ proof' \in [Tokens -> Passwords \cup {None}]
         /\ reverted' \in BOOLEAN
BY DEF TypeOK, KeepSession

(* The empty state satisfies every part. *)
LEMMA InitInv == Init => Inv
<1> SUFFICES ASSUME Init PROVE Inv
  OBVIOUS
<1>1. TypeOK
  <2>1. 0 \in Tokens /\ 0 \in 0..MaxFailures /\ 0 \in 0..MaxEvents
    BY NumbersAssumption DEF Tokens
  <2>2. state \in AppState /\ disk \in AppState
    BY <2>1 DEF Init, AppState
  <2>3. Idle \in Pending
    BY DEF Idle, Pending
  <2>4. req \in [Requests -> Pending]
    BY <2>3 DEF Init
  <2> QED BY <2>1, <2>2, <2>4 DEF Init, TypeOK, NoListener
<1>2. Numbers /\ Same
  BY DEF Init, Numbers, Same
<1>3. Known /\ Fresh /\ EndedStaysEnded
  BY DEF Init, Known, Knows, Fresh, Idle, EndedStaysEnded
<1>4. Budget
  BY NumbersAssumption DEF Init, Budget
<1> QED BY <1>1, <1>2, <1>3, <1>4 DEF Inv

(* Every step keeps the types. *)
LEMMA TypeStep ==
  ASSUME TypeOK, [Next]_vars
  PROVE  TypeOK'
<1> USE DEF history
<1>1. ASSUME NEW r \in Requests, LoginArrives(r) PROVE TypeOK'
  <2>1. \A w \in Passwords :
          [Idle EXCEPT !.place = "login",
                       !.proved = IF w = state.hash THEN w ELSE None] \in Pending
    BY DEF Idle, Pending
  <2>2. PICK w \in Passwords :
          req' = [req EXCEPT ![r] =
                    [Idle EXCEPT !.place = "login",
                                 !.proved = IF w = state.hash THEN w ELSE None]]
    BY <1>1 DEF LoginArrives, VerifyPassword
  <2>3. [Idle EXCEPT !.place = "login",
                     !.proved = IF w = state.hash THEN w ELSE None] \in Pending
    BY <2>1
  <2>4. req' \in [Requests -> Pending]
    BY <2>2, <2>3 DEF TypeOK
  <2>5. events' \in 0..MaxEvents
    BY <1>1, NumbersAssumption DEF TypeOK, LoginArrives, Count
  <2> QED BY <1>1, <2>4, <2>5 DEF TypeOK, LoginArrives
<1>2. ASSUME NEW r \in Requests, LoginFails(r) PROVE TypeOK'
  <2> DEFINE f == IF state.failures < MaxFailures THEN state.failures + 1 ELSE MaxFailures
             s == [state EXCEPT !.failures = f, !.locked = @ \/ f >= MaxFailures]
  <2>1. f \in 0..MaxFailures
    BY NumbersAssumption DEF TypeOK, AppState
  <2>2. s \in AppState
    <3> HIDE DEF f
    <3> QED BY <2>1 DEF TypeOK, AppState
  <2>3. Update(s)
    BY <1>2 DEF LoginFails
  <2> HIDE DEF s
  <2>4. tries' \in Nat
    BY <1>2 DEF TypeOK, LoginFails
  <2>5. req' \in [Requests -> Pending]
    BY <1>2, FinishTypes DEF LoginFails
  <2> QED BY <1>2, <2>2, <2>3, <2>4, <2>5, UpdateTypes, KeepTypes DEF TypeOK, LoginFails
<1>3. ASSUME NEW r \in Requests, LoginSucceeds(r) PROVE TypeOK'
  <2> DEFINE s == [state EXCEPT !.session = NewToken, !.failures = 0, !.locked = FALSE]
  <2>1. NewToken \in Tokens /\ 0 \in 0..MaxFailures
    BY <1>3, NumbersAssumption DEF TypeOK, LoginSucceeds, Tokens, NewToken
  <2>2. s \in AppState /\ Update(s)
    BY <1>3, <2>1 DEF TypeOK, AppState, LoginSucceeds
  <2> HIDE DEF s
  <2>3. req[r].proved \in Passwords \cup {None}
    BY DEF TypeOK, Pending
  <2>4. req' \in [Requests -> Pending]
    BY <1>3, FinishTypes DEF LoginSucceeds
  <2> QED BY <1>3, <2>2, <2>3, <2>4, UpdateTypes, IssueTypes DEF TypeOK, LoginSucceeds
<1>4. ASSUME NEW r \in Requests, SetupArrives(r) PROVE TypeOK'
  <2>1. \A w \in Passwords, c \in Domains \cup {None} :
          [Idle EXCEPT !.place = "setup", !.new = w, !.cert = c] \in Pending
    BY DEF Idle, Pending
  <2>2. PICK w \in Passwords, c \in Domains \cup {None} :
          req' = [req EXCEPT ![r] = [Idle EXCEPT !.place = "setup", !.new = w, !.cert = c]]
    BY <1>4 DEF SetupArrives
  <2>3. [Idle EXCEPT !.place = "setup", !.new = w, !.cert = c] \in Pending
    BY <2>1
  <2>4. req' \in [Requests -> Pending]
    BY <2>2, <2>3 DEF TypeOK
  <2>5. events' \in 0..MaxEvents
    BY <1>4, NumbersAssumption DEF TypeOK, SetupArrives, Count
  <2> QED BY <1>4, <2>4, <2>5 DEF TypeOK, SetupArrives
<1>5. ASSUME NEW r \in Requests, SetupEnds(r) PROVE TypeOK'
  <2> DEFINE s == [done |-> TRUE, hash |-> req[r].new, session |-> NewToken,
                   failures |-> 0, locked |-> FALSE, cert |-> req[r].cert]
  <2>1. NewToken \in Tokens /\ 0 \in 0..MaxFailures
    BY <1>5, NumbersAssumption DEF TypeOK, SetupEnds, Tokens, NewToken
  <2>2. req[r].new \in Passwords \cup {None} /\ req[r].cert \in Domains \cup {None}
    BY DEF TypeOK, Pending
  <2>3. s \in AppState /\ Update(s)
    BY <1>5, <2>1, <2>2 DEF AppState, SetupEnds
  <2> HIDE DEF s
  <2>4. req' \in [Requests -> Pending]
    BY <1>5, FinishTypes DEF SetupEnds
  <2> QED BY <1>5, <2>2, <2>3, <2>4, UpdateTypes, IssueTypes DEF TypeOK, SetupEnds
<1>6. ASSUME NEW r \in Requests, SettingsArrive(r) PROVE TypeOK'
  <2>1. \A w \in Passwords \cup {None}, c \in Domains \cup {None} :
          [Idle EXCEPT !.place = "settings", !.proved = state.hash,
                       !.new = w, !.cert = c] \in Pending
    BY DEF Idle, Pending, TypeOK, AppState
  <2>2. PICK w \in Passwords \cup {None}, c \in Domains \cup {None} :
          req' = [req EXCEPT ![r] = [Idle EXCEPT !.place = "settings",
                                       !.proved = state.hash, !.new = w, !.cert = c]]
    BY <1>6 DEF SettingsArrive
  <2>3. [Idle EXCEPT !.place = "settings", !.proved = state.hash,
                     !.new = w, !.cert = c] \in Pending
    BY <2>1
  <2>4. req' \in [Requests -> Pending]
    BY <2>2, <2>3 DEF TypeOK
  <2>5. events' \in 0..MaxEvents
    BY <1>6, NumbersAssumption DEF TypeOK, SettingsArrive, Count
  <2> QED BY <1>6, <2>4, <2>5 DEF TypeOK, SettingsArrive
<1>7. ASSUME NEW r \in Requests, SettingsEnd(r) PROVE TypeOK'
  <2>1. req[r].new \in Passwords \cup {None} /\ req[r].cert \in Domains \cup {None}
    BY DEF TypeOK, Pending
  <2>2. CASE req[r].new = None
    <3>1. [state EXCEPT !.cert = req[r].cert] \in AppState
      BY <2>1 DEF TypeOK, AppState
    <3>2. req' \in [Requests -> Pending]
      BY <1>7, <2>2, FinishTypes DEF SettingsEnd
    <3> QED BY <1>7, <2>2, <3>1, <3>2, UpdateTypes, KeepTypes DEF TypeOK, SettingsEnd
  <2>3. CASE req[r].new # None
    <3> DEFINE s == [state EXCEPT !.hash = req[r].new, !.session = NewToken,
                                  !.cert = req[r].cert]
    <3>1. NewToken \in Tokens
      BY <1>7, <2>3, NumbersAssumption DEF TypeOK, SettingsEnd, Tokens, NewToken
    <3>2. s \in AppState
      BY <2>1, <3>1 DEF TypeOK, AppState
    <3>3. Update(s)
      BY <1>7, <2>3 DEF SettingsEnd
    <3> HIDE DEF s
    <3>4. req' \in [Requests -> Pending]
      BY <1>7, <2>3, FinishTypes DEF SettingsEnd
    <3> QED BY <1>7, <2>1, <2>3, <3>2, <3>3, <3>4, UpdateTypes, IssueTypes
            DEF TypeOK, SettingsEnd
  <2> QED BY <2>2, <2>3
<1>8. ASSUME NEW r \in Requests, EnsureFails(r) PROVE TypeOK'
  <2>1. Idle \in Pending
    BY DEF Idle, Pending
  <2> QED BY <1>8, <2>1 DEF TypeOK, EnsureFails
<1>9. CASE Logout
  <2> DEFINE s == [state EXCEPT !.session = NewToken]
  <2>1. NewToken \in Tokens
    BY <1>9, NumbersAssumption DEF TypeOK, Logout, Tokens, NewToken
  <2>2. s \in AppState /\ Update(s)
    BY <1>9, <2>1 DEF TypeOK, AppState, Logout
  <2> HIDE DEF s
  <2> QED BY <1>9, <2>2, UpdateTypes, IssueTypes DEF TypeOK, Logout
<1>10. CASE HttpsLooks
  BY <1>10 DEF TypeOK, HttpsLooks, AppState
<1>11. CASE HttpsListens
  BY <1>11 DEF TypeOK, HttpsListens
<1>12. CASE HttpsFails
  BY <1>12, NumbersAssumption DEF TypeOK, HttpsFails, NoListener, Count
<1>13. CASE LockoutEnds
  <2>1. \A s \in AppState : [s EXCEPT !.locked = FALSE] \in AppState
    BY DEF AppState
  <2>2. state' \in AppState /\ disk' \in AppState
    BY <1>13, <2>1 DEF TypeOK, LockoutEnds
  <2>3. tries' \in Nat
    BY <1>13 DEF TypeOK, LockoutEnds
  <2> QED BY <1>13, <2>2, <2>3 DEF TypeOK, LockoutEnds
<1>14. CASE Restart
  <2>1. Idle \in Pending
    BY DEF Idle, Pending
  <2>2. tries' \in Nat /\ events' \in 0..MaxEvents
    BY <1>14, NumbersAssumption DEF TypeOK, Restart, Count
  <2> QED BY <1>14, <2>1, <2>2 DEF TypeOK, Restart, NoListener
<1>15. CASE UNCHANGED vars
  BY <1>15 DEF TypeOK, vars
<1> QED
  BY <1>1, <1>2, <1>3, <1>4, <1>5, <1>6, <1>7, <1>8, <1>9, <1>10, <1>11, <1>12,
     <1>13, <1>14, <1>15 DEF Next

(* The session is a token that was issued, and so is every one that was given. *)
LEMMA NumbersStep ==
  ASSUME TypeOK, Numbers, [Next]_vars
  PROVE  Numbers'
<1>0. issued \in Nat
  BY NumbersAssumption DEF TypeOK, Tokens
<1>1. ASSUME NEW w, NEW late, NEW sent, NEW next,
             Issue(w, late, sent), Update(next), next.session = NewToken
      PROVE  Numbers'
  <2>1. issued' = issued + 1 /\ 0..issued \subseteq 0..issued' /\ NewToken \in 0..issued'
    BY <1>0, <1>1 DEF Issue, NewToken
  <2>2. state' = next /\ (disk' = next \/ disk' = disk)
    BY <1>1 DEF Update
  <2>3. state'.session = NewToken /\ disk'.session \in {NewToken, disk.session}
    BY <1>1, <2>2
  <2>4. ended' = ended \cup {state.session} /\ given' \subseteq given \cup {NewToken}
    BY <1>1 DEF Issue
  <2> HIDE DEF NewToken
  <2> QED BY <2>1, <2>3, <2>4 DEF Numbers
<1>2. ASSUME NEW next, KeepSession, Update(next), next.session = state.session
      PROVE  Numbers'
  BY <1>2 DEF Numbers, KeepSession, Update
<1>3. CASE Aside
  BY <1>3, AsideKeeps DEF Numbers
<1>4. ASSUME NEW r \in Requests, LoginFails(r) PROVE Numbers'
  <2> DEFINE f == IF state.failures < MaxFailures THEN state.failures + 1 ELSE MaxFailures
             s == [state EXCEPT !.failures = f, !.locked = @ \/ f >= MaxFailures]
  <2>1. Update(s) /\ KeepSession
    BY <1>4 DEF LoginFails
  <2>2. s.session = state.session
    BY DEF TypeOK, AppState
  <2> QED BY <1>2, <2>1, <2>2
<1>5. ASSUME NEW r \in Requests, LoginSucceeds(r) PROVE Numbers'
  <2> DEFINE s == [state EXCEPT !.session = NewToken, !.failures = 0, !.locked = FALSE]
  <2>1. Update(s) /\ Issue(req[r].proved, req[r].stale, Saved)
    BY <1>5 DEF LoginSucceeds
  <2>2. s.session = NewToken
    BY DEF TypeOK, AppState
  <2> QED BY <1>1, <2>1, <2>2
<1>6. ASSUME NEW r \in Requests, SetupEnds(r) PROVE Numbers'
  BY <1>1, <1>6 DEF SetupEnds
<1>7. ASSUME NEW r \in Requests, SettingsEnd(r) PROVE Numbers'
  <2>1. CASE req[r].new = None
    BY <1>2, <1>7, <2>1 DEF SettingsEnd, TypeOK, AppState
  <2>2. CASE req[r].new # None
    <3> DEFINE s == [state EXCEPT !.hash = req[r].new, !.session = NewToken,
                                  !.cert = req[r].cert]
    <3>1. Update(s) /\ Issue(req[r].new, FALSE, Saved)
      BY <1>7, <2>2 DEF SettingsEnd
    <3>2. s.session = NewToken
      BY DEF TypeOK, AppState
    <3> QED BY <1>1, <3>1, <3>2
  <2> QED BY <2>1, <2>2
<1>8. CASE Logout
  <2> DEFINE s == [state EXCEPT !.session = NewToken]
  <2>1. Update(s) /\ Issue(None, FALSE, FALSE)
    BY <1>8 DEF Logout
  <2>2. s.session = NewToken
    BY DEF TypeOK, AppState
  <2> QED BY <1>1, <2>1, <2>2
<1>9. CASE LockoutEnds
  <2>1. state'.session = state.session /\ disk'.session = disk.session
    BY <1>9 DEF LockoutEnds, TypeOK, AppState
  <2> QED BY <1>9, <2>1 DEF Numbers, LockoutEnds
<1>10. CASE Restart
  BY <1>10 DEF Numbers, Restart
<1> QED BY <1>3, <1>4, <1>5, <1>6, <1>7, <1>8, <1>9, <1>10 DEF Next, Aside

(* What differs from the disk has not been saved. *)
LEMMA SameStep ==
  ASSUME TypeOK, Same, [Next]_vars
  PROVE  Same'
<1>1. ASSUME NEW next, Update(next) PROVE Same'
  BY <1>1 DEF Same, Update
<1>2. CASE Aside
  BY <1>2, AsideKeeps DEF Same
<1>3. ASSUME NEW r \in Requests,
             LoginFails(r) \/ LoginSucceeds(r) \/ SetupEnds(r) \/ SettingsEnd(r)
      PROVE  Same'
  BY <1>1, <1>3 DEF LoginFails, LoginSucceeds, SetupEnds, SettingsEnd
<1>4. CASE Logout
  BY <1>1, <1>4 DEF Logout
<1>5. CASE LockoutEnds
  BY <1>5 DEF Same, LockoutEnds
<1>6. CASE Restart
  BY <1>6 DEF Same, Restart
<1> QED BY <1>2, <1>3, <1>4, <1>5, <1>6 DEF Next, Aside

(* A login under way holds the stored password, or knows that it does not. *)
LEMMA FreshStep ==
  ASSUME TypeOK, Fresh, [Next]_vars
  PROVE  Fresh'
<1>1. ASSUME NEW r \in Requests, NEW hash, Finish(r, hash), state'.hash = hash
      PROVE  Fresh'
  <2>1. req'[r] = Idle
    BY <1>1 DEF Finish
  <2>2. ASSUME NEW q \in Requests, q # r
        PROVE  /\ req'[q].place = req[q].place /\ req'[q].proved = req[q].proved
               /\ req'[q].stale <=> req[q].stale \/ (req[q].place # "idle" /\ hash # state.hash)
    <3>1. req'[q] = [req[q] EXCEPT !.stale = @ \/ (req[q].place # "idle" /\ hash # state.hash)]
      BY <1>1, <2>2 DEF Finish
    <3>2. req[q] \in Pending
      BY DEF TypeOK
    <3> QED BY <3>1, <3>2 DEF Pending
  <2>3. Idle.place = "idle"
    BY DEF Idle
  <2> QED BY <1>1, <2>1, <2>2, <2>3 DEF Fresh
<1>2. ASSUME NEW r \in Requests, LoginArrives(r) PROVE Fresh'
  <2>1. PICK w \in Passwords :
          req' = [req EXCEPT ![r] =
                    [Idle EXCEPT !.place = "login",
                                 !.proved = IF w = state.hash THEN w ELSE None]]
    BY <1>2 DEF LoginArrives, VerifyPassword
  <2>2. req'[r].proved = IF w = state.hash THEN w ELSE None
    BY <2>1 DEF TypeOK, Idle
  <2>3. \A q \in Requests : q # r => req'[q] = req[q]
    BY <2>1 DEF TypeOK
  <2>4. state' = state
    BY <1>2 DEF LoginArrives
  <2> QED BY <2>2, <2>3, <2>4 DEF Fresh
<1>3. ASSUME NEW r \in Requests, SetupArrives(r) \/ SettingsArrive(r) \/ EnsureFails(r)
      PROVE  Fresh'
  <2>1. /\ Idle.place # "login"
        /\ \A w, c : [Idle EXCEPT !.place = "setup", !.new = w, !.cert = c].place # "login"
        /\ \A h, w, c : [Idle EXCEPT !.place = "settings", !.proved = h,
                                    !.new = w, !.cert = c].place # "login"
    BY DEF Idle
  <2>2. state' = state
    BY <1>3 DEF SetupArrives, SettingsArrive, EnsureFails
  <2>3. req'[r].place # "login" /\ \A q \in Requests : q # r => req'[q] = req[q]
    <3>1. CASE SetupArrives(r)
      BY <2>1, <3>1 DEF TypeOK, SetupArrives
    <3>2. CASE SettingsArrive(r)
      BY <2>1, <3>2 DEF TypeOK, SettingsArrive
    <3>3. CASE EnsureFails(r)
      BY <2>1, <3>3 DEF TypeOK, EnsureFails
    <3> QED BY <1>3, <3>1, <3>2, <3>3
  <2> QED BY <2>2, <2>3 DEF Fresh
<1>4. ASSUME NEW r \in Requests, LoginFails(r) PROVE Fresh'
  <2>1. Finish(r, state.hash)
    BY <1>4 DEF LoginFails
  <2>2. state'.hash = state.hash
    BY <1>4 DEF LoginFails, Update, TypeOK, AppState
  <2> QED BY <1>1, <2>1, <2>2
<1>5. ASSUME NEW r \in Requests, LoginSucceeds(r) PROVE Fresh'
  <2>1. Finish(r, state.hash)
    BY <1>5 DEF LoginSucceeds
  <2>2. state'.hash = state.hash
    BY <1>5 DEF LoginSucceeds, Update, TypeOK, AppState
  <2> QED BY <1>1, <2>1, <2>2
<1>6. ASSUME NEW r \in Requests, SetupEnds(r) PROVE Fresh'
  BY <1>1, <1>6 DEF SetupEnds, Update
<1>7. ASSUME NEW r \in Requests, SettingsEnd(r) PROVE Fresh'
  <2>1. CASE req[r].new = None
    <3>1. state'.hash = state.hash /\ Finish(r, state.hash)
      BY <1>7, <2>1 DEF SettingsEnd, Update, TypeOK, AppState
    <3> QED BY <1>1, <3>1
  <2>2. CASE req[r].new # None
    <3>1. state'.hash = req[r].new /\ Finish(r, req[r].new)
      BY <1>7, <2>2 DEF SettingsEnd, Update, TypeOK, AppState
    <3> QED BY <1>1, <3>1
  <2> QED BY <2>1, <2>2
<1>8. CASE Logout
  <2>1. state'.hash = state.hash /\ req' = req
    BY <1>8 DEF Logout, Update, TypeOK, AppState
  <2> QED BY <2>1 DEF Fresh
<1>9. CASE HttpsLooks \/ HttpsListens \/ HttpsFails \/ UNCHANGED vars
  BY <1>9 DEF Fresh, HttpsLooks, HttpsListens, HttpsFails, vars
<1>10. CASE LockoutEnds
  <2>1. state'.hash = state.hash /\ req' = req
    BY <1>10 DEF LockoutEnds, TypeOK, AppState
  <2> QED BY <2>1 DEF Fresh
<1>11. CASE Restart
  BY <1>11 DEF Fresh, Restart, Idle
<1> QED BY <1>2, <1>3, <1>4, <1>5, <1>6, <1>7, <1>8, <1>9, <1>10, <1>11 DEF Next

(* Memory and disk each know the password of their session, or its login was crossed. *)
LEMMA KnownStep ==
  ASSUME TypeOK, Numbers, Known, Fresh, [Next]_vars
  PROVE  Known'
<1>0. issued \in Nat /\ NewToken \notin 0..issued /\ NewToken \notin given
  BY NumbersAssumption DEF TypeOK, Tokens, NewToken, Numbers
<1>1. ASSUME NEW next, NEW w, NEW late, NEW sent, issued < MaxTokens,
             Update(next), Issue(w, late, sent), next.session = NewToken,
             sent => ~unsaved' /\ (w = next.hash \/ late)
      PROVE  Known'
  <2>0. NewToken \in Tokens
    BY <1>0, <1>1, NumbersAssumption DEF Tokens, NewToken
  <2>1. proof'[NewToken] = w /\ \A t \in Tokens : t # NewToken => proof'[t] = proof[t]
    BY <1>1, <2>0 DEF TypeOK, Issue
  <2>2. given \subseteq given' /\ crossed \subseteq crossed'
    BY <1>1 DEF Issue
  <2>3. state' = next /\ (disk' = next \/ (disk' = disk /\ unsaved'))
    BY <1>1 DEF Update
  <2>4. next.session \in given' => proof'[next.session] = next.hash \/ next.session \in crossed'
    BY <1>0, <1>1, <2>1 DEF Issue
  <2>5. disk' = disk /\ unsaved' =>
          (disk.session \in given' =>
             proof'[disk.session] = disk.hash \/ disk.session \in crossed')
    <3>1. disk.session \in Tokens /\ disk.session # NewToken
      BY <1>0 DEF Numbers, TypeOK, AppState
    <3>2. unsaved' => given' = given
      BY <1>1 DEF Issue
    <3> QED BY <2>1, <2>2, <3>1, <3>2 DEF Known, Knows
  <2> QED BY <2>3, <2>4, <2>5 DEF Known, Knows
<1>2. ASSUME NEW next, KeepSession, Update(next), next.session = state.session,
             next.hash = state.hash
      PROVE  Known'
  BY <1>2 DEF Known, Knows, KeepSession, Update
<1>3. CASE Aside
  BY <1>3, AsideKeeps DEF Known, Knows
<1>4. ASSUME NEW r \in Requests, LoginFails(r) PROVE Known'
  <2> DEFINE f == IF state.failures < MaxFailures THEN state.failures + 1 ELSE MaxFailures
             s == [state EXCEPT !.failures = f, !.locked = @ \/ f >= MaxFailures]
  <2>1. Update(s) /\ KeepSession
    BY <1>4 DEF LoginFails
  <2>2. s.session = state.session /\ s.hash = state.hash
    BY DEF TypeOK, AppState
  <2> QED BY <1>2, <2>1, <2>2
<1>5. ASSUME NEW r \in Requests, LoginSucceeds(r) PROVE Known'
  <2> DEFINE s == [state EXCEPT !.session = NewToken, !.failures = 0, !.locked = FALSE]
  <2>1. Update(s) /\ Issue(req[r].proved, req[r].stale, Saved) /\ issued < MaxTokens
    BY <1>5 DEF LoginSucceeds
  <2>2. s.session = NewToken /\ s.hash = state.hash
    BY DEF TypeOK, AppState
  <2>3. req[r].proved = s.hash \/ req[r].stale
    BY <1>5, <2>2 DEF Fresh, LoginSucceeds
  <2> HIDE DEF s
  <2> QED BY <1>1, <2>1, <2>2, <2>3 DEF Saved
<1>6. ASSUME NEW r \in Requests, SetupEnds(r) PROVE Known'
  <2> DEFINE s == [done |-> TRUE, hash |-> req[r].new, session |-> NewToken,
                   failures |-> 0, locked |-> FALSE, cert |-> req[r].cert]
  <2>1. Update(s) /\ Issue(req[r].new, FALSE, Saved) /\ issued < MaxTokens
    BY <1>6 DEF SetupEnds
  <2>2. s.session = NewToken /\ s.hash = req[r].new
    OBVIOUS
  <2> HIDE DEF s
  <2> QED BY <1>1, <2>1, <2>2 DEF Saved
<1>7. ASSUME NEW r \in Requests, SettingsEnd(r) PROVE Known'
  <2>1. CASE req[r].new = None
    <3>1. Update([state EXCEPT !.cert = req[r].cert]) /\ KeepSession
      BY <1>7, <2>1 DEF SettingsEnd
    <3>2. /\ [state EXCEPT !.cert = req[r].cert].session = state.session
          /\ [state EXCEPT !.cert = req[r].cert].hash = state.hash
      BY DEF TypeOK, AppState
    <3> QED BY <1>2, <3>1, <3>2
  <2>2. CASE req[r].new # None
    <3> DEFINE s == [state EXCEPT !.hash = req[r].new, !.session = NewToken,
                                  !.cert = req[r].cert]
    <3>1. Update(s) /\ Issue(req[r].new, FALSE, Saved) /\ issued < MaxTokens
      BY <1>7, <2>2 DEF SettingsEnd
    <3>2. s.session = NewToken /\ s.hash = req[r].new
      BY DEF TypeOK, AppState
    <3> HIDE DEF s
    <3> QED BY <1>1, <3>1, <3>2 DEF Saved
  <2> QED BY <2>1, <2>2
<1>8. CASE Logout
  <2> DEFINE s == [state EXCEPT !.session = NewToken]
  <2>1. Update(s) /\ Issue(None, FALSE, FALSE) /\ issued < MaxTokens
    BY <1>8 DEF Logout
  <2>2. s.session = NewToken
    BY DEF TypeOK, AppState
  <2> HIDE DEF s
  <2> QED BY <1>1, <2>1, <2>2
<1>9. CASE LockoutEnds
  <2>1. /\ state'.session = state.session /\ disk'.session = disk.session
        /\ state'.hash = state.hash /\ disk'.hash = disk.hash
    BY <1>9 DEF LockoutEnds, TypeOK, AppState
  <2>2. UNCHANGED <<given, proof, crossed>>
    BY <1>9 DEF LockoutEnds
  <2> QED BY <2>1, <2>2 DEF Known, Knows
<1>10. CASE Restart
  BY <1>10 DEF Known, Knows, Restart
<1> QED BY <1>3, <1>4, <1>5, <1>6, <1>7, <1>8, <1>9, <1>10 DEF Next, Aside

(* A new token was never the session before; a start brings an ended one back only
   if something was not saved. *)
LEMMA EndedStep ==
  ASSUME TypeOK, Numbers, Same, EndedStaysEnded, [Next]_vars
  PROVE  EndedStaysEnded'
<1>0. NewToken \notin 0..issued
  BY NumbersAssumption DEF TypeOK, Tokens, NewToken
<1>1. ASSUME NEW w, NEW late, NEW sent, Issue(w, late, sent), state'.session = NewToken
      PROVE  EndedStaysEnded'
  BY <1>0, <1>1 DEF Issue, Numbers, EndedStaysEnded
<1>2. ASSUME state'.session = state.session, UNCHANGED <<ended, reverted>>
      PROVE  EndedStaysEnded'
  BY <1>2 DEF EndedStaysEnded
<1>3. CASE Aside
  BY <1>3, AsideKeeps DEF EndedStaysEnded
<1>4. ASSUME NEW r \in Requests, LoginFails(r) PROVE EndedStaysEnded'
  BY <1>2, <1>4 DEF LoginFails, Update, KeepSession, TypeOK, AppState
<1>5. ASSUME NEW r \in Requests, LoginSucceeds(r) PROVE EndedStaysEnded'
  BY <1>1, <1>5 DEF LoginSucceeds, Update, TypeOK, AppState
<1>6. ASSUME NEW r \in Requests, SetupEnds(r) PROVE EndedStaysEnded'
  BY <1>1, <1>6 DEF SetupEnds, Update
<1>7. ASSUME NEW r \in Requests, SettingsEnd(r) PROVE EndedStaysEnded'
  <2>1. CASE req[r].new = None
    BY <1>2, <1>7, <2>1 DEF SettingsEnd, Update, KeepSession, TypeOK, AppState
  <2>2. CASE req[r].new # None
    BY <1>1, <1>7, <2>2 DEF SettingsEnd, Update, TypeOK, AppState
  <2> QED BY <2>1, <2>2
<1>8. CASE Logout
  BY <1>1, <1>8 DEF Logout, Update, TypeOK, AppState
<1>9. CASE LockoutEnds
  BY <1>2, <1>9 DEF LockoutEnds, TypeOK, AppState
<1>10. CASE Restart
  BY <1>10 DEF EndedStaysEnded, Same, Restart
<1> QED BY <1>3, <1>4, <1>5, <1>6, <1>7, <1>8, <1>9, <1>10 DEF Next, Aside

(* Sets of requests can be counted. *)
LEMMA Counting ==
  \A W \in SUBSET Requests :
    /\ IsFiniteSet(W) /\ Cardinality(W) \in Nat
    /\ Cardinality(W) <= Cardinality(Requests)
    /\ \A V \in SUBSET W : Cardinality(V) \in Nat /\ Cardinality(V) <= Cardinality(W)
    /\ \A r \in W : Cardinality(W \ {r}) = Cardinality(W) - 1
<1> SUFFICES ASSUME NEW W \in SUBSET Requests
    PROVE  /\ IsFiniteSet(W) /\ Cardinality(W) \in Nat
           /\ Cardinality(W) <= Cardinality(Requests)
           /\ \A V \in SUBSET W : Cardinality(V) \in Nat /\ Cardinality(V) <= Cardinality(W)
           /\ \A r \in W : Cardinality(W \ {r}) = Cardinality(W) - 1
  OBVIOUS
<1>1. IsFiniteSet(W) /\ Cardinality(W) <= Cardinality(Requests)
  BY RequestsAssumption, FS_Subset
<1>2. Cardinality(W) \in Nat
  BY <1>1, FS_CardinalityType
<1>3. ASSUME NEW V \in SUBSET W
      PROVE  Cardinality(V) \in Nat /\ Cardinality(V) <= Cardinality(W)
  BY <1>1, FS_Subset, FS_CardinalityType
<1>4. ASSUME NEW r \in W PROVE Cardinality(W \ {r}) = Cardinality(W) - 1
  BY <1>1, FS_RemoveElement
<1> QED BY <1>1, <1>2, <1>3, <1>4

(* What has been tried, and while the login is locked what still will be, has room
   in the bound. *)
LEMMA BudgetStep ==
  ASSUME TypeOK, Same, Budget, [Next]_vars
  PROVE  Budget'
<1>0. /\ Wrong \in SUBSET Requests /\ Wrong' \in SUBSET Requests
      /\ Cardinality(Requests) \in Nat /\ Requests \in SUBSET Requests
      /\ tries \in Nat /\ MaxFailures \in Nat \ {0}
  BY Counting, NumbersAssumption DEF Wrong, TypeOK
<1>1. ASSUME UNCHANGED tries, state'.locked = state.locked,
             state'.failures = state.failures, state.locked => Wrong' \subseteq Wrong
      PROVE  Budget'
  <2>1. CASE state.locked
    <3>1. Cardinality(Wrong') <= Cardinality(Wrong) /\ Cardinality(Wrong') \in Nat
          /\ Cardinality(Wrong) \in Nat
      BY <1>0, <1>1, <2>1, Counting
    <3>2. tries + Cardinality(Wrong') < MaxFailures + Cardinality(Requests)
      BY <1>0, <2>1, <3>1 DEF Budget
    <3> QED BY <1>1, <2>1, <3>2 DEF Budget
  <2>2. CASE ~state.locked
    BY <1>1, <2>2 DEF Budget
  <2> QED BY <2>1, <2>2
<1>2. ASSUME tries' = 0, ~state'.locked, state'.failures \in Nat PROVE Budget'
  BY <1>0, <1>2 DEF Budget
<1>3. ASSUME NEW r \in Requests, NEW hash, Finish(r, hash)
      PROVE  Wrong' = Wrong \ {r}
  <2>1. req'[r] = Idle
    BY <1>3 DEF Finish
  <2>2. ASSUME NEW q \in Requests, q # r
        PROVE  req'[q].place = req[q].place /\ req'[q].proved = req[q].proved
    <3>1. req'[q] = [req[q] EXCEPT !.stale = @ \/ (req[q].place # "idle" /\ hash # state.hash)]
      BY <1>3, <2>2 DEF Finish
    <3>2. req[q] \in Pending
      BY DEF TypeOK
    <3> QED BY <3>1, <3>2 DEF Pending
  <2>3. Idle.place = "idle"
    BY DEF Idle
  <2> QED BY <2>1, <2>2, <2>3 DEF Wrong
<1>4. ASSUME NEW r \in Requests, LoginArrives(r) PROVE Budget'
  <2>1. UNCHANGED <<tries, state>> /\ ~state.locked
    BY <1>4 DEF LoginArrives, history
  <2> QED BY <1>1, <2>1
<1>5. ASSUME NEW r \in Requests, SetupArrives(r) \/ SettingsArrive(r) \/ EnsureFails(r)
      PROVE  Budget'
  <2>1. /\ Idle.place # "login"
        /\ \A w, c : [Idle EXCEPT !.place = "setup", !.new = w, !.cert = c].place # "login"
        /\ \A h, w, c : [Idle EXCEPT !.place = "settings", !.proved = h,
                                    !.new = w, !.cert = c].place # "login"
    BY DEF Idle
  <2>2. req'[r].place # "login" /\ \A q \in Requests : q # r => req'[q] = req[q]
    <3>1. CASE SetupArrives(r)
      BY <2>1, <3>1 DEF TypeOK, SetupArrives
    <3>2. CASE SettingsArrive(r)
      BY <2>1, <3>2 DEF TypeOK, SettingsArrive
    <3>3. CASE EnsureFails(r)
      BY <2>1, <3>3 DEF TypeOK, EnsureFails
    <3> QED BY <1>5, <3>1, <3>2, <3>3
  <2>3. Wrong' \subseteq Wrong
    BY <2>2 DEF Wrong
  <2>4. UNCHANGED <<tries, state>>
    BY <1>5 DEF SetupArrives, SettingsArrive, EnsureFails, history
  <2> QED BY <1>1, <2>3, <2>4
<1>6. CASE HttpsLooks \/ HttpsListens \/ HttpsFails \/ UNCHANGED vars
  <2>1. UNCHANGED <<tries, state, req>>
    BY <1>6 DEF HttpsLooks, HttpsListens, HttpsFails, history, vars
  <2>2. Wrong' = Wrong
    BY <2>1 DEF Wrong
  <2> QED BY <1>1, <2>1, <2>2
<1>7. ASSUME NEW r \in Requests, LoginFails(r) PROVE Budget'
  <2> DEFINE f == IF state.failures < MaxFailures THEN state.failures + 1 ELSE MaxFailures
             s == [state EXCEPT !.failures = f, !.locked = @ \/ f >= MaxFailures]
  <2>1. state' = s /\ tries' = tries + 1 /\ r \in Wrong
    BY <1>7 DEF LoginFails, Update, Wrong
  <2>2. s.failures = f /\ (s.locked <=> (state.locked \/ f >= MaxFailures))
    BY DEF TypeOK, AppState
  <2>3. /\ Cardinality(Wrong') = Cardinality(Wrong) - 1
        /\ Cardinality(Wrong) \in Nat /\ Cardinality(Wrong) <= Cardinality(Requests)
        /\ Cardinality(Wrong') \in Nat
    BY <1>0, <1>3, <1>7, <2>1, Counting DEF LoginFails
  <2>4. state.failures \in 0..MaxFailures
    BY DEF TypeOK, AppState
  <2>5. CASE s.locked
    <3>1. tries + 1 + Cardinality(Wrong') < MaxFailures + Cardinality(Requests)
      BY <1>0, <2>3 DEF Budget
    <3> QED BY <2>1, <2>5, <3>1 DEF Budget
  <2>6. CASE ~s.locked
    <3>1. ~state.locked /\ f < MaxFailures
      BY <1>0, <2>2, <2>4, <2>6
    <3>2. tries + 1 <= f /\ tries + 1 < MaxFailures
      BY <1>0, <2>4, <3>1 DEF Budget
    <3> QED BY <2>1, <2>2, <2>6, <3>2 DEF Budget
  <2> QED BY <2>5, <2>6
<1>8. ASSUME NEW r \in Requests, LoginSucceeds(r) PROVE Budget'
  BY <1>2, <1>8 DEF LoginSucceeds, Update, TypeOK, AppState
<1>9. ASSUME NEW r \in Requests, SetupEnds(r) PROVE Budget'
  BY <1>2, <1>9 DEF SetupEnds, Update
<1>10. ASSUME NEW r \in Requests, SettingsEnd(r) PROVE Budget'
  <2>1. PICK hash : Finish(r, hash)
    BY <1>10 DEF SettingsEnd
  <2>2. UNCHANGED tries /\ state'.locked = state.locked /\ state'.failures = state.failures
    BY <1>10 DEF SettingsEnd, Update, TypeOK, AppState
  <2> QED BY <1>1, <1>3, <2>1, <2>2
<1>11. CASE Logout
  <2>1. /\ UNCHANGED <<tries, req>>
        /\ state'.locked = state.locked /\ state'.failures = state.failures
    BY <1>11 DEF Logout, Update, TypeOK, AppState
  <2>2. Wrong' = Wrong
    BY <2>1 DEF Wrong
  <2> QED BY <1>1, <2>1, <2>2
<1>12. CASE LockoutEnds
  <2>1. CASE state.locked /\ state' = [state EXCEPT !.locked = FALSE] /\ tries' = 0
    BY <1>2, <2>1 DEF TypeOK, AppState
  <2>2. CASE UNCHANGED <<state, tries>>
    <3>1. Wrong' = Wrong
      BY <1>12 DEF LockoutEnds, Wrong
    <3> QED BY <1>1, <2>2, <3>1
  <2> QED BY <1>12, <2>1, <2>2 DEF LockoutEnds
<1>13. CASE Restart
  <2>1. Wrong' = {}
    BY <1>13 DEF Restart, Wrong, Idle
  <2>2. CASE unsaved
    <3>1. tries' = 0 /\ Cardinality(Wrong') = 0 /\ state'.failures \in Nat
      BY <1>13, <2>1, <2>2, FS_EmptySet DEF Restart, TypeOK, AppState
    <3> QED BY <1>0, <3>1 DEF Budget
  <2>3. CASE ~unsaved
    <3>1. state' = state /\ tries' = tries
      BY <1>13, <2>3 DEF Restart, Same
    <3> QED BY <1>1, <2>1, <3>1
  <2> QED BY <2>2, <2>3
<1> QED BY <1>4, <1>5, <1>6, <1>7, <1>8, <1>9, <1>10, <1>11, <1>12, <1>13 DEF Next

LEMMA StepInv == Inv /\ [Next]_vars => Inv'
BY TypeStep, NumbersStep, SameStep, KnownStep, FreshStep, EndedStep, BudgetStep DEF Inv

LEMMA Invariance == Spec => []Inv
BY InitInv, StepInv, PTL DEF Spec

(* Types, for any number of requests, passwords and tokens. *)
THEOREM TypeCorrect == Spec => []TypeOK
BY Invariance, PTL DEF Inv

(* A changed password ends the sessions of those who know only the old one, across
   failed saves and restarts, but for the login it was changed under
   (handler_setup.go:130-141, 213-218). *)
THEOREM SessionsKnowThePassword == Spec => []SessionKnowsPassword
<1>1. Inv => SessionKnowsPassword
  BY DEF Inv, Known, Knows, SessionKnowsPassword
<1> QED BY <1>1, Invariance, PTL

(* A session that was ended stays so, as long as the state can be saved
   (handler_setup.go:131-135, 145-148, 213-218). *)
THEOREM EndedSessionsStayEnded == Spec => []EndedStaysEnded
BY Invariance, PTL DEF Inv

(* The lockout lets no more wrong passwords through than the limit and the logins
   under way (handler_setup.go:101-135). *)
THEOREM LockoutHolds == Spec => []GuessesAreBounded
<1>1. Inv => GuessesAreBounded
  <2> SUFFICES ASSUME Inv PROVE GuessesAreBounded
    OBVIOUS
  <2>1. /\ Cardinality(Wrong) \in Nat /\ Cardinality(Requests) \in Nat /\ tries \in Nat
        /\ MaxFailures \in Nat
    BY Counting, NumbersAssumption DEF Wrong, Inv, TypeOK
  <2> QED BY <2>1 DEF Inv, Budget, GuessesAreBounded
<1> QED BY <1>1, Invariance, PTL
=============================================================================
