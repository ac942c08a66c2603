------------------------------ MODULE Session ------------------------------
(* Passwords, sessions, the login's lockout and the HTTPS listener: Setup, Login,
   Logout and UpdateSettings of internal/api/handler_setup.go, Server.auth, and
   serveHTTPS of cmd/easynode/main.go.  What Setup and UpdateSettings do to the
   nodes is the subject of Panel.tla.

   A handler checks its request on a snapshot of the state and changes the state
   in a later transaction.  In between it derives a key from the password, and
   Setup and UpdateSettings may wait minutes for certbot; nothing is locked
   meanwhile.  A password stands for its hash; session tokens, which util.Token
   never repeats, are numbered in the order of issue. *)
EXTENDS Naturals, FiniteSets

CONSTANTS
  Requests,     \* goroutines of Login, Setup and UpdateSettings
  Passwords,
  Domains,      \* names certbot may be asked for
  MaxFailures,  \* failures that lock the login: 5 in the code
  MaxTokens,    \* bound: tokens issued in one behaviour
  MaxEvents,    \* bound: requests, failures and crashes in one behaviour
  None

ASSUME NumbersAssumption == MaxFailures \in Nat \ {0} /\ MaxTokens \in Nat /\ MaxEvents \in Nat
ASSUME RequestsAssumption == IsFiniteSet(Requests)
ASSUME NothingAssumption == None \notin Passwords /\ None \notin Domains

VARIABLES
  state,       \* the part of AppState concerned, in memory
  disk,        \* the same in state.json
  req,         \* [Requests -> Pending]: requests between check and transaction
  https,       \* the loop of serveHTTPS: its place and its certificate
  given,       \* tokens that were sent to a browser
  issued,      \* the last token
  proof,       \* history: [Tokens -> password its receiver has proved or set]
  crossed,     \* history: tokens of logins the password changed under
  ended,       \* history: tokens that were the session and ceased to be it
  unsaved,     \* history: memory has changes whose save failed
  reverted,    \* history: the session is one that a start brought back
  tries,       \* history: wrong passwords since the lockout last ended, a login
               \* succeeded or the count was lost
  events       \* counter of the bound MaxEvents

history == <<proof, crossed, ended, reverted, tries>>
Tokens == 0..MaxTokens

vars == <<state, disk, req, https, given, issued, proof, crossed, ended, unsaved,
          reverted, tries, events>>

AppState == [done : BOOLEAN, hash : Passwords \cup {None}, session : Tokens,
             failures : 0..MaxFailures, locked : BOOLEAN, cert : Domains \cup {None}]

(* A request that has passed its checks: the password it has proved, the one it
   sets, the certificate it asks for, and whether the stored password has changed
   since it looked. *)
Pending == [place : {"idle", "login", "setup", "settings"},
            proved : Passwords \cup {None}, new : Passwords \cup {None},
            cert : Domains \cup {None}, stale : BOOLEAN]
Idle == [place |-> "idle", proved |-> None, new |-> None, cert |-> None, stale |-> FALSE]
NoListener == [place |-> "sleep", cert |-> None]

TypeOK ==
  /\ state \in AppState /\ disk \in AppState
  /\ req \in [Requests -> Pending]
  /\ https \in [place : {"sleep", "starting", "listening"}, cert : Domains \cup {None}]
  /\ given \subseteq Tokens /\ issued \in Tokens
  /\ crossed \subseteq Tokens /\ ended \subseteq Tokens
  /\ proof \in [Tokens -> Passwords \cup {None}]
  /\ unsaved \in BOOLEAN /\ reverted \in BOOLEAN
  /\ tries \in Nat
  /\ events \in 0..MaxEvents

(* store.Open has created state.json, with the hash of a token nobody has. *)
Init ==
  /\ state = [done |-> FALSE, hash |-> None, session |-> 0, failures |-> 0,
              locked |-> FALSE, cert |-> None]
  /\ disk = state
  /\ req = [r \in Requests |-> Idle]
  /\ https = NoListener
  /\ given = {} /\ issued = 0
  /\ proof = [t \in Tokens |-> None]
  /\ crossed = {} /\ ended = {}
  /\ unsaved = FALSE /\ reverted = FALSE
  /\ tries = 0
  /\ events = 0

Count(n) == events + n <= MaxEvents /\ events' = events + n

(* Store.Update: the new state is in memory whether or not it can be saved. *)
Update(next) ==
  /\ state' = next
  /\ \/ disk' = next /\ unsaved' = FALSE /\ UNCHANGED events
     \/ UNCHANGED disk /\ unsaved' = TRUE /\ Count(1)
NewToken == issued + 1
Saved == ~unsaved'

(* r is answered; whoever has looked at a password that is no longer stored is
   now working from a stale snapshot. *)
Finish(r, hash) ==
  req' = [q \in Requests |->
            IF q = r THEN Idle
            ELSE [req[q] EXCEPT !.stale = @ \/ (req[q].place # "idle" /\ hash # state.hash)]]

(* A new token becomes the session; it is sent to the browser that has proved or
   set the password w -- unless the save failed, or there is none to send it to. *)
Issue(w, late, sent) ==
  /\ issued' = NewToken
  /\ given' = IF sent THEN given \cup {NewToken} ELSE given
  /\ proof' = [proof EXCEPT ![NewToken] = w]
  /\ crossed' = IF late THEN crossed \cup {NewToken} ELSE crossed
  /\ ended' = ended \cup {state.session}
  /\ reverted' = FALSE

KeepSession == UNCHANGED <<given, issued, proof, crossed, ended, reverted>>

(* util.VerifyPassword: it is the password whose hash is stored. *)
VerifyPassword(w) == w = state.hash

(* Server.auth: some browser holds the session's token. *)
LoggedIn == state.session \in given

-----------------------------------------------------------------------------
(* Login. *)

(* Slip: the lockout is looked at only where failures are counted. *)
LoginAtAnyTime(r) ==
  /\ req[r].place = "idle"
  /\ state.done
  /\ \E w \in Passwords :
       req' = [req EXCEPT ![r] =
                 [Idle EXCEPT !.place = "login",
                              !.proved = IF VerifyPassword(w) THEN w ELSE None]]
  /\ Count(1)
  /\ UNCHANGED <<state, disk, https, given, issued, history, unsaved>>

(* The snapshot: before Setup, and during the lockout, Login is refused; otherwise
   the password is compared with the hash of that moment. *)
LoginArrives(r) ==
  /\ req[r].place = "idle"
  /\ state.done
  /\ ~state.locked
  /\ \E w \in Passwords :
       req' = [req EXCEPT ![r] =
                 [Idle EXCEPT !.place = "login",
                              !.proved = IF VerifyPassword(w) THEN w ELSE None]]
  /\ Count(1)
  /\ UNCHANGED <<state, disk, https, given, issued, history, unsaved>>

(* A wrong password is counted; the result of the save is dropped.  Counts above
   the limit differ in nothing. *)
LoginFails(r) ==
  /\ req[r].place = "login" /\ req[r].proved = None
  /\ LET failures == IF state.failures < MaxFailures THEN state.failures + 1
                                                     ELSE MaxFailures
     IN Update([state EXCEPT !.failures = failures,
                             !.locked = @ \/ failures >= MaxFailures])
  /\ Finish(r, state.hash)
  /\ tries' = tries + 1
  /\ KeepSession
  /\ UNCHANGED https

LoginSucceeds(r) ==
  /\ req[r].place = "login" /\ req[r].proved # None
  /\ issued < MaxTokens
  /\ Update([state EXCEPT !.session = NewToken, !.failures = 0, !.locked = FALSE])
  /\ Issue(req[r].proved, req[r].stale, Saved)
  /\ Finish(r, state.hash)
  /\ tries' = 0
  /\ UNCHANGED https

-----------------------------------------------------------------------------
(* Logout asks for no session and drops the result of its save.  Its token goes to
   nobody. *)

(* Slip: the state is written before it is changed. *)
LogoutUnsaved ==
  /\ issued < MaxTokens
  /\ state' = [state EXCEPT !.session = NewToken]
  /\ disk' = state
  /\ unsaved' = FALSE
  /\ Issue(None, FALSE, FALSE)
  /\ Count(1)
  /\ UNCHANGED <<req, https, tries>>

(* Slip: the session's hash is emptied. *)
LogoutClears ==
  /\ Update([state EXCEPT !.session = None])
  /\ ended' = ended \cup {state.session}
  /\ UNCHANGED <<req, https, given, issued, proof, crossed, reverted, tries>>

Logout ==
  /\ issued < MaxTokens
  /\ Update([state EXCEPT !.session = NewToken])
  /\ Issue(None, FALSE, FALSE)
  /\ UNCHANGED <<req, https, tries>>

-----------------------------------------------------------------------------
(* Setup and UpdateSettings. *)

(* Setup checks nothing of the state.  Without a domain (IP-direct mode) there is no
   certificate; with one, cert.Ensure is called. *)
SetupArrives(r) ==
  /\ req[r].place = "idle"
  /\ \E w \in Passwords, c \in Domains \cup {None} :
       req' = [req EXCEPT ![r] = [Idle EXCEPT !.place = "setup", !.new = w, !.cert = c]]
  /\ Count(1)
  /\ UNCHANGED <<state, disk, https, given, issued, history, unsaved>>

(* Server.auth lets the holder of the session in, who then has to know the present
   password; a new one is optional. *)
SettingsArrive(r) ==
  /\ req[r].place = "idle"
  /\ LoggedIn
  /\ state.hash # None
  /\ \E w \in Passwords \cup {None}, c \in Domains \cup {None} :
       req' = [req EXCEPT ![r] = [Idle EXCEPT !.place = "settings", !.proved = state.hash,
                                              !.new = w, !.cert = c]]
  /\ Count(1)
  /\ UNCHANGED <<state, disk, https, given, issued, history, unsaved>>

(* certbot is not there, or cannot prove the domain. *)
EnsureFails(r) ==
  /\ req[r].place \in {"setup", "settings"} /\ req[r].cert # None
  /\ req' = [req EXCEPT ![r] = Idle]
  /\ UNCHANGED <<state, disk, https, given, issued, history, unsaved, events>>

SetupEnds(r) ==
  /\ req[r].place = "setup"
  /\ issued < MaxTokens
  /\ Update([done |-> TRUE, hash |-> req[r].new, session |-> NewToken, failures |-> 0,
             locked |-> FALSE, cert |-> req[r].cert])
  /\ Issue(req[r].new, FALSE, Saved)
  /\ Finish(r, req[r].new)
  /\ tries' = 0
  /\ UNCHANGED https

(* Slip: a new password leaves the session as it is. *)
SettingsKeepSession(r) ==
  /\ req[r].place = "settings"
  /\ Update([state EXCEPT !.cert = req[r].cert,
                          !.hash = IF req[r].new = None THEN @ ELSE req[r].new])
  /\ KeepSession
  /\ Finish(r, IF req[r].new = None THEN state.hash ELSE req[r].new)
  /\ UNCHANGED <<https, tries>>

(* The transaction takes the state as it finds it: the password that was checked may
   have been replaced, and the settings of a later request are overwritten. *)
SettingsEnd(r) ==
  /\ req[r].place = "settings"
  /\ IF req[r].new = None
       THEN /\ Update([state EXCEPT !.cert = req[r].cert])
            /\ KeepSession
            /\ Finish(r, state.hash)
       ELSE /\ issued < MaxTokens
            /\ Update([state EXCEPT !.hash = req[r].new, !.session = NewToken,
                                    !.cert = req[r].cert])
            /\ Issue(req[r].new, FALSE, Saved)
            /\ Finish(r, req[r].new)
  /\ UNCHANGED <<https, tries>>

-----------------------------------------------------------------------------
(* serveHTTPS. *)

HttpsReady(s) == s.done /\ s.cert # None

HttpsLooks ==
  /\ https.place = "sleep"
  /\ HttpsReady(state)
  /\ https' = [place |-> "starting", cert |-> state.cert]
  /\ UNCHANGED <<state, disk, req, given, issued, history, unsaved, events>>

(* ListenAndServeTLS does not return as long as it listens. *)
HttpsListens ==
  /\ https.place = "starting"
  /\ https' = [https EXCEPT !.place = "listening"]
  /\ UNCHANGED <<state, disk, req, given, issued, history, unsaved, events>>

(* Slip: the loop ends with the first error (and nothing listens). *)
HttpsGivesUp ==
  /\ https.place = "starting"
  /\ https' = [https EXCEPT !.place = "listening", !.cert = None]
  /\ Count(1)
  /\ UNCHANGED <<state, disk, req, given, issued, history, unsaved>>

(* The port is taken, or the files cannot be read: five seconds later it looks
   again. *)
HttpsFails ==
  /\ https.place = "starting"
  /\ https' = NoListener
  /\ Count(1)
  /\ UNCHANGED <<state, disk, req, given, issued, history, unsaved>>

-----------------------------------------------------------------------------
(* LockoutUntil passes: that of memory, and with it any older one of the disk; or,
   if memory has changed since, that of the disk alone. *)
LockoutEnds ==
  /\ disk' = [disk EXCEPT !.locked = FALSE]
  /\ \/ state.locked /\ state' = [state EXCEPT !.locked = FALSE] /\ tries' = 0
     \/ unsaved /\ disk.locked /\ UNCHANGED <<state, tries>>
  /\ UNCHANGED <<req, https, given, issued, proof, crossed, ended, reverted, unsaved,
                 events>>

(* The process ends at any point and is started again: store.Open. *)
Restart ==
  /\ state' = disk
  /\ req' = [r \in Requests |-> Idle]
  /\ https' = NoListener
  /\ unsaved' = FALSE
  /\ reverted' = (reverted \/ unsaved)
  /\ tries' = IF unsaved THEN 0 ELSE tries
  /\ Count(1)
  /\ UNCHANGED <<disk, given, issued, proof, crossed, ended>>

Next ==
  \/ \E r \in Requests : \/ LoginArrives(r) \/ LoginFails(r) \/ LoginSucceeds(r)
                         \/ SetupArrives(r) \/ SetupEnds(r)
                         \/ SettingsArrive(r) \/ SettingsEnd(r)
                         \/ EnsureFails(r)
  \/ Logout
  \/ HttpsLooks \/ HttpsListens \/ HttpsFails
  \/ LockoutEnds
  \/ Restart

Spec == Init /\ [][Next]_vars

(* The loop of serveHTTPS goes on. *)
FairSpec == Spec /\ WF_vars(HttpsLooks) /\ WF_vars(HttpsListens)

-----------------------------------------------------------------------------
(* Whoever is logged in has proved the present password or set it: a change of the
   password ends every session that knows the old one only, also across restarts
   and failed saves.  A login the password changed under is the one exception. *)
SessionKnowsPassword ==
  state.session \in given =>
    proof[state.session] = state.hash \/ state.session \in crossed

(* A session that was ended, by a logout, another login or a new password, is never
   valid again, unless the change could not be saved and the panel was restarted. *)
EndedStaysEnded == state.session \in ended => reverted

(* However logins overlap, between two ends of a lockout no more wrong passwords are
   tried than the limit and the logins under way allow: those are checked against a
   lockout that had not begun when they arrived. *)
GuessesAreBounded == tries < MaxFailures + Cardinality(Requests)

(* A panel with a certificate comes to be served over HTTPS without being
   restarted, whenever the certificate was obtained. *)
HttpsComesUp ==
  HttpsReady(state) ~> (https.place = "listening" /\ https.cert # None)
                       \/ ~HttpsReady(state)
=============================================================================
