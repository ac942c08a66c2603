---------------------------- MODULE UpgradeProofs ----------------------------
(* What Upgrade.tla promises, for any number of clicks, viewers and polls.

   The argument: one task at most is at work (Tasks), so nobody but the installer
   changes what systemd has to say of it (Unit); and what a viewer has read stays
   true of the present moment unless a task has begun meanwhile (Views). *)
EXTENDS Upgrade, TLAPS

Unit ==
  /\ Active <=> outcome = "running"
  /\ outcome = "failed" => unit = "failed"

Tasks ==
  /\ OneUpgrade
  /\ \A p \in Handlers : task[p] \in {"poll", "report"} => outcome # "none"

Views ==
  \A v \in Viewers :
    /\ v \in steady => Active
    /\ viewer[v] = "result" /\ v \in steady => seen[v].active
    /\ viewer[v] = "result" /\ v \in calm /\ ~seen[v].active => ~Active
    /\ viewer[v] \in {"active", "result"} /\ v \in calm
         /\ seen[v].marker /\ ~seen[v].stale => outcome = "installed"

(* A task that goes on waiting has rounds left. *)
Rounds == \A p \in Handlers : task[p] = "poll" => polls[p] < MaxPolls

Inv == TypeOK /\ Rounds /\ Unit /\ Tasks /\ Views

(* Nothing has begun when the panel starts for the first time. *)
LEMMA InitInv == Init => Inv
<1> SUFFICES ASSUME Init PROVE Inv
  OBVIOUS
<1>1. TypeOK
  <2>1. polls \in [Handlers -> 0..MaxPolls] /\ events \in 0..MaxEvents
    BY BoundsAssumption DEF Init
  <2>2. seen \in [Viewers -> Seen] /\ running \in BOOLEAN /\ step \in Steps
    BY DEF Init, Seen, Nothing, Steps
  <2> QED BY <2>1, <2>2 DEF Init, TypeOK, Steps
<1>2. Rounds
  BY DEF Init, Rounds
<1>3. Unit
  BY DEF Init, Unit, Active, Installing
<1>4. Tasks
  BY DEF Init, Tasks, OneUpgrade
<1>5. Views
  BY DEF Init, Views
<1> QED BY <1>1, <1>2, <1>3, <1>4, <1>5 DEF Inv

(* What is written into a viewer's record keeps its type. *)
LEMMA SeenInJournal ==
  ASSUME NEW r \in Seen, NEW m \in BOOLEAN, NEW o \in BOOLEAN
  PROVE  [r EXCEPT !.marker = m, !.stale = o] \in Seen
BY DEF Seen

(* Every step keeps the types. *)
LEMMA TypeStep ==
  ASSUME TypeOK, Rounds, [Next]_vars
  PROVE  TypeOK'
<1>1. ASSUME NEW p \in Handlers, Click(p) PROVE TypeOK'
  BY <1>1, BoundsAssumption DEF TypeOK, Click, Count, status
<1>2. ASSUME NEW p \in Handlers, CheckUpdateInfo(p) PROVE TypeOK'
  BY <1>2 DEF TypeOK, CheckUpdateInfo, status
<1>3. ASSUME NEW p \in Handlers, Claim(p) PROVE TypeOK'
  BY <1>3 DEF TypeOK, Claim, SetUpgrade, Steps, status
<1>4. ASSUME NEW p \in Handlers, Backup(p) PROVE TypeOK'
  BY <1>4 DEF TypeOK, Backup, SetUpgrade, Goto, Steps, status
<1>5. ASSUME NEW p \in Handlers, ResetFailed(p) PROVE TypeOK'
  BY <1>5 DEF TypeOK, ResetFailed, SetUpgrade, Goto, UnitBecomes, Steps, status
<1>6. ASSUME NEW p \in Handlers, StartUnit(p) PROVE TypeOK'
  <2>1. polls' = polls \/ polls' = [polls EXCEPT ![p] = 0]
    BY <1>6 DEF StartUnit
  <2>2. polls' \in [Handlers -> 0..MaxPolls]
    BY <2>1, BoundsAssumption DEF TypeOK
  <2>3. running' \in BOOLEAN /\ step' \in Steps
    BY <1>6 DEF StartUnit, SetUpgrade, Steps
  <2> QED BY <1>6, <2>1, <2>2, <2>3
     DEF TypeOK, StartUnit, Goto, UnitBecomes, status, Installing
<1>7. ASSUME NEW p \in Handlers, Poll(p) PROVE TypeOK'
  <2>1. polls[p] < MaxPolls
    BY <1>7 DEF Poll, Rounds
  <2>2. polls' \in [Handlers -> 0..MaxPolls]
    BY <1>7, <2>1, BoundsAssumption DEF TypeOK, Poll
  <2>3. running' \in BOOLEAN /\ step' \in Steps
    BY <1>7 DEF Poll, SetUpgrade, Steps
  <2> QED BY <1>7, <2>1, <2>2, <2>3 DEF TypeOK, Poll, Goto, status
<1>8. ASSUME NEW p \in Handlers, Report(p) PROVE TypeOK'
  <2>1. polls' \in [Handlers -> 0..MaxPolls]
    BY <1>8, BoundsAssumption DEF TypeOK, Report
  <2>2. running' \in BOOLEAN /\ step' \in Steps
    BY <1>8 DEF Report, SetUpgrade, Steps
  <2> QED BY <1>8, <2>1, <2>2 DEF TypeOK, Report, Goto, status
<1>9. ASSUME NEW v \in Viewers, UpgradeSnapshot(v) PROVE TypeOK'
  BY <1>9 DEF TypeOK, UpgradeSnapshot, panel, Seen, Nothing, Steps
<1>10. ASSUME NEW v \in Viewers, ReadJournal(v) PROVE TypeOK'
  <2>1. seen[v] \in Seen /\ (marker /\ outcome # "installed") \in BOOLEAN
    BY <1>10 DEF TypeOK
  <2>2. seen' \in [Viewers -> Seen]
    BY <1>10, <2>1, SeenInJournal DEF TypeOK, ReadJournal
  <2> QED BY <1>10, <2>1, <2>2 DEF TypeOK, ReadJournal, panel
<1>11. ASSUME NEW v \in Viewers, ReadActive(v) PROVE TypeOK'
  <2>1. Active \in BOOLEAN
    BY DEF Active
  <2>2. seen' = [seen EXCEPT ![v] = [seen[v] EXCEPT !.active = Active]]
    BY <1>11 DEF ReadActive
  <2>3. seen[v] \in Seen /\ [seen[v] EXCEPT !.active = Active] \in Seen
    BY <2>1 DEF TypeOK, Seen
  <2>4. seen' \in [Viewers -> Seen]
    BY <2>2, <2>3 DEF TypeOK
  <2> QED BY <1>11, <2>1, <2>2, <2>3, <2>4 DEF TypeOK, ReadActive, panel
<1>12. ASSUME NEW v \in Viewers, UpgradeStatus(v) PROVE TypeOK'
  BY <1>12 DEF TypeOK, UpgradeStatus, Status, Result, panel, Installing, Seen, Steps
<1>13. CASE FetchFails
  BY <1>13 DEF TypeOK, FetchFails, UnitBecomes, panel, status, Installing
<1>14. CASE Fetch
  BY <1>14 DEF TypeOK, Fetch, UnitBecomes, panel, status, Installing
<1>15. CASE RestartPanel
  <2>1. polls' \in [Handlers -> 0..MaxPolls]
    BY <1>15, BoundsAssumption DEF RestartPanel, Restart
  <2>2. seen' \in [Viewers -> Seen]
    BY <1>15 DEF RestartPanel, Restart, Seen, Nothing, Steps
  <2>3. running' \in BOOLEAN /\ step' \in Steps
    BY <1>15 DEF RestartPanel, Restart, Steps
  <2> QED BY <1>15, <2>1, <2>2, <2>3
     DEF TypeOK, RestartPanel, Restart, UnitBecomes, Installing
<1>16. CASE InstallerFails
  BY <1>16 DEF TypeOK, InstallerFails, UnitBecomes, panel, status, Installing
<1>17. CASE InstallerEnds
  BY <1>17 DEF TypeOK, InstallerEnds, UnitBecomes, panel, status, Installing
<1>18. CASE Crash
  <2>1. polls' \in [Handlers -> 0..MaxPolls]
    BY <1>18, BoundsAssumption DEF Crash, Restart
  <2>2. seen' \in [Viewers -> Seen]
    BY <1>18 DEF Crash, Restart, Seen, Nothing, Steps
  <2>3. running' \in BOOLEAN /\ step' \in Steps
    BY <1>18 DEF Crash, Restart, Steps
  <2>4. events' \in 0..MaxEvents
    BY <1>18, BoundsAssumption DEF TypeOK, Crash, Count
  <2> QED BY <1>18, <2>1, <2>2, <2>3, <2>4 DEF TypeOK, Crash, Restart
<1>19. CASE UNCHANGED vars
  BY <1>19 DEF vars, TypeOK
<1> QED
  BY <1>1, <1>2, <1>3, <1>4, <1>5, <1>6, <1>7, <1>8, <1>9, <1>10,
     <1>11, <1>12, <1>13, <1>14, <1>15, <1>16, <1>17, <1>18, <1>19
     DEF Next, RunUpgrade, View, Installer

(* A task that goes back to sleep has not used up its rounds. *)
LEMMA RoundsStep ==
  ASSUME TypeOK, Rounds, [Next]_vars
  PROVE  Rounds'
<1> SUFFICES ASSUME NEW p \in Handlers, task'[p] = "poll"
             PROVE  polls'[p] < MaxPolls
  BY DEF Rounds
<1>1. ASSUME NEW q \in Handlers, StartUnit(q) PROVE polls'[p] < MaxPolls
  <2>1. CASE q = p
    <3>1. polls'[p] = 0
      BY <1>1, <2>1 DEF TypeOK, StartUnit, Goto
    <3> QED BY <3>1, BoundsAssumption
  <2>2. CASE q # p
    BY <1>1, <2>2 DEF TypeOK, Rounds, StartUnit, Goto
  <2> QED BY <2>1, <2>2
<1>2. ASSUME NEW q \in Handlers, Poll(q) PROVE polls'[p] < MaxPolls
  <2>1. CASE q = p
    BY <1>2, <2>1 DEF TypeOK, Poll, Goto
  <2>2. CASE q # p
    BY <1>2, <2>2 DEF TypeOK, Rounds, Poll, Goto
  <2> QED BY <2>1, <2>2
<1>3. ASSUME NEW q \in Handlers,
             \/ Click(q) \/ CheckUpdateInfo(q) \/ Claim(q)
             \/ Backup(q) \/ ResetFailed(q) \/ Report(q)
      PROVE  polls'[p] < MaxPolls
  BY <1>3 DEF TypeOK, Rounds, Click, CheckUpdateInfo, Claim, Backup, ResetFailed,
              Report, Goto
<1>4. ASSUME NEW v \in Viewers, View(v) PROVE polls'[p] < MaxPolls
  BY <1>4 DEF Rounds, View, UpgradeSnapshot, ReadJournal, ReadActive, UpgradeStatus, panel
<1>5. CASE Installer \/ Crash
  BY <1>5 DEF Rounds, Installer, FetchFails, Fetch, RestartPanel, InstallerFails,
              InstallerEnds, Crash, Restart, panel
<1>6. CASE UNCHANGED vars
  BY <1>6 DEF vars, Rounds
<1> QED BY <1>1, <1>2, <1>3, <1>4, <1>5, <1>6 DEF Next, RunUpgrade

(* Steps that concern neither systemd's unit nor what has become of the upgrade. *)
Aside ==
  \/ \E p \in Handlers : \/ Click(p) \/ CheckUpdateInfo(p)
                         \/ Backup(p) \/ Poll(p) \/ Report(p)
  \/ \E v \in Viewers : View(v)
  \/ Crash
  \/ UNCHANGED vars

LEMMA AsideKeeps == Aside => UNCHANGED <<unit, outcome>>
BY DEF Aside, Click, CheckUpdateInfo, Backup, Poll, Report, View, UpgradeSnapshot,
       ReadJournal, ReadActive, UpgradeStatus, Crash, vars

(* The history of the upgrade and systemd's unit tell one story. *)
LEMMA UnitStep ==
  ASSUME TypeOK, Unit, [Next]_vars
  PROVE  Unit'
<1>1. CASE Aside
  BY <1>1, AsideKeeps DEF Unit, Active
<1>2. ASSUME NEW p \in Handlers, Claim(p) PROVE Unit'
  BY <1>2 DEF Unit, Active, Installing, Claim
<1>3. ASSUME NEW p \in Handlers, ResetFailed(p) PROVE Unit'
  BY <1>3 DEF Unit, Active, Installing, ResetFailed, UnitBecomes
<1>4. ASSUME NEW p \in Handlers, StartUnit(p) PROVE Unit'
  BY <1>4 DEF Unit, Active, Installing, StartUnit, UnitBecomes
<1>5. CASE FetchFails \/ InstallerFails \/ InstallerEnds
  BY <1>5 DEF Unit, Active, Installing, FetchFails, InstallerFails, InstallerEnds,
              UnitBecomes
<1>6. CASE Fetch \/ RestartPanel
  BY <1>6 DEF Unit, Active, Installing, Fetch, RestartPanel, UnitBecomes
<1> QED BY <1>1, <1>2, <1>3, <1>4, <1>5, <1>6 DEF Next, RunUpgrade, Installer, Aside

(* A second task cannot begin, and nobody else resets what a task waits for. *)
LEMMA TasksStep ==
  ASSUME TypeOK, Unit, Tasks, [Next]_vars
  PROVE  Tasks'
<1>1. ASSUME NEW p \in Handlers, Click(p) \/ CheckUpdateInfo(p) PROVE Tasks'
  BY <1>1 DEF Tasks, OneUpgrade, Click, CheckUpdateInfo
<1>2. ASSUME NEW p \in Handlers, Claim(p) PROVE Tasks'
  BY <1>2 DEF TypeOK, Tasks, OneUpgrade, Claim, SetUpgrade
<1>3. ASSUME NEW p \in Handlers, Backup(p) PROVE Tasks'
  BY <1>3 DEF TypeOK, Tasks, OneUpgrade, Backup, SetUpgrade, Goto
<1>4. ASSUME NEW p \in Handlers, ResetFailed(p) PROVE Tasks'
  BY <1>4 DEF TypeOK, Tasks, OneUpgrade, ResetFailed, SetUpgrade, Goto
<1>5. ASSUME NEW p \in Handlers, StartUnit(p) PROVE Tasks'
  BY <1>5 DEF TypeOK, Tasks, OneUpgrade, StartUnit, SetUpgrade, Goto
<1>6. ASSUME NEW p \in Handlers, Poll(p) \/ Report(p) PROVE Tasks'
  BY <1>6 DEF TypeOK, Tasks, OneUpgrade, Poll, Report, SetUpgrade, Goto
<1>7. ASSUME NEW v \in Viewers, View(v) PROVE Tasks'
  BY <1>7 DEF Tasks, OneUpgrade, View, UpgradeSnapshot, ReadJournal, ReadActive,
              UpgradeStatus, panel
<1>8. CASE FetchFails \/ Fetch \/ InstallerFails \/ InstallerEnds
  <2>1. UNCHANGED <<running, task>> /\ outcome' \in {outcome, "nothing", "failed", "installed"}
    BY <1>8 DEF FetchFails, Fetch, InstallerFails, InstallerEnds, panel
  <2> QED BY <2>1 DEF Tasks, OneUpgrade
<1>9. CASE RestartPanel \/ Crash
  BY <1>9 DEF Tasks, OneUpgrade, RestartPanel, Crash, Restart
<1>10. CASE UNCHANGED vars
  BY <1>10 DEF vars, Tasks, OneUpgrade
<1> QED BY <1>1, <1>2, <1>3, <1>4, <1>5, <1>6, <1>7, <1>8, <1>9, <1>10
        DEF Next, RunUpgrade, Installer

(* What was read stays true, or the viewer is no longer calm or steady. *)
LEMMA ViewsStep ==
  ASSUME TypeOK, Unit, Views, [Next]_vars
  PROVE  Views'
<1>1. ASSUME NEW p \in Handlers,
             Click(p) \/ CheckUpdateInfo(p) \/ Backup(p) \/ Poll(p) \/ Report(p)
      PROVE  Views'
  <2>1. UNCHANGED <<unit, outcome, viewer, seen, calm, steady>>
    BY <1>1 DEF Click, CheckUpdateInfo, Backup, Poll, Report, status
  <2> QED BY <2>1 DEF Views, Active
<1>2. ASSUME NEW p \in Handlers, Claim(p) PROVE Views'
  BY <1>2 DEF Views, Active, Claim, status
<1>3. ASSUME NEW p \in Handlers, ResetFailed(p) \/ StartUnit(p) PROVE Views'
  BY <1>3 DEF Views, Active, Installing, ResetFailed, StartUnit, UnitBecomes, status
<1>4. ASSUME NEW v \in Viewers, UpgradeSnapshot(v) PROVE Views'
  BY <1>4 DEF TypeOK, Views, Active, UpgradeSnapshot
<1>5. ASSUME NEW v \in Viewers, ReadJournal(v) PROVE Views'
  BY <1>5 DEF TypeOK, Views, Active, ReadJournal, Seen
<1>6. ASSUME NEW v \in Viewers, ReadActive(v) PROVE Views'
  BY <1>6, ZenonT(30) DEF TypeOK, Views, Active, ReadActive, Seen
<1>7. ASSUME NEW v \in Viewers, UpgradeStatus(v) PROVE Views'
  BY <1>7 DEF TypeOK, Views, Active, UpgradeStatus
<1>8. CASE FetchFails \/ Fetch \/ InstallerFails \/ InstallerEnds
  BY <1>8 DEF Views, Unit, Active, Installing, FetchFails, Fetch, InstallerFails,
              InstallerEnds, UnitBecomes, status
<1>9. CASE RestartPanel
  BY <1>9 DEF Views, Active, Installing, RestartPanel, Restart, UnitBecomes
<1>10. CASE Crash
  BY <1>10 DEF Views, Active, Crash, Restart
<1>11. CASE UNCHANGED vars
  BY <1>11 DEF vars, Views, Active
<1> QED BY <1>1, <1>2, <1>3, <1>4, <1>5, <1>6, <1>7, <1>8, <1>9, <1>10, <1>11
        DEF Next, RunUpgrade, View, Installer

LEMMA StepInv == Inv /\ [Next]_vars => Inv'
BY TypeStep, RoundsStep, UnitStep, TasksStep, ViewsStep DEF Inv

LEMMA Invariance == Spec => []Inv
BY InitInv, StepInv, PTL DEF Spec

(* Types, for every number of clicks, viewers and polls. *)
THEOREM TypeCorrect == Spec => []TypeOK
BY Invariance, PTL DEF Inv

(* However many clicks wait at the same time, one upgrade at most is under way,
   and Running tells whether one is (handler_system.go:28-64). *)
THEOREM OneUpgradeAtATime == Spec => []OneUpgrade
BY Invariance, PTL DEF Inv, Tasks

(* No task reports a failed installer as complete (handler_system.go:179-185). *)
THEOREM ReportsAreTrue == Spec => ReportIsTrue
<1>1. ASSUME Inv, [Next]_vars, NEW p \in Handlers, Report(p), step' = "complete"
      PROVE  outcome \in {"installed", "nothing", "running"}
  <2>1. unit # "failed"
    BY <1>1 DEF Report, Result, SetUpgrade
  <2>2. outcome # "failed" /\ outcome # "none"
    BY <1>1, <2>1 DEF Inv, Unit, Tasks, Report
  <2> QED BY <1>1, <2>2 DEF Inv, TypeOK
<1>2. Inv /\ [Next]_vars => [\A p \in Handlers :
        Report(p) /\ step' = "complete"
          => outcome \in {"installed", "nothing", "running"}]_vars
  BY <1>1
<1> QED BY <1>2, Invariance, PTL DEF Spec, ReportIsTrue

(* While the installer runs every answer says so (handler_system.go:209-243). *)
THEOREM RunningInstallerIsShown == Spec => RunningIsShown
<1>1. ASSUME Inv, NEW v \in Viewers, UpgradeStatus(v), v \in steady
      PROVE  shown'[v] = "working"
  BY <1>1 DEF Inv, TypeOK, Views, UpgradeStatus, Status
<1>2. Inv /\ [Next]_vars => [\A v \in Viewers :
        UpgradeStatus(v) /\ v \in steady => shown'[v] = "working"]_vars
  BY <1>1
<1> QED BY <1>2, Invariance, PTL DEF Spec, RunningIsShown

(* "Complete" is said of an installed upgrade only, but for the named cases
   (handler_system.go:66-74, 209-243). *)
THEOREM CompleteMeansInstalled == Spec => CompleteIsInstalled
<1>1. ASSUME Inv, NEW v \in Viewers, UpgradeStatus(v), shown'[v] = "complete",
             v \in calm, outcome \notin {"none", "nothing"},
             ~seen[v].stale, seen[v].step # "complete"
      PROVE  outcome = "installed"
  <2>1. PICK result \in Result : shown'[v] = Status(seen[v], result)
    BY <1>1 DEF UpgradeStatus, Inv, TypeOK
  <2>2. ~seen[v].active /\ (seen[v].marker \/ result = "success")
    BY <1>1, <2>1 DEF Status
  <2>3. CASE seen[v].marker
    BY <1>1, <2>3 DEF Inv, Views, UpgradeStatus
  <2>4. CASE result = "success"
    <3>1. unit # "failed"
      BY <2>1, <2>4 DEF Result
    <3>2. ~Active
      BY <1>1, <2>2 DEF Inv, Views, UpgradeStatus
    <3> QED BY <1>1, <3>1, <3>2 DEF Inv, TypeOK, Unit
  <2> QED BY <2>2, <2>3, <2>4
<1>2. Inv /\ [Next]_vars => [\A v \in Viewers :
        UpgradeStatus(v) /\ shown'[v] = "complete"
        /\ v \in calm /\ outcome \notin {"none", "nothing"}
        /\ ~seen[v].stale /\ seen[v].step # "complete"
          => outcome = "installed"]_vars
  BY <1>1
<1> QED BY <1>2, Invariance, PTL DEF Spec, CompleteIsInstalled
=============================================================================
