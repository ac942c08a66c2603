------------------------------- MODULE Upgrade -------------------------------
(* The online upgrade (internal/api/handler_system.go).  A click starts a task
   that backs up the state, has systemd run the installer as the transient unit
   easynode-upgrade, and waits for it.  The installer (scripts/install.sh)
   restarts the panel half-way: what the panel remembers of the upgrade is lost,
   and GET /api/v1/system/upgrade/status puts it together again from systemd and
   the journal, in three commands one after the other.

   Progress is abstracted to the kinds of answers the panel tells apart.  The
   installer is modelled by what the panel can see of it. *)
EXTENDS Naturals

CONSTANTS
  Handlers,   \* goroutines of POST /api/v1/system/upgrade, and their tasks
  Viewers,    \* goroutines of GET /api/v1/system/upgrade/status
  MaxPolls,   \* how often a task looks at the unit: 40 in the code
  MaxEvents   \* bound: clicks and crashes in one behaviour

ASSUME BoundsAssumption == MaxPolls \in Nat \ {0} /\ MaxEvents \in Nat

VARIABLES
  running,    \* upgradeState.Running
  step,       \* upgradeState.Step with its progress and error
  handler,    \* [Handlers -> ...]: where the handler of a click is
  task,       \* [Handlers -> ...]: where the goroutine it started is
  polls,      \* [Handlers -> 0..MaxPolls]
  unit,       \* easynode-upgrade, with the stage of the installer in it
  marker,     \* "EasyNode installed." is in the last lines of the unit's journal
  viewer,     \* [Viewers -> ...]: where a request for the status is
  seen,       \* [Viewers -> ...]: what it has read
  shown,      \* [Viewers -> Steps]: the last answer
  outcome,    \* history: what has become of the upgrade last asked for
  calm,       \* history: viewers since whose start no task has begun or touched
              \* the unit
  steady,     \* history: viewers since whose start the installer has been running
  events      \* counter of the bound MaxEvents

panel == <<running, step, handler, task, polls>>
status == <<viewer, seen, shown>>
vars == <<running, step, handler, task, polls, unit, marker, viewer, seen, shown,
          outcome, calm, steady, events>>

Steps == {"none", "working", "failed", "complete"}
Installing == {"fetching", "installing", "restarted"}
Seen == [step : Steps, marker : BOOLEAN, stale : BOOLEAN, active : BOOLEAN]
Nothing == [step |-> "none", marker |-> FALSE, stale |-> FALSE, active |-> FALSE]

TypeOK ==
  /\ running \in BOOLEAN
  /\ step \in Steps
  /\ handler \in [Handlers -> {"idle", "asking", "claiming"}]
  /\ task \in [Handlers -> {"none", "backup", "reset", "start", "poll", "report"}]
  /\ polls \in [Handlers -> 0..MaxPolls]
  /\ unit \in {"absent", "failed"} \cup Installing
  /\ marker \in BOOLEAN
  /\ viewer \in [Viewers -> {"idle", "journal", "active", "result"}]
  /\ seen \in [Viewers -> Seen]
  /\ shown \in [Viewers -> Steps]
  /\ outcome \in {"none", "running", "nothing", "failed", "installed"}
  /\ calm \subseteq Viewers /\ steady \subseteq Viewers
  /\ events \in 0..MaxEvents

Active == unit \in Installing

(* The unit is not loaded, or has failed before; the journal may have an earlier
   success. *)
Init ==
  /\ running = FALSE
  /\ step = "none"
  /\ handler = [p \in Handlers |-> "idle"]
  /\ task = [p \in Handlers |-> "none"]
  /\ polls = [p \in Handlers |-> 0]
  /\ unit \in {"absent", "failed"}
  /\ marker \in BOOLEAN
  /\ viewer = [v \in Viewers |-> "idle"]
  /\ seen = [v \in Viewers |-> Nothing]
  /\ shown = [v \in Viewers |-> "none"]
  /\ outcome = IF unit = "failed" THEN "failed" ELSE "none"
  /\ calm = {} /\ steady = {}
  /\ events = 0

Count == events < MaxEvents /\ events' = events + 1

(* setUpgrade *)
SetUpgrade(s, r) == step' = s /\ running' = r

(* The unit changes; a viewer that relied on a running installer notes its end. *)
UnitBecomes(u) ==
  /\ unit' = u
  /\ steady' = IF u \in Installing THEN steady ELSE {}

-----------------------------------------------------------------------------
(* The handler of a click. *)

(* The first look at Running; without it the handler answers at once. *)
Click(p) ==
  /\ handler[p] = "idle" /\ task[p] = "none"
  /\ ~running
  /\ handler' = [handler EXCEPT ![p] = "asking"]
  /\ Count
  /\ UNCHANGED <<running, step, task, polls, unit, marker, status, outcome, calm,
                 steady>>

(* checkUpdateInfo: GitHub names a newer commit or cannot be asked; otherwise
   the click is refused. *)
CheckUpdateInfo(p) ==
  /\ handler[p] = "asking"
  /\ \E next \in {"claiming", "idle"} : handler' = [handler EXCEPT ![p] = next]
  /\ UNCHANGED <<running, step, task, polls, unit, marker, status, outcome, calm,
                 steady, events>>

(* Slip: Running was looked at before. *)
ClaimUnchecked(p) ==
  /\ handler[p] = "claiming"
  /\ handler' = [handler EXCEPT ![p] = "idle"]
  /\ SetUpgrade("working", TRUE)
  /\ task' = [task EXCEPT ![p] = "backup"]
  /\ outcome' = IF Active THEN outcome ELSE "none"
  /\ calm' = {}
  /\ UNCHANGED <<polls, unit, marker, status, steady, events>>

(* The second look, and the task begins under the lock of that look. *)
Claim(p) ==
  /\ handler[p] = "claiming"
  /\ handler' = [handler EXCEPT ![p] = "idle"]
  /\ IF running
       THEN UNCHANGED <<running, step, task, outcome, calm>>
       ELSE /\ SetUpgrade("working", TRUE)
            /\ task' = [task EXCEPT ![p] = "backup"]
            /\ outcome' = IF Active THEN outcome ELSE "none"
            /\ calm' = {}
  /\ UNCHANGED <<polls, unit, marker, status, steady, events>>

-----------------------------------------------------------------------------
(* runUpgrade. *)

Goto(p, place) == task' = [task EXCEPT ![p] = place]

(* The copy of state.json; its errors are dropped. *)
Backup(p) ==
  /\ task[p] = "backup"
  /\ SetUpgrade("working", TRUE)
  /\ Goto(p, "reset")
  /\ UNCHANGED <<handler, polls, unit, marker, status, outcome, calm, steady, events>>

(* "systemctl reset-failed": a failed unit is unloaded, unless the command itself
   fails, which nobody looks at. *)
ResetFailed(p) ==
  /\ task[p] = "reset"
  /\ SetUpgrade("working", TRUE)
  /\ Goto(p, "start")
  /\ \/ unit = "failed" /\ UnitBecomes("absent") /\ outcome' = "none" /\ calm' = {}
     \/ UNCHANGED <<unit, outcome, calm, steady>>
  /\ UNCHANGED <<handler, polls, marker, status, events>>

(* systemd-run: refused if the unit is still loaded, and it may fail anyway. *)
StartUnit(p) ==
  /\ task[p] = "start"
  /\ \/ /\ unit = "absent"
        /\ UnitBecomes("fetching")
        /\ outcome' = "running"
        /\ calm' = {}
        /\ SetUpgrade("working", TRUE)
        /\ Goto(p, "poll")
        /\ polls' = [polls EXCEPT ![p] = 0]
     \/ /\ SetUpgrade("failed", FALSE)
        /\ Goto(p, "none")
        /\ UNCHANGED <<polls, unit, outcome, calm, steady>>
  /\ UNCHANGED <<handler, marker, status, events>>

(* Slip: the task waits as long as the installer runs. *)
PollForever(p) ==
  /\ task[p] = "poll"
  /\ SetUpgrade("working", TRUE)
  /\ IF Active THEN UNCHANGED task ELSE Goto(p, "report")
  /\ UNCHANGED <<handler, polls, unit, marker, status, outcome, calm, steady, events>>

(* Slip: one round too many. *)
PollOnceMore(p) ==
  /\ task[p] = "poll"
  /\ SetUpgrade("working", TRUE)
  /\ polls' = [polls EXCEPT ![p] = @ + 1]
  /\ IF Active /\ polls[p] < MaxPolls THEN UNCHANGED task ELSE Goto(p, "report")
  /\ UNCHANGED <<handler, unit, marker, status, outcome, calm, steady, events>>

(* One round of the loop. *)
Poll(p) ==
  /\ task[p] = "poll"
  /\ SetUpgrade("working", TRUE)
  /\ polls' = [polls EXCEPT ![p] = @ + 1]
  /\ IF Active /\ polls[p] + 1 < MaxPolls THEN UNCHANGED task ELSE Goto(p, "report")
  /\ UNCHANGED <<handler, unit, marker, status, outcome, calm, steady, events>>

(* What "systemctl show" may say: a unit that runs or is not loaded has no failure
   to report, and the command itself may fail. *)
Result == {IF unit = "failed" THEN "exit-code" ELSE "success", "unknown"}

(* The task's last words. *)
Report(p) ==
  /\ task[p] = "report"
  /\ \E result \in Result :
       SetUpgrade(IF result = "success" THEN "complete" ELSE "failed", FALSE)
  /\ Goto(p, "none")
  /\ polls' = [polls EXCEPT ![p] = 0]
  /\ UNCHANGED <<handler, unit, marker, status, outcome, calm, steady, events>>

RunUpgrade(p) == Backup(p) \/ ResetFailed(p) \/ StartUnit(p) \/ Poll(p) \/ Report(p)

-----------------------------------------------------------------------------
(* UpgradeStatus. *)

(* upgradeSnapshot *)
UpgradeSnapshot(v) ==
  /\ viewer[v] = "idle"
  /\ viewer' = [viewer EXCEPT ![v] = "journal"]
  /\ seen' = [seen EXCEPT ![v] = [Nothing EXCEPT !.step = step]]
  /\ calm' = calm \cup {v}
  /\ steady' = IF Active THEN steady \cup {v} ELSE steady \ {v}
  /\ UNCHANGED <<panel, unit, marker, shown, outcome, events>>

(* systemdUpgradeStatus: "journalctl -n 150", which may have lines of earlier runs;
   "stale" notes that the success it finds is not this upgrade's. *)
ReadJournal(v) ==
  /\ viewer[v] = "journal"
  /\ viewer' = [viewer EXCEPT ![v] = "active"]
  /\ seen' = [seen EXCEPT ![v].marker = marker,
                          ![v].stale = marker /\ outcome # "installed"]
  /\ UNCHANGED <<panel, unit, marker, shown, outcome, calm, steady, events>>

(* "systemctl is-active" *)
ReadActive(v) ==
  /\ viewer[v] = "active"
  /\ viewer' = [viewer EXCEPT ![v] = "result"]
  /\ seen' = [seen EXCEPT ![v].active = Active]
  /\ UNCHANGED <<panel, unit, marker, shown, outcome, calm, steady, events>>

(* Slip: the result is looked at before whether there is one. *)
StatusByResult(s, result) ==
  IF s.marker \/ result = "success" THEN "complete"
  ELSE IF s.active THEN "working"
  ELSE IF result # "unknown" THEN "failed"
  ELSE s.step

(* Slip: what the panel remembers comes first. *)
StatusFromMemory(s, result) ==
  IF s.step # "working" THEN s.step
  ELSE IF s.active THEN "working"
  ELSE IF s.marker \/ result = "success" THEN "complete"
  ELSE IF result # "unknown" THEN "failed"
  ELSE s.step

(* systemd's word, if it has one, else the panel's own. *)
Status(s, result) ==
  IF s.active THEN "working"
  ELSE IF s.marker \/ result = "success" THEN "complete"
  ELSE IF result # "unknown" THEN "failed"
  ELSE s.step

(* "systemctl show", and the answer. *)
UpgradeStatus(v) ==
  /\ viewer[v] = "result"
  /\ \E result \in Result : shown' = [shown EXCEPT ![v] = Status(seen[v], result)]
  /\ viewer' = [viewer EXCEPT ![v] = "idle"]
  /\ UNCHANGED <<panel, unit, marker, seen, outcome, calm, steady, events>>

View(v) == UpgradeSnapshot(v) \/ ReadJournal(v) \/ ReadActive(v) \/ UpgradeStatus(v)

-----------------------------------------------------------------------------
(* The installer, and the process of the panel. *)

(* A new process remembers nothing, and nobody waits for an answer any more. *)
Restart ==
  /\ running' = FALSE
  /\ step' = "none"
  /\ handler' = [p \in Handlers |-> "idle"]
  /\ task' = [p \in Handlers |-> "none"]
  /\ polls' = [p \in Handlers |-> 0]
  /\ viewer' = [v \in Viewers |-> "idle"]
  /\ seen' = [v \in Viewers |-> Nothing]
  /\ UNCHANGED shown

Crash ==
  /\ Restart
  /\ Count
  /\ UNCHANGED <<unit, marker, outcome, calm, steady>>

(* "curl ... | bash -s": if there is nothing to run, bash has succeeded. *)
FetchFails ==
  /\ unit = "fetching"
  /\ UnitBecomes("absent")
  /\ outcome' = "nothing"
  /\ UNCHANGED <<panel, marker, status, calm, events>>

(* The script runs, and what it prints may drive an older success out of the last
   lines. *)
Fetch ==
  /\ unit = "fetching"
  /\ UnitBecomes("installing")
  /\ marker' \in {marker, FALSE}
  /\ UNCHANGED <<panel, status, outcome, calm, events>>

(* write_service: "systemctl restart easynode" *)
RestartPanel ==
  /\ unit = "installing"
  /\ UnitBecomes("restarted")
  /\ marker' \in {marker, FALSE}
  /\ Restart
  /\ UNCHANGED <<outcome, calm, events>>

(* "set -e": any step may fail, the panel's health check at the end too. *)
InstallerFails ==
  /\ unit \in {"installing", "restarted"}
  /\ UnitBecomes("failed")
  /\ outcome' = "failed"
  /\ UNCHANGED <<panel, marker, status, calm, events>>

(* "EasyNode installed."; a transient unit that has succeeded is unloaded. *)
InstallerEnds ==
  /\ unit = "restarted"
  /\ UnitBecomes("absent")
  /\ marker' = TRUE
  /\ outcome' = "installed"
  /\ UNCHANGED <<panel, status, calm, events>>

Installer == FetchFails \/ Fetch \/ RestartPanel \/ InstallerFails \/ InstallerEnds

Next ==
  \/ \E p \in Handlers : Click(p) \/ CheckUpdateInfo(p) \/ Claim(p) \/ RunUpgrade(p)
  \/ \E v \in Viewers : View(v)
  \/ Installer
  \/ Crash

Spec == Init /\ [][Next]_vars

(* Goroutines are scheduled and the commands they call return; the installer may
   take as long as it likes, or hang. *)
FairSpec == Spec /\ \A p \in Handlers : WF_vars(RunUpgrade(p))

-----------------------------------------------------------------------------
(* However many clicks wait for GitHub at the same time, one task at most is at
   work, and Running says whether one is: the lock is released between the two
   looks at Running, so the first of them proves nothing. *)
OneUpgrade ==
  /\ \A p, q \in Handlers : task[p] # "none" /\ task[q] # "none" => p = q
  /\ running <=> \E p \in Handlers : task[p] # "none"

(* A task that says "complete" has an installer of its own that exited with 0,
   though it had found nothing to run, or that is still running after the last
   poll; a failed one is never reported so, because no other task resets the
   unit between the installer's end and the report. *)
ReportIsTrue ==
  [][\A p \in Handlers :
       Report(p) /\ step' = "complete" => outcome \in {"installed", "nothing", "running"}]_vars

(* An answer says "complete" of an installed upgrade only, though the three
   commands it is made from may see three different moments of it: setting aside
   an upgrade that has not started its installer or could not fetch it, an older
   success in the journal, a click during the request, and the word of a task
   that had stopped waiting. *)
CompleteIsInstalled ==
  [][\A v \in Viewers :
       UpgradeStatus(v) /\ shown'[v] = "complete"
       /\ v \in calm /\ outcome \notin {"none", "nothing"}
       /\ ~seen[v].stale /\ seen[v].step # "complete"
         => outcome = "installed"]_vars

(* While the installer is running every answer says so, also after it has
   restarted the panel and the panel's memory is empty. *)
RunningIsShown ==
  [][\A v \in Viewers :
       UpgradeStatus(v) /\ v \in steady => shown'[v] = "working"]_vars

(* A task ends though the installer hangs: the next click is not refused forever
   by a Running that nobody resets. *)
UpgradeEnds == running ~> ~running

-----------------------------------------------------------------------------
(* What the panel tells its administrator, for the run that refutes it. *)

(* "Upgrade complete. Refresh the page." (app.js:253), when the panel looks after
   the upgrade it has just begun, and the journal has no earlier success that could
   mislead it: its installer has come to its end. *)
CompleteIsNew ==
  [][\A v \in Viewers :
       UpgradeStatus(v) /\ shown'[v] = "complete" /\ ~seen[v].marker
       /\ v \in calm /\ running
         => outcome = "installed"]_vars
=============================================================================
