---------------------------- MODULE UpdateWorker ----------------------------
(***************************************************************************)
(* The independent update worker of internal/update: a durable task record *)
(* (state.json), the process lock that serialises everyone who acts on it  *)
(* (operation.lock), the worker that installs or rolls back, the startup   *)
(* recovery run by the panel launcher, and the panel's own client calls.   *)
(*                                                                         *)
(* Worker, startup recovery and client act only while they hold            *)
(* operation.lock, so one program counter `pc' and one in-memory record    *)
(* `mem' describe whoever holds it.                                        *)
(***************************************************************************)
EXTENDS Naturals

CONSTANTS
    Versions,       \* release versions
    Files,          \* files of the panel snapshot (config, state, history)
    UpdateTargets,  \* targets an operator may update in this instance
    None,           \* an absent file
    MaxFaults,      \* bound: failed operations, kills, crashes and reboots
    PowerLoss       \* may a reboot lose a rename whose directory sync failed?

Panel   == "panel"
Telemt  == "telemt"
Targets == {Panel, Telemt}

\* A service that is not a running version: stopped on request, exited by itself
\* (init will start it), or one of the stages of the panel launcher.
Stages == {"down", "failed", "launching", "recovering", "execing"}

ASSUME VersionsAssumption == /\ None \notin Versions
                             /\ Versions \cap Stages = {}
ASSUME TargetsAssumption == UpdateTargets \subseteq Targets
ASSUME FaultsAssumption == MaxFaults \in Nat
ASSUME PowerLossAssumption == PowerLoss \in BOOLEAN

VARIABLES
    task,      \* state.json as any process reads it
    synced,    \* the last record whose rename reached the disk for certain
    mem,       \* the lock holder's in-memory task
    lock,      \* holder of operation.lock
    pc,        \* what the holder of operation.lock does next
    worker,    \* the init unit of the worker: off, waiting for the lock, running
    svc,       \* per target: a running version, or the stage of a service
    dataLock,  \* holder of data_dir/.panel.lock
    bin,       \* per target: the installed binary
    bak,       \* per target: the .bak copy, or None
    data,      \* per snapshot file: the versions that have written it
    snap,      \* per snapshot file: its copy in the snapshot directory
    todo,      \* files the running copy or restore loop has left
    pre,       \* history: binaries and data when the task was queued
    faults     \* failures so far

diskVars == <<task, synced>>
hostVars == <<svc, dataLock, bin, bak, data, snap>>
vars == <<task, synced, mem, lock, pc, worker, svc, dataLock, bin, bak, data,
          snap, todo, pre, faults>>

Phases == {"none", "checking", "downloading", "staging", "installing",
           "restarting", "health", "rolling_back", "done", "rolled_back",
           "failed"}

\* isTerminalPhase; "none" stands for a nil Task.
Terminal == {"none", "done", "rolled_back", "failed"}

Tasks == [phase : Phases, target : Targets,
          from : Versions \cup {None}, to : Versions \cup {None},
          config : BOOLEAN,    \* RecoveryConfig is set
          backup : BOOLEAN,    \* BackupPath is set
          stop : BOOLEAN, publish : BOOLEAN, snapshot : BOOLEAN,
          ready : BOOLEAN]

NoTask == [phase |-> "none", target |-> Panel, from |-> None, to |-> None,
           config |-> FALSE, backup |-> FALSE, stop |-> FALSE,
           publish |-> FALSE, snapshot |-> FALSE, ready |-> FALSE]

Intent(t) == t.stop \/ t.publish
Active(t) == t.phase \notin Terminal \/ Intent(t)

Running(t) == svc[t] \in Versions

-----------------------------------------------------------------------------
(* Failures and the durable record.                                        *)

Fault == /\ faults < MaxFaults
         /\ faults' = faults + 1
NoFault == UNCHANGED faults

\* saveWorkerState fails before the rename (nothing changed) or in the
\* directory sync after it (the new record is visible, yet not surely on disk).
SaveFails(m) == /\ Fault
                /\ task' \in {task, m}
                /\ UNCHANGED synced

saveWorkerState(m) == task' = m /\ synced' = m

\* Save the record m; continue at ok, or at err when the save reports an error.
Save(m, ok, err) ==
    /\ mem' = m
    /\ \/ saveWorkerState(m) /\ pc' = ok /\ NoFault
       \/ SaveFails(m) /\ pc' = err

\* A save whose error is ignored or only joined to the returned error.
SaveAnyway(m, next) == Save(m, next, next)

phase(p) == [mem EXCEPT !.phase = p]

-----------------------------------------------------------------------------
(* Host operations as the worker uses them.                                *)

\* Stopping a service also ends the panel process and its data-dir lock.
StopService(t) ==
    /\ svc' = [svc EXCEPT ![t] = "down"]
    /\ dataLock' = IF t = Panel /\ dataLock = "panel" THEN "free" ELSE dataLock

\* Starting a running service changes nothing; the panel starts its launcher.
StartService(t) ==
    /\ svc' = [svc EXCEPT ![t] =
                 IF @ \notin {"down", "failed"} THEN @
                 ELSE IF t = Panel THEN "launching" ELSE bin[t]]
    /\ UNCHANGED dataLock

RestartTelemt == /\ svc' = [svc EXCEPT ![Telemt] = bin[Telemt]]
                 /\ UNCHANGED dataLock

\* The two outcomes of a runner command: success, or an error returned with or
\* without the effect. `unchanged' is what the command could have changed.
Run(effect, unchanged, ok, err) ==
    \/ effect /\ pc' = ok /\ NoFault
    \/ (effect \/ UNCHANGED unchanged) /\ pc' = err /\ Fault

-----------------------------------------------------------------------------
Init ==
    \E v \in Versions :
      /\ task = NoTask /\ synced = NoTask /\ mem = NoTask
      /\ lock = "free" /\ pc = "idle" /\ worker = "off"
      /\ svc = [t \in Targets |-> v]
      /\ dataLock = "panel"
      /\ bin = [t \in Targets |-> v] /\ bak = [t \in Targets |-> None]
      /\ data = [f \in Files |-> {v}] /\ snap = [f \in Files |-> None]
      /\ todo = {}
      /\ pre = [bin |-> bin, data |-> data]
      /\ faults = 0

-----------------------------------------------------------------------------
(* Client calls of the running panel.                                      *)

PanelMayLock == Running(Panel) /\ lock = "free"

\* `from' is the version the target reports while it runs.
Queued(t, v) == [NoTask EXCEPT !.phase = "checking", !.target = t,
                               !.from = svc[t], !.to = v]

\* Mutant: the error of CurrentVersion is ignored.
SubmitUnknownVersion(t, v) ==
    /\ PanelMayLock /\ ~Active(task)
    /\ saveWorkerState(Queued(t, v)) /\ NoFault
    /\ lock' = "client" /\ pc' = "launch" /\ mem' = Queued(t, v)
    /\ pre' = [bin |-> bin, data |-> data]
    /\ UNCHANGED <<worker, hostVars, todo>>

\* The queue is persisted before init is told (Submit, first half).
Submit(t, v) ==
    /\ PanelMayLock
    /\ ~Active(task)
    /\ Running(t)
    /\ \/ /\ saveWorkerState(Queued(t, v)) /\ NoFault
          /\ lock' = "client" /\ pc' = "launch" /\ mem' = Queued(t, v)
       \/ /\ Fault /\ task' = Queued(t, v)
          /\ UNCHANGED <<synced, lock, pc, mem>>
    /\ pre' = [bin |-> bin, data |-> data]
    /\ UNCHANGED <<worker, hostVars, todo>>

\* Submit, second half: the init command starts the worker; an error (which may
\* come with a worker that starts all the same) is recorded as a failed task.
SubmitLaunch ==
    /\ pc = "launch"
    /\ lock' = "free" /\ pc' = "idle" /\ mem' = NoTask
    /\ \/ worker' = "waiting" /\ UNCHANGED <<task, synced>> /\ NoFault
       \/ /\ Fault
          /\ \/ saveWorkerState(phase("failed"))
             \/ task' \in {task, phase("failed")} /\ UNCHANGED synced
          /\ worker' \in {worker, "waiting"}
    /\ UNCHANGED <<hostVars, todo, pre>>

\* WithHostControl: service actions on telemt, only with no task under way.
HostControlBegin ==
    /\ PanelMayLock
    /\ ~Active(task)
    /\ lock' = "client" /\ pc' = "control"
    /\ UNCHANGED <<diskVars, mem, worker, hostVars, todo, pre, faults>>

\* handleServiceAction: a failed command may leave telemt in any of the states.
HostControlRun ==
    /\ pc = "control"
    /\ StartService(Telemt) \/ StopService(Telemt) \/ RestartTelemt
    /\ lock' = "free" /\ pc' = "idle"
    /\ UNCHANGED <<diskVars, mem, worker, bin, bak, data, snap, todo, pre,
                   faults>>

\* Mutant: the watchdog does not look at the phase.
FailAnyUnconfigured ==
    /\ PanelMayLock
    /\ task.phase # "none" /\ ~task.config
    /\ saveWorkerState([task EXCEPT !.phase = "failed"])
    /\ UNCHANGED <<mem, lock, pc, worker, hostVars, todo, pre, faults>>

\* failUnstarted: a queued task no worker picked up within 30 seconds.
FailUnstarted ==
    /\ PanelMayLock
    /\ Active(task) /\ task.phase = "checking" /\ ~task.config
    /\ LET failed == [task EXCEPT !.phase = "failed"]
       IN (saveWorkerState(failed) /\ NoFault) \/ SaveFails(failed)
    /\ UNCHANGED <<mem, lock, pc, worker, hostVars, todo, pre>>

\* Mutant: a task restored at startup is taken for finished.
ResumeUnrestored ==
    /\ PanelMayLock
    /\ Active(task) /\ task.config /\ ~task.ready
    /\ worker' = "waiting"
    /\ UNCHANGED <<diskVars, mem, lock, pc, hostVars, todo, pre, faults>>

\* ResumeRecovery: hand an interrupted task to init again.
ResumeRecovery ==
    /\ PanelMayLock
    /\ Active(task) /\ task.config
    /\ worker' = "waiting"
    /\ UNCHANGED <<diskVars, mem, lock, pc, hostVars, todo, pre, faults>>

-----------------------------------------------------------------------------
(* RunWorker.                                                              *)

\* Lock, load, and dispatch on what the record says happened before.
RunWorker ==
    /\ worker = "waiting" /\ lock = "free"
    /\ \/ /\ ~Active(task)
          /\ worker' = "off"
          /\ UNCHANGED <<diskVars, mem, lock, pc, faults>>
       \/ /\ Active(task)
          /\ worker' = "running" /\ lock' = "worker"
          /\ \/ /\ task.ready
                /\ pc' = "old_health" /\ mem' = task
                /\ UNCHANGED diskVars /\ NoFault
             \/ /\ ~task.ready /\ task.config
                /\ pc' = IF Intent(task) THEN "rollback" ELSE "abort"
                /\ mem' = task
                /\ UNCHANGED diskVars /\ NoFault
             \/ /\ ~task.ready /\ ~task.config
                /\ Save([task EXCEPT !.config = TRUE], "fetch", "fail")
    /\ UNCHANGED <<hostVars, todo, pre>>

\* A step of the worker at program counter p that touches only the record.
WorkerAt(p) == pc = p /\ lock = "worker"
RecordStep(p, m, ok, err) ==
    /\ WorkerAt(p)
    /\ Save(m, ok, err)
    /\ UNCHANGED <<lock, worker, hostVars, todo, pre>>

\* An error of install: network, archive, probe or preflight, nothing changed.
InstallStepFails ==
    /\ lock = "worker" /\ pc \in {"fetch", "download", "stage"}
    /\ Fault /\ pc' = "install_error"
    /\ UNCHANGED <<diskVars, mem, lock, worker, hostVars, todo, pre>>

Fetch    == RecordStep("fetch", phase("downloading"), "download",
                       "install_error")
Download == RecordStep("download", phase("staging"), "stage", "install_error")
\* BackupPath is recorded before the backup file exists.
Stage    == RecordStep("stage", [mem EXCEPT !.backup = TRUE], "backup",
                       "install_error")

\* Mutant: a .bak that is already there is kept.
BackupIfMissing ==
    /\ WorkerAt("backup")
    /\ bak' = [bak EXCEPT ![mem.target] = IF @ = None THEN bin[mem.target] ELSE @]
    /\ pc' = IF mem.target = Panel THEN "stop_intent" ELSE "publish"
    /\ UNCHANGED <<diskVars, mem, lock, worker, svc, dataLock, bin, data, snap,
                   todo, pre, faults>>

\* The staged copy of the current binary is installed as .bak.
Backup ==
    /\ WorkerAt("backup")
    /\ Run(bak' = [bak EXCEPT ![mem.target] = bin[mem.target]], bak,
           IF mem.target = Panel THEN "stop_intent" ELSE "publish",
           "install_error")
    /\ UNCHANGED <<diskVars, mem, lock, worker, svc, dataLock, bin, data, snap,
                   todo, pre>>

StopIntent == RecordStep("stop_intent", [mem EXCEPT !.stop = TRUE],
                         "stop_panel", "install_error")

StopPanel ==
    /\ WorkerAt("stop_panel")
    /\ Run(StopService(Panel), <<svc, dataLock>>, "lock_data", "install_error")
    /\ UNCHANGED <<diskVars, mem, lock, worker, bin, bak, data, snap, todo,
                   pre>>

\* Mutant: the snapshot trusts the stop command and takes no data-dir lock.
LockDataUnchecked ==
    /\ WorkerAt("lock_data")
    /\ todo' = Files /\ pc' = "copy"
    /\ UNCHANGED <<diskVars, mem, lock, worker, svc, dataLock, bin, bak, data,
                   snap, pre, faults>>

\* AcquireDataDirLock does not wait: a panel still running is an error.
LockData ==
    /\ WorkerAt("lock_data")
    /\ IF dataLock = "free"
       THEN dataLock' = "worker" /\ todo' = Files /\ pc' = "copy"
       ELSE pc' = "install_error" /\ UNCHANGED <<dataLock, todo>>
    /\ UNCHANGED <<diskVars, mem, lock, worker, svc, bin, bak, data, snap, pre,
                   faults>>

\* snapshotWorkerFiles, one file at a time; the lock is released on an error.
CopyFile(f) ==
    /\ WorkerAt("copy") /\ f \in todo
    /\ snap' = [snap EXCEPT ![f] = data[f]]
    /\ todo' = todo \ {f}
    /\ UNCHANGED <<diskVars, mem, lock, pc, worker, svc, dataLock, bin, bak,
                   data, pre, faults>>

CopyFails ==
    /\ WorkerAt("copy") /\ todo # {}
    /\ Fault /\ pc' = "install_error" /\ dataLock' = "free"
    /\ UNCHANGED <<diskVars, mem, lock, worker, svc, bin, bak, data, snap, todo,
                   pre>>

SnapshotComplete ==
    /\ WorkerAt("copy") /\ todo = {}
    /\ Save([mem EXCEPT !.snapshot = TRUE], "publish", "install_error")
    /\ dataLock' = "free"
    /\ UNCHANGED <<lock, worker, svc, bin, bak, data, snap, todo, pre>>

PublishIntent == RecordStep("publish",
                            [phase("installing") EXCEPT !.publish = TRUE],
                            "install", "install_error")

InstallBinary ==
    /\ WorkerAt("install")
    /\ Run(bin' = [bin EXCEPT ![mem.target] = mem.to], bin, "installed",
           "install_error")
    /\ UNCHANGED <<diskVars, mem, lock, worker, svc, dataLock, bak, data, snap,
                   todo, pre>>

Restarting == RecordStep("installed", phase("restarting"), "start",
                         "install_error")

StartCandidate ==
    /\ WorkerAt("start")
    /\ Run(IF mem.target = Panel THEN StartService(Panel) ELSE RestartTelemt,
           <<svc, dataLock>>, "started", "install_error")
    /\ UNCHANGED <<diskVars, mem, lock, worker, bin, bak, data, snap, todo,
                   pre>>

Started == RecordStep("started", phase("health"), "health", "install_error")

\* WorkerHealthProbe.Check(target, v): two answers in a row that are ready and
\* of version v. It gives up on a service that is not coming up as v, or
\* because the answers stay unhealthy.
Health(v, ok, err) ==
    \/ svc[mem.target] = v /\ pc' = ok /\ NoFault
    \/ /\ svc[mem.target] \in (Versions \ {v}) \cup {"down"}
       /\ pc' = err /\ NoFault
    \/ pc' = err /\ Fault

CandidateHealth ==
    /\ WorkerAt("health")
    /\ Health(mem.to, "commit", "install_error")
    /\ UNCHANGED <<diskVars, mem, lock, worker, hostVars, todo, pre>>

Commit == RecordStep("commit",
                     [phase("done") EXCEPT !.stop = FALSE, !.publish = FALSE],
                     "clean", "install_error")

\* Mutant: an error after publication is treated like one before it.
InstallErrorAborts ==
    /\ WorkerAt("install_error")
    /\ mem' = [task EXCEPT !.stop = FALSE, !.publish = FALSE]
    /\ pc' = IF Active(task) THEN "abort" ELSE "fail"
    /\ UNCHANGED <<diskVars, lock, worker, hostVars, todo, pre, faults>>

\* RunWorker after install returned an error: the persisted record decides.
InstallError ==
    /\ WorkerAt("install_error")
    /\ mem' = task
    /\ pc' = IF ~Active(task) THEN "fail"
             ELSE IF Intent(task) THEN "rollback" ELSE "abort"
    /\ UNCHANGED <<diskVars, lock, worker, hostVars, todo, pre, faults>>

-----------------------------------------------------------------------------
(* Steps shared by the worker and the startup recovery.                    *)

Owner == lock \in {"worker", "recover"}
offline == lock = "recover"

\* "update interrupted before publication", or an install that failed early.
Abort ==
    /\ Owner /\ pc = "abort"
    /\ Save(phase("failed"), "clean", "fail")
    /\ UNCHANGED <<lock, worker, hostVars, todo, pre>>

\* restore returns at once without an intent; otherwise it stops the service,
\* except for the panel at startup, which has not been started yet.
RestoreStop ==
    /\ Owner /\ pc = "restore"
    /\ LET next == IF mem.target = Panel THEN "restore_lock" ELSE "restore_bin"
       IN IF offline /\ mem.target = Panel
          THEN pc' = next /\ NoFault /\ UNCHANGED <<svc, dataLock>>
          ELSE Run(StopService(mem.target), <<svc, dataLock>>, next,
                   "restore_error")
    /\ UNCHANGED <<diskVars, mem, lock, worker, bin, bak, data, snap, todo,
                   pre>>

RestoreLock ==
    /\ Owner /\ pc = "restore_lock"
    /\ IF dataLock = "free"
       THEN dataLock' = lock /\ pc' = "restore_bin"
       ELSE pc' = "restore_error" /\ UNCHANGED dataLock
    /\ UNCHANGED <<diskVars, mem, lock, worker, svc, bin, bak, data, snap, todo,
                   pre, faults>>

\* Mutant: rollback restores the binary and forgets the data.
RestoreBinOnly ==
    /\ Owner /\ pc = "restore_bin"
    /\ todo' = {} /\ pc' = "restore_data"
    /\ bin' = IF mem.publish THEN [bin EXCEPT ![mem.target] = bak[mem.target]]
                             ELSE bin
    /\ UNCHANGED <<diskVars, mem, lock, worker, svc, dataLock, bak, data, snap,
                   pre, faults>>

\* OpRestoreBinary copies the backup, so it can be repeated.
RestoreBin ==
    /\ Owner /\ pc = "restore_bin"
    /\ todo' = IF mem.snapshot THEN Files ELSE {}
    /\ LET t == mem.target
           missing == mem.publish /\ (~mem.backup \/ bak[t] = None)
       IN IF ~mem.publish \/ missing
          THEN /\ pc' = IF missing THEN "restore_error" ELSE "restore_data"
               /\ NoFault /\ UNCHANGED bin
          ELSE Run(bin' = [bin EXCEPT ![t] = bak[t]], bin, "restore_data",
                   "restore_error")
    /\ UNCHANGED <<diskVars, mem, lock, worker, svc, dataLock, bak, data, snap,
                   pre>>

RestoreFile(f) ==
    /\ Owner /\ pc = "restore_data" /\ f \in todo /\ snap[f] # None
    /\ data' = [data EXCEPT ![f] = snap[f]]
    /\ todo' = todo \ {f}
    /\ UNCHANGED <<diskVars, mem, lock, pc, worker, svc, dataLock, bin, bak,
                   snap, pre, faults>>

RestoreFileFails ==
    /\ Owner /\ pc = "restore_data" /\ todo # {}
    /\ IF \E f \in todo : snap[f] = None THEN NoFault ELSE Fault
    /\ pc' = "restore_error"
    /\ UNCHANGED <<diskVars, mem, lock, worker, hostVars, todo, pre>>

Release == dataLock' = IF dataLock = lock THEN "free" ELSE dataLock

\* Mutant: rollback expects init to start the old service.
RestoredNoStart ==
    /\ Owner /\ pc = "restore_data" /\ todo = {}
    /\ Release
    /\ pc' = IF offline THEN "ready" ELSE "old_health"
    /\ UNCHANGED <<diskVars, mem, lock, worker, svc, bin, bak, data, snap, todo,
                   pre, faults>>

\* restore returns nil: the data-dir lock is released.
Restored ==
    /\ Owner /\ pc = "restore_data" /\ todo = {}
    /\ Release
    /\ pc' = IF offline /\ mem.target = Panel THEN "ready" ELSE "start_old"
    /\ UNCHANGED <<diskVars, mem, lock, worker, svc, bin, bak, data, snap, todo,
                   pre, faults>>

\* The old service starts: in rollback, or in restore(offline) for telemt.
StartOld ==
    /\ Owner /\ pc = "start_old"
    /\ Run(StartService(mem.target), <<svc, dataLock>>,
           IF offline THEN "ready" ELSE "old_health", "restore_error")
    /\ UNCHANGED <<diskVars, mem, lock, worker, bin, bak, data, snap, todo,
                   pre>>

\* restore or the start of the old service failed. The worker records a failed
\* phase with the intents kept; the startup recovery only returns the error.
RestoreError ==
    /\ Owner /\ pc = "restore_error"
    /\ Release
    /\ todo' = {}
    /\ IF offline
       THEN pc' = "fail" /\ UNCHANGED <<diskVars, mem, faults>>
       ELSE SaveAnyway(phase("failed"), "fail")
    /\ UNCHANGED <<lock, worker, svc, bin, bak, data, snap, pre>>

\* cleanup removes the backup and the snapshot; every removal is attempted, and
\* any error keeps the recovery configuration for a later attempt.
Clean ==
    /\ Owner /\ pc = "clean"
    /\ LET t    == mem.target
           gone == [bak EXCEPT ![t] = IF mem.backup THEN None ELSE @]
           empty == [f \in Files |-> None]
       IN \/ bak' = gone /\ snap' = empty /\ pc' = "forget" /\ NoFault
          \/ bak' \in {bak, gone} /\ snap' \in {snap, empty} /\ pc' = "fail"
             /\ Fault
    /\ UNCHANGED <<diskVars, mem, lock, worker, svc, dataLock, bin, data, todo,
                   pre>>

Forget ==
    /\ Owner /\ pc = "forget"
    /\ Save([mem EXCEPT !.config = FALSE, !.backup = FALSE, !.snapshot = FALSE],
            "succeed", "fail")
    /\ UNCHANGED <<lock, worker, hostVars, todo, pre>>

-----------------------------------------------------------------------------
(* rollback and finishRecovery of the worker.                              *)

\* A journal that cannot be written does not prevent the restoration.
Rollback ==
    /\ WorkerAt("rollback")
    /\ SaveAnyway(phase("rolling_back"), "restore")
    /\ UNCHANGED <<lock, worker, hostVars, todo, pre>>

OldHealth ==
    /\ WorkerAt("old_health")
    /\ Health(mem.from, "recovered", "old_unhealthy")
    /\ UNCHANGED <<diskVars, mem, lock, worker, hostVars, todo, pre>>

OldUnhealthy ==
    /\ WorkerAt("old_unhealthy")
    /\ SaveAnyway(phase("failed"), "fail")
    /\ UNCHANGED <<lock, worker, hostVars, todo, pre>>

Recovered == RecordStep("recovered",
                        [phase("rolled_back") EXCEPT !.stop = FALSE,
                                     !.publish = FALSE, !.ready = FALSE],
                        "clean", "fail")

-----------------------------------------------------------------------------
(* RecoverWorker, run by the panel launcher before it execs the panel.     *)

\* An active worker (or the client) owns the lock: startup leaves it alone.
RecoverBusy ==
    /\ svc[Panel] = "launching" /\ lock # "free"
    /\ svc' = [svc EXCEPT ![Panel] = "execing"]
    /\ UNCHANGED <<diskVars, mem, lock, pc, worker, dataLock, bin, bak, data,
                   snap, todo, pre, faults>>

RecoverWorker ==
    /\ svc[Panel] = "launching" /\ lock = "free"
    /\ svc' = [svc EXCEPT ![Panel] = "recovering"]
    /\ lock' = "recover"
    /\ LET failed == [task EXCEPT !.phase = "failed"]
           rolling == [task EXCEPT !.phase = "rolling_back"]
       IN \/ /\ ~Active(task)
             /\ pc' = IF task.config THEN "clean" ELSE "succeed"
             /\ mem' = task
             /\ UNCHANGED diskVars /\ NoFault
          \/ Active(task) /\ ~task.config /\ Save(failed, "succeed", "fail")
          \/ /\ Active(task) /\ task.config /\ ~Intent(task)
             /\ pc' = "abort" /\ mem' = task
             /\ UNCHANGED diskVars /\ NoFault
          \/ /\ Active(task) /\ task.config /\ Intent(task)
             /\ IF task.ready
                THEN pc' = "launch_worker" /\ mem' = task
                     /\ UNCHANGED diskVars /\ NoFault
                ELSE SaveAnyway(rolling, "restore")
    /\ UNCHANGED <<worker, dataLock, bin, bak, data, snap, todo, pre>>

\* The restoration is recorded if possible; the old runtime starts regardless.
RecoveryReady ==
    /\ offline /\ pc = "ready"
    /\ SaveAnyway([mem EXCEPT !.ready = TRUE], "launch_worker")
    /\ UNCHANGED <<lock, worker, hostVars, todo, pre>>

LaunchWorker ==
    /\ offline /\ pc = "launch_worker"
    /\ pc' = "succeed"
    /\ \/ worker' = "waiting" /\ NoFault
       \/ UNCHANGED worker /\ Fault
    /\ UNCHANGED <<diskVars, mem, lock, hostVars, todo, pre>>

\* The lock holder returns. Init restarts a worker that failed; a worker whose
\* update failed or was rolled back returns that error after its cleanup.
\* The launcher execs the panel after success, and exits after an error.
Return ==
    /\ Owner /\ pc \in {"succeed", "fail"}
    /\ lock' = "free" /\ pc' = "idle" /\ mem' = NoTask
    /\ IF offline
       THEN /\ svc' = [svc EXCEPT ![Panel] = IF pc = "succeed" THEN "execing"
                                                               ELSE "failed"]
            /\ UNCHANGED worker
       ELSE /\ worker' \in IF pc = "fail" THEN {"waiting"}
                           ELSE IF mem.phase = "done" THEN {"off"}
                           ELSE {"off", "waiting"}
            /\ UNCHANGED svc
    /\ UNCHANGED <<diskVars, dataLock, bin, bak, data, snap, todo, pre, faults>>

-----------------------------------------------------------------------------
(* The host: init, the panel process, crashes.                             *)

\* The launcher execs whatever binary is installed; runRuntime exits when the
\* data directory is owned by another process, and otherwise opens the data.
PanelExec ==
    /\ svc[Panel] = "execing"
    /\ IF dataLock = "free"
       THEN /\ svc' = [svc EXCEPT ![Panel] = bin[Panel]]
            /\ dataLock' = "panel"
            /\ data' = [f \in Files |-> data[f] \cup {bin[Panel]}]
       ELSE /\ svc' = [svc EXCEPT ![Panel] = "failed"]
            /\ UNCHANGED <<dataLock, data>>
    /\ UNCHANGED <<diskVars, mem, lock, pc, worker, bin, bak, snap, todo, pre,
                   faults>>

\* Init restarts a service that exited by itself.
InitStarts(t) ==
    /\ svc[t] = "failed"
    /\ StartService(t)
    /\ UNCHANGED <<diskVars, mem, lock, pc, worker, bin, bak, data, snap, todo,
                   pre, faults>>

\* An operator starts a stopped panel by hand.
OperatorStarts ==
    /\ svc[Panel] = "down" /\ Fault
    /\ StartService(Panel)
    /\ UNCHANGED <<diskVars, mem, lock, pc, worker, bin, bak, data, snap, todo,
                   pre>>

\* What the kernel does for a dead lock holder.
LockHolderDies == lock' = "free" /\ pc' = "idle" /\ mem' = NoTask /\ todo' = {}

\* A service process dies; with the panel go its client calls and its data lock.
ServiceCrash(t) ==
    /\ svc[t] \notin {"down", "failed"} /\ Fault
    /\ svc' = [svc EXCEPT ![t] = "failed"]
    /\ dataLock' = IF t = Panel /\ dataLock \in {"panel", "recover"} THEN "free"
                   ELSE dataLock
    /\ IF t = Panel /\ lock \in {"client", "recover"}
       THEN LockHolderDies ELSE UNCHANGED <<lock, pc, mem, todo>>
    /\ UNCHANGED <<diskVars, worker, bin, bak, data, snap, pre>>

\* The worker is killed (also by a late init restart) and started again.
WorkerCrash ==
    /\ lock = "worker" /\ Fault
    /\ LockHolderDies
    /\ worker' = "waiting"
    /\ dataLock' = IF dataLock = "worker" THEN "free" ELSE dataLock
    /\ UNCHANGED <<diskVars, svc, bin, bak, data, snap, pre>>

\* The host reboots: init starts the services, not the worker.
Reboot ==
    /\ Fault
    /\ LockHolderDies
    /\ worker' = "off" /\ dataLock' = "free"
    /\ svc' = [t \in Targets |-> "failed"]
    /\ task' \in IF PowerLoss THEN {task, synced} ELSE {task}
    /\ synced' = task'
    /\ UNCHANGED <<bin, bak, data, snap, pre>>

-----------------------------------------------------------------------------
Client == \/ \E t \in UpdateTargets, v \in Versions : Submit(t, v)
          \/ SubmitLaunch \/ HostControlBegin \/ HostControlRun
          \/ FailUnstarted \/ ResumeRecovery

Install == \/ Fetch \/ Download \/ Stage \/ Backup \/ StopIntent \/ StopPanel
           \/ LockData \/ (\E f \in Files : CopyFile(f)) \/ CopyFails
           \/ SnapshotComplete \/ PublishIntent \/ InstallBinary \/ Restarting
           \/ StartCandidate \/ Started \/ CandidateHealth \/ Commit
           \/ InstallStepFails \/ InstallError

Recovery == \/ Abort \/ RestoreStop \/ RestoreLock \/ RestoreBin
            \/ (\E f \in Files : RestoreFile(f)) \/ RestoreFileFails
            \/ Restored \/ StartOld \/ RestoreError \/ Clean \/ Forget
            \/ Rollback \/ OldHealth \/ OldUnhealthy \/ Recovered
            \/ RecoveryReady \/ LaunchWorker \/ Return

Startup == RecoverBusy \/ RecoverWorker

Host == \/ PanelExec \/ (\E t \in Targets : InitStarts(t)) \/ OperatorStarts
        \/ (\E t \in Targets : ServiceCrash(t)) \/ WorkerCrash \/ Reboot

Next == Client \/ RunWorker \/ Install \/ Recovery \/ Startup \/ Host

Spec == Init /\ [][Next]_vars

\* Every process that is able to run runs on, init restarts what failed, and the
\* panel's poll loop (pollWorker) keeps calling its two watchdogs. Nothing is
\* assumed of operators, and failures are bounded by MaxFaults.
Fairness == /\ WF_vars(RunWorker)
            /\ WF_vars(Install \/ Recovery)
            /\ WF_vars(Startup)
            /\ WF_vars(SubmitLaunch \/ HostControlRun)
            /\ WF_vars(FailUnstarted) /\ WF_vars(ResumeRecovery)
            /\ WF_vars(PanelExec)
            /\ \A t \in Targets : WF_vars(InitStarts(t))

FairSpec == Spec /\ Fairness

-----------------------------------------------------------------------------
(* Properties.                                                             *)

Owners == {"client", "worker", "recover"}
Steps == {"idle", "launch", "control", "fetch", "download", "stage", "backup",
          "stop_intent", "stop_panel", "lock_data", "copy", "publish",
          "install", "installed", "start", "started", "health", "commit",
          "install_error", "abort", "rollback", "restore", "restore_lock",
          "restore_bin", "restore_data", "restore_error", "start_old",
          "old_health", "old_unhealthy", "recovered", "ready",
          "launch_worker", "clean", "forget", "succeed", "fail"}

\* Every variable keeps its type: the record of state.json, the lock holders,
\* the service stages and the contents of the files the worker handles.
TypeOK ==
    /\ task \in Tasks /\ synced \in Tasks /\ mem \in Tasks
    /\ lock \in Owners \cup {"free"} /\ pc \in Steps
    /\ worker \in {"off", "waiting", "running"}
    /\ svc \in [Targets -> Versions \cup Stages]
    /\ dataLock \in {"free", "panel", "worker", "recover"}
    /\ bin \in [Targets -> Versions]
    /\ bak \in [Targets -> Versions \cup {None}]
    /\ data \in [Files -> SUBSET Versions]
    /\ snap \in [Files -> (SUBSET Versions) \cup {None}]
    /\ todo \subseteq Files
    /\ pre \in [bin : [Targets -> Versions], data : [Files -> SUBSET Versions]]
    /\ faults \in 0..MaxFaults

\* While the record says that a candidate may have been published
\* (publish_intent), the previous binary is still in .bak and, for the panel, a
\* complete snapshot holds the data as they were when the update was queued:
\* no crash, failed save, cleanup or second recovery loses the way back.
RollbackPossible ==
    task.publish =>
      /\ task.backup
      /\ bak[task.target] = pre.bin[task.target]
      /\ task.target = Panel => task.snapshot /\ snap = pre.data

\* What a task leaves behind once it is not active: after `done' exactly the
\* requested binary (and, for the panel, data it has opened), after `failed' or
\* `rolled_back' the binaries and the data from before the update, bit by bit.
AtomicOutcome ==
    ~Active(task) =>
      IF task.phase = "done"
      THEN /\ bin = [pre.bin EXCEPT ![task.target] = task.to]
           /\ IF task.target = Panel
              THEN data = [f \in Files |-> pre.data[f] \cup {task.to}]
              ELSE data = pre.data
      ELSE bin = pre.bin /\ data = pre.data

\* Snapshot files are copied and restored only while no panel process has the
\* data directory open, whoever starts the panel meanwhile.
SnapshotIsQuiet ==
    (mem.target = Panel /\ pc \in {"copy", "restore_bin", "restore_data"})
      => ~Running(Panel)

\* The step leaves the result of an ended task alone: a new task is queued, or
\* the record of the ended one only loses what its cleanup removed.
KeepsResult ==
    ~Active(task) /\ task' # task =>
       \/ task'.phase = "checking" /\ ~task'.config
       \/ ~Active(task') /\ task'.phase = task.phase

\* A record that ended stays as it ended: until a new Submit, its result is
\* never rewritten by a late worker, watchdog or startup recovery.
ResultIsFinal == [][KeepsResult]_vars

\* Every accepted update ends, whatever fails on the way.
UpdateEnds == Active(task) ~> ~Active(task)

\* A panel stopped or replaced for an update runs again once the update ended.
PanelReturns ==
    (task.target = Panel /\ Intent(task)) ~> (~Active(task) /\ Running(Panel))

\* docs/UPDATES.md: the automatic return uses the backup binary but does not
\* roll back the configuration, the state file or the history database.
RollbackKeepsData ==
    [][ \A f \in Files : data[f] \subseteq data'[f] ]_vars

\* worker.go: a failed terminal write must retain the backup. As long as the
\* last record surely on disk has the publication intent, .bak is there.
FailedWriteRetainsBackup ==
    synced.publish => bak[synced.target] # None
=============================================================================
