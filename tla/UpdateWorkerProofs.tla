------------------------- MODULE UpdateWorkerProofs -------------------------
(***************************************************************************)
(* Theorems about UpdateWorker for every set of versions, files and        *)
(* targets and every number of failures.                                   *)
(***************************************************************************)
EXTENDS UpdateWorkerInv, UpdateWorkerRefinement, TLAPS

(* Type correctness.                                                       *)

\* The initial record and every variable of Init has its type.
LEMMA TypeInit == Init => TypeOK
  BY FaultsAssumption, VersionsAssumption
  DEF Init, TypeOK, NoTask, Tasks, Phases, Targets, Panel, Telemt, Owners,
      Steps, Stages

\* The records the code writes are records.
LEMMA RecordTypes ==
    ASSUME NEW r \in Tasks
    PROVE  /\ \A p \in Phases : [r EXCEPT !.phase = p] \in Tasks
           /\ [r EXCEPT !.config = TRUE] \in Tasks
           /\ [r EXCEPT !.backup = TRUE] \in Tasks
           /\ [r EXCEPT !.stop = TRUE] \in Tasks
           /\ [r EXCEPT !.snapshot = TRUE] \in Tasks
           /\ [r EXCEPT !.publish = TRUE] \in Tasks
           /\ [r EXCEPT !.ready = TRUE] \in Tasks
           /\ [r EXCEPT !.stop = FALSE, !.publish = FALSE] \in Tasks
           /\ [r EXCEPT !.stop = FALSE, !.publish = FALSE, !.ready = FALSE]
                \in Tasks
           /\ [r EXCEPT !.config = FALSE, !.backup = FALSE, !.snapshot = FALSE]
                \in Tasks
  BY DEF Tasks

\* So are the holder's record with another phase, and the empty record.
LEMMA PhaseTypes ==
    ASSUME TypeOK
    PROVE  /\ \A p \in Phases : phase(p) \in Tasks
           /\ NoTask \in Tasks
<1>1. \A p \in Phases : phase(p) \in Tasks
  BY RecordTypes DEF TypeOK, phase
<1>2. NoTask \in Tasks
  BY DEF NoTask, Tasks, Phases, Targets
<1> QED
  BY <1>1, <1>2

\* A save keeps the types of the record variables.
LEMMA SaveTypes ==
    ASSUME TypeOK, NEW m \in Tasks, NEW ok \in Steps, NEW err \in Steps,
           Save(m, ok, err)
    PROVE  /\ task' \in Tasks /\ synced' \in Tasks /\ mem' \in Tasks
           /\ pc' \in Steps /\ faults' \in 0..MaxFaults
  BY FaultsAssumption
  DEF TypeOK, Save, saveWorkerState, SaveFails, Fault, NoFault

\* A queued task is a record when the target runs.
LEMMA QueuedType ==
    ASSUME TypeOK, NEW t \in Targets, NEW v \in Versions, Running(t)
    PROVE  Queued(t, v) \in Tasks
  BY ZenonT(60) DEF TypeOK, Running, Queued, NoTask, Tasks, Phases, Targets, Panel, Telemt

\* Every step keeps the types.
LEMMA TypeNext == IInv /\ [Next]_vars => TypeOK'
<1> SUFFICES ASSUME IInv, [Next]_vars PROVE TypeOK'
  OBVIOUS
<1>0. TypeOK
  BY DEF IInv
<1> USE FaultsAssumption, <1>0
<1>1. CASE Client
  <2>1. ASSUME NEW t \in UpdateTargets, NEW v \in Versions, Submit(t, v)
        PROVE  TypeOK'
    <3>1. Queued(t, v) \in Tasks
      BY <2>1, QueuedType, TargetsAssumption DEF Submit
    <3>2. pre' \in [bin : [Targets -> Versions], data : [Files -> SUBSET Versions]]
      BY <2>1 DEF Submit, TypeOK
    <3>3. task' \in Tasks /\ synced' \in Tasks /\ mem' \in Tasks
      BY <2>1, <3>1 DEF Submit, saveWorkerState, TypeOK
    <3>4. /\ lock' \in Owners \cup {"free"} /\ pc' \in Steps
          /\ faults' \in 0..MaxFaults
      BY <2>1 DEF Submit, TypeOK, NoFault, Fault, Owners, Steps
    <3> QED
      BY <2>1, <3>2, <3>3, <3>4 DEF Submit, TypeOK, hostVars
  <2>2. CASE SubmitLaunch
    <3>1. phase("failed") \in Tasks /\ NoTask \in Tasks
      BY PhaseTypes DEF Phases
    <3>2. task' \in Tasks /\ synced' \in Tasks
      BY <2>2, <3>1 DEF SubmitLaunch, saveWorkerState, TypeOK
    <3> QED
      BY <2>2, <3>1, <3>2
      DEF SubmitLaunch, TypeOK, hostVars, NoFault, Fault, Steps
  <2>3. CASE HostControlBegin
    BY <2>3 DEF HostControlBegin, TypeOK, hostVars, diskVars, Owners, Steps
  <2>4. CASE HostControlRun
    <3>1. svc' \in [Targets -> Versions \cup Stages]
      BY <2>4 DEF HostControlRun, StartService, StopService, RestartTelemt,
                  TypeOK, Stages, Targets, Panel, Telemt
    <3>2. dataLock' \in {"free", "panel", "worker", "recover"}
      BY <2>4 DEF HostControlRun, StartService, StopService, RestartTelemt, TypeOK
    <3> QED
      BY <2>4, <3>1, <3>2 DEF HostControlRun, TypeOK, diskVars, Steps
  <2>5. CASE FailUnstarted
    <3>1. [task EXCEPT !.phase = "failed"] \in Tasks
      BY RecordTypes DEF TypeOK, Phases
    <3> QED
      BY <2>5, <3>1 DEF FailUnstarted, TypeOK, hostVars, saveWorkerState,
                        SaveFails, NoFault, Fault
  <2>6. CASE ResumeRecovery
    BY <2>6 DEF ResumeRecovery, TypeOK, hostVars, diskVars
  <2> QED
    BY <1>1, <2>1, <2>2, <2>3, <2>4, <2>5, <2>6 DEF Client
<1>2. CASE RunWorker
  <2>1. [task EXCEPT !.config = TRUE] \in Tasks
    BY RecordTypes DEF TypeOK
  <2>2. "fetch" \in Steps /\ "fail" \in Steps /\ "old_health" \in Steps
        /\ "rollback" \in Steps /\ "abort" \in Steps
    BY DEF Steps
  <2>3. /\ task' \in Tasks /\ synced' \in Tasks /\ mem' \in Tasks
        /\ pc' \in Steps /\ faults' \in 0..MaxFaults
    <3>1. CASE Save([task EXCEPT !.config = TRUE], "fetch", "fail")
      BY <3>1, <2>1, <2>2, SaveTypes
    <3>2. CASE ~Save([task EXCEPT !.config = TRUE], "fetch", "fail")
      BY <1>2, <3>2, <2>2 DEF RunWorker, TypeOK, diskVars, NoFault
    <3> QED
      BY <3>1, <3>2
  <2> QED
    BY <1>2, <2>3 DEF RunWorker, TypeOK, hostVars, Owners
<1>3. CASE Install
  <2>1. ASSUME NEW p \in Steps, NEW m \in Tasks, NEW ok \in Steps,
               NEW err \in Steps, RecordStep(p, m, ok, err)
        PROVE  TypeOK'
    BY <2>1, SaveTypes DEF RecordStep, TypeOK, hostVars
  <2>2. \A q \in {"fetch", "download", "stage", "backup", "stop_intent",
                  "stop_panel", "publish", "install", "installed", "start",
                  "started", "health", "commit", "clean", "install_error",
                  "lock_data", "copy", "fail", "rollback", "abort"} :
          q \in Steps
    BY DEF Steps
  <2>3. mem \in Tasks /\ \A p \in Phases : phase(p) \in Tasks
    BY RecordTypes DEF TypeOK, phase
  <2>4. \A p \in {"downloading", "staging", "installing", "restarting",
                  "health", "done"} : p \in Phases
    BY DEF Phases
  <2>5. CASE Fetch \/ Download \/ Restarting \/ Started
    BY <2>1, <2>2, <2>3, <2>4, <2>5 DEF Fetch, Download, Restarting, Started
  <2>6. CASE Stage \/ StopIntent
    BY <2>1, <2>2, <2>3, <2>6, RecordTypes DEF Stage, StopIntent
  <2>7. CASE PublishIntent \/ Commit
    <3>1. /\ [phase("installing") EXCEPT !.publish = TRUE] \in Tasks
          /\ [phase("done") EXCEPT !.stop = FALSE, !.publish = FALSE] \in Tasks
      BY <2>3, <2>4, RecordTypes
    <3> QED
      BY <3>1, <2>1, <2>2, <2>7 DEF PublishIntent, Commit
  <2>8. CASE Backup
    BY <2>8, <2>2
    DEF Backup, WorkerAt, Run, TypeOK, Tasks, diskVars, NoFault, Fault
  <2>9. CASE StopPanel
    BY <2>9, <2>2 DEF StopPanel, WorkerAt, Run, StopService, TypeOK, diskVars,
                      NoFault, Fault, Stages
  <2>10. CASE LockData
    BY <2>10, <2>2 DEF LockData, WorkerAt, TypeOK, diskVars
  <2>11. ASSUME NEW f \in Files, CopyFile(f)
         PROVE  TypeOK'
    BY <2>11 DEF CopyFile, WorkerAt, TypeOK, diskVars
  <2>12. CASE CopyFails
    BY <2>12, <2>2 DEF CopyFails, WorkerAt, TypeOK, diskVars, Fault
  <2>13. CASE SnapshotComplete
    <3>1. [mem EXCEPT !.snapshot = TRUE] \in Tasks
      BY <2>3, RecordTypes
    <3> QED
      BY <3>1, <2>13, <2>2, SaveTypes DEF SnapshotComplete, TypeOK
  <2>14. CASE InstallBinary
    <3>1. mem.to \in Versions
      BY <2>14 DEF IInv, StepOK, InstallBinary, WorkerAt, AfterOK, AfterPublish,
                   Good, Intent
    <3> QED
      BY <3>1, <2>14, <2>2
      DEF InstallBinary, WorkerAt, Run, TypeOK, diskVars, NoFault, Fault
  <2>15. CASE StartCandidate
    BY <2>15, <2>2
    DEF StartCandidate, WorkerAt, Run, StartService, RestartTelemt, TypeOK,
        diskVars, NoFault, Fault, Stages, Targets, Panel, Telemt
  <2>16. CASE CandidateHealth
    BY <2>16, <2>2 DEF CandidateHealth, WorkerAt, Health, TypeOK, diskVars,
                       hostVars, NoFault, Fault
  <2>17. CASE InstallStepFails
    BY <2>17, <2>2 DEF InstallStepFails, TypeOK, diskVars, hostVars, Fault
  <2>18. CASE InstallError
    BY <2>18, <2>2 DEF InstallError, TypeOK, diskVars, hostVars
  <2> QED
    BY <1>3, <2>5, <2>6, <2>7, <2>8, <2>9, <2>10, <2>11, <2>12, <2>13, <2>14,
       <2>15, <2>16, <2>17, <2>18 DEF Install
<1>4. CASE Recovery
  <2>1. \A q \in {"clean", "fail", "restore_lock", "restore_bin",
                  "restore_data", "restore_error", "ready", "start_old",
                  "old_health", "forget", "succeed", "restore", "recovered",
                  "old_unhealthy", "launch_worker", "idle"} : q \in Steps
    BY DEF Steps
  <2>2. /\ phase("failed") \in Tasks /\ phase("rolling_back") \in Tasks
        /\ phase("rolled_back") \in Tasks /\ NoTask \in Tasks
    BY PhaseTypes DEF Phases
  <2>3. CASE Abort \/ Rollback \/ OldUnhealthy
    BY <2>1, <2>2, <2>3, SaveTypes
    DEF Abort, Rollback, OldUnhealthy, SaveAnyway, TypeOK, hostVars
  <2>4. CASE RestoreStop
    BY <2>1, <2>4 DEF RestoreStop, Run, StopService, TypeOK, diskVars, NoFault,
                      Fault, Stages
  <2>5. CASE RestoreLock
    BY <2>1, <2>5 DEF RestoreLock, Owner, TypeOK, diskVars
  <2>6. CASE RestoreBin
    <3>1. mem.target \in Targets
      BY DEF TypeOK, Tasks
    <3>2. bin' \in [Targets -> Versions]
      BY <2>6, <3>1 DEF RestoreBin, Run, TypeOK
    <3> QED
      BY <2>1, <2>6, <3>2
      DEF RestoreBin, Run, TypeOK, diskVars, NoFault, Fault
  <2>7. ASSUME NEW f \in Files, RestoreFile(f)
        PROVE  TypeOK'
    BY <2>7 DEF RestoreFile, TypeOK, diskVars
  <2>8. CASE RestoreFileFails
    BY <2>1, <2>8 DEF RestoreFileFails, TypeOK, diskVars, hostVars, NoFault, Fault
  <2>9. CASE Restored
    BY <2>1, <2>9 DEF Restored, Release, TypeOK, diskVars
  <2>10. CASE StartOld
    BY <2>1, <2>10 DEF StartOld, Run, StartService, TypeOK, diskVars, NoFault,
                       Fault, Stages, Tasks
  <2>11. CASE RestoreError
    <3>1. /\ task' \in Tasks /\ synced' \in Tasks /\ mem' \in Tasks
          /\ pc' \in Steps /\ faults' \in 0..MaxFaults
      <4>1. CASE SaveAnyway(phase("failed"), "fail")
        BY <4>1, <2>1, <2>2, SaveTypes DEF SaveAnyway
      <4>2. CASE ~SaveAnyway(phase("failed"), "fail")
        BY <2>1, <2>11, <4>2 DEF RestoreError, TypeOK, diskVars
      <4> QED
        BY <4>1, <4>2
    <3> QED
      BY <3>1, <2>11 DEF RestoreError, Release, TypeOK
  <2>12. CASE Clean
    <3>1. mem.target \in Targets
      BY DEF TypeOK, Tasks
    <3>2. bak' \in [Targets -> Versions \cup {None}]
      BY <2>12, <3>1 DEF Clean, TypeOK
    <3>3. snap' \in [Files -> (SUBSET Versions) \cup {None}]
      BY <2>12 DEF Clean, TypeOK
    <3> QED
      BY <2>1, <2>12, <3>2, <3>3 DEF Clean, TypeOK, diskVars, NoFault, Fault
  <2>13. CASE Forget
    <3>1. [mem EXCEPT !.config = FALSE, !.backup = FALSE, !.snapshot = FALSE]
            \in Tasks
      BY RecordTypes DEF TypeOK
    <3> QED
      BY <2>1, <2>13, <3>1, SaveTypes DEF Forget, TypeOK, hostVars
  <2>14. CASE OldHealth
    BY <2>1, <2>14 DEF OldHealth, Health, TypeOK, diskVars, hostVars, NoFault,
                       Fault
  <2>15. CASE Recovered
    <3>1. [phase("rolled_back") EXCEPT !.stop = FALSE, !.publish = FALSE,
                                       !.ready = FALSE] \in Tasks
      BY <2>2, RecordTypes
    <3> QED
      BY <2>1, <2>15, <3>1, SaveTypes DEF Recovered, RecordStep, TypeOK, hostVars
  <2>16. CASE RecoveryReady
    <3>1. [mem EXCEPT !.ready = TRUE] \in Tasks
      BY RecordTypes DEF TypeOK
    <3> QED
      BY <2>1, <2>16, <3>1, SaveTypes
      DEF RecoveryReady, SaveAnyway, TypeOK, hostVars
  <2>17. CASE LaunchWorker
    BY <2>1, <2>17 DEF LaunchWorker, TypeOK, diskVars, hostVars, NoFault, Fault
  <2>18. CASE Return
    BY <2>1, <2>2, <2>18 DEF Return, TypeOK, diskVars, Stages
  <2> QED
    BY <1>4, <2>3, <2>4, <2>5, <2>6, <2>7, <2>8, <2>9, <2>10, <2>11, <2>12,
       <2>13, <2>14, <2>15, <2>16, <2>17, <2>18 DEF Recovery
<1>5. CASE Startup
  <2>1. CASE RecoverBusy
    BY <2>1 DEF RecoverBusy, TypeOK, diskVars, Stages
  <2>2. CASE RecoverWorker
    <3>1. /\ [task EXCEPT !.phase = "failed"] \in Tasks
          /\ [task EXCEPT !.phase = "rolling_back"] \in Tasks
      BY RecordTypes DEF TypeOK, Phases
    <3>2. \A q \in {"clean", "succeed", "fail", "abort", "launch_worker",
                    "restore"} : q \in Steps
      BY DEF Steps
    <3>3. /\ task' \in Tasks /\ synced' \in Tasks /\ mem' \in Tasks
          /\ pc' \in Steps /\ faults' \in 0..MaxFaults
      <4>1. CASE Save([task EXCEPT !.phase = "failed"], "succeed", "fail")
        BY <4>1, <3>1, <3>2, SaveTypes
      <4>2. CASE SaveAnyway([task EXCEPT !.phase = "rolling_back"], "restore")
        BY <4>2, <3>1, <3>2, SaveTypes DEF SaveAnyway
      <4>3. CASE mem' = task /\ UNCHANGED diskVars /\ NoFault
        BY <2>2, <4>3, <3>2
        DEF RecoverWorker, TypeOK, diskVars, NoFault, Save, SaveAnyway
      <4> QED
        BY <2>2, <4>1, <4>2, <4>3 DEF RecoverWorker
    <3> QED
      BY <2>2, <3>3 DEF RecoverWorker, TypeOK, Owners, Stages
  <2> QED
    BY <1>5, <2>1, <2>2 DEF Startup
<1>6. CASE Host
  <2>0. NoTask \in Tasks /\ "idle" \in Steps
    BY DEF NoTask, Tasks, Phases, Targets, Steps
  <2>1. CASE PanelExec
    BY <2>1 DEF PanelExec, TypeOK, diskVars, Stages, Targets
  <2>2. ASSUME NEW t \in Targets, InitStarts(t)
        PROVE  TypeOK'
    BY <2>2 DEF InitStarts, StartService, TypeOK, diskVars, Stages
  <2>3. CASE OperatorStarts
    BY <2>3 DEF OperatorStarts, StartService, TypeOK, diskVars, Stages, Targets,
                Fault
  <2>4. ASSUME NEW t \in Targets, ServiceCrash(t)
        PROVE  TypeOK'
    BY <2>0, <2>4 DEF ServiceCrash, LockHolderDies, TypeOK, diskVars, Stages,
                      Fault
  <2>5. CASE WorkerCrash
    BY <2>0, <2>5 DEF WorkerCrash, LockHolderDies, TypeOK, diskVars, Fault
  <2>6. CASE Reboot
    BY <2>0, <2>6 DEF Reboot, LockHolderDies, TypeOK, Stages, Fault
  <2> QED
    BY <1>6, <2>1, <2>2, <2>3, <2>4, <2>5, <2>6 DEF Host
<1>7. CASE UNCHANGED vars
  BY <1>7 DEF vars, TypeOK
<1> QED
  BY <1>1, <1>2, <1>3, <1>4, <1>5, <1>6, <1>7 DEF Next

(* The inductive invariant.                                                *)

\* Init satisfies the invariant: nothing queued, both services up.
LEMMA InvInit == Init => IInv
<1> SUFFICES ASSUME Init PROVE IInv
  OBVIOUS
<1>1. TypeOK
  BY TypeInit
<1>2. Good(task) /\ BaseOK
  BY DEF Init, Good, Intent, NoTask, Settled, OldHost, BaseOK, Targets, Panel
<1>3. PanelOK /\ LockOK
  BY VersionsAssumption DEF Init, PanelOK, Running, LockOK, Targets, Panel, Stages
<1>4. StepOK
  BY DEF Init, StepOK, BeforeOK, AfterOK, RestoreOK, EndOK, BeforePublish,
         AfterPublish, RestoreSteps, OldSteps
<1> QED
  BY <1>1, <1>2, <1>3, <1>4 DEF IInv

\* A step that leaves the host files alone and saves a good record, or fails
\* to save it, leaves a good record.
LEMMA SaveGood ==
    ASSUME Good(task), NEW m, Good(m), NEW ok, NEW err, Save(m, ok, err),
           UNCHANGED <<bin, bak, data, snap, pre>>
    PROVE  Good(task)'
<1>1. task' = task \/ task' = m
  BY DEF Save, saveWorkerState, SaveFails
<1> QED
  BY <1>1 DEF Good, Intent, Settled, Straddles, OldHost, SnapOld

\* Steps of the client keep the invariant.
LEMMA InvClient == ASSUME IInv, TypeOK', Client PROVE IInv'
<1> USE VersionsAssumption, TargetsAssumption
    DEF IInv, TypeOK, Tasks, Targets, Panel, Telemt, Stages
<1>1. ASSUME NEW t \in UpdateTargets, NEW v \in Versions, Submit(t, v)
      PROVE  IInv'
  <2>1. /\ Queued(t, v).phase = "checking" /\ Queued(t, v).target = t
        /\ Queued(t, v).from = svc[t] /\ Queued(t, v).to = v
        /\ ~Queued(t, v).config /\ ~Queued(t, v).backup
        /\ ~Queued(t, v).stop /\ ~Queued(t, v).publish
        /\ ~Queued(t, v).snapshot /\ ~Queued(t, v).ready
    BY DEF Queued, NoTask
  <2>2. task' = Queued(t, v) /\ (pc' = "launch" => mem' = task')
        /\ pc = "idle" /\ pc' \in {"idle", "launch"}
    BY <1>1 DEF Submit, PanelMayLock, saveWorkerState, LockOK
  <2>3. pre'.bin = bin /\ pre'.data = data /\ UNCHANGED hostVars
    BY <1>1 DEF Submit
  <2>4. Good(task)'
    BY <1>1, <2>1, <2>2, <2>3
    DEF Submit, Running, Good, Intent, Settled, OldHost, hostVars
  <2>5. BaseOK'
    BY <1>1, <2>3
    DEF Submit, Active, Intent, Good, Settled, OldHost, BaseOK, hostVars
  <2>6. PanelOK' /\ LockOK'
    BY <1>1, <2>2, <2>3
    DEF Submit, PanelMayLock, PanelOK, LockOK, Running, hostVars, ClientSteps
  <2>7. StepOK'
    BY <2>1, <2>2 DEF StepOK, BeforeOK, AfterOK, RestoreOK, EndOK, BeforePublish,
                      AfterPublish, RestoreSteps, OldSteps, Intent
  <2> QED
    BY <2>4, <2>5, <2>6, <2>7
<1> USE DEF Good, BaseOK, PanelOK, LockOK, StepOK, BeforeOK, AfterOK, RestoreOK,
            EndOK, OldHost, SnapOld, Settled, Straddles, Intent, Active,
            Running, Agree, ClientSteps, BeforePublish, AfterPublish,
            RestoreSteps, OldSteps, WorkerSteps, RecoverSteps, DataSteps,
            Terminal, diskVars, hostVars, NoFault, Fault
<1>2. CASE SubmitLaunch
  BY <1>2
  DEF SubmitLaunch, saveWorkerState, phase, NoTask
<1>3. CASE HostControlBegin
  BY <1>3
  DEF HostControlBegin, PanelMayLock
<1>4. CASE HostControlRun
  BY <1>4
  DEF HostControlRun, StartService, StopService, RestartTelemt
<1>5. CASE FailUnstarted
  BY <1>5
  DEF FailUnstarted, PanelMayLock, saveWorkerState, SaveFails
<1>6. CASE ResumeRecovery
  BY <1>6
  DEF ResumeRecovery, PanelMayLock
<1> QED
  BY <1>1, <1>2, <1>3, <1>4, <1>5, <1>6 DEF Client

\* The worker's dispatch keeps the invariant.
LEMMA InvRunWorker == ASSUME IInv, TypeOK', RunWorker PROVE IInv'
<1> USE VersionsAssumption DEF IInv, TypeOK, Tasks, Targets, Panel, Telemt, Stages
<1> USE DEF Good, BaseOK, PanelOK, LockOK, StepOK, BeforeOK, AfterOK, RestoreOK,
            EndOK, OldHost, SnapOld, Settled, Straddles, Intent, Active,
            Running, Agree, BeforePublish, AfterPublish, RestoreSteps, OldSteps,
            WorkerSteps, DataSteps, Terminal, RunWorker, Save, saveWorkerState,
            SaveFails, diskVars, hostVars
<1>1. Good(task)'
  OBVIOUS
<1>2. BaseOK' /\ PanelOK' /\ LockOK'
  OBVIOUS
<1>3. BeforeOK' /\ AfterOK'
  OBVIOUS
<1>4. RestoreOK' /\ EndOK'
  OBVIOUS
<1> QED
  BY <1>1, <1>2, <1>3, <1>4

\* Steps of install keep the invariant.
LEMMA InvInstall == ASSUME IInv, TypeOK', Install PROVE IInv'
<1> USE VersionsAssumption DEF IInv, TypeOK, Tasks, Targets, Panel, Telemt, Stages
<1> USE DEF Good, BaseOK, PanelOK, LockOK, StepOK, BeforeOK, AfterOK, RestoreOK,
            EndOK, OldHost, SnapOld, Settled, Straddles, Intent, Active,
            Running, Agree, BeforePublish, AfterPublish, RestoreSteps, OldSteps,
            WorkerSteps, DataSteps, Terminal, WorkerAt, diskVars, hostVars
<1>1. CASE Fetch
  BY <1>1 DEF Fetch, RecordStep, Save, phase, saveWorkerState, SaveFails
<1>2. CASE Download
  BY <1>2 DEF Download, RecordStep, Save, phase, saveWorkerState, SaveFails
<1>3. CASE Stage
  <2> DEFINE m == [mem EXCEPT !.backup = TRUE]
  <2>1. /\ m.backup /\ m.phase = mem.phase /\ m.target = mem.target
        /\ m.from = mem.from /\ m.to = mem.to /\ m.config = mem.config
        /\ m.stop = mem.stop /\ m.publish = mem.publish
        /\ m.snapshot = mem.snapshot /\ m.ready = mem.ready
    OBVIOUS
  <2>2. Save(m, "backup", "install_error") /\ pc = "stage"
        /\ lock = "worker" /\ UNCHANGED <<lock, worker, hostVars, todo, pre>>
    BY <1>3 DEF Stage, RecordStep
  <2>3. mem' = m /\ (task' = m \/ (task' = task /\ pc' = "install_error"))
        /\ pc' \in {"backup", "install_error"}
    BY <2>2 DEF Save, saveWorkerState, SaveFails
  <2> HIDE DEF m
  <2>4. Good(task)'
    BY <2>1, <2>2, <2>3
  <2>5. BaseOK' /\ PanelOK' /\ LockOK' /\ StepOK'
    BY <2>1, <2>2, <2>3
  <2> QED
    BY <2>4, <2>5
<1>4. CASE Backup
  BY <1>4 DEF Backup, Run
<1>5. CASE StopIntent
  <2> DEFINE m == [mem EXCEPT !.stop = TRUE]
  <2>1. /\ m.stop /\ m.phase = mem.phase /\ m.target = mem.target
        /\ m.from = mem.from /\ m.to = mem.to /\ m.config = mem.config
        /\ m.backup = mem.backup /\ m.publish = mem.publish
        /\ m.snapshot = mem.snapshot /\ m.ready = mem.ready
    OBVIOUS
  <2>2. Save(m, "stop_panel", "install_error") /\ pc = "stop_intent"
        /\ lock = "worker" /\ UNCHANGED <<lock, worker, hostVars, todo, pre>>
    BY <1>5 DEF StopIntent, RecordStep
  <2>3. mem' = m /\ (task' = m \/ (task' = task /\ pc' = "install_error"))
        /\ pc' \in {"stop_panel", "install_error"}
    BY <2>2 DEF Save, saveWorkerState, SaveFails
  <2> HIDE DEF m
  <2>4. Good(task)'
    BY <2>1, <2>2, <2>3
  <2>5. BaseOK' /\ PanelOK' /\ LockOK'
    BY <2>1, <2>2, <2>3
  <2>6. BeforeOK' /\ AfterOK'
    BY <2>1, <2>2, <2>3
  <2>7. RestoreOK' /\ EndOK'
    BY <2>1, <2>2, <2>3
  <2> QED
    BY <2>4, <2>5, <2>6, <2>7
<1>6. CASE StopPanel
  BY <1>6 DEF StopPanel, Run, StopService
<1>7. CASE LockData
  <2>1. Good(task)' /\ BaseOK' /\ PanelOK' /\ LockOK'
    BY <1>7 DEF LockData
  <2>2. BeforeOK' /\ AfterOK' /\ RestoreOK' /\ EndOK'
    BY <1>7 DEF LockData
  <2> QED
    BY <2>1, <2>2
<1>8. ASSUME NEW f \in Files, CopyFile(f)
      PROVE  IInv'
  BY <1>8 DEF CopyFile
<1>9. CASE CopyFails
  BY <1>9 DEF CopyFails
<1>10. CASE SnapshotComplete
  <2> DEFINE m == [mem EXCEPT !.snapshot = TRUE]
  <2>1. /\ m.snapshot /\ m.phase = mem.phase /\ m.target = mem.target
        /\ m.from = mem.from /\ m.to = mem.to /\ m.config = mem.config
        /\ m.backup = mem.backup /\ m.publish = mem.publish
        /\ m.stop = mem.stop /\ m.ready = mem.ready
    OBVIOUS
  <2>2. Save(m, "publish", "install_error") /\ pc = "copy" /\ todo = {}
        /\ lock = "worker" /\ dataLock' = "free"
        /\ UNCHANGED <<lock, worker, svc, bin, bak, data, snap, todo, pre>>
    BY <1>10 DEF SnapshotComplete
  <2>3. mem' = m /\ (task' = m \/ (task' = task /\ pc' = "install_error"))
        /\ pc' \in {"publish", "install_error"}
    BY <2>2 DEF Save, saveWorkerState, SaveFails
  <2> HIDE DEF m
  <2>4. Good(task)'
    BY <2>1, <2>2, <2>3
  <2>5. BaseOK' /\ PanelOK' /\ LockOK'
    BY <2>1, <2>2, <2>3
  <2>6. BeforeOK' /\ AfterOK'
    BY <2>1, <2>2, <2>3
  <2>7. RestoreOK' /\ EndOK'
    BY <2>1, <2>2, <2>3
  <2> QED
    BY <2>4, <2>5, <2>6, <2>7
<1>11. CASE PublishIntent
  <2> DEFINE m == [phase("installing") EXCEPT !.publish = TRUE]
  <2>1. /\ m.publish /\ m.phase = "installing" /\ m.target = mem.target
        /\ m.from = mem.from /\ m.to = mem.to /\ m.config = mem.config
        /\ m.backup = mem.backup /\ m.snapshot = mem.snapshot
        /\ m.stop = mem.stop /\ m.ready = mem.ready
    BY DEF phase
  <2>2. Save(m, "install", "install_error") /\ pc = "publish"
        /\ lock = "worker" /\ UNCHANGED <<lock, worker, hostVars, todo, pre>>
    BY <1>11 DEF PublishIntent, RecordStep
  <2>3. mem' = m /\ (task' = m \/ (task' = task /\ pc' = "install_error"))
        /\ pc' \in {"install", "install_error"}
    BY <2>2 DEF Save, saveWorkerState, SaveFails
  <2> HIDE DEF m
  <2>4. Good(task)'
    BY <2>1, <2>2, <2>3
  <2>5. BaseOK' /\ PanelOK' /\ LockOK'
    BY <2>1, <2>2, <2>3
  <2>6. BeforeOK' /\ AfterOK'
    BY <2>1, <2>2, <2>3
  <2>7. RestoreOK' /\ EndOK'
    BY <2>1, <2>2, <2>3
  <2> QED
    BY <2>4, <2>5, <2>6, <2>7
<1>12. CASE InstallBinary
  BY <1>12 DEF InstallBinary, Run
<1>13. CASE Restarting
  BY <1>13 DEF Restarting, RecordStep, Save, phase, saveWorkerState, SaveFails
<1>14. CASE StartCandidate
  BY <1>14 DEF StartCandidate, Run, StartService, RestartTelemt
<1>15. CASE Started
  BY <1>15 DEF Started, RecordStep, Save, phase, saveWorkerState, SaveFails
<1>16. CASE CandidateHealth
  BY <1>16 DEF CandidateHealth, Health
<1>17. CASE Commit
  <2> DEFINE m == [phase("done") EXCEPT !.stop = FALSE, !.publish = FALSE]
  <2>1. /\ ~m.publish /\ ~m.stop /\ m.phase = "done" /\ m.target = mem.target
        /\ m.from = mem.from /\ m.to = mem.to /\ m.config = mem.config
        /\ m.backup = mem.backup /\ m.snapshot = mem.snapshot
        /\ m.ready = mem.ready
    BY DEF phase
  <2>2. Save(m, "clean", "install_error") /\ pc = "commit"
        /\ lock = "worker" /\ UNCHANGED <<lock, worker, hostVars, todo, pre>>
    BY <1>17 DEF Commit, RecordStep
  <2>3. mem' = m /\ (task' = m \/ (task' = task /\ pc' = "install_error"))
        /\ pc' \in {"clean", "install_error"}
    BY <2>2 DEF Save, saveWorkerState, SaveFails
  <2> HIDE DEF m
  <2>4. Good(task)'
    BY <2>1, <2>2, <2>3
  <2>5. BaseOK' /\ PanelOK' /\ LockOK'
    BY <2>1, <2>2, <2>3
  <2>6. BeforeOK' /\ AfterOK'
    BY <2>1, <2>2, <2>3
  <2>7. RestoreOK' /\ EndOK'
    BY <2>1, <2>2, <2>3
  <2> QED
    BY <2>4, <2>5, <2>6, <2>7
<1>18. CASE InstallStepFails
  BY <1>18 DEF InstallStepFails
<1>19. CASE InstallError
  <2>1. Good(task)' /\ BaseOK' /\ PanelOK' /\ LockOK'
    BY <1>19 DEF InstallError
  <2>2. BeforeOK' /\ AfterOK'
    BY <1>19 DEF InstallError
  <2>3. RestoreOK' /\ EndOK'
    BY <1>19 DEF InstallError
  <2> QED
    BY <2>1, <2>2, <2>3
<1> QED
  BY <1>1, <1>2, <1>3, <1>4, <1>5, <1>6, <1>7, <1>8, <1>9, <1>10, <1>11, <1>12,
     <1>13, <1>14, <1>15, <1>16, <1>17, <1>18, <1>19 DEF Install

\* Steps shared by rollback and the startup recovery keep the invariant.
LEMMA InvRecovery == ASSUME IInv, TypeOK', Recovery PROVE IInv'
<1> USE VersionsAssumption DEF IInv, TypeOK, Tasks, Targets, Panel, Telemt, Stages
<1> USE DEF Good, BaseOK, PanelOK, LockOK, StepOK, BeforeOK, AfterOK, RestoreOK,
            EndOK, OldHost, SnapOld, Settled, Straddles, Intent, Active,
            Running, Agree, BeforePublish, AfterPublish, RestoreSteps, OldSteps,
            WorkerSteps, RecoverSteps, DataSteps, Terminal, WorkerAt, Owner,
            offline, diskVars, hostVars
<1>1. CASE Abort
  BY <1>1 DEF Abort, Save, phase, saveWorkerState, SaveFails
<1>2. CASE RestoreStop
  BY <1>2 DEF RestoreStop, Run, StopService
<1>3. CASE RestoreLock
  BY <1>3 DEF RestoreLock
<1>4. CASE RestoreBin
  BY <1>4 DEF RestoreBin, Run
<1>5. ASSUME NEW f \in Files, RestoreFile(f)
      PROVE  IInv'
  BY <1>5 DEF RestoreFile
<1>6. CASE RestoreFileFails
  BY <1>6 DEF RestoreFileFails
<1>7. CASE Restored
  BY <1>7 DEF Restored, Release
<1>8. CASE StartOld
  BY <1>8 DEF StartOld, Run, StartService
<1>9. CASE RestoreError
  BY <1>9 DEF RestoreError, Release, SaveAnyway, Save, phase, saveWorkerState,
              SaveFails
<1>10. CASE Clean
  BY <1>10 DEF Clean
<1>11. CASE Forget
  <2> DEFINE m == [mem EXCEPT !.config = FALSE, !.backup = FALSE,
                              !.snapshot = FALSE]
  <2>1. /\ ~m.config /\ ~m.backup /\ ~m.snapshot /\ m.phase = mem.phase
        /\ m.target = mem.target /\ m.from = mem.from /\ m.to = mem.to
        /\ m.stop = mem.stop /\ m.publish = mem.publish /\ m.ready = mem.ready
    OBVIOUS
  <2>2. Save(m, "succeed", "fail") /\ pc = "forget"
        /\ lock \in {"worker", "recover"}
        /\ UNCHANGED <<lock, worker, hostVars, todo, pre>>
    BY <1>11 DEF Forget
  <2>3. (task' = m \/ task' = task) /\ pc' \in {"succeed", "fail"}
    BY <2>2 DEF Save, saveWorkerState, SaveFails
  <2> HIDE DEF m
  <2>4. Good(task)'
    BY <2>1, <2>2, <2>3
  <2>5. BaseOK' /\ PanelOK' /\ LockOK' /\ StepOK'
    BY <2>2, <2>3
  <2> QED
    BY <2>4, <2>5
<1>12. CASE Rollback
  BY <1>12 DEF Rollback, SaveAnyway, Save, phase, saveWorkerState, SaveFails
<1>13. CASE OldHealth
  BY <1>13 DEF OldHealth, Health
<1>14. CASE OldUnhealthy
  BY <1>14 DEF OldUnhealthy, SaveAnyway, Save, phase, saveWorkerState, SaveFails
<1>15. CASE Recovered
  <2> DEFINE m == [phase("rolled_back") EXCEPT !.stop = FALSE,
                                     !.publish = FALSE, !.ready = FALSE]
  <2>1. /\ ~m.publish /\ ~m.stop /\ ~m.ready /\ m.phase = "rolled_back"
        /\ m.target = mem.target /\ m.from = mem.from /\ m.to = mem.to
        /\ m.config = mem.config /\ m.backup = mem.backup
        /\ m.snapshot = mem.snapshot
    BY DEF phase
  <2>2. Save(m, "clean", "fail") /\ pc = "recovered"
        /\ lock = "worker" /\ UNCHANGED <<lock, worker, hostVars, todo, pre>>
    BY <1>15 DEF Recovered, RecordStep
  <2>3. mem' = m /\ (task' = m \/ (task' = task /\ pc' = "fail"))
        /\ pc' \in {"clean", "fail"}
    BY <2>2 DEF Save, saveWorkerState, SaveFails
  <2> HIDE DEF m
  <2>4. Good(task)'
    BY <2>1, <2>2, <2>3
  <2>5. BaseOK' /\ PanelOK' /\ LockOK'
    BY <2>1, <2>2, <2>3
  <2>6. StepOK'
    BY <2>1, <2>2, <2>3
  <2> QED
    BY <2>4, <2>5, <2>6
<1>16. CASE RecoveryReady
  BY <1>16 DEF RecoveryReady, SaveAnyway, Save, saveWorkerState, SaveFails
<1>17. CASE LaunchWorker
  BY <1>17 DEF LaunchWorker
<1>18. CASE Return
  BY <1>18 DEF Return, NoTask
<1> QED
  BY <1>1, <1>2, <1>3, <1>4, <1>5, <1>6, <1>7, <1>8, <1>9, <1>10, <1>11, <1>12,
     <1>13, <1>14, <1>15, <1>16, <1>17, <1>18 DEF Recovery

\* The launcher's startup recovery keeps the invariant when it takes over.
LEMMA InvStartup == ASSUME IInv, TypeOK', Startup PROVE IInv'
<1> USE VersionsAssumption DEF IInv, TypeOK, Tasks, Targets, Panel, Telemt, Stages
<1> USE DEF Good, BaseOK, PanelOK, LockOK, StepOK, BeforeOK, AfterOK, RestoreOK,
            EndOK, OldHost, SnapOld, Settled, Straddles, Intent, Active,
            Running, Agree, BeforePublish, AfterPublish, RestoreSteps, OldSteps,
            RecoverSteps, DataSteps, Terminal, diskVars
<1>1. CASE RecoverBusy
  BY <1>1 DEF RecoverBusy
<1>2. CASE RecoverWorker
  BY <1>2 DEF RecoverWorker, SaveAnyway, Save, saveWorkerState, SaveFails
<1> QED
  BY <1>1, <1>2 DEF Startup

\* An old panel that opens its own data again leaves them as they were.
LEMMA OldPanelKeepsData ==
    ASSUME BaseOK, bin[Panel] = pre.bin[Panel],
           NEW f \in Files, data[f] = pre.data[f],
           data'[f] = data[f] \cup {bin[Panel]}
    PROVE  data'[f] = pre.data[f]
  BY DEF BaseOK

\* Starts and crashes keep the invariant, as long as a reboot does not bring an
\* older record back.
LEMMA InvHost == ASSUME IInv, TypeOK', ~PowerLoss, Host PROVE IInv'
<1> USE VersionsAssumption DEF IInv, TypeOK, Tasks, Targets, Panel, Telemt, Stages
<1> USE DEF Good, BaseOK, PanelOK, LockOK, StepOK, BeforeOK, AfterOK, RestoreOK,
            EndOK, OldHost, SnapOld, Settled, Straddles, Intent, Active,
            Running, Agree, ClientSteps, BeforePublish, AfterPublish,
            RestoreSteps, OldSteps, WorkerSteps, RecoverSteps, DataSteps,
            Terminal, diskVars
<1>1. CASE PanelExec
  <2>1. CASE dataLock # "free"
    BY <1>1, <2>1 DEF PanelExec
  <2>2. CASE dataLock = "free"
    <3>1. /\ svc[Panel] = "execing" /\ svc'[Panel] = bin[Panel]
          /\ svc'[Telemt] = svc[Telemt] /\ dataLock' = "panel"
          /\ \A f \in Files : data'[f] = data[f] \cup {bin[Panel]}
          /\ UNCHANGED <<task, mem, lock, pc, worker, bin, bak, snap, todo, pre>>
      BY <1>1, <2>2 DEF PanelExec
    <3>2. \A f \in Files : data[f] = pre.data[f] /\ bin[Panel] = pre.bin[Panel]
                             => data'[f] = pre.data[f]
      <4> SUFFICES ASSUME NEW f \in Files, data[f] = pre.data[f],
                          bin[Panel] = pre.bin[Panel]
                   PROVE  data'[f] = pre.data[f]
        OBVIOUS
      <4>1. BaseOK /\ data'[f] = data[f] \cup {bin[Panel]}
        BY <3>1
      <4> HIDE DEF BaseOK, Panel
      <4> QED
        BY <4>1, OldPanelKeepsData
    <3>3. lock # "recover" /\ pc \notin {"copy"}
      BY <2>2, <3>1
    <3>4. BaseOK' /\ PanelOK' /\ LockOK'
      BY <2>2, <3>1, <3>3
    <3>5. Good(task)'
      <4>1. ~task.publish => Settled(task)'
        BY <3>1, <3>2
      <4>2. task.publish => Straddles(task)'
        BY <3>1, <3>2
      <4>3. task.ready => OldHost'
        BY <3>1, <3>2
      <4> QED
        BY <3>1, <4>1, <4>2, <4>3
    <3>6. BeforeOK' /\ AfterOK' /\ EndOK'
      BY <2>2, <3>1, <3>2
    <3>7. RestoreOK'
      <4>1. pc \in OldSteps => OldHost'
        BY <3>1, <3>2
      <4>2. pc = "restore_data" => \A f \in Files \ todo : data'[f] = pre.data[f]
        BY <3>1, <3>2
      <4> QED
        BY <3>1, <4>1, <4>2
    <3> QED
      BY <3>4, <3>5, <3>6, <3>7
  <2> QED
    BY <2>1, <2>2
<1>2. ASSUME NEW t \in Targets, InitStarts(t)
      PROVE  IInv'
  BY <1>2 DEF InitStarts, StartService
<1>3. CASE OperatorStarts
  BY <1>3 DEF OperatorStarts, StartService
<1>4. ASSUME NEW t \in Targets, ServiceCrash(t)
      PROVE  IInv'
  <2>1. CASE t = Telemt
    BY <1>4, <2>1 DEF ServiceCrash
  <2>2. CASE t = Panel
    <3>1. Good(task)' /\ BaseOK' /\ PanelOK'
      BY <1>4, <2>2 DEF ServiceCrash
    <3>2. LockOK'
      <4>1. CASE lock \in {"client", "recover"}
        BY <1>4, <2>2, <4>1 DEF ServiceCrash, LockHolderDies
      <4>2. CASE lock \in {"free", "worker"}
        BY <1>4, <2>2, <4>2 DEF ServiceCrash
      <4> QED
        BY <4>1, <4>2 DEF Owners
    <3>3. StepOK'
      BY <1>4, <2>2 DEF ServiceCrash, LockHolderDies
    <3> QED
      BY <3>1, <3>2, <3>3
  <2> QED
    BY <2>1, <2>2
<1>5. CASE WorkerCrash
  BY <1>5 DEF WorkerCrash, LockHolderDies
<1>6. CASE Reboot
  BY <1>6 DEF Reboot, LockHolderDies
<1> QED
  BY <1>1, <1>2, <1>3, <1>4, <1>5, <1>6, ZenonT(60) DEF Host

\* Every step keeps the invariant.
LEMMA InvNext == ASSUME IInv, ~PowerLoss, [Next]_vars PROVE IInv'
<1>1. TypeOK'
  BY TypeNext
<1>2. CASE UNCHANGED vars
  BY <1>2 DEF vars, IInv, TypeOK, Good, BaseOK, PanelOK, LockOK, StepOK,
              BeforeOK, AfterOK, RestoreOK, EndOK, OldHost, SnapOld, Settled,
              Straddles, Intent, Active, Running, Agree
<1> QED
  BY <1>1, <1>2, InvClient, InvRunWorker, InvInstall, InvRecovery, InvStartup,
     InvHost DEF Next

\* The invariant says what RollbackPossible, AtomicOutcome and SnapshotIsQuiet
\* say: functions that agree at every point of their common domain are equal.
LEMMA InvImplies == IInv => RollbackPossible /\ AtomicOutcome /\ SnapshotIsQuiet
<1> SUFFICES ASSUME IInv
             PROVE  RollbackPossible /\ AtomicOutcome /\ SnapshotIsQuiet
  OBVIOUS
<1>1. /\ TypeOK /\ task \in Tasks /\ Good(task) /\ PanelOK /\ LockOK
      /\ pre.bin \in [Targets -> Versions]
      /\ pre.data \in [Files -> SUBSET Versions]
  BY DEF IInv, TypeOK
<1>2. RollbackPossible
  <2>1. SnapOld => snap = pre.data
    BY <1>1 DEF SnapOld, TypeOK
  <2> QED
    BY <1>1, <2>1 DEF RollbackPossible, Good, Intent
<1>3. AtomicOutcome
  <2> SUFFICES ASSUME ~Active(task)
               PROVE  IF task.phase = "done"
                      THEN /\ bin = [pre.bin EXCEPT ![task.target] = task.to]
                           /\ IF task.target = Panel
                              THEN data = [f \in Files |->
                                             pre.data[f] \cup {task.to}]
                              ELSE data = pre.data
                      ELSE bin = pre.bin /\ data = pre.data
    BY DEF AtomicOutcome
  <2>1. Settled(task) /\ task.target \in Targets
    BY <1>1 DEF Good, Active, Intent, Tasks
  <2>2. bin \in [Targets -> Versions] /\ data \in [Files -> SUBSET Versions]
    BY <1>1 DEF TypeOK
  <2>3. CASE task.phase = "done"
    <3>1. \A t \in Targets : bin[t] = IF t = task.target THEN task.to
                                                         ELSE pre.bin[t]
      BY <2>1, <2>3 DEF Settled
    <3>2. bin = [pre.bin EXCEPT ![task.target] = task.to]
      BY <1>1, <2>1, <2>2, <3>1
    <3>3. CASE task.target = Panel
      <4>1. \A f \in Files : data[f] = pre.data[f] \cup {task.to}
        BY <2>1, <2>3, <3>3 DEF Settled
      <4>2. data = [f \in Files |-> pre.data[f] \cup {task.to}]
        BY <2>2, <4>1
      <4> QED
        BY <2>3, <3>2, <3>3, <4>2
    <3>4. CASE task.target # Panel
      <4>1. data = pre.data
        BY <1>1, <2>1, <2>2, <2>3, <3>4 DEF Settled
      <4> QED
        BY <2>3, <3>2, <3>4, <4>1
    <3> QED
      BY <3>3, <3>4
  <2>4. CASE task.phase # "done"
    <3>1. OldHost
      BY <2>1, <2>4 DEF Settled
    <3> QED
      BY <1>1, <2>2, <2>4, <3>1 DEF OldHost
  <2> QED
    BY <2>3, <2>4
<1>4. SnapshotIsQuiet
  <2> SUFFICES ASSUME mem.target = Panel,
                      pc \in {"copy", "restore_bin", "restore_data"}
               PROVE  ~Running(Panel)
    BY DEF SnapshotIsQuiet
  <2>1. dataLock = lock
    BY <1>1 DEF LockOK
  <2>2. lock # "panel"
    BY <1>1 DEF TypeOK, Owners
  <2> QED
    BY <1>1, <2>1, <2>2 DEF PanelOK
<1> QED
  BY <1>2, <1>3, <1>4

\* With durable renames, the record and every variable keep their types.
THEOREM TypeCorrect == ASSUME ~PowerLoss PROVE Spec => []TypeOK
<1>1. Init => IInv
  BY InvInit
<1>2. IInv /\ [Next]_vars => IInv'
  BY InvNext
<1>3. IInv => TypeOK
  BY DEF IInv
<1> QED
  BY <1>1, <1>2, <1>3, PTL DEF Spec

\* With durable renames, a published candidate can always be taken back: the
\* backup and a complete snapshot outlive every crash and failed save.
THEOREM RollbackAlwaysPossible == ASSUME ~PowerLoss PROVE Spec => []RollbackPossible
<1>1. Init => IInv
  BY InvInit
<1>2. IInv /\ [Next]_vars => IInv'
  BY InvNext
<1>3. IInv => RollbackPossible
  BY InvImplies
<1> QED
  BY <1>1, <1>2, <1>3, PTL DEF Spec

\* With durable renames, a finished task leaves the old or the new version and
\* its data, never a mixture, for any number of versions, files and failures.
THEOREM OutcomeIsAtomic == ASSUME ~PowerLoss PROVE Spec => []AtomicOutcome
<1>1. Init => IInv
  BY InvInit
<1>2. IInv /\ [Next]_vars => IInv'
  BY InvNext
<1>3. IInv => AtomicOutcome
  BY InvImplies
<1> QED
  BY <1>1, <1>2, <1>3, PTL DEF Spec

\* No panel process has the data directory open while the worker or the startup
\* recovery copies or restores it.
THEOREM SnapshotsAreQuiet == ASSUME ~PowerLoss PROVE Spec => []SnapshotIsQuiet
<1>1. Init => IInv
  BY InvInit
<1>2. IInv /\ [Next]_vars => IInv'
  BY InvNext
<1>3. IInv => SnapshotIsQuiet
  BY InvImplies
<1> QED
  BY <1>1, <1>2, <1>3, PTL DEF Spec

\* Only Submit and the end of a cleanup write over an ended record: every other
\* save of the worker, the watchdog and the startup recovery is made while the
\* record is active.
LEMMA EndedKept ==
    ASSUME IInv, ~PowerLoss, [Next]_vars, ~Active(task),
           ~ \E t \in UpdateTargets, v \in Versions : Submit(t, v)
    PROVE  ~Active(task') /\ task'.phase = task.phase
<1>10. CASE task' = task
  BY <1>10
<1> SUFFICES ASSUME task' # task
             PROVE  ~Active(task') /\ task'.phase = task.phase
  BY <1>10
<1>0. TypeOK /\ StepOK /\ task \in Tasks /\ mem \in Tasks
  BY DEF IInv, TypeOK
<1>1. \/ pc \notin BeforePublish \cup AfterPublish \cup RestoreSteps \cup OldSteps
      \/ Active(task)
  BY <1>0 DEF StepOK, BeforeOK, AfterOK, RestoreOK, Active, Intent, Agree
<1>2. pc \notin {"launch", "abort", "rollback"}
  BY <1>0 DEF StepOK, EndOK, RestoreOK, Agree, Active, Intent, Terminal
<1>3. CASE Client
  BY <1>2, <1>3 DEF Client, SubmitLaunch, HostControlBegin, HostControlRun,
                    FailUnstarted, ResumeRecovery, diskVars
<1>4. CASE RunWorker
  BY <1>4 DEF RunWorker, diskVars
<1>5. CASE Install
  <2>1. pc \notin BeforePublish \cup AfterPublish
    BY <1>1
  <2> QED
    BY <1>5, <2>1
    DEF Install, Fetch, Download, Stage, Backup, StopIntent, StopPanel, LockData,
        CopyFile, CopyFails, SnapshotComplete, PublishIntent, InstallBinary,
        Restarting, StartCandidate, Started, CandidateHealth, Commit,
        InstallStepFails, InstallError, RecordStep, WorkerAt, BeforePublish,
        AfterPublish, diskVars
<1>6. CASE Recovery
  <2>1. pc \notin RestoreSteps \cup OldSteps \cup {"abort", "rollback"}
    BY <1>1, <1>2
  <2>2. CASE Forget
    <3> DEFINE m == [mem EXCEPT !.config = FALSE, !.backup = FALSE,
                                !.snapshot = FALSE]
    <3>1. m.phase = mem.phase /\ m.stop = mem.stop /\ m.publish = mem.publish
      BY <1>0 DEF Tasks
    <3>2. task' = m /\ mem = task
      BY <1>0, <2>2 DEF Forget, Save, saveWorkerState, SaveFails, StepOK, EndOK
    <3> HIDE DEF m
    <3> QED
      BY <3>1, <3>2 DEF Active, Intent
  <2> QED
    BY <1>6, <2>1, <2>2
    DEF Recovery, Abort, RestoreStop, RestoreLock, RestoreBin, RestoreFile,
        RestoreFileFails, Restored, StartOld, RestoreError, Clean, Rollback,
        OldHealth, OldUnhealthy, Recovered, RecordStep, RecoveryReady,
        LaunchWorker, Return, WorkerAt, RestoreSteps, OldSteps, diskVars
<1>7. CASE Startup
  BY <1>7 DEF Startup, RecoverBusy, RecoverWorker, diskVars
<1>8. CASE Host
  BY <1>8 DEF Host, PanelExec, InitStarts, OperatorStarts, ServiceCrash,
              WorkerCrash, Reboot, diskVars
<1>9. CASE UNCHANGED vars
  BY <1>9 DEF vars
<1> QED
  BY <1>3, <1>4, <1>5, <1>6, <1>7, <1>8, <1>9 DEF Next

\* So no step but Submit, which queues a new task, rewrites an ended record.
LEMMA FinalNext == ASSUME IInv, ~PowerLoss, [Next]_vars PROVE KeepsResult
<1>1. ASSUME NEW t \in UpdateTargets, NEW v \in Versions, Submit(t, v)
      PROVE  task'.phase = "checking" /\ ~task'.config
  <2>1. Queued(t, v).phase = "checking" /\ ~Queued(t, v).config
    BY DEF Queued, NoTask
  <2> QED
    BY <1>1, <2>1 DEF Submit, saveWorkerState
<1> QED
  BY <1>1, EndedKept DEF KeepsResult

\* With durable renames, no late step rewrites the result of an ended update.
THEOREM ResultsAreFinal == ASSUME ~PowerLoss PROVE Spec => ResultIsFinal
<1>1. Init => IInv
  BY InvInit
<1>2. IInv /\ [Next]_vars => IInv'
  BY InvNext
<1>3. IInv /\ [Next]_vars => [KeepsResult]_vars
  BY FinalNext
<1> QED
  BY <1>1, <1>2, <1>3, PTL DEF Spec, ResultIsFinal

-----------------------------------------------------------------------------
(***************************************************************************)
(* The refinement: UpdateWorker implements UpdateTransaction, for every    *)
(* set of versions, files and targets and every number of failures, as     *)
(* long as a visible rename survives a reboot.                             *)
(***************************************************************************)

\* No record that the holder of operation.lock derives from its own changes the
\* target or the version of the task.
LEMMA SameFields ==
    ASSUME NEW r \in Tasks
    PROVE  /\ \A p \in Phases : /\ [r EXCEPT !.phase = p].target = r.target
                                /\ [r EXCEPT !.phase = p].to = r.to
           /\ [r EXCEPT !.config = TRUE].target = r.target
           /\ [r EXCEPT !.config = TRUE].to = r.to
           /\ [r EXCEPT !.backup = TRUE].target = r.target
           /\ [r EXCEPT !.backup = TRUE].to = r.to
           /\ [r EXCEPT !.stop = TRUE].target = r.target
           /\ [r EXCEPT !.stop = TRUE].to = r.to
           /\ [r EXCEPT !.snapshot = TRUE].target = r.target
           /\ [r EXCEPT !.snapshot = TRUE].to = r.to
           /\ [r EXCEPT !.publish = TRUE].target = r.target
           /\ [r EXCEPT !.publish = TRUE].to = r.to
           /\ [r EXCEPT !.ready = TRUE].target = r.target
           /\ [r EXCEPT !.ready = TRUE].to = r.to
           /\ [r EXCEPT !.stop = FALSE, !.publish = FALSE].target = r.target
           /\ [r EXCEPT !.stop = FALSE, !.publish = FALSE].to = r.to
           /\ [r EXCEPT !.stop = FALSE, !.publish = FALSE,
                        !.ready = FALSE].target = r.target
           /\ [r EXCEPT !.stop = FALSE, !.publish = FALSE,
                        !.ready = FALSE].to = r.to
           /\ [r EXCEPT !.config = FALSE, !.backup = FALSE,
                        !.snapshot = FALSE].target = r.target
           /\ [r EXCEPT !.config = FALSE, !.backup = FALSE,
                        !.snapshot = FALSE].to = r.to
  BY DEF Tasks

\* The task of the record is the same before and after the step.
SameTask == /\ pre' = pre
            /\ task'.target = task.target /\ task'.to = task.to

\* A save by whoever holds a record of the same task keeps the task.
LEMMA SaveKeepsTask ==
    ASSUME NEW m, task' \in {task, m}, pre' = pre,
           m.target = task.target, m.to = task.to
    PROVE  SameTask
  BY DEF SameTask

\* Where the lock holder saves, its record is of the task in state.json.
LEMMA HolderAgrees ==
    ASSUME IInv,
           pc \in BeforePublish \cup AfterPublish \cup RestoreSteps \cup OldSteps
                  \cup {"launch", "abort", "rollback", "forget"}
    PROVE  mem.target = task.target /\ mem.to = task.to
  BY DEF IInv, StepOK, BeforeOK, AfterOK, RestoreOK, EndOK, Agree

\* Only Submit changes which task the record is about.
LEMMA TaskKept ==
    ASSUME IInv, ~PowerLoss, [Next]_vars,
           ~ \E t \in UpdateTargets, v \in Versions : Submit(t, v)
    PROVE  SameTask
<1>0. task \in Tasks /\ mem \in Tasks
  BY DEF IInv, TypeOK
<1>1. CASE UNCHANGED <<task, pre>>
  BY <1>1 DEF SameTask
<1>2. ASSUME mem.target = task.target, mem.to = task.to
      PROVE  \A p \in Phases : phase(p).target = task.target /\ phase(p).to = task.to
  BY <1>0, <1>2, SameFields DEF phase
<1>3. CASE Client
  <2>1. CASE SubmitLaunch
    <3>1. mem.target = task.target /\ mem.to = task.to
      BY <2>1, HolderAgrees DEF SubmitLaunch
    <3>2. phase("failed").target = task.target /\ phase("failed").to = task.to
      BY <1>2, <3>1 DEF Phases
    <3> QED
      BY <2>1, <3>2 DEF SubmitLaunch, SameTask, saveWorkerState
  <2>2. CASE FailUnstarted
    <3> DEFINE m == [task EXCEPT !.phase = "failed"]
    <3>1. m.target = task.target /\ m.to = task.to
      BY <1>0, SameFields DEF Phases
    <3>2. task' \in {task, m} /\ pre' = pre
      BY <2>2 DEF FailUnstarted, saveWorkerState, SaveFails
    <3> QED
      BY <3>1, <3>2 DEF SameTask
  <2> QED
    BY <1>1, <1>3, <2>1, <2>2
    DEF Client, HostControlBegin, HostControlRun, ResumeRecovery, diskVars
<1>4. CASE RunWorker
  <2> DEFINE m == [task EXCEPT !.config = TRUE]
  <2>1. m.target = task.target /\ m.to = task.to
    BY <1>0, SameFields
  <2>2. task' \in {task, m} /\ pre' = pre
    BY <1>4 DEF RunWorker, Save, saveWorkerState, SaveFails, diskVars
  <2> HIDE DEF m
  <2> QED
    BY <2>1, <2>2, SaveKeepsTask
<1>5. CASE Install
  <2>1. CASE UNCHANGED task
    BY <1>1, <1>5, <2>1
    DEF Install, Fetch, Download, Stage, Backup, StopIntent, StopPanel, LockData,
        CopyFile, CopyFails, SnapshotComplete, PublishIntent, InstallBinary,
        Restarting, StartCandidate, Started, CandidateHealth, Commit,
        InstallStepFails, InstallError, RecordStep
  <2>2. CASE pc \notin BeforePublish \cup AfterPublish
    BY <1>5, <2>1, <2>2
    DEF Install, Fetch, Download, Stage, Backup, StopIntent, StopPanel, LockData,
        CopyFile, CopyFails, SnapshotComplete, PublishIntent, InstallBinary,
        Restarting, StartCandidate, Started, CandidateHealth, Commit,
        InstallStepFails, InstallError, RecordStep, WorkerAt, BeforePublish,
        AfterPublish, diskVars
  <2>3. CASE pc \in BeforePublish \cup AfterPublish
    <3>1. mem.target = task.target /\ mem.to = task.to
      BY <2>3, HolderAgrees
    <3>2. \A p \in Phases : /\ phase(p) \in Tasks
                            /\ phase(p).target = task.target
                            /\ phase(p).to = task.to
      BY <1>2, <3>1, PhaseTypes DEF IInv
    <3>3. ASSUME NEW p, NEW m, NEW ok, NEW err, RecordStep(p, m, ok, err),
                 m.target = task.target, m.to = task.to
          PROVE  SameTask
      BY <3>3, SaveKeepsTask
      DEF RecordStep, Save, saveWorkerState, SaveFails
    <3>4. CASE Fetch \/ Download \/ Restarting \/ Started
      BY <3>2, <3>3, <3>4 DEF Fetch, Download, Restarting, Started, Phases
    <3>5. CASE Stage
      BY <1>0, <3>1, <3>3, <3>5, SameFields DEF Stage
    <3>6. CASE StopIntent
      BY <1>0, <3>1, <3>3, <3>6, SameFields DEF StopIntent
    <3>7. CASE SnapshotComplete
      <4> DEFINE m == [mem EXCEPT !.snapshot = TRUE]
      <4>1. m.target = task.target /\ m.to = task.to
        BY <1>0, <3>1, SameFields
      <4>2. task' \in {task, m} /\ pre' = pre
        BY <3>7 DEF SnapshotComplete, Save, saveWorkerState, SaveFails
      <4> HIDE DEF m
      <4> QED
        BY <4>1, <4>2, SaveKeepsTask
    <3>8. CASE PublishIntent
      <4>1. phase("installing") \in Tasks
        BY <3>2 DEF Phases
      <4> QED
        BY <3>2, <3>3, <3>8, <4>1, SameFields DEF PublishIntent, Phases
    <3>9. CASE Commit
      <4>1. phase("done") \in Tasks
        BY <3>2 DEF Phases
      <4> QED
        BY <3>2, <3>3, <3>9, <4>1, SameFields DEF Commit, Phases
    <3>10. CASE UNCHANGED task
      BY <2>1, <3>10
    <3> QED
      BY <1>5, <3>4, <3>5, <3>6, <3>7, <3>8, <3>9, <3>10
      DEF Install, Backup, StopPanel, LockData, CopyFile, CopyFails,
          InstallBinary, StartCandidate, CandidateHealth, InstallStepFails,
          InstallError, diskVars
  <2> QED
    BY <2>2, <2>3
<1>6. CASE Recovery
  <2>1. CASE UNCHANGED task
    BY <1>1, <1>6, <2>1
    DEF Recovery, Abort, RestoreStop, RestoreLock, RestoreBin, RestoreFile,
        RestoreFileFails, Restored, StartOld, RestoreError, Clean, Forget,
        Rollback, OldHealth, OldUnhealthy, Recovered, RecordStep, RecoveryReady,
        LaunchWorker, Return
  <2>2. ASSUME NEW p \in {"abort", "rollback", "forget"} \cup RestoreSteps
                         \cup OldSteps, pc = p
        PROVE  /\ mem.target = task.target /\ mem.to = task.to
               /\ \A q \in Phases : /\ phase(q) \in Tasks
                                    /\ phase(q).target = task.target
                                    /\ phase(q).to = task.to
    <3>1. mem.target = task.target /\ mem.to = task.to
      BY <2>2, HolderAgrees
    <3> QED
      BY <1>2, <3>1, PhaseTypes DEF IInv
  <2>3. CASE Abort
    BY <2>2, <2>3, SaveKeepsTask
    DEF Abort, Save, saveWorkerState, SaveFails, Phases
  <2>4. CASE RestoreError
    <3>1. /\ phase("failed").target = task.target
          /\ phase("failed").to = task.to
      BY <2>2, <2>4 DEF RestoreError, RestoreSteps, Phases
    <3>2. task' \in {task, phase("failed")} /\ pre' = pre
      BY <2>4
      DEF RestoreError, SaveAnyway, Save, saveWorkerState, SaveFails, diskVars
    <3> QED
      BY <3>1, <3>2, SaveKeepsTask
  <2>5. CASE Forget
    <3> DEFINE m == [mem EXCEPT !.config = FALSE, !.backup = FALSE,
                                !.snapshot = FALSE]
    <3>1. m.target = task.target /\ m.to = task.to
      BY <1>0, <2>2, <2>5, SameFields DEF Forget
    <3>2. task' \in {task, m} /\ pre' = pre
      BY <2>5 DEF Forget, Save, saveWorkerState, SaveFails
    <3> HIDE DEF m
    <3> QED
      BY <3>1, <3>2, SaveKeepsTask
  <2>6. CASE Rollback
    BY <2>2, <2>6, SaveKeepsTask
    DEF Rollback, WorkerAt, SaveAnyway, Save, saveWorkerState, SaveFails, Phases
  <2>7. CASE OldUnhealthy
    BY <2>2, <2>7, SaveKeepsTask
    DEF OldUnhealthy, WorkerAt, SaveAnyway, Save, saveWorkerState, SaveFails,
        Phases, OldSteps
  <2>8. CASE Recovered
    <3> DEFINE m == [phase("rolled_back") EXCEPT !.stop = FALSE,
                                 !.publish = FALSE, !.ready = FALSE]
    <3>1. /\ phase("rolled_back") \in Tasks
          /\ phase("rolled_back").target = task.target
          /\ phase("rolled_back").to = task.to
      BY <2>2, <2>8 DEF Recovered, RecordStep, WorkerAt, OldSteps, Phases
    <3>2. m.target = task.target /\ m.to = task.to
      BY <3>1, SameFields
    <3>3. task' \in {task, m} /\ pre' = pre
      BY <2>8 DEF Recovered, RecordStep, Save, saveWorkerState, SaveFails
    <3> HIDE DEF m
    <3> QED
      BY <3>2, <3>3, SaveKeepsTask
  <2>9. CASE RecoveryReady
    <3> DEFINE m == [mem EXCEPT !.ready = TRUE]
    <3>1. m.target = task.target /\ m.to = task.to
      BY <1>0, <2>2, <2>9, SameFields DEF RecoveryReady, OldSteps
    <3>2. task' \in {task, m} /\ pre' = pre
      BY <2>9 DEF RecoveryReady, SaveAnyway, Save, saveWorkerState, SaveFails
    <3> HIDE DEF m
    <3> QED
      BY <3>1, <3>2, SaveKeepsTask
  <2> QED
    BY <1>6, <2>1, <2>3, <2>4, <2>5, <2>6, <2>7, <2>8, <2>9
    DEF Recovery, RestoreStop, RestoreLock, RestoreBin, RestoreFile,
        RestoreFileFails, Restored, StartOld, Clean, OldHealth, LaunchWorker,
        Return, diskVars
<1>7. CASE Startup
  <2>1. CASE RecoverBusy
    BY <1>1, <2>1 DEF RecoverBusy, diskVars
  <2>2. CASE RecoverWorker
    <3> DEFINE failed == [task EXCEPT !.phase = "failed"]
               rolling == [task EXCEPT !.phase = "rolling_back"]
    <3>1. /\ failed.target = task.target /\ failed.to = task.to
          /\ rolling.target = task.target /\ rolling.to = task.to
      BY <1>0, SameFields DEF Phases
    <3>2. task' \in {task, failed, rolling} /\ pre' = pre
      BY <2>2 DEF RecoverWorker, SaveAnyway, Save, saveWorkerState, SaveFails,
        diskVars
    <3> HIDE DEF failed, rolling
    <3> QED
      BY <3>1, <3>2 DEF SameTask
  <2> QED
    BY <1>7, <2>1, <2>2 DEF Startup
<1>8. CASE Host
  BY <1>1, <1>8
  DEF Host, PanelExec, InitStarts, OperatorStarts, ServiceCrash, WorkerCrash,
      Reboot, diskVars
<1>9. CASE UNCHANGED vars
  BY <1>1, <1>9 DEF vars
<1> QED
  BY <1>3, <1>4, <1>5, <1>6, <1>7, <1>8, <1>9 DEF Next

-----------------------------------------------------------------------------
(* The refinement.                                                         *)

\* Submit accepts a transaction: the host recorded with it is the host.
LEMMA SubmitAccepts ==
    ASSUME IInv, NEW t \in UpdateTargets, NEW v \in Versions, Submit(t, v)
    PROVE  Txn!Accept(t, v)
<1>1. /\ Queued(t, v).phase = "checking" /\ Queued(t, v).target = t
      /\ Queued(t, v).to = v
  BY DEF Queued, NoTask
<1>2. task' = Queued(t, v) /\ pre' = [bin |-> bin, data |-> data] /\ ~Active(task)
  BY DEF Submit, saveWorkerState
<1>3. Active(task')
  BY <1>1, <1>2 DEF Active, Terminal
<1>4. jobOf = noJob /\ hostOf = [bin |-> bin, data |-> data]
  BY <1>2 DEF jobOf, hostOf
<1>5. jobOf' = <<t, v>> /\ hostOf' = pre'
  BY <1>1, <1>2, <1>3 DEF jobOf, hostOf
<1> QED
  BY <1>2, <1>4, <1>5 DEF Txn!Accept

\* While the task is active the abstract host is the one it was queued with.
LEMMA ActiveStutters ==
    ASSUME SameTask, Active(task), Active(task')
    PROVE  UNCHANGED <<hostOf, jobOf>>
  BY DEF SameTask, hostOf, jobOf

\* An ended task leaves the host alone: what it left behind is what was there.
LEMMA EndedStutters ==
    ASSUME SameTask, AtomicOutcome, AtomicOutcome', ~Active(task), ~Active(task'),
           task'.phase = task.phase
    PROVE  UNCHANGED <<hostOf, jobOf>>
<1>1. bin' = bin /\ data' = data
  <2>1. CASE task.phase = "done"
    <3>1. /\ bin = [pre.bin EXCEPT ![task.target] = task.to]
          /\ IF task.target = Panel
             THEN data = [f \in Files |-> pre.data[f] \cup {task.to}]
             ELSE data = pre.data
      BY <2>1 DEF AtomicOutcome
    <3>2. /\ bin' = [pre.bin EXCEPT ![task.target] = task.to]
          /\ IF task.target = Panel
             THEN data' = [f \in Files |-> pre.data[f] \cup {task.to}]
             ELSE data' = pre.data
      BY <2>1 DEF AtomicOutcome, SameTask
    <3> QED
      BY <3>1, <3>2
  <2>2. CASE task.phase # "done"
    BY <2>2 DEF AtomicOutcome, SameTask
  <2> QED
    BY <2>1, <2>2
<1> QED
  BY <1>1 DEF hostOf, jobOf

\* A task that ends commits or aborts its transaction.
LEMMA EndsAtomically ==
    ASSUME IInv, SameTask, AtomicOutcome', Active(task), ~Active(task'),
           TypeOK'
    PROVE  Txn!Abort \/ \E t \in Targets, v \in Versions : Txn!Commit(t, v)
<1>1. /\ jobOf = <<task.target, task.to>> /\ jobOf' = noJob
      /\ hostOf = pre /\ hostOf' = [bin |-> bin', data |-> data']
  BY DEF jobOf, hostOf
<1>2. /\ pre \in [bin : [Targets -> Versions], data : [Files -> SUBSET Versions]]
      /\ task.target \in Targets /\ pre' = pre
      /\ task'.target = task.target /\ task'.to = task.to
  BY DEF IInv, TypeOK, Tasks, SameTask
<1>3. jobOf # noJob
  BY <1>1 DEF noJob
<1>4. CASE task'.phase = "done"
  <2>1. task.to \in Versions
    BY <1>2 DEF IInv, Good, Active, Terminal
  <2>2. bin' = [pre.bin EXCEPT ![task.target] = task.to]
    BY <1>2, <1>4 DEF AtomicOutcome
  <2>3. data' = [f \in Files |-> IF task.target = Panel
                                 THEN pre.data[f] \cup {task.to}
                                 ELSE pre.data[f]]
    <3>1. CASE task.target = Panel
      BY <1>2, <1>4, <3>1 DEF AtomicOutcome
    <3>2. CASE task.target # Panel
      <4>1. data' = pre.data
        BY <1>2, <1>4, <3>2 DEF AtomicOutcome
      <4> QED
        BY <1>2, <3>2, <4>1
    <3> QED
      BY <3>1, <3>2
  <2>4. Txn!Commit(task.target, task.to)
    BY <1>1, <2>2, <2>3 DEF Txn!Commit
  <2> QED
    BY <1>2, <2>1, <2>4
<1>5. CASE task'.phase # "done"
  <2>1. bin' = pre.bin /\ data' = pre.data
    BY <1>2, <1>5 DEF AtomicOutcome
  <2>2. hostOf' = hostOf
    BY <1>1, <1>2, <2>1
  <2> QED
    BY <1>1, <1>3, <2>2 DEF Txn!Abort
<1> QED
  BY <1>4, <1>5

\* Every step of the worker is a step of the transaction or invisible.
LEMMA StepRefines ==
    ASSUME IInv, IInv', ~PowerLoss, [Next]_vars
    PROVE  [Txn!Next]_<<hostOf, jobOf>>
<1>1. AtomicOutcome /\ AtomicOutcome' /\ TypeOK'
  <2>1. AtomicOutcome
    BY InvImplies
  <2>2. (IInv => AtomicOutcome)'
    BY InvImplies, PTL
  <2> QED
    BY <2>1, <2>2 DEF IInv
<1>2. ASSUME NEW t \in UpdateTargets, NEW v \in Versions, Submit(t, v)
      PROVE  Txn!Next
  BY <1>2, SubmitAccepts, TargetsAssumption DEF Txn!Next
<1>3. CASE ~ \E t \in UpdateTargets, v \in Versions : Submit(t, v)
  <2>1. SameTask
    BY <1>3, TaskKept
  <2>2. CASE Active(task) /\ Active(task')
    BY <2>1, <2>2, ActiveStutters
  <2>3. CASE Active(task) /\ ~Active(task')
    BY <1>1, <2>1, <2>3, EndsAtomically DEF Txn!Next
  <2>4. CASE ~Active(task)
    BY <1>1, <1>3, <2>1, <2>4, EndedKept, EndedStutters
  <2> QED
    BY <2>2, <2>3, <2>4
<1> QED
  BY <1>2, <1>3

\* The first state has an unchanged host and no transaction.
LEMMA InitRefines == Init => Txn!Init
<1> SUFFICES ASSUME Init PROVE Txn!Init
  OBVIOUS
<1>1. ~Active(task)
  BY DEF Init, NoTask, Active, Intent, Terminal
<1>2. jobOf = noJob /\ hostOf = [bin |-> bin, data |-> data]
  BY <1>1 DEF jobOf, hostOf
<1>3. \E v \in Versions : /\ bin = [t \in Targets |-> v]
                          /\ data = [f \in Files |-> {v}]
  BY DEF Init
<1> QED
  BY <1>2, <1>3 DEF Txn!Init

\* internal/update, for all that a caller of it can see: an accepted update is
\* one transaction that happens at an instant or not at all, and only one is
\* under way, whatever fails in the worker, at startup or in the panel.
THEOREM WorkerIsATransaction == ASSUME ~PowerLoss PROVE Spec => Implements
<1>1. Init => IInv /\ Txn!Init
  BY InvInit, InitRefines
<1>2. IInv /\ [Next]_vars => IInv'
  BY InvNext
<1>3. IInv /\ IInv' /\ [Next]_vars => [Txn!Next]_<<hostOf, jobOf>>
  BY StepRefines
<1> QED
  BY <1>1, <1>2, <1>3, PTL DEF Spec, Implements, Txn!Spec
=============================================================================
