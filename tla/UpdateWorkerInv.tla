--------------------------- MODULE UpdateWorkerInv ---------------------------
(***************************************************************************)
(* The inductive invariant behind RollbackPossible, AtomicOutcome and      *)
(* SnapshotIsQuiet: what the record, the locks and each step of the lock   *)
(* holder say about the host.                                              *)
(***************************************************************************)
EXTENDS UpdateWorker

\* The host is as it was when the task was queued.
OldHost == /\ \A t \in Targets : bin[t] = pre.bin[t]
           /\ \A f \in Files : data[f] = pre.data[f]

SnapOld == \A f \in Files : snap[f] = pre.data[f]

\* Without a publication intent the phase alone says what the host looks like.
Settled(r) ==
    IF r.phase = "done"
    THEN /\ \A t \in Targets : bin[t] = IF t = r.target THEN r.to ELSE pre.bin[t]
         /\ \A f \in Files : data[f] = IF r.target = Panel
                                       THEN pre.data[f] \cup {r.to}
                                       ELSE pre.data[f]
    ELSE OldHost

\* With one, the host is anywhere between the old and the new version.
Straddles(r) ==
    /\ \A t \in Targets : \/ bin[t] = pre.bin[t]
                          \/ t = r.target /\ bin[t] = r.to
    /\ \A f \in Files : \/ data[f] = pre.data[f]
                        \/ r.target = Panel /\ data[f] = pre.data[f] \cup {r.to}

\* What holds of a record that is, or may become, the content of state.json.
Good(r) ==
    /\ r.phase = "done" => ~Intent(r)
    /\ (Intent(r) \/ r.phase # "none") => r.to \in Versions /\ r.from \in Versions
    /\ r.snapshot => r.target = Panel /\ r.config
    /\ r.snapshot /\ Intent(r) => SnapOld
    /\ r.publish => /\ r.backup
                    /\ bak[r.target] = pre.bin[r.target]
                    /\ r.target = Panel => r.snapshot
                    /\ Straddles(r)
    /\ ~r.publish => Settled(r)
    /\ r.ready => Intent(r) /\ OldHost
    /\ Intent(r) => r.config

BaseOK == \A f \in Files : pre.bin[Panel] \in pre.data[f]

PanelOK == /\ Running(Panel) <=> dataLock = "panel"
           /\ Running(Panel) => \A f \in Files : svc[Panel] \in data[f]

ClientSteps == {"launch", "control"}
BeforePublish == {"fetch", "download", "stage", "backup", "stop_intent",
                  "stop_panel", "lock_data", "copy", "publish"}
AfterPublish == {"install", "installed", "start", "started", "health", "commit"}
RestoreSteps == {"restore", "restore_lock", "restore_bin", "restore_data",
                 "restore_error", "start_old"}
OldSteps == {"start_old", "old_health", "old_unhealthy", "recovered", "ready",
             "launch_worker"}
WorkerSteps == BeforePublish \cup AfterPublish \cup RestoreSteps \cup
               {"install_error", "abort", "rollback", "old_health",
                "old_unhealthy", "recovered", "clean", "forget", "succeed",
                "fail"}
RecoverSteps == RestoreSteps \cup {"abort", "ready", "launch_worker", "clean",
                                   "forget", "succeed", "fail"}
DataSteps == {"copy", "restore_bin", "restore_data", "restore_error"}

LockOK ==
    /\ lock = "free" => pc = "idle"
    /\ lock = "client" => pc \in ClientSteps
    /\ lock = "worker" => pc \in WorkerSteps
    /\ lock = "recover" => pc \in RecoverSteps
    /\ lock = "recover" <=> svc[Panel] = "recovering"
    /\ dataLock \in {"worker", "recover"} => dataLock = lock /\ pc \in DataSteps
    /\ pc = "copy" => dataLock = lock
    /\ pc \in {"restore_bin", "restore_data"} /\ mem.target = Panel
         => dataLock = lock

\* The in-memory record agrees with state.json up to the phase (and, once the
\* startup recovery tried to record it, up to recovery_ready).
Agree == /\ mem.target = task.target /\ mem.from = task.from
         /\ mem.to = task.to /\ mem.config = task.config
         /\ mem.backup = task.backup /\ mem.stop = task.stop
         /\ mem.publish = task.publish
         /\ mem.snapshot = task.snapshot

BeforeOK ==
    pc \in BeforePublish =>
      /\ mem = task /\ ~mem.publish /\ ~mem.ready /\ mem.config
      /\ mem.phase \notin Terminal
      /\ pc \in {"backup", "stop_intent", "stop_panel", "lock_data", "copy",
                 "publish"} => mem.backup
      /\ pc \in {"stop_intent", "stop_panel", "lock_data", "copy"}
           => mem.target = Panel
      /\ pc \in {"stop_intent", "stop_panel", "lock_data", "copy", "publish"}
           => bak[mem.target] = pre.bin[mem.target]
      /\ pc \in {"stop_panel", "lock_data", "copy"} => mem.stop
      /\ pc # "publish" => ~mem.snapshot
      /\ pc = "copy" => \A f \in Files \ todo : snap[f] = pre.data[f]
      /\ pc = "publish" /\ mem.target = Panel => mem.snapshot /\ mem.stop

AfterOK ==
    pc \in AfterPublish =>
      /\ mem = task /\ mem.publish /\ ~mem.ready
      /\ mem.phase \notin Terminal
      /\ pc # "install" => bin[mem.target] = mem.to
      /\ pc = "commit" /\ mem.target = Panel
           => \A f \in Files : data[f] = pre.data[f] \cup {mem.to}

RestoreOK ==
    pc \in RestoreSteps \cup OldSteps \cup {"rollback"} =>
      /\ Agree /\ Intent(mem) /\ mem.phase # "done"
      /\ pc \in RestoreSteps \cup {"rollback"} => ~mem.ready /\ ~task.ready
      /\ pc = "restore_data" =>
           /\ \A t \in Targets : bin[t] = pre.bin[t]
           /\ \A f \in Files \ todo : data[f] = pre.data[f]
           /\ todo # {} => mem.snapshot
      /\ pc \in OldSteps => OldHost

EndOK ==
    /\ pc = "install_error" => ~task.ready
    /\ pc = "launch" => mem = task /\ mem.phase = "checking" /\ ~Intent(mem)
                        /\ ~mem.ready
    /\ pc = "abort" => mem = task /\ ~Intent(mem) /\ mem.phase \notin Terminal
    /\ pc \in {"clean", "forget"} => mem = task /\ ~Active(mem)

StepOK == BeforeOK /\ AfterOK /\ RestoreOK /\ EndOK

IInv == TypeOK /\ Good(task) /\ BaseOK /\ PanelOK /\ LockOK /\ StepOK
=============================================================================
