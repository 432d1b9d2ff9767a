----------------------- MODULE UpdateWorkerRefinement -----------------------
(***************************************************************************)
(* UpdateWorker implements UpdateTransaction. While a task is active the    *)
(* abstract host is the one recorded when the task was queued, although    *)
(* the real binary and data may be half replaced; when the task ends the   *)
(* real host is what counts.                                               *)
(***************************************************************************)
EXTENDS UpdateWorker

noJob == <<>>

jobOf == IF Active(task) THEN <<task.target, task.to>> ELSE noJob
hostOf == IF Active(task) THEN pre ELSE [bin |-> bin, data |-> data]

Txn == INSTANCE UpdateTransaction
         WITH host <- hostOf, job <- jobOf, NoJob <- noJob

\* Every step of the worker, of startup recovery, of the client and of the host
\* is a step of one atomic update transaction, or invisible.
Implements == Txn!Spec
=============================================================================
