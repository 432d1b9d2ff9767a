---------------------------- MODULE QuotaManager ----------------------------
(***************************************************************************)
(* quotareset.Manager: one prepared selection, one batch and the exclusion *)
(* between confirmations, batches, scheduled batches and single resets.    *)
(* Every action that touches the manager is one critical section of m.mu;  *)
(* the calls to Telemt happen between them, with the mutex released.       *)
(***************************************************************************)
EXTENDS Naturals, FiniteSets

CONSTANTS
    Users,      \* user names
    Callers,    \* HTTP handlers that may call the manager at the same time
    Tokens,     \* random confirmation tokens; bound: confirmations prepared
    None,       \* no token
    MaxOps,     \* bound: operator requests and edits of Telemt's configuration
    MaxFaults   \* bound: failed or unanswered calls, stops and crashes

Scheduler == "scheduler"
Batch == "batch"

ASSUME UsersAssumption == IsFiniteSet(Users)
ASSUME CallersAssumption == Callers \cap {Scheduler, Batch} = {}
ASSUME TokensAssumption == Tokens \cap {None, Scheduler} = {}
ASSUME BoundsAssumption == MaxOps \in Nat /\ MaxFaults \in Nat

VARIABLES
    closed, checking, single,   \* flags of Manager
    prep,     \* the prepared selection
    job,      \* the current or last batch
    left,     \* names the loop of run has not sent
    call,     \* per caller: where it is between its critical sections
    snap,     \* the user list read by the caller that is checking
    flight,   \* reset requests sent to Telemt and not answered
    users,    \* Telemt: the configured users ...
    rev,      \* ... and the revision of the configuration
    issued,   \* history: the selection shown for every token issued
    begun,    \* history: how many batches each token began
    applied,  \* history: resets Telemt applied for the current batch
    ops, faults

managerVars == <<closed, checking, single, prep, job, left, call, snap, flight>>
telemtVars == <<users, rev>>
historyVars == <<issued, begun, applied>>
vars == <<managerVars, telemtVars, historyVars, ops, faults>>

\* Revision 0 is "not read": Telemt's revisions start at 1.
NoSnap == [names |-> {}, rev |-> 0]
NoPrep == [token |-> None, names |-> {}, rev |-> 0, expired |-> FALSE]
NoJob == [id |-> None, trigger |-> "manual", state |-> "none", names |-> {},
          rev |-> 0, stop |-> FALSE, processed |-> 0, confirmed |-> 0,
          rejected |-> 0, unknown |-> 0]

NewJob(token, trigger, names, r) ==
    [NoJob EXCEPT !.id = token, !.trigger = trigger, !.state = "running",
                  !.names = names, !.rev = r]

Op == ops < MaxOps /\ ops' = ops + 1
NoOp == UNCHANGED ops
Fault == faults < MaxFaults /\ faults' = faults + 1
NoFault == UNCHANGED faults

running == job.state = "running"
busy == checking \/ single \/ running

Fresh == {t \in Tokens : issued[t].rev = 0}
InFlight(who) == {f \in flight : f.by = who}

Init ==
    /\ closed = FALSE /\ checking = FALSE /\ single = FALSE
    /\ prep = NoPrep /\ job = NoJob /\ left = {}
    /\ call = [c \in Callers \cup {Scheduler} |-> "idle"]
    /\ snap = NoSnap /\ flight = {}
    /\ users = Users /\ rev = 1
    /\ issued = [t \in Tokens |-> NoSnap] /\ begun = [t \in Tokens |-> 0]
    /\ applied = 0 /\ ops = 0 /\ faults = 0

-----------------------------------------------------------------------------
(* The snapshot of Telemt's users, common to the three checking calls.     *)

Checks == {"preparing", "starting", "scheduling"}

BeginCheck(c, stage) ==
    /\ ~closed /\ ~busy
    /\ checking' = TRUE /\ snap' = NoSnap
    /\ call' = [call EXCEPT ![c] = stage]

EndCheck(c, stage) ==
    /\ checking' = FALSE /\ snap' = NoSnap
    /\ call' = [call EXCEPT ![c] = stage]

\* The response of UsersWithRevision: a list and its revision, at one instant.
ReadSnapshot(c) ==
    /\ call[c] \in Checks /\ snap.rev = 0
    /\ snap' = [names |-> users, rev |-> rev]
    /\ UNCHANGED <<closed, checking, single, prep, job, left, call, flight,
                   telemtVars, historyVars, ops, faults>>

\* Health, QuotaList or UsersWithRevision fails, or the request is cancelled.
SnapshotFails(c) ==
    /\ call[c] \in Checks /\ snap.rev = 0 /\ Fault
    /\ EndCheck(c, "idle")
    /\ UNCHANGED <<closed, single, prep, job, left, flight, telemtVars,
                   historyVars, ops>>

-----------------------------------------------------------------------------
(* Prepare and Start.                                                      *)

Prepare(c) ==
    /\ call[c] = "idle" /\ Op /\ Fresh # {}
    /\ BeginCheck(c, "preparing")
    /\ UNCHANGED <<closed, single, prep, job, left, flight, telemtVars,
                   historyVars, faults>>

Prepared(c) ==
    /\ call[c] = "preparing" /\ snap.rev # 0
    /\ EndCheck(c, "idle")
    /\ \/ /\ snap.names = {} \/ closed
          /\ UNCHANGED <<prep, issued>>
       \/ /\ snap.names # {} /\ ~closed
          /\ \E t \in Fresh :
               /\ prep' = [token |-> t, names |-> snap.names, rev |-> snap.rev,
                           expired |-> FALSE]
               /\ issued' = [issued EXCEPT ![t] = snap]
    /\ UNCHANGED <<closed, single, job, left, flight, telemtVars, begun, applied,
                   ops, faults>>

\* The two minutes of a confirmation pass.
Expire ==
    /\ prep.token # None /\ ~prep.expired
    /\ prep' = [prep EXCEPT !.expired = TRUE]
    /\ UNCHANGED <<closed, checking, single, job, left, call, snap, flight,
                   telemtVars, historyVars, ops, faults>>

\* Start with a token: the token of the current job is answered with its status
\* and every other token but that of a valid confirmation is refused.
Start(c, t) ==
    /\ call[c] = "idle" /\ Op
    /\ t # job.id
    /\ BeginCheck(c, "starting")
    /\ t = prep.token /\ ~prep.expired
    /\ UNCHANGED <<closed, single, prep, job, left, flight, telemtVars,
                   historyVars, faults>>

\* Mutant: the confirmation stays valid and the job has an id of its own.
StartedKeepsToken(c) ==
    /\ call[c] = "starting" /\ snap.rev # 0
    /\ EndCheck(c, "idle")
    /\ snap.names # {} /\ ~closed /\ ~prep.expired /\ snap.rev = prep.rev
    /\ job' = NewJob(None, "manual", snap.names, snap.rev)
    /\ left' = snap.names /\ applied' = 0
    /\ begun' = [begun EXCEPT ![prep.token] = @ + 1]
    /\ UNCHANGED <<closed, single, prep, flight, telemtVars, issued, ops, faults>>

\* Mutant: the fresh list is used without a comparison with the confirmed one.
StartedUnchecked(c) ==
    /\ call[c] = "starting" /\ snap.rev # 0
    /\ EndCheck(c, "idle")
    /\ snap.names # {} /\ ~closed /\ ~prep.expired
    /\ prep' = NoPrep
    /\ job' = NewJob(prep.token, "manual", snap.names, snap.rev)
    /\ left' = snap.names /\ applied' = 0
    /\ begun' = [begun EXCEPT ![prep.token] = @ + 1]
    /\ UNCHANGED <<closed, single, flight, telemtVars, issued, ops, faults>>

\* Mutant: a Close that came during the snapshot goes unnoticed.
StartedThoughClosed(c) ==
    /\ call[c] = "starting" /\ snap.rev # 0
    /\ EndCheck(c, "idle")
    /\ snap.names # {} /\ ~prep.expired
    /\ snap.rev = prep.rev /\ snap.names = prep.names
    /\ prep' = NoPrep
    /\ job' = NewJob(prep.token, "manual", snap.names, snap.rev)
    /\ left' = snap.names /\ applied' = 0
    /\ begun' = [begun EXCEPT ![prep.token] = @ + 1]
    /\ UNCHANGED <<closed, single, flight, telemtVars, issued, ops, faults>>

\* Start, after its snapshot: closed, expiry and the selection are checked again.
Started(c) ==
    /\ call[c] = "starting" /\ snap.rev # 0
    /\ EndCheck(c, "idle")
    /\ \/ /\ snap.names = {} \/ closed \/ prep.expired
          /\ UNCHANGED <<prep, job, left, begun, applied>>
       \/ /\ snap.names # {} /\ ~closed /\ ~prep.expired
          /\ prep' = NoPrep
          /\ IF snap.rev = prep.rev /\ snap.names = prep.names
             THEN /\ job' = NewJob(prep.token, "manual", snap.names, snap.rev)
                  /\ left' = snap.names /\ applied' = 0
                  /\ begun' = [begun EXCEPT ![prep.token] = @ + 1]
             ELSE UNCHANGED <<job, left, begun, applied>>
    /\ UNCHANGED <<closed, single, flight, telemtVars, issued, ops, faults>>

-----------------------------------------------------------------------------
(* ExecuteScheduled, called by the scheduler's tick.                       *)

\* A tick that found something due.
TickDue ==
    /\ call[Scheduler] = "idle"
    /\ call' = [call EXCEPT ![Scheduler] = "due"]
    /\ UNCHANGED <<closed, checking, single, prep, job, left, snap, flight,
                   telemtVars, historyVars>>

ExecuteScheduled ==
    /\ call[Scheduler] = "due"
    /\ \/ BeginCheck(Scheduler, "scheduling")
       \/ /\ closed \/ busy
          /\ call' = [call EXCEPT ![Scheduler] = "idle"]
          /\ UNCHANGED <<checking, snap>>
    /\ UNCHANGED <<closed, single, prep, job, left, flight, telemtVars,
                   historyVars, ops, faults>>

\* The caller stopped meanwhile, or reserve returned an error.
NotReserved ==
    /\ call[Scheduler] = "scheduling" /\ snap.rev # 0
    /\ EndCheck(Scheduler, "idle")
    /\ UNCHANGED <<closed, single, prep, job, left, flight, telemtVars,
                   historyVars, ops>>

\* reserve returned the selected names; nothing is started for an empty list.
\* The random id of a scheduled job equals no confirmation token.
Reserved(selected) ==
    /\ call[Scheduler] = "scheduling" /\ snap.rev # 0 /\ ~closed
    /\ selected \subseteq snap.names
    /\ IF selected = {}
       THEN EndCheck(Scheduler, "idle") /\ UNCHANGED <<prep, job, left, applied>>
       ELSE /\ EndCheck(Scheduler, "running")
            /\ prep' = NoPrep
            /\ job' = NewJob(Scheduler, "schedule", selected, snap.rev)
            /\ left' = selected /\ applied' = 0
    /\ UNCHANGED <<closed, single, flight, telemtVars, issued, begun, ops, faults>>

\* Tick has recorded the run.
TickDone ==
    /\ call[Scheduler] = "finished"
    /\ call' = [call EXCEPT ![Scheduler] = "idle"]
    /\ UNCHANGED <<closed, checking, single, prep, job, left, snap, flight,
                   telemtVars, historyVars>>

-----------------------------------------------------------------------------
(* run: one request at a time.                                             *)

BatchSend(u) ==
    /\ running /\ u \in left /\ ~job.stop /\ ~closed
    /\ InFlight(Batch) = {}
    /\ flight' = flight \cup {[by |-> Batch, user |-> u]}
    /\ left' = left \ {u}
    /\ UNCHANGED <<closed, checking, single, prep, job, call, snap, telemtVars,
                   historyVars, ops, faults>>

\* The manager was closed between two requests: reason "server_stopped".
BatchCancelled ==
    /\ running /\ left # {} /\ ~job.stop /\ closed
    /\ InFlight(Batch) = {}
    /\ job' = [job EXCEPT !.stop = TRUE]
    /\ UNCHANGED <<closed, checking, single, prep, left, call, snap, flight,
                   telemtVars, historyVars, ops, faults>>

\* Telemt resets a quota only for an existing user at the revision of If-Match.
MayApply(u) == u \in users /\ rev = job.rev

Confirmed == [job EXCEPT !.processed = @ + 1, !.confirmed = @ + 1]
Rejected(stop) == [job EXCEPT !.processed = @ + 1, !.rejected = @ + 1,
                              !.stop = stop]
Unknown == [job EXCEPT !.processed = @ + 1, !.unknown = @ + 1, !.stop = TRUE]

\* Mutant: an unanswered request counts as rejected.
classifyRejects(u) ==
    \/ MayApply(u) /\ job' = Confirmed /\ applied' = applied + 1 /\ NoFault
    \/ /\ Fault /\ job' = Rejected(TRUE)
       /\ applied' \in IF MayApply(u) THEN {applied, applied + 1} ELSE {applied}

\* classify: only refusals known to precede the mutation count as rejected, and
\* only not_found lets the batch go on. An unanswered or cancelled request, or
\* an error after the counter was reset, is unknown.
classify(u) ==
    \/ MayApply(u) /\ job' = Confirmed /\ applied' = applied + 1 /\ NoFault
    \/ u \notin users /\ job' = Rejected(FALSE) /\ UNCHANGED applied /\ NoFault
    \/ rev # job.rev /\ job' = Rejected(TRUE) /\ UNCHANGED applied /\ NoFault
    \/ Fault /\ job' = Rejected(TRUE) /\ UNCHANGED applied
    \/ /\ IF closed THEN NoFault ELSE Fault
       /\ job' = Unknown
       /\ applied' \in IF MayApply(u) THEN {applied, applied + 1} ELSE {applied}

BatchAnswer ==
    /\ running
    /\ \E f \in InFlight(Batch) :
         /\ flight' = flight \ {f}
         /\ classify(f.user)
    /\ UNCHANGED <<closed, checking, single, prep, left, call, snap, telemtVars,
                   issued, begun, ops>>

\* Mutant: a stopped batch still waits for the names that remain.
RunFinishAll ==
    /\ running /\ InFlight(Batch) = {} /\ left = {}
    /\ job' = [job EXCEPT !.state = IF job.stop THEN "stopped" ELSE "completed"]
    /\ call' = [call EXCEPT ![Scheduler] = IF job.trigger = "schedule"
                                           THEN "finished" ELSE @]
    /\ UNCHANGED <<closed, checking, single, prep, left, snap, flight, telemtVars,
                   historyVars, ops, faults>>

RunFinish ==
    /\ running /\ InFlight(Batch) = {} /\ (left = {} \/ job.stop)
    /\ job' = [job EXCEPT !.state = IF job.stop THEN "stopped" ELSE "completed"]
    /\ call' = [call EXCEPT ![Scheduler] = IF job.trigger = "schedule"
                                           THEN "finished" ELSE @]
    /\ UNCHANGED <<closed, checking, single, prep, left, snap, flight, telemtVars,
                   historyVars, ops, faults>>

-----------------------------------------------------------------------------
(* ResetSingle, Close, restart, and Telemt.                                *)

\* Mutant: an individual reset does not wait for a batch.
ResetSingleAnyTime(c, u) ==
    /\ call[c] = "idle" /\ Op
    /\ ~closed
    /\ single' = TRUE
    /\ call' = [call EXCEPT ![c] = "single"]
    /\ flight' = flight \cup {[by |-> c, user |-> u]}
    /\ UNCHANGED <<closed, checking, prep, job, left, snap, telemtVars,
                   historyVars, faults>>

ResetSingle(c, u) ==
    /\ call[c] = "idle" /\ Op
    /\ ~closed /\ ~busy
    /\ single' = TRUE
    /\ call' = [call EXCEPT ![c] = "single"]
    /\ flight' = flight \cup {[by |-> c, user |-> u]}
    /\ UNCHANGED <<closed, checking, prep, job, left, snap, telemtVars,
                   historyVars, faults>>

SingleAnswer(c) ==
    /\ call[c] = "single"
    /\ single' = FALSE
    /\ call' = [call EXCEPT ![c] = "idle"]
    /\ flight' = flight \ InFlight(c)
    /\ UNCHANGED <<closed, checking, prep, job, left, snap, telemtVars,
                   historyVars, ops, faults>>

\* Close marks the manager closed and cancels the batch; it returns once the
\* batch has finished.
Close ==
    /\ ~closed /\ Fault
    /\ closed' = TRUE
    /\ UNCHANGED <<checking, single, prep, job, left, call, snap, flight,
                   telemtVars, historyVars, ops>>

\* A new process after Close returned, or after a crash: nothing is resumed.
Restart ==
    /\ IF closed /\ ~running THEN NoFault ELSE Fault
    /\ closed' = FALSE /\ checking' = FALSE /\ single' = FALSE
    /\ prep' = NoPrep /\ job' = NoJob /\ left' = {}
    /\ call' = [c \in Callers \cup {Scheduler} |-> "idle"]
    /\ snap' = NoSnap /\ flight' = {} /\ applied' = 0
    /\ UNCHANGED <<telemtVars, issued, begun, ops>>

\* Someone edits Telemt's users; every edit has a new revision.
EditConfig(s) ==
    /\ s # users /\ Op
    /\ users' = s /\ rev' = rev + 1
    /\ UNCHANGED <<managerVars, historyVars, faults>>

-----------------------------------------------------------------------------
Requests == \/ \E c \in Callers : Prepare(c) \/ Prepared(c) \/ SingleAnswer(c)
            \/ \E c \in Callers, t \in Tokens : Start(c, t)
            \/ \E c \in Callers : Started(c)
            \/ \E c \in Callers, u \in Users : ResetSingle(c, u)

Snapshots == \E c \in Callers \cup {Scheduler} :
                ReadSnapshot(c) \/ SnapshotFails(c)

Scheduled == \/ (TickDue \/ TickDone) /\ UNCHANGED <<ops, faults>>
             \/ ExecuteScheduled
             \/ NotReserved /\ (IF closed THEN NoFault ELSE Fault)
             \/ \E s \in SUBSET Users : Reserved(s)

BatchLoop == (\E u \in Users : BatchSend(u)) \/ BatchCancelled \/ BatchAnswer

Environment == Expire \/ \E s \in SUBSET Users : EditConfig(s)

Next == \/ Requests \/ Snapshots \/ Scheduled \/ BatchLoop \/ RunFinish
        \/ Environment \/ Close \/ Restart

Spec == Init /\ [][Next]_vars

-----------------------------------------------------------------------------
(* Properties.                                                             *)

Counts == 0..Cardinality(Users)
Selections == [names : SUBSET Users, rev : 0..(MaxOps + 1)]

\* Every variable keeps its type: flags, the prepared selection, the job and its
\* counters, callers and requests.
TypeOK ==
    /\ closed \in BOOLEAN /\ checking \in BOOLEAN /\ single \in BOOLEAN
    /\ prep \in [token : Tokens \cup {None}, names : SUBSET Users,
                 rev : 0..(MaxOps + 1), expired : BOOLEAN]
    /\ job \in [id : Tokens \cup {None, Scheduler}, trigger : {"manual", "schedule"},
                state : {"none", "running", "completed", "stopped"},
                names : SUBSET Users, rev : 0..(MaxOps + 1), stop : BOOLEAN,
                processed : Counts, confirmed : Counts, rejected : Counts,
                unknown : Counts]
    /\ left \subseteq Users
    /\ call \in [Callers \cup {Scheduler} ->
                   {"idle", "single", "due", "running", "finished"} \cup Checks]
    /\ snap \in Selections
    /\ flight \subseteq [by : Callers \cup {Batch}, user : Users]
    /\ users \subseteq Users /\ rev \in 1..(MaxOps + 1)
    /\ issued \in [Tokens -> Selections] /\ begun \in [Tokens -> Nat]
    /\ applied \in Counts
    /\ ops \in 0..MaxOps /\ faults \in 0..MaxFaults

\* The panel waits for at most one reset request at a time, whoever sent it:
\* single resets, manual batches and scheduled batches never overlap.
ExclusiveReset == \A f, g \in flight : f = g

\* A confirmation token begins at most one batch, even if it is sent again
\* after other batches and across restarts of the panel.
TokenBeginsOnce == \A t \in Tokens : begun[t] <= 1

\* A manual batch works on exactly the users and the revision its operator was
\* shown, however the configuration changed between Prepare and Start.
ConfirmedSelection ==
    job.state # "none" /\ job.trigger = "manual" =>
      issued[job.id] = [names |-> job.names, rev |-> job.rev]

\* The counters tell the truth about Telemt: what is confirmed was reset, what
\* is rejected was not, at most one request is unknown, everything not sent
\* remains, and a completed batch has no unknown and no remaining request.
HonestCounts ==
    job.state # "none" =>
      /\ job.processed = job.confirmed + job.rejected + job.unknown
      /\ applied \in job.confirmed..(job.confirmed + job.unknown)
      /\ job.unknown <= 1
      /\ job.processed + Cardinality(left) + Cardinality(InFlight(Batch))
           = Cardinality(job.names)
      /\ job.state = "completed" => left = {} /\ job.unknown = 0

\* Once Close was called no batch begins, even for a Start or a tick that was
\* reading its snapshot when Close came.
StartsNothingWhenClosed ==
    [][ closed /\ closed' => (running' => running) ]_vars

\* Close does not wait for ever: a closed manager's batch ends.
CloseReturns == closed ~> ~running
=============================================================================
