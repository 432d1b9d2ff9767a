---------------------------- MODULE QuotaProofs ----------------------------
(***************************************************************************)
(* Theorems about QuotaManager, for every set of users, callers and tokens *)
(* and every number of requests, edits and failures, and about the         *)
(* scheduler above it, QuotaScheduler, for every set of users and rules,   *)
(* every timezone and every number of edits, failed writes, ticks and      *)
(* restarts.                                                               *)
(***************************************************************************)
EXTENDS QuotaScheduler, FiniteSetTheorems, TLAPS

(***************************************************************************)
(* PART I. The manager (QuotaManager).                                     *)
(***************************************************************************)

(***************************************************************************)
(* The inductive invariant.  It says nothing of the budgets ops and faults *)
(* but for the last part, so that the scheduler, whose edits spend them    *)
(* too, can use the rest as it stands.                                     *)
(***************************************************************************)
\* A user list as it was read, a confirmation and a job.
Lists == [names : SUBSET Users, rev : Nat]
Prepareds == [token : Tokens \cup {None}, names : SUBSET Users, rev : Nat,
              expired : BOOLEAN]
Jobs == [id : Tokens \cup {None, Scheduler}, trigger : {"manual", "schedule"},
         state : {"none", "running", "completed", "stopped"},
         names : SUBSET Users, rev : Nat, stop : BOOLEAN, processed : Nat,
         confirmed : Nat, rejected : Nat, unknown : Nat]

\* Who may be where between its critical sections.
Places ==
    /\ call \in [Callers \cup {Scheduler} ->
                   {"idle", "single", "due", "running", "finished"} \cup Checks]
    /\ \A c \in Callers : call[c] \in {"idle", "single", "preparing", "starting"}
    /\ call[Scheduler] \in {"idle", "due", "scheduling", "running", "finished"}

\* The types of the variables, without the bounds the counters turn out to have.
Types ==
    /\ closed \in BOOLEAN /\ checking \in BOOLEAN /\ single \in BOOLEAN
    /\ prep \in Prepareds /\ job \in Jobs /\ left \subseteq Users
    /\ Places /\ snap \in Lists
    /\ flight \subseteq [by : Callers \cup {Batch}, user : Users]
    /\ users \subseteq Users /\ rev \in Nat /\ rev > 0
    /\ issued \in [Tokens -> Lists] /\ begun \in [Tokens -> Nat]
    /\ applied \in Nat

\* The flags stand for one caller each, and exclude each other and a batch.
Exclusion ==
    /\ \A c, d \in Callers \cup {Scheduler} :
         /\ call[c] \in Checks => checking
         /\ call[c] \in Checks /\ call[d] \in Checks => c = d
         /\ call[c] = "single" => single
         /\ call[c] = "single" /\ call[d] = "single" => c = d
    /\ ~(checking /\ single) /\ ~(checking /\ running) /\ ~(single /\ running)
    /\ call[Scheduler] = "running" <=> running /\ job.trigger = "schedule"

\* A request in flight belongs to the batch or to the single reset under way.
Flights ==
    /\ \A f \in flight : IF f.by = Batch THEN running ELSE call[f.by] = "single"
    /\ \A f, g \in flight : f.by = g.by => f = g
    /\ \A f \in flight : f.by = Batch => ~job.stop

\* What is known of a token from its issue to the end of its batch.
Confirmations ==
    /\ prep.token # None =>
         /\ issued[prep.token] = [names |-> prep.names, rev |-> prep.rev]
         /\ prep.rev # 0 /\ begun[prep.token] = 0
    /\ \A c \in Callers : call[c] = "starting" => prep.token # None
    /\ \A t \in Tokens : begun[t] <= 1 /\ (begun[t] # 0 => issued[t].rev # 0)
    /\ job.state = "none" => job = NoJob /\ applied = 0
    /\ job.state # "none" /\ job.trigger = "manual" =>
         /\ job.id \in Tokens /\ job.rev # 0
         /\ issued[job.id] = [names |-> job.names, rev |-> job.rev]

\* The counters of the batch and what Telemt applied.
Counting ==
    job.state # "none" =>
      /\ job.processed = job.confirmed + job.rejected + job.unknown
      /\ applied \in job.confirmed..(job.confirmed + job.unknown)
      /\ job.unknown <= 1 /\ (job.unknown # 0 => job.stop)
      /\ job.processed + Cardinality(left) + Cardinality(InFlight(Batch))
           = Cardinality(job.names)
      /\ job.state = "completed" => left = {} /\ ~job.stop

\* No revision that was read is newer than Telemt's.
Revisions ==
    /\ snap.rev <= rev /\ prep.rev <= rev /\ job.rev <= rev
    /\ \A t \in Tokens : issued[t].rev <= rev

\* The part of the invariant that does not mention the budgets.
Core == Types /\ Exclusion /\ Flights /\ Confirmations /\ Counting /\ Revisions

\* What is left of the budgets, and every revision was paid for.
Budget == ops \in 0..MaxOps /\ faults \in 0..MaxFaults /\ rev <= ops + 1

-----------------------------------------------------------------------------
(* The job, the selection and the revision a batch starts with.            *)

\* The values that stand for nothing have their types and revision 0.
LEMMA EmptyTypes ==
    /\ NoSnap \in Lists /\ NoSnap.rev = 0
    /\ NoPrep \in Prepareds /\ NoPrep.rev = 0 /\ NoPrep.token = None
    /\ NoJob \in Jobs /\ NoJob.rev = 0 /\ NoJob.state = "none"
  BY DEF NoSnap, Lists, NoPrep, Prepareds, NoJob, Jobs

\* A new job has its type, counts nothing and is running.
LEMMA NewJobFacts ==
    ASSUME NEW token \in Tokens \cup {Scheduler},
           NEW trigger \in {"manual", "schedule"},
           NEW names \in SUBSET Users, NEW r \in Nat
    PROVE  /\ NewJob(token, trigger, names, r) \in Jobs
           /\ NewJob(token, trigger, names, r).id = token
           /\ NewJob(token, trigger, names, r).trigger = trigger
           /\ NewJob(token, trigger, names, r).state = "running"
           /\ NewJob(token, trigger, names, r).names = names
           /\ NewJob(token, trigger, names, r).rev = r
           /\ ~NewJob(token, trigger, names, r).stop
           /\ NewJob(token, trigger, names, r).processed = 0
           /\ NewJob(token, trigger, names, r).confirmed = 0
           /\ NewJob(token, trigger, names, r).rejected = 0
           /\ NewJob(token, trigger, names, r).unknown = 0
  BY DEF NewJob, NoJob, Jobs

\* A batch begins: a running job that has counted nothing yet.
Begins ==
    /\ job' \in Jobs /\ job'.state = "running" /\ ~job'.stop
    /\ job'.processed = 0 /\ job'.confirmed = 0 /\ job'.rejected = 0
    /\ job'.unknown = 0
    /\ left' = job'.names /\ applied' = 0

\* While a confirmation is checked no batch runs and its token is known.
LEMMA StartingFacts ==
    ASSUME Core, NEW c \in Callers, Started(c)
    PROVE  /\ prep.token \in Tokens /\ checking /\ ~running /\ ~single
           /\ snap.names \in SUBSET Users /\ snap.rev \in Nat
           /\ call[Scheduler] # "running"
           /\ \A d \in Callers : call[d] = "starting" => d = c
           /\ \A d \in Callers \cup {Scheduler} : call[d] \in Checks => d = c
  BY DEF Core, Types, Prepareds, Lists, Confirmations, Started, Exclusion, Checks,
         running

\* Started begins a batch under the token of a confirmation that was shown the
\* same list, or leaves the job and the histories alone.
LEMMA StartedFacts ==
    ASSUME Core, NEW c \in Callers, Started(c)
    PROVE  \/ /\ Begins /\ job'.id = prep.token /\ job'.trigger = "manual"
              /\ job'.names = snap.names /\ job'.rev = snap.rev
              /\ prep' = NoPrep
              /\ begun' \in [Tokens -> Nat]
              /\ \A t \in Tokens : begun'[t] = IF t = prep.token
                                               THEN begun[t] + 1 ELSE begun[t]
              /\ snap.names = prep.names /\ snap.rev = prep.rev
              /\ snap.rev # 0
           \/ /\ UNCHANGED <<job, left, begun, applied>>
              /\ prep' \in {prep, NoPrep}
<1>1. /\ prep.token \in Tokens \cup {Scheduler}
      /\ snap.names \in SUBSET Users /\ snap.rev \in Nat
  BY StartingFacts
<1>2. CASE /\ snap.names # {} /\ ~closed /\ ~prep.expired
           /\ snap.rev = prep.rev /\ snap.names = prep.names
  <2>1. /\ job' = NewJob(prep.token, "manual", snap.names, snap.rev)
        /\ left' = snap.names /\ applied' = 0 /\ prep' = NoPrep
        /\ snap.rev # 0
    BY <1>2 DEF Started
  <2>3. /\ begun' \in [Tokens -> Nat]
        /\ \A t \in Tokens : begun'[t] = IF t = prep.token
                                         THEN begun[t] + 1 ELSE begun[t]
    BY <1>2, StartingFacts DEF Started, Core, Types
  <2>2. /\ Begins /\ job'.id = prep.token /\ job'.trigger = "manual"
        /\ job'.names = snap.names /\ job'.rev = snap.rev
    BY <1>1, <2>1, NewJobFacts DEF Begins
  <2> QED
    BY <1>2, <2>1, <2>2, <2>3
<1> QED
  BY <1>2 DEF Started

\* Reserved begins a batch under the scheduler's own id unless nobody is
\* selected.
LEMMA ReservedFacts ==
    ASSUME Core, NEW s \in SUBSET Users, Reserved(s)
    PROVE  /\ checking /\ ~running /\ ~single
           /\ \A d \in Callers : call[d] \notin Checks
           /\ checking' = FALSE /\ snap' = NoSnap /\ call[Scheduler] # "running"
           /\ \/ /\ Begins /\ job'.trigger = "schedule"
                 /\ job'.names = s /\ job'.rev = snap.rev
                 /\ prep' = NoPrep
                 /\ call' = [call EXCEPT ![Scheduler] = "running"]
              \/ /\ UNCHANGED <<job, left, prep, applied>>
                 /\ call' = [call EXCEPT ![Scheduler] = "idle"]
<1>1. /\ checking /\ ~running /\ ~single /\ snap.rev \in Nat
      /\ \A d \in Callers : call[d] \notin Checks
      /\ checking' = FALSE /\ snap' = NoSnap /\ call[Scheduler] # "running"
  BY CallersAssumption
  DEF Core, Types, Lists, Reserved, EndCheck, Exclusion, Checks, running
<1>2. CASE s # {}
  <2>1. /\ job' = NewJob(Scheduler, "schedule", s, snap.rev)
        /\ left' = s /\ applied' = 0 /\ prep' = NoPrep
        /\ call' = [call EXCEPT ![Scheduler] = "running"]
    BY <1>2 DEF Reserved, EndCheck
  <2>2. /\ Begins /\ job'.trigger = "schedule"
        /\ job'.names = s /\ job'.rev = snap.rev
    BY <1>1, <2>1, NewJobFacts DEF Begins
  <2> QED
    BY <1>1, <2>1, <2>2
<1>3. CASE s = {}
  BY <1>1, <1>3 DEF Reserved, EndCheck
<1> QED
  BY <1>2, <1>3

\* The three ways a request may be counted keep the type of the job.
LEMMA CountTypes ==
    ASSUME NEW j \in Jobs, NEW p \in Nat, NEW q \in Nat, NEW b \in BOOLEAN
    PROVE  /\ [j EXCEPT !.processed = p, !.confirmed = q] \in Jobs
           /\ [j EXCEPT !.processed = p, !.rejected = q, !.stop = b] \in Jobs
           /\ [j EXCEPT !.processed = p, !.unknown = q, !.stop = b] \in Jobs
  BY DEF Jobs

\* What counting leaves alone.
SameBatch(j, k) ==
    /\ k.state = j.state /\ k.names = j.names /\ k.id = j.id
    /\ k.trigger = j.trigger /\ k.rev = j.rev
    /\ k.processed = j.processed + 1

\* Counting a request adds one to `processed' and to one other counter.
LEMMA CountSteps ==
    ASSUME job \in Jobs
    PROVE  /\ Confirmed \in Jobs /\ SameBatch(job, Confirmed)
           /\ Confirmed.confirmed = job.confirmed + 1
           /\ Confirmed.rejected = job.rejected
           /\ Confirmed.unknown = job.unknown
           /\ \A b \in BOOLEAN :
                /\ Rejected(b) \in Jobs /\ SameBatch(job, Rejected(b))
                /\ Rejected(b).confirmed = job.confirmed
                /\ Rejected(b).rejected = job.rejected + 1
                /\ Rejected(b).unknown = job.unknown
           /\ Unknown \in Jobs /\ SameBatch(job, Unknown) /\ Unknown.stop
           /\ Unknown.confirmed = job.confirmed
           /\ Unknown.rejected = job.rejected
           /\ Unknown.unknown = job.unknown + 1
<1>1. /\ job.processed + 1 \in Nat /\ job.confirmed + 1 \in Nat
      /\ job.rejected + 1 \in Nat /\ job.unknown + 1 \in Nat
  BY DEF Jobs
<1>2. Confirmed \in Jobs /\ Unknown \in Jobs
  BY <1>1, CountTypes DEF Confirmed, Unknown
<1>3. \A b \in BOOLEAN : Rejected(b) \in Jobs
  BY <1>1, CountTypes DEF Rejected
<1>4. /\ SameBatch(job, Confirmed) /\ Confirmed.confirmed = job.confirmed + 1
      /\ Confirmed.rejected = job.rejected /\ Confirmed.unknown = job.unknown
  BY DEF Confirmed, SameBatch, Jobs
<1>5. ASSUME NEW b \in BOOLEAN
      PROVE  /\ SameBatch(job, Rejected(b))
             /\ Rejected(b).confirmed = job.confirmed
             /\ Rejected(b).rejected = job.rejected + 1
             /\ Rejected(b).unknown = job.unknown
  BY DEF Rejected, SameBatch, Jobs
<1>6. /\ SameBatch(job, Unknown) /\ Unknown.stop = TRUE
      /\ Unknown.confirmed = job.confirmed /\ Unknown.rejected = job.rejected
      /\ Unknown.unknown = job.unknown + 1
  BY DEF Unknown, SameBatch, Jobs
<1> QED
  BY <1>2, <1>3, <1>4, <1>5, <1>6

\* The answer to a request of the batch: the request is the only one in flight,
\* the batch was not stopped, and exactly one counter grows.
LEMMA AnswerFacts ==
    ASSUME Core, BatchAnswer
    PROVE  /\ \E f \in flight : /\ f.by = Batch /\ InFlight(Batch) = {f}
                                /\ flight' = flight \ {f}
           /\ InFlight(Batch)' = {} /\ running /\ ~job.stop
           /\ job' \in Jobs /\ applied' \in Nat /\ SameBatch(job, job')
           /\ \/ /\ job'.confirmed = job.confirmed + 1
                 /\ applied' = applied + 1
                 /\ job'.rejected = job.rejected
                 /\ job'.unknown = job.unknown
              \/ /\ job'.confirmed = job.confirmed /\ applied' = applied
                 /\ job'.rejected = job.rejected + 1
                 /\ job'.unknown = job.unknown
              \/ /\ job'.confirmed = job.confirmed
                 /\ applied' \in {applied, applied + 1}
                 /\ job'.rejected = job.rejected
                 /\ job'.unknown = job.unknown + 1 /\ job'.stop
<1>1. PICK f \in InFlight(Batch) : flight' = flight \ {f} /\ classify(f.user)
  BY DEF BatchAnswer
<1>2. /\ InFlight(Batch) = {f} /\ InFlight(Batch)' = {} /\ f \in flight
      /\ f.by = Batch
  BY <1>1 DEF InFlight, Flights, Core
<1>3. ~job.stop /\ running /\ job \in Jobs /\ applied \in Nat
  BY <1>1 DEF BatchAnswer, InFlight, Flights, Core, Types
<1>4. CASE job' = Confirmed /\ applied' = applied + 1
  BY <1>1, <1>2, <1>3, <1>4, CountSteps
<1>5. CASE (\E b \in BOOLEAN : job' = Rejected(b)) /\ applied' = applied
  BY <1>1, <1>2, <1>3, <1>5, CountSteps
<1>6. CASE job' = Unknown /\ applied' \in {applied, applied + 1}
  BY <1>1, <1>2, <1>3, <1>6, CountSteps
<1> QED
  BY <1>1, <1>4, <1>5, <1>6 DEF classify

\* Cardinalities of the lists of names a batch works through.
LEMMA CountFacts ==
    ASSUME NEW S \in SUBSET Users
    PROVE  /\ IsFiniteSet(S) /\ Cardinality(S) \in Nat
           /\ Cardinality(S) <= Cardinality(Users)
           /\ \A u \in S : Cardinality(S \ {u}) = Cardinality(S) - 1
           /\ Cardinality({}) = 0
           /\ \A x : Cardinality({x}) = 1
<1>1. IsFiniteSet(S) /\ Cardinality(S) <= Cardinality(Users)
  BY UsersAssumption, FS_Subset
<1> QED
  BY <1>1, FS_CardinalityType, FS_RemoveElement, FS_EmptySet, FS_Singleton

-----------------------------------------------------------------------------
(* Each part of the invariant is kept by every action.                     *)

\* Every action of the manager, the calls of the scheduler included.
Acts ==
    \/ \E c \in Callers \cup {Scheduler} : ReadSnapshot(c) \/ SnapshotFails(c)
    \/ \E c \in Callers : Prepare(c) \/ Prepared(c) \/ Started(c) \/ SingleAnswer(c)
    \/ \E c \in Callers, t \in Tokens : Start(c, t)
    \/ \E c \in Callers, u \in Users : ResetSingle(c, u)
    \/ TickDue \/ TickDone \/ ExecuteScheduled \/ NotReserved
    \/ \E s \in SUBSET Users : Reserved(s) \/ EditConfig(s)
    \/ \E u \in Users : BatchSend(u)
    \/ BatchCancelled \/ BatchAnswer \/ RunFinish \/ Expire \/ Close \/ Restart

\* Every variable keeps its type.
LEMMA TypesStep ==
    ASSUME Core, Acts
    PROVE  Types'
<1> USE CallersAssumption, TokensAssumption DEF Core, Scheduler, telemtVars, historyVars
<1>1. ASSUME NEW c \in Callers \cup {Scheduler}, ReadSnapshot(c)
      PROVE  Types'
  BY <1>1 DEF Types, Places, Lists, Prepareds, Jobs, NoPrep, NoJob, NoSnap,
      Checks, ReadSnapshot
<1>2. ASSUME NEW c \in Callers \cup {Scheduler}, SnapshotFails(c)
      PROVE  Types'
  BY <1>2, ZenonT(60) DEF Types, Places, Lists, Prepareds, Jobs, NoPrep, NoJob, NoSnap,
      Checks, SnapshotFails, EndCheck
<1>3. ASSUME NEW c \in Callers, Prepare(c)
      PROVE  Types'
  BY <1>3 DEF Types, Places, Lists, Prepareds, Jobs, NoPrep, NoJob, NoSnap,
      Checks, Prepare, BeginCheck, busy
<1>4. ASSUME NEW c \in Callers, Prepared(c)
      PROVE  Types'
  <2>1. /\ call' = [call EXCEPT ![c] = "idle"] /\ checking' = FALSE
        /\ snap' = NoSnap
        /\ UNCHANGED <<closed, single, job, left, flight, users, rev, begun,
                       applied>>
    BY <1>4 DEF Prepared, EndCheck
  <2>2. CASE UNCHANGED <<prep, issued>>
    BY <2>1, <2>2 DEF Types, Places, Lists, NoSnap, Checks
  <2>3. ASSUME NEW t \in Fresh,
               prep' = [token |-> t, names |-> snap.names, rev |-> snap.rev,
                        expired |-> FALSE],
               issued' = [issued EXCEPT ![t] = snap]
        PROVE  Types'
    <3>1. prep' \in Prepareds
      BY <2>3 DEF Types, Lists, Prepareds, Fresh
    <3>2. issued' \in [Tokens -> Lists]
      BY <2>3 DEF Types, Fresh
    <3> QED
      BY <2>1, <3>1, <3>2 DEF Types, Places, Lists, NoSnap, Checks
  <2> QED
    BY <1>4, <2>2, <2>3 DEF Prepared
<1>5. ASSUME NEW c \in Callers, NEW t \in Tokens, Start(c, t)
      PROVE  Types'
  BY <1>5 DEF Types, Places, Lists, Prepareds, Jobs, NoPrep, NoJob, NoSnap,
      Checks, Start, BeginCheck, busy
<1>6. ASSUME NEW c \in Callers, Started(c)
      PROVE  Types'
  <2>1. /\ job' \in Jobs /\ left' \subseteq Users /\ applied' \in Nat
        /\ begun' \in [Tokens -> Nat] /\ prep' \in Prepareds
    BY <1>6, StartedFacts, StartingFacts, EmptyTypes DEF Types, Begins, Jobs, Lists
  <2>2. /\ call' = [call EXCEPT ![c] = "idle"] /\ checking' = FALSE
        /\ snap' = NoSnap
        /\ UNCHANGED <<closed, single, flight, users, rev, issued>>
    BY <1>6 DEF Started, EndCheck
  <2> QED
    BY <2>1, <2>2 DEF Types, Places, Lists, NoSnap, Checks
<1>7. ASSUME NEW c \in Callers, SingleAnswer(c)
      PROVE  Types'
  <2>1. flight' \subseteq flight
    BY <1>7 DEF SingleAnswer
  <2> QED
    BY <1>7, <2>1 DEF SingleAnswer, Types, Places, Checks
<1>8. ASSUME NEW c \in Callers, NEW u \in Users, ResetSingle(c, u)
      PROVE  Types'
  BY <1>8 DEF Types, Places, Lists, Prepareds, Jobs, NoPrep, NoJob, NoSnap,
      Checks, ResetSingle, busy
<1>9. ASSUME TickDue
      PROVE  Types'
  BY <1>9 DEF Types, Places, Lists, Prepareds, Jobs, NoPrep, NoJob, NoSnap,
      Checks, TickDue
<1>10. ASSUME TickDone
       PROVE  Types'
  BY <1>10 DEF Types, Places, Lists, Prepareds, Jobs, NoPrep, NoJob, NoSnap,
      Checks, TickDone
<1>11. ASSUME ExecuteScheduled
       PROVE  Types'
  <2>1. CASE BeginCheck(Scheduler, "scheduling")
    BY <1>11, <2>1
    DEF ExecuteScheduled, BeginCheck, Types, Places, Lists, NoSnap, Checks
  <2>2. CASE /\ call' = [call EXCEPT ![Scheduler] = "idle"]
             /\ UNCHANGED <<checking, snap>>
    BY <1>11, <2>2 DEF ExecuteScheduled, Types, Places, Checks
  <2> QED
    BY <1>11, <2>1, <2>2 DEF ExecuteScheduled
<1>12. ASSUME NotReserved
       PROVE  Types'
  BY <1>12, ZenonT(60) DEF Types, Places, Lists, Prepareds, Jobs, NoPrep, NoJob, NoSnap,
      Checks, NotReserved, EndCheck
<1>13. ASSUME NEW s \in SUBSET Users, Reserved(s)
       PROVE  Types'
  <2>1. /\ job' \in Jobs /\ left' \subseteq Users /\ applied' \in Nat
        /\ prep' \in Prepareds
    BY <1>13, ReservedFacts, EmptyTypes, ZenonT(60) DEF Types, Begins, Jobs, Lists
  <2>2. checking' = FALSE /\ snap' \in Lists
    BY <1>13, ReservedFacts, EmptyTypes
  <2>3. Places'
    <3>1. \/ call' = [call EXCEPT ![Scheduler] = "running"]
          \/ call' = [call EXCEPT ![Scheduler] = "idle"]
      BY <1>13, ReservedFacts
    <3> QED
      BY <3>1 DEF Types, Places, Checks
  <2> QED
    BY <1>13, <2>1, <2>2, <2>3 DEF Types, Reserved
<1>14. ASSUME NEW u \in Users, BatchSend(u)
       PROVE  Types'
  BY <1>14 DEF Types, Places, Lists, Prepareds, Jobs, NoPrep, NoJob, NoSnap,
      Checks, BatchSend, InFlight
<1>15. ASSUME BatchCancelled
       PROVE  Types'
  BY <1>15 DEF Types, Places, Lists, Prepareds, Jobs, NoPrep, NoJob, NoSnap,
      Checks, BatchCancelled, InFlight
<1>16. ASSUME BatchAnswer
       PROVE  Types'
  <2>1. job' \in Jobs /\ applied' \in Nat
    BY <1>16, AnswerFacts DEF SameBatch
  <2>2. flight' \subseteq flight
    BY <1>16 DEF BatchAnswer
  <2> QED
    BY <1>16, <2>1, <2>2 DEF BatchAnswer, Types, Places
<1>17. ASSUME RunFinish
       PROVE  Types'
  BY <1>17 DEF Types, Places, Lists, Prepareds, Jobs, NoPrep, NoJob, NoSnap,
      Checks, RunFinish, InFlight
<1>18. ASSUME Expire
       PROVE  Types'
  BY <1>18, ZenonT(60) DEF Types, Places, Lists, Prepareds, Jobs, NoPrep, NoJob, NoSnap,
      Checks, Expire
<1>19. ASSUME Close
       PROVE  Types'
  BY <1>19 DEF Types, Places, Lists, Prepareds, Jobs, NoPrep, NoJob, NoSnap,
      Checks, Close
<1>20. ASSUME Restart
       PROVE  Types'
  BY <1>20 DEF Types, Places, Lists, Prepareds, Jobs, NoPrep, NoJob, NoSnap,
      Checks, Restart
<1>21. ASSUME NEW s \in SUBSET Users, EditConfig(s)
       PROVE  Types'
  BY <1>21 DEF Types, Places, Lists, Prepareds, Jobs, NoPrep, NoJob, NoSnap,
      Checks, EditConfig, managerVars
<1> QED
  BY <1>1, <1>2, <1>3, <1>4, <1>5, <1>6, <1>7, <1>8, <1>9, <1>10, <1>11,
      <1>12, <1>13, <1>14, <1>15, <1>16, <1>17, <1>18, <1>19, <1>20, <1>21 DEF
      Acts

\* The flags keep standing for one caller each.
LEMMA ExclusionStep ==
    ASSUME Core, Acts
    PROVE  Exclusion'
<1> USE CallersAssumption, TokensAssumption DEF Core, Scheduler, telemtVars, historyVars
<1>1. ASSUME NEW c \in Callers \cup {Scheduler}, ReadSnapshot(c)
      PROVE  Exclusion'
  BY <1>1 DEF Types, Places, Exclusion, running, Checks, Jobs, NoJob,
      ReadSnapshot
<1>2. ASSUME NEW c \in Callers \cup {Scheduler}, SnapshotFails(c)
      PROVE  Exclusion'
  BY <1>2 DEF Types, Places, Exclusion, running, Checks, Jobs, NoJob,
      SnapshotFails, EndCheck
<1>3. ASSUME NEW c \in Callers, Prepare(c)
      PROVE  Exclusion'
  BY <1>3 DEF Types, Places, Exclusion, running, Checks, Jobs, NoJob, Prepare,
      BeginCheck, busy
<1>4. ASSUME NEW c \in Callers, Prepared(c)
      PROVE  Exclusion'
  BY <1>4 DEF Types, Places, Exclusion, running, Checks, Jobs, NoJob,
      Prepared, EndCheck, Fresh
<1>5. ASSUME NEW c \in Callers, NEW t \in Tokens, Start(c, t)
      PROVE  Exclusion'
  BY <1>5 DEF Types, Places, Exclusion, running, Checks, Jobs, NoJob, Start,
      BeginCheck, busy
<1>6. ASSUME NEW c \in Callers, Started(c)
      PROVE  Exclusion'
  <2>1. ~running' \/ job'.trigger = "manual"
    BY <1>6, StartedFacts, StartingFacts DEF Begins, running
  <2>2. /\ call' = [call EXCEPT ![c] = "idle"] /\ checking' = FALSE
        /\ UNCHANGED single
    BY <1>6 DEF Started, EndCheck
  <2> QED
    BY <1>6, <2>1, <2>2, StartingFacts DEF Types, Places, Exclusion, Checks
<1>7. ASSUME NEW c \in Callers, SingleAnswer(c)
      PROVE  Exclusion'
  BY <1>7 DEF Types, Places, Exclusion, running, Checks, Jobs, NoJob,
      SingleAnswer, InFlight
<1>8. ASSUME NEW c \in Callers, NEW u \in Users, ResetSingle(c, u)
      PROVE  Exclusion'
  BY <1>8 DEF Types, Places, Exclusion, running, Checks, Jobs, NoJob,
      ResetSingle, busy
<1>9. ASSUME TickDue
      PROVE  Exclusion'
  BY <1>9 DEF Types, Places, Exclusion, running, Checks, Jobs, NoJob, TickDue
<1>10. ASSUME TickDone
       PROVE  Exclusion'
  BY <1>10 DEF Types, Places, Exclusion, running, Checks, Jobs, NoJob,
      TickDone
<1>11. ASSUME ExecuteScheduled
       PROVE  Exclusion'
  BY <1>11 DEF Types, Places, Exclusion, running, Checks, Jobs, NoJob,
      ExecuteScheduled, BeginCheck, busy
<1>12. ASSUME NotReserved
       PROVE  Exclusion'
  BY <1>12 DEF Types, Places, Exclusion, running, Checks, Jobs, NoJob,
      NotReserved, EndCheck
<1>13. ASSUME NEW s \in SUBSET Users, Reserved(s)
       PROVE  Exclusion'
  <2>1. UNCHANGED single
    BY <1>13 DEF Reserved
  <2>2. \/ /\ ~running' /\ call' = [call EXCEPT ![Scheduler] = "idle"]
        \/ /\ running' /\ job'.trigger = "schedule"
           /\ call' = [call EXCEPT ![Scheduler] = "running"]
    BY <1>13, ReservedFacts DEF Begins, running
  <2> QED
    BY <1>13, <2>1, <2>2, ReservedFacts DEF Types, Places, Exclusion, Checks
<1>14. ASSUME NEW u \in Users, BatchSend(u)
       PROVE  Exclusion'
  BY <1>14 DEF Types, Places, Exclusion, running, Checks, Jobs, NoJob,
      BatchSend, InFlight
<1>15. ASSUME BatchCancelled
       PROVE  Exclusion'
  BY <1>15 DEF Types, Places, Exclusion, running, Checks, Jobs, NoJob,
      BatchCancelled, InFlight
<1>16. ASSUME BatchAnswer
       PROVE  Exclusion'
  <2>1. running' /\ running /\ job'.trigger = job.trigger
    BY <1>16, AnswerFacts DEF SameBatch, running
  <2> QED
    BY <1>16, <2>1 DEF BatchAnswer, Exclusion
<1>17. ASSUME RunFinish
       PROVE  Exclusion'
  BY <1>17 DEF Types, Places, Exclusion, running, Checks, Jobs, NoJob,
      RunFinish, InFlight
<1>18. ASSUME Expire
       PROVE  Exclusion'
  BY <1>18 DEF Types, Places, Exclusion, running, Checks, Jobs, NoJob, Expire
<1>19. ASSUME Close
       PROVE  Exclusion'
  BY <1>19 DEF Types, Places, Exclusion, running, Checks, Jobs, NoJob, Close
<1>20. ASSUME Restart
       PROVE  Exclusion'
  BY <1>20 DEF Types, Places, Exclusion, running, Checks, Jobs, NoJob, Restart
<1>21. ASSUME NEW s \in SUBSET Users, EditConfig(s)
       PROVE  Exclusion'
  BY <1>21 DEF Types, Places, Exclusion, running, Checks, Jobs, NoJob,
      EditConfig, managerVars
<1> QED
  BY <1>1, <1>2, <1>3, <1>4, <1>5, <1>6, <1>7, <1>8, <1>9, <1>10, <1>11,
      <1>12, <1>13, <1>14, <1>15, <1>16, <1>17, <1>18, <1>19, <1>20, <1>21 DEF
      Acts

\* Requests in flight keep their owner.
LEMMA FlightsStep ==
    ASSUME Core, Acts
    PROVE  Flights'
<1> USE CallersAssumption, TokensAssumption DEF Core, Scheduler, telemtVars, historyVars
<1>1. ASSUME NEW c \in Callers \cup {Scheduler}, ReadSnapshot(c)
      PROVE  Flights'
  BY <1>1 DEF Types, Places, Exclusion, Flights, running, Checks, Jobs, NoJob,
      Batch, ReadSnapshot
<1>2. ASSUME NEW c \in Callers \cup {Scheduler}, SnapshotFails(c)
      PROVE  Flights'
  BY <1>2 DEF Types, Places, Exclusion, Flights, running, Checks, Jobs, NoJob,
      Batch, SnapshotFails, EndCheck
<1>3. ASSUME NEW c \in Callers, Prepare(c)
      PROVE  Flights'
  BY <1>3 DEF Types, Places, Exclusion, Flights, running, Checks, Jobs, NoJob,
      Batch, Prepare, BeginCheck, busy
<1>4. ASSUME NEW c \in Callers, Prepared(c)
      PROVE  Flights'
  BY <1>4 DEF Types, Places, Exclusion, Flights, running, Checks, Jobs, NoJob,
      Batch, Prepared, EndCheck, Fresh
<1>5. ASSUME NEW c \in Callers, NEW t \in Tokens, Start(c, t)
      PROVE  Flights'
  BY <1>5 DEF Types, Places, Exclusion, Flights, running, Checks, Jobs, NoJob,
      Batch, Start, BeginCheck, busy
<1>6. ASSUME NEW c \in Callers, Started(c)
      PROVE  Flights'
  BY <1>6 DEF Types, Places, Exclusion, Flights, running, Checks, Jobs, NoJob,
      Batch, Started, EndCheck
<1>7. ASSUME NEW c \in Callers, SingleAnswer(c)
      PROVE  Flights'
  BY <1>7 DEF Types, Places, Exclusion, Flights, running, Checks, Jobs, NoJob,
      Batch, SingleAnswer, InFlight
<1>8. ASSUME NEW c \in Callers, NEW u \in Users, ResetSingle(c, u)
      PROVE  Flights'
  BY <1>8 DEF Types, Places, Exclusion, Flights, running, Checks, Jobs, NoJob,
      Batch, ResetSingle, busy
<1>9. ASSUME TickDue
      PROVE  Flights'
  BY <1>9 DEF Types, Places, Exclusion, Flights, running, Checks, Jobs, NoJob,
      Batch, TickDue
<1>10. ASSUME TickDone
       PROVE  Flights'
  BY <1>10 DEF Types, Places, Exclusion, Flights, running, Checks, Jobs,
      NoJob, Batch, TickDone
<1>11. ASSUME ExecuteScheduled
       PROVE  Flights'
  BY <1>11 DEF Types, Places, Exclusion, Flights, running, Checks, Jobs,
      NoJob, Batch, ExecuteScheduled, BeginCheck, busy
<1>12. ASSUME NotReserved
       PROVE  Flights'
  BY <1>12 DEF Types, Places, Exclusion, Flights, running, Checks, Jobs,
      NoJob, Batch, NotReserved, EndCheck
<1>13. ASSUME NEW s \in SUBSET Users, Reserved(s)
       PROVE  Flights'
  BY <1>13 DEF Types, Places, Exclusion, Flights, running, Checks, Jobs,
      NoJob, Batch, Reserved, EndCheck
<1>14. ASSUME NEW u \in Users, BatchSend(u)
       PROVE  Flights'
  BY <1>14 DEF Types, Places, Exclusion, Flights, running, Checks, Jobs,
      NoJob, Batch, BatchSend, InFlight
<1>15. ASSUME BatchCancelled
       PROVE  Flights'
  BY <1>15 DEF Types, Places, Exclusion, Flights, running, Checks, Jobs,
      NoJob, Batch, BatchCancelled, InFlight
<1>16. ASSUME BatchAnswer
       PROVE  Flights'
  <2>1. running' /\ flight' \subseteq flight /\ InFlight(Batch)' = {}
    BY <1>16, AnswerFacts DEF SameBatch, running
  <2> QED
    BY <1>16, <2>1 DEF BatchAnswer, Flights, InFlight
<1>17. ASSUME RunFinish
       PROVE  Flights'
  BY <1>17 DEF Types, Places, Exclusion, Flights, running, Checks, Jobs,
      NoJob, Batch, RunFinish, InFlight
<1>18. ASSUME Expire
       PROVE  Flights'
  BY <1>18 DEF Types, Places, Exclusion, Flights, running, Checks, Jobs,
      NoJob, Batch, Expire
<1>19. ASSUME Close
       PROVE  Flights'
  BY <1>19 DEF Types, Places, Exclusion, Flights, running, Checks, Jobs,
      NoJob, Batch, Close
<1>20. ASSUME Restart
       PROVE  Flights'
  BY <1>20 DEF Types, Places, Exclusion, Flights, running, Checks, Jobs,
      NoJob, Batch, Restart
<1>21. ASSUME NEW s \in SUBSET Users, EditConfig(s)
       PROVE  Flights'
  BY <1>21 DEF Types, Places, Exclusion, Flights, running, Checks, Jobs,
      NoJob, Batch, EditConfig, managerVars
<1> QED
  BY <1>1, <1>2, <1>3, <1>4, <1>5, <1>6, <1>7, <1>8, <1>9, <1>10, <1>11,
      <1>12, <1>13, <1>14, <1>15, <1>16, <1>17, <1>18, <1>19, <1>20, <1>21 DEF
      Acts

\* A token keeps what it was issued for.
LEMMA ConfirmationsStep ==
    ASSUME Core, Acts
    PROVE  Confirmations'
<1> USE CallersAssumption, TokensAssumption DEF Core, Scheduler, telemtVars, historyVars
<1>1. ASSUME NEW c \in Callers \cup {Scheduler}, ReadSnapshot(c)
      PROVE  Confirmations'
  BY <1>1 DEF Types, Places, Exclusion, Confirmations, running, Checks, Jobs,
      NoJob, NoPrep, NoSnap, Lists, Prepareds, ReadSnapshot
<1>2. ASSUME NEW c \in Callers \cup {Scheduler}, SnapshotFails(c)
      PROVE  Confirmations'
  BY <1>2 DEF Types, Places, Exclusion, Confirmations, running, Checks, Jobs,
      NoJob, NoPrep, NoSnap, Lists, Prepareds, SnapshotFails, EndCheck
<1>3. ASSUME NEW c \in Callers, Prepare(c)
      PROVE  Confirmations'
  BY <1>3 DEF Types, Places, Exclusion, Confirmations, running, Checks, Jobs,
      NoJob, NoPrep, NoSnap, Lists, Prepareds, Prepare, BeginCheck, busy
<1>4. ASSUME NEW c \in Callers, Prepared(c)
      PROVE  Confirmations'
  BY <1>4 DEF Types, Places, Exclusion, Confirmations, running, Checks, Jobs,
      NoJob, NoPrep, NoSnap, Lists, Prepareds, Prepared, EndCheck, Fresh
<1>5. ASSUME NEW c \in Callers, NEW t \in Tokens, Start(c, t)
      PROVE  Confirmations'
  BY <1>5 DEF Types, Places, Exclusion, Confirmations, running, Checks, Jobs,
      NoJob, NoPrep, NoSnap, Lists, Prepareds, Start, BeginCheck, busy
<1>6. ASSUME NEW c \in Callers, Started(c)
      PROVE  Confirmations'
  <2>1. call' = [call EXCEPT ![c] = "idle"] /\ UNCHANGED issued
    BY <1>6 DEF Started, EndCheck
  <2>2. \A d \in Callers : call'[d] # "starting"
    BY <1>6, <2>1, StartingFacts DEF Types, Places
  <2>3. CASE /\ UNCHANGED <<job, left, begun, applied>>
             /\ prep' \in {prep, NoPrep}
    BY <2>1, <2>2, <2>3 DEF Confirmations, NoPrep
  <2>4. CASE /\ Begins /\ job'.id = prep.token /\ job'.trigger = "manual"
             /\ job'.names = snap.names /\ job'.rev = snap.rev
             /\ prep' = NoPrep
             /\ \A t \in Tokens : begun'[t] = IF t = prep.token
                                              THEN begun[t] + 1 ELSE begun[t]
             /\ snap.names = prep.names /\ snap.rev = prep.rev /\ snap.rev # 0
    <3>1. prep.token \in Tokens /\ prep.token # None
      BY <1>6, StartingFacts
    <3>2. /\ begun[prep.token] = 0
          /\ issued[prep.token] = [names |-> prep.names, rev |-> prep.rev]
          /\ issued[prep.token].rev = prep.rev
      BY <3>1 DEF Confirmations
    <3>3. \A t \in Tokens :
            begun'[t] <= 1 /\ (begun'[t] # 0 => issued[t].rev # 0)
      BY <2>4, <3>1, <3>2 DEF Types, Confirmations
    <3> QED
      BY <2>1, <2>2, <2>4, <3>1, <3>2, <3>3 DEF Confirmations, NoPrep, Begins
  <2> QED
    BY <1>6, <2>3, <2>4, StartedFacts
<1>7. ASSUME NEW c \in Callers, SingleAnswer(c)
      PROVE  Confirmations'
  BY <1>7 DEF Types, Places, Exclusion, Confirmations, running, Checks, Jobs,
      NoJob, NoPrep, NoSnap, Lists, Prepareds, SingleAnswer, InFlight
<1>8. ASSUME NEW c \in Callers, NEW u \in Users, ResetSingle(c, u)
      PROVE  Confirmations'
  BY <1>8 DEF Types, Places, Exclusion, Confirmations, running, Checks, Jobs,
      NoJob, NoPrep, NoSnap, Lists, Prepareds, ResetSingle, busy
<1>9. ASSUME TickDue
      PROVE  Confirmations'
  BY <1>9 DEF Types, Places, Exclusion, Confirmations, running, Checks, Jobs,
      NoJob, NoPrep, NoSnap, Lists, Prepareds, TickDue
<1>10. ASSUME TickDone
       PROVE  Confirmations'
  BY <1>10 DEF Types, Places, Exclusion, Confirmations, running, Checks, Jobs,
      NoJob, NoPrep, NoSnap, Lists, Prepareds, TickDone
<1>11. ASSUME ExecuteScheduled
       PROVE  Confirmations'
  BY <1>11 DEF Types, Places, Exclusion, Confirmations, running, Checks, Jobs,
      NoJob, NoPrep, NoSnap, Lists, Prepareds, ExecuteScheduled, BeginCheck,
      busy
<1>12. ASSUME NotReserved
       PROVE  Confirmations'
  BY <1>12 DEF Types, Places, Exclusion, Confirmations, running, Checks, Jobs,
      NoJob, NoPrep, NoSnap, Lists, Prepareds, NotReserved, EndCheck
<1>13. ASSUME NEW s \in SUBSET Users, Reserved(s)
       PROVE  Confirmations'
  <2>1. \A d \in Callers : call'[d] # "starting"
    BY <1>13, ReservedFacts DEF Types, Places, Checks
  <2>2. UNCHANGED <<issued, begun>>
    BY <1>13 DEF Reserved
  <2>3. \/ /\ prep' = NoPrep /\ job'.state = "running"
           /\ job'.trigger = "schedule"
        \/ UNCHANGED <<prep, job, applied>>
    BY <1>13, ReservedFacts DEF Begins
  <2> QED
    BY <2>1, <2>2, <2>3 DEF Confirmations, NoPrep
<1>14. ASSUME NEW u \in Users, BatchSend(u)
       PROVE  Confirmations'
  BY <1>14 DEF Types, Places, Exclusion, Confirmations, running, Checks, Jobs,
      NoJob, NoPrep, NoSnap, Lists, Prepareds, BatchSend, InFlight
<1>15. ASSUME BatchCancelled
       PROVE  Confirmations'
  BY <1>15 DEF Types, Places, Exclusion, Confirmations, running, Checks, Jobs,
      NoJob, NoPrep, NoSnap, Lists, Prepareds, BatchCancelled, InFlight
<1>16. ASSUME BatchAnswer
       PROVE  Confirmations'
  <2>1. /\ job'.state = job.state /\ job'.names = job.names /\ job'.id = job.id
        /\ job'.trigger = job.trigger /\ job'.rev = job.rev
        /\ job.state = "running"
    BY <1>16, AnswerFacts DEF SameBatch, running
  <2> QED
    BY <1>16, <2>1 DEF BatchAnswer, Confirmations
<1>17. ASSUME RunFinish
       PROVE  Confirmations'
  BY <1>17 DEF Types, Places, Exclusion, Confirmations, running, Checks, Jobs,
      NoJob, NoPrep, NoSnap, Lists, Prepareds, RunFinish, InFlight
<1>18. ASSUME Expire
       PROVE  Confirmations'
  BY <1>18 DEF Types, Places, Exclusion, Confirmations, running, Checks, Jobs,
      NoJob, NoPrep, NoSnap, Lists, Prepareds, Expire
<1>19. ASSUME Close
       PROVE  Confirmations'
  BY <1>19 DEF Types, Places, Exclusion, Confirmations, running, Checks, Jobs,
      NoJob, NoPrep, NoSnap, Lists, Prepareds, Close
<1>20. ASSUME Restart
       PROVE  Confirmations'
  BY <1>20 DEF Types, Places, Exclusion, Confirmations, running, Checks, Jobs,
      NoJob, NoPrep, NoSnap, Lists, Prepareds, Restart
<1>21. ASSUME NEW s \in SUBSET Users, EditConfig(s)
       PROVE  Confirmations'
  BY <1>21 DEF Types, Places, Exclusion, Confirmations, running, Checks, Jobs,
      NoJob, NoPrep, NoSnap, Lists, Prepareds, EditConfig, managerVars
<1> QED
  BY <1>1, <1>2, <1>3, <1>4, <1>5, <1>6, <1>7, <1>8, <1>9, <1>10, <1>11,
      <1>12, <1>13, <1>14, <1>15, <1>16, <1>17, <1>18, <1>19, <1>20, <1>21 DEF
      Acts

\* Revisions that were read stay in the past.
LEMMA RevisionsStep ==
    ASSUME Core, Acts
    PROVE  Revisions'
<1> USE CallersAssumption, TokensAssumption DEF Core, Scheduler, telemtVars, historyVars
<1>1. ASSUME NEW c \in Callers \cup {Scheduler}, ReadSnapshot(c)
      PROVE  Revisions'
  BY <1>1 DEF Types, Revisions, NoJob, NoPrep, NoSnap, Jobs, Lists, Prepareds,
      ReadSnapshot
<1>2. ASSUME NEW c \in Callers \cup {Scheduler}, SnapshotFails(c)
      PROVE  Revisions'
  BY <1>2 DEF Types, Revisions, NoJob, NoPrep, NoSnap, Jobs, Lists, Prepareds,
      SnapshotFails, EndCheck
<1>3. ASSUME NEW c \in Callers, Prepare(c)
      PROVE  Revisions'
  BY <1>3 DEF Types, Revisions, NoJob, NoPrep, NoSnap, Jobs, Lists, Prepareds,
      Prepare, BeginCheck, busy
<1>4. ASSUME NEW c \in Callers, Prepared(c)
      PROVE  Revisions'
  BY <1>4 DEF Types, Revisions, NoJob, NoPrep, NoSnap, Jobs, Lists, Prepareds,
      Prepared, EndCheck, Fresh
<1>5. ASSUME NEW c \in Callers, NEW t \in Tokens, Start(c, t)
      PROVE  Revisions'
  BY <1>5 DEF Types, Revisions, NoJob, NoPrep, NoSnap, Jobs, Lists, Prepareds,
      Start, BeginCheck, busy
<1>6. ASSUME NEW c \in Callers, Started(c)
      PROVE  Revisions'
  <2>1. job'.rev <= rev /\ prep'.rev <= rev
    BY <1>6, StartedFacts, EmptyTypes DEF Begins, Types, Revisions
  <2> QED
    BY <1>6, <2>1 DEF Started, EndCheck, Types, Revisions, NoSnap
<1>7. ASSUME NEW c \in Callers, SingleAnswer(c)
      PROVE  Revisions'
  BY <1>7 DEF Types, Revisions, NoJob, NoPrep, NoSnap, Jobs, Lists, Prepareds,
      SingleAnswer, InFlight
<1>8. ASSUME NEW c \in Callers, NEW u \in Users, ResetSingle(c, u)
      PROVE  Revisions'
  BY <1>8 DEF Types, Revisions, NoJob, NoPrep, NoSnap, Jobs, Lists, Prepareds,
      ResetSingle, busy
<1>9. ASSUME TickDue
      PROVE  Revisions'
  BY <1>9 DEF Types, Revisions, NoJob, NoPrep, NoSnap, Jobs, Lists, Prepareds,
      TickDue
<1>10. ASSUME TickDone
       PROVE  Revisions'
  BY <1>10 DEF Types, Revisions, NoJob, NoPrep, NoSnap, Jobs, Lists,
      Prepareds, TickDone
<1>11. ASSUME ExecuteScheduled
       PROVE  Revisions'
  BY <1>11 DEF Types, Revisions, NoJob, NoPrep, NoSnap, Jobs, Lists,
      Prepareds, ExecuteScheduled, BeginCheck, busy
<1>12. ASSUME NotReserved
       PROVE  Revisions'
  BY <1>12 DEF Types, Revisions, NoJob, NoPrep, NoSnap, Jobs, Lists,
      Prepareds, NotReserved, EndCheck
<1>13. ASSUME NEW s \in SUBSET Users, Reserved(s)
       PROVE  Revisions'
  <2>1. job'.rev <= rev /\ prep'.rev <= rev /\ snap'.rev <= rev
    <3>1. /\ job' = job \/ job'.rev = snap.rev
          /\ prep' = prep \/ prep' = NoPrep
          /\ snap' = NoSnap
      BY <1>13, ReservedFacts
    <3> QED
      BY <3>1, EmptyTypes DEF Types, Revisions
  <2> QED
    BY <1>13, <2>1 DEF Reserved, Revisions
<1>14. ASSUME NEW u \in Users, BatchSend(u)
       PROVE  Revisions'
  BY <1>14 DEF Types, Revisions, NoJob, NoPrep, NoSnap, Jobs, Lists,
      Prepareds, BatchSend, InFlight
<1>15. ASSUME BatchCancelled
       PROVE  Revisions'
  BY <1>15 DEF Types, Revisions, NoJob, NoPrep, NoSnap, Jobs, Lists,
      Prepareds, BatchCancelled, InFlight
<1>16. ASSUME BatchAnswer
       PROVE  Revisions'
  BY <1>16, AnswerFacts DEF SameBatch, BatchAnswer, Revisions
<1>17. ASSUME RunFinish
       PROVE  Revisions'
  BY <1>17 DEF Types, Revisions, NoJob, NoPrep, NoSnap, Jobs, Lists,
      Prepareds, RunFinish, InFlight
<1>18. ASSUME Expire
       PROVE  Revisions'
  BY <1>18 DEF Types, Revisions, NoJob, NoPrep, NoSnap, Jobs, Lists,
      Prepareds, Expire
<1>19. ASSUME Close
       PROVE  Revisions'
  BY <1>19 DEF Types, Revisions, NoJob, NoPrep, NoSnap, Jobs, Lists,
      Prepareds, Close
<1>20. ASSUME Restart
       PROVE  Revisions'
  BY <1>20 DEF Types, Revisions, NoJob, NoPrep, NoSnap, Jobs, Lists,
      Prepareds, Restart
<1>21. ASSUME NEW s \in SUBSET Users, EditConfig(s)
       PROVE  Revisions'
  BY <1>21 DEF Types, Revisions, NoJob, NoPrep, NoSnap, Jobs, Lists,
      Prepareds, EditConfig, managerVars
<1> QED
  BY <1>1, <1>2, <1>3, <1>4, <1>5, <1>6, <1>7, <1>8, <1>9, <1>10, <1>11,
      <1>12, <1>13, <1>14, <1>15, <1>16, <1>17, <1>18, <1>19, <1>20, <1>21 DEF
      Acts

\* The counters keep telling the truth.
LEMMA CountingStep ==
    ASSUME Core, Acts
    PROVE  Counting'
<1> USE CallersAssumption, TokensAssumption DEF Core, Scheduler, telemtVars, historyVars
<1>1. ASSUME NEW c \in Callers \cup {Scheduler}, ReadSnapshot(c)
      PROVE  Counting'
  BY <1>1 DEF Types, Exclusion, Flights, Counting, running, Jobs, NoJob,
      InFlight, Batch, Scheduler, ReadSnapshot
<1>2. ASSUME NEW c \in Callers \cup {Scheduler}, SnapshotFails(c)
      PROVE  Counting'
  BY <1>2 DEF Types, Exclusion, Flights, Counting, running, Jobs, NoJob,
      InFlight, Batch, Scheduler, SnapshotFails, EndCheck
<1>3. ASSUME NEW c \in Callers, Prepare(c)
      PROVE  Counting'
  BY <1>3 DEF Types, Exclusion, Flights, Counting, running, Jobs, NoJob,
      InFlight, Batch, Scheduler, Prepare, BeginCheck, busy
<1>4. ASSUME NEW c \in Callers, Prepared(c)
      PROVE  Counting'
  BY <1>4 DEF Types, Exclusion, Flights, Counting, running, Jobs, NoJob,
      InFlight, Batch, Scheduler, Prepared, EndCheck, Fresh
<1>5. ASSUME NEW c \in Callers, NEW t \in Tokens, Start(c, t)
      PROVE  Counting'
  BY <1>5 DEF Types, Exclusion, Flights, Counting, running, Jobs, NoJob,
      InFlight, Batch, Scheduler, Start, BeginCheck, busy
<1>6. ASSUME NEW c \in Callers, Started(c)
      PROVE  Counting'
  <2>1. CASE UNCHANGED <<job, left, applied>>
    BY <1>6, <2>1 DEF Started, Counting, InFlight
  <2>2. CASE Begins /\ job'.names = snap.names
    <3>1. InFlight(Batch)' = {}
      BY <1>6, StartingFacts DEF Started, Flights, InFlight
    <3> QED
      BY <2>2, <3>1, CountFacts DEF Counting, Begins, Jobs
  <2> QED
    BY <1>6, <2>1, <2>2, StartedFacts
<1>7. ASSUME NEW c \in Callers, SingleAnswer(c)
      PROVE  Counting'
  <2>1. InFlight(Batch)' = InFlight(Batch)
    BY <1>7 DEF SingleAnswer, InFlight, Batch
  <2> QED
    BY <1>7, <2>1 DEF SingleAnswer, Counting
<1>8. ASSUME NEW c \in Callers, NEW u \in Users, ResetSingle(c, u)
      PROVE  Counting'
  <2>1. InFlight(Batch)' = InFlight(Batch)
    BY <1>8 DEF ResetSingle, InFlight, Batch
  <2> QED
    BY <1>8, <2>1 DEF ResetSingle, Counting
<1>9. ASSUME TickDue
      PROVE  Counting'
  BY <1>9 DEF Types, Exclusion, Flights, Counting, running, Jobs, NoJob,
      InFlight, Batch, Scheduler, TickDue
<1>10. ASSUME TickDone
       PROVE  Counting'
  BY <1>10 DEF Types, Exclusion, Flights, Counting, running, Jobs, NoJob,
      InFlight, Batch, Scheduler, TickDone
<1>11. ASSUME ExecuteScheduled
       PROVE  Counting'
  BY <1>11 DEF Types, Exclusion, Flights, Counting, running, Jobs, NoJob,
      InFlight, Batch, Scheduler, ExecuteScheduled, BeginCheck, busy
<1>12. ASSUME NotReserved
       PROVE  Counting'
  BY <1>12 DEF Types, Exclusion, Flights, Counting, running, Jobs, NoJob,
      InFlight, Batch, Scheduler, NotReserved, EndCheck
<1>13. ASSUME NEW s \in SUBSET Users, Reserved(s)
       PROVE  Counting'
  <2>1. CASE UNCHANGED <<job, left, applied>>
    BY <1>13, <2>1 DEF Reserved, Counting, InFlight
  <2>2. CASE Begins /\ job'.names = s
    <3>1. InFlight(Batch)' = {}
      BY <1>13, ReservedFacts DEF Reserved, Flights, InFlight
    <3> QED
      BY <2>2, <3>1, CountFacts DEF Counting, Begins, Jobs
  <2> QED
    BY <1>13, <2>1, <2>2, ReservedFacts
<1>14. ASSUME NEW u \in Users, BatchSend(u)
       PROVE  Counting'
  <2> DEFINE f == [by |-> Batch, user |-> u]
  <2>1. InFlight(Batch)' = {f} /\ InFlight(Batch) = {}
    BY <1>14 DEF BatchSend, InFlight
  <2>2. Cardinality(left') = Cardinality(left) - 1 /\ Cardinality(left) \in Nat
    BY <1>14, CountFacts DEF BatchSend, Types
  <2>3. Cardinality({f}) = 1 /\ Cardinality({}) = 0
    BY CountFacts
  <2>4. job.processed \in Nat /\ UNCHANGED <<job, applied>> /\ running
    BY <1>14 DEF BatchSend, Types, Jobs
  <2> QED
    BY <2>1, <2>2, <2>3, <2>4 DEF Counting, running
<1>15. ASSUME BatchCancelled
       PROVE  Counting'
  BY <1>15 DEF Types, Exclusion, Flights, Counting, running, Jobs, NoJob,
      InFlight, Batch, Scheduler, BatchCancelled
<1>16. ASSUME BatchAnswer
       PROVE  Counting'
  <2>1. PICK f \in flight : InFlight(Batch) = {f}
    BY <1>16, AnswerFacts DEF SameBatch
  <2>2. InFlight(Batch)' = {} /\ job.state = "running" /\ left' = left /\ ~job.stop
    BY <1>16, AnswerFacts DEF SameBatch, running, BatchAnswer
  <2>3. /\ job.processed \in Nat /\ job.confirmed \in Nat
        /\ job.rejected \in Nat /\ job.unknown = 0 /\ applied = job.confirmed
        /\ job.processed = job.confirmed + job.rejected
    BY <2>2 DEF Types, Jobs, Counting
  <2>4. Cardinality({f}) = 1 /\ Cardinality({}) = 0 /\ Cardinality(left) \in Nat
    BY CountFacts DEF Types
  <2>5. job.processed + Cardinality(left) + 1 = Cardinality(job.names)
    BY <2>1, <2>2, <2>3, <2>4 DEF Counting
  <2> QED
    BY <1>16, <2>2, <2>3, <2>4, <2>5, AnswerFacts DEF SameBatch, Counting
<1>17. ASSUME RunFinish
       PROVE  Counting'
  BY <1>17 DEF Types, Exclusion, Flights, Counting, running, Jobs, NoJob,
      InFlight, Batch, Scheduler, RunFinish
<1>18. ASSUME Expire
       PROVE  Counting'
  BY <1>18 DEF Types, Exclusion, Flights, Counting, running, Jobs, NoJob,
      InFlight, Batch, Scheduler, Expire
<1>19. ASSUME Close
       PROVE  Counting'
  BY <1>19 DEF Types, Exclusion, Flights, Counting, running, Jobs, NoJob,
      InFlight, Batch, Scheduler, Close
<1>20. ASSUME Restart
       PROVE  Counting'
  BY <1>20 DEF Types, Exclusion, Flights, Counting, running, Jobs, NoJob,
      InFlight, Batch, Scheduler, Restart
<1>21. ASSUME NEW s \in SUBSET Users, EditConfig(s)
       PROVE  Counting'
  BY <1>21 DEF Types, Exclusion, Flights, Counting, running, Jobs, NoJob,
      InFlight, Batch, Scheduler, EditConfig, managerVars
<1> QED
  BY <1>1, <1>2, <1>3, <1>4, <1>5, <1>6, <1>7, <1>8, <1>9, <1>10, <1>11,
      <1>12, <1>13, <1>14, <1>15, <1>16, <1>17, <1>18, <1>19, <1>20, <1>21 DEF
      Acts

-----------------------------------------------------------------------------
(* The invariant and what it says.                                         *)

\* A manager that was just created satisfies the invariant.
LEMMA CoreInit == Init => Core
<1> SUFFICES ASSUME Init PROVE Core
  OBVIOUS
<1> USE CallersAssumption, TokensAssumption DEF Init, Scheduler
<1>1. Types
  <2>1. Places
    BY DEF Places, Checks
  <2>2. issued \in [Tokens -> Lists] /\ begun \in [Tokens -> Nat]
    BY EmptyTypes
  <2>3. prep \in Prepareds /\ job \in Jobs /\ snap \in Lists
    BY EmptyTypes
  <2>4. left \subseteq Users /\ users \subseteq Users /\ rev \in Nat /\ rev > 0
        /\ flight \subseteq [by : Callers \cup {Batch}, user : Users]
        /\ applied \in Nat
    OBVIOUS
  <2> QED
    BY <2>1, <2>2, <2>3, <2>4 DEF Types
<1>2. Exclusion
  BY EmptyTypes DEF Exclusion, running, Checks
<1>3. Flights
  BY DEF Flights
<1>4. Confirmations
  BY EmptyTypes DEF Confirmations
<1>5. Counting
  BY EmptyTypes DEF Counting
<1>6. Revisions
  BY EmptyTypes DEF Revisions
<1> QED
  BY <1>1, <1>2, <1>3, <1>4, <1>5, <1>6 DEF Core

\* Every action keeps it.
LEMMA CoreStep == ASSUME Core, Acts PROVE Core'
  BY TypesStep, ExclusionStep, FlightsStep, ConfirmationsStep, RevisionsStep,
     CountingStep DEF Core

\* Every step of the manager is one of these actions, and keeps the budgets.
LEMMA InvNext == Core /\ Budget /\ [Next]_vars => Core' /\ Budget'
<1> SUFFICES ASSUME Core, Budget, [Next]_vars PROVE Core' /\ Budget'
  OBVIOUS
<1>1. CASE UNCHANGED vars
  <2>1. Core'
    BY <1>1 DEF vars, managerVars, telemtVars, historyVars, Core, Types, Places,
                Exclusion, Flights, Confirmations, Counting, Revisions, running,
                InFlight
  <2>2. Budget'
    BY <1>1 DEF vars, telemtVars, Budget
  <2> QED
    BY <2>1, <2>2
<1>2. CASE Next
  <2>1. Acts
    BY <1>2 DEF Acts, Next, Requests, Snapshots, Scheduled, BatchLoop, Environment
  <2>2. Core'
    BY <2>1, CoreStep
  <2>3. rev \in Nat
    BY DEF Core, Types
  <2>4. Budget'
    <3> USE DEF Next, Requests, Snapshots, Scheduled, BatchLoop, Environment
    <3>1. ops' = ops \/ (ops < MaxOps /\ ops' = ops + 1)
      BY <1>2 DEF ReadSnapshot, SnapshotFails, Prepare, Prepared, Start, Started,
        SingleAnswer, ResetSingle, ExecuteScheduled, NotReserved, Reserved,
        BatchSend, BatchCancelled, BatchAnswer, RunFinish, Expire, Close,
        Restart, EditConfig, Op
    <3>2. faults' = faults \/ (faults < MaxFaults /\ faults' = faults + 1)
      BY <1>2 DEF ReadSnapshot, SnapshotFails, Prepare, Prepared, Start, Started,
        SingleAnswer, ResetSingle, ExecuteScheduled, NotReserved, Reserved,
        BatchSend, BatchCancelled, BatchAnswer, classify, RunFinish, Expire,
        Close, Restart, EditConfig, Fault, NoFault
    <3>3. rev' = rev \/ (rev' = rev + 1 /\ ops' = ops + 1)
      BY <1>2 DEF ReadSnapshot, SnapshotFails, Prepare, Prepared, Start, Started,
        SingleAnswer, ResetSingle, TickDue, TickDone, ExecuteScheduled,
        NotReserved, Reserved, BatchSend, BatchCancelled, BatchAnswer, RunFinish,
        Expire, Close, Restart, EditConfig, Op, telemtVars
    <3> QED
      BY <2>3, <3>1, <3>2, <3>3, BoundsAssumption DEF Budget
  <2> QED
    BY <2>2, <2>4
<1> QED
  BY <1>1, <1>2

\* The budgets at the start.
LEMMA BudgetInit == Init => Budget
  BY BoundsAssumption DEF Init, Budget

\* The counters are bounded by the number of users.
LEMMA CoreTypeOK == ASSUME Core, Budget PROVE TypeOK
<1> USE DEF Core
<1>1. \A n \in Nat : n <= rev => n \in 0..(MaxOps + 1)
  BY BoundsAssumption DEF Types, Budget
<1>2. snap \in Selections
  BY <1>1 DEF Types, Lists, Revisions, Selections
<1>3. issued \in [Tokens -> Selections]
  BY <1>1 DEF Types, Lists, Revisions, Selections
<1>4. prep \in [token : Tokens \cup {None}, names : SUBSET Users,
                rev : 0..(MaxOps + 1), expired : BOOLEAN]
  BY <1>1 DEF Types, Prepareds, Revisions
<1>5. /\ job.processed \in Counts /\ job.confirmed \in Counts
      /\ job.rejected \in Counts /\ job.unknown \in Counts /\ applied \in Counts
  <2>1. Cardinality(Users) \in Nat
    BY CountFacts
  <2>2. CASE job.state = "none"
    BY <2>1, <2>2 DEF Confirmations, NoJob, Counts
  <2>3. CASE job.state # "none"
    <3>1. /\ Cardinality(job.names) \in Nat /\ Cardinality(left) \in Nat
          /\ Cardinality(job.names) <= Cardinality(Users)
      BY CountFacts DEF Types, Jobs
    <3>2. Cardinality(InFlight(Batch)) \in Nat
      <4>1. InFlight(Batch) = {} \/ \E f \in flight : InFlight(Batch) = {f}
        BY DEF Flights, InFlight
      <4> QED
        <5>1. CASE InFlight(Batch) = {}
          BY <5>1, CountFacts, {} \in SUBSET Users
        <5>2. ASSUME NEW f \in flight, InFlight(Batch) = {f}
              PROVE  Cardinality(InFlight(Batch)) = 1
          <6>1. Cardinality({f}) = 1
            BY FS_Singleton
          <6> QED
            BY <5>2, <6>1
        <5> QED
          BY <4>1, <5>1, <5>2
    <3>3. /\ job.processed \in Nat /\ job.confirmed \in Nat
          /\ job.rejected \in Nat /\ job.unknown \in Nat /\ applied \in Nat
      BY DEF Types, Jobs
    <3>4. job.processed <= Cardinality(Users)
      BY <2>1, <2>3, <3>1, <3>2, <3>3 DEF Counting
    <3> QED
      BY <2>1, <2>3, <3>3, <3>4 DEF Counting, Counts
  <2> QED
    BY <2>2, <2>3
<1>6. job \in [id : Tokens \cup {None, Scheduler},
               trigger : {"manual", "schedule"},
               state : {"none", "running", "completed", "stopped"},
               names : SUBSET Users, rev : 0..(MaxOps + 1), stop : BOOLEAN,
               processed : Counts, confirmed : Counts, rejected : Counts,
               unknown : Counts]
  BY <1>1, <1>5 DEF Types, Jobs, Revisions
<1>7. rev \in 1..(MaxOps + 1)
  BY BoundsAssumption DEF Types, Budget
<1> QED
  BY <1>2, <1>3, <1>4, <1>5, <1>6, <1>7 DEF TypeOK, Types, Places, Budget

\* The properties of the manager, read off the invariant.
LEMMA CoreSays ==
    ASSUME Core
    PROVE  /\ ExclusiveReset /\ TokenBeginsOnce /\ ConfirmedSelection
           /\ HonestCounts
<1> USE DEF Core
<1>1. ExclusiveReset
  <2> SUFFICES ASSUME NEW f \in flight, NEW g \in flight PROVE f = g
    BY DEF ExclusiveReset
  <2>1. f.by \in Callers \cup {Batch} /\ g.by \in Callers \cup {Batch}
    BY DEF Types
  <2>2. f.by = g.by
    BY <2>1 DEF Flights, Exclusion
  <2> QED
    BY <2>2 DEF Flights
<1>2. TokenBeginsOnce
  BY DEF Confirmations, TokenBeginsOnce
<1>3. ConfirmedSelection
  BY DEF Confirmations, ConfirmedSelection
<1>4. HonestCounts
  BY DEF Counting, HonestCounts, Types, Jobs
<1> QED
  BY <1>1, <1>2, <1>3, <1>4

\* The inductive invariant holds in every reachable state.
LEMMA ManagerInv == Spec => [](Core /\ Budget)
<1>1. Init => Core /\ Budget
  BY CoreInit, BudgetInit
<1>2. Core /\ Budget /\ [Next]_vars => Core' /\ Budget'
  BY InvNext
<1> QED
  BY <1>1, <1>2, PTL DEF Spec

\* Manager: whatever its callers, Telemt and the scheduler do, and across
\* restarts, every variable keeps its type; the counters stay within the number
\* of users.
THEOREM ManagerTypes == Spec => []TypeOK
<1>1. Core /\ Budget => TypeOK
  BY CoreTypeOK
<1> QED
  BY ManagerInv, <1>1, PTL

\* Manager.mu and its three flags: at most one reset request is ever in flight.
THEOREM ResetsExclude == Spec => []ExclusiveReset
<1>1. Core /\ Budget => ExclusiveReset
  BY CoreSays
<1> QED
  BY ManagerInv, <1>1, PTL

\* Start: a token begins at most one batch, however often it is sent and across
\* restarts of the panel.
THEOREM TokensBeginOnce == Spec => []TokenBeginsOnce
<1>1. Core /\ Budget => TokenBeginsOnce
  BY CoreSays
<1> QED
  BY ManagerInv, <1>1, PTL

\* Start: a manual batch works on exactly the users and the revision that
\* Prepare showed under its token.
THEOREM BatchesAreConfirmed == Spec => []ConfirmedSelection
<1>1. Core /\ Budget => ConfirmedSelection
  BY CoreSays
<1> QED
  BY ManagerInv, <1>1, PTL

\* run and classify: the counters of a batch agree with what Telemt did.
THEOREM CountsAreHonest == Spec => []HonestCounts
<1>1. Core /\ Budget => HonestCounts
  BY CoreSays
<1> QED
  BY ManagerInv, <1>1, PTL

\* Close: a closed manager begins no batch.
THEOREM ClosedStartsNothing == Spec => StartsNothingWhenClosed
<1>1. Core /\ [Next]_vars => [closed /\ closed' => (running' => running)]_vars
  <2> SUFFICES ASSUME Core, Next, closed, closed', running' PROVE running
    OBVIOUS
  <2>1. CASE job' = job
    BY <2>1 DEF running
  <2>2. CASE BatchAnswer
    BY <2>2 DEF BatchAnswer
  <2>3. CASE BatchCancelled
    BY <2>3 DEF BatchCancelled
  <2> QED
    BY <2>1, <2>2, <2>3
    DEF Next, Requests, Snapshots, Scheduled, BatchLoop, Environment,
        ReadSnapshot, SnapshotFails, Prepare, Prepared, Start, Started,
        SingleAnswer, ResetSingle, TickDue, TickDone, ExecuteScheduled,
        NotReserved, Reserved, BatchSend, RunFinish, Expire, Close, Restart,
        EditConfig, managerVars
<1> QED
  BY ManagerInv, <1>1, PTL DEF Spec, StartsNothingWhenClosed

-----------------------------------------------------------------------------
(***************************************************************************)
(* PART II. The scheduler (QuotaScheduler).                                *)
(***************************************************************************)

(***************************************************************************)
(* The inductive invariant.  Both records, the one in memory and the one a *)
(* restart would load, are sound at the current time: a rule that is on    *)
(* has a cursor, the cursor is a slot of the rule later than every         *)
(* selection so far, and no user's rule is newer than both the slot it     *)
(* waits for and its eligibility.                                          *)
(***************************************************************************)
Sound(r, t, sv) ==
    /\ r \in Records
    /\ \A k \in Keys : on(r, k) <=> r.cur[k].gen # 0
    /\ \A k \in Keys : on(r, k) =>
         /\ IsSlot(rule(r, k), r.zone, r.cur[k].next)
         /\ \A u \in Users : sv[u] < r.cur[k].next
    /\ \A u \in Users : r.since[u] <= t /\ r.changed[u] <= t
    /\ \A u \in Users : on(r, KeyOf(r, u)) =>
         r.changed[u] <= r.cur[KeyOf(r, u)].next \/ r.changed[u] <= r.since[u]

\* r is as new as s: a revision names one configuration.
Newer(r, s) == r.rev >= s.rev /\ (r.rev = s.rev => Config(r) = Config(s))

\* The variables of the scheduler.
Clocks ==
    /\ now \in 0..MaxTime /\ pend \in BOOLEAN /\ claims \in [Keys -> Cursors]
    /\ served \in [Users -> 0..MaxTime] /\ \A u \in Users : served[u] <= now

\* With the manager's invariant and LastIsHonest, all that the steps need.
SchedInv == /\ Core /\ Budget /\ Clocks
            /\ Sound(rec, now, served) /\ Sound(disk, now, served)
            /\ Newer(disk, rec) /\ LastIsHonest

-----------------------------------------------------------------------------
(* Slots.                                                                  *)

\* A natural number is a multiple of the period and a rest below it.
LEMMA DivMod ==
    ASSUME NEW p \in Nat \ {0}, NEW a \in Nat
    PROVE  /\ a % p \in 0..(p - 1)
           /\ \E q \in Nat : a = p * q + (a % p)
<1>1. a % p \in 0..(p - 1)
  BY SMT
<1>2. a = p * (a \div p) + (a % p)
  BY SMT
<1>3. a \div p \in Nat
  BY SMT
<1> QED
  BY <1>1, <1>2, <1>3

\* Multiples have no rest.
LEMMA Multiple == ASSUME NEW p \in Nat \ {0}, NEW q \in Nat PROVE (p * q) % p = 0
  BY SMT

\* Rule.Next returns a slot of the rule, strictly after t and at most a period
\* later.
LEMMA NextSlot ==
    ASSUME NEW p \in Nat \ {0}, NEW z \in Nat, NEW t \in Nat
    PROVE  /\ RuleNext(p, z, t) \in Nat
           /\ RuleNext(p, z, t) > t /\ RuleNext(p, z, t) <= t + p
           /\ IsSlot(p, z, RuleNext(p, z, t))
<1>1. t + z \in Nat
  OBVIOUS
<1>2. PICK q \in Nat : t + z = p * q + ((t + z) % p)
  BY <1>1, DivMod
<1>3. (t + z) % p \in 0..(p - 1)
  BY <1>1, DivMod
<1>4. /\ RuleNext(p, z, t) \in Nat
      /\ RuleNext(p, z, t) > t /\ RuleNext(p, z, t) <= t + p
  BY <1>3 DEF RuleNext
<1>5. RuleNext(p, z, t) + z = p * (q + 1)
  BY <1>2, <1>3 DEF RuleNext
<1>6. IsSlot(p, z, RuleNext(p, z, t))
  BY <1>5, q + 1 \in Nat, Multiple DEF IsSlot
<1> QED
  BY <1>4, <1>6

\* The next slot of a rule of the record.
LEMMA NextOfRule ==
    ASSUME NEW p \in Periods, NEW z \in Zones, NEW t \in 0..MaxTime
    PROVE  /\ RuleNext(p, z, t) \in Nat /\ RuleNext(p, z, t) > t
           /\ IsSlot(p, z, RuleNext(p, z, t))
<1>1. p \in Nat \ {0} /\ z \in Nat /\ t \in Nat
  BY PeriodsAssumption, TimeAssumption
<1> QED
  BY <1>1, NextSlot

\* Every key of a record has a rule and a cursor.
LEMMA KeyTypes ==
    ASSUME NEW r \in Records
    PROVE  /\ \A k \in Keys : /\ rule(r, k) \in Periods /\ r.cur[k] \in Cursors
                              /\ on(r, k) \in BOOLEAN
           /\ \A u \in Users : KeyOf(r, u) \in Keys
           /\ r.zone \in Zones /\ r.rev \in Nat
  BY DEF Records, Keys, rule, on, KeyOf

-----------------------------------------------------------------------------
(* The records that edits, reservations and results write.                 *)

\* A sound record stays sound as time passes.
LEMMA SoundLater ==
    ASSUME NEW r, NEW t \in 0..MaxTime, NEW w \in 0..MaxTime, NEW sv,
           t <= w, Sound(r, t, sv)
    PROVE  Sound(r, w, sv)
  BY TimeAssumption DEF Sound, Records

\* A cursor that is set now points to a slot after now.
LEMMA FreshCursor ==
    ASSUME Clocks, NEW p \in Periods, NEW z \in Zones, NEW g \in Nat, g # 0,
           NEW c, c = [next |-> RuleNext(p, z, now), gen |-> g]
    PROVE  /\ c \in Cursors /\ c.gen # 0 /\ c.next > now
           /\ IsSlot(p, z, c.next) /\ \A u \in Users : served[u] < c.next
<1>1. /\ now \in 0..MaxTime /\ now \in Nat
      /\ \A u \in Users : served[u] \in Nat /\ served[u] <= now
  BY TimeAssumption DEF Clocks
<1>2. c.next = RuleNext(p, z, now) /\ c.gen = g
  OBVIOUS
<1> QED
  BY <1>1, <1>2, NextOfRule DEF Cursors

\* SaveGlobal writes a sound record of a new revision.
LEMMA GlobalSound ==
    ASSUME Clocks, Sound(rec, now, served),
           NEW b \in BOOLEAN, NEW p \in Periods, NEW z \in Zones
    PROVE  /\ Sound(GlobalSaved(b, p, z), now, served)
           /\ GlobalSaved(b, p, z).rev = rec.rev + 1
           /\ GlobalSaved(b, p, z).last = rec.last
<1> DEFINE same == b = rec.on /\ p = rec.rule /\ z = rec.zone
           moved == z # rec.zone
           gen == rec.rev + 1
           global == IF same THEN rec.cur[Global]
                     ELSE IF b THEN [next |-> RuleNext(p, z, now), gen |-> gen]
                     ELSE NoCursor
           s == [u \in Users |->
                   IF moved /\ rec.mode[u] # "none" THEN now ELSE rec.since[u]]
           c == [k \in Keys |->
                   IF k = Global THEN global
                   ELSE IF moved /\ rec.mode[k] = "custom"
                   THEN [next |-> RuleNext(rec.urule[k], z, now), gen |-> gen]
                   ELSE rec.cur[k]]
           h == [u \in Users |->
                   IF moved \/ (~same /\ rec.mode[u] # "custom")
                   THEN now ELSE rec.changed[u]]
           r == GlobalSaved(b, p, z)
<1>1. /\ rec \in Records /\ now \in 0..MaxTime /\ gen \in Nat /\ gen # 0
      /\ now \in Nat
  BY TimeAssumption DEF Sound, Clocks, Records
<1>2. s \in [Users -> 0..MaxTime] /\ h \in [Users -> 0..MaxTime]
  BY <1>1 DEF Records
<1>3. global \in Cursors
  BY <1>1, NextOfRule, KeyTypes DEF Cursors, NoCursor, Keys
<1>4. \A k \in Users : [next |-> RuleNext(rec.urule[k], z, now), gen |-> gen]
                       \in Cursors
  <2> SUFFICES ASSUME NEW k \in Users
               PROVE  RuleNext(rec.urule[k], z, now) \in Nat
    BY <1>1 DEF Cursors
  <2>1. rec.urule[k] \in Periods
    BY <1>1 DEF Records
  <2> QED
    BY <1>1, <2>1, NextOfRule
<1>5. c \in [Keys -> Cursors]
  BY <1>1, <1>3, <1>4, KeyTypes DEF Keys
<1>6. r = [rec EXCEPT !.rev = gen, !.on = b, !.rule = p, !.zone = z,
                      !.since = s, !.cur = c, !.changed = h]
  BY DEF GlobalSaved
<1>7. /\ r \in Records
      /\ r.rev = gen /\ r.on = b /\ r.rule = p /\ r.zone = z
      /\ r.since = s /\ r.cur = c /\ r.changed = h
      /\ r.mode = rec.mode /\ r.urule = rec.urule /\ r.last = rec.last
  <2> HIDE DEF s, c, h, gen, r
  <2> QED
    BY <1>1, <1>2, <1>5, <1>6 DEF Records
<1> HIDE DEF r
<1>8. ASSUME NEW k \in Keys
      PROVE  /\ on(r, k) <=> r.cur[k].gen # 0
             /\ on(r, k) => /\ IsSlot(rule(r, k), r.zone, r.cur[k].next)
                            /\ \A u \in Users : served[u] < r.cur[k].next
  <2>1. CASE k = Global
    <3>1. CASE same
      BY <1>7, <2>1, <3>1 DEF Sound, on, rule
    <3>2. CASE ~same /\ ~b
      BY <1>7, <2>1, <3>2 DEF on, NoCursor
    <3>3. CASE ~same /\ b
      <4>1. r.cur[k] = [next |-> RuleNext(p, z, now), gen |-> gen]
        BY <1>7, <2>1, <3>3
      <4> QED
        <5>1. on(r, k) /\ rule(r, k) = p /\ r.zone = z
          BY <1>7, <2>1, <3>3 DEF on, rule
        <5> HIDE DEF gen
        <5>2. /\ r.cur[k].gen # 0 /\ IsSlot(p, z, r.cur[k].next)
              /\ \A u \in Users : served[u] < r.cur[k].next
          BY <1>1, <4>1, FreshCursor
        <5> QED
          BY <5>1, <5>2
    <3> QED
      BY <3>1, <3>2, <3>3
  <2>2. CASE k \in Users
    <3>1. k # Global /\ rec.urule[k] \in Periods
      BY <1>1, <2>2, KeysAssumption DEF Records
    <3>2. CASE moved /\ rec.mode[k] = "custom"
      <4>1. r.cur[k] = [next |-> RuleNext(rec.urule[k], z, now), gen |-> gen]
        BY <1>7, <3>1, <3>2
      <4> QED
        BY <1>1, <1>7, <3>1, <3>2, <4>1, FreshCursor DEF on, rule
    <3>3. CASE ~(moved /\ rec.mode[k] = "custom")
      <4>1. r.cur[k] = rec.cur[k]
        BY <1>7, <3>1, <3>3
      <4> QED
        BY <1>7, <3>1, <3>3, <4>1 DEF on, rule, Sound
    <3> QED
      BY <3>2, <3>3
  <2> QED
    BY <2>1, <2>2 DEF Keys
<1>9. ASSUME NEW u \in Users
      PROVE  /\ r.since[u] <= now /\ r.changed[u] <= now
             /\ on(r, KeyOf(r, u)) =>
                  \/ r.changed[u] <= r.cur[KeyOf(r, u)].next
                  \/ r.changed[u] <= r.since[u]
  <2>1. /\ r.since[u] <= now /\ r.changed[u] <= now
    BY <1>1, <1>7 DEF Sound
  <2>2. u # Global /\ KeyOf(r, u) = KeyOf(rec, u)
    BY <1>7, KeysAssumption DEF KeyOf
  <2>3. CASE rec.mode[u] = "custom"
    <3>1. KeyOf(r, u) = u /\ rec.urule[u] \in Periods
      BY <1>1, <2>2, <2>3 DEF KeyOf, Records
    <3>2. CASE moved
      <4>1. r.cur[u] = [next |-> RuleNext(rec.urule[u], z, now), gen |-> gen]
        BY <1>7, <2>2, <2>3, <3>2 DEF Keys
      <4> QED
        BY <1>1, <2>1, <3>1, <4>1, NextOfRule, <1>7 DEF Records
    <3>3. CASE ~moved
      <4>1. r.cur[u] = rec.cur[u] /\ r.changed[u] = rec.changed[u]
            /\ r.since[u] = rec.since[u]
        BY <1>7, <2>2, <2>3, <3>3 DEF Keys
      <4> QED
        <5>1. on(rec, KeyOf(rec, u)) /\ KeyOf(rec, u) = u
          BY <2>2, <2>3 DEF on, KeyOf
        <5> QED
          BY <2>2, <3>1, <4>1, <5>1 DEF Sound
    <3> QED
      BY <3>2, <3>3
  <2>4. CASE rec.mode[u] # "custom"
    <3>1. KeyOf(r, u) = Global /\ r.cur[Global] = global
      BY <1>7, <2>2, <2>4 DEF KeyOf, Keys
    <3>2. CASE same
      <4>1. r.cur[Global] = rec.cur[Global] /\ r.changed[u] = rec.changed[u]
            /\ r.since[u] = rec.since[u]
        BY <1>7, <3>1, <3>2, <2>4
      <4> QED
        BY <1>7, <2>2, <3>1, <3>2, <4>1 DEF Sound, on
    <3>3. CASE ~same /\ b
      <4>1. r.cur[Global] = [next |-> RuleNext(p, z, now), gen |-> gen]
        BY <3>1, <3>3
      <4> QED
        BY <1>1, <1>7, <2>1, <3>1, <4>1, NextOfRule DEF Records
    <3>4. CASE ~same /\ ~b
      <4>1. ~on(r, KeyOf(r, u))
        BY <1>7, <3>1, <3>4 DEF on
      <4> QED
        BY <2>1, <4>1
    <3> QED
      BY <3>2, <3>3, <3>4
  <2> QED
    BY <2>3, <2>4
<1> QED
  <2>1. /\ \A k \in Keys : on(r, k) <=> r.cur[k].gen # 0
        /\ \A k \in Keys : on(r, k) =>
             /\ IsSlot(rule(r, k), r.zone, r.cur[k].next)
             /\ \A u \in Users : served[u] < r.cur[k].next
    BY <1>8
  <2>2. /\ \A u \in Users : r.since[u] <= now /\ r.changed[u] <= now
        /\ \A u \in Users : on(r, KeyOf(r, u)) =>
             \/ r.changed[u] <= r.cur[KeyOf(r, u)].next
             \/ r.changed[u] <= r.since[u]
    BY <1>9
  <2>3. Sound(r, now, served)
    BY <1>7, <2>1, <2>2 DEF Sound
  <2> QED
    BY <1>7, <2>3 DEF r

\* r is the record in memory but for the rule of u, which has a fresh cursor if
\* it is a rule of its own and none if it is not.
Replaces(r, u) ==
    /\ r.since[u] <= now /\ r.changed[u] <= r.since[u]
    /\ IF r.mode[u] = "custom"
       THEN r.cur[u] = [next |-> RuleNext(r.urule[u], rec.zone, now),
                        gen |-> rec.rev + 1]
       ELSE r.cur[u] = NoCursor
    /\ r.on = rec.on /\ r.rule = rec.rule /\ r.zone = rec.zone
    /\ \A v \in Users \ {u} : /\ r.mode[v] = rec.mode[v]
                              /\ r.urule[v] = rec.urule[v]
                              /\ r.since[v] = rec.since[v]
                              /\ r.changed[v] = rec.changed[v]
    /\ \A k \in Keys \ {u} : r.cur[k] = rec.cur[k]

\* A record that differs from a sound one in one user's rule is sound.
LEMMA OneUserSound ==
    ASSUME Clocks, Sound(rec, now, served), NEW r \in Records, NEW u \in Users,
           Replaces(r, u)
    PROVE  Sound(r, now, served)
<1> USE DEF Replaces
<1>1. /\ rec \in Records /\ now \in 0..MaxTime /\ now \in Nat
      /\ rec.rev + 1 \in Nat /\ rec.rev + 1 # 0
  BY TimeAssumption DEF Sound, Clocks, Records
<1>2. /\ u # Global /\ u \in Keys /\ Global \in Keys /\ r.urule[u] \in Periods
      /\ r.zone \in Zones /\ r.since[u] \in Nat /\ r.changed[u] \in Nat
  BY KeysAssumption, TimeAssumption DEF Keys, Records
<1>5. \A k \in Keys \ {u} : /\ on(r, k) <=> on(rec, k)
                            /\ rule(r, k) = rule(rec, k)
  BY <1>1, <1>2 DEF on, rule, Keys
<1>6. /\ on(r, u) <=> r.mode[u] = "custom"
      /\ rule(r, u) = r.urule[u]
  BY <1>2 DEF on, rule
<1>7. /\ r.mode[u] = "custom" =>
           /\ r.cur[u].gen # 0 /\ IsSlot(r.urule[u], r.zone, r.cur[u].next)
           /\ \A v \in Users : served[v] < r.cur[u].next
      /\ r.mode[u] # "custom" => r.cur[u].gen = 0
  <2>1. CASE r.mode[u] = "custom"
    BY <1>1, <1>2, <2>1, FreshCursor
  <2>2. CASE r.mode[u] # "custom"
    BY <2>2 DEF NoCursor
  <2> QED
    BY <2>1, <2>2
<1>8. \A k \in Keys : on(r, k) <=> r.cur[k].gen # 0
  <2> SUFFICES ASSUME NEW k \in Keys PROVE on(r, k) <=> r.cur[k].gen # 0
    OBVIOUS
  <2>1. CASE k = u
    BY <1>6, <1>7, <2>1
  <2>2. CASE k # u
    BY <1>5, <2>2 DEF Sound
  <2> QED
    BY <2>1, <2>2
<1>9. \A k \in Keys : on(r, k) => /\ IsSlot(rule(r, k), r.zone, r.cur[k].next)
                                  /\ \A v \in Users : served[v] < r.cur[k].next
  <2> SUFFICES ASSUME NEW k \in Keys, on(r, k)
               PROVE  /\ IsSlot(rule(r, k), r.zone, r.cur[k].next)
                      /\ \A v \in Users : served[v] < r.cur[k].next
    OBVIOUS
  <2>1. CASE k = u
    BY <1>6, <1>7, <2>1
  <2>2. CASE k # u
    BY <1>5, <2>2 DEF Sound
  <2> QED
    BY <2>1, <2>2
<1>10. \A v \in Users : r.since[v] <= now /\ r.changed[v] <= now
  <2> SUFFICES ASSUME NEW v \in Users
               PROVE  r.since[v] <= now /\ r.changed[v] <= now
    OBVIOUS
  <2>1. CASE v = u
    BY <1>1, <1>2, <2>1
  <2>2. CASE v # u
    BY <2>2 DEF Sound
  <2> QED
    BY <2>1, <2>2
<1>11. ASSUME NEW v \in Users, on(r, KeyOf(r, v))
       PROVE  \/ r.changed[v] <= r.cur[KeyOf(r, v)].next
              \/ r.changed[v] <= r.since[v]
  <2>1. CASE v = u
    BY <1>1, <2>1
  <2>2. CASE v # u
    <3>1. KeyOf(r, v) = KeyOf(rec, v) /\ KeyOf(r, v) \in Keys \ {u}
      BY <1>2, <2>2 DEF KeyOf, Keys
    <3>2. on(rec, KeyOf(rec, v)) /\ r.cur[KeyOf(r, v)] = rec.cur[KeyOf(rec, v)]
      BY <1>5, <1>11, <3>1
    <3> QED
      BY <2>2, <3>2 DEF Sound
  <2> QED
    BY <2>1, <2>2
<1> QED
  BY <1>8, <1>9, <1>10, <1>11 DEF Sound

\* SaveUser writes a sound record of a new revision.
LEMMA UserSound ==
    ASSUME Clocks, Sound(rec, now, served), NEW u \in Users,
           NEW m \in {"inherit", "off", "custom"}, NEW p \in Periods
    PROVE  /\ Sound(UserSaved(u, m, p), now, served)
           /\ UserSaved(u, m, p).rev = rec.rev + 1
           /\ UserSaved(u, m, p).last = rec.last
<1> DEFINE w == IF m = "custom" THEN p ELSE rec.rule
           g == rec.rev + 1
           c == IF m = "custom"
                THEN [next |-> RuleNext(p, rec.zone, now), gen |-> g]
                ELSE NoCursor
           r == UserSaved(u, m, p)
<1>1. /\ rec \in Records /\ now \in 0..MaxTime /\ g \in Nat /\ w \in Periods
      /\ rec.zone \in Zones /\ now \in Nat
  BY TimeAssumption DEF Sound, Clocks, Records
<1>2. c \in Cursors
  BY <1>1, NextOfRule DEF Cursors, NoCursor
<1>3. r = [rec EXCEPT !.rev = g, !.mode[u] = m, !.urule[u] = w,
                      !.since[u] = now, !.changed[u] = now, !.cur[u] = c]
  BY DEF UserSaved
<1>4. /\ r \in Records /\ r.rev = g /\ r.on = rec.on /\ r.rule = rec.rule
      /\ r.zone = rec.zone /\ r.last = rec.last
      /\ r.mode[u] = m /\ r.urule[u] = w /\ r.since[u] = now
      /\ r.changed[u] = now /\ r.cur[u] = c
  <2> HIDE DEF g, w, c, r
  <2> QED
    BY <1>1, <1>2, <1>3 DEF Records, Keys
<1>5. /\ \A v \in Users \ {u} : /\ r.mode[v] = rec.mode[v]
                                /\ r.urule[v] = rec.urule[v]
                                /\ r.since[v] = rec.since[v]
                                /\ r.changed[v] = rec.changed[v]
      /\ \A k \in Keys \ {u} : r.cur[k] = rec.cur[k]
  <2> HIDE DEF g, w, c, r
  <2> QED
    BY <1>1, <1>2, <1>3 DEF Records, Keys
<1>6. IF r.mode[u] = "custom"
      THEN r.cur[u] = [next |-> RuleNext(r.urule[u], rec.zone, now),
                       gen |-> rec.rev + 1]
      ELSE r.cur[u] = NoCursor
  BY <1>4
<1> HIDE DEF c, r
<1>7. Replaces(r, u)
  BY <1>1, <1>4, <1>5, <1>6 DEF Replaces
<1>8. Sound(r, now, served)
  BY <1>4, <1>7, OneUserSound
<1> QED
  BY <1>4, <1>8 DEF r

\* ForgetUser writes a sound record of a new revision.
LEMMA ForgottenSound ==
    ASSUME Clocks, Sound(rec, now, served), NEW u \in Users
    PROVE  /\ Sound(Forgotten(u), now, served)
           /\ Forgotten(u).rev = rec.rev + 1
           /\ Forgotten(u).last = rec.last
<1> DEFINE g == rec.rev + 1
           r == Forgotten(u)
<1>1. /\ rec \in Records /\ now \in Nat /\ g \in Nat
      /\ 0 \in 0..MaxTime /\ NoCursor \in Cursors
  BY TimeAssumption DEF Sound, Clocks, Records, Cursors, NoCursor
<1>2. r = [rec EXCEPT !.rev = g, !.mode[u] = "none", !.since[u] = 0,
                      !.changed[u] = 0, !.cur[u] = NoCursor]
  BY DEF Forgotten
<1>3. /\ r \in Records /\ r.rev = g /\ r.on = rec.on /\ r.rule = rec.rule
      /\ r.zone = rec.zone /\ r.last = rec.last
      /\ r.mode[u] = "none" /\ r.since[u] = 0
      /\ r.changed[u] = 0 /\ r.cur[u] = NoCursor
  <2> HIDE DEF g, r
  <2> QED
    BY <1>1, <1>2 DEF Records, Keys
<1>4. /\ \A v \in Users \ {u} : /\ r.mode[v] = rec.mode[v]
                                /\ r.urule[v] = rec.urule[v]
                                /\ r.since[v] = rec.since[v]
                                /\ r.changed[v] = rec.changed[v]
      /\ \A k \in Keys \ {u} : r.cur[k] = rec.cur[k]
  <2> HIDE DEF g, r
  <2> QED
    BY <1>1, <1>2 DEF Records, Keys
<1> HIDE DEF r
<1>5. Replaces(r, u)
  BY <1>1, <1>3, <1>4 DEF Replaces
<1>6. Sound(r, now, served)
  BY <1>3, <1>5, OneUserSound
<1> QED
  BY <1>3, <1>6 DEF r

\* r is the record in memory but for cursors that moved to the next slot.
Advances(r) ==
    /\ r.rev = rec.rev /\ Config(r) = Config(rec) /\ r.changed = rec.changed
    /\ \A k \in Keys :
         /\ r.cur[k].gen = rec.cur[k].gen
         /\ \/ r.cur[k].next = rec.cur[k].next
            \/ /\ r.cur[k].next = RuleNext(rule(rec, k), rec.zone, now)
               /\ r.cur[k].next >= rec.cur[k].next

\* A sound record whose cursors advance stays sound, as long as they advance past
\* every selection.
LEMMA AdvancedSound ==
    ASSUME Clocks, Sound(rec, now, served), NEW r \in Records, Advances(r), NEW sv,
           \A k \in Keys : on(r, k) => \A u \in Users : sv[u] < r.cur[k].next
    PROVE  Sound(r, now, sv)
<1>1. /\ rec \in Records /\ now \in 0..MaxTime
  BY DEF Sound, Clocks
<1>2. /\ r.on = rec.on /\ r.rule = rec.rule /\ r.zone = rec.zone
      /\ r.mode = rec.mode /\ r.urule = rec.urule /\ r.since = rec.since
      /\ r.changed = rec.changed
  BY DEF Advances, Config
<1>3. /\ \A k \in Keys : (on(r, k) <=> on(rec, k)) /\ rule(r, k) = rule(rec, k)
      /\ \A u \in Users : KeyOf(r, u) = KeyOf(rec, u)
  BY <1>2 DEF on, rule, KeyOf
<1>4. \A k \in Keys : on(r, k) <=> r.cur[k].gen # 0
  BY <1>3 DEF Sound, Advances
<1>5. ASSUME NEW k \in Keys, on(r, k)
      PROVE  IsSlot(rule(r, k), r.zone, r.cur[k].next)
  <2>1. CASE r.cur[k].next = rec.cur[k].next
    BY <1>2, <1>3, <1>5, <2>1 DEF Sound
  <2>2. CASE r.cur[k].next = RuleNext(rule(rec, k), rec.zone, now)
    BY <1>1, <1>2, <1>3, <2>2, KeyTypes, NextOfRule
  <2> QED
    BY <2>1, <2>2 DEF Advances
<1>6. \A u \in Users : r.since[u] <= now /\ r.changed[u] <= now
  BY <1>2 DEF Sound
<1>7. ASSUME NEW u \in Users, on(r, KeyOf(r, u))
      PROVE  \/ r.changed[u] <= r.cur[KeyOf(r, u)].next
             \/ r.changed[u] <= r.since[u]
  <2> DEFINE k == KeyOf(rec, u)
  <2>1. k \in Keys /\ on(rec, k) /\ KeyOf(r, u) = k
    BY <1>1, <1>3, <1>7, KeyTypes
  <2>2. \/ rec.changed[u] <= rec.cur[k].next
        \/ rec.changed[u] <= rec.since[u]
    BY <2>1 DEF Sound
  <2> HIDE DEF k
  <2>3. /\ rec.changed[u] \in Nat /\ rec.cur[k].next \in Nat
        /\ r.cur[k].next \in Nat
    BY <1>1, <2>1, TimeAssumption DEF Records, Cursors
  <2>4. r.cur[k].next >= rec.cur[k].next
    BY <2>1, <2>3 DEF Advances
  <2> QED
    BY <1>2, <2>1, <2>2, <2>3, <2>4
<1> QED
  BY <1>4, <1>5, <1>6, <1>7 DEF Sound

\* The reservation advances every due cursor past the current time, and so past
\* the selection made with it.
LEMMA ReservationSound ==
    ASSUME Clocks, Sound(rec, now, served), NEW sv, \A u \in Users : sv[u] \in 0..now
    PROVE  /\ Sound(Reservation, now, sv) /\ Newer(Reservation, rec)
           /\ Reservation.rev = rec.rev /\ Config(Reservation) = Config(rec)
           /\ Reservation.last = IF Selected = {} THEN "skipped" ELSE "running"
<1> DEFINE c == [k \in Keys |->
                   IF k \in Claimed
                   THEN [rec.cur[k] EXCEPT !.next = RuleNext(rule(rec, k), rec.zone, now)]
                   ELSE rec.cur[k]]
           l == IF Selected = {} THEN "skipped" ELSE "running"
           r == Reservation
<1>1. /\ rec \in Records /\ now \in 0..MaxTime /\ now \in Nat
  BY TimeAssumption DEF Sound, Clocks
<1>2. ASSUME NEW k \in Keys
      PROVE  /\ rec.cur[k] \in Cursors /\ rule(rec, k) \in Periods
             /\ RuleNext(rule(rec, k), rec.zone, now) \in Nat
             /\ RuleNext(rule(rec, k), rec.zone, now) > now
  BY <1>1, KeyTypes, NextOfRule
<1>3. ASSUME NEW k \in Keys
      PROVE  /\ c[k] \in Cursors /\ c[k].gen = rec.cur[k].gen
             /\ k \in Claimed => c[k].next = RuleNext(rule(rec, k), rec.zone, now)
             /\ k \notin Claimed => c[k].next = rec.cur[k].next
  <2>1. CASE k \in Claimed
    BY <1>2, <2>1 DEF Cursors
  <2>2. CASE k \notin Claimed
    BY <1>2, <2>2
  <2> QED
    BY <2>1, <2>2
<1>4. c \in [Keys -> Cursors]
  BY <1>3
<1>5. r = [rec EXCEPT !.cur = c, !.last = l]
  BY DEF Reservation
<1>6. /\ r \in Records /\ r.cur = c /\ r.last = l
      /\ r.rev = rec.rev /\ Config(r) = Config(rec) /\ r.changed = rec.changed
  <2>1. l \in {"none", "running", "skipped", "interrupted", "finished"}
    OBVIOUS
  <2> HIDE DEF c, l, r
  <2> QED
    BY <1>1, <1>4, <1>5, <2>1 DEF Records, Config
<1> HIDE DEF c, r
<1>7. Advances(r)
  BY <1>1, <1>2, <1>3, <1>6 DEF Advances, Claimed, IsDue, Cursors
<1>8. ASSUME NEW k \in Keys, on(r, k), NEW u \in Users
      PROVE  sv[u] < r.cur[k].next
  <2>1. on(rec, k) /\ rec.cur[k].gen # 0
    BY <1>6, <1>8 DEF Config, on, Sound
  <2>2. r.cur[k].next > now
    BY <1>1, <1>2, <1>3, <1>6, <2>1 DEF Claimed, IsDue, Cursors
  <2> QED
    BY <1>1, <1>3, <1>6, <2>2 DEF Cursors
<1>9. Sound(r, now, sv)
  BY <1>6, <1>7, <1>8, AdvancedSound
<1> QED
  BY <1>1, <1>6, <1>9 DEF r, Newer, Records

\* The result of a run advances claimed cursors or leaves them.
LEMMA FinishedSound ==
    ASSUME Clocks, Sound(rec, now, served)
    PROVE  /\ Sound(Finished, now, served) /\ Newer(Finished, rec)
           /\ Finished.rev = rec.rev /\ Config(Finished) = Config(rec)
           /\ Finished.last = "finished"
<1> DEFINE N(k) == RuleNext(rule(rec, k), rec.zone, now)
           G(k) == /\ claims[k].gen # 0 /\ rec.cur[k].gen = claims[k].gen
                   /\ on(rec, k) /\ N(k) > rec.cur[k].next
           c == [k \in Keys |-> IF G(k) THEN [rec.cur[k] EXCEPT !.next = N(k)]
                                ELSE rec.cur[k]]
           r == Finished
<1>1. /\ rec \in Records /\ now \in 0..MaxTime
  BY DEF Sound, Clocks
<1>2. ASSUME NEW k \in Keys
      PROVE  rec.cur[k] \in Cursors /\ N(k) \in Nat
  BY <1>1, KeyTypes, NextOfRule
<1>3. ASSUME NEW k \in Keys
      PROVE  /\ c[k] \in Cursors /\ c[k].gen = rec.cur[k].gen
             /\ \/ c[k].next = rec.cur[k].next
                \/ c[k].next = N(k) /\ c[k].next >= rec.cur[k].next
  <2>1. CASE G(k)
    BY <1>2, <2>1 DEF Cursors
  <2>2. CASE ~G(k)
    BY <1>2, <2>2
  <2> QED
    BY <2>1, <2>2
<1>4. c \in [Keys -> Cursors]
  BY <1>3
<1>5. r = [rec EXCEPT !.cur = c, !.last = "finished"]
  BY DEF Finished
<1>6. /\ r \in Records /\ r.cur = c /\ r.last = "finished"
      /\ r.rev = rec.rev /\ Config(r) = Config(rec) /\ r.changed = rec.changed
  <2> HIDE DEF c, r
  <2> QED
    BY <1>1, <1>4, <1>5 DEF Records, Config
<1> HIDE DEF c, r
<1>7. Advances(r)
  BY <1>3, <1>6 DEF Advances
<1>8. ASSUME NEW k \in Keys, on(r, k), NEW u \in Users
      PROVE  served[u] < r.cur[k].next
  <2>1. on(rec, k)
    BY <1>6, <1>8 DEF Config, on
  <2>2. served[u] < rec.cur[k].next /\ served[u] \in Nat
    BY <2>1, TimeAssumption DEF Sound, Clocks
  <2>3. /\ rec.cur[k].next \in Nat /\ r.cur[k].next \in Nat
        /\ r.cur[k].next >= rec.cur[k].next
    BY <1>2, <1>3, <1>6 DEF Cursors
  <2> QED
    BY <2>2, <2>3
<1>9. Sound(r, now, served)
  BY <1>6, <1>7, <1>8, AdvancedSound
<1> QED
  BY <1>1, <1>6, <1>9 DEF r, Newer, Records

\* A record read back by NewScheduler is as sound as it was.
LEMMA LoadedSound ==
    ASSUME NEW t, NEW sv, NEW d, Sound(d, t, sv), NEW r,
           r = [d EXCEPT !.last = IF @ = "running" THEN "interrupted" ELSE @]
    PROVE  /\ Sound(r, t, sv) /\ r.rev = d.rev /\ Config(r) = Config(d)
           /\ r.last # "running"
<1>1. d \in Records
  BY DEF Sound
<1>2. /\ r \in Records /\ r.rev = d.rev /\ Config(r) = Config(d)
      /\ r.cur = d.cur /\ r.changed = d.changed /\ r.last # "running"
  <2>1. CASE d.last = "running"
    <3>1. r = [d EXCEPT !.last = "interrupted"]
      BY <2>1
    <3> QED
      BY <1>1, <3>1 DEF Records, Config
  <2>2. CASE d.last # "running"
    <3>1. r = [d EXCEPT !.last = d.last]
      BY <2>2
    <3> QED
      BY <1>1, <2>2, <3>1 DEF Records, Config
  <2> QED
    BY <2>1, <2>2
<1>3. /\ r.on = d.on /\ r.rule = d.rule /\ r.zone = d.zone
      /\ r.mode = d.mode /\ r.urule = d.urule /\ r.since = d.since
  BY <1>2 DEF Config
<1>4. /\ \A k \in Keys : (on(r, k) <=> on(d, k)) /\ rule(r, k) = rule(d, k)
      /\ \A u \in Users : KeyOf(r, u) = KeyOf(d, u)
  BY <1>3 DEF on, rule, KeyOf
<1>5. \A u \in Users : KeyOf(d, u) \in Keys
  BY <1>1, KeyTypes
<1>6. Sound(r, t, sv)
  BY <1>2, <1>3, <1>4, <1>5 DEF Sound
<1> QED
  BY <1>2, <1>6

-----------------------------------------------------------------------------
(* Writing a record.                                                       *)

\* What a step that writes a sound record r leaves in memory and on disk.
Written(r) ==
    \/ rec' = r /\ disk' = r
    \/ rec' = rec /\ disk' \in {disk, r}

\* The records stay sound, and the one on disk as new as the one in memory,
\* whether the write succeeds, fails, or fails after it was published.
LEMMA WrittenSound ==
    ASSUME Sound(rec, now, served), Sound(disk, now, served), Newer(disk, rec),
           NEW r, Sound(r, now, served), Newer(r, rec), Written(r)
    PROVE  /\ Sound(rec', now, served) /\ Sound(disk', now, served)
           /\ Newer(disk', rec') /\ Newer(rec', rec)
<1>1. /\ rec.rev \in Nat /\ r.rev \in Nat
  BY DEF Sound, Records
<1>2. CASE rec' = r /\ disk' = r
  BY <1>1, <1>2 DEF Newer
<1>3. CASE rec' = rec /\ disk' \in {disk, r}
  BY <1>1, <1>3 DEF Newer
<1> QED
  BY <1>2, <1>3 DEF Written

-----------------------------------------------------------------------------
(* Every step keeps the invariant.                                         *)

\* A step that touches no variable of the manager keeps its invariant.
LEMMA CoreStutter ==
    ASSUME Core, UNCHANGED <<managerVars, telemtVars, historyVars>>
    PROVE  Core'
  BY DEF Core, Types, Places, Exclusion, Flights, Confirmations, Counting,
         Revisions, InFlight, running, managerVars, telemtVars, historyVars

\* So do the steps of the scheduler that call it.
LEMMA CoreKept == ASSUME Core, SchedNext PROVE Core'
<1>1. CASE Edits
  BY <1>1, CoreStutter
  DEF Edits, SaveGlobal, SaveUser, ForgetUser, Edit
<1>2. CASE Tick
  <2>1. CASE UNCHANGED call
    <3>1. UNCHANGED <<managerVars, telemtVars, historyVars>>
      BY <1>2, <2>1 DEF Tick, managerVars
    <3> QED
      BY <3>1, CoreStutter
  <2>2. CASE call' = [call EXCEPT ![Scheduler] = "due"]
    <3>1. TickDue
      BY <1>2, <2>2 DEF Tick, TickDue
    <3> QED
      BY <3>1, CoreStep DEF Acts
  <2> QED
    BY <1>2, <2>1, <2>2 DEF Tick
<1>3. CASE Reserve
  <2>1. Selected \in SUBSET Users
    BY DEF Selected, Core, Types, Lists
  <2>2. Reserved(Selected) \/ NotReserved
    BY <1>3 DEF Reserve
  <2> QED
    BY <2>1, <2>2, CoreStep DEF Acts
<1>4. CASE FinishRun
  BY <1>4, CoreStep DEF FinishRun, Acts
<1>5. CASE NewScheduler
  BY <1>5, CoreStep DEF NewScheduler, Acts
<1>6. CASE Clock
  BY <1>6, CoreStutter DEF Clock, vars
<1>7. CASE ManagerStep
  <2>1. Acts
    BY <1>7 DEF ManagerStep, Requests, Snapshots, BatchLoop, Environment, Acts
  <2> QED
    BY <2>1, CoreStep
<1> QED
  BY <1>1, <1>2, <1>3, <1>4, <1>5, <1>6, <1>7 DEF SchedNext

\* The budgets are spent one at a time.
LEMMA BudgetKept == ASSUME Core, Budget, SchedNext PROVE Budget'
<1>1. /\ ops' = ops \/ (ops < MaxOps /\ ops' = ops + 1)
      /\ faults' = faults \/ (faults < MaxFaults /\ faults' = faults + 1)
      /\ rev' = rev \/ (rev' = rev + 1 /\ ops' = ops + 1)
  <2>1. CASE Edits
    BY <2>1 DEF Edits, SaveGlobal, SaveUser, ForgetUser, Edit, Op, save,
      saveFails, NoFault, Fault, telemtVars
  <2>2. CASE Tick
    BY <2>2 DEF Tick, save, saveFails, NoFault, Fault, telemtVars
  <2>3. CASE Reserve
    BY <2>3 DEF Reserve, Reserved, NotReserved, save, saveFails, NoFault, Fault,
      telemtVars
  <2>4. CASE FinishRun
    BY <2>4 DEF FinishRun, TickDone, save, saveFails, NoFault, Fault, telemtVars
  <2>5. CASE NewScheduler
    BY <2>5 DEF NewScheduler, Restart, NoFault, Fault, telemtVars
  <2>6. CASE Clock
    BY <2>6 DEF Clock, vars, telemtVars
  <2>7. CASE ManagerStep
    <3>1. CASE Requests
      BY <3>1 DEF Requests, Prepare, Prepared, Start, Started, SingleAnswer,
        ResetSingle, Op, telemtVars
    <3>2. CASE Snapshots
      BY <3>2 DEF Snapshots, ReadSnapshot, SnapshotFails, Fault, telemtVars
    <3>3. CASE ExecuteScheduled
      BY <3>3 DEF ExecuteScheduled, telemtVars
    <3>4. CASE BatchLoop
      BY <3>4 DEF BatchLoop, BatchSend, BatchCancelled, BatchAnswer, classify,
        NoFault, Fault, telemtVars
    <3>5. CASE RunFinish
      BY <3>5 DEF RunFinish, telemtVars
    <3>6. CASE Environment
      BY <3>6 DEF Environment, Expire, EditConfig, Op, telemtVars
    <3>7. CASE Close
      BY <3>7 DEF Close, Fault, telemtVars
    <3> QED
      BY <2>7, <3>1, <3>2, <3>3, <3>4, <3>5, <3>6, <3>7 DEF ManagerStep
  <2> QED
    BY <2>1, <2>2, <2>3, <2>4, <2>5, <2>6, <2>7 DEF SchedNext
<1>2. rev \in Nat
  BY DEF Core, Types
<1> QED
  BY <1>1, <1>2, BoundsAssumption DEF Budget

\* The records stay sound and revisions never go back, whatever is written, lost
\* or read back.
LEMMA RecordsKept ==
    ASSUME SchedInv, SchedNext
    PROVE  /\ Clocks' /\ Sound(rec', now', served') /\ Sound(disk', now', served')
           /\ Newer(disk', rec') /\ Newer(rec', rec)
<1> USE DEF SchedInv
<1>1. ASSUME NEW r, Sound(r, now, served), Newer(r, rec), Written(r),
             UNCHANGED <<now, served>>, claims' \in [Keys -> Cursors],
             pend' \in BOOLEAN
      PROVE  /\ Clocks' /\ Sound(rec', now', served') /\ Sound(disk', now', served')
             /\ Newer(disk', rec') /\ Newer(rec', rec)
  <2>1. Clocks'
    BY <1>1 DEF Clocks
  <2>2. now' = now /\ served' = served
    BY <1>1
  <2>3. /\ Sound(rec', now, served) /\ Sound(disk', now, served)
        /\ Newer(disk', rec') /\ Newer(rec', rec)
    BY <1>1, WrittenSound
  <2> QED
    BY <2>1, <2>2, <2>3
<1>2. Newer(rec, rec) /\ rec.rev \in Nat /\ disk.rev \in Nat
      /\ NoClaims \in [Keys -> Cursors]
  BY DEF Sound, Records, Newer, NoClaims, NoCursor, Cursors
<1>3. CASE UNCHANGED <<rec, disk, now, served, claims, pend>>
  <2>1. Written(rec)
    BY <1>3 DEF Written
  <2> QED
    BY <1>1, <1>2, <1>3, <2>1 DEF Clocks
<1>4. CASE Edits
  <2>1. ASSUME NEW r, Edit(r), Sound(r, now, served), r.rev = rec.rev + 1
        PROVE  /\ Clocks' /\ Sound(rec', now', served')
               /\ Sound(disk', now', served')
               /\ Newer(disk', rec') /\ Newer(rec', rec)
    <3>1. Newer(r, rec)
      BY <1>2, <2>1 DEF Newer
    <3>2. Written(r) /\ UNCHANGED <<now, served, claims, pend>>
      BY <2>1 DEF Edit, Written, save, saveFails
    <3> QED
      BY <1>1, <2>1, <3>1, <3>2 DEF Clocks
  <2>2. CASE \E b \in BOOLEAN, p \in Periods, z \in Zones : SaveGlobal(b, p, z)
    BY <2>1, <2>2, GlobalSound DEF SaveGlobal
  <2>3. CASE \E u \in Users, m \in {"inherit", "off", "custom"}, p \in Periods :
               SaveUser(u, m, p)
    BY <2>1, <2>3, UserSound DEF SaveUser
  <2>4. CASE \E u \in Users : ForgetUser(u)
    BY <2>1, <2>4, ForgottenSound DEF ForgetUser
  <2> QED
    BY <1>4, <2>2, <2>3, <2>4 DEF Edits
<1>5. CASE Tick
  <2>1. CASE pend
    <3>1. /\ Written(Finished) /\ UNCHANGED <<now, served>>
          /\ claims' \in {claims, NoClaims} /\ pend' \in {pend, FALSE}
      BY <1>5, <2>1 DEF Tick, Written, save, saveFails
    <3> QED
      BY <1>1, <1>2, <3>1, FinishedSound DEF Clocks
  <2>2. CASE ~pend
    BY <1>3, <1>5, <2>2 DEF Tick
  <2> QED
    BY <2>1, <2>2
<1>6. CASE FinishRun
  <2>1. /\ Written(Finished) /\ UNCHANGED <<now, served>>
        /\ claims' \in {claims, NoClaims} /\ pend' \in BOOLEAN
    BY <1>6 DEF FinishRun, Written, save, saveFails
  <2> QED
    BY <1>1, <1>2, <2>1, FinishedSound DEF Clocks
<1>7. CASE Reserve
  <2>1. CASE NotReserved /\ UNCHANGED <<now, claims, pend, served>>
    <3>1. Written(Reservation) \/ UNCHANGED <<rec, disk>>
      BY <1>7, <2>1 DEF Reserve, Written, save, saveFails
    <3>2. \A u \in Users : served[u] \in 0..now
      BY TimeAssumption DEF Clocks
    <3>3. Sound(Reservation, now, served) /\ Newer(Reservation, rec)
      BY <3>2, ReservationSound
    <3> QED
      BY <1>1, <1>3, <2>1, <3>1, <3>3 DEF Clocks
  <2>2. CASE /\ Reserved(Selected) /\ rec' = Reservation /\ disk' = Reservation
             /\ served' = [u \in Users |-> IF u \in Selected THEN now
                                           ELSE served[u]]
             /\ claims' = [k \in Keys |-> IF k \in Claimed /\ Selected # {}
                                          THEN rec.cur[k] ELSE NoCursor]
             /\ UNCHANGED <<now, pend>>
    <3>1. \A u \in Users : served'[u] \in 0..now
      BY <2>2, TimeAssumption DEF Clocks
    <3>2. /\ Sound(Reservation, now, served') /\ Newer(Reservation, rec)
          /\ Reservation.rev = rec.rev
      BY <3>1, ReservationSound
    <3>3. claims' \in [Keys -> Cursors]
      BY <2>2 DEF Sound, Records, NoCursor, Cursors
    <3>4. Clocks'
      BY <2>2, <3>1, <3>3, TimeAssumption DEF Clocks
    <3>5. Newer(Reservation, Reservation)
      BY <1>2, <3>2 DEF Newer
    <3>6. now' = now
      BY <2>2
    <3> QED
      BY <2>2, <3>2, <3>4, <3>5, <3>6
  <2> QED
    BY <1>7, <2>1, <2>2 DEF Reserve, save
<1>8. CASE NewScheduler
  <2>1. /\ Sound(rec', now, served) /\ rec'.rev = disk.rev
        /\ Config(rec') = Config(disk)
    BY <1>8, LoadedSound DEF NewScheduler
  <2>2. now' = now /\ served' = served /\ disk' = disk
    BY <1>8 DEF NewScheduler
  <2>3. Clocks'
    BY <1>2, <1>8 DEF NewScheduler, Clocks
  <2>4. Newer(rec', rec) /\ Newer(disk', rec')
    BY <1>2, <2>1, <2>2 DEF Newer
  <2> QED
    BY <2>1, <2>2, <2>3, <2>4
<1>9. CASE Clock
  <2>1. now' = now + 1 /\ now < MaxTime /\ UNCHANGED schedVars
    BY <1>9 DEF Clock
  <2>2. now' \in 0..MaxTime /\ now <= now' /\ now \in 0..MaxTime
    BY <2>1, TimeAssumption DEF Clocks
  <2>3. rec' = rec /\ disk' = disk /\ served' = served
    BY <2>1 DEF schedVars
  <2>4. Sound(rec, now', served) /\ Sound(disk, now', served)
    BY <2>2, SoundLater
  <2>5. Clocks'
    BY <2>1, <2>2, TimeAssumption DEF Clocks, schedVars
  <2> QED
    BY <1>2, <2>3, <2>4, <2>5
<1>10. CASE ManagerStep
  BY <1>3, <1>10 DEF ManagerStep, schedVars
<1> QED
  BY <1>4, <1>5, <1>6, <1>7, <1>8, <1>9, <1>10 DEF SchedNext

\* Only the scheduler moves the scheduler on: no other call ends its run.
LEMMA RunsOn ==
    ASSUME Core, ManagerStep, call[Scheduler] \in {"running", "finished"}
    PROVE  call'[Scheduler] \in {"running", "finished"}
<1> USE CallersAssumption DEF Core, Types, Places
<1>1. CASE Requests
  BY <1>1 DEF Requests, Prepare, Prepared, Start, Started, SingleAnswer,
    ResetSingle, BeginCheck, EndCheck
<1>2. CASE Snapshots
  BY <1>2 DEF Snapshots, ReadSnapshot, SnapshotFails, EndCheck, Checks
<1>3. CASE ExecuteScheduled
  BY <1>3 DEF ExecuteScheduled
<1>4. CASE BatchLoop
  BY <1>4 DEF BatchLoop, BatchSend, BatchCancelled, BatchAnswer
<1>5. CASE RunFinish
  BY <1>5 DEF RunFinish
<1>6. CASE Environment
  BY <1>6 DEF Environment, Expire, EditConfig, managerVars
<1>7. CASE Close
  BY <1>7 DEF Close
<1> QED
  BY <1>1, <1>2, <1>3, <1>4, <1>5, <1>6, <1>7 DEF ManagerStep

\* Only a reservation that starts a run reports it as running, and nothing but
\* its result or a restart takes that back.
LEMMA LastKept == ASSUME SchedInv, SchedNext PROVE LastIsHonest'
<1> USE DEF SchedInv
<1>1. CASE rec'.last # "running"
  BY <1>1 DEF LastIsHonest
<1>2. CASE /\ rec'.last = rec.last /\ UNCHANGED pend
           /\ call[Scheduler] \in {"running", "finished"} =>
                call'[Scheduler] \in {"running", "finished"}
  BY <1>2 DEF LastIsHonest
<1>3. CASE Edits
  <2>1. UNCHANGED <<call, pend>>
    BY <1>3 DEF Edits, SaveGlobal, SaveUser, ForgetUser, Edit, managerVars
  <2>2. rec'.last = rec.last
    <3>1. CASE \E b \in BOOLEAN, p \in Periods, z \in Zones : SaveGlobal(b, p, z)
      BY <3>1, GlobalSound DEF SaveGlobal, Edit, save, saveFails
    <3>2. CASE \E u \in Users, m \in {"inherit", "off", "custom"}, p \in Periods :
                 SaveUser(u, m, p)
      BY <3>2, UserSound DEF SaveUser, Edit, save, saveFails
    <3>3. CASE \E u \in Users : ForgetUser(u)
      BY <3>3, ForgottenSound DEF ForgetUser, Edit, save, saveFails
    <3> QED
      BY <1>3, <3>1, <3>2, <3>3 DEF Edits
  <2> QED
    BY <1>2, <2>1, <2>2
<1>4. CASE Tick
  <2>1. CASE rec' = Finished
    BY <1>1, <2>1, FinishedSound
  <2>2. CASE rec' = rec /\ UNCHANGED pend
    <3>1. call[Scheduler] = "idle"
      BY <1>4 DEF Tick
    <3> QED
      BY <1>2, <2>2, <3>1
  <2> QED
    BY <1>4, <2>1, <2>2 DEF Tick, save, saveFails
<1>5. CASE Reserve
  <2>1. CASE Reserved(Selected) /\ rec' = Reservation
    <3>1. \A u \in Users : served[u] \in 0..now
      BY TimeAssumption DEF Clocks
    <3>2. rec'.last = IF Selected = {} THEN "skipped" ELSE "running"
      BY <2>1, <3>1, ReservationSound
    <3>3. CASE Selected = {}
      BY <1>1, <3>2, <3>3
    <3>4. CASE Selected # {}
      <4>1. call'[Scheduler] = "running"
        BY <2>1, <3>4 DEF Reserved, EndCheck, Core, Types, Places
      <4> QED
        BY <4>1 DEF LastIsHonest
    <3> QED
      BY <3>3, <3>4
  <2>2. CASE NotReserved /\ rec' = rec /\ UNCHANGED pend
    <3>1. call[Scheduler] = "scheduling"
      BY <2>2 DEF NotReserved
    <3> QED
      BY <1>2, <2>2, <3>1
  <2> QED
    BY <1>5, <2>1, <2>2 DEF Reserve, save, saveFails
<1>6. CASE FinishRun
  <2>1. CASE rec' = Finished
    BY <1>1, <2>1, FinishedSound
  <2>2. CASE pend' = TRUE
    BY <2>2 DEF LastIsHonest
  <2> QED
    BY <1>6, <2>1, <2>2 DEF FinishRun, save
<1>7. CASE NewScheduler
  <2>1. rec'.last # "running"
    BY <1>7, LoadedSound DEF NewScheduler
  <2> QED
    BY <1>1, <2>1
<1>8. CASE Clock
  BY <1>2, <1>8 DEF Clock, vars, managerVars, schedVars
<1>9. CASE ManagerStep
  BY <1>2, <1>9, RunsOn DEF ManagerStep, schedVars
<1> QED
  BY <1>3, <1>4, <1>5, <1>6, <1>7, <1>8, <1>9 DEF SchedNext

\* A fresh installation: no rule is on.
LEMMA SchedInvInit == SchedInit => SchedInv
<1> SUFFICES ASSUME SchedInit PROVE SchedInv
  OBVIOUS
<1>1. Core /\ Budget
  BY CoreInit, BudgetInit DEF SchedInit
<1>2. Clocks
  <2>1. /\ 0 \in 0..MaxTime /\ now = 0 /\ pend = FALSE
        /\ served = [u \in Users |-> 0] /\ claims = NoClaims
    BY TimeAssumption DEF SchedInit
  <2>2. NoClaims \in [Keys -> Cursors]
    BY DEF NoClaims, NoCursor, Cursors
  <2>3. pend \in BOOLEAN
    BY <2>1
  <2>4. served \in [Users -> 0..MaxTime] /\ \A u \in Users : served[u] = 0
    BY <2>1
  <2> QED
    BY <2>1, <2>2, <2>3, <2>4 DEF Clocks
<1>3. PICK p \in Periods, z \in Zones :
         rec = [rev |-> 1, on |-> FALSE, rule |-> p, zone |-> z,
                mode |-> [u \in Users |-> "none"],
                urule |-> [u \in Users |-> p],
                since |-> [u \in Users |-> 0],
                cur |-> NoClaims, last |-> "none",
                changed |-> [u \in Users |-> 0]]
  BY DEF SchedInit
<1>4. rec \in Records
  BY <1>3, TimeAssumption DEF Records, NoClaims, NoCursor, Cursors
<1>5. /\ \A k \in Keys : ~on(rec, k) /\ rec.cur[k].gen = 0
      /\ \A u \in Users : rec.since[u] = 0 /\ rec.changed[u] = 0
  BY <1>3 DEF on, NoClaims, NoCursor, Keys
<1>6. Sound(rec, now, served)
  <2>1. now = 0 /\ \A u \in Users : ~on(rec, KeyOf(rec, u))
    BY <1>4, <1>5, KeyTypes DEF SchedInit
  <2> QED
    BY <1>4, <1>5, <2>1 DEF Sound
<1>7. disk = rec /\ Newer(rec, rec)
  BY <1>4 DEF SchedInit, Newer, Records
<1>8. LastIsHonest
  BY <1>3 DEF LastIsHonest
<1> QED
  BY <1>1, <1>2, <1>6, <1>7, <1>8 DEF SchedInv

\* Every step keeps the whole invariant.
LEMMA SchedInvStep == SchedInv /\ [SchedNext]_allVars => SchedInv'
<1> SUFFICES ASSUME SchedInv, [SchedNext]_allVars PROVE SchedInv'
  OBVIOUS
<1>1. CASE SchedNext
  <2>1. Core' /\ Budget' /\ LastIsHonest'
    BY <1>1, CoreKept, BudgetKept, LastKept DEF SchedInv
  <2>2. /\ Clocks' /\ Sound(rec', now', served') /\ Sound(disk', now', served')
        /\ Newer(disk', rec')
    BY <1>1, RecordsKept
  <2> QED
    BY <2>1, <2>2 DEF SchedInv
<1>2. CASE UNCHANGED allVars
  <2>1. Core'
    BY <1>2, CoreStutter DEF SchedInv, allVars, vars
  <2>2. Budget' /\ Clocks' /\ LastIsHonest'
    BY <1>2 DEF SchedInv, allVars, vars, schedVars, telemtVars, managerVars,
      Budget, Clocks, LastIsHonest
  <2>3. rec' = rec /\ disk' = disk /\ now' = now /\ served' = served
    BY <1>2 DEF allVars, schedVars
  <2> QED
    BY <2>1, <2>2, <2>3 DEF SchedInv
<1> QED
  BY <1>1, <1>2

\* The invariant holds in every reachable state.
LEMMA SchedInvariant == SchedSpec => []SchedInv
  BY SchedInvInit, SchedInvStep, PTL DEF SchedSpec

-----------------------------------------------------------------------------
(* Theorems.                                                               *)

\* NewScheduler's check of the state file: whatever edits, reservations and
\* results write, and whichever of the writes fail, the schedule is never
\* disabled by a record that the panel itself wrote.
THEOREM RecordsLoad == SchedSpec => []RecordLoads
<1>1. SchedInv => RecordLoads
  BY DEF SchedInv, Sound, RecordLoads
<1> QED
  BY SchedInvariant, <1>1, PTL

\* The result shown for the last run is "running" only while it runs or its
\* result has not been written.
THEOREM LastsAreHonest == SchedSpec => []LastIsHonest
<1>1. SchedInv => LastIsHonest
  BY DEF SchedInv
<1> QED
  BY SchedInvariant, <1>1, PTL

\* The types of the scheduler and of the manager it drives.
THEOREM SchedulerTypes == SchedSpec => []SchedTypeOK
<1>1. SchedInv => SchedTypeOK
  BY CoreTypeOK DEF SchedInv, SchedTypeOK, Sound, Clocks
<1> QED
  BY SchedInvariant, <1>1, PTL

\* Driven by the scheduler, the manager still keeps everything it promises.
THEOREM ScheduledManager ==
    SchedSpec => [](ExclusiveReset /\ TokenBeginsOnce /\ ConfirmedSelection
                    /\ HonestCounts)
<1>1. SchedInv => /\ ExclusiveReset /\ TokenBeginsOnce /\ ConfirmedSelection
                  /\ HonestCounts
  BY CoreSays DEF SchedInv
<1> QED
  BY SchedInvariant, <1>1, PTL

\* If-Match: a revision names one configuration, through failed writes that were
\* published all the same and through restarts, and never goes back.
THEOREM RevisionsIdentify == SchedSpec => RevisionIdentifiesConfig
<1>1. SchedInv /\ [SchedNext]_allVars =>
        [ /\ rec'.rev >= rec.rev
          /\ rec'.rev = rec.rev => Config(rec') = Config(rec) ]_allVars
  BY RecordsKept DEF Newer
<1> QED
  BY SchedInvariant, <1>1, PTL DEF SchedSpec, RevisionIdentifiesConfig

\* A user the reservation selects has a slot of its rule that has passed, that no
\* batch has served yet and that is not older than the rule.
LEMMA SelectedHasSlot ==
    ASSUME Core, Clocks, Sound(rec, now, served), NEW u \in Selected
    PROVE  /\ on(rec, KeyOf(rec, u)) /\ rec.mode[u] # "off"
           /\ \E s \in 1..now :
                /\ IsSlot(rule(rec, KeyOf(rec, u)), rec.zone, s)
                /\ s > served[u] /\ s >= rec.changed[u]
<1> DEFINE k == KeyOf(rec, u)
           s == Eligible(u)
<1>1. u \in Users /\ rec.mode[u] # "off" /\ k \in Claimed /\ s <= now
  BY DEF Selected, Core, Types, Lists
<1>2. k \in Keys /\ on(rec, k) /\ rec \in Records
  BY <1>1 DEF Claimed, Sound
<1>3. /\ rec.cur[k].next \in Nat /\ rec.since[u] \in 0..MaxTime /\ rec.since[u] \in Nat
      /\ rec.changed[u] \in Nat /\ served[u] \in Nat /\ now \in Nat
      /\ rule(rec, k) \in Periods /\ rec.zone \in Zones
  BY <1>1, <1>2, KeyTypes, TimeAssumption DEF Records, Cursors, Clocks
<1>4. /\ IsSlot(rule(rec, k), rec.zone, rec.cur[k].next)
      /\ served[u] < rec.cur[k].next
      /\ rec.changed[u] <= rec.cur[k].next \/ rec.changed[u] <= rec.since[u]
  BY <1>1, <1>2 DEF Sound
<1>5. /\ s \in Nat /\ IsSlot(rule(rec, k), rec.zone, s)
      /\ s > served[u] /\ s >= rec.changed[u]
  <2>1. CASE rec.cur[k].next < rec.since[u]
    <3>1. s = RuleNext(rule(rec, k), rec.zone, rec.since[u])
      BY <2>1 DEF Eligible
    <3>2. s \in Nat /\ s > rec.since[u] /\ IsSlot(rule(rec, k), rec.zone, s)
      BY <1>3, <3>1, NextOfRule
    <3> HIDE DEF s, k
    <3> QED
      BY <1>3, <1>4, <2>1, <3>2
  <2>2. CASE ~(rec.cur[k].next < rec.since[u])
    <3>1. s = rec.cur[k].next
      BY <2>2 DEF Eligible
    <3> HIDE DEF s, k
    <3> QED
      BY <1>3, <1>4, <2>2, <3>1
  <2> QED
    BY <2>1, <2>2
<1>6. s \in 1..now
  <2> HIDE DEF s
  <2> QED
    BY <1>1, <1>3, <1>5
<1> QED
  BY <1>1, <1>2, <1>5, <1>6

\* Tick and reserve: a batch selects a user at most once for a slot of its rule,
\* never for one before the rule was set, and a missed slot runs once; a crash, a
\* failed write or a restart repeats none.
THEOREM SlotsServedOnce == SchedSpec => OncePerSlot
<1> DEFINE P == SelectsNow =>
                  \A u \in job'.names :
                    LET k == KeyOf(rec, u)
                    IN /\ on(rec, k) /\ rec.mode[u] # "off"
                       /\ \E s \in 1..now :
                            /\ IsSlot(rule(rec, k), rec.zone, s)
                            /\ s > served[u] /\ s >= rec.changed[u]
<1>1. SchedInv /\ [SchedNext]_allVars => [P]_allVars
  <2> SUFFICES ASSUME SchedInv, SchedNext, SelectsNow PROVE P
    OBVIOUS
  <2>1. Reserved(Selected)
    <3>1. CASE Reserve
      <4>1. CASE NotReserved
        BY <4>1 DEF NotReserved, EndCheck, SelectsNow, SchedInv, Core, Types, Places
      <4> QED
        BY <3>1, <4>1 DEF Reserve
    <3>2. CASE Edits
      BY <3>2 DEF Edits, SaveGlobal, SaveUser, ForgetUser, Edit, managerVars,
        SelectsNow
    <3>3. CASE Tick
      BY <3>3 DEF Tick, SelectsNow
    <3>4. CASE FinishRun
      BY <3>4 DEF FinishRun, TickDone, SelectsNow
    <3>5. CASE NewScheduler
      BY <3>5 DEF NewScheduler, Restart, SelectsNow
    <3>6. CASE Clock
      BY <3>6 DEF Clock, vars, managerVars, SelectsNow
    <3>7. CASE ManagerStep
      <4> USE CallersAssumption DEF SelectsNow, SchedInv, Core, Types, Places
      <4>1. CASE Requests
        BY <4>1 DEF Requests, Prepare, Prepared, Start, Started, SingleAnswer,
          ResetSingle, BeginCheck, EndCheck
      <4>2. CASE Snapshots
        BY <4>2 DEF Snapshots, ReadSnapshot, SnapshotFails, EndCheck
      <4>3. CASE ExecuteScheduled
        BY <4>3 DEF ExecuteScheduled
      <4>4. CASE BatchLoop
        BY <4>4 DEF BatchLoop, BatchSend, BatchCancelled, BatchAnswer
      <4>5. CASE RunFinish
        BY <4>5 DEF RunFinish
      <4>6. CASE Environment
        BY <4>6 DEF Environment, Expire, EditConfig, managerVars
      <4>7. CASE Close
        BY <4>7 DEF Close
      <4> QED
        BY <3>7, <4>1, <4>2, <4>3, <4>4, <4>5, <4>6, <4>7 DEF ManagerStep
    <3> QED
      BY <3>1, <3>2, <3>3, <3>4, <3>5, <3>6, <3>7 DEF SchedNext
  <2>2. job'.names = Selected
    <3>1. Selected \in SUBSET Users
      BY DEF Selected, SchedInv, Core, Types, Lists
    <3>2. call'[Scheduler] = "running"
      BY DEF SelectsNow
    <3> QED
      BY <2>1, <3>1, <3>2, ReservedFacts DEF SchedInv, Core, Types, Places
  <2> QED
    BY <2>2, SelectedHasSlot DEF SchedInv
<1> QED
  BY SchedInvariant, <1>1, PTL DEF SchedSpec, OncePerSlot
=============================================================================
