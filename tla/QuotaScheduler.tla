--------------------------- MODULE QuotaScheduler ---------------------------
(***************************************************************************)
(* quotareset.Scheduler composed with quotareset.Manager: the durable      *)
(* record of rules and cursors, the tick that reserves what is due before  *)
(* the manager may send anything, edits of the rules at any moment, failed *)
(* writes of the record, and restarts of the panel between any two steps.  *)
(***************************************************************************)
EXTENDS QuotaManager

CONSTANTS
    Periods,    \* rules: a rule with period p has a slot every p ticks
    Zones,      \* timezones: an offset of every rule's slots
    MaxTime     \* bound: the clock

ASSUME PeriodsAssumption == Periods \subseteq Nat \ {0} /\ Zones \subseteq Nat
ASSUME TimeAssumption == MaxTime \in Nat

VARIABLES
    now,      \* the clock
    rec,      \* the record in memory ...
    disk,     \* ... and in the state file
    claims,   \* the cursors the running (or pending) reservation claimed
    pend,     \* a finished run still has to be written
    served    \* history: per user, when a scheduled batch last selected it

schedVars == <<rec, disk, claims, pend, served>>
allVars == <<vars, now, schedVars>>

Global == "global"
Keys == Users \cup {Global}

\* The cursor of a user is kept under "user:" and its name.
ASSUME KeysAssumption == Global \notin Users

\* Rule.Next: the next slot strictly after t.
RuleNext(p, zone, t) == t + p - ((t + zone) % p)
IsSlot(p, zone, s) == (s + zone) % p = 0

NoCursor == [next |-> 0, gen |-> 0]
NoClaims == [k \in Keys |-> NoCursor]

\* rule(key): is there a rule under this key, and which.
on(r, k) == IF k = Global THEN r.on ELSE r.mode[k] = "custom"
rule(r, k) == IF k = Global THEN r.rule ELSE r.urule[k]
KeyOf(r, u) == IF r.mode[u] = "custom" THEN u ELSE Global

IsDue(r, k) == r.cur[k].gen # 0 /\ r.cur[k].next <= now

\* save: the record in memory changes only with the one on disk; a failed write
\* may have published the new record all the same.
save(r) == rec' = r /\ disk' = r /\ NoFault
saveFails(r) == UNCHANGED rec /\ disk' \in {disk, r} /\ Fault

SchedInit ==
    /\ Init
    /\ now = 0
    /\ \E p \in Periods, z \in Zones :
         rec = [rev |-> 1, on |-> FALSE, rule |-> p, zone |-> z,
                mode |-> [u \in Users |-> "none"],
                urule |-> [u \in Users |-> p],
                since |-> [u \in Users |-> 0],
                cur |-> NoClaims, last |-> "none",
                changed |-> [u \in Users |-> 0]]
    /\ disk = rec
    /\ claims = NoClaims /\ pend = FALSE
    /\ served = [u \in Users |-> 0]

-----------------------------------------------------------------------------
(* Edits. They need the current revision and no pending result; `changed'  *)
(* is a history field: since when the user has had its rule.               *)

\* Save: accepted and written, or refused with a storage error.
Edit(r) ==
    /\ Op /\ (save(r) \/ saveFails(r))
    /\ UNCHANGED <<managerVars, telemtVars, historyVars, now, claims, pend,
                   served>>

\* A changed common rule gets a cursor in the future; a changed timezone moves
\* every rule.
GlobalSaved(enabled, p, zone) ==
    LET same == enabled = rec.on /\ p = rec.rule /\ zone = rec.zone
        moved == zone # rec.zone
        gen == rec.rev + 1
        global == IF same THEN rec.cur[Global]
                  ELSE IF enabled THEN [next |-> RuleNext(p, zone, now), gen |-> gen]
                  ELSE NoCursor
    IN [rec EXCEPT
          !.rev = gen, !.on = enabled, !.rule = p, !.zone = zone,
          !.since = [u \in Users |->
                       IF moved /\ rec.mode[u] # "none" THEN now ELSE rec.since[u]],
          !.cur = [k \in Keys |->
                     IF k = Global THEN global
                     ELSE IF moved /\ rec.mode[k] = "custom"
                     THEN [next |-> RuleNext(rec.urule[k], zone, now), gen |-> gen]
                     ELSE rec.cur[k]],
          !.changed = [u \in Users |->
                         IF moved \/ (~same /\ rec.mode[u] # "custom")
                         THEN now ELSE rec.changed[u]]]

SaveGlobal(enabled, p, zone) == ~pend /\ Edit(GlobalSaved(enabled, p, zone))

\* Mutant: a user that leaves its own rule keeps the cursor of that rule.
SaveUserKeepsCursor(u, m, p) ==
    LET gen == rec.rev + 1
        r == [rec EXCEPT
                !.rev = gen, !.mode[u] = m,
                !.urule[u] = IF m = "custom" THEN p ELSE rec.rule,
                !.since[u] = now, !.changed[u] = now,
                !.cur[u] = IF m = "custom"
                           THEN [next |-> RuleNext(p, rec.zone, now), gen |-> gen]
                           ELSE @]
    IN ~pend /\ Edit(r)

UserSaved(u, m, p) ==
    LET gen == rec.rev + 1
    IN [rec EXCEPT
          !.rev = gen, !.mode[u] = m,
          !.urule[u] = IF m = "custom" THEN p ELSE rec.rule,
          !.since[u] = now, !.changed[u] = now,
          !.cur[u] = IF m = "custom"
                     THEN [next |-> RuleNext(p, rec.zone, now), gen |-> gen]
                     ELSE NoCursor]

SaveUser(u, m, p) == ~pend /\ Edit(UserSaved(u, m, p))

\* Mutant: forgetting a user does not count as a change of the schedule.
ForgetUserSilently(u) ==
    /\ rec.mode[u] # "none"
    /\ Edit([rec EXCEPT !.mode[u] = "none", !.since[u] = 0, !.changed[u] = 0,
                        !.cur[u] = NoCursor])

\* A deleted user loses its rule, even while a result is pending.
Forgotten(u) ==
    [rec EXCEPT !.rev = @ + 1, !.mode[u] = "none", !.since[u] = 0,
                !.changed[u] = 0, !.cur[u] = NoCursor]

ForgetUser(u) == rec.mode[u] # "none" /\ Edit(Forgotten(u))

-----------------------------------------------------------------------------
(* Tick.                                                                   *)

\* finish: the result, and claimed cursors past the slots that elapsed during
\* the run, unless their rule was replaced meanwhile.
Finished ==
    [rec EXCEPT
       !.last = "finished",
       !.cur = [k \in Keys |->
                  LET next == RuleNext(rule(rec, k), rec.zone, now)
                  IN IF /\ claims[k].gen # 0 /\ @[k].gen = claims[k].gen
                        /\ on(rec, k) /\ next > @[k].next
                     THEN [@[k] EXCEPT !.next = next] ELSE @[k]]]

\* A tick writes a pending result first; if that fails it gives up. If nothing
\* is due it returns.
Tick ==
    /\ call[Scheduler] = "idle"
    /\ IF pend
       THEN \/ /\ saveFails(Finished)
               /\ UNCHANGED <<call, pend, claims>>
            \/ /\ save(Finished)
               /\ pend' = FALSE /\ claims' = NoClaims
               /\ IF \E k \in Keys : IsDue(rec', k)
                  THEN call' = [call EXCEPT ![Scheduler] = "due"]
                  ELSE UNCHANGED call
       ELSE /\ IF \E k \in Keys : IsDue(rec, k)
               THEN call' = [call EXCEPT ![Scheduler] = "due"]
               ELSE UNCHANGED call
            /\ NoFault /\ UNCHANGED <<rec, disk, pend, claims>>
    /\ UNCHANGED <<closed, checking, single, prep, job, left, snap, flight,
                   telemtVars, historyVars, ops, now, served>>

Claimed == {k \in Keys : IsDue(rec, k) /\ on(rec, k)}

\* A user that got its rule after the claimed slot waits for the next one.
Eligible(u) ==
    LET k == KeyOf(rec, u)
    IN IF rec.cur[k].next < rec.since[u]
       THEN RuleNext(rule(rec, k), rec.zone, rec.since[u]) ELSE rec.cur[k].next

Selected == {u \in snap.names : /\ rec.mode[u] # "off"
                                /\ KeyOf(rec, u) \in Claimed
                                /\ Eligible(u) <= now}

Reservation ==
    [rec EXCEPT
       !.cur = [k \in Keys |->
                  IF k \in Claimed
                  THEN [@[k] EXCEPT !.next = RuleNext(rule(rec, k), rec.zone, now)]
                  ELSE @[k]],
       !.last = IF Selected = {} THEN "skipped" ELSE "running"]

\* Mutant: the manager starts although the reservation was not written.
ReserveUnsaved ==
    /\ Claimed # {}
    /\ Reserved(Selected) /\ UNCHANGED disk
    /\ rec' = Reservation
    /\ claims' = [k \in Keys |-> IF k \in Claimed THEN rec.cur[k] ELSE NoCursor]
    /\ served' = [u \in Users |-> IF u \in Selected THEN now ELSE served[u]]
    /\ UNCHANGED <<now, pend>>

\* Mutant: a due slot that selects nobody is not claimed.
ReserveOnlySelected ==
    \/ /\ Claimed # {} /\ Selected # {}
       /\ Reserved(Selected) /\ save(Reservation)
       /\ claims' = [k \in Keys |-> IF k \in Claimed THEN rec.cur[k]
                                                     ELSE NoCursor]
       /\ served' = [u \in Users |-> IF u \in Selected THEN now ELSE served[u]]
       /\ UNCHANGED <<now, pend>>
    \/ /\ NotReserved
       /\ closed \/ Claimed = {} \/ Selected = {}
       /\ NoFault /\ UNCHANGED <<now, rec, disk, claims, pend, served>>

\* The reserve callback, inside the manager's critical section.
Reserve ==
    \/ /\ Claimed # {}
       /\ Reserved(Selected) /\ save(Reservation)
       /\ claims' = [k \in Keys |-> IF k \in Claimed /\ Selected # {}
                                    THEN rec.cur[k] ELSE NoCursor]
       /\ served' = [u \in Users |-> IF u \in Selected THEN now ELSE served[u]]
       /\ UNCHANGED <<now, pend>>
    \/ /\ NotReserved
       /\ \/ ~closed /\ Claimed # {} /\ saveFails(Reservation)
          \/ (closed \/ Claimed = {}) /\ NoFault /\ UNCHANGED <<rec, disk>>
          \/ Fault /\ UNCHANGED <<rec, disk>>
       /\ UNCHANGED <<now, claims, pend, served>>

\* The run is over: its result is written, or stays pending.
FinishRun ==
    /\ TickDone
    /\ \/ save(Finished) /\ pend' = FALSE /\ claims' = NoClaims
       \/ saveFails(Finished) /\ pend' = TRUE /\ UNCHANGED claims
    /\ UNCHANGED <<ops, now, served>>

-----------------------------------------------------------------------------
\* Mutant: a run that was cut off is still reported as running.
NewSchedulerKeepsLast ==
    /\ Restart
    /\ rec' = disk
    /\ claims' = NoClaims /\ pend' = FALSE
    /\ UNCHANGED <<now, disk, served>>

\* NewScheduler in a new process: the record as the state file has it.
NewScheduler ==
    /\ Restart
    /\ rec' = [disk EXCEPT !.last = IF @ = "running" THEN "interrupted" ELSE @]
    /\ claims' = NoClaims /\ pend' = FALSE
    /\ UNCHANGED <<now, disk, served>>

Clock == /\ now < MaxTime
         /\ now' = now + 1
         /\ UNCHANGED <<vars, schedVars>>

Edits == \/ \E b \in BOOLEAN, p \in Periods, z \in Zones : SaveGlobal(b, p, z)
         \/ \E u \in Users, m \in {"inherit", "off", "custom"}, p \in Periods :
              SaveUser(u, m, p)
         \/ \E u \in Users : ForgetUser(u)

ManagerStep == /\ \/ Requests \/ Snapshots \/ ExecuteScheduled \/ BatchLoop
                  \/ RunFinish \/ Environment \/ Close
               /\ UNCHANGED <<now, schedVars>>

SchedNext == Edits \/ Tick \/ Reserve \/ FinishRun \/ NewScheduler \/ Clock
             \/ ManagerStep

SchedSpec == SchedInit /\ [][SchedNext]_allVars

\* The ticker fires for ever, every call to Telemt has a timeout, and handlers
\* and the batch run on. Operators, edits and failures are bounded by MaxOps and
\* MaxFaults; nothing says that a panel that was stopped is started again.
SchedFairness ==
    /\ WF_allVars(Tick) /\ WF_allVars(Reserve) /\ WF_allVars(FinishRun)
    /\ WF_allVars(ManagerStep /\ ExecuteScheduled)
    /\ \A c \in Callers \cup {Scheduler} :
         WF_allVars(ManagerStep /\ (ReadSnapshot(c) \/ SnapshotFails(c)))
    /\ WF_allVars(ManagerStep /\ (BatchLoop \/ RunFinish))
    /\ \A c \in Callers :
         WF_allVars(ManagerStep /\ (Prepared(c) \/ Started(c) \/ SingleAnswer(c)))

SchedFairSpec == SchedSpec /\ SchedFairness

-----------------------------------------------------------------------------
(* Properties.                                                             *)

Cursors == [next : Nat, gen : Nat]
Records == [rev : Nat, on : BOOLEAN, rule : Periods, zone : Zones,
            mode : [Users -> {"none", "inherit", "off", "custom"}],
            urule : [Users -> Periods], since : [Users -> 0..MaxTime],
            cur : [Keys -> Cursors],
            last : {"none", "running", "skipped", "interrupted", "finished"},
            changed : [Users -> 0..MaxTime]]

\* The record in memory and on disk, the claims and the history keep their
\* types, and the manager's variables theirs.
SchedTypeOK ==
    /\ TypeOK
    /\ now \in 0..MaxTime
    /\ rec \in Records /\ disk \in Records
    /\ claims \in [Keys -> Cursors] /\ pend \in BOOLEAN
    /\ served \in [Users -> 0..MaxTime]

SelectsNow == call[Scheduler] = "scheduling" /\ call'[Scheduler] = "running"

\* A scheduled batch selects a user only for a slot of the rule the user has,
\* after the last time it was selected and not before the rule was set: missed
\* slots run once and not as a backlog, a crash, failed write or restart repeats
\* no slot, and saving a rule never makes an earlier slot due.
OncePerSlot ==
    [][ SelectsNow =>
          \A u \in job'.names :
            LET k == KeyOf(rec, u)
            IN /\ on(rec, k) /\ rec.mode[u] # "off"
               /\ \E s \in 1..now : /\ IsSlot(rule(rec, k), rec.zone, s)
                                    /\ s > served[u] /\ s >= rec.changed[u] ]_allVars

Config(r) == <<r.on, r.rule, r.zone, r.mode, r.urule, r.since>>

\* The revision identifies the configuration: as long as an If-Match revision is
\* current, so is the configuration its reader saw, through failed writes and
\* restarts, and revisions never go back.
RevisionIdentifiesConfig ==
    [][ /\ rec'.rev >= rec.rev
        /\ rec'.rev = rec.rev => Config(rec') = Config(rec) ]_allVars

\* "Running" is shown only for a run of this process that has not been written.
LastIsHonest ==
    rec.last = "running" => call[Scheduler] \in {"running", "finished"} \/ pend

\* What NewScheduler accepts: exactly the rules that are on have a cursor.
\* A record in the state file that fails it disables the schedule for good, so
\* every record any edit, reservation or result writes must pass.
RecordLoads == \A k \in Keys : on(disk, k) <=> disk.cur[k].gen # 0

\* Whatever is due is claimed, by a run or because its rule was changed, unless
\* the panel is being stopped: a busy manager, a failed snapshot or a failed
\* write delays a slot and never loses the tick that serves it.
DueIsServed == \A k \in Keys : IsDue(rec, k) ~> ~IsDue(rec, k) \/ closed
=============================================================================
