--------------------------- MODULE SyncAdmission ---------------------------
(***************************************************************************)
(* How the sync runs of one integration come into being:                   *)
(*   - triggerManual (API) inserts a run and then queues the job that will *)
(*     begin it;                                                           *)
(*   - a scheduled occurrence is a job; its handler (createScheduledRun)   *)
(*     looks for the run an earlier delivery persisted, coalesces into an  *)
(*     active run, or inserts a run of its own and copes with losing the   *)
(*     race for it;                                                        *)
(*   - beginRun claims the run and fans it out (in detail: SyncFanout).    *)
(*                                                                         *)
(* Two partial unique indexes decide the races: one run per delivery key,  *)
(* and one active run that is scheduled or full.  BullMQ (external) may    *)
(* deliver a job again after its worker died or lost the job's lock, while *)
(* the old handler keeps running.                                          *)
(***************************************************************************)
EXTENDS Naturals, FiniteSets

CONSTANTS RunIds,       \* ids of the runs that can be inserted
          Occurrences,  \* scheduled occurrences (one job id each)
          Manuals,      \* calls of triggerManual
          Workers,      \* handlers that may run at the same time
          ManualAttempts, \* attempts of a manual job (2); a scheduled one has 1
          MaxStalls,    \* stalls BullMQ recovers from (maxStalledCount, 1)
          MaxLost,      \* bound on locks lost by a live handler
          MaxFaults     \* bound on crashes and failed round trips

Jobs == Occurrences \union Manuals
NoKey == "no key"
NoRun == "no run"
NoJob == "no job"
NoWorker == "no worker"

ASSUME AdmissionAssumption ==
  /\ NoKey \notin Occurrences /\ NoRun \notin RunIds
  /\ NoJob \notin Jobs /\ NoWorker \notin Workers
  /\ Occurrences \intersect Manuals = {}
  /\ ManualAttempts \in Nat \ {0} /\ MaxStalls \in Nat
  /\ MaxLost \in Nat /\ MaxFaults \in Nat

Modes == {"incremental", "full"}
Active == {"queued", "running"}
Settled == {"succeeded", "failed"}
Run == [status: {"absent"} \union Active \union Settled, kind: {"manual", "scheduled"},
        mode: Modes, key: Occurrences \union {NoKey}]

Steps == {"idle", "resolve", "lookup", "blocker", "select", "recheck", "insert",
          "persisted", "winner", "begin", "claim", "fanout", "failRun"}

VARIABLES
  run,     \* IntegrationSyncRun rows, by id
  fanned,  \* runs whose mapping jobs are all queued
  req,     \* calls of triggerManual: their step and the run they inserted
  job,     \* BullMQ's view of the orchestrator jobs
  hand,    \* the handlers: step, job, chosen mode, run at hand, final attempt
  made,    \* history: the runs inserted on behalf of each occurrence
  lost,    \* history: runs whose request or job a fault or a skip has ended
  excused, \* history: occurrences that a fault ended or a check skipped
  met,     \* history: occurrences without a run whose handling met an active flight
  lostLocks, faults

vars == <<run, fanned, req, job, hand, made, lost, excused, met, lostLocks, faults>>

NoRow == [status |-> "absent", kind |-> "manual", mode |-> "incremental", key |-> NoKey]
IdleHandler == [pc |-> "idle", job |-> NoJob, mode |-> "incremental", run |-> NoRun,
                final |-> FALSE]
QueuedJob == [state |-> "waiting", attempt |-> 1, stalls |-> 0, owner |-> NoWorker]
DoneJob == [QueuedJob EXCEPT !.state = "done"]

Init ==
  /\ run = [r \in RunIds |-> NoRow]
  /\ fanned = {}
  /\ req = [m \in Manuals |-> [pc |-> "idle", run |-> NoRun]]
  /\ job = [j \in Jobs |-> IF j \in Occurrences THEN QueuedJob
                                                ELSE [QueuedJob EXCEPT !.state = "absent"]]
  /\ hand = [w \in Workers |-> IdleHandler]
  /\ made = [o \in Occurrences |-> {}]
  /\ lost = {} /\ excused = {} /\ met = {}
  /\ lostLocks = 0 /\ faults = 0

-----------------------------------------------------------------------------
(* The table and its indexes *)

IsActive(r) == run[r].status \in Active

\* The rows the single-flight index ranges over, when active.
IsFlight(row) == row.kind = "scheduled" \/ row.mode = "full"

ActiveFlights == {r \in RunIds : IsActive(r) /\ IsFlight(run[r])}

ByKey(o) == {r \in RunIds : run[r].status # "absent" /\ run[r].key = o}

\* A unique violation: the delivery key is taken, or a flight is active.
Conflicts(row) ==
  \/ row.key # NoKey /\ ByKey(row.key) # {}
  \/ IsFlight(row) /\ ActiveFlights # {}

Unused == {r \in RunIds : run[r].status = "absent"}

\* A generated id: unused ids are interchangeable.
FreshId == CHOOSE r \in Unused : TRUE

\* Insert a row under a fresh id; an occurrence being handled meanwhile has
\* met the flight.
Insert(r, row) ==
  /\ Unused # {} /\ r = FreshId
  /\ run' = [run EXCEPT ![r] = row]
  /\ met' = IF IsFlight(row)
              THEN met \union {o \in Occurrences : made[o] = {} /\ \E w \in Workers : hand[w].job = o}
              ELSE met

SetStatus(r, status) == run' = [run EXCEPT ![r].status = status]

\* The runs a job stands for: no other job would begin them.
CarriedBy(j) == IF j \in Occurrences THEN ByKey(j) ELSE {req[j].run} \ {NoRun}

-----------------------------------------------------------------------------
(* triggerManual *)

ManualRow(mode) == [status |-> "queued", kind |-> "manual", mode |-> mode, key |-> NoKey]

\* Insert the run; a full one that conflicts is refused.
TriggerManual(m) ==
  /\ req[m].pc = "idle"
  /\ \E mode \in Modes :
       \/ /\ ~Conflicts(ManualRow(mode))
          /\ \E r \in RunIds :
               /\ Insert(r, ManualRow(mode))
               /\ req' = [req EXCEPT ![m] = [pc |-> "inserted", run |-> r]]
       \/ /\ Conflicts(ManualRow(mode))
          /\ req' = [req EXCEPT ![m].pc = "refused"]
          /\ UNCHANGED <<run, met>>
  /\ UNCHANGED <<fanned, job, hand, made, lost, excused, lostLocks, faults>>

\* ... then queue the job that begins it.
QueueManual(m) ==
  /\ req[m].pc = "inserted"
  /\ req' = [req EXCEPT ![m].pc = "queued"]
  /\ job' = [job EXCEPT ![m].state = "waiting"]
  /\ UNCHANGED <<run, fanned, hand, made, lost, excused, met, lostLocks, faults>>

\* The process dies, or Redis fails, in between: nothing repeats the call.
ManualFault(m) ==
  /\ req[m].pc = "inserted"
  /\ faults < MaxFaults
  /\ faults' = faults + 1
  /\ req' = [req EXCEPT ![m].pc = "broken"]
  /\ lost' = lost \union {req[m].run}
  /\ UNCHANGED <<run, fanned, job, hand, made, excused, met, lostLocks>>

-----------------------------------------------------------------------------
(* BullMQ (external) *)

AttemptsOf(j) == IF j \in Occurrences THEN 1 ELSE ManualAttempts

Deliver(w, j) ==
  /\ hand[w].pc = "idle"
  /\ job[j].state = "waiting"
  /\ job' = [job EXCEPT ![j].state = "active", ![j].owner = w]
  /\ hand' = [hand EXCEPT ![w] =
       [IdleHandler EXCEPT !.pc = IF j \in Occurrences THEN "lookup" ELSE "resolve", !.job = j,
                           !.final = job[j].attempt = AttemptsOf(j)]]
  /\ met' = IF j \in Occurrences /\ made[j] = {} /\ ActiveFlights # {} THEN met \union {j} ELSE met
  /\ UNCHANGED <<run, fanned, req, made, lost, excused, lostLocks, faults>>

OwnsLock(w) == job[hand[w].job].state = "active" /\ job[hand[w].job].owner = w

\* The job ends unsuccessfully: what it carried and its occurrence are lost.
GivesUp(j) ==
  /\ job' = [job EXCEPT ![j] = DoneJob]
  /\ lost' = lost \union CarriedBy(j)
  /\ excused' = excused \union {j}

\* A job without its lock is queued again, or given up after too many stalls.
Requeue(j) ==
  \/ /\ job[j].stalls < MaxStalls
     /\ job' = [job EXCEPT ![j].state = "waiting", ![j].stalls = @ + 1, ![j].owner = NoWorker]
     /\ UNCHANGED <<lost, excused>>
  \/ /\ job[j].stalls >= MaxStalls
     /\ GivesUp(j)

\* The lock of a live handler expires; the handler goes on.
LoseLock(j) ==
  /\ job[j].state = "active"
  /\ lostLocks < MaxLost
  /\ lostLocks' = lostLocks + 1
  /\ Requeue(j)
  /\ UNCHANGED <<run, fanned, req, hand, made, met, faults>>

\* A handler that lost its lock dies with the run it was about to begin.
DiesAlone(w) == lost' = lost \union ({hand[w].run} \ {NoRun}) /\ UNCHANGED excused

\* The worker dies in the middle of a handler.
Crash(w) ==
  /\ hand[w].pc # "idle"
  /\ faults < MaxFaults
  /\ faults' = faults + 1
  /\ hand' = [hand EXCEPT ![w] = IdleHandler]
  /\ IF OwnsLock(w) THEN Requeue(hand[w].job) ELSE DiesAlone(w) /\ UNCHANGED job
  /\ UNCHANGED <<run, fanned, req, made, met, lostLocks>>

\* The handler returns; only the holder of the lock completes the job.
Return(w) ==
  /\ hand' = [hand EXCEPT ![w] = IdleHandler]
  /\ job' = IF OwnsLock(w)
              THEN [job EXCEPT ![hand[w].job] = DoneJob]
              ELSE job

\* The handler throws: another attempt, or the end of the job.
Throw(w) ==
  LET j == hand[w].job IN
  /\ hand' = [hand EXCEPT ![w] = IdleHandler]
  /\ job' = IF ~OwnsLock(w) THEN job
            ELSE IF hand[w].final THEN [job EXCEPT ![j] = DoneJob]
            ELSE [job EXCEPT ![j].state = "waiting", ![j].attempt = @ + 1, ![j].owner = NoWorker]

Goto(w, pc) == hand' = [hand EXCEPT ![w].pc = pc]

\* Go on to begin run r.
TakeUp(w, r) ==
  hand' = [hand EXCEPT ![w].pc = "begin", ![w].run = r, ![w].mode = "incremental"]

-----------------------------------------------------------------------------
(* handleManual and handleScheduled, up to a run to begin *)

\* resolveManualRun: the run named by the job, if it is still active.
ResolveManual(w) ==
  LET r == req[hand[w].job].run IN
  /\ hand[w].pc = "resolve"
  /\ IF IsActive(r)
       THEN TakeUp(w, r) /\ UNCHANGED job
       ELSE Return(w)
  /\ UNCHANGED <<run, fanned, req, made, lost, excused, met, lostLocks, faults>>

\* The integration must be ACTIVE with an enabled mapping, or the occurrence
\* is skipped, even when an earlier delivery of it has left a run to begin.
SkipScheduled(w) ==
  /\ hand[w].pc = "lookup"
  /\ Return(w)
  /\ excused' = excused \union {hand[w].job}
  /\ lost' = lost \union CarriedBy(hand[w].job)
  /\ UNCHANGED <<run, fanned, req, made, met, lostLocks, faults>>

\* Slip: a delivered occurrence is taken for done.
NeverBeginsPersisted(r) == FALSE

canBeginPersistedDelivery(r) == IsActive(r)

\* The run an earlier delivery of this occurrence persisted: begin it while it
\* is active, otherwise coalesce into it; without one, go on.
FindPersisted(w, next) ==
  IF ByKey(hand[w].job) = {}
    THEN Goto(w, next) /\ UNCHANGED job
    ELSE \E r \in ByKey(hand[w].job) :
           IF canBeginPersistedDelivery(r)
             THEN TakeUp(w, r) /\ UNCHANGED job
             ELSE Return(w)

LookupPersisted(w) ==
  /\ hand[w].pc = "lookup"
  /\ FindPersisted(w, "blocker")
  /\ UNCHANGED <<run, fanned, req, made, lost, excused, met, lostLocks, faults>>

\* Slip: the blocker is looked up without its status.
AnyFlight == {r \in RunIds : run[r].status # "absent" /\ IsFlight(run[r])}

Blockers == ActiveFlights

\* findActiveScheduledBlocker: coalesce into an active flight.
FindBlocker(w) ==
  /\ hand[w].pc = "blocker"
  /\ IF Blockers # {} THEN Return(w) ELSE Goto(w, "select") /\ UNCHANGED job
  /\ UNCHANGED <<run, fanned, req, made, lost, excused, met, lostLocks, faults>>

ActiveFull == {r \in RunIds : IsActive(r) /\ run[r].mode = "full"}

\* selectScheduledMode: full when no full run is active and some scope lacks a
\* full checkpoint of the last 24 hours (checkpoints are not modelled).
SelectMode(w) ==
  /\ hand[w].pc = "select"
  /\ \E mode \in IF ActiveFull # {} THEN {"incremental"} ELSE Modes :
       hand' = [hand EXCEPT ![w].pc = IF mode = "full" THEN "recheck" ELSE "insert",
                            ![w].mode = mode]
  /\ UNCHANGED <<run, fanned, req, job, made, lost, excused, met, lostLocks, faults>>

RecheckFull(w) ==
  /\ hand[w].pc = "recheck"
  /\ hand' = [hand EXCEPT ![w].pc = "insert",
                          ![w].mode = IF ActiveFull # {} THEN "incremental" ELSE "full"]
  /\ UNCHANGED <<run, fanned, req, job, made, lost, excused, met, lostLocks, faults>>

\* Slip: the run does not carry the key of its delivery.
KeylessRow(o, mode) == [status |-> "queued", kind |-> "scheduled", mode |-> mode, key |-> NoKey]

ScheduledRow(o, mode) == [status |-> "queued", kind |-> "scheduled", mode |-> mode, key |-> o]

\* Insert the run of this occurrence, or find out that a race was lost.
InsertScheduled(w) ==
  LET o == hand[w].job row == ScheduledRow(o, hand[w].mode) IN
  /\ hand[w].pc = "insert"
  /\ \/ /\ ~Conflicts(row)
        /\ \E r \in RunIds :
             /\ Insert(r, row)
             /\ made' = [made EXCEPT ![o] = @ \union {r}]
             /\ TakeUp(w, r)
     \/ /\ Conflicts(row)
        /\ Goto(w, "persisted")
        /\ UNCHANGED <<run, made, met>>
  /\ UNCHANGED <<fanned, req, job, lost, excused, lostLocks, faults>>

\* After a lost race: another delivery of this occurrence may have won it...
ReloadPersisted(w) ==
  /\ hand[w].pc = "persisted"
  /\ FindPersisted(w, "winner")
  /\ UNCHANGED <<run, fanned, req, made, lost, excused, met, lostLocks, faults>>

\* ... or another flight.  When neither is found (the winner has settled since)
\* a full run is tried again as an incremental one, and an incremental throws.
FindWinner(w) ==
  /\ hand[w].pc = "winner"
  /\ \/ Blockers # {} /\ Return(w)
     \/ Blockers = {} /\ hand[w].mode = "full" /\ UNCHANGED job
        /\ hand' = [hand EXCEPT ![w].pc = "insert", ![w].mode = "incremental"]
     \/ Blockers = {} /\ hand[w].mode # "full" /\ Throw(w)
  /\ UNCHANGED <<run, fanned, req, made, lost, excused, met, lostLocks, faults>>

-----------------------------------------------------------------------------
(* beginRun and failRun *)

\* beginRun throws: the final attempt fails the run first.
BeginThrows(w) == IF hand[w].final THEN Goto(w, "failRun") /\ UNCHANGED job ELSE Throw(w)

\* A run that is settled by now is refused.
BeginRead(w) ==
  /\ hand[w].pc = "begin"
  /\ IF IsActive(hand[w].run) THEN Goto(w, "claim") /\ UNCHANGED job ELSE BeginThrows(w)
  /\ UNCHANGED <<run, fanned, req, made, lost, excused, met, lostLocks, faults>>

\* Claim the run; with no mapping or resource to fan out, settle it at once.
BeginClaim(w) ==
  LET r == hand[w].run IN
  /\ hand[w].pc = "claim"
  /\ \/ /\ Goto(w, "fanout")
        /\ run' = IF run[r].status = "queued" THEN [run EXCEPT ![r].status = "running"] ELSE run
        /\ UNCHANGED job
     \/ /\ IF IsActive(r) THEN SetStatus(r, "succeeded") ELSE UNCHANGED run
        /\ Return(w)
  /\ UNCHANGED <<fanned, req, made, lost, excused, met, lostLocks, faults>>

BeginFanout(w) ==
  /\ hand[w].pc = "fanout"
  /\ fanned' = fanned \union {hand[w].run}
  /\ Return(w)
  /\ UNCHANGED <<run, req, made, lost, excused, met, lostLocks, faults>>

\* Slips: the run is failed whatever has become of it; its status is the error.
FailsAnyway(r) == SetStatus(r, "failed")

FailsWithError(r) == IF IsActive(r) THEN SetStatus(r, "error") ELSE UNCHANGED run

\* Conditional on the run being active: a settled outcome is never rewritten.
FailIfActive(r) == IF IsActive(r) THEN SetStatus(r, "failed") ELSE UNCHANGED run

FailRun(w) ==
  /\ hand[w].pc = "failRun"
  /\ FailIfActive(hand[w].run)
  /\ Throw(w)
  /\ UNCHANGED <<fanned, req, made, lost, excused, met, lostLocks, faults>>

\* The mapping jobs of a fanned-out run close it (SyncFanout).
Settle(r) ==
  /\ r \in fanned
  /\ run[r].status = "running"
  /\ \E status \in Settled : SetStatus(r, status)
  /\ UNCHANGED <<fanned, req, job, hand, made, lost, excused, met, lostLocks, faults>>

\* A round trip to the database or to Redis fails.  Only beginRun's errors are
\* answered by failRun; any other ends the attempt, the last one with the job.
RoundTripFails(w) ==
  /\ hand[w].pc # "idle"
  /\ faults < MaxFaults
  /\ faults' = faults + 1
  /\ IF hand[w].pc \in {"begin", "claim", "fanout"}
       THEN BeginThrows(w) /\ UNCHANGED <<lost, excused>>
       ELSE /\ Throw(w)
            /\ IF ~OwnsLock(w) THEN DiesAlone(w)
               ELSE IF ~hand[w].final THEN UNCHANGED <<lost, excused>>
               ELSE /\ lost' = lost \union CarriedBy(hand[w].job)
                    /\ excused' = excused \union {hand[w].job}
  /\ UNCHANGED <<run, fanned, req, made, met, lostLocks>>

-----------------------------------------------------------------------------
HandlerStep(w) ==
  \/ ResolveManual(w) \/ SkipScheduled(w) \/ LookupPersisted(w) \/ FindBlocker(w)
  \/ SelectMode(w) \/ RecheckFull(w) \/ InsertScheduled(w) \/ ReloadPersisted(w)
  \/ FindWinner(w) \/ BeginRead(w) \/ BeginClaim(w) \/ BeginFanout(w) \/ FailRun(w)

Next ==
  \/ \E m \in Manuals : TriggerManual(m) \/ QueueManual(m) \/ ManualFault(m)
  \/ \E w \in Workers, j \in Jobs : Deliver(w, j)
  \/ \E j \in Jobs : LoseLock(j)
  \/ \E w \in Workers : HandlerStep(w) \/ Crash(w) \/ RoundTripFails(w)
  \/ \E r \in RunIds : Settle(r)

Spec == Init /\ [][Next]_vars

-----------------------------------------------------------------------------
(* Properties *)

Handler == [pc: Steps, job: Jobs \union {NoJob}, mode: Modes, run: RunIds \union {NoRun},
            final: BOOLEAN]
JobRec == [state: {"absent", "waiting", "active", "done"}, attempt: Nat, stalls: Nat,
           owner: Workers \union {NoWorker}]
Request == [pc: {"idle", "inserted", "queued", "refused", "broken"}, run: RunIds \union {NoRun}]

TypeOK ==
  /\ run \in [RunIds -> Run]
  /\ fanned \subseteq RunIds
  /\ req \in [Manuals -> Request]
  /\ job \in [Jobs -> JobRec]
  /\ hand \in [Workers -> Handler]
  /\ made \in [Occurrences -> SUBSET RunIds]
  /\ lost \subseteq RunIds /\ excused \subseteq Jobs /\ met \subseteq Occurrences
  /\ lostLocks \in 0..MaxLost /\ faults \in 0..MaxFaults

\* However often an occurrence is delivered, and however its handlers overlap,
\* one run at most is inserted on its behalf ("a repeated scheduler delivery
\* does not create a duplicate run").
OneRunPerOccurrence == \A o \in Occurrences : \A r, q \in made[o] : r = q

\* A run that is active and not fanned out has someone left to begin it: the
\* request that will queue its job, the job, or a handler at work on it.  Only a
\* fault that ended its request or its job, or a skipped redelivery, may leave it
\* without one.
Carried(r) ==
  \/ \E m \in Manuals : req[m].run = r /\ (req[m].pc = "inserted" \/ job[m].state \in {"waiting", "active"})
  \/ \E o \in Occurrences : run[r].key = o /\ job[o].state \in {"waiting", "active"}
  \/ \E w \in Workers : hand[w].run = r /\ hand[w].pc # "idle"
NoStrandedRun == \A r \in RunIds : IsActive(r) /\ r \notin fanned => Carried(r) \/ r \in lost

\* An occurrence whose job is done without a run of its own was skipped, ended
\* by a fault, or met a flight that was active while it was handled: it is never
\* coalesced into a run that had settled before it came.
TurnedAwayByAFlight ==
  \A o \in Occurrences :
    job[o].state = "done" /\ made[o] = {} => o \in excused \/ o \in met

\* The scheduled and full runs fly one at a time, and none is ever revived or
\* given a second outcome.
Flights == INSTANCE SingleFlight
  WITH Flights <- RunIds,
       outcome <- [r \in RunIds |->
                     IF run[r].status = "absent" \/ ~IsFlight(run[r]) THEN "none"
                     ELSE IF IsActive(r) THEN "flying" ELSE run[r].status]
FliesAlone == Flights!Spec
=============================================================================
