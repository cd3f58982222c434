------------------------ MODULE SyncAdmissionProofs ------------------------
(* Theorems about SyncAdmission and their proofs. *)
EXTENDS SyncAdmission, TLAPS

-----------------------------------------------------------------------------
(* Types *)

Seeking == {"lookup", "blocker", "select", "recheck", "insert", "persisted", "winner"}
Beginning == {"begin", "claim", "fanout", "failRun"}

\* A handler has a job, and from its begin on a run that job stands for.
PlacedAt(w) ==
  /\ hand[w].pc # "idle" => hand[w].job \in Jobs
  /\ hand[w].pc \in Seeking => hand[w].job \in Occurrences /\ hand[w].run = NoRun
  /\ hand[w].pc = "resolve" =>
       hand[w].job \in Manuals /\ req[hand[w].job].run \in RunIds /\ hand[w].run = NoRun
  /\ hand[w].pc \in Beginning => hand[w].run \in CarriedBy(hand[w].job) /\ hand[w].run \in RunIds

\* A call of triggerManual has its run before it has its job.
Requested ==
  \A m \in Manuals :
    /\ req[m].pc \in {"idle", "refused"} <=> req[m].run = NoRun
    /\ job[m].state # "absent" => req[m].run \in RunIds

Placed == Requested /\ \A w \in Workers : PlacedAt(w)

LEMMA Names ==
  /\ NoKey \notin Occurrences /\ NoRun \notin RunIds /\ NoJob \notin Jobs /\ NoWorker \notin Workers
  /\ Occurrences \intersect Manuals = {}
BY AdmissionAssumption DEF AdmissionAssumption

LEMMA Bounds == ManualAttempts \in Nat \ {0} /\ MaxStalls \in Nat /\ MaxLost \in Nat /\ MaxFaults \in Nat
BY AdmissionAssumption DEF AdmissionAssumption

LEMMA JobTypes == QueuedJob \in JobRec /\ DoneJob \in JobRec /\ [QueuedJob EXCEPT !.state = "absent"] \in JobRec
BY DEF QueuedJob, DoneJob, JobRec

LEMMA IdleType == IdleHandler \in Handler /\ IdleHandler.pc = "idle"
BY DEF IdleHandler, Handler, Steps, Modes

LEMMA RowTypes ==
  /\ NoRow \in Run /\ \A mode \in Modes : ManualRow(mode) \in Run
  /\ \A o \in Occurrences, mode \in Modes : ScheduledRow(o, mode) \in Run
BY DEF NoRow, Run, Modes, Active, Settled, ManualRow, ScheduledRow

LEMMA InitTypeOK == Init => TypeOK /\ Placed
<1> SUFFICES ASSUME Init PROVE TypeOK /\ Placed
  OBVIOUS
<1>1. run \in [RunIds -> Run] /\ hand \in [Workers -> Handler] /\ job \in [Jobs -> JobRec]
  BY IdleType, RowTypes, JobTypes DEF Init
<1>2. req \in [Manuals -> Request]
  BY DEF Init, Request
<1>3. lostLocks \in 0..MaxLost /\ faults \in 0..MaxFaults
  BY Bounds DEF Init
<1>4. TypeOK
  BY <1>1, <1>2, <1>3 DEF Init, TypeOK
<1>5. \A w \in Workers : hand[w].pc = "idle"
  BY IdleType DEF Init
<1>6. \A m \in Manuals : job[m].state = "absent"
  BY Names DEF Init, Jobs, QueuedJob
<1>7. Requested
  BY <1>6 DEF Init, Requested
<1>8. QED BY <1>4, <1>5, <1>7 DEF Placed, PlacedAt, Seeking, Beginning

LEMMA CarriedType ==
  ASSUME TypeOK, NEW j \in Jobs
  PROVE  CarriedBy(j) \subseteq RunIds
BY DEF TypeOK, CarriedBy, ByKey, Jobs, Request

LEMMA GivesUpType ==
  ASSUME TypeOK, NEW j \in Jobs, GivesUp(j)
  PROVE  job' \in [Jobs -> JobRec] /\ lost' \subseteq RunIds /\ excused' \subseteq Jobs
BY CarriedType, JobTypes DEF TypeOK, GivesUp

LEMMA RequeueType ==
  ASSUME TypeOK, NEW j \in Jobs, Requeue(j)
  PROVE  job' \in [Jobs -> JobRec] /\ lost' \subseteq RunIds /\ excused' \subseteq Jobs
<1>1. CASE GivesUp(j)
  BY <1>1, GivesUpType
<1>2. CASE /\ job' = [job EXCEPT ![j].state = "waiting", ![j].stalls = @ + 1, ![j].owner = NoWorker]
           /\ UNCHANGED <<lost, excused>>
  <2>0. job[j] \in JobRec /\ job[j].stalls + 1 \in Nat
    BY DEF TypeOK, JobRec
  <2>1. [job[j] EXCEPT !.state = "waiting", !.stalls = job[j].stalls + 1, !.owner = NoWorker] \in JobRec
    BY <2>0 DEF JobRec
  <2>2. job' \in [Jobs -> JobRec]
    BY <1>2, <2>1 DEF TypeOK
  <2>3. QED BY <1>2, <2>2 DEF TypeOK
<1>3. QED BY <1>1, <1>2 DEF Requeue

LEMMA ReturnType ==
  ASSUME TypeOK, NEW w \in Workers, Return(w)
  PROVE  hand' \in [Workers -> Handler] /\ job' \in [Jobs -> JobRec]
BY IdleType, JobTypes DEF TypeOK, Return

LEMMA ThrowType ==
  ASSUME TypeOK, NEW w \in Workers, hand[w].job \in Jobs, Throw(w)
  PROVE  hand' \in [Workers -> Handler] /\ job' \in [Jobs -> JobRec]
<1>1. hand' \in [Workers -> Handler]
  BY IdleType DEF TypeOK, Throw
<1>2. PICK j \in Jobs : j = hand[w].job
  OBVIOUS
<1>3. \/ job' = job \/ job' = [job EXCEPT ![j] = DoneJob]
      \/ job' = [job EXCEPT ![j].state = "waiting", ![j].attempt = @ + 1, ![j].owner = NoWorker]
  BY <1>2 DEF Throw
<1>0. job[j] \in JobRec /\ job[j].attempt + 1 \in Nat
  BY <1>2 DEF TypeOK, JobRec
<1>4. [job[j] EXCEPT !.state = "waiting", !.attempt = job[j].attempt + 1, !.owner = NoWorker] \in JobRec
  BY <1>0 DEF JobRec
<1>5. job' \in [Jobs -> JobRec]
  BY <1>3, <1>4, JobTypes DEF TypeOK
<1>6. QED BY <1>1, <1>5

LEMMA GotoType ==
  ASSUME TypeOK, NEW w \in Workers, NEW pc \in Steps, Goto(w, pc)
  PROVE  hand' \in [Workers -> Handler]
<1>1. [hand[w] EXCEPT !.pc = pc] \in Handler
  BY DEF TypeOK, Handler
<1>2. QED BY <1>1 DEF Goto, TypeOK

LEMMA TakeUpType ==
  ASSUME TypeOK, NEW w \in Workers, NEW r \in RunIds, TakeUp(w, r)
  PROVE  hand' \in [Workers -> Handler]
<1>1. [hand[w] EXCEPT !.pc = "begin", !.run = r, !.mode = "incremental"] \in Handler
  <2>1. hand[w] \in Handler
    BY DEF TypeOK
  <2>2. QED BY <2>1 DEF Handler, Steps, Modes
<1>2. QED BY <1>1 DEF TakeUp, TypeOK

LEMMA SetStatusType ==
  ASSUME TypeOK, NEW r \in RunIds, NEW status \in Active \union Settled, SetStatus(r, status)
  PROVE  run' \in [RunIds -> Run]
<1>1. [run[r] EXCEPT !.status = status] \in Run
  BY DEF TypeOK, Run
<1>2. QED BY <1>1 DEF SetStatus, TypeOK

LEMMA FreshUnused == ASSUME Unused # {} PROVE FreshId \in Unused
BY DEF FreshId

LEMMA InsertType ==
  ASSUME TypeOK, NEW r \in RunIds, NEW row \in Run, Insert(r, row)
  PROVE  /\ run' = [run EXCEPT ![r] = row] /\ r \in Unused
         /\ run' \in [RunIds -> Run] /\ met' \subseteq Occurrences
BY FreshUnused DEF TypeOK, Insert

LEMMA FindPersistedType ==
  ASSUME TypeOK, NEW w \in Workers, NEW pc \in Steps, FindPersisted(w, pc)
  PROVE  hand' \in [Workers -> Handler] /\ job' \in [Jobs -> JobRec]
<1>1. CASE Goto(w, pc) /\ UNCHANGED job
  BY <1>1, GotoType DEF TypeOK
<1>2. CASE Return(w)
  BY <1>2, ReturnType
<1>3. CASE \E r \in RunIds : TakeUp(w, r) /\ UNCHANGED job
  BY <1>3, TakeUpType DEF TypeOK
<1>4. QED BY <1>1, <1>2, <1>3 DEF FindPersisted, ByKey

LEMMA BeginThrowsType ==
  ASSUME TypeOK, NEW w \in Workers, hand[w].job \in Jobs, BeginThrows(w)
  PROVE  hand' \in [Workers -> Handler] /\ job' \in [Jobs -> JobRec]
<1>1. CASE Goto(w, "failRun") /\ UNCHANGED job
  BY <1>1, GotoType DEF TypeOK, Steps
<1>2. CASE Throw(w)
  BY <1>2, ThrowType
<1>3. QED BY <1>1, <1>2 DEF BeginThrows

LEMMA FaultRoom ==
  ASSUME TypeOK
  PROVE  /\ faults < MaxFaults /\ faults' = faults + 1 => faults' \in 0..MaxFaults
         /\ lostLocks < MaxLost /\ lostLocks' = lostLocks + 1 => lostLocks' \in 0..MaxLost
<1>1. faults \in 0..MaxFaults /\ lostLocks \in 0..MaxLost
  BY DEF TypeOK
<1>2. QED BY <1>1, Bounds

LEMMA NextTypeOK == TypeOK /\ Placed /\ [Next]_vars => TypeOK'
<1> SUFFICES ASSUME TypeOK, Placed, [Next]_vars PROVE TypeOK'
  OBVIOUS
<1>0. req \in [Manuals -> Request] /\ hand \in [Workers -> Handler] /\ job \in [Jobs -> JobRec]
  BY DEF TypeOK
<1>j. \A w \in Workers : hand[w].pc # "idle" => hand[w].job \in Jobs
  BY DEF Placed, PlacedAt
<1>1. ASSUME NEW m \in Manuals, TriggerManual(m) PROVE TypeOK'
  <2>1. PICK mode \in Modes :
          \/ \E r \in RunIds : Insert(r, ManualRow(mode)) /\ req' = [req EXCEPT ![m] = [pc |-> "inserted", run |-> r]]
          \/ req' = [req EXCEPT ![m].pc = "refused"] /\ UNCHANGED <<run, met>>
    BY <1>1 DEF TriggerManual
  <2>2. CASE \E r \in RunIds : Insert(r, ManualRow(mode)) /\ req' = [req EXCEPT ![m] = [pc |-> "inserted", run |-> r]]
    <3>1. PICK r \in RunIds : Insert(r, ManualRow(mode)) /\ req' = [req EXCEPT ![m] = [pc |-> "inserted", run |-> r]]
      BY <2>2
    <3>2. run' \in [RunIds -> Run] /\ met' \subseteq Occurrences
      BY <3>1, InsertType, RowTypes
    <3>3. req' \in [Manuals -> Request]
      BY <1>0, <3>1 DEF Request
    <3>4. QED BY <1>1, <3>2, <3>3 DEF TriggerManual, TypeOK
  <2>3. CASE req' = [req EXCEPT ![m].pc = "refused"] /\ UNCHANGED <<run, met>>
    <3>1. [req[m] EXCEPT !.pc = "refused"] \in Request
      BY <1>0 DEF Request
    <3>2. req' \in [Manuals -> Request]
      BY <1>0, <2>3, <3>1
    <3>3. QED BY <1>1, <2>3, <3>2 DEF TriggerManual, TypeOK
  <2>4. QED BY <2>1, <2>2, <2>3
<1>2. ASSUME NEW m \in Manuals, QueueManual(m) PROVE TypeOK'
  <2>1. [req[m] EXCEPT !.pc = "queued"] \in Request
    BY <1>0 DEF Request
  <2>2. m \in Jobs /\ [job[m] EXCEPT !.state = "waiting"] \in JobRec
    BY <1>0 DEF Jobs, JobRec
  <2>3. req' \in [Manuals -> Request] /\ job' \in [Jobs -> JobRec]
    BY <1>0, <1>2, <2>1, <2>2 DEF QueueManual
  <2>4. QED BY <1>2, <2>3 DEF QueueManual, TypeOK
<1>3. ASSUME NEW m \in Manuals, ManualFault(m) PROVE TypeOK'
  <2>1. [req[m] EXCEPT !.pc = "broken"] \in Request
    BY <1>0 DEF Request
  <2>2. req' \in [Manuals -> Request]
    BY <1>0, <1>3, <2>1 DEF ManualFault
  <2>3. req[m].run \in RunIds
    BY <1>0, <1>3 DEF ManualFault, Placed, Requested, Request
  <2>4. faults' \in 0..MaxFaults
    BY <1>3, FaultRoom DEF ManualFault
  <2>5. QED BY <1>3, <2>2, <2>3, <2>4 DEF ManualFault, TypeOK
<1>4. ASSUME NEW w \in Workers, NEW j \in Jobs, Deliver(w, j) PROVE TypeOK'
  <2>1. [job[j] EXCEPT !.state = "active", !.owner = w] \in JobRec
    BY <1>0 DEF JobRec
  <2>2. job' \in [Jobs -> JobRec]
    BY <1>0, <1>4, <2>1 DEF Deliver
  <2>3. \A pc \in Steps, b \in BOOLEAN :
          [IdleHandler EXCEPT !.pc = pc, !.job = j, !.final = b] \in Handler
    BY IdleType DEF Handler
  <2>4. hand' \in [Workers -> Handler]
    BY <1>0, <1>4, <2>3 DEF Deliver, Steps
  <2>5. met' \subseteq Occurrences
    BY <1>4 DEF Deliver, TypeOK
  <2>6. QED BY <1>4, <2>2, <2>4, <2>5 DEF Deliver, TypeOK
<1>5. ASSUME NEW j \in Jobs, LoseLock(j) PROVE TypeOK'
  <2>1. lostLocks' \in 0..MaxLost
    BY <1>5, FaultRoom DEF LoseLock
  <2>2. job' \in [Jobs -> JobRec] /\ lost' \subseteq RunIds /\ excused' \subseteq Jobs
    BY <1>5, RequeueType DEF LoseLock
  <2>3. QED BY <1>5, <2>1, <2>2 DEF LoseLock, TypeOK
<1>6. ASSUME NEW w \in Workers, Crash(w) PROVE TypeOK'
  <2>0. faults' \in 0..MaxFaults /\ hand' \in [Workers -> Handler]
    BY <1>0, <1>6, FaultRoom, IdleType DEF Crash
  <2>1. CASE Requeue(hand[w].job)
    <3>1. job' \in [Jobs -> JobRec] /\ lost' \subseteq RunIds /\ excused' \subseteq Jobs
      BY <1>6, <1>j, <2>1, RequeueType DEF Crash
    <3>2. QED BY <1>6, <2>0, <3>1 DEF Crash, TypeOK
  <2>2. CASE DiesAlone(w) /\ UNCHANGED job
    <3>1. lost' \subseteq RunIds
      BY <1>0, <2>2 DEF DiesAlone, TypeOK, Handler
    <3>2. QED BY <1>6, <2>0, <2>2, <3>1 DEF Crash, DiesAlone, TypeOK
  <2>3. QED BY <1>6, <2>1, <2>2 DEF Crash
<1>7. ASSUME NEW w \in Workers, RoundTripFails(w) PROVE TypeOK'
  <2>0. faults' \in 0..MaxFaults /\ hand[w].job \in Jobs
    BY <1>7, <1>j, FaultRoom DEF RoundTripFails
  <2>1. hand' \in [Workers -> Handler] /\ job' \in [Jobs -> JobRec]
    BY <1>7, <2>0, BeginThrowsType, ThrowType DEF RoundTripFails
  <2>2. lost' \subseteq RunIds /\ excused' \subseteq Jobs
    BY <1>0, <1>7, <2>0, CarriedType DEF RoundTripFails, DiesAlone, TypeOK, Handler
  <2>3. QED BY <1>7, <2>0, <2>1, <2>2 DEF RoundTripFails, TypeOK
<1>8. ASSUME NEW r \in RunIds, Settle(r) PROVE TypeOK'
  BY <1>8, SetStatusType DEF Settle, TypeOK
<1>9. ASSUME NEW w \in Workers, HandlerStep(w), hand[w].pc # "idle" PROVE TypeOK'
  <2>0. hand[w].job \in Jobs /\ CarriedBy(hand[w].job) \subseteq RunIds
    BY <1>9, <1>j, CarriedType
  <2>1. CASE ResolveManual(w)
    <3>1. req[hand[w].job].run \in RunIds
      BY <2>1 DEF ResolveManual, Placed, PlacedAt
    <3>2. hand' \in [Workers -> Handler] /\ job' \in [Jobs -> JobRec]
      BY <1>0, <2>1, <3>1, TakeUpType, ReturnType DEF ResolveManual
    <3>3. QED BY <2>1, <3>2 DEF ResolveManual, TypeOK
  <2>2. CASE SkipScheduled(w)
    BY <2>0, <2>2, ReturnType DEF SkipScheduled, TypeOK
  <2>3. CASE LookupPersisted(w) \/ ReloadPersisted(w)
    <3>1. hand' \in [Workers -> Handler] /\ job' \in [Jobs -> JobRec]
      BY <2>3, FindPersistedType DEF LookupPersisted, ReloadPersisted, Steps
    <3>2. QED BY <2>3, <3>1 DEF LookupPersisted, ReloadPersisted, TypeOK
  <2>4. CASE FindBlocker(w)
    <3>1. hand' \in [Workers -> Handler] /\ job' \in [Jobs -> JobRec]
      BY <1>0, <2>4, GotoType, ReturnType DEF FindBlocker, Steps
    <3>2. QED BY <2>4, <3>1 DEF FindBlocker, TypeOK
  <2>5. CASE SelectMode(w) \/ RecheckFull(w)
    <3>1. \E pc \in Steps, mode \in Modes : hand' = [hand EXCEPT ![w].pc = pc, ![w].mode = mode]
      BY <2>5 DEF SelectMode, RecheckFull, Steps, Modes
    <3>2. \A pc \in Steps, mode \in Modes : [hand[w] EXCEPT !.pc = pc, !.mode = mode] \in Handler
      BY <1>0 DEF Handler
    <3>3. hand' \in [Workers -> Handler]
      <4>1. PICK pc \in Steps, mode \in Modes : hand' = [hand EXCEPT ![w].pc = pc, ![w].mode = mode]
        BY <3>1
      <4>2. hand' = [hand EXCEPT ![w] = [hand[w] EXCEPT !.pc = pc, !.mode = mode]]
        BY <1>0, <4>1
      <4>3. QED BY <1>0, <3>2, <4>2
    <3>4. QED BY <2>5, <3>3 DEF SelectMode, RecheckFull, TypeOK
  <2>6. CASE InsertScheduled(w)
    <3>1. PICK o \in Occurrences : o = hand[w].job
      BY <2>6 DEF InsertScheduled, Placed, PlacedAt, Seeking
    <3>2. PICK row \in Run : row = ScheduledRow(o, hand[w].mode)
      BY <1>0, <3>1, RowTypes DEF Handler
    <3>3. CASE \E r \in RunIds : Insert(r, row) /\ made' = [made EXCEPT ![o] = @ \union {r}] /\ TakeUp(w, r)
      <4>1. PICK r \in RunIds : Insert(r, row) /\ made' = [made EXCEPT ![o] = @ \union {r}] /\ TakeUp(w, r)
        BY <3>3
      <4>2. run' \in [RunIds -> Run] /\ met' \subseteq Occurrences /\ hand' \in [Workers -> Handler]
        BY <4>1, InsertType, TakeUpType
      <4>3. made' \in [Occurrences -> SUBSET RunIds]
        BY <4>1 DEF TypeOK
      <4>4. QED BY <2>6, <4>2, <4>3 DEF InsertScheduled, TypeOK
    <3>4. CASE Goto(w, "persisted") /\ UNCHANGED <<run, made, met>>
      BY <2>6, <3>4, GotoType DEF InsertScheduled, TypeOK, Steps
    <3>5. QED BY <2>6, <3>1, <3>2, <3>3, <3>4 DEF InsertScheduled
  <2>7. CASE FindWinner(w)
    <3>1. [hand[w] EXCEPT !.pc = "insert", !.mode = "incremental"] \in Handler
      BY <1>0 DEF Handler, Steps, Modes
    <3>2. hand' \in [Workers -> Handler] /\ job' \in [Jobs -> JobRec]
      BY <1>0, <2>0, <2>7, <3>1, ReturnType, ThrowType DEF FindWinner
    <3>3. QED BY <2>7, <3>2 DEF FindWinner, TypeOK
  <2>8. CASE BeginRead(w)
    <3>1. hand' \in [Workers -> Handler] /\ job' \in [Jobs -> JobRec]
      BY <1>0, <2>0, <2>8, GotoType, BeginThrowsType DEF BeginRead, Steps
    <3>2. QED BY <2>8, <3>1 DEF BeginRead, TypeOK
  <2>9. CASE BeginClaim(w)
    <3>1. PICK r \in RunIds : r = hand[w].run
      BY <2>9 DEF BeginClaim, Placed, PlacedAt, Beginning
    <3>2. hand' \in [Workers -> Handler] /\ job' \in [Jobs -> JobRec]
      BY <1>0, <2>9, GotoType, ReturnType DEF BeginClaim, Steps
    <3>3. run' = run \/ SetStatus(r, "running") \/ SetStatus(r, "succeeded")
      BY <2>9, <3>1 DEF BeginClaim, SetStatus
    <3>4. run' \in [RunIds -> Run]
      BY <3>3, SetStatusType DEF TypeOK, Active, Settled
    <3>5. QED BY <2>9, <3>2, <3>4 DEF BeginClaim, TypeOK
  <2>10. CASE BeginFanout(w)
    <3>1. hand[w].run \in RunIds
      BY <2>10 DEF BeginFanout, Placed, PlacedAt, Beginning
    <3>2. QED BY <2>10, <3>1, ReturnType DEF BeginFanout, TypeOK
  <2>11. CASE FailRun(w)
    <3>1. PICK r \in RunIds : r = hand[w].run
      BY <2>11 DEF FailRun, Placed, PlacedAt, Beginning
    <3>2. run' = run \/ SetStatus(r, "failed")
      BY <2>11, <3>1 DEF FailRun, FailIfActive
    <3>3. run' \in [RunIds -> Run]
      BY <3>2, SetStatusType DEF TypeOK, Settled
    <3>4. QED BY <2>0, <2>11, <3>3, ThrowType DEF FailRun, TypeOK
  <2>12. QED BY <1>9, <2>1, <2>2, <2>3, <2>4, <2>5, <2>6, <2>7, <2>8, <2>9, <2>10, <2>11 DEF HandlerStep
<1>10. \A w \in Workers : HandlerStep(w) => hand[w].pc # "idle"
  BY DEF HandlerStep, ResolveManual, SkipScheduled, LookupPersisted, FindBlocker, SelectMode, RecheckFull,
         InsertScheduled, ReloadPersisted, FindWinner, BeginRead, BeginClaim, BeginFanout, FailRun
<1>11. CASE UNCHANGED vars
  BY <1>11 DEF vars, TypeOK
<1>12. QED BY <1>1, <1>2, <1>3, <1>4, <1>5, <1>6, <1>7, <1>8, <1>9, <1>10, <1>11 DEF Next

-----------------------------------------------------------------------------
(* What steps do to the runs, the jobs and the handlers *)

\* A run is inserted for a request or an occurrence, or an active one moves on.
Inserted(r, row) ==
  /\ r \in Unused /\ ~Conflicts(row) /\ row.status = "queued" /\ Insert(r, row)
  /\ \/ /\ row.key = NoKey /\ made' = made
        /\ \E m \in Manuals : req'[m] = [pc |-> "inserted", run |-> r]
     \/ /\ row.key \in Occurrences /\ made' = [made EXCEPT ![row.key] = @ \union {r}]
        /\ \E w \in Workers : hand'[w].pc = "begin" /\ hand'[w].run = r

Moved(r, status) ==
  IsActive(r) /\ SetStatus(r, status) /\ made' = made /\ met' = met

LEMMA RunMoves ==
  ASSUME TypeOK, Placed, [Next]_vars
  PROVE  \/ run' = run /\ made' = made
         \/ \E r \in RunIds, row \in Run : Inserted(r, row)
         \/ \E r \in RunIds, status \in {"running"} \union Settled : Moved(r, status)
<1>1. ASSUME NEW m \in Manuals, TriggerManual(m), ~(run' = run)
      PROVE  \E r \in RunIds, row \in Run : Inserted(r, row)
  <2>1. PICK mode \in Modes :
          /\ ~Conflicts(ManualRow(mode))
          /\ \E r \in RunIds : /\ Insert(r, ManualRow(mode))
                              /\ req' = [req EXCEPT ![m] = [pc |-> "inserted", run |-> r]]
    BY <1>1 DEF TriggerManual
  <2>2. PICK row \in Run : row = ManualRow(mode) /\ row.status = "queued" /\ row.key = NoKey
    BY RowTypes DEF ManualRow
  <2>3. PICK r \in RunIds : /\ Insert(r, row) /\ r \in Unused
                           /\ req' = [req EXCEPT ![m] = [pc |-> "inserted", run |-> r]]
    BY <2>1, <2>2, InsertType
  <2>4. req'[m] = [pc |-> "inserted", run |-> r]
    BY <2>3 DEF TypeOK
  <2>5. QED BY <1>1, <2>1, <2>2, <2>3, <2>4 DEF Inserted, TriggerManual
<1>2. ASSUME NEW w \in Workers, InsertScheduled(w), ~(run' = run /\ made' = made)
      PROVE  \E r \in RunIds, row \in Run : Inserted(r, row)
  <2>1. PICK o \in Occurrences : o = hand[w].job
    BY <1>2 DEF InsertScheduled, Placed, PlacedAt, Seeking
  <2>2. PICK row \in Run : row = ScheduledRow(o, hand[w].mode) /\ row.status = "queued" /\ row.key = o
    <3>1. hand[w].mode \in Modes
      BY DEF TypeOK, Handler
    <3>2. QED BY <3>1, RowTypes DEF ScheduledRow
  <2>3. PICK r \in RunIds : /\ ~Conflicts(row) /\ Insert(r, row)
                           /\ made' = [made EXCEPT ![o] = @ \union {r}] /\ TakeUp(w, r)
    BY <1>2, <2>1, <2>2 DEF InsertScheduled
  <2>4. hand'[w].pc = "begin" /\ hand'[w].run = r
    BY <2>3 DEF TakeUp, TypeOK, Handler
  <2>5. QED BY <2>1, <2>2, <2>3, <2>4, InsertType DEF Inserted
<1>3. ASSUME NEW w \in Workers, BeginClaim(w) \/ FailRun(w), ~(run' = run)
      PROVE  \E r \in RunIds, status \in {"running"} \union Settled : Moved(r, status)
  <2>1. PICK r \in RunIds : r = hand[w].run
    BY <1>3 DEF BeginClaim, FailRun, Placed, PlacedAt, Beginning
  <2>2. CASE BeginClaim(w)
    <3>1. IsActive(r) /\ (SetStatus(r, "running") \/ SetStatus(r, "succeeded"))
      BY <1>3, <2>1, <2>2 DEF BeginClaim, SetStatus, IsActive, Active
    <3>2. QED BY <2>2, <3>1 DEF BeginClaim, Moved, Settled
  <2>3. CASE FailRun(w)
    <3>1. IsActive(r) /\ SetStatus(r, "failed")
      BY <1>3, <2>1, <2>3 DEF FailRun, FailIfActive
    <3>2. QED BY <2>3, <3>1 DEF FailRun, Moved, Settled
  <2>4. QED BY <1>3, <2>2, <2>3
<1>4. ASSUME NEW r \in RunIds, Settle(r) PROVE \E status \in {"running"} \union Settled : Moved(r, status)
  BY <1>4 DEF Settle, Moved, IsActive, Active
<1>5. ASSUME NEW w \in Workers, HandlerStep(w),
             ~InsertScheduled(w), ~BeginClaim(w), ~FailRun(w)
      PROVE  run' = run /\ made' = made
  BY <1>5 DEF HandlerStep, ResolveManual, SkipScheduled, LookupPersisted, FindBlocker, SelectMode, RecheckFull,
              ReloadPersisted, FindWinner, BeginRead, BeginFanout
<1>6. ASSUME NEW w \in Workers, BeginClaim(w) \/ FailRun(w) PROVE made' = made
  BY <1>6 DEF BeginClaim, FailRun
<1>7. ASSUME NEW m \in Manuals, TriggerManual(m) PROVE made' = made
  BY <1>7 DEF TriggerManual
<1>8. QED BY <1>1, <1>2, <1>3, <1>4, <1>5, <1>6, <1>7
      DEF Next, QueueManual, ManualFault, Deliver, LoseLock, Crash, RoundTripFails, vars

\* A row is never removed and keeps what identifies it.
LEMMA RowsKept ==
  ASSUME TypeOK, Placed, [Next]_vars, NEW r \in RunIds, run[r].status # "absent"
  PROVE  run'[r].status # "absent" /\ run'[r].key = run[r].key /\ (IsFlight(run[r]) <=> IsFlight(run'[r]))
<1>1. ASSUME NEW q \in RunIds, NEW row \in Run, Inserted(q, row) PROVE run'[r] = run[r]
  BY <1>1 DEF Inserted, Insert, Unused, TypeOK
<1>2. ASSUME NEW q \in RunIds, NEW status \in {"running"} \union Settled, Moved(q, status)
      PROVE  run'[r].status # "absent" /\ run'[r].key = run[r].key
             /\ run'[r].kind = run[r].kind /\ run'[r].mode = run[r].mode
  BY <1>2 DEF Moved, SetStatus, TypeOK, Run, Settled
<1>3. \/ run'[r] = run[r]
      \/ /\ run'[r].status # "absent" /\ run'[r].key = run[r].key
         /\ run'[r].kind = run[r].kind /\ run'[r].mode = run[r].mode
  <2>1. \/ run' = run
        \/ \E q \in RunIds, row \in Run : Inserted(q, row)
        \/ \E q \in RunIds, status \in {"running"} \union Settled : Moved(q, status)
    BY RunMoves
  <2>2. QED BY <1>1, <1>2, <2>1
<1>4. QED BY <1>3 DEF IsFlight

\* The call of a run that was inserted keeps it.
LEMMA RequestsKept ==
  ASSUME TypeOK, Placed, [Next]_vars, NEW m \in Manuals, req[m].run \in RunIds
  PROVE  req'[m].run = req[m].run
<1>0. req \in [Manuals -> Request] /\ req[m].pc # "idle"
  BY Names DEF TypeOK, Placed, Requested
<1>1. ASSUME NEW n \in Manuals, TriggerManual(n) \/ QueueManual(n) \/ ManualFault(n)
      PROVE  req'[m].run = req[m].run
  BY <1>0, <1>1 DEF TriggerManual, QueueManual, ManualFault, Request
<1>2. QED BY <1>1 DEF Next, Deliver, LoseLock, Crash, RoundTripFails, Settle, HandlerStep, ResolveManual,
       SkipScheduled, LookupPersisted, FindBlocker, SelectMode, RecheckFull, InsertScheduled,
       ReloadPersisted, FindWinner, BeginRead, BeginClaim, BeginFanout, FailRun, vars

LEMMA CarriedGrows ==
  ASSUME TypeOK, Placed, [Next]_vars, NEW j \in Jobs
  PROVE  CarriedBy(j) \subseteq CarriedBy(j)'
<1>1. CASE j \in Occurrences
  BY <1>1, RowsKept DEF CarriedBy, ByKey
<1>2. CASE j \notin Occurrences
  <2>1. j \in Manuals
    BY <1>2 DEF Jobs
  <2>2. req[j].run \in RunIds \union {NoRun}
    BY <2>1 DEF TypeOK, Request
  <2>3. QED BY <1>2, <2>1, <2>2, RequestsKept DEF CarriedBy
<1>3. QED BY <1>1, <1>2

\* A handler's step touches no job but its own, and that one only with its lock.
WorkerStep(w) == HandlerStep(w) \/ Crash(w) \/ RoundTripFails(w)

Ends(w) ==
  /\ OwnsLock(w) /\ hand'[w] = IdleHandler
  /\ job'[hand[w].job].state \in {"waiting", "done"}
  /\ \A k \in Jobs : k # hand[w].job => job'[k] = job[k]

LEMMA EndsIfRequeued ==
  ASSUME TypeOK, NEW w \in Workers, hand[w].job \in Jobs, OwnsLock(w),
         Requeue(hand[w].job), hand' = [hand EXCEPT ![w] = IdleHandler]
  PROVE  Ends(w)
BY DEF TypeOK, Requeue, GivesUp, DoneJob, QueuedJob, JobRec, Ends

LEMMA EndsIfReturned ==
  ASSUME TypeOK, NEW w \in Workers, hand[w].job \in Jobs, Return(w)
  PROVE  hand' = [hand EXCEPT ![w] = IdleHandler] /\ (job' = job \/ Ends(w))
BY DEF TypeOK, Return, DoneJob, QueuedJob, JobRec, Ends

LEMMA EndsIfThrown ==
  ASSUME TypeOK, NEW w \in Workers, hand[w].job \in Jobs, Throw(w)
  PROVE  hand' = [hand EXCEPT ![w] = IdleHandler] /\ (job' = job \/ Ends(w))
BY DEF TypeOK, Throw, DoneJob, QueuedJob, JobRec, Ends

LEMMA WorkerEffects ==
  ASSUME TypeOK, Placed, NEW w \in Workers, WorkerStep(w)
  PROVE  /\ hand[w].pc # "idle" /\ hand[w].job \in Jobs
         /\ \A v \in Workers : v # w => hand'[v] = hand[v]
         /\ job' = job \/ Ends(w)
<1>0. hand \in [Workers -> Handler]
  BY DEF TypeOK
<1>1. hand[w].pc # "idle"
  BY DEF WorkerStep, Crash, RoundTripFails, HandlerStep, ResolveManual, SkipScheduled, LookupPersisted,
         FindBlocker, SelectMode, RecheckFull, InsertScheduled, ReloadPersisted, FindWinner, BeginRead,
         BeginClaim, BeginFanout, FailRun
<1>2. hand[w].job \in Jobs
  BY <1>1 DEF Placed, PlacedAt
<1>3. CASE Return(w)
  BY <1>0, <1>1, <1>2, <1>3, EndsIfReturned
<1>4. CASE Throw(w)
  BY <1>0, <1>1, <1>2, <1>4, EndsIfThrown
<1>5. CASE job' = job /\ \E h : hand' = [hand EXCEPT ![w] = h]
  BY <1>0, <1>1, <1>2, <1>5
<1>6. CASE Crash(w)
  <2>1. hand' = [hand EXCEPT ![w] = IdleHandler]
    BY <1>6 DEF Crash
  <2>2. job' = job \/ (OwnsLock(w) /\ Requeue(hand[w].job))
    BY <1>6 DEF Crash
  <2>3. QED BY <1>0, <1>1, <1>2, <2>1, <2>2, EndsIfRequeued
<1>7. CASE \E pc : Goto(w, pc) /\ UNCHANGED job
  BY <1>5, <1>7 DEF Goto
<1>8. CASE \E r : TakeUp(w, r) /\ UNCHANGED job
  BY <1>5, <1>8 DEF TakeUp
<1>9. CASE HandlerStep(w)
  <2>1. CASE SelectMode(w) \/ RecheckFull(w)
    BY <1>5, <2>1 DEF SelectMode, RecheckFull
  <2>2. CASE LookupPersisted(w) \/ ReloadPersisted(w)
    BY <1>3, <1>7, <1>8, <2>2 DEF LookupPersisted, ReloadPersisted, FindPersisted
  <2>3. CASE ResolveManual(w) \/ SkipScheduled(w) \/ FindBlocker(w) \/ InsertScheduled(w)
    BY <1>3, <1>7, <1>8, <2>3 DEF ResolveManual, SkipScheduled, FindBlocker, InsertScheduled
  <2>4. CASE FindWinner(w)
    BY <1>3, <1>4, <1>5, <2>4 DEF FindWinner
  <2>5. CASE BeginRead(w) \/ BeginClaim(w) \/ BeginFanout(w) \/ FailRun(w)
    BY <1>3, <1>4, <1>7, <2>5 DEF BeginRead, BeginThrows, BeginClaim, BeginFanout, FailRun
  <2>6. QED BY <1>9, <2>1, <2>2, <2>3, <2>4, <2>5 DEF HandlerStep
<1>10. CASE RoundTripFails(w)
  BY <1>4, <1>7, <1>10 DEF RoundTripFails, BeginThrows
<1>11. QED BY <1>6, <1>9, <1>10 DEF WorkerStep

\* Only QueueManual makes a job.
LEMMA JobsKept ==
  ASSUME TypeOK, Placed, [Next]_vars, NEW j \in Jobs, job[j].state = "absent", job'[j].state # "absent"
  PROVE  \E m \in Manuals : QueueManual(m) /\ m = j
<1>0. job \in [Jobs -> JobRec]
  BY DEF TypeOK
<1>1. ASSUME NEW w \in Workers, WorkerStep(w) PROVE FALSE
  BY <1>1, WorkerEffects DEF Ends, OwnsLock
<1>2. ASSUME NEW k \in Jobs, LoseLock(k) PROVE FALSE
  BY <1>0, <1>2 DEF LoseLock, Requeue, GivesUp
<1>3. ASSUME NEW w \in Workers, NEW k \in Jobs, Deliver(w, k) PROVE FALSE
  BY <1>0, <1>3 DEF Deliver
<1>4. ASSUME NEW m \in Manuals, QueueManual(m) PROVE m = j
  BY <1>0, <1>4 DEF QueueManual
<1>5. QED BY <1>1, <1>2, <1>3, <1>4 DEF Next, WorkerStep, TriggerManual, ManualFault, Settle, vars

LEMMA NextRequested == TypeOK /\ Placed /\ [Next]_vars => Requested'
<1> SUFFICES ASSUME TypeOK, Placed, [Next]_vars PROVE Requested'
  OBVIOUS
<1>0. req \in [Manuals -> Request] /\ Requested
  BY DEF TypeOK, Placed
<1>1. ASSUME NEW m \in Manuals, job'[m].state # "absent" PROVE req'[m].run \in RunIds
  <2>1. m \in Jobs
    BY DEF Jobs
  <2>2. CASE job[m].state # "absent"
    BY <1>0, <2>2, RequestsKept DEF Requested
  <2>3. CASE job[m].state = "absent"
    <3>1. QueueManual(m)
      BY <1>1, <2>1, <2>3, JobsKept
    <3>2. req[m].run \in RunIds
      BY <1>0, <3>1 DEF QueueManual, Requested, Request
    <3>3. QED BY <3>2, RequestsKept
  <2>4. QED BY <2>2, <2>3
<1>2. ASSUME NEW m \in Manuals PROVE req'[m].pc \in {"idle", "refused"} <=> req'[m].run = NoRun
  <2>1. CASE req'[m] = req[m]
    BY <1>0, <2>1 DEF Requested
  <2>2. ASSUME NEW n \in Manuals, TriggerManual(n) PROVE req'[m].pc \in {"idle", "refused"} <=> req'[m].run = NoRun
    BY <1>0, <2>2, Names DEF TriggerManual, Requested, Request
  <2>3. ASSUME NEW n \in Manuals, QueueManual(n) \/ ManualFault(n)
        PROVE  req'[m].pc \in {"idle", "refused"} <=> req'[m].run = NoRun
    BY <1>0, <2>3 DEF QueueManual, ManualFault, Requested, Request
  <2>4. QED BY <2>1, <2>2, <2>3 DEF Next, Deliver, LoseLock, Crash, RoundTripFails, Settle, HandlerStep,
       ResolveManual, SkipScheduled, LookupPersisted, FindBlocker, SelectMode, RecheckFull, InsertScheduled,
       ReloadPersisted, FindWinner, BeginRead, BeginClaim, BeginFanout, FailRun, vars
<1>3. QED BY <1>1, <1>2 DEF Requested

\* Where a handler's step leaves it.
LEMMA HandlerMoves ==
  ASSUME TypeOK, Placed, NEW w \in Workers, WorkerStep(w)
  PROVE  \/ hand'[w] = IdleHandler
         \/ /\ hand[w].pc \in Seeking /\ hand'[w].pc \in Seeking
            /\ hand'[w].job = hand[w].job /\ hand'[w].run = hand[w].run
         \/ /\ hand'[w].pc = "begin" /\ hand'[w].job = hand[w].job
            /\ hand'[w].run \in CarriedBy(hand[w].job)' /\ hand'[w].run \in RunIds
         \/ /\ hand[w].pc \in Beginning /\ hand'[w].pc \in Beginning
            /\ hand'[w].job = hand[w].job /\ hand'[w].run = hand[w].run
<1>0. hand \in [Workers -> Handler] /\ PlacedAt(w)
  BY DEF TypeOK, Placed
<1>1. CASE hand' = [hand EXCEPT ![w] = IdleHandler]
  BY <1>0, <1>1
<1>2. CASE Return(w) \/ Throw(w) \/ Crash(w)
  BY <1>1, <1>2 DEF Return, Throw, Crash
<1>3. ASSUME NEW pc, Goto(w, pc)
      PROVE  hand'[w].pc = pc /\ hand'[w].job = hand[w].job /\ hand'[w].run = hand[w].run
  BY <1>0, <1>3 DEF Goto, Handler
<1>4. ASSUME NEW r, TakeUp(w, r)
      PROVE  hand'[w].pc = "begin" /\ hand'[w].job = hand[w].job /\ hand'[w].run = r
  BY <1>0, <1>4 DEF TakeUp, Handler
<1>5. CASE SelectMode(w) \/ RecheckFull(w)
  <2>1. PICK pc \in {"recheck", "insert"}, mode \in Modes :
          hand' = [hand EXCEPT ![w].pc = pc, ![w].mode = mode]
    BY <1>5 DEF SelectMode, RecheckFull, Modes
  <2>2. hand'[w].pc = pc /\ hand'[w].job = hand[w].job /\ hand'[w].run = hand[w].run
    BY <1>0, <2>1 DEF Handler
  <2>3. hand[w].pc \in Seeking
    BY <1>5 DEF SelectMode, RecheckFull, Seeking
  <2>4. QED BY <2>1, <2>2, <2>3 DEF Seeking
<1>6. CASE ResolveManual(w)
  <2>1. PICK m \in Manuals : m = hand[w].job /\ req[m].run \in RunIds /\ m \notin Occurrences
    BY <1>0, <1>6, Names DEF ResolveManual, PlacedAt
  <2>2. req[m].run \in CarriedBy(m)'
    BY <1>6, <2>1, Names DEF ResolveManual, CarriedBy
  <2>3. QED BY <1>2, <1>4, <1>6, <2>1, <2>2 DEF ResolveManual
<1>7. CASE LookupPersisted(w) \/ ReloadPersisted(w)
  <2>1. PICK o \in Occurrences : o = hand[w].job
    BY <1>0, <1>7 DEF LookupPersisted, ReloadPersisted, PlacedAt, Seeking
  <2>2. run' = run /\ (FindPersisted(w, "blocker") \/ FindPersisted(w, "winner"))
    BY <1>7 DEF LookupPersisted, ReloadPersisted
  <2>3. CASE \E pc \in {"blocker", "winner"} : Goto(w, pc)
    BY <1>3, <1>7, <2>3 DEF LookupPersisted, ReloadPersisted, Seeking
  <2>4. CASE \E r \in ByKey(o) : TakeUp(w, r)
    <3>1. PICK r \in ByKey(o) : TakeUp(w, r)
      BY <2>4
    <3>2. r \in RunIds /\ r \in CarriedBy(o)'
      BY <2>1, <2>2, <3>1 DEF ByKey, CarriedBy
    <3>3. QED BY <1>4, <2>1, <3>1, <3>2
  <2>5. QED BY <1>2, <2>1, <2>2, <2>3, <2>4 DEF FindPersisted
<1>8. CASE FindBlocker(w)
  BY <1>2, <1>3, <1>8 DEF FindBlocker, Seeking
<1>9. CASE InsertScheduled(w)
  <2>1. PICK o \in Occurrences : o = hand[w].job
    BY <1>0, <1>9 DEF InsertScheduled, PlacedAt, Seeking
  <2>2. CASE Goto(w, "persisted")
    BY <1>3, <1>9, <2>2 DEF InsertScheduled, Seeking
  <2>3. CASE \E r \in RunIds : Insert(r, ScheduledRow(o, hand[w].mode)) /\ TakeUp(w, r)
    <3>1. PICK r \in RunIds : Insert(r, ScheduledRow(o, hand[w].mode)) /\ TakeUp(w, r)
      BY <2>3
    <3>2. run'[r] = ScheduledRow(o, hand[w].mode)
      BY <3>1 DEF Insert, TypeOK
    <3>3. r \in CarriedBy(o)'
      BY <2>1, <3>2 DEF CarriedBy, ByKey, ScheduledRow
    <3>4. QED BY <1>4, <2>1, <3>1, <3>3
  <2>4. QED BY <1>9, <2>1, <2>2, <2>3 DEF InsertScheduled
<1>10. CASE FindWinner(w)
  <2>1. CASE hand' = [hand EXCEPT ![w].pc = "insert", ![w].mode = "incremental"]
    BY <1>0, <1>10, <2>1 DEF FindWinner, Handler, Seeking
  <2>2. QED BY <1>2, <1>10, <2>1 DEF FindWinner
<1>11. CASE SkipScheduled(w) \/ FailRun(w)
  BY <1>2, <1>11 DEF SkipScheduled, FailRun
<1>12. CASE BeginThrows(w) /\ hand[w].pc \in Beginning
  BY <1>2, <1>3, <1>12 DEF BeginThrows, Beginning
<1>13. CASE BeginRead(w) \/ BeginClaim(w) \/ BeginFanout(w)
  BY <1>2, <1>3, <1>12, <1>13 DEF BeginRead, BeginClaim, BeginFanout, Beginning
<1>14. CASE RoundTripFails(w)
  BY <1>2, <1>12, <1>14 DEF RoundTripFails, Beginning
<1>15. QED BY <1>2, <1>5, <1>6, <1>7, <1>8, <1>9, <1>10, <1>11, <1>13, <1>14 DEF WorkerStep, HandlerStep

LEMMA NextPlaced == TypeOK /\ Placed /\ [Next]_vars => Placed'
<1> SUFFICES ASSUME TypeOK, Placed, [Next]_vars, NEW w \in Workers PROVE PlacedAt(w)'
  BY NextRequested DEF Placed
<1>0. hand \in [Workers -> Handler] /\ PlacedAt(w) /\ Requested
  BY DEF TypeOK, Placed
<1>1. CASE hand'[w] = hand[w]
  <2>1. \A j \in Jobs : CarriedBy(j) \subseteq CarriedBy(j)'
    BY CarriedGrows
  <2>2. \A m \in Manuals : req[m].run \in RunIds => req'[m].run \in RunIds
    BY RequestsKept
  <2>3. hand[w].pc \in Beginning => hand[w].job \in Jobs
    BY <1>0 DEF PlacedAt, Beginning
  <2>4. hand[w].pc \in Beginning => hand'[w].run \in CarriedBy(hand[w].job)'
    <3>1. ASSUME hand[w].pc \in Beginning PROVE hand'[w].run \in CarriedBy(hand[w].job)'
      <4>1. PICK j \in Jobs : j = hand[w].job
        BY <2>3, <3>1
      <4>2. CarriedBy(j) \subseteq CarriedBy(j)' /\ hand'[w].run \in CarriedBy(j)
        BY <1>0, <1>1, <2>1, <3>1, <4>1 DEF PlacedAt
      <4>3. j = hand'[w].job
        BY <1>1, <4>1
      <4>4. QED BY <1>1, <4>1, <4>2, <4>3
    <3>2. QED BY <3>1
  <2>5. QED BY <1>0, <1>1, <2>2, <2>4 DEF PlacedAt
<1>2. CASE hand'[w] = IdleHandler
  BY <1>2, IdleType DEF PlacedAt, Seeking, Beginning
<1>3. CASE WorkerStep(w)
  <2>0. hand[w].pc # "idle" /\ hand[w].job \in Jobs
    BY <1>3, WorkerEffects
  <2>1. CASE hand[w].pc \in Seeking /\ hand'[w].pc \in Seeking
             /\ hand'[w].job = hand[w].job /\ hand'[w].run = hand[w].run
    BY <1>0, <2>0, <2>1 DEF PlacedAt, Seeking, Beginning
  <2>2. CASE hand'[w].pc = "begin" /\ hand'[w].job = hand[w].job
             /\ hand'[w].run \in CarriedBy(hand[w].job)' /\ hand'[w].run \in RunIds
    BY <2>0, <2>2 DEF PlacedAt, Seeking, Beginning
  <2>3. CASE hand[w].pc \in Beginning /\ hand'[w].pc \in Beginning
             /\ hand'[w].job = hand[w].job /\ hand'[w].run = hand[w].run
    <3>1. PICK j \in Jobs : j = hand[w].job
      BY <2>0
    <3>2. hand[w].run \in CarriedBy(j) /\ hand[w].run \in RunIds
      BY <1>0, <2>3, <3>1 DEF PlacedAt
    <3>3. hand'[w].run \in CarriedBy(j)' /\ j = hand'[w].job
      BY <2>3, <3>1, <3>2, CarriedGrows
    <3>4. QED BY <2>3, <3>2, <3>3 DEF PlacedAt, Seeking, Beginning
  <2>4. QED BY <1>2, <1>3, <2>1, <2>2, <2>3, HandlerMoves
<1>4. ASSUME NEW j \in Jobs, Deliver(w, j) PROVE PlacedAt(w)'
  <2>1. hand'[w].job = j /\ hand'[w].run = NoRun
        /\ hand'[w].pc = IF j \in Occurrences THEN "lookup" ELSE "resolve"
    BY <1>0, <1>4 DEF Deliver, IdleHandler
  <2>2. j \notin Occurrences => j \in Manuals /\ req[j].run \in RunIds
    BY <1>0, <1>4 DEF Deliver, Requested, Jobs
  <2>3. req' = req
    BY <1>4 DEF Deliver
  <2>4. QED BY <2>1, <2>2, <2>3 DEF PlacedAt, Seeking, Beginning
<1>5. ASSUME NEW v \in Workers, v # w, WorkerStep(v) PROVE hand'[w] = hand[w]
  BY <1>5, WorkerEffects
<1>6. ASSUME NEW v \in Workers, NEW j \in Jobs, v # w, Deliver(v, j) PROVE hand'[w] = hand[w]
  BY <1>6 DEF Deliver
<1>7. QED BY <1>1, <1>3, <1>4, <1>5, <1>6
      DEF Next, WorkerStep, TriggerManual, QueueManual, ManualFault, LoseLock, Settle, vars

-----------------------------------------------------------------------------
(* One run per occurrence *)

Keyed ==
  /\ \A o \in Occurrences : made[o] = ByKey(o)
  /\ \A o \in Occurrences : \A r, q \in ByKey(o) : r = q
  /\ \A r \in RunIds : run[r].status # "absent" /\ run[r].key # NoKey => run[r].key \in Occurrences

SafeInv == TypeOK /\ Placed /\ Keyed

LEMMA InitKeyed == Init => Keyed
BY DEF Init, Keyed, ByKey, NoRow

\* What an insertion adds to each occurrence.
LEMMA InsertedKeys ==
  ASSUME TypeOK, NEW r \in RunIds, NEW row \in Run, Inserted(r, row), NEW o \in Occurrences
  PROVE  /\ ByKey(o)' = IF row.key = o THEN ByKey(o) \union {r} ELSE ByKey(o)
         /\ made'[o] = IF row.key = o THEN made[o] \union {r} ELSE made[o]
         /\ row.key = o => ByKey(o) = {}
<1>1. run'[r] = row /\ row.status # "absent" /\ run[r].status = "absent"
  BY DEF TypeOK, Inserted, Insert, Unused
<1>2. \A q \in RunIds : q # r => run'[q] = run[q]
  BY DEF TypeOK, Inserted, Insert
<1>3. ByKey(o)' = IF row.key = o THEN ByKey(o) \union {r} ELSE ByKey(o)
  BY <1>1, <1>2 DEF ByKey
<1>4. row.key = o => ByKey(o) = {}
  BY Names DEF Inserted, Conflicts
<1>5. made'[o] = IF row.key = o THEN made[o] \union {r} ELSE made[o]
  BY Names DEF TypeOK, Inserted
<1>6. QED BY <1>3, <1>4, <1>5

LEMMA MovedKeys ==
  ASSUME TypeOK, NEW r \in RunIds, NEW status \in {"running"} \union Settled, Moved(r, status)
  PROVE  /\ \A q \in RunIds : run'[q].key = run[q].key
         /\ \A q \in RunIds : run'[q].kind = run[q].kind /\ run'[q].mode = run[q].mode
         /\ \A q \in RunIds : run'[q].status = IF q = r THEN status ELSE run[q].status
         /\ \A o \in Occurrences : ByKey(o)' = ByKey(o)
         /\ made' = made
<1>1. \A q \in RunIds : /\ run'[q].key = run[q].key
                        /\ run'[q].kind = run[q].kind /\ run'[q].mode = run[q].mode
                        /\ run'[q].status = IF q = r THEN status ELSE run[q].status
  BY DEF TypeOK, Moved, SetStatus, Run
<1>2. status # "absent" /\ run[r].status # "absent"
  BY DEF Moved, IsActive, Active, Settled
<1>3. \A o \in Occurrences : ByKey(o)' = ByKey(o)
  BY <1>1, <1>2 DEF ByKey
<1>4. QED BY <1>1, <1>3 DEF Moved

LEMMA NextKeyed == SafeInv /\ [Next]_vars => Keyed'
<1> SUFFICES ASSUME SafeInv, [Next]_vars PROVE Keyed'
  OBVIOUS
<1>0. TypeOK /\ Placed /\ Keyed
  BY DEF SafeInv
<1>1. CASE run' = run /\ made' = made
  BY <1>0, <1>1 DEF Keyed, ByKey
<1>2. ASSUME NEW r \in RunIds, NEW row \in Run, Inserted(r, row) PROVE Keyed'
  <2>1. ASSUME NEW o \in Occurrences PROVE made'[o] = ByKey(o)' /\ \A q, p \in ByKey(o)' : q = p
    <3>1. /\ ByKey(o)' = IF row.key = o THEN ByKey(o) \union {r} ELSE ByKey(o)
          /\ made'[o] = IF row.key = o THEN made[o] \union {r} ELSE made[o]
          /\ row.key = o => ByKey(o) = {}
      BY <1>0, <1>2, InsertedKeys
    <3>2. made[o] = ByKey(o) /\ \A q, p \in ByKey(o) : q = p
      BY <1>0 DEF Keyed
    <3>3. QED BY <3>1, <3>2
  <2>2. \A q \in RunIds : run'[q] = IF q = r THEN row ELSE run[q]
    BY <1>0, <1>2 DEF TypeOK, Inserted, Insert
  <2>3. row.key \in Occurrences \union {NoKey}
    BY DEF Run
  <2>4. QED BY <1>0, <2>1, <2>2, <2>3 DEF Keyed
<1>3. ASSUME NEW r \in RunIds, NEW status \in {"running"} \union Settled, Moved(r, status) PROVE Keyed'
  <2>1. \A q \in RunIds : run'[q].status # "absent" => run[q].status # "absent"
    BY <1>0, <1>3, MovedKeys DEF Moved, IsActive, Active
  <2>2. /\ \A q \in RunIds : run'[q].key = run[q].key
        /\ \A o \in Occurrences : ByKey(o)' = ByKey(o)
        /\ made' = made
    BY <1>0, <1>3, MovedKeys
  <2>3. \A o \in Occurrences : made'[o] = ByKey(o)' /\ \A q, p \in ByKey(o)' : q = p
    BY <1>0, <2>2 DEF Keyed
  <2>4. \A q \in RunIds : run'[q].status # "absent" /\ run'[q].key # NoKey => run'[q].key \in Occurrences
    BY <1>0, <2>1, <2>2 DEF Keyed
  <2>5. QED BY <2>3, <2>4 DEF Keyed
<1>4. QED BY <1>0, <1>1, <1>2, <1>3, RunMoves

LEMMA NextSafeInv == SafeInv /\ [Next]_vars => SafeInv'
BY NextTypeOK, NextPlaced, NextKeyed DEF SafeInv

-----------------------------------------------------------------------------
(* The single flight *)

\* What the abstract flights see of a run.
Outcome(r) ==
  IF run[r].status = "absent" \/ ~IsFlight(run[r]) THEN "none"
  ELSE IF IsActive(r) THEN "flying" ELSE run[r].status

LEMMA FlightStep ==
  ASSUME SafeInv, [Next]_vars
  PROVE  \/ \A r \in RunIds : Outcome(r)' = Outcome(r)
         \/ \E r \in RunIds : /\ Outcome(r) = "none" /\ Outcome(r)' = "flying"
                              /\ \A q \in RunIds : Outcome(q) # "flying"
                              /\ \A q \in RunIds \ {r} : Outcome(q)' = Outcome(q)
         \/ \E r \in RunIds : /\ Outcome(r) = "flying" /\ Outcome(r)' \in {"succeeded", "failed"}
                              /\ \A q \in RunIds \ {r} : Outcome(q)' = Outcome(q)
<1>0. TypeOK /\ Placed
  BY DEF SafeInv
<1>1. CASE run' = run
  BY <1>1 DEF Outcome, IsActive
<1>2. ASSUME NEW r \in RunIds, NEW row \in Run, Inserted(r, row)
      PROVE  /\ Outcome(r) = "none" /\ \A q \in RunIds \ {r} : Outcome(q)' = Outcome(q)
             /\ \/ Outcome(r)' = "none"
                \/ Outcome(r)' = "flying" /\ \A q \in RunIds : Outcome(q) # "flying"
  <2>1. run'[r] = row /\ \A q \in RunIds \ {r} : run'[q] = run[q]
    BY <1>0, <1>2 DEF TypeOK, Inserted, Insert
  <2>2. run[r].status = "absent" /\ row.status = "queued"
    BY <1>2 DEF Inserted, Unused
  <2>3. Outcome(r) = "none" /\ \A q \in RunIds \ {r} : Outcome(q)' = Outcome(q)
    BY <2>1, <2>2 DEF Outcome, IsActive
  <2>4. CASE ~IsFlight(row)
    BY <2>1, <2>3, <2>4 DEF Outcome
  <2>5. CASE IsFlight(row)
    <3>1. Outcome(r)' = "flying"
      BY <2>1, <2>2, <2>5 DEF Outcome, IsActive, Active
    <3>2. ActiveFlights = {}
      BY <1>2, <2>5 DEF Inserted, Conflicts
    <3>3. \A q \in RunIds : Outcome(q) # "flying"
      BY <1>0, <3>2 DEF Outcome, ActiveFlights, TypeOK, Run, IsActive, Active, Settled
    <3>4. QED BY <2>3, <3>1, <3>3
  <2>6. QED BY <2>4, <2>5
<1>3. ASSUME NEW r \in RunIds, NEW status \in {"running"} \union Settled, Moved(r, status)
      PROVE  /\ \A q \in RunIds \ {r} : Outcome(q)' = Outcome(q)
             /\ Outcome(r)' = Outcome(r) \/ (Outcome(r) = "flying" /\ Outcome(r)' \in {"succeeded", "failed"})
  <2>1. \A q \in RunIds : IsFlight(run'[q]) <=> IsFlight(run[q])
    BY <1>0, <1>3, MovedKeys DEF IsFlight
  <2>2. \A q \in RunIds : run'[q].status = IF q = r THEN status ELSE run[q].status
    BY <1>0, <1>3, MovedKeys
  <2>3. IsActive(r) /\ run[r].status # "absent"
    BY <1>3 DEF Moved, IsActive, Active
  <2>4. \A q \in RunIds \ {r} : Outcome(q)' = Outcome(q)
    BY <2>1, <2>2 DEF Outcome, IsActive
  <2>5. Outcome(r)' = Outcome(r) \/ (Outcome(r) = "flying" /\ Outcome(r)' \in {"succeeded", "failed"})
    BY <2>1, <2>2, <2>3 DEF Outcome, IsActive, Active, Settled
  <2>6. QED BY <2>4, <2>5
<1>4. CASE \E r \in RunIds, row \in Run : Inserted(r, row)
  <2>1. PICK r \in RunIds, row \in Run : Inserted(r, row)
    BY <1>4
  <2>2. /\ Outcome(r) = "none" /\ \A q \in RunIds \ {r} : Outcome(q)' = Outcome(q)
        /\ \/ Outcome(r)' = "none"
           \/ Outcome(r)' = "flying" /\ \A q \in RunIds : Outcome(q) # "flying"
    BY <1>2, <2>1
  <2>3. QED BY <2>2
<1>5. CASE \E r \in RunIds, status \in {"running"} \union Settled : Moved(r, status)
  <2>1. PICK r \in RunIds, status \in {"running"} \union Settled : Moved(r, status)
    BY <1>5
  <2>2. /\ \A q \in RunIds \ {r} : Outcome(q)' = Outcome(q)
        /\ Outcome(r)' = Outcome(r) \/ (Outcome(r) = "flying" /\ Outcome(r)' \in {"succeeded", "failed"})
    BY <1>3, <2>1
  <2>3. QED BY <2>2
<1>6. QED BY <1>0, <1>1, <1>4, <1>5, RunMoves

LEMMA StepImplementsFlight ==
  ASSUME SafeInv, SafeInv', [Next]_vars
  PROVE  [Flights!Next]_([r \in RunIds |->
            IF run[r].status = "absent" \/ ~IsFlight(run[r]) THEN "none"
            ELSE IF IsActive(r) THEN "flying" ELSE run[r].status])
<1> DEFINE outcome == [r \in RunIds |-> Outcome(r)]
<1>0. outcome = [r \in RunIds |->
            IF run[r].status = "absent" \/ ~IsFlight(run[r]) THEN "none"
            ELSE IF IsActive(r) THEN "flying" ELSE run[r].status]
  BY DEF Outcome
<1>1. CASE \A r \in RunIds : Outcome(r)' = Outcome(r)
  <2>1. outcome' = outcome
    BY <1>1
  <2>2. QED BY <2>1 DEF Outcome
<1>2. ASSUME NEW r \in RunIds, Outcome(r) = "none", Outcome(r)' = "flying",
             \A q \in RunIds : Outcome(q) # "flying", \A q \in RunIds \ {r} : Outcome(q)' = Outcome(q)
      PROVE  Flights!TakeOff(r)
  <2>1. outcome' = [outcome EXCEPT ![r] = "flying"]
    BY <1>2
  <2>2. outcome[r] = "none" /\ \A q \in RunIds : outcome[q] # "flying"
    BY <1>2
  <2>3. QED BY <2>1, <2>2 DEF Flights!TakeOff, Flights!Flying, Outcome
<1>3. ASSUME NEW r \in RunIds, Outcome(r) = "flying", Outcome(r)' \in {"succeeded", "failed"},
             \A q \in RunIds \ {r} : Outcome(q)' = Outcome(q)
      PROVE  Flights!Land(r)
  <2>1. PICK verdict \in {"succeeded", "failed"} : outcome' = [outcome EXCEPT ![r] = verdict]
    BY <1>3
  <2>2. outcome[r] = "flying"
    BY <1>3
  <2>3. QED BY <2>1, <2>2 DEF Flights!Land, Flights!Flying, Outcome
<1>4. QED BY <1>1, <1>2, <1>3, FlightStep DEF Flights!Next

LEMMA InitImplementsFlight == Init => Flights!Init
BY DEF Init, NoRow, Flights!Init

LEMMA SafeInvariance == Spec => []SafeInv
<1>1. Init => SafeInv
  BY InitTypeOK, InitKeyed DEF SafeInv
<1>2. QED BY <1>1, NextSafeInv, PTL DEF Spec

\* The rows, the jobs and the handlers keep their types.
THEOREM TypeCorrect == Spec => []TypeOK
<1>1. SafeInv => TypeOK
  BY DEF SafeInv
<1>2. QED BY <1>1, SafeInvariance, PTL

\* However often an occurrence is delivered, one run at most is inserted for it.
THEOREM OneRunEach == Spec => []OneRunPerOccurrence
<1>1. SafeInv => OneRunPerOccurrence
  BY DEF SafeInv, Keyed, OneRunPerOccurrence
<1>2. QED BY <1>1, SafeInvariance, PTL

\* Admission implements the single flight.
THEOREM FlightImplemented == Spec => FliesAlone
<1>1. SafeInv /\ SafeInv' /\ [Next]_vars =>
        [Flights!Next]_([r \in RunIds |->
            IF run[r].status = "absent" \/ ~IsFlight(run[r]) THEN "none"
            ELSE IF IsActive(r) THEN "flying" ELSE run[r].status])
  BY StepImplementsFlight
<1>2. QED BY <1>1, InitImplementsFlight, SafeInvariance, PTL DEF Spec, FliesAlone, Flights!Spec

-----------------------------------------------------------------------------
(* Why a job is done *)

\* The ways in which the holder of a job's lock completes it.
LEMMA DoneBy ==
  ASSUME SafeInv, NEW w \in Workers, NEW j \in Jobs, WorkerStep(w), hand[w].job = j,
         OwnsLock(w), job'[j].state = "done"
  PROVE  \/ j \in excused' /\ CarriedBy(j) \subseteq lost'
         \/ j \in Occurrences /\ \E q \in ByKey(j) : ~IsActive(q)
         \/ j \in Occurrences /\ hand[w].pc = "blocker" /\ ActiveFlights # {}
         \/ j \in Occurrences /\ hand[w].pc = "winner"
         \/ j \in Manuals /\ ~IsActive(req[j].run)
         \/ \E r \in RunIds : r \in CarriedBy(j) /\ (~IsActive(r)' \/ r \in fanned')
<1>0. /\ TypeOK /\ Placed /\ PlacedAt(w)
      /\ hand \in [Workers -> Handler] /\ job \in [Jobs -> JobRec]
  BY DEF SafeInv, Placed, TypeOK
<1>1. job[j].state = "active" /\ job' # job
  BY DEF OwnsLock
<1>2. CASE Requeue(j)
  BY <1>0, <1>2 DEF Requeue, GivesUp, JobRec
<1>3. CASE Crash(w)
  BY <1>1, <1>2, <1>3 DEF Crash
<1>4. ASSUME Throw(w) PROVE hand[w].final
  BY <1>0, <1>4 DEF Throw, JobRec
<1>5. ASSUME BeginThrows(w) PROVE FALSE
  BY <1>1, <1>4, <1>5 DEF BeginThrows
<1>6. CASE RoundTripFails(w)
  <2>1. Throw(w) /\ lost' = lost \union CarriedBy(j) /\ excused' = excused \union {j}
    BY <1>4, <1>5, <1>6 DEF RoundTripFails
  <2>2. QED BY <2>1
<1>7. CASE SkipScheduled(w)
  BY <1>7 DEF SkipScheduled
<1>8. CASE LookupPersisted(w) \/ ReloadPersisted(w)
  <2>1. j \in Occurrences
    BY <1>0, <1>8 DEF LookupPersisted, ReloadPersisted, PlacedAt, Seeking
  <2>2. QED BY <1>1, <1>8, <2>1 DEF LookupPersisted, ReloadPersisted, FindPersisted, canBeginPersistedDelivery
<1>9. CASE FindBlocker(w) \/ FindWinner(w)
  <2>1. j \in Occurrences
    BY <1>0, <1>9 DEF FindBlocker, FindWinner, PlacedAt, Seeking
  <2>2. QED BY <1>1, <1>9, <2>1 DEF FindBlocker, FindWinner, Blockers
<1>10. CASE ResolveManual(w)
  BY <1>0, <1>1, <1>10 DEF ResolveManual, PlacedAt
<1>11. CASE SelectMode(w) \/ RecheckFull(w) \/ InsertScheduled(w)
  BY <1>1, <1>11 DEF SelectMode, RecheckFull, InsertScheduled
<1>12. CASE BeginRead(w) \/ BeginClaim(w) \/ BeginFanout(w) \/ FailRun(w)
  <2>1. PICK r \in RunIds : r = hand[w].run /\ r \in CarriedBy(j)
    BY <1>0, <1>12 DEF BeginRead, BeginClaim, BeginFanout, FailRun, PlacedAt, Beginning
  <2>2. ~BeginRead(w)
    BY <1>1, <1>5 DEF BeginRead
  <2>3. ASSUME NEW status \in Settled, SetStatus(r, status) PROVE ~IsActive(r)'
    BY <1>0, <2>3 DEF SetStatus, TypeOK, Run, IsActive, Active, Settled
  <2>4. CASE BeginClaim(w)
    <3>1. IF IsActive(r) THEN SetStatus(r, "succeeded") ELSE run' = run
      BY <1>1, <2>1, <2>4 DEF BeginClaim
    <3>2. ~IsActive(r)'
      BY <2>3, <3>1 DEF IsActive, Settled
    <3>3. QED BY <2>1, <3>2
  <2>5. CASE BeginFanout(w)
    BY <2>1, <2>5 DEF BeginFanout
  <2>6. CASE FailRun(w)
    <3>1. IF IsActive(r) THEN SetStatus(r, "failed") ELSE run' = run
      BY <2>1, <2>6 DEF FailRun, FailIfActive
    <3>2. ~IsActive(r)'
      BY <2>3, <3>1 DEF IsActive, Settled
    <3>3. QED BY <2>1, <3>2
  <2>7. QED BY <1>12, <2>2, <2>4, <2>5, <2>6
<1>13. QED BY <1>3, <1>6, <1>7, <1>8, <1>9, <1>10, <1>11, <1>12 DEF WorkerStep, HandlerStep

\* Any step that completes a job is one of those, or gives the job up.
LEMMA DoneStep ==
  ASSUME SafeInv, [Next]_vars, NEW j \in Jobs, job[j].state # "done", job'[j].state = "done"
  PROVE  \/ j \in excused' /\ CarriedBy(j) \subseteq lost'
         \/ \E w \in Workers : WorkerStep(w) /\ hand[w].job = j /\ OwnsLock(w)
<1>0. TypeOK /\ Placed /\ job \in [Jobs -> JobRec]
  BY DEF SafeInv, TypeOK
<1>1. ASSUME NEW w \in Workers, WorkerStep(w) PROVE hand[w].job = j /\ OwnsLock(w)
  BY <1>0, <1>1, WorkerEffects DEF Ends
<1>2. ASSUME NEW k \in Jobs, LoseLock(k) PROVE j \in excused' /\ CarriedBy(j) \subseteq lost'
  BY <1>0, <1>2 DEF LoseLock, Requeue, GivesUp, JobRec
<1>3. ASSUME NEW w \in Workers, NEW k \in Jobs, Deliver(w, k) PROVE FALSE
  BY <1>0, <1>3 DEF Deliver, JobRec
<1>4. ASSUME NEW m \in Manuals, QueueManual(m) PROVE FALSE
  BY <1>0, <1>4 DEF QueueManual, JobRec
<1>5. QED BY <1>1, <1>2, <1>3, <1>4 DEF Next, WorkerStep, TriggerManual, ManualFault, Settle, vars

\* History only grows.
LEMMA HistoryGrows ==
  ASSUME SafeInv, [Next]_vars
  PROVE  /\ met \subseteq met' /\ excused \subseteq excused' /\ lost \subseteq lost' /\ fanned \subseteq fanned'
         /\ \A o \in Occurrences : made[o] \subseteq made'[o]
<1>0. TypeOK /\ Placed
  BY DEF SafeInv
<1>1. met \subseteq met'
  BY DEF Next, TriggerManual, QueueManual, ManualFault, Deliver, LoseLock, Crash, RoundTripFails, Settle,
         HandlerStep, ResolveManual, SkipScheduled, LookupPersisted, FindBlocker, SelectMode, RecheckFull,
         InsertScheduled, ReloadPersisted, FindWinner, BeginRead, BeginClaim, BeginFanout, FailRun, Insert, vars
<1>2. fanned \subseteq fanned'
  BY DEF Next, TriggerManual, QueueManual, ManualFault, Deliver, LoseLock, Crash, RoundTripFails, Settle,
         HandlerStep, ResolveManual, SkipScheduled, LookupPersisted, FindBlocker, SelectMode, RecheckFull,
         InsertScheduled, ReloadPersisted, FindWinner, BeginRead, BeginClaim, BeginFanout, FailRun, vars
<1>3. excused \subseteq excused' /\ lost \subseteq lost'
  <2>1. ASSUME NEW j, Requeue(j) PROVE excused \subseteq excused' /\ lost \subseteq lost'
    BY <2>1 DEF Requeue, GivesUp
  <2>2. ASSUME NEW w \in Workers, DiesAlone(w) PROVE excused \subseteq excused' /\ lost \subseteq lost'
    BY <2>2 DEF DiesAlone
  <2>3. ASSUME NEW w \in Workers, HandlerStep(w) PROVE excused \subseteq excused' /\ lost \subseteq lost'
    BY <2>3
    DEF HandlerStep, ResolveManual, SkipScheduled, LookupPersisted, FindBlocker, SelectMode, RecheckFull,
        InsertScheduled, ReloadPersisted, FindWinner, BeginRead, BeginClaim, BeginFanout, FailRun
  <2>4. QED BY <2>1, <2>2, <2>3
        DEF Next, TriggerManual, QueueManual, ManualFault, Deliver, LoseLock, Crash, RoundTripFails, Settle, vars
<1>4. \A o \in Occurrences : made[o] \subseteq made'[o]
  BY <1>0, RunMoves, InsertedKeys DEF Moved
<1>5. QED BY <1>1, <1>2, <1>3, <1>4

-----------------------------------------------------------------------------
(* An occurrence is turned away by an active flight only *)

\* A handler of an occurrence without a run has met every flight that was
\* active since it came; a lost race for the insertion was such a meeting.
Awaited ==
  \A w \in Workers : \A o \in Occurrences :
    hand[w].pc # "idle" /\ hand[w].job = o /\ made[o] = {} =>
      /\ ActiveFlights # {} => o \in met
      /\ hand[w].pc \in {"persisted", "winner"} => o \in met

\* How a handler comes to where a lost race has been noticed.
LEMMA LostRace ==
  ASSUME SafeInv, NEW w \in Workers, WorkerStep(w), hand'[w].pc \in {"persisted", "winner"}
  PROVE  \/ hand[w].pc \in {"persisted", "winner"}
         \/ \E row \in Run : row.key = hand[w].job /\ Conflicts(row)
<1>0. TypeOK /\ PlacedAt(w) /\ hand \in [Workers -> Handler]
  BY DEF SafeInv, Placed, TypeOK
<1>1. CASE hand'[w] = IdleHandler
  BY <1>1, IdleType
<1>2. CASE Return(w) \/ Throw(w) \/ Crash(w)
  BY <1>0, <1>1, <1>2 DEF Return, Throw, Crash
<1>3. ASSUME NEW pc, Goto(w, pc) PROVE pc \in {"persisted", "winner"}
  BY <1>0, <1>3 DEF Goto, Handler
<1>4. ASSUME NEW r, TakeUp(w, r) PROVE FALSE
  BY <1>0, <1>4 DEF TakeUp, Handler
<1>5. CASE InsertScheduled(w)
  <2>1. hand[w].job \in Occurrences /\ hand[w].mode \in Modes
    BY <1>0, <1>5 DEF InsertScheduled, PlacedAt, Seeking, Handler
  <2>2. Conflicts(ScheduledRow(hand[w].job, hand[w].mode))
    BY <1>4, <1>5 DEF InsertScheduled
  <2>3. QED BY <2>1, <2>2, RowTypes DEF ScheduledRow
<1>6. CASE SelectMode(w) \/ RecheckFull(w)
  <2>1. PICK pc \in {"recheck", "insert"}, mode \in Modes :
          hand' = [hand EXCEPT ![w].pc = pc, ![w].mode = mode]
    BY <1>6 DEF SelectMode, RecheckFull, Modes
  <2>2. hand'[w].pc = pc
    BY <1>0, <2>1 DEF Handler
  <2>3. QED BY <2>2
<1>7. CASE FindWinner(w) \/ ReloadPersisted(w)
  BY <1>7 DEF FindWinner, ReloadPersisted
<1>8. CASE LookupPersisted(w) \/ FindBlocker(w) \/ ResolveManual(w) \/ SkipScheduled(w)
  BY <1>2, <1>3, <1>4, <1>8 DEF LookupPersisted, FindPersisted, FindBlocker, ResolveManual, SkipScheduled
<1>9. CASE BeginThrows(w)
  BY <1>2, <1>3, <1>9 DEF BeginThrows
<1>10. CASE BeginRead(w) \/ BeginClaim(w) \/ BeginFanout(w) \/ FailRun(w) \/ RoundTripFails(w)
  BY <1>2, <1>3, <1>9, <1>10 DEF BeginRead, BeginClaim, BeginFanout, FailRun, RoundTripFails
<1>11. QED BY <1>2, <1>5, <1>6, <1>7, <1>8, <1>10 DEF WorkerStep, HandlerStep

\* A flight becomes active by an insertion, and those being handled meet it.
LEMMA FlightRises ==
  ASSUME SafeInv, [Next]_vars, ActiveFlights = {}, ActiveFlights' # {},
         NEW o \in Occurrences, made[o] = {}, NEW w \in Workers, hand[w].job = o
  PROVE  o \in met'
<1>0. TypeOK /\ Placed
  BY DEF SafeInv
<1>1. CASE run' = run
  BY <1>1 DEF ActiveFlights, IsActive
<1>2. ASSUME NEW r \in RunIds, NEW status \in {"running"} \union Settled, Moved(r, status) PROVE FALSE
  <2>1. \A q \in RunIds : IsFlight(run'[q]) <=> IsFlight(run[q])
    BY <1>0, <1>2, MovedKeys DEF IsFlight
  <2>2. \A q \in RunIds : run'[q].status \in Active => run[q].status \in Active
    BY <1>0, <1>2, MovedKeys DEF Moved, IsActive
  <2>3. QED BY <2>1, <2>2 DEF ActiveFlights, IsActive
<1>3. ASSUME NEW r \in RunIds, NEW row \in Run, Inserted(r, row) PROVE o \in met'
  <2>1. CASE IsFlight(row)
    BY <1>3, <2>1 DEF Inserted, Insert
  <2>2. CASE ~IsFlight(row)
    <3>1. \A q \in RunIds : run'[q] = IF q = r THEN row ELSE run[q]
      BY <1>0, <1>3 DEF TypeOK, Inserted, Insert
    <3>2. QED BY <2>2, <3>1 DEF ActiveFlights, IsActive
  <2>3. QED BY <2>1, <2>2
<1>4. QED BY <1>0, <1>1, <1>2, <1>3, RunMoves

LEMMA NextAwaited == SafeInv /\ Awaited /\ [Next]_vars => Awaited'
<1> SUFFICES ASSUME SafeInv, Awaited, [Next]_vars, NEW w \in Workers, NEW o \in Occurrences,
                    hand'[w].pc # "idle", hand'[w].job = o, made'[o] = {}
             PROVE  /\ ActiveFlights' # {} => o \in met'
                    /\ hand'[w].pc \in {"persisted", "winner"} => o \in met'
  BY DEF Awaited
<1>0. TypeOK /\ Placed /\ hand \in [Workers -> Handler] /\ made[o] = {} /\ met \subseteq met'
  BY HistoryGrows DEF SafeInv, TypeOK
<1>1. CASE hand[w].pc # "idle" /\ hand[w].job = o /\ ~WorkerStep(w) /\ hand'[w] = hand[w]
  BY <1>0, <1>1, FlightRises DEF Awaited
<1>2. CASE WorkerStep(w)
  <2>1. hand[w].pc # "idle" /\ hand[w].job = o
    BY <1>0, <1>2, WorkerEffects, HandlerMoves, IdleType
  <2>2. ActiveFlights # {} => o \in met
    BY <1>0, <2>1 DEF Awaited
  <2>3. ActiveFlights' # {} => o \in met'
    BY <1>0, <2>1, <2>2, FlightRises
  <2>4. ASSUME hand'[w].pc \in {"persisted", "winner"} PROVE o \in met'
    <3>1. CASE hand[w].pc \in {"persisted", "winner"}
      BY <1>0, <2>1, <3>1 DEF Awaited
    <3>2. ASSUME NEW row \in Run, row.key = o, Conflicts(row) PROVE o \in met'
      <4>1. ByKey(o) = {}
        BY <1>0 DEF SafeInv, Keyed
      <4>2. ActiveFlights # {}
        BY <3>2, <4>1 DEF Conflicts
      <4>3. QED BY <1>0, <2>2, <4>2
    <3>3. QED BY <1>2, <2>1, <2>4, <3>1, <3>2, LostRace
  <2>5. QED BY <2>3, <2>4
<1>3. ASSUME NEW j \in Jobs, Deliver(w, j) PROVE (ActiveFlights' # {} => o \in met') /\ hand'[w].pc = "lookup"
  <2>1. hand'[w].job = j /\ hand'[w].pc = IF j \in Occurrences THEN "lookup" ELSE "resolve"
    BY <1>0, <1>3 DEF Deliver, IdleHandler
  <2>2. ActiveFlights' = ActiveFlights
    BY <1>3 DEF Deliver, ActiveFlights, IsActive
  <2>3. QED BY <1>0, <1>3, <2>1, <2>2 DEF Deliver
<1>4. ASSUME NEW v \in Workers, v # w, WorkerStep(v) PROVE hand'[w] = hand[w]
  BY <1>0, <1>4, WorkerEffects
<1>5. ASSUME NEW v \in Workers, NEW j \in Jobs, v # w, Deliver(v, j) PROVE hand'[w] = hand[w]
  BY <1>5 DEF Deliver
<1>6. hand'[w] = hand[w] \/ WorkerStep(w) \/ \E j \in Jobs : Deliver(w, j)
  BY <1>4, <1>5 DEF Next, WorkerStep, TriggerManual, QueueManual, ManualFault, LoseLock, Settle, vars
<1>7. QED BY <1>1, <1>2, <1>3, <1>6

LEMMA NextTurnedAway == SafeInv /\ Awaited /\ TurnedAwayByAFlight /\ [Next]_vars => TurnedAwayByAFlight'
<1> SUFFICES ASSUME SafeInv, Awaited, TurnedAwayByAFlight, [Next]_vars,
                    NEW o \in Occurrences, job'[o].state = "done", made'[o] = {}
             PROVE  o \in excused' \/ o \in met'
  BY DEF TurnedAwayByAFlight
<1>0. TypeOK /\ Placed /\ made[o] = {} /\ met \subseteq met' /\ excused \subseteq excused' /\ o \in Jobs
  BY HistoryGrows DEF SafeInv, Jobs
<1>1. CASE job[o].state = "done"
  BY <1>0, <1>1 DEF TurnedAwayByAFlight
<1>2. ASSUME NEW w \in Workers, WorkerStep(w), hand[w].job = o, OwnsLock(w)
      PROVE  o \in excused' \/ o \in met'
  <2>1. ByKey(o) = {} /\ CarriedBy(o) = {} /\ o \notin Manuals
    BY <1>0, Names DEF SafeInv, Keyed, CarriedBy
  <2>2. o \in excused' \/ hand[w].pc = "winner" \/ ActiveFlights # {}
    BY <1>0, <1>2, <2>1, DoneBy
  <2>3. hand[w].pc # "idle"
    BY <1>0, <1>2, WorkerEffects
  <2>4. QED BY <1>0, <1>2, <2>2, <2>3 DEF Awaited
<1>3. QED BY <1>0, <1>1, <1>2, DoneStep

\* A scheduled occurrence ends without a run only for a reason: it met a flight
\* that was active meanwhile, it was skipped, or a fault ended it.
THEOREM TurnedAwayForAReason == Spec => []TurnedAwayByAFlight
<1> DEFINE IInv == SafeInv /\ Awaited /\ TurnedAwayByAFlight
<1>1. Init => IInv
  <2>1. Init => SafeInv
    BY InitTypeOK, InitKeyed DEF SafeInv
  <2>2. Init => Awaited
    BY IdleType DEF Init, Awaited
  <2>3. Init => TurnedAwayByAFlight
    BY DEF Init, TurnedAwayByAFlight, QueuedJob, Jobs
  <2>4. QED BY <2>1, <2>2, <2>3
<1>2. IInv /\ [Next]_vars => IInv'
  BY NextSafeInv, NextAwaited, NextTurnedAway
<1>3. QED BY <1>1, <1>2, PTL DEF Spec

-----------------------------------------------------------------------------
(* No run is stranded *)

Unbegun(r) == IsActive(r) /\ r \notin fanned /\ r \notin lost

InHand(r) == \E w \in Workers : hand[w].run = r /\ hand[w].pc # "idle"

Pending(j) == job[j].state \in {"waiting", "active"}

\* Every run belongs to a job of its own, and an occurrence is tried once.
Rooted ==
  /\ \A r \in RunIds : run[r].status # "absent" => \E j \in Jobs : r \in CarriedBy(j)
  /\ \A m \in Manuals : req[m].run \in RunIds =>
       run[req[m].run].status # "absent" /\ run[req[m].run].key = NoKey
  /\ \A o \in Occurrences : job[o].attempt = 1
  /\ \A w \in Workers : hand[w].pc # "idle" /\ hand[w].job \in Occurrences => hand[w].final

\* The run of a request that is not begun has its request or its job...
ManualsCarried ==
  \A m \in Manuals : \A r \in RunIds :
    req[m].run = r /\ Unbegun(r) => req[m].pc = "inserted" \/ Pending(m)

\* ... and that of an occurrence its job or a handler.
OccurrencesCarried ==
  \A o \in Occurrences : \A r \in ByKey(o) : Unbegun(r) => Pending(o) \/ InHand(r)

\* While a handler with the lock is past the look-up, a run of its occurrence is
\* another handler's, which lost the lock after it came.
Shadowed ==
  \A w \in Workers : \A o \in Occurrences :
    hand[w].pc \in Seeking \ {"lookup"} /\ hand[w].job = o /\ OwnsLock(w) =>
      \A r \in ByKey(o) : Unbegun(r) => InHand(r)

CarryInv == SafeInv /\ Rooted /\ ManualsCarried /\ OccurrencesCarried /\ Shadowed

LEMMA UnbegunBefore ==
  ASSUME SafeInv, [Next]_vars, NEW r \in RunIds, Unbegun(r)'
  PROVE  Unbegun(r) \/ (run[r].status = "absent" /\ \E row \in Run : Inserted(r, row))
<1>0. TypeOK /\ Placed /\ lost \subseteq lost' /\ fanned \subseteq fanned'
  BY HistoryGrows DEF SafeInv
<1>1. IsActive(r) => Unbegun(r)
  BY <1>0 DEF Unbegun
<1>2. CASE run' = run
  BY <1>1, <1>2 DEF Unbegun, IsActive
<1>3. ASSUME NEW q \in RunIds, NEW row \in Run, Inserted(q, row)
      PROVE  IsActive(r) \/ (run[r].status = "absent" /\ Inserted(r, row))
  <2>1. r # q => run'[r] = run[r]
    BY <1>0, <1>3 DEF TypeOK, Inserted, Insert
  <2>2. run[q].status = "absent"
    BY <1>3 DEF Inserted, Unused
  <2>3. CASE r = q
    BY <1>3, <2>2, <2>3
  <2>4. CASE r # q
    BY <2>1, <2>4 DEF Unbegun, IsActive
  <2>5. QED BY <2>3, <2>4
<1>4. ASSUME NEW q \in RunIds, NEW status \in {"running"} \union Settled, Moved(q, status)
      PROVE  IsActive(r)
  BY <1>0, <1>4, MovedKeys DEF Moved, Unbegun, IsActive
<1>5. QED BY <1>0, <1>1, <1>2, <1>3, <1>4, RunMoves

\* Where an insertion leaves the new run.
LEMMA InsertedWhere ==
  ASSUME SafeInv, NEW r \in RunIds, NEW row \in Run, Inserted(r, row)
  PROVE  /\ run'[r] = row
         /\ \/ row.key = NoKey /\ \E m \in Manuals : req'[m] = [pc |-> "inserted", run |-> r]
            \/ row.key \in Occurrences /\ InHand(r)'
<1>1. run'[r] = row
  BY DEF SafeInv, TypeOK, Inserted, Insert
<1>2. QED BY <1>1 DEF Inserted, InHand

\* A job carries one run at most.
LEMMA OneCarried ==
  ASSUME SafeInv, NEW j \in Jobs, NEW r \in CarriedBy(j), NEW q \in CarriedBy(j)
  PROVE  r = q
BY DEF SafeInv, Keyed, CarriedBy

\* The jobs of two kinds of runs are their own.
LEMMA OwnJob ==
  ASSUME SafeInv, Rooted, NEW o \in Occurrences, NEW r \in ByKey(o), NEW j \in Jobs, r \in CarriedBy(j)
  PROVE  j = o
<1>1. CASE j \in Occurrences
  BY <1>1 DEF CarriedBy, ByKey
<1>2. CASE j \notin Occurrences
  <2>1. j \in Manuals /\ req[j].run = r /\ r \in RunIds /\ run[r].key = o
    BY <1>2 DEF CarriedBy, ByKey, Jobs
  <2>2. run[r].key = NoKey
    BY <2>1 DEF Rooted
  <2>3. QED BY <2>1, <2>2, Names
<1>3. QED BY <1>1, <1>2

LEMMA NextRooted == SafeInv /\ Rooted /\ [Next]_vars => Rooted'
<1> SUFFICES ASSUME SafeInv, Rooted, [Next]_vars PROVE Rooted'
  OBVIOUS
<1>0. /\ TypeOK /\ Placed /\ SafeInv' /\ job \in [Jobs -> JobRec] /\ hand \in [Workers -> Handler]
      /\ req' \in [Manuals -> Request]
  BY NextSafeInv DEF SafeInv, TypeOK
<1>1. ASSUME NEW r \in RunIds, run'[r].status # "absent" PROVE \E j \in Jobs : r \in CarriedBy(j)'
  <2>1. CASE run[r].status # "absent"
    BY <1>0, <2>1, CarriedGrows DEF Rooted
  <2>2. ASSUME NEW row \in Run, Inserted(r, row) PROVE \E j \in Jobs : r \in CarriedBy(j)'
    <3>1. CASE row.key = NoKey
      <4>1. PICK m \in Manuals : req'[m] = [pc |-> "inserted", run |-> r]
        BY <1>0, <2>2, <3>1, InsertedWhere, Names
      <4>2. m \in Jobs /\ r \in CarriedBy(m)'
        BY <4>1, Names DEF Jobs, CarriedBy
      <4>3. QED BY <4>2
    <3>2. CASE row.key \in Occurrences
      <4>1. row.key \in Jobs /\ r \in CarriedBy(row.key)'
        BY <1>1, <2>2, <3>2, InsertedWhere DEF Jobs, CarriedBy, ByKey
      <4>2. QED BY <4>1
    <3>3. QED BY <2>2, <3>1, <3>2, InsertedWhere
  <2>3. ASSUME NEW q \in RunIds, NEW row \in Run, Inserted(q, row), q # r PROVE run'[r] = run[r]
    BY <1>0, <2>3 DEF TypeOK, Inserted, Insert
  <2>4. ASSUME NEW q \in RunIds, NEW status \in {"running"} \union Settled, Moved(q, status)
        PROVE  run[r].status # "absent"
    BY <1>0, <1>1, <2>4, MovedKeys DEF Moved, IsActive, Active
  <2>5. QED BY <1>0, <1>1, <2>1, <2>2, <2>3, <2>4, RunMoves
<1>2. ASSUME NEW m \in Manuals, NEW r \in RunIds, req'[m].run = r
      PROVE  run'[r].status # "absent" /\ run'[r].key = NoKey
  <2>1. CASE req[m].run = r
    BY <1>0, <2>1, RowsKept DEF Rooted
  <2>2. CASE req[m].run # r
    <3>1. req[m].run \notin RunIds
      BY <1>0, <1>2, <2>2, RequestsKept
    <3>2. TriggerManual(m)
      <4>1. ASSUME NEW n \in Manuals, n # m, TriggerManual(n) PROVE req'[m] = req[m]
        BY <1>0, <4>1 DEF TriggerManual, TypeOK
      <4>2. ASSUME NEW n \in Manuals, QueueManual(n) \/ ManualFault(n) PROVE req'[m].run = req[m].run
        BY <1>0, <4>2 DEF QueueManual, ManualFault, TypeOK, Request
      <4>3. QED BY <1>2, <2>2, <4>1, <4>2
            DEF Next, Deliver, LoseLock, Crash, RoundTripFails, Settle, HandlerStep, ResolveManual,
                SkipScheduled, LookupPersisted, FindBlocker, SelectMode, RecheckFull, InsertScheduled,
                ReloadPersisted, FindWinner, BeginRead, BeginClaim, BeginFanout, FailRun, vars
    <3>3. PICK mode \in Modes, q \in RunIds :
            Insert(q, ManualRow(mode)) /\ req' = [req EXCEPT ![m] = [pc |-> "inserted", run |-> q]]
      <4>1. ~(req' = [req EXCEPT ![m].pc = "refused"])
        BY <1>0, <1>2, <2>2 DEF TypeOK, Request
      <4>2. QED BY <3>2, <4>1 DEF TriggerManual
    <3>4. q = r /\ run'[r] = ManualRow(mode)
      BY <1>0, <1>2, <3>3 DEF TypeOK, Insert
    <3>5. QED BY <3>4 DEF ManualRow
  <2>3. QED BY <2>1, <2>2
<1>3. ASSUME NEW o \in Occurrences PROVE job'[o].attempt = 1
  <2>0. o \in Jobs /\ job[o].attempt = 1
    BY DEF Rooted, Jobs
  <2>1. ASSUME NEW j \in Jobs, Requeue(j) PROVE job'[o].attempt = 1
    BY <1>0, <2>0, <2>1 DEF Requeue, GivesUp, DoneJob, QueuedJob, JobRec
  <2>2. ASSUME NEW w \in Workers, hand[w].pc # "idle", Return(w) PROVE job'[o].attempt = 1
    BY <1>0, <2>0, <2>2 DEF Return, DoneJob, QueuedJob, JobRec
  <2>3. ASSUME NEW w \in Workers, hand[w].pc # "idle", Throw(w) PROVE job'[o].attempt = 1
    <3>1. hand[w].job \in Jobs
      BY <1>0, <2>3 DEF Placed, PlacedAt
    <3>2. hand[w].job = o => hand[w].final
      BY <2>3 DEF Rooted
    <3>3. QED BY <1>0, <2>0, <2>3, <3>1, <3>2 DEF Throw, DoneJob, QueuedJob, JobRec
  <2>4. ASSUME NEW j \in Jobs, NEW w \in Workers, Deliver(w, j) PROVE job'[o].attempt = 1
    BY <1>0, <2>0, <2>4 DEF Deliver, JobRec
  <2>5. ASSUME NEW m \in Manuals, QueueManual(m) PROVE job'[o].attempt = 1
    BY <1>0, <2>0, <2>5 DEF QueueManual, JobRec
  <2>6. ASSUME NEW w \in Workers, WorkerStep(w)
        PROVE job' = job \/ (hand[w].pc # "idle" /\ (Return(w) \/ Throw(w) \/ \E j \in Jobs : Requeue(j)))
    <3>1. hand[w].pc # "idle" /\ hand[w].job \in Jobs
      BY <1>0, <2>6, WorkerEffects
    <3>2. QED BY <2>6, <3>1 DEF WorkerStep, HandlerStep, Crash, RoundTripFails, ResolveManual, SkipScheduled,
             LookupPersisted, FindPersisted, FindBlocker, SelectMode, RecheckFull, InsertScheduled,
             ReloadPersisted, FindWinner, BeginRead, BeginThrows, BeginClaim, BeginFanout, FailRun
  <2>7. QED BY <2>0, <2>1, <2>2, <2>3, <2>4, <2>5, <2>6
        DEF Next, WorkerStep, TriggerManual, ManualFault, LoseLock, Settle, vars
<1>4. ASSUME NEW w \in Workers, hand'[w].pc # "idle", hand'[w].job \in Occurrences PROVE hand'[w].final
  <2>1. CASE hand'[w] = hand[w]
    BY <1>4, <2>1 DEF Rooted
  <2>2. ASSUME NEW j \in Jobs, Deliver(w, j) PROVE hand'[w].final
    <3>1. hand'[w].job = j /\ hand'[w].final = (job[j].attempt = AttemptsOf(j))
      BY <1>0, <2>2 DEF Deliver, IdleHandler
    <3>2. QED BY <1>4, <3>1 DEF Rooted, AttemptsOf
  <2>3. ASSUME WorkerStep(w) PROVE hand'[w].final
    <3>1. hand[w].pc # "idle" /\ hand'[w].job = hand[w].job
      BY <1>0, <1>4, <2>3, WorkerEffects, HandlerMoves, IdleType
    <3>2. hand'[w].final = hand[w].final
      <4>1. hand'[w] # IdleHandler
        BY <1>4, IdleType
      <4>2. ~Return(w) /\ ~Throw(w) /\ ~Crash(w)
        BY <1>0, <4>1 DEF Return, Throw, Crash
      <4>3. ASSUME NEW pc, Goto(w, pc) PROVE hand'[w].final = hand[w].final
        BY <1>0, <4>3 DEF Goto, Handler
      <4>4. ASSUME NEW r, TakeUp(w, r) PROVE hand'[w].final = hand[w].final
        BY <1>0, <4>4 DEF TakeUp, Handler
      <4>5. ASSUME NEW pc, NEW mode, hand' = [hand EXCEPT ![w].pc = pc, ![w].mode = mode]
            PROVE  hand'[w].final = hand[w].final
        BY <1>0, <4>5 DEF Handler
      <4>6. CASE SelectMode(w) \/ RecheckFull(w) \/ FindWinner(w)
        BY <4>2, <4>5, <4>6 DEF SelectMode, RecheckFull, FindWinner
      <4>7. CASE ResolveManual(w) \/ LookupPersisted(w) \/ FindBlocker(w) \/ InsertScheduled(w) \/ ReloadPersisted(w)
        BY <4>2, <4>3, <4>4, <4>7
        DEF ResolveManual, LookupPersisted, FindPersisted, FindBlocker, InsertScheduled, ReloadPersisted
      <4>8. CASE SkipScheduled(w) \/ BeginRead(w) \/ BeginClaim(w) \/ BeginFanout(w) \/ FailRun(w) \/ RoundTripFails(w)
        BY <4>2, <4>3, <4>8
        DEF SkipScheduled, BeginRead, BeginThrows, BeginClaim, BeginFanout, FailRun, RoundTripFails
      <4>9. QED BY <2>3, <4>2, <4>6, <4>7, <4>8 DEF WorkerStep, HandlerStep
    <3>3. QED BY <1>4, <3>1, <3>2 DEF Rooted
  <2>4. ASSUME NEW v \in Workers, v # w, WorkerStep(v) PROVE hand'[w] = hand[w]
    BY <1>0, <2>4, WorkerEffects
  <2>5. ASSUME NEW v \in Workers, NEW j \in Jobs, v # w, Deliver(v, j) PROVE hand'[w] = hand[w]
    BY <2>5 DEF Deliver
  <2>6. QED BY <2>1, <2>2, <2>3, <2>4, <2>5
        DEF Next, WorkerStep, TriggerManual, QueueManual, ManualFault, LoseLock, Settle, vars
<1>5. QED BY <1>1, <1>2, <1>3, <1>4 DEF Rooted

\* What completing a job leaves of the run it carried.
LEMMA DoneCarried ==
  ASSUME CarryInv, [Next]_vars, NEW j \in Jobs, NEW r \in CarriedBy(j), Unbegun(r), Unbegun(r)',
         job[j].state # "done", job'[j].state = "done"
  PROVE  j \in Occurrences /\ InHand(r)'
<1>0. SafeInv /\ TypeOK /\ Placed /\ r \in RunIds
  BY CarriedType DEF CarryInv, SafeInv
<1>1. ~(CarriedBy(j) \subseteq lost')
  BY DEF Unbegun
<1>2. PICK w \in Workers : WorkerStep(w) /\ hand[w].job = j /\ OwnsLock(w)
  BY <1>0, <1>1, DoneStep
<1>3. j \in Occurrences => CarriedBy(j) = ByKey(j)
  BY DEF CarriedBy
<1>4. j \in Manuals => r = req[j].run
  BY Names DEF CarriedBy
<1>5. \A q \in CarriedBy(j) : q = r
  BY <1>0, OneCarried
<1>6. j \in Occurrences /\ hand[w].pc \in {"blocker", "winner"}
  BY <1>0, <1>1, <1>2, <1>3, <1>4, <1>5, DoneBy DEF Unbegun
<1>7. PICK v \in Workers : hand[v].run = r /\ hand[v].pc # "idle"
  BY <1>2, <1>3, <1>6 DEF CarryInv, Shadowed, InHand, Seeking
<1>8. v # w
  BY <1>0, <1>6, <1>7, Names DEF Placed, PlacedAt, Seeking
<1>9. hand'[v] = hand[v]
  BY <1>0, <1>2, <1>8, WorkerEffects
<1>10. QED BY <1>6, <1>7, <1>9 DEF InHand

LEMMA StaysPending ==
  ASSUME CarryInv, [Next]_vars, NEW j \in Jobs, NEW r \in CarriedBy(j), Unbegun(r), Unbegun(r)', Pending(j)
  PROVE  Pending(j)' \/ (j \in Occurrences /\ InHand(r)')
<1>0. SafeInv /\ SafeInv' /\ TypeOK /\ TypeOK' /\ Placed
  BY NextSafeInv DEF CarryInv, SafeInv
<1>1. job'[j].state \in {"waiting", "active", "done"}
  <2>1. job'[j].state # "absent"
    <3>1. job \in [Jobs -> JobRec]
      BY <1>0 DEF TypeOK
    <3>2. ASSUME NEW w \in Workers, WorkerStep(w) PROVE job'[j].state # "absent"
      <4>1. job' = job \/ Ends(w)
        BY <1>0, <3>2, WorkerEffects
      <4>2. QED BY <4>1 DEF Ends, Pending
    <3>3. ASSUME NEW k \in Jobs, LoseLock(k) PROVE job'[j].state # "absent"
      BY <3>1, <3>3 DEF LoseLock, Requeue, GivesUp, DoneJob, QueuedJob, JobRec, Pending
    <3>4. ASSUME NEW w \in Workers, NEW k \in Jobs, Deliver(w, k) PROVE job'[j].state # "absent"
      BY <3>1, <3>4 DEF Deliver, JobRec, Pending
    <3>5. ASSUME NEW m \in Manuals, QueueManual(m) PROVE job'[j].state # "absent"
      BY <3>1, <3>5 DEF QueueManual, JobRec, Pending
    <3>6. QED BY <3>2, <3>3, <3>4, <3>5
          DEF Next, WorkerStep, TriggerManual, ManualFault, Settle, Pending, vars
  <2>2. QED BY <1>0, <2>1 DEF TypeOK, JobRec
<1>2. CASE job'[j].state = "done"
  BY <1>2, DoneCarried DEF Pending
<1>3. QED BY <1>1, <1>2 DEF Pending

LEMMA NextManualsCarried == CarryInv /\ [Next]_vars => ManualsCarried'
<1> SUFFICES ASSUME CarryInv, [Next]_vars, NEW m \in Manuals, NEW r \in RunIds,
                    req'[m].run = r, Unbegun(r)'
             PROVE  req'[m].pc = "inserted" \/ Pending(m)'
  BY DEF ManualsCarried
<1>0. SafeInv /\ SafeInv' /\ TypeOK /\ Placed /\ m \in Jobs /\ m \notin Occurrences
      /\ req \in [Manuals -> Request] /\ job \in [Jobs -> JobRec]
  BY NextSafeInv, Names DEF CarryInv, SafeInv, TypeOK, Jobs
<1>1. CASE TriggerManual(m)
  <2>1. CASE req' = [req EXCEPT ![m].pc = "refused"]
    BY <1>0, <1>1, <2>1, Names DEF TriggerManual, Placed, Requested, Request
  <2>2. CASE ~(req' = [req EXCEPT ![m].pc = "refused"])
    BY <1>0, <1>1, <2>2 DEF TriggerManual
  <2>3. QED BY <2>1, <2>2
<1>2. CASE QueueManual(m)
  BY <1>0, <1>2 DEF QueueManual, JobRec, Pending
<1>3. CASE ManualFault(m)
  BY <1>0, <1>3 DEF ManualFault, Request, Unbegun
<1>4. CASE req'[m] = req[m]
  <2>1. run[r].status # "absent"
    BY <1>0, <1>4 DEF CarryInv, Rooted
  <2>2. Unbegun(r)
    BY <1>0, <2>1, UnbegunBefore
  <2>3. r \in CarriedBy(m)
    BY <1>0, <1>4, Names DEF CarriedBy
  <2>4. CASE req[m].pc = "inserted"
    BY <1>4, <2>4
  <2>5. CASE Pending(m)
    BY <1>0, <2>2, <2>3, <2>5, StaysPending
  <2>6. QED BY <1>4, <2>2, <2>4, <2>5 DEF CarryInv, ManualsCarried
<1>5. ASSUME NEW n \in Manuals, n # m, TriggerManual(n) \/ QueueManual(n) \/ ManualFault(n)
      PROVE  req'[m] = req[m]
  BY <1>0, <1>5 DEF TriggerManual, QueueManual, ManualFault
<1>6. QED BY <1>1, <1>2, <1>3, <1>4, <1>5
      DEF Next, Deliver, LoseLock, Crash, RoundTripFails, Settle, HandlerStep, ResolveManual,
          SkipScheduled, LookupPersisted, FindBlocker, SelectMode, RecheckFull, InsertScheduled,
          ReloadPersisted, FindWinner, BeginRead, BeginClaim, BeginFanout, FailRun, vars

\* A handler of an occurrence that leaves without the lock leaves nothing behind.
LEMMA AloneEnds ==
  ASSUME CarryInv, [Next]_vars, NEW w \in Workers, NEW o \in Occurrences, NEW r \in ByKey(o),
         hand[w].job = o, hand[w].run = r, WorkerStep(w), ~OwnsLock(w), hand'[w] = IdleHandler
  PROVE  ~Unbegun(r)'
<1>0. /\ SafeInv /\ TypeOK /\ Placed /\ PlacedAt(w) /\ hand \in [Workers -> Handler]
      /\ r \in RunIds /\ hand[w].pc # "idle" /\ hand[w].final
  BY WorkerEffects DEF CarryInv, SafeInv, Placed, Rooted, TypeOK, ByKey
<1>1. hand[w].pc \in Beginning
  BY <1>0, Names DEF PlacedAt, Seeking, Beginning, TypeOK, Handler, Steps
<1>2. ASSUME NEW pc, pc # "idle", Goto(w, pc) PROVE FALSE
  BY <1>0, <1>2, IdleType DEF Goto, Handler
<1>3. ASSUME BeginThrows(w) PROVE FALSE
  BY <1>0, <1>2, <1>3 DEF BeginThrows
<1>4. CASE DiesAlone(w)
  BY <1>0, <1>4, Names DEF DiesAlone, Unbegun
<1>5. CASE Crash(w)
  BY <1>4, <1>5 DEF Crash
<1>6. CASE RoundTripFails(w)
  BY <1>3, <1>4, <1>6 DEF RoundTripFails
<1>7. ASSUME NEW status \in Settled, SetStatus(r, status) PROVE ~IsActive(r)'
  BY <1>0, <1>7 DEF SetStatus, TypeOK, Run, IsActive, Active, Settled
<1>8. CASE BeginRead(w)
  BY <1>2, <1>3, <1>8 DEF BeginRead
<1>9. CASE BeginClaim(w)
  <2>1. IF IsActive(r) THEN SetStatus(r, "succeeded") ELSE run' = run
    BY <1>2, <1>9 DEF BeginClaim
  <2>2. QED BY <1>7, <2>1 DEF Unbegun, IsActive, Settled
<1>10. CASE BeginFanout(w)
  BY <1>10 DEF BeginFanout, Unbegun
<1>11. CASE FailRun(w)
  <2>1. IF IsActive(r) THEN SetStatus(r, "failed") ELSE run' = run
    BY <1>11 DEF FailRun, FailIfActive
  <2>2. QED BY <1>7, <2>1 DEF Unbegun, IsActive, Settled
<1>12. QED BY <1>1, <1>5, <1>6, <1>8, <1>9, <1>10, <1>11
       DEF WorkerStep, HandlerStep, ResolveManual, SkipScheduled, LookupPersisted, FindBlocker, SelectMode,
           RecheckFull, InsertScheduled, ReloadPersisted, FindWinner, Beginning

\* Who has a run in hand keeps it, or had the lock of its job.
LEMMA HandStays ==
  ASSUME CarryInv, [Next]_vars, NEW w \in Workers, NEW o \in Occurrences, NEW r \in ByKey(o),
         hand[w].run = r, hand[w].pc # "idle", Unbegun(r)'
  PROVE  hand[w].job = o /\ (InHand(r)' \/ OwnsLock(w))
<1>0. /\ SafeInv /\ TypeOK /\ Placed /\ PlacedAt(w) /\ hand \in [Workers -> Handler] /\ r \in RunIds
  BY DEF CarryInv, SafeInv, Placed, TypeOK, ByKey
<1>1. hand[w].pc \in Beginning
  BY <1>0, Names DEF PlacedAt, Seeking, Beginning, Handler, Steps
<1>2. hand[w].job = o
  BY <1>0, <1>1, OwnJob DEF CarryInv, PlacedAt
<1>3. CASE WorkerStep(w)
  <2>1. CASE hand'[w] = IdleHandler
    BY <1>2, <1>3, <2>1, AloneEnds
  <2>2. CASE hand'[w] # IdleHandler
    <3>1. hand'[w].pc # "idle" /\ hand'[w].run \in CarriedBy(o)' /\ o \in Jobs
      <4>1. SafeInv' /\ PlacedAt(w)' /\ hand'[w].job = o /\ o \in Jobs
        BY <1>0, <1>2, <1>3, <2>2, HandlerMoves, NextSafeInv DEF SafeInv, Placed, Jobs
      <4>2. hand'[w].pc \in Beginning
        BY <1>0, <1>1, <1>3, <2>2, HandlerMoves DEF Beginning, Seeking
      <4>3. hand'[w].run \in CarriedBy(o)'
        BY <4>1, <4>2 DEF PlacedAt, CarriedBy, ByKey
      <4>4. QED BY <4>1, <4>2, <4>3 DEF Beginning
    <3>2. r \in CarriedBy(o)'
      BY <1>0, <3>1, CarriedGrows DEF CarriedBy
    <3>3. hand'[w].run = r
      BY <1>0, <3>1, <3>2, NextSafeInv DEF CarriedBy, SafeInv, Keyed
    <3>4. QED BY <1>2, <3>1, <3>3 DEF InHand
  <2>3. QED BY <2>1, <2>2
<1>4. CASE hand'[w] = hand[w]
  BY <1>2, <1>4 DEF InHand
<1>5. ASSUME NEW v \in Workers, v # w, WorkerStep(v) PROVE hand'[w] = hand[w]
  BY <1>0, <1>5, WorkerEffects
<1>6. ASSUME NEW v \in Workers, NEW j \in Jobs, Deliver(v, j) PROVE hand'[w] = hand[w]
  BY <1>0, <1>6 DEF Deliver
<1>7. QED BY <1>3, <1>4, <1>5, <1>6
      DEF Next, WorkerStep, TriggerManual, QueueManual, ManualFault, LoseLock, Settle, vars

LEMMA NextOccurrencesCarried == CarryInv /\ [Next]_vars => OccurrencesCarried'
<1> SUFFICES ASSUME CarryInv, [Next]_vars, NEW o \in Occurrences, NEW r \in RunIds, r \in ByKey(o)', Unbegun(r)'
             PROVE  Pending(o)' \/ InHand(r)'
  BY DEF OccurrencesCarried, ByKey
<1>0. SafeInv /\ TypeOK /\ Placed /\ o \in Jobs
  BY DEF CarryInv, SafeInv, Jobs
<1>1. CASE run[r].status = "absent"
  <2>1. PICK row \in Run : Inserted(r, row)
    BY <1>0, <1>1, UnbegunBefore DEF Unbegun, IsActive, Active
  <2>2. row.key = o
    BY <1>0, <2>1, InsertedWhere DEF ByKey
  <2>3. QED BY <1>0, <2>1, <2>2, InsertedWhere, Names
<1>2. CASE run[r].status # "absent"
  <2>1. Unbegun(r) /\ r \in ByKey(o) /\ r \in CarriedBy(o)
    BY <1>0, <1>2, UnbegunBefore, RowsKept DEF ByKey, CarriedBy
  <2>2. CASE Pending(o)
    BY <1>0, <2>1, <2>2, StaysPending
  <2>3. CASE InHand(r)
    <3>1. PICK w \in Workers : hand[w].run = r /\ hand[w].pc # "idle"
      BY <2>3 DEF InHand
    <3>2. hand[w].job = o /\ (InHand(r)' \/ OwnsLock(w))
      BY <2>1, <3>1, HandStays
    <3>3. QED BY <2>2, <3>2 DEF OwnsLock, Pending
  <2>4. QED BY <2>1, <2>2, <2>3 DEF CarryInv, OccurrencesCarried
<1>3. QED BY <1>1, <1>2

\* A handler that has the lock has had it since its delivery.
LEMMA LockKept ==
  ASSUME SafeInv, [Next]_vars, NEW w \in Workers, NEW o \in Occurrences,
         hand'[w].pc \in Seeking \ {"lookup"}, hand'[w].job = o,
         job'[o].state = "active", job'[o].owner = w
  PROVE  /\ hand[w].pc \in Seeking /\ hand[w].job = o /\ OwnsLock(w)
         /\ hand[w].pc = "lookup" => ByKey(o) = {} /\ run' = run
<1>0. /\ TypeOK /\ Placed /\ PlacedAt(w) /\ o \in Jobs
      /\ hand \in [Workers -> Handler] /\ job \in [Jobs -> JobRec]
  BY DEF SafeInv, Placed, TypeOK, Jobs
<1>1. ASSUME NEW v \in Workers, NEW j \in Jobs, Deliver(v, j) PROVE v # w /\ (j = o => job'[o].owner = v)
  <2>1. hand'[v].pc = IF j \in Occurrences THEN "lookup" ELSE "resolve"
    BY <1>0, <1>1 DEF Deliver, IdleHandler
  <2>2. j = o => job'[o].owner = v
    BY <1>0, <1>1 DEF Deliver, JobRec
  <2>3. QED BY <2>1, <2>2 DEF Seeking
<1>2. job[o].state = "active" /\ job[o].owner = w
  <2>1. CASE job'[o] = job[o]
    BY <2>1
  <2>2. ASSUME NEW v \in Workers, NEW j \in Jobs, Deliver(v, j) PROVE job'[o] = job[o]
    <3>1. j # o
      BY <1>1, <2>2
    <3>2. QED BY <1>0, <2>2, <3>1 DEF Deliver
  <2>3. ASSUME NEW v \in Workers, WorkerStep(v) PROVE job'[o] = job[o]
    BY <1>0, <2>3, WorkerEffects DEF Ends
  <2>4. ASSUME NEW j \in Jobs, LoseLock(j) PROVE job'[o] = job[o]
    BY <1>0, <2>4 DEF LoseLock, Requeue, GivesUp, DoneJob, QueuedJob, JobRec
  <2>5. ASSUME NEW m \in Manuals, QueueManual(m) PROVE job'[o] = job[o]
    BY <1>0, <2>5 DEF QueueManual, JobRec
  <2>6. QED BY <2>1, <2>2, <2>3, <2>4, <2>5
        DEF Next, WorkerStep, TriggerManual, ManualFault, Settle, vars
<1>3. hand[w].pc \in Seeking /\ hand[w].job = o
  <2>1. CASE hand'[w] = hand[w]
    BY <2>1
  <2>2. CASE WorkerStep(w)
    BY <1>0, <2>2, HandlerMoves, IdleType DEF Seeking, Beginning
  <2>3. ASSUME NEW v \in Workers, NEW j \in Jobs, Deliver(v, j) PROVE hand'[w] = hand[w]
    BY <1>0, <1>1, <2>3 DEF Deliver
  <2>4. ASSUME NEW v \in Workers, v # w, WorkerStep(v) PROVE hand'[w] = hand[w]
    BY <1>0, <2>4, WorkerEffects
  <2>5. QED BY <2>1, <2>2, <2>3, <2>4
        DEF Next, WorkerStep, TriggerManual, QueueManual, ManualFault, LoseLock, Settle, vars
<1>4. ASSUME hand[w].pc = "lookup" PROVE ByKey(o) = {} /\ run' = run
  <2>1. hand'[w] # hand[w] /\ hand'[w] # IdleHandler
    BY <1>4, IdleType DEF Seeking
  <2>2. \A v \in Workers : WorkerStep(v) => v = w
    BY <1>0, <2>1, WorkerEffects
  <2>3. \A v \in Workers, j \in Jobs : ~Deliver(v, j)
    BY <1>0, <1>1, <2>1 DEF Deliver
  <2>4. WorkerStep(w)
    BY <2>1, <2>2, <2>3
    DEF Next, WorkerStep, TriggerManual, QueueManual, ManualFault, LoseLock, Settle, vars
  <2>5. ~Return(w) /\ ~Throw(w) /\ ~Crash(w)
    BY <1>0, <2>1 DEF Return, Throw, Crash
  <2>6. LookupPersisted(w)
    BY <1>4, <2>4, <2>5
    DEF WorkerStep, HandlerStep, ResolveManual, SkipScheduled, FindBlocker, SelectMode, RecheckFull,
        InsertScheduled, ReloadPersisted, FindWinner, BeginRead, BeginClaim, BeginFanout, FailRun, RoundTripFails
  <2>7. ASSUME NEW r, TakeUp(w, r) PROVE FALSE
    BY <1>0, <2>7 DEF TakeUp, Handler, Seeking
  <2>8. QED BY <1>3, <2>5, <2>6, <2>7 DEF LookupPersisted, FindPersisted
<1>5. QED BY <1>2, <1>3, <1>4 DEF OwnsLock

LEMMA NextShadowed == CarryInv /\ [Next]_vars => Shadowed'
<1> SUFFICES ASSUME CarryInv, [Next]_vars, NEW w \in Workers, NEW o \in Occurrences,
                    hand'[w].pc \in Seeking \ {"lookup"}, hand'[w].job = o, OwnsLock(w)',
                    NEW r \in RunIds, r \in ByKey(o)', Unbegun(r)'
             PROVE  InHand(r)'
  BY DEF Shadowed, ByKey
<1>0. SafeInv /\ TypeOK /\ Placed /\ PlacedAt(w)
  BY DEF CarryInv, SafeInv, Placed
<1>1. /\ hand[w].pc \in Seeking /\ hand[w].job = o /\ OwnsLock(w)
      /\ hand[w].pc = "lookup" => ByKey(o) = {} /\ run' = run
  BY <1>0, LockKept DEF OwnsLock
<1>2. CASE run[r].status = "absent"
  <2>1. PICK row \in Run : Inserted(r, row)
    BY <1>0, <1>2, UnbegunBefore DEF Unbegun, IsActive, Active
  <2>2. row.key = o
    BY <1>0, <2>1, InsertedWhere DEF ByKey
  <2>3. QED BY <1>0, <2>1, <2>2, InsertedWhere, Names
<1>3. CASE run[r].status # "absent"
  <2>1. Unbegun(r) /\ r \in ByKey(o)
    BY <1>0, <1>3, UnbegunBefore, RowsKept DEF ByKey
  <2>2. PICK v \in Workers : hand[v].run = r /\ hand[v].pc # "idle"
    BY <1>1, <2>1 DEF CarryInv, Shadowed, InHand
  <2>3. v # w
    BY <1>0, <1>1, <2>2, Names DEF PlacedAt
  <2>4. hand[v].job = o /\ (InHand(r)' \/ OwnsLock(v))
    BY <2>1, <2>2, HandStays
  <2>5. ~OwnsLock(v)
    BY <1>1, <2>3, <2>4 DEF OwnsLock
  <2>6. QED BY <2>4, <2>5
<1>4. QED BY <1>2, <1>3

LEMMA InitCarryInv == Init => CarryInv
<1> SUFFICES ASSUME Init PROVE CarryInv
  OBVIOUS
<1>1. SafeInv
  BY InitTypeOK, InitKeyed DEF SafeInv
<1>2. \A r \in RunIds : run[r].status = "absent" /\ ~IsActive(r)
  BY DEF Init, NoRow, IsActive, Active
<1>3. \A w \in Workers : hand[w].pc = "idle"
  BY IdleType DEF Init
<1>4. \A m \in Manuals : req[m].run = NoRun
  BY DEF Init
<1>5. \A o \in Occurrences : job[o].attempt = 1
  BY DEF Init, QueuedJob, Jobs
<1>6. Rooted
  BY <1>2, <1>3, <1>4, <1>5, Names DEF Rooted
<1>7. ManualsCarried /\ OccurrencesCarried /\ Shadowed
  BY <1>2, <1>3 DEF ManualsCarried, OccurrencesCarried, Shadowed, Unbegun, ByKey, Seeking
<1>8. QED BY <1>1, <1>6, <1>7 DEF CarryInv

\* An active run that is not begun has its request, its job or a handler, unless
\* a fault or a skipped redelivery ended what carried it.
THEOREM NoRunStranded == Spec => []NoStrandedRun
<1>1. CarryInv /\ [Next]_vars => CarryInv'
  BY NextSafeInv, NextRooted, NextManualsCarried, NextOccurrencesCarried, NextShadowed DEF CarryInv
<1>2. CarryInv => NoStrandedRun
  <2> SUFFICES ASSUME CarryInv, NEW r \in RunIds, Unbegun(r) PROVE Carried(r)
    BY DEF NoStrandedRun, Unbegun
  <2>1. PICK j \in Jobs : r \in CarriedBy(j)
    BY DEF CarryInv, Rooted, Unbegun, IsActive, Active
  <2>2. CASE j \in Occurrences
    BY <2>1, <2>2 DEF CarryInv, OccurrencesCarried, CarriedBy, ByKey, Pending, InHand, Carried
  <2>3. CASE j \notin Occurrences
    BY <2>1, <2>3 DEF CarryInv, ManualsCarried, CarriedBy, Pending, Carried, Jobs
  <2>4. QED BY <2>2, <2>3
<1>3. QED BY <1>1, <1>2, InitCarryInv, PTL DEF Spec
=============================================================================
