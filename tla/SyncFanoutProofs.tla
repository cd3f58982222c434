-------------------------- MODULE SyncFanoutProofs --------------------------
(* Theorems about SyncFanout and their proofs. *)
EXTENDS SyncFanout, TLAPS

-----------------------------------------------------------------------------
(* Types *)

LEMMA NoRowType == NoRow \in Row
BY DEF NoRow, Row, RowStatus, Recorded

LEMMA NoHandlerType == NoHandler \in Handler
BY NoRowType DEF NoHandler, Handler, Outcomes

LEMMA InitTypeOK == Init => TypeOK
<1> SUFFICES ASSUME Init PROVE TypeOK
  OBVIOUS
<1>1. run \in RunStatus /\ lastRun \in {"none", "succeeded", "failed"}
  BY DEF Init, RunStatus
<1>2. mapping \in [Mappings -> {"enabled", "disabled", "deleted"}]
  BY DEF Init
<1>3. row \in [Mappings -> Row]
  BY NoRowType DEF Init
<1>4. orch \in Orchestrator
  BY FanoutAssumption DEF FanoutAssumption, Init, Orchestrator
<1>5. job \in [Mappings -> Job]
  BY FanoutAssumption DEF FanoutAssumption, Init, Job
<1>6. handler \in [Mappings -> [Slots -> Handler]]
  BY NoHandlerType DEF Init
<1>7. /\ dropped \subseteq Mappings
      /\ faults \in 0..MaxFaults /\ lostLocks \in 0..MaxLost /\ edits \in 0..MaxEdits
  BY FanoutAssumption DEF FanoutAssumption, Init
<1>8. QED BY <1>1, <1>2, <1>3, <1>4, <1>5, <1>6, <1>7 DEF TypeOK

\* Writing one row, one job or one handler of its type keeps the table typed.
LEMMA SetRowType ==
  ASSUME TypeOK, NEW m \in Mappings, NEW r \in Row, SetRow(m, r)
  PROVE  row' \in [Mappings -> Row]
BY DEF SetRow, TypeOK

LEMMA SetJobType ==
  ASSUME TypeOK, NEW m \in Mappings, NEW j \in Job, SetJob(m, j)
  PROVE  job' \in [Mappings -> Job]
BY DEF SetJob, TypeOK

LEMMA SetHandlerType ==
  ASSUME TypeOK, NEW m \in Mappings, NEW s \in Slots, NEW h \in Handler, SetHandler(m, s, h)
  PROVE  handler' \in [Mappings -> [Slots -> Handler]]
<1>1. [handler[m] EXCEPT ![s] = h] \in [Slots -> Handler]
  BY DEF TypeOK
<1>2. handler' = [handler EXCEPT ![m] = [handler[m] EXCEPT ![s] = h]]
  BY DEF SetHandler
<1>3. QED BY <1>1, <1>2 DEF TypeOK

\* A job that lost its lock is still a job.
LEMMA RequeuedType == ASSUME NEW j \in Job PROVE Requeued(j) \in Job
<1>1. j.stalls < MaxStalls => j.stalls + 1 \in 0..MaxStalls
  BY FanoutAssumption DEF FanoutAssumption, Job
<1>2. CASE j.stalls < MaxStalls
  BY <1>1, <1>2 DEF Requeued, Job
<1>3. CASE ~(j.stalls < MaxStalls)
  BY <1>3 DEF Requeued, Job
<1>4. QED BY <1>2, <1>3

\* The ways a handler ends keep the types of the jobs and the handlers.
LEMMA EndTypes ==
  ASSUME TypeOK, NEW m \in Mappings, NEW s \in Slots,
         Finish(m, s) \/ FailAttempt(m, s)
  PROVE  job' \in [Mappings -> Job] /\ handler' \in [Mappings -> [Slots -> Handler]]
<1>0. job[m] \in Job
  BY DEF TypeOK
<1>1. handler' \in [Mappings -> [Slots -> Handler]]
  BY NoHandlerType, SetHandlerType DEF Finish, FailAttempt
<1>2. /\ [job[m] EXCEPT !.state = "done", !.owner = 0] \in Job
      /\ [job[m] EXCEPT !.state = "waiting", !.attempt = @ + 1, !.owner = 0] \in Job
  <2>1. job[m].attempt + 1 \in Nat
    BY <1>0 DEF Job
  <2>2. QED BY <1>0, <2>1 DEF Job
<1>3. PICK j \in Job : SetJob(m, j)
  BY <1>0, <1>2 DEF Finish, FailAttempt
<1>4. QED BY <1>1, <1>3, SetJobType

\* And so does the move of a handler to another program point.
LEMMA GotoTypes ==
  ASSUME TypeOK, NEW m \in Mappings, NEW s \in Slots,
         NEW pc \in {"mark", "work", "failRead"}, Goto(m, s, pc)
  PROVE  handler' \in [Mappings -> [Slots -> Handler]]
<1>1. [handler[m][s] EXCEPT !.pc = pc] \in Handler
  <2>1. handler[m][s] \in Handler
    BY DEF TypeOK
  <2>2. QED BY <2>1 DEF Handler
<1>2. QED BY <1>1, SetHandlerType DEF Goto

LEMMA ThrowTypes ==
  ASSUME TypeOK, NEW m \in Mappings, NEW s \in Slots, Throw(m, s)
  PROVE  job' \in [Mappings -> Job] /\ handler' \in [Mappings -> [Slots -> Handler]]
BY EndTypes, GotoTypes DEF Throw, TypeOK

LEMMA AfterCloseTypes ==
  ASSUME TypeOK, NEW m \in Mappings, NEW s \in Slots, AfterClose(m, s)
  PROVE  job' \in [Mappings -> Job] /\ handler' \in [Mappings -> [Slots -> Handler]]
BY EndTypes DEF AfterClose

\* The orchestrator's steps.
LEMMA OrchestrateTypes == ASSUME TypeOK, Orchestrate \/ OrchFault PROVE TypeOK'
<1>0. orch \in Orchestrator /\ run \in RunStatus
  BY DEF TypeOK
<1>1. ASSUME OrchThrows PROVE orch' \in Orchestrator
  <2>1. orch.attempt < OrchAttempts =>
          [orch EXCEPT !.pc = "waiting", !.attempt = @ + 1, !.fanout = {}] \in Orchestrator
    <3>1. orch.attempt < OrchAttempts => orch.attempt + 1 \in 1..OrchAttempts
      BY <1>0, FanoutAssumption DEF FanoutAssumption, Orchestrator
    <3>2. QED BY <1>0, <3>1 DEF Orchestrator
  <2>2. [orch EXCEPT !.pc = "failRun", !.fanout = {}] \in Orchestrator
    BY <1>0 DEF Orchestrator
  <2>3. QED BY <1>1, <2>1, <2>2 DEF OrchThrows
<1>2. ASSUME NEW status \in {"queued", "succeeded"}, CreateRows(status)
      PROVE  row' \in [Mappings -> Row]
  <2>1. \A m \in Mappings : row[m] \in Row /\ [row[m] EXCEPT !.status = status] \in Row
    BY DEF TypeOK, Row, RowStatus
  <2>2. QED BY <1>2, <2>1 DEF CreateRows
<1>3. CASE BeginRead
  <2>1. \A pc \in {"empty", "write"} :
          [orch EXCEPT !.pc = pc, !.fanout = Enabled] \in Orchestrator
    BY <1>0 DEF Orchestrator, Enabled
  <2>2. [orch EXCEPT !.pc = "done"] \in Orchestrator
    BY <1>0 DEF Orchestrator
  <2>3. orch' \in Orchestrator
    BY <1>1, <1>3, <2>1, <2>2 DEF BeginRead
  <2>4. QED BY <1>3, <2>3 DEF BeginRead, TypeOK
<1>4. CASE BeginEmpty
  <2>1. row' \in [Mappings -> Row]
    BY <1>2, <1>4 DEF BeginEmpty, TypeOK
  <2>5. [orch EXCEPT !.pc = "done", !.fanout = {}] \in Orchestrator
    BY <1>0 DEF Orchestrator
  <2>2. orch' \in Orchestrator
    BY <1>1, <1>4, <2>5 DEF BeginEmpty
  <2>3. run' \in RunStatus /\ lastRun' \in {"none", "succeeded", "failed"}
    BY <1>4 DEF BeginEmpty, TypeOK, RunStatus
  <2>4. QED BY <1>4, <2>1, <2>2, <2>3 DEF BeginEmpty, TypeOK
<1>5. CASE BeginWrite
  <2>1. row' \in [Mappings -> Row]
    BY <1>2, <1>5 DEF BeginWrite, TypeOK
  <2>2. [orch EXCEPT !.pc = "select"] \in Orchestrator
    BY <1>0 DEF Orchestrator
  <2>3. orch' \in Orchestrator /\ run' \in RunStatus
    BY <1>0, <1>1, <1>5, <2>2 DEF BeginWrite, RunStatus
  <2>4. QED BY <1>5, <2>1, <2>3 DEF BeginWrite, TypeOK
<1>6. CASE BeginSelect
  <2>1. orch' \in Orchestrator
    BY <1>0, <1>6 DEF BeginSelect, Orchestrator
  <2>2. QED BY <1>6, <2>1 DEF BeginSelect, TypeOK
<1>7. CASE BeginDone
  <2>1. orch' \in Orchestrator
    BY <1>0, <1>7 DEF BeginDone, Orchestrator
  <2>2. QED BY <1>7, <2>1 DEF BeginDone, TypeOK
<1>8. ASSUME NEW m \in Mappings, Enqueue(m) PROVE TypeOK'
  <2>1. job[m] \in Job /\ [job[m] EXCEPT !.state = "waiting"] \in Job
    BY DEF TypeOK, Job
  <2>2. job' \in [Mappings -> Job]
    BY <1>8, <2>1, SetJobType DEF Enqueue
  <2>3. orch' \in Orchestrator
    BY <1>0, <1>8 DEF Enqueue, Orchestrator
  <2>4. QED BY <1>8, <2>2, <2>3 DEF Enqueue, TypeOK
<1>9. CASE OrchFault
  <2>1. orch.stalls < MaxStalls =>
          [orch EXCEPT !.pc = "waiting", !.stalls = @ + 1, !.fanout = {}] \in Orchestrator
    <3>1. orch.stalls < MaxStalls => orch.stalls + 1 \in 0..MaxStalls
      BY <1>0, FanoutAssumption DEF FanoutAssumption, Orchestrator
    <3>2. QED BY <1>0, <3>1 DEF Orchestrator
  <2>2. /\ [orch EXCEPT !.pc = "done", !.fanout = {}] \in Orchestrator
        /\ [orch EXCEPT !.pc = "done"] \in Orchestrator
    BY <1>0 DEF Orchestrator
  <2>3. orch' \in Orchestrator
    BY <1>1, <1>9, <2>1, <2>2 DEF OrchFault
  <2>4. faults' \in 0..MaxFaults
    BY <1>9, FanoutAssumption DEF FanoutAssumption, OrchFault, TypeOK
  <2>5. QED BY <1>9, <2>3, <2>4 DEF OrchFault, TypeOK
<1>11. CASE FailRun
  <2>1. orch' \in Orchestrator /\ run' \in RunStatus
    BY <1>0, <1>11 DEF FailRun, Orchestrator, RunStatus
  <2>2. QED BY <1>11, <2>1 DEF FailRun, TypeOK
<1>10. QED BY <1>3, <1>4, <1>5, <1>6, <1>7, <1>8, <1>9, <1>11 DEF Orchestrate

\* The outcome a traversal leaves is one outcome per resource.
LEMMA OutcomesType == \A outs \in PossibleOutcomes : outs \in [Resources -> Outcomes]
BY DEF PossibleOutcomes, Outcomes

\* A handler's steps.
LEMMA HandlerTypes ==
  ASSUME TypeOK, NEW m \in Mappings, NEW s \in Slots, HandlerStep(m, s)
  PROVE  TypeOK'
<1> DEFINE h == handler[m][s]
<1>0. h \in Handler /\ row[m] \in Row
  BY DEF TypeOK
<1>1. CASE Load(m, s)
  <2>1. job' \in [Mappings -> Job] /\ handler' \in [Mappings -> [Slots -> Handler]]
    BY <1>1, EndTypes, GotoTypes DEF Load, TypeOK
  <2>2. QED BY <1>1, <2>1 DEF Load, TypeOK
<1>2. CASE Mark(m, s)
  <2>1. handler' \in [Mappings -> [Slots -> Handler]]
    BY <1>2, GotoTypes DEF Mark
  <2>2. [row[m] EXCEPT !.status = "running"] \in Row
    BY <1>0 DEF Row, RowStatus
  <2>3. row' \in [Mappings -> Row]
    BY <1>0, <1>2, <2>2, SetRowType DEF Mark
  <2>4. QED BY <1>2, <2>1, <2>3 DEF Mark, TypeOK
<1>3. CASE Work(m, s)
  <2>1. PICK outs \in PossibleOutcomes :
          \/ FailAttempt(m, s)
          \/ /\ SetHandler(m, s, [h EXCEPT !.pc = "mergeRead", !.outs = outs])
             /\ UNCHANGED job
    BY <1>3 DEF Work
  <2>2. [h EXCEPT !.pc = "mergeRead", !.outs = outs] \in Handler
    BY <1>0, OutcomesType DEF Handler
  <2>3. job' \in [Mappings -> Job] /\ handler' \in [Mappings -> [Slots -> Handler]]
    BY <2>1, <2>2, EndTypes, SetHandlerType DEF TypeOK
  <2>4. run' \in RunStatus
    BY <1>3 DEF Work, TypeOK, RunStatus
  <2>5. QED BY <1>3, <2>3, <2>4 DEF Work, TypeOK
<1>4. CASE MergeRead(m, s)
  <2>1. [h EXCEPT !.pc = "mergeWrite", !.read = row[m]] \in Handler
    BY <1>0 DEF Handler
  <2>2. handler' \in [Mappings -> [Slots -> Handler]]
    BY <1>4, <2>1, SetHandlerType DEF MergeRead
  <2>3. QED BY <1>4, <2>2 DEF MergeRead, TypeOK
<1>5. CASE MergeWrite(m, s)
  <2>1. CASE h.read.status # "absent" /\ StatusOf(m) # "absent"
    <3>1. Merged(h.read, h.next, h.outs[h.next]) \in Row
      BY <1>0 DEF Merged, Handler, Row, RowStatus, Recorded
    <3>2. row' \in [Mappings -> Row] /\ dropped' \subseteq Mappings
      BY <1>5, <2>1, <3>1, SetRowType DEF MergeWrite, WriteBack, TypeOK
    <3>3. \A pc \in {"mergeRead", "closeRead"} :
            [h EXCEPT !.next = h.next + 1, !.read = NoRow, !.then = "end", !.pc = pc] \in Handler
      <4>1. h.next + 1 \in Nat
        BY <1>0 DEF Handler
      <4>2. QED BY <1>0, <4>1, NoRowType DEF Handler
    <3>4. handler' \in [Mappings -> [Slots -> Handler]]
      BY <1>5, <2>1, <3>3, SetHandlerType DEF MergeWrite
    <3>5. QED BY <1>5, <2>1, <3>2, <3>4 DEF MergeWrite, TypeOK
  <2>2. CASE ~(h.read.status # "absent" /\ StatusOf(m) # "absent")
    BY <1>5, <2>2, ThrowTypes DEF MergeWrite, TypeOK
  <2>3. QED BY <2>1, <2>2
<1>6. CASE CloseRead(m, s)
  <2>1. \A verdict \in {"succeeded", "failed"} :
          [h EXCEPT !.pc = "closeWrite", !.verdict = verdict] \in Handler
    BY <1>0 DEF Handler
  <2>2. job' \in [Mappings -> Job] /\ handler' \in [Mappings -> [Slots -> Handler]]
    BY <1>6, <2>1, AfterCloseTypes, SetHandlerType DEF CloseRead, TypeOK
  <2>3. QED BY <1>6, <2>2 DEF CloseRead, TypeOK
<1>7. CASE CloseWrite(m, s)
  <2>1. job' \in [Mappings -> Job] /\ handler' \in [Mappings -> [Slots -> Handler]]
    BY <1>7, AfterCloseTypes DEF CloseWrite, Settle
  <2>2. run' \in RunStatus /\ lastRun' \in {"none", "succeeded", "failed"}
    BY <1>0, <1>7 DEF CloseWrite, Settle, TypeOK, Handler, RunStatus
  <2>3. QED BY <1>7, <2>1, <2>2 DEF CloseWrite, Settle, TypeOK
<1>8. CASE FailRead(m, s)
  <2>1. job' \in [Mappings -> Job] /\ handler' \in [Mappings -> [Slots -> Handler]]
    <3>1. [h EXCEPT !.pc = "failWrite", !.read = row[m]] \in Handler
      BY <1>0 DEF Handler
    <3>2. QED BY <1>8, <3>1, EndTypes, SetHandlerType DEF FailRead, TypeOK
  <2>2. QED BY <1>8, <2>1 DEF FailRead, TypeOK
<1>9. CASE FailWrite(m, s)
  <2>1. /\ [h EXCEPT !.pc = "closeRead", !.read = NoRow, !.then = "failed"] \in Handler
        /\ [status |-> "failed", by |-> h.read.by] \in Row
    BY <1>0, NoRowType DEF Handler, Row, RowStatus
  <2>2. /\ job' \in [Mappings -> Job] /\ handler' \in [Mappings -> [Slots -> Handler]]
        /\ row' \in [Mappings -> Row] /\ dropped' \subseteq Mappings
    BY <1>9, <2>1, EndTypes, SetHandlerType, SetRowType DEF FailWrite, WriteBack, TypeOK
  <2>3. QED BY <1>9, <2>2 DEF FailWrite, TypeOK
<1>10. QED BY <1>1, <1>2, <1>3, <1>4, <1>5, <1>6, <1>7, <1>8, <1>9 DEF HandlerStep

\* BullMQ, faults and administrators.
LEMMA NextTypeOK == TypeOK /\ [Next]_vars => TypeOK'
<1> SUFFICES ASSUME TypeOK, [Next]_vars PROVE TypeOK'
  OBVIOUS
<1>1. ASSUME NEW m \in Mappings, NEW s \in Slots, Deliver(m, s) PROVE TypeOK'
  <2>1. [job[m] EXCEPT !.state = "active", !.owner = s] \in Job
    BY DEF TypeOK, Job
  <2>2. \A b \in BOOLEAN : [NoHandler EXCEPT !.pc = "load", !.final = b] \in Handler
    BY NoHandlerType DEF Handler
  <2>3. job' \in [Mappings -> Job] /\ handler' \in [Mappings -> [Slots -> Handler]]
    BY <1>1, <2>1, <2>2, SetJobType, SetHandlerType DEF Deliver
  <2>4. QED BY <1>1, <2>3 DEF Deliver, TypeOK
<1>2. ASSUME NEW m \in Mappings, LoseLock(m) PROVE TypeOK'
  <2>1. job' \in [Mappings -> Job]
    BY <1>2, RequeuedType, SetJobType DEF LoseLock, TypeOK
  <2>2. lostLocks' \in 0..MaxLost
    BY <1>2, FanoutAssumption DEF FanoutAssumption, LoseLock, TypeOK
  <2>3. QED BY <1>2, <2>1, <2>2 DEF LoseLock, TypeOK
<1>3. ASSUME NEW m \in Mappings, NEW s \in Slots, Crash(m, s) PROVE TypeOK'
  <2>1. job[m] \in Job /\ Requeued(job[m]) \in Job
    BY RequeuedType DEF TypeOK
  <2>2. job' \in [Mappings -> Job] /\ handler' \in [Mappings -> [Slots -> Handler]]
    BY <1>3, <2>1, NoHandlerType, SetJobType, SetHandlerType DEF Crash
  <2>3. faults' \in 0..MaxFaults
    BY <1>3, FanoutAssumption DEF FanoutAssumption, Crash, TypeOK
  <2>4. QED BY <1>3, <2>2, <2>3 DEF Crash, TypeOK
<1>4. ASSUME NEW m \in Mappings, NEW s \in Slots, HandlerFault(m, s) PROVE TypeOK'
  <2>1. job' \in [Mappings -> Job] /\ handler' \in [Mappings -> [Slots -> Handler]]
    BY <1>4, EndTypes, ThrowTypes DEF HandlerFault
  <2>2. faults' \in 0..MaxFaults
    BY <1>4, FanoutAssumption DEF FanoutAssumption, HandlerFault, TypeOK
  <2>3. QED BY <1>4, <2>1, <2>2 DEF HandlerFault, TypeOK
<1>5. ASSUME NEW m \in Mappings, DeleteMapping(m) \/ DisableMapping(m) PROVE TypeOK'
  <2>1. edits' \in 0..MaxEdits
    BY <1>5, FanoutAssumption DEF FanoutAssumption, DeleteMapping, DisableMapping, TypeOK
  <2>2. mapping' \in [Mappings -> {"enabled", "disabled", "deleted"}]
    BY <1>5 DEF DeleteMapping, DisableMapping, TypeOK
  <2>3. row' \in [Mappings -> Row]
    BY <1>5, NoRowType, SetRowType DEF DeleteMapping, DisableMapping, TypeOK
  <2>4. QED BY <1>5, <2>1, <2>2, <2>3 DEF DeleteMapping, DisableMapping, TypeOK
<1>6. CASE UNCHANGED vars
  BY <1>6 DEF vars, TypeOK
<1>7. QED BY <1>1, <1>2, <1>3, <1>4, <1>5, <1>6, OrchestrateTypes, HandlerTypes
          DEF Next, Environment

\* Every state of every run has the types.
THEOREM TypeCorrect == Spec => []TypeOK
<1>1. QED BY InitTypeOK, NextTypeOK, PTL DEF Spec

-----------------------------------------------------------------------------
(* A settled run stays settled *)

\* Only beginRun's claim, a page's claim, closeRun and failRun write the run,
\* each of them conditionally.
LEMMA RunStep ==
  ASSUME TypeOK, [Next]_vars
  PROVE  /\ run \notin RunActive => run' = run /\ lastRun' = lastRun
         /\ lastRun' # lastRun => lastRun' = run'
<1>1. ASSUME NEW m \in Mappings, NEW s \in Slots, HandlerStep(m, s)
      PROVE  /\ run \notin RunActive => run' = run /\ lastRun' = lastRun
             /\ lastRun' # lastRun => lastRun' = run'
  BY <1>1 DEF HandlerStep, Load, Mark, Work, MergeRead, MergeWrite, CloseRead, CloseWrite, Settle,
              FailRead, FailWrite, RunActive
<1>2. CASE Orchestrate
  BY <1>2 DEF Orchestrate, BeginRead, BeginEmpty, BeginWrite, BeginSelect, BeginDone, Enqueue,
              OrchThrows, FailRun, RunActive
<1>3. CASE Environment
  BY <1>3 DEF Environment, OrchFault, OrchThrows, LoseLock, Crash, HandlerFault, DeleteMapping,
              DisableMapping, RunActive
<1>4. ASSUME NEW m \in Mappings, NEW s \in Slots, Deliver(m, s)
      PROVE  UNCHANGED <<run, lastRun>>
  BY <1>4 DEF Deliver
<1>5. QED BY <1>1, <1>2, <1>3, <1>4 DEF Next, vars

\* For any number of mappings, resources, handlers and faults: late children,
\* replayed deliveries and the final-attempt fallback never change a settled run.
THEOREM SettledRunIsFinal == Spec => SettledIsFinal
<1>1. TypeOK /\ [Next]_vars => [run \notin RunActive => run' = run]_vars
  BY RunStep
<1>2. QED BY InitTypeOK, NextTypeOK, <1>1, PTL DEF Spec, SettledIsFinal

\* The integration's last-run status is the run's own verdict, or untouched.
THEOREM LastRunStatusAgrees == Spec => []LastRunAgrees
<1>1. Init => LastRunAgrees
  BY DEF Init, LastRunAgrees
<1>2. TypeOK /\ LastRunAgrees /\ [Next]_vars => LastRunAgrees'
  <2> SUFFICES ASSUME TypeOK, LastRunAgrees, [Next]_vars PROVE LastRunAgrees'
    OBVIOUS
  <2>1. lastRun # "none" => run \notin RunActive
    BY DEF LastRunAgrees, TypeOK, RunActive
  <2>2. QED BY <2>1, RunStep DEF LastRunAgrees
<1>3. QED BY InitTypeOK, NextTypeOK, <1>1, <1>2, PTL DEF Spec
-----------------------------------------------------------------------------
(* No row waits for an outcome that will never come *)

\* At most one fault or lost lock so far, and BullMQ recovers from it.
Calm == MaxStalls > 0 /\ faults + lostLocks <= 1

\* A mapping is concluded when its row is gone or has lost an outcome, when every
\* resource has reported, or when the fallback failed the row after a fault.
Gone(m) == mapping[m] = "deleted"
Lost(m) == m \in dropped \/ Gone(m)
Has(m, q) == row[m].by[q] # "none"
AllDone(m) == \A q \in Resources : Has(m, q)
FailedByFault(m) == StatusOf(m) = "failed" /\ faults >= 1
Concluded(m) == Lost(m) \/ AllDone(m) \/ FailedByFault(m)

\* A row with every outcome is terminal.
RowFits(m) ==
  /\ m \notin Present => row[m] = NoRow
  /\ m \in Present /\ AllDone(m) => StatusOf(m) \in RowTerminal
  /\ Gone(m) => m \notin Present

\* Jobs are queued for mappings that have a row.
Planned ==
  /\ orch.pc \in {"write", "select", "enqueue"} => NumResources # 0
  /\ orch.pc = "enqueue" => \A m \in orch.fanout : m \in Present \/ Gone(m)

\* A job stalls no more often than there was trouble, and ends concluded.
JobFits(m) ==
  /\ job[m].stalls <= faults + lostLocks
  /\ job[m].state = "absent" => \A s \in Slots : handler[m][s].pc = "idle"
  /\ job[m].state # "absent" => m \in Present \/ Gone(m)
  /\ job[m].state = "done" => Concluded(m)

Closing == {"closeRead", "closeWrite"}

\* A handler owns the lock unless one was lost; what it has merged so far is in
\* the row, or in what it has read of it; it closes a concluded mapping, and the
\* fallback runs because of a fault or a lost mapping only.
HandlerFits(m, s) ==
  LET h == handler[m][s] IN
  /\ h.pc # "idle" /\ lostLocks = 0 => OwnsLock(m, s)
  /\ h.pc \in {"load", "mark", "work"} => h.next = 1
  /\ h.pc \in Closing => h.then # "none"
  /\ h.then = "failed" => h.pc \in Closing
  /\ h.pc = "mergeRead" => Lost(m) \/ \A q \in Resources : q < h.next => Has(m, q)
  /\ h.pc = "mergeWrite" =>
       \/ Lost(m)
       \/ h.read.status # "absent" /\ \A q \in Resources : q < h.next => h.read.by[q] # "none"
  /\ h.pc \in {"failRead", "failWrite"} => Lost(m) \/ faults >= 1
  /\ h.pc \in Closing /\ h.then = "end" => Lost(m) \/ AllDone(m)
  /\ h.pc \in Closing => Concluded(m)

Sound ==
  /\ Planned
  /\ \A m \in Mappings : RowFits(m) /\ JobFits(m)
  /\ \A m \in Mappings, s \in Slots : HandlerFits(m, s)

\* The inductive invariant.
Rooted == Calm => Sound

-----------------------------------------------------------------------------
(* What a step does to a result row *)

\* A handler writes the row back: terminal once every resource has reported, and
\* a reported resource is missing from it only if the write drops an outcome.
Written(m) ==
  /\ m \in Present /\ m \in Present'
  /\ AllDone(m)' => StatusOf(m)' \in RowTerminal
  /\ \A q \in Resources : Has(m, q) => Has(m, q)' \/ m \in dropped'
  /\ \/ StatusOf(m)' = "failed"
     \/ \E s \in Slots : handler[m][s].pc = "mergeWrite"

RowStep(m) ==
  \/ row'[m] = row[m] /\ Gone(m)' = Gone(m)
  \/ /\ m \notin Present /\ ~Gone(m) /\ ~Gone(m)'
     /\ \/ row'[m] = [row[m] EXCEPT !.status = "succeeded"]
        \/ row'[m] = [row[m] EXCEPT !.status = "queued"] /\ NumResources # 0
  \/ StatusOf(m) = "queued" /\ row'[m] = [row[m] EXCEPT !.status = "running"] /\ Gone(m)' = Gone(m)
  \/ Written(m) /\ Gone(m)' = Gone(m)
  \/ row'[m] = NoRow /\ Gone(m)'

\* The rows beginRun creates.
LEMMA CreatesRows ==
  ASSUME TypeOK, NEW status \in {"queued", "succeeded"}, CreateRows(status), ~MappingGone,
         UNCHANGED mapping, status = "queued" => NumResources # 0, NEW m \in Mappings
  PROVE  RowStep(m)
<1>1. row'[m] = IF m \in orch.fanout /\ StatusOf(m) = "absent"
                  THEN [row[m] EXCEPT !.status = status] ELSE row[m]
  BY DEF CreateRows
<1>2. Gone(m)' = Gone(m)
  BY DEF Gone
<1>3. CASE m \in orch.fanout /\ StatusOf(m) = "absent"
  <2>1. ~Gone(m) /\ m \notin Present
    BY <1>3 DEF MappingGone, Gone, Present
  <2>2. QED BY <1>1, <1>2, <1>3, <2>1 DEF RowStep
<1>4. CASE ~(m \in orch.fanout /\ StatusOf(m) = "absent")
  BY <1>1, <1>2, <1>4 DEF RowStep
<1>5. QED BY <1>3, <1>4

\* A write of a result with its type.
LEMMA WritesBack ==
  ASSUME TypeOK, NEW m \in Mappings, NEW r \in Row, WriteBack(m, r), m \in Present,
         r.status # "absent", UNCHANGED mapping,
         (\A q \in Resources : r.by[q] # "none") => r.status \in RowTerminal,
         r.status = "failed" \/ \E s \in Slots : handler[m][s].pc = "mergeWrite",
         NEW n \in Mappings
  PROVE  RowStep(n) /\ dropped \subseteq dropped'
<1>1. row' = [row EXCEPT ![m] = r]
  BY DEF WriteBack, SetRow
<1>2. row'[m] = r /\ (n # m => row'[n] = row[n])
  BY <1>1 DEF TypeOK
<1>3. dropped \subseteq dropped'
  BY DEF WriteBack
<1>4. Gone(n)' = Gone(n)
  BY DEF Gone
<1>5. CASE n = m
  <2>1. m \in Present' /\ StatusOf(m)' = r.status
    BY <1>2 DEF Present, StatusOf
  <2>2. AllDone(m)' => StatusOf(m)' \in RowTerminal
    BY <1>2, <2>1 DEF AllDone, Has
  <2>3. ASSUME NEW q \in Resources, Has(m, q) PROVE Has(m, q)' \/ m \in dropped'
    BY <1>2, <2>3 DEF Has, WriteBack
  <2>4. Written(m)
    BY <2>1, <2>2, <2>3 DEF Written
  <2>5. QED BY <1>3, <1>4, <1>5, <2>4 DEF RowStep
<1>6. CASE n # m
  BY <1>2, <1>3, <1>4, <1>6 DEF RowStep
<1>7. QED BY <1>5, <1>6

LEMMA MergedShape ==
  ASSUME NEW r \in Row, NEW k \in Nat, NEW out
  PROVE  /\ Merged(r, k, out) \in Row
         /\ Merged(r, k, out).status # "absent"
         /\ (\A q \in Resources : Merged(r, k, out).by[q] # "none")
              => Merged(r, k, out).status \in RowTerminal
         /\ \A q \in Resources : q = k \/ r.by[q] # "none" => Merged(r, k, out).by[q] # "none"
<1> DEFINE by == [r.by EXCEPT ![k] = IF out = "succeeded" THEN "succeeded" ELSE "failed"]
<1>1. by \in [Resources -> Recorded]
  BY DEF Row, Recorded
<1>2. \A q \in Resources : q = k \/ r.by[q] # "none" => by[q] # "none"
  BY DEF Row, Recorded
<1>3. Merged(r, k, out).by = by
  BY DEF Merged
<1> HIDE DEF by
<1>4. QED BY <1>1, <1>2, <1>3 DEF Merged, by, Row, RowStatus, RowTerminal

LEMMA RowSteps ==
  ASSUME TypeOK, Planned, [Next]_vars, NEW m \in Mappings
  PROVE  RowStep(m) /\ dropped \subseteq dropped'
<1>1. ASSUME UNCHANGED <<row, mapping, dropped>> PROVE RowStep(m) /\ dropped \subseteq dropped'
  <2>1. row'[m] = row[m] /\ Gone(m)' = Gone(m)
    BY <1>1 DEF Gone
  <2>2. QED BY <1>1, <2>1 DEF RowStep
<1>2. CASE BeginEmpty
  <2>1. CASE run \in RunActive /\ ~MappingGone
    BY <1>2, <2>1, CreatesRows DEF BeginEmpty
  <2>2. CASE ~(run \in RunActive /\ ~MappingGone)
    BY <1>1, <1>2, <2>2 DEF BeginEmpty
  <2>3. QED BY <2>1, <2>2
<1>3. CASE BeginWrite
  <2>1. CASE MappingGone
    BY <1>1, <1>3, <2>1 DEF BeginWrite
  <2>2. CASE ~MappingGone
    BY <1>3, <2>2, CreatesRows DEF BeginWrite, Planned
  <2>3. QED BY <2>1, <2>2
<1>4. CASE Orchestrate /\ ~BeginEmpty /\ ~BeginWrite
  <2>1. UNCHANGED <<row, mapping, dropped>>
    BY <1>4 DEF Orchestrate, BeginRead, BeginSelect, BeginDone, FailRun, Enqueue
  <2>2. QED BY <1>1, <2>1
<1>5. ASSUME NEW n \in Mappings, NEW s \in Slots, HandlerStep(n, s)
      PROVE  RowStep(m) /\ dropped \subseteq dropped'
  <2> DEFINE h == handler[n][s]
  <2>0. h \in Handler /\ row[n] \in Row /\ UNCHANGED mapping
    BY <1>5 DEF TypeOK, HandlerStep, Load, Mark, Work, MergeRead, MergeWrite, CloseRead,
                CloseWrite, FailRead, FailWrite
  <2>1. CASE Mark(n, s)
    <3>1. row' = [row EXCEPT ![n] = IF StatusOf(n) = "queued"
                                      THEN [row[n] EXCEPT !.status = "running"] ELSE row[n]]
      BY <2>1 DEF Mark, SetRow
    <3>2. /\ m # n => row'[m] = row[m]
          /\ m = n => row'[m] = IF StatusOf(m) = "queued"
                                  THEN [row[m] EXCEPT !.status = "running"] ELSE row[m]
      BY <3>1 DEF TypeOK
    <3>3. Gone(m)' = Gone(m) /\ dropped \subseteq dropped'
      BY <2>0, <2>1 DEF Gone, Mark
    <3>4. QED BY <3>2, <3>3 DEF RowStep
  <2>2. CASE MergeWrite(n, s)
    <3>1. CASE h.read.status # "absent" /\ StatusOf(n) # "absent"
      <4> DEFINE r == Merged(h.read, h.next, h.outs[h.next])
      <4>1. h.read \in Row /\ h.next \in Nat
        BY <2>0 DEF Handler
      <4>2. /\ r \in Row
            /\ r.status # "absent"
            /\ (\A q \in Resources : r.by[q] # "none") => r.status \in RowTerminal
        BY <4>1, MergedShape
      <4>3. WriteBack(n, r) /\ n \in Present /\ h.pc = "mergeWrite"
        BY <2>2, <3>1 DEF MergeWrite, Present
      <4> HIDE DEF r
      <4>4. QED BY <2>0, <4>2, <4>3, WritesBack
    <3>2. CASE ~(h.read.status # "absent" /\ StatusOf(n) # "absent")
      BY <1>1, <2>0, <2>2, <3>2 DEF MergeWrite
    <3>3. QED BY <3>1, <3>2
  <2>3. CASE FailWrite(n, s)
    <3>1. CASE StatusOf(n) = "absent"
      BY <1>1, <2>0, <2>3, <3>1 DEF FailWrite
    <3>2. CASE StatusOf(n) # "absent"
      <4> DEFINE r == [status |-> "failed", by |-> h.read.by]
      <4>1. r \in Row /\ r.status = "failed"
        BY <2>0 DEF Handler, Row, RowStatus
      <4>2. WriteBack(n, r) /\ n \in Present
        BY <2>3, <3>2 DEF FailWrite, Present
      <4> HIDE DEF r
      <4>3. r.status \in RowTerminal
        BY <4>1 DEF RowTerminal
      <4>4. QED BY <2>0, <4>1, <4>2, <4>3, WritesBack
    <3>3. QED BY <3>1, <3>2
  <2>4. CASE ~Mark(n, s) /\ ~MergeWrite(n, s) /\ ~FailWrite(n, s)
    <3>1. UNCHANGED <<row, mapping, dropped>>
      BY <1>5, <2>4 DEF HandlerStep, Load, Work, MergeRead, CloseRead, CloseWrite, FailRead
    <3>2. QED BY <1>1, <3>1
  <2>5. QED BY <2>1, <2>2, <2>3, <2>4
<1>6. ASSUME NEW n \in Mappings, DeleteMapping(n) PROVE RowStep(m) /\ dropped \subseteq dropped'
  <2>1. /\ row' = [row EXCEPT ![n] = NoRow]
        /\ mapping' = [mapping EXCEPT ![n] = "deleted"] /\ dropped' = dropped
    BY <1>6 DEF DeleteMapping, SetRow
  <2>2. m = n => row'[m] = NoRow /\ mapping'[m] = "deleted"
    BY <2>1 DEF TypeOK
  <2>3. m # n => row'[m] = row[m] /\ mapping'[m] = mapping[m]
    BY <2>1 DEF TypeOK
  <2>4. QED BY <2>1, <2>2, <2>3 DEF RowStep, Gone
<1>7. ASSUME NEW n \in Mappings, DisableMapping(n) PROVE RowStep(m) /\ dropped \subseteq dropped'
  <2>1. /\ mapping[n] = "enabled" /\ mapping' = [mapping EXCEPT ![n] = "disabled"]
        /\ UNCHANGED <<row, dropped>>
    BY <1>7 DEF DisableMapping
  <2>2. Gone(m)' = Gone(m) /\ row'[m] = row[m]
    BY <2>1 DEF Gone, TypeOK
  <2>3. QED BY <2>1, <2>2 DEF RowStep
<1>8. ASSUME NEW n \in Mappings, NEW s \in Slots, Deliver(n, s) \/ Crash(n, s) \/ HandlerFault(n, s)
      PROVE  UNCHANGED <<row, mapping, dropped>>
  BY <1>8 DEF Deliver, Crash, HandlerFault
<1>9. ASSUME NEW n \in Mappings, LoseLock(n) PROVE UNCHANGED <<row, mapping, dropped>>
  BY <1>9 DEF LoseLock
<1>10. OrchFault \/ UNCHANGED vars => UNCHANGED <<row, mapping, dropped>>
  BY DEF OrchFault, vars
<1>11. QED BY <1>1, <1>2, <1>3, <1>4, <1>5, <1>6, <1>7, <1>8, <1>9, <1>10 DEF Next, Environment

\* What was lost stays lost, what was reported stays reported or is lost.
LEMMA Lasting ==
  ASSUME TypeOK, Planned, [Next]_vars, NEW m \in Mappings
  PROVE  /\ Lost(m) => Lost(m)'
         /\ \A q \in Resources : Has(m, q) => Lost(m)' \/ Has(m, q)'
         /\ AllDone(m) => Lost(m)' \/ AllDone(m)'
         /\ m \in Present \/ Gone(m) => m \in Present' \/ Gone(m)'
<1>0. RowStep(m) /\ dropped \subseteq dropped' /\ row[m] \in Row
  BY RowSteps DEF TypeOK
<1>1. Lost(m) => Lost(m)'
  BY <1>0 DEF RowStep, Lost
<1>2. \A q \in Resources : Has(m, q) => Lost(m)' \/ Has(m, q)'
  BY <1>0 DEF RowStep, Written, Lost, Has, Row
<1>3. AllDone(m) => Lost(m)' \/ AllDone(m)'
  BY <1>2 DEF AllDone
<1>4. m \in Present \/ Gone(m) => m \in Present' \/ Gone(m)'
  BY <1>0 DEF RowStep, Written, Present, StatusOf, Row
<1>5. QED BY <1>1, <1>2, <1>3, <1>4

LEMMA RowFitsStep ==
  ASSUME TypeOK, Planned, [Next]_vars, NEW m \in Mappings, RowFits(m)
  PROVE  RowFits(m)'
<1>0. RowStep(m) /\ row[m] \in Row
  BY RowSteps DEF TypeOK
<1>1. CASE row'[m] = row[m] /\ Gone(m)' = Gone(m)
  <2>1. /\ m \in Present' <=> m \in Present
        /\ AllDone(m)' <=> AllDone(m)
        /\ StatusOf(m)' = StatusOf(m)
    BY <1>1 DEF Present, AllDone, Has, StatusOf
  <2>2. QED BY <1>1, <2>1 DEF RowFits
<1>2. CASE /\ m \notin Present /\ ~Gone(m) /\ ~Gone(m)'
           /\ \/ row'[m] = [row[m] EXCEPT !.status = "succeeded"]
              \/ row'[m] = [row[m] EXCEPT !.status = "queued"] /\ NumResources # 0
  <2>1. row[m] = NoRow
    BY <1>2 DEF RowFits
  <2>2. \/ row'[m].status = "succeeded"
        \/ row'[m].status = "queued" /\ row'[m].by = [q \in Resources |-> "none"] /\ NumResources # 0
    BY <1>2, <2>1 DEF NoRow
  <2>3. NumResources # 0 => 1 \in Resources
    BY FanoutAssumption DEF FanoutAssumption, Resources
  <2>4. row'[m].status = "succeeded" \/ ~AllDone(m)'
    BY <2>2, <2>3 DEF AllDone, Has
  <2>5. m \in Present'
    BY <2>2 DEF Present, StatusOf
  <2>6. QED BY <1>2, <2>4, <2>5 DEF RowFits, StatusOf, RowTerminal
<1>3. CASE /\ StatusOf(m) = "queued" /\ row'[m] = [row[m] EXCEPT !.status = "running"]
           /\ Gone(m)' = Gone(m)
  <2>1. m \in Present /\ ~AllDone(m) /\ ~Gone(m)
    BY <1>3 DEF RowFits, Present, RowTerminal
  <2>2. row'[m].status = "running" /\ row'[m].by = row[m].by
    BY <1>0, <1>3 DEF Row
  <2>3. m \in Present' /\ ~AllDone(m)'
    BY <2>1, <2>2 DEF Present, StatusOf, AllDone, Has
  <2>4. QED BY <1>3, <2>1, <2>3 DEF RowFits
<1>4. CASE Written(m) /\ Gone(m)' = Gone(m)
  BY <1>4 DEF Written, RowFits
<1>5. CASE row'[m] = NoRow /\ Gone(m)'
  BY <1>5 DEF RowFits, Present, StatusOf, NoRow
<1>6. QED BY <1>0, <1>1, <1>2, <1>3, <1>4, <1>5 DEF RowStep

\* The orchestrator queues jobs only for mappings that have a row.
LEMMA PlannedStep ==
  ASSUME TypeOK, Planned, [Next]_vars
  PROVE  Planned'
<1>0. orch \in Orchestrator
  BY DEF TypeOK
<1>1. \A m \in orch.fanout : m \in Mappings
  BY <1>0 DEF Orchestrator
<1>2. ASSUME UNCHANGED orch PROVE Planned'
  BY <1>1, <1>2, Lasting DEF Planned
<1>3. ASSUME orch'.pc \notin {"write", "select", "enqueue"} PROVE Planned'
  BY <1>3 DEF Planned
<1>4. OrchThrows => orch'.pc \notin {"write", "select", "enqueue"}
  BY <1>0 DEF OrchThrows, Orchestrator
<1>5. CASE BeginRead
  <2>1. \/ orch'.pc = "write" /\ NumResources # 0
        \/ orch'.pc \notin {"write", "select", "enqueue"}
    BY <1>0, <1>4, <1>5 DEF BeginRead, Orchestrator
  <2>2. QED BY <2>1 DEF Planned
<1>6. CASE BeginEmpty
  BY <1>0, <1>3, <1>4, <1>6 DEF BeginEmpty, Orchestrator
<1>7. CASE BeginWrite
  <2>1. \/ orch'.pc = "select" /\ NumResources # 0
        \/ orch'.pc \notin {"write", "select", "enqueue"}
    BY <1>0, <1>4, <1>7 DEF BeginWrite, Orchestrator, Planned
  <2>2. QED BY <2>1 DEF Planned
<1>8. CASE BeginSelect
  <2>1. orch'.fanout \subseteq Present /\ NumResources # 0 /\ UNCHANGED row
    BY <1>0, <1>1, <1>8 DEF BeginSelect, Orchestrator, Present, Planned
  <2>2. Present' = Present
    BY <2>1 DEF Present, StatusOf
  <2>3. QED BY <2>1, <2>2 DEF Planned
<1>9. ASSUME NEW m \in Mappings, Enqueue(m) PROVE Planned'
  <2>1. orch.pc = "enqueue" /\ orch'.fanout \subseteq orch.fanout
    BY <1>0, <1>9 DEF Enqueue, Orchestrator
  <2>2. \A n \in orch'.fanout : n \in Present' \/ Gone(n)'
    BY <1>1, <2>1, Lasting DEF Planned
  <2>3. QED BY <2>1, <2>2 DEF Planned
<1>10. CASE BeginDone \/ FailRun
  BY <1>0, <1>3, <1>10 DEF BeginDone, FailRun, Orchestrator
<1>11. CASE OrchFault
  <2>1. orch'.pc \notin {"write", "select", "enqueue"}
    BY <1>0, <1>4, <1>11 DEF OrchFault, Orchestrator
  <2>2. QED BY <1>3, <2>1
<1>12. ASSUME NEW m \in Mappings, NEW s \in Slots,
              Deliver(m, s) \/ HandlerStep(m, s) \/ Crash(m, s) \/ HandlerFault(m, s)
       PROVE  UNCHANGED orch
  BY <1>12 DEF Deliver, HandlerStep, Load, Mark, Work, MergeRead, MergeWrite, CloseRead,
               CloseWrite, FailRead, FailWrite, Crash, HandlerFault
<1>13. ASSUME NEW m \in Mappings, LoseLock(m) \/ DeleteMapping(m) \/ DisableMapping(m)
       PROVE  UNCHANGED orch
  BY <1>13 DEF LoseLock, DeleteMapping, DisableMapping
<1>14. CASE UNCHANGED vars
  BY <1>2, <1>14 DEF vars
<1>15. QED BY <1>2, <1>5, <1>6, <1>7, <1>8, <1>9, <1>10, <1>11, <1>12, <1>13, <1>14
           DEF Next, Orchestrate, Environment

-----------------------------------------------------------------------------
(* What a step does to jobs and handlers *)

\* A step from a sound state to one that is still calm.
CalmStep == TypeOK /\ Sound /\ Calm' /\ [Next]_vars

LEMMA Counters ==
  ASSUME TypeOK, [Next]_vars
  PROVE  /\ faults \in Nat /\ lostLocks \in Nat
         /\ faults' \in Nat /\ lostLocks' \in Nat
         /\ faults <= faults' /\ lostLocks <= lostLocks'
<1>1. faults \in Nat /\ lostLocks \in Nat
  BY FanoutAssumption DEF FanoutAssumption, TypeOK
<1>2. ASSUME NEW m \in Mappings, NEW s \in Slots, Deliver(m, s) \/ HandlerStep(m, s)
      PROVE  UNCHANGED <<faults, lostLocks>>
  BY <1>2 DEF Deliver, HandlerStep, Load, Mark, Work, MergeRead, MergeWrite, CloseRead,
              CloseWrite, FailRead, FailWrite
<1>3. CASE Orchestrate
  <2>1. UNCHANGED <<faults, lostLocks>>
    BY <1>3 DEF Orchestrate, BeginRead, BeginEmpty, BeginWrite, BeginSelect, BeginDone, FailRun,
                Enqueue
  <2>2. QED BY <1>1, <2>1
<1>4. CASE Environment
  BY <1>1, <1>4 DEF Environment, OrchFault, LoseLock, DeleteMapping, DisableMapping, Crash,
                    HandlerFault
<1>5. CASE UNCHANGED vars
  BY <1>1, <1>5 DEF vars
<1>6. QED BY <1>1, <1>2, <1>3, <1>4, <1>5 DEF Next

\* While no lock was lost, two handlers of a job do not coexist.
LEMMA OneHandler ==
  ASSUME Sound, NEW m \in Mappings, NEW s \in Slots, NEW t \in Slots, lostLocks = 0,
         handler[m][s].pc # "idle", handler[m][t].pc # "idle"
  PROVE  s = t /\ job[m].state = "active"
BY DEF Sound, HandlerFits, OwnsLock

\* A mapping with a job that is over or closing stays concluded.
LEMMA ConcludedLasts ==
  ASSUME CalmStep, NEW m \in Mappings, Concluded(m),
         job[m].state = "done" \/ \E s \in Slots : handler[m][s].pc \in Closing
  PROVE  Concluded(m)'
<1>0. TypeOK /\ Planned /\ [Next]_vars
  BY DEF CalmStep, Sound
<1>1. CASE Lost(m) \/ AllDone(m)
  BY <1>0, <1>1, Lasting DEF Concluded
<1>2. CASE FailedByFault(m)
  <2>1. lostLocks = 0 /\ faults' >= 1
    BY <1>0, <1>2, Counters DEF CalmStep, Calm, FailedByFault
  <2>2. ASSUME NEW t \in Slots, handler[m][t].pc = "mergeWrite" PROVE FALSE
    <3>1. CASE job[m].state = "done"
      BY <2>1, <2>2, <3>1, OneHandler DEF CalmStep
    <3>2. ASSUME NEW s \in Slots, handler[m][s].pc \in Closing PROVE FALSE
      <4>1. s = t
        BY <2>1, <2>2, <3>2, OneHandler DEF CalmStep, Closing
      <4>2. QED BY <2>2, <3>2, <4>1 DEF Closing
    <3>3. QED BY <3>1, <3>2
  <2>3. RowStep(m) /\ row[m].status = "failed"
    BY <1>0, <1>2, RowSteps DEF FailedByFault, StatusOf
  <2>4. row'[m].status = "failed" \/ Gone(m)'
    BY <2>2, <2>3 DEF RowStep, Written, Present, StatusOf
  <2>5. QED BY <2>1, <2>4 DEF Concluded, FailedByFault, StatusOf, Lost
<1>3. QED BY <1>1, <1>2 DEF Concluded

\* A handler that does not move goes on fitting, while it keeps its lock.
LEMMA Bystander ==
  ASSUME CalmStep, NEW m \in Mappings, NEW t \in Slots, handler'[m][t] = handler[m][t],
         handler[m][t].pc # "idle" /\ lostLocks' = 0 => OwnsLock(m, t)'
  PROVE  HandlerFits(m, t)'
<1> DEFINE h == handler[m][t]
<1>0. TypeOK /\ Planned /\ [Next]_vars /\ HandlerFits(m, t)
  BY DEF CalmStep, Sound
<1>1. faults >= 1 => faults' >= 1
  BY <1>0, Counters
<1>2. /\ Lost(m) => Lost(m)'
      /\ \A q \in Resources : Has(m, q) => Lost(m)' \/ Has(m, q)'
      /\ AllDone(m) => Lost(m)' \/ AllDone(m)'
  BY <1>0, Lasting
<1>3. h.pc \in Closing => Concluded(m)'
  BY <1>0, ConcludedLasts DEF HandlerFits
<1>4. h.pc = "mergeRead" => Lost(m)' \/ \A q \in Resources : q < h.next => Has(m, q)'
  BY <1>0, <1>2 DEF HandlerFits
<1>5. h.pc = "mergeWrite" =>
        \/ Lost(m)'
        \/ h.read.status # "absent" /\ \A q \in Resources : q < h.next => h.read.by[q] # "none"
  BY <1>0, <1>2 DEF HandlerFits
<1>6. QED BY <1>0, <1>1, <1>2, <1>3, <1>4, <1>5 DEF HandlerFits

\* A job that does not move goes on fitting.
LEMMA JobStays ==
  ASSUME CalmStep, NEW m \in Mappings, job'[m] = job[m],
         job[m].state = "absent" => \A s \in Slots : handler'[m][s].pc = "idle"
  PROVE  JobFits(m)'
<1>0. TypeOK /\ Planned /\ [Next]_vars /\ JobFits(m) /\ job[m] \in Job
  BY DEF CalmStep, Sound, TypeOK
<1>1. job[m].stalls <= faults' + lostLocks'
  <2>1. job[m].stalls \in Nat /\ job[m].stalls <= faults + lostLocks
    BY <1>0, FanoutAssumption DEF FanoutAssumption, Job, JobFits
  <2>2. QED BY <1>0, <2>1, Counters
<1>2. job[m].state # "absent" => m \in Present' \/ Gone(m)'
  BY <1>0, Lasting DEF JobFits
<1>3. job[m].state = "done" => Concluded(m)'
  BY <1>0, ConcludedLasts DEF JobFits
<1>4. QED BY <1>0, <1>1, <1>2, <1>3 DEF JobFits

\* Every job and every handler fits.
Fit == \A m \in Mappings : JobFits(m) /\ \A s \in Slots : HandlerFits(m, s)

\* A mapping whose job and handlers do not move.
LEMMA Uninvolved ==
  ASSUME CalmStep, NEW m \in Mappings, job'[m] = job[m], handler'[m] = handler[m]
  PROVE  JobFits(m)' /\ \A t \in Slots : HandlerFits(m, t)'
<1>1. ASSUME NEW t \in Slots PROVE HandlerFits(m, t)'
  <2>1. lostLocks' = 0 => lostLocks = 0
    BY Counters DEF CalmStep
  <2>2. handler[m][t].pc # "idle" /\ lostLocks = 0 => OwnsLock(m, t)
    BY DEF CalmStep, Sound, HandlerFits
  <2>3. handler[m][t].pc # "idle" /\ lostLocks' = 0 => OwnsLock(m, t)'
    BY <2>1, <2>2 DEF OwnsLock
  <2>4. QED BY <2>3, Bystander
<1>2. JobFits(m)'
  <2>1. job[m].state = "absent" => \A s \in Slots : handler'[m][s].pc = "idle"
    BY DEF CalmStep, Sound, JobFits
  <2>2. QED BY <2>1, JobStays
<1>3. QED BY <1>1, <1>2

\* One handler of one job acts: the other handlers of the job are idle, or a
\* lock was lost.
LEMMA Acting ==
  ASSUME CalmStep, NEW n \in Mappings, NEW s \in Slots, handler[n][s].pc # "idle",
         NEW h, SetHandler(n, s, h), \A m \in Mappings : m # n => job'[m] = job[m],
         JobFits(n)', HandlerFits(n, s)'
  PROVE  Fit'
<1>1. /\ \A m \in Mappings : m # n => handler'[m] = handler[m]
      /\ \A t \in Slots : t # s => handler'[n][t] = handler[n][t]
  BY DEF SetHandler, CalmStep, TypeOK
<1>2. ASSUME NEW t \in Slots, t # s PROVE HandlerFits(n, t)'
  <2>1. lostLocks' = 0 => lostLocks = 0
    BY Counters DEF CalmStep
  <2>2. lostLocks = 0 => handler[n][t].pc = "idle"
    BY <1>2, OneHandler DEF CalmStep
  <2>3. QED BY <1>1, <1>2, <2>1, <2>2, Bystander
<1>3. ASSUME NEW m \in Mappings, m # n
      PROVE  JobFits(m)' /\ \A t \in Slots : HandlerFits(m, t)'
  BY <1>1, <1>3, Uninvolved
<1>4. QED BY <1>2, <1>3 DEF Fit

\* A handler moves to another program point.
LEMMA Moves ==
  ASSUME CalmStep, NEW n \in Mappings, NEW s \in Slots, handler[n][s].pc # "idle",
         NEW h, SetHandler(n, s, h), UNCHANGED job, HandlerFits(n, s)'
  PROVE  Fit'
<1>1. job[n].state # "absent"
  BY DEF CalmStep, Sound, JobFits
<1>2. JobFits(n)'
  BY <1>1, JobStays
<1>3. QED BY <1>2, Acting

\* A handler ends, and with it its attempt or, once the mapping is concluded,
\* its job.
LEMMA Ends ==
  ASSUME CalmStep, NEW n \in Mappings, NEW s \in Slots, handler[n][s].pc # "idle",
         \/ FailAttempt(n, s) /\ ~handler[n][s].final
         \/ (Finish(n, s) \/ FailAttempt(n, s)) /\ Concluded(n)'
  PROVE  Fit'
<1>0. TypeOK /\ [Next]_vars /\ Planned /\ JobFits(n) /\ job[n] \in Job
  BY DEF CalmStep, Sound, TypeOK
<1>1. SetHandler(n, s, NoHandler)
  BY DEF Finish, FailAttempt
<1>2. handler'[n][s] = NoHandler
  BY <1>0, <1>1 DEF SetHandler, TypeOK
<1>3. HandlerFits(n, s)'
  BY <1>2 DEF HandlerFits, NoHandler, Closing
<1>4. PICK j \in {job[n], [job[n] EXCEPT !.state = "done", !.owner = 0],
                  [job[n] EXCEPT !.state = "waiting", !.attempt = @ + 1, !.owner = 0]} :
        /\ SetJob(n, j)
        /\ j = job[n] \/ j.state = "waiting" \/ Concluded(n)'
  BY <1>0 DEF Finish, FailAttempt, Job
<1>5. job'[n] = j /\ \A m \in Mappings : m # n => job'[m] = job[m]
  BY <1>0, <1>4 DEF SetJob, TypeOK
<1>6. job[n].state # "absent"
  BY DEF CalmStep, Sound, JobFits
<1>7. CASE j = job[n]
  BY <1>1, <1>3, <1>5, <1>6, <1>7, JobStays, Acting
<1>8. CASE j # job[n]
  <2>1. j.stalls = job[n].stalls /\ j.state \in {"done", "waiting"}
    BY <1>0, <1>4, <1>8 DEF Job
  <2>2. j.stalls <= faults' + lostLocks'
    <3>1. job[n].stalls \in Nat /\ job[n].stalls <= faults + lostLocks
      BY <1>0, FanoutAssumption DEF FanoutAssumption, Job, JobFits
    <3>2. QED BY <1>0, <2>1, <3>1, Counters
  <2>3. n \in Present' \/ Gone(n)'
    BY <1>0, <1>6, Lasting DEF JobFits
  <2>4. JobFits(n)'
    BY <1>4, <1>5, <1>8, <2>1, <2>2, <2>3 DEF JobFits
  <2>5. QED BY <1>1, <1>3, <1>5, <2>4, Acting
<1>9. QED BY <1>7, <1>8

\* The handler that moves keeps its lock.
LEMMA KeepsLock ==
  ASSUME CalmStep, NEW n \in Mappings, NEW s \in Slots, handler[n][s].pc # "idle", UNCHANGED job
  PROVE  lostLocks' = 0 => OwnsLock(n, s)'
<1>1. lostLocks' = 0 => lostLocks = 0
  BY Counters DEF CalmStep
<1>2. lostLocks = 0 => OwnsLock(n, s)
  BY DEF CalmStep, Sound, HandlerFits
<1>3. QED BY <1>1, <1>2 DEF OwnsLock

\* Handlers before their first merge.
LEMMA EarlyStepFits ==
  ASSUME CalmStep, NEW n \in Mappings, NEW s \in Slots,
         Load(n, s) \/ Mark(n, s) \/ Work(n, s)
  PROVE  Fit'
<1> DEFINE h == handler[n][s]
<1>0. TypeOK /\ [Next]_vars /\ Planned /\ HandlerFits(n, s) /\ h \in Handler
  BY DEF CalmStep, Sound, TypeOK
<1>1. h.pc # "idle" /\ h.next = 1 /\ h.then # "failed"
  BY <1>0 DEF HandlerFits, Load, Mark, Work, Closing
<1>2. ASSUME NEW pc \in {"mark", "work"}, Goto(n, s, pc), UNCHANGED job PROVE Fit'
  <2>1. SetHandler(n, s, [h EXCEPT !.pc = pc])
    BY <1>2 DEF Goto
  <2>2. handler'[n][s] = [h EXCEPT !.pc = pc]
    BY <1>0, <2>1 DEF SetHandler, TypeOK
  <2>3. handler'[n][s].pc = pc /\ handler'[n][s].next = 1 /\ handler'[n][s].then # "failed"
    BY <1>0, <1>1, <2>2 DEF Handler
  <2>4. HandlerFits(n, s)'
    BY <1>1, <1>2, <2>3, KeepsLock DEF HandlerFits, Closing
  <2>5. QED BY <1>1, <1>2, <2>1, <2>4, Moves
<1>3. CASE Load(n, s)
  <2>1. CASE mapping[n] = "deleted"
    <3>1. Concluded(n)'
      BY <1>0, <2>1, Lasting DEF Lost, Gone, Concluded
    <3>2. Finish(n, s)
      BY <1>3, <2>1 DEF Load
    <3>3. QED BY <1>1, <3>1, <3>2, Ends
  <2>2. CASE mapping[n] # "deleted"
    BY <1>2, <1>3, <2>2 DEF Load
  <2>3. QED BY <2>1, <2>2
<1>4. CASE Mark(n, s)
  BY <1>2, <1>4 DEF Mark
<1>5. CASE Work(n, s)
  <2>1. PICK outs \in PossibleOutcomes :
          \/ FailAttempt(n, s) /\ ~h.final
          \/ /\ SetHandler(n, s, [h EXCEPT !.pc = "mergeRead", !.outs = outs])
             /\ UNCHANGED job
    BY <1>5 DEF Work, ThrowsUnmerged
  <2>2. CASE FailAttempt(n, s) /\ ~h.final
    BY <1>1, <2>2, Ends
  <2>3. CASE /\ SetHandler(n, s, [h EXCEPT !.pc = "mergeRead", !.outs = outs])
             /\ UNCHANGED job
    <3>1. handler'[n][s] = [h EXCEPT !.pc = "mergeRead", !.outs = outs]
      BY <1>0, <2>3 DEF SetHandler, TypeOK
    <3>2. /\ handler'[n][s].pc = "mergeRead" /\ handler'[n][s].next = 1
          /\ handler'[n][s].then # "failed"
      BY <1>0, <1>1, <3>1 DEF Handler
    <3>3. \A q \in Resources : ~(q < 1)
      BY FanoutAssumption DEF FanoutAssumption, Resources
    <3>4. HandlerFits(n, s)'
      BY <1>1, <2>3, <3>2, <3>3, KeepsLock DEF HandlerFits, Closing
    <3>5. QED BY <1>1, <2>3, <3>4, Moves
  <2>4. QED BY <2>1, <2>2, <2>3
<1>6. QED BY <1>3, <1>4, <1>5

\* A handler throws: on the final attempt into the fallback, which needs a
\* fault or a lost mapping to account for it.
LEMMA ThrowFits ==
  ASSUME CalmStep, NEW n \in Mappings, NEW s \in Slots, handler[n][s].pc # "idle",
         handler[n][s].then # "failed", Throw(n, s), Lost(n)' \/ faults' >= 1
  PROVE  Fit'
<1> DEFINE h == handler[n][s]
<1>0. TypeOK /\ h \in Handler
  BY DEF CalmStep, TypeOK
<1>1. CASE h.final
  <2>1. SetHandler(n, s, [h EXCEPT !.pc = "failRead"]) /\ UNCHANGED job
    BY <1>1 DEF Throw, Goto
  <2>2. handler'[n][s] = [h EXCEPT !.pc = "failRead"]
    BY <1>0, <2>1 DEF SetHandler, TypeOK
  <2>3. handler'[n][s].pc = "failRead" /\ handler'[n][s].then # "failed"
    BY <1>0, <2>2 DEF Handler
  <2>4. HandlerFits(n, s)'
    BY <2>1, <2>3, KeepsLock DEF HandlerFits, Closing
  <2>5. QED BY <2>1, <2>4, Moves
<1>2. CASE ~h.final
  BY <1>2, Ends DEF Throw
<1>3. QED BY <1>1, <1>2

\* The merge of one outcome.
LEMMA MergeStepFits ==
  ASSUME CalmStep, NEW n \in Mappings, NEW s \in Slots,
         MergeRead(n, s) \/ MergeWrite(n, s)
  PROVE  Fit'
<1> DEFINE h == handler[n][s]
<1>0. /\ TypeOK /\ [Next]_vars /\ Planned /\ HandlerFits(n, s) /\ JobFits(n) /\ RowFits(n)
      /\ h \in Handler
  BY DEF CalmStep, Sound, TypeOK
<1>1. h.pc # "idle" /\ h.then # "failed" /\ (Lost(n) => Lost(n)')
  BY <1>0, Lasting DEF HandlerFits, MergeRead, MergeWrite, Closing
<1>2. n \in Present \/ Lost(n)
  BY <1>0, <1>1 DEF JobFits, Lost
<1>3. CASE MergeRead(n, s)
  <2>1. SetHandler(n, s, [h EXCEPT !.pc = "mergeWrite", !.read = row[n]]) /\ UNCHANGED job
    BY <1>3 DEF MergeRead
  <2>2. handler'[n][s] = [h EXCEPT !.pc = "mergeWrite", !.read = row[n]]
    BY <1>0, <2>1 DEF SetHandler, TypeOK
  <2>3. /\ handler'[n][s].pc = "mergeWrite" /\ handler'[n][s].then # "failed"
        /\ handler'[n][s].read = row[n] /\ handler'[n][s].next = h.next
    BY <1>0, <1>1, <2>2 DEF Handler
  <2>4. \/ Lost(n)
        \/ /\ row[n].status # "absent"
           /\ \A q \in Resources : q < h.next => row[n].by[q] # "none"
    BY <1>0, <1>2, <1>3 DEF HandlerFits, MergeRead, Present, StatusOf, Has
  <2>5. HandlerFits(n, s)'
    BY <1>1, <2>1, <2>3, <2>4, KeepsLock DEF HandlerFits, Closing
  <2>6. QED BY <1>1, <2>1, <2>5, Moves
<1>4. CASE MergeWrite(n, s) /\ ~(h.read.status # "absent" /\ StatusOf(n) # "absent")
  <2>1. Lost(n)'
    BY <1>0, <1>1, <1>2, <1>4 DEF HandlerFits, MergeWrite, Present
  <2>2. Throw(n, s)
    BY <1>4 DEF MergeWrite
  <2>3. QED BY <1>1, <2>1, <2>2, ThrowFits
<1>5. CASE MergeWrite(n, s) /\ h.read.status # "absent" /\ StatusOf(n) # "absent"
  <2> DEFINE r == Merged(h.read, h.next, h.outs[h.next])
             g == [h EXCEPT !.next = h.next + 1, !.read = NoRow, !.then = "end",
                            !.pc = IF h.next < NumResources THEN "mergeRead" ELSE "closeRead"]
  <2>1. WriteBack(n, r) /\ SetHandler(n, s, g) /\ UNCHANGED job
    BY <1>5 DEF MergeWrite
  <2>2. handler'[n][s] = g /\ row'[n] = r
    BY <1>0, <2>1 DEF SetHandler, WriteBack, SetRow, TypeOK
  <2>3. h.next \in Nat /\ h.read \in Row
    BY <1>0 DEF Handler
  <2>4. \A q \in Resources : q = h.next \/ h.read.by[q] # "none" => r.by[q] # "none"
    BY <2>3, MergedShape
  <2>5. g.next = h.next + 1 /\ g.then = "end"
        /\ g.pc = IF h.next < NumResources THEN "mergeRead" ELSE "closeRead"
    BY <1>0 DEF Handler
  <2> HIDE DEF r, g
  <2>6. Lost(n)' \/ \A q \in Resources : q < h.next + 1 => Has(n, q)'
    <3>1. CASE Lost(n)
      BY <1>1, <3>1
    <3>2. CASE ~Lost(n)
      <4>1. \A q \in Resources : q < h.next => h.read.by[q] # "none"
        BY <1>0, <1>5, <3>2 DEF HandlerFits, MergeWrite
      <4>2. \A q \in Resources : q < h.next + 1 => q = h.next \/ q < h.next
        BY <2>3, FanoutAssumption DEF FanoutAssumption, Resources
      <4>3. QED BY <2>2, <2>4, <4>1, <4>2 DEF Has
    <3>3. QED BY <3>1, <3>2
  <2>7. CASE h.next < NumResources
    <3>1. HandlerFits(n, s)'
      BY <1>1, <2>1, <2>2, <2>5, <2>6, <2>7, KeepsLock DEF HandlerFits, Closing
    <3>2. QED BY <1>1, <2>1, <3>1, Moves
  <2>8. CASE ~(h.next < NumResources)
    <3>1. \A q \in Resources : q < h.next + 1
      BY <2>3, <2>8, FanoutAssumption DEF FanoutAssumption, Resources
    <3>2. Lost(n)' \/ AllDone(n)'
      BY <2>6, <3>1 DEF AllDone
    <3>3. Concluded(n)'
      BY <3>2 DEF Concluded
    <3>4. HandlerFits(n, s)'
      BY <1>1, <2>1, <2>2, <2>5, <2>8, <3>2, <3>3, KeepsLock DEF HandlerFits, Closing
    <3>5. QED BY <1>1, <2>1, <3>4, Moves
  <2>9. QED BY <2>7, <2>8
<1>6. QED BY <1>3, <1>4, <1>5

\* closeRun, and the end of the handler.
LEMMA CloseStepFits ==
  ASSUME CalmStep, NEW n \in Mappings, NEW s \in Slots,
         CloseRead(n, s) \/ CloseWrite(n, s)
  PROVE  Fit'
<1> DEFINE h == handler[n][s]
<1>0. /\ TypeOK /\ [Next]_vars /\ Planned /\ HandlerFits(n, s)
      /\ h \in Handler
  BY DEF CalmStep, Sound, TypeOK
<1>1. h.pc # "idle" /\ h.pc \in Closing
  BY DEF CloseRead, CloseWrite, Closing
<1>2. /\ Concluded(n)' /\ h.then # "none"
      /\ h.then = "end" => Lost(n)' \/ AllDone(n)'
  BY <1>0, <1>1, ConcludedLasts, Lasting DEF HandlerFits
<1>3. ASSUME AfterClose(n, s) PROVE Fit'
  BY <1>1, <1>2, <1>3, Ends DEF AfterClose
<1>4. ASSUME NEW v, SetHandler(n, s, [h EXCEPT !.pc = "closeWrite", !.verdict = v]), UNCHANGED job
      PROVE  Fit'
  <2>1. handler'[n][s] = [h EXCEPT !.pc = "closeWrite", !.verdict = v]
    BY <1>0, <1>4 DEF SetHandler, TypeOK
  <2>2. handler'[n][s].pc = "closeWrite" /\ handler'[n][s].then = h.then
    BY <1>0, <2>1 DEF Handler
  <2>3. HandlerFits(n, s)'
    BY <1>1, <1>2, <1>4, <2>2, KeepsLock DEF HandlerFits, Closing
  <2>4. QED BY <1>1, <1>4, <2>3, Moves
<1>5. QED BY <1>3, <1>4 DEF CloseRead, CloseWrite

\* The fallback: failMappingJob.
LEMMA FailStepFits ==
  ASSUME CalmStep, NEW n \in Mappings, NEW s \in Slots,
         FailRead(n, s) \/ FailWrite(n, s)
  PROVE  Fit'
<1> DEFINE h == handler[n][s]
<1>0. /\ TypeOK /\ [Next]_vars /\ Planned /\ HandlerFits(n, s) /\ JobFits(n)
      /\ h \in Handler
  BY DEF CalmStep, Sound, TypeOK
<1>1. h.pc # "idle" /\ h.then # "failed" /\ h.pc \in {"failRead", "failWrite"}
  BY <1>0 DEF HandlerFits, FailRead, FailWrite, Closing
<1>2. Lost(n)' \/ (faults >= 1 /\ faults' >= 1)
  BY <1>0, <1>1, Counters, Lasting DEF HandlerFits
<1>3. CASE StatusOf(n) = "absent"
  <2>1. Lost(n)
    BY <1>0, <1>1, <1>3 DEF JobFits, Present, Lost
  <2>2. Concluded(n)'
    BY <1>0, <2>1, Lasting DEF Concluded
  <2>3. QED BY <1>1, <1>3, <2>2, Ends DEF FailRead, FailWrite
<1>4. CASE FailRead(n, s) /\ StatusOf(n) # "absent"
  <2>1. SetHandler(n, s, [h EXCEPT !.pc = "failWrite", !.read = row[n]]) /\ UNCHANGED job
    BY <1>4 DEF FailRead
  <2>2. handler'[n][s] = [h EXCEPT !.pc = "failWrite", !.read = row[n]]
    BY <1>0, <2>1 DEF SetHandler, TypeOK
  <2>3. handler'[n][s].pc = "failWrite" /\ handler'[n][s].then # "failed"
    BY <1>0, <1>1, <2>2 DEF Handler
  <2>4. HandlerFits(n, s)'
    BY <1>1, <1>2, <2>1, <2>3, KeepsLock DEF HandlerFits, Closing
  <2>5. QED BY <1>1, <2>1, <2>4, Moves
<1>5. CASE FailWrite(n, s) /\ StatusOf(n) # "absent"
  <2> DEFINE g == [h EXCEPT !.pc = "closeRead", !.read = NoRow, !.then = "failed"]
  <2>1. /\ WriteBack(n, [status |-> "failed", by |-> h.read.by])
        /\ SetHandler(n, s, g) /\ UNCHANGED job
    BY <1>5 DEF FailWrite
  <2>2. handler'[n][s] = g /\ row'[n].status = "failed"
    BY <1>0, <2>1 DEF SetHandler, WriteBack, SetRow, TypeOK
  <2>3. handler'[n][s].pc = "closeRead" /\ handler'[n][s].then = "failed"
    BY <1>0, <2>2 DEF Handler
  <2>4. Concluded(n)'
    BY <1>2, <2>2 DEF Concluded, FailedByFault, StatusOf
  <2>5. HandlerFits(n, s)'
    BY <1>1, <2>1, <2>3, <2>4, KeepsLock DEF HandlerFits, Closing
  <2>6. QED BY <1>1, <2>1, <2>5, Moves
<1>6. QED BY <1>3, <1>4, <1>5

\* A fault inside a handler: in the fallback it is the second trouble, unless
\* the mapping is lost or concluded anyway.
LEMMA FaultFits ==
  ASSUME CalmStep, NEW n \in Mappings, NEW s \in Slots, HandlerFault(n, s)
  PROVE  Fit'
<1> DEFINE h == handler[n][s]
<1>0. TypeOK /\ [Next]_vars /\ Planned /\ HandlerFits(n, s)
  BY DEF CalmStep, Sound
<1>1. h.pc # "idle" /\ faults' = faults + 1
  BY DEF HandlerFault
<1>2. faults = 0 /\ faults' >= 1
  BY <1>0, <1>1, Counters DEF CalmStep, Calm
<1>3. CASE h.pc \in {"failRead", "failWrite"}
  <2>1. Lost(n)
    BY <1>0, <1>2, <1>3 DEF HandlerFits
  <2>2. Concluded(n)'
    BY <1>0, <2>1, Lasting DEF Concluded
  <2>3. QED BY <1>1, <1>3, <2>2, Ends DEF HandlerFault
<1>4. CASE h.then = "failed"
  <2>1. Concluded(n)'
    BY <1>0, <1>4, ConcludedLasts DEF HandlerFits
  <2>2. QED BY <1>1, <1>4, <2>1, Ends DEF HandlerFault
<1>5. CASE ~(h.pc \in {"failRead", "failWrite"} \/ h.then = "failed")
  BY <1>1, <1>2, <1>5, ThrowFits DEF HandlerFault
<1>6. QED BY <1>3, <1>4, <1>5

-----------------------------------------------------------------------------
(* BullMQ, the orchestrator and the administrators *)

LEMMA DeliverFits ==
  ASSUME CalmStep, NEW n \in Mappings, NEW s \in Slots, Deliver(n, s)
  PROVE  Fit'
<1> DEFINE j == [job[n] EXCEPT !.state = "active", !.owner = s]
           g == [NoHandler EXCEPT !.pc = "load", !.final = job[n].attempt = JobAttempts]
<1>0. /\ TypeOK /\ [Next]_vars /\ Planned /\ JobFits(n) /\ job[n] \in Job
      /\ job[n].state = "waiting"
  BY DEF CalmStep, Sound, TypeOK, Deliver
<1>1. SetJob(n, j) /\ SetHandler(n, s, g)
  BY DEF Deliver
<1>2. job'[n] = j /\ \A m \in Mappings : m # n => job'[m] = job[m]
  BY <1>0, <1>1 DEF SetJob, TypeOK
<1>3. /\ handler'[n][s] = g
      /\ \A m \in Mappings : m # n => handler'[m] = handler[m]
      /\ \A t \in Slots : t # s => handler'[n][t] = handler[n][t]
  BY <1>0, <1>1 DEF SetHandler, TypeOK
<1>4. j.state = "active" /\ j.owner = s /\ j.stalls = job[n].stalls
  BY <1>0 DEF Job
<1>5. g.pc = "load" /\ g.next = 1 /\ g.then = "none"
  BY DEF NoHandler
<1> HIDE DEF j, g
<1>6. JobFits(n)'
  <2>1. j.stalls <= faults' + lostLocks'
    <3>1. job[n].stalls \in Nat /\ job[n].stalls <= faults + lostLocks
      BY <1>0, FanoutAssumption DEF FanoutAssumption, Job, JobFits
    <3>2. QED BY <1>0, <1>4, <3>1, Counters
  <2>2. n \in Present' \/ Gone(n)'
    BY <1>0, Lasting DEF JobFits
  <2>3. QED BY <1>2, <1>4, <2>1, <2>2 DEF JobFits
<1>7. HandlerFits(n, s)'
  BY <1>2, <1>3, <1>4, <1>5 DEF HandlerFits, Closing, OwnsLock
<1>8. ASSUME NEW t \in Slots, t # s PROVE HandlerFits(n, t)'
  <2>1. lostLocks' = 0 => lostLocks = 0
    BY <1>0, Counters
  <2>2. lostLocks = 0 => handler[n][t].pc = "idle"
    BY <1>0 DEF CalmStep, Sound, HandlerFits, OwnsLock
  <2>3. QED BY <1>3, <1>8, <2>1, <2>2, Bystander
<1>9. QED BY <1>2, <1>3, <1>6, <1>7, <1>8, Uninvolved DEF Fit

\* A job that stalls goes back to the queue: it is the first trouble.
LEMMA RequeuedFits ==
  ASSUME CalmStep, NEW n \in Mappings, job[n].state # "absent", job'[n] = Requeued(job[n]),
         faults' + lostLocks' = faults + lostLocks + 1
  PROVE  JobFits(n)'
<1>0. /\ TypeOK /\ [Next]_vars /\ Planned /\ JobFits(n) /\ job[n] \in Job
      /\ MaxStalls > 0 /\ faults' + lostLocks' <= 1
  BY DEF CalmStep, Sound, TypeOK, Calm
<1>1. job[n].stalls \in Nat /\ MaxStalls \in Nat
  BY <1>0, FanoutAssumption DEF FanoutAssumption, Job
<1>2. job[n].stalls < MaxStalls /\ job[n].stalls + 1 <= faults' + lostLocks'
  BY <1>0, <1>1, Counters DEF JobFits
<1>3. job'[n].stalls = job[n].stalls + 1 /\ job'[n].state = "waiting"
  BY <1>0, <1>2 DEF Requeued, Job
<1>4. n \in Present' \/ Gone(n)'
  BY <1>0, Lasting DEF JobFits
<1>5. QED BY <1>2, <1>3, <1>4 DEF JobFits

LEMMA LoseLockFits ==
  ASSUME CalmStep, NEW n \in Mappings, LoseLock(n)
  PROVE  Fit'
<1>0. TypeOK /\ [Next]_vars
  BY DEF CalmStep
<1>1. /\ job'[n] = Requeued(job[n]) /\ \A m \in Mappings : m # n => job'[m] = job[m]
      /\ job[n].state # "absent" /\ UNCHANGED handler
      /\ lostLocks' = lostLocks + 1 /\ faults' = faults
  BY <1>0 DEF LoseLock, SetJob, TypeOK
<1>2. lostLocks' # 0 /\ faults' + lostLocks' = faults + lostLocks + 1
  BY <1>0, <1>1, Counters
<1>3. JobFits(n)'
  BY <1>1, <1>2, RequeuedFits
<1>4. \A t \in Slots : HandlerFits(n, t)'
  BY <1>1, <1>2, Bystander
<1>5. QED BY <1>1, <1>3, <1>4, Uninvolved DEF Fit

LEMMA CrashFits ==
  ASSUME CalmStep, NEW n \in Mappings, NEW s \in Slots, Crash(n, s)
  PROVE  Fit'
<1>0. TypeOK /\ [Next]_vars
  BY DEF CalmStep
<1>1. /\ SetHandler(n, s, NoHandler) /\ handler[n][s].pc # "idle"
      /\ faults' = faults + 1 /\ lostLocks' = lostLocks
  BY DEF Crash
<1>2. /\ job'[n] = IF OwnsLock(n, s) THEN Requeued(job[n]) ELSE job[n]
      /\ \A m \in Mappings : m # n => job'[m] = job[m]
  BY <1>0 DEF Crash, SetJob, TypeOK
<1>3. handler'[n][s] = NoHandler
  BY <1>0, <1>1 DEF SetHandler, TypeOK
<1>4. HandlerFits(n, s)'
  BY <1>3 DEF HandlerFits, NoHandler, Closing
<1>5. job[n].state # "absent"
  BY <1>1 DEF CalmStep, Sound, JobFits
<1>6. faults' + lostLocks' = faults + lostLocks + 1
  BY <1>0, <1>1, Counters
<1>7. JobFits(n)'
  BY <1>2, <1>5, <1>6, RequeuedFits, JobStays
<1>8. QED BY <1>1, <1>2, <1>4, <1>7, Acting

LEMMA EnqueueFits ==
  ASSUME CalmStep, NEW n \in Mappings, Enqueue(n)
  PROVE  Fit'
<1>0. TypeOK /\ [Next]_vars /\ Planned /\ JobFits(n) /\ job[n] \in Job
  BY DEF CalmStep, Sound, TypeOK
<1>1. /\ job'[n] = IF job[n].state = "absent" THEN [job[n] EXCEPT !.state = "waiting"] ELSE job[n]
      /\ \A m \in Mappings : m # n => job'[m] = job[m]
      /\ UNCHANGED handler
  BY <1>0 DEF Enqueue, SetJob, TypeOK
<1>2. CASE job[n].state # "absent"
  BY <1>1, <1>2, Uninvolved DEF Fit
<1>3. CASE job[n].state = "absent"
  <2>1. \A t \in Slots : handler[n][t].pc = "idle"
    BY <1>0, <1>3 DEF JobFits
  <2>2. \A t \in Slots : HandlerFits(n, t)'
    BY <1>1, <2>1, Bystander
  <2>3. job'[n].state = "waiting" /\ job'[n].stalls = job[n].stalls
    BY <1>0, <1>1, <1>3 DEF Job
  <2>4. job[n].stalls <= faults' + lostLocks'
    <3>1. job[n].stalls \in Nat /\ job[n].stalls <= faults + lostLocks
      BY <1>0, FanoutAssumption DEF FanoutAssumption, Job, JobFits
    <3>2. QED BY <1>0, <3>1, Counters
  <2>5. n \in Present \/ Gone(n)
    BY <1>0 DEF Enqueue, Planned
  <2>6. n \in Present' \/ Gone(n)'
    BY <1>0, <2>5, Lasting
  <2>7. JobFits(n)'
    BY <2>3, <2>4, <2>6 DEF JobFits
  <2>8. QED BY <1>1, <2>2, <2>7, Uninvolved DEF Fit
<1>4. QED BY <1>2, <1>3

\* Everything together.
LEMMA StepFits == ASSUME CalmStep PROVE Fit'
<1>1. ASSUME UNCHANGED <<job, handler>> PROVE Fit'
  BY <1>1, Uninvolved DEF Fit
<1>2. CASE Orchestrate
  <2>1. ASSUME NEW m \in Mappings, Enqueue(m) PROVE Fit'
    BY <2>1, EnqueueFits
  <2>2. BeginRead \/ BeginEmpty \/ BeginWrite \/ BeginSelect \/ BeginDone \/ FailRun
          => UNCHANGED <<job, handler>>
    BY DEF BeginRead, BeginEmpty, BeginWrite, BeginSelect, BeginDone, FailRun
  <2>3. QED BY <1>1, <1>2, <2>1, <2>2 DEF Orchestrate
<1>3. ASSUME NEW m \in Mappings, NEW s \in Slots, HandlerStep(m, s) PROVE Fit'
  BY <1>3, EarlyStepFits, MergeStepFits, CloseStepFits, FailStepFits DEF HandlerStep
<1>4. CASE Environment
  <2>1. ASSUME NEW m \in Mappings, DeleteMapping(m) \/ DisableMapping(m)
        PROVE  UNCHANGED <<job, handler>>
    BY <2>1 DEF DeleteMapping, DisableMapping
  <2>2. OrchFault => UNCHANGED <<job, handler>>
    BY DEF OrchFault
  <2>3. ASSUME NEW m \in Mappings, LoseLock(m) PROVE Fit'
    BY <2>3, LoseLockFits
  <2>4. ASSUME NEW m \in Mappings, NEW s \in Slots, Crash(m, s) \/ HandlerFault(m, s) PROVE Fit'
    BY <2>4, CrashFits, FaultFits
  <2>5. QED BY <1>1, <1>4, <2>1, <2>2, <2>3, <2>4 DEF Environment
<1>5. ASSUME NEW m \in Mappings, NEW s \in Slots, Deliver(m, s) PROVE Fit'
  BY <1>5, DeliverFits
<1>6. UNCHANGED vars => UNCHANGED <<job, handler>>
  BY DEF vars
<1>7. QED BY <1>1, <1>2, <1>3, <1>4, <1>5, <1>6 DEF CalmStep, Next

LEMMA InitSound == Init => Sound
<1> SUFFICES ASSUME Init PROVE Sound
  OBVIOUS
<1>1. Planned
  BY DEF Init, Planned
<1>2. ASSUME NEW m \in Mappings
      PROVE  /\ row[m] = NoRow /\ ~Gone(m) /\ m \notin Present
             /\ job[m].stalls = 0 /\ job[m].state = "absent"
             /\ \A s \in Slots : handler[m][s] = NoHandler
  BY DEF Init, Gone, Present, StatusOf, NoRow
<1>3. ASSUME NEW m \in Mappings, NEW s \in Slots
      PROVE  handler[m][s].pc = "idle" /\ handler[m][s].then = "none"
  BY <1>2 DEF NoHandler
<1>4. ASSUME NEW m \in Mappings PROVE RowFits(m) /\ JobFits(m)
  BY <1>2, <1>3 DEF RowFits, JobFits, Init
<1>5. ASSUME NEW m \in Mappings, NEW s \in Slots PROVE HandlerFits(m, s)
  BY <1>3 DEF HandlerFits, Closing
<1>6. QED BY <1>1, <1>4, <1>5 DEF Sound

LEMMA RootedStep == TypeOK /\ Rooted /\ [Next]_vars => Rooted'
<1> SUFFICES ASSUME TypeOK, Rooted, [Next]_vars, Calm' PROVE Sound'
  BY DEF Rooted
<1>1. Calm
  BY Counters DEF Calm
<1>2. Sound /\ Planned
  BY <1>1 DEF Rooted, Sound
<1>3. Fit'
  BY <1>2, StepFits DEF CalmStep
<1>4. Planned'
  BY <1>2, PlannedStep
<1>5. \A m \in Mappings : RowFits(m)'
  BY <1>2, RowFitsStep DEF Sound
<1>6. QED BY <1>3, <1>4, <1>5 DEF Sound, Fit

\* For any number of mappings, resources, handlers and edits: after at most one
\* fault or lost lock, no row is left unfinished by a job that is over, unless a
\* write dropped an outcome from it.
THEOREM RowsConclude == Spec => []NoOrphanRow
<1>1. Init => Rooted
  BY InitSound DEF Rooted
<1>2. TypeOK /\ Rooted => NoOrphanRow
  <2> SUFFICES ASSUME TypeOK, Rooted, Calm, NEW m \in Mappings, job[m].state = "done"
               PROVE  StatusOf(m) \in RowTerminal \cup {"absent"} \/ m \in dropped
    BY DEF NoOrphanRow, Calm
  <2>1. RowFits(m) /\ Concluded(m)
    BY DEF Rooted, Sound, JobFits
  <2>2. CASE Gone(m) \/ StatusOf(m) = "absent"
    BY <2>1, <2>2 DEF RowFits, Present
  <2>3. CASE AllDone(m) /\ StatusOf(m) # "absent"
    BY <2>1, <2>3 DEF RowFits, Present
  <2>4. QED BY <2>1, <2>2, <2>3 DEF Concluded, Lost, FailedByFault, RowTerminal
<1>3. QED BY InitTypeOK, NextTypeOK, RootedStep, <1>1, <1>2, PTL DEF Spec
=============================================================================
