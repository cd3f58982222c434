----------------------------- MODULE SyncFanout -----------------------------
(***************************************************************************)
(* The life of one integration sync run, from the orchestrator job that    *)
(* begins it to the mapping job that closes it:                            *)
(*   - beginRun fans out one job per enabled company mapping;              *)
(*   - a mapping job runs the resources of its mapping, merges one outcome *)
(*     per resource into the mapping's result row, and closes the run;     *)
(*   - closeRun settles the run once every row is terminal;                *)
(*   - failMappingJob and failRun are the final-attempt fallbacks.         *)
(*                                                                         *)
(* Jobs live in BullMQ (external): a failed attempt is retried, a job whose*)
(* worker died or lost its lock is redelivered once and then failed, and   *)
(* the handler that lost its lock keeps running.  A handler is a sequence  *)
(* of database round trips; READ COMMITTED transactions that read a row    *)
(* and then update it are two steps.                                       *)
(***************************************************************************)
EXTENDS Naturals, FiniteSets

CONSTANTS Mappings,     \* company mappings of the integration
          NumResources, \* enabled resources, numbered in execution order
          DependsOn,    \* the resources each resource depends on
          Slots,        \* worker slots: handlers of one job that may coexist
          JobAttempts,  \* attempts of a mapping job (3 in the code)
          OrchAttempts, \* attempts of the orchestrator job (2 manual, 1 scheduled)
          MaxFaults,    \* bound on crashes and unexpected errors
          MaxStalls,    \* stalls BullMQ recovers from (maxStalledCount, 1)
          MaxLost,      \* bound on locks lost by a live handler
          MaxEdits      \* bound on mappings deleted or disabled meanwhile

Resources == 1..NumResources

ASSUME FanoutAssumption ==
  /\ NumResources \in Nat
  /\ DependsOn \in [Resources -> SUBSET Resources]
  /\ \A r \in Resources : \A d \in DependsOn[r] : d < r
  /\ JobAttempts \in Nat \ {0} /\ OrchAttempts \in Nat \ {0}
  /\ MaxFaults \in Nat /\ MaxStalls \in Nat /\ MaxLost \in Nat /\ MaxEdits \in Nat

RunStatus == {"queued", "running", "succeeded", "failed"}
RunActive == {"queued", "running"}
RowStatus == {"absent", "queued", "running", "succeeded", "failed"}
RowTerminal == {"succeeded", "failed"}
\* What is recorded of a resource, and how runMapping can end: succeeded, a
\* driver error (retryable), or an incomplete evaluation or dependency skip.
Recorded == {"none", "succeeded", "failed"}
Outcomes == {"none", "succeeded", "error", "incomplete"}

VARIABLES
  run,        \* IntegrationSyncRun.status
  lastRun,    \* integration.lastRunStatus as this run leaves it
  mapping,    \* the company mappings: enabled, disabled or deleted
  row,        \* IntegrationSyncRunCompanyResult: status and totals.byResource
  orch,       \* the orchestrator job (BullMQ's view of it and its handler)
  job,        \* the mapping jobs in BullMQ
  handler,    \* the handlers running them
  dropped,    \* history: the mappings of whose results a write has dropped an outcome
  faults, lostLocks, edits

vars == <<run, lastRun, mapping, row, orch, job, handler, dropped, faults, lostLocks, edits>>

NoRow == [status |-> "absent", by |-> [r \in Resources |-> "none"]]

NoHandler == [pc |-> "idle", outs |-> [r \in Resources |-> "none"], next |-> 1,
              read |-> NoRow, final |-> FALSE, verdict |-> "failed", then |-> "none"]

Init ==
  /\ run = "queued"
  /\ lastRun = "none"
  /\ mapping = [m \in Mappings |-> "enabled"]
  /\ row = [m \in Mappings |-> NoRow]
  /\ orch = [pc |-> "waiting", attempt |-> 1, stalls |-> 0, fanout |-> {}]
  /\ job = [m \in Mappings |-> [state |-> "absent", attempt |-> 1, stalls |-> 0, owner |-> 0]]
  /\ handler = [m \in Mappings |-> [s \in Slots |-> NoHandler]]
  /\ dropped = {}
  /\ faults = 0 /\ lostLocks = 0 /\ edits = 0

StatusOf(m) == row[m].status
SetRow(m, r) == row' = [row EXCEPT ![m] = r]
SetJob(m, j) == job' = [job EXCEPT ![m] = j]
SetHandler(m, s, h) == handler' = [handler EXCEPT ![m][s] = h]

-----------------------------------------------------------------------------
(* The orchestrator job: beginRun *)

Enabled == {m \in Mappings : mapping[m] = "enabled"}

\* upsert with an empty update: an existing row is left alone.
CreateRows(status) ==
  row' = [m \in Mappings |-> IF m \in orch.fanout /\ StatusOf(m) = "absent"
                                THEN [row[m] EXCEPT !.status = status] ELSE row[m]]

\* The attempt throws: retry, or on the final attempt go on to fail the run.
OrchThrows ==
  orch' = IF orch.attempt < OrchAttempts
            THEN [orch EXCEPT !.pc = "waiting", !.attempt = @ + 1, !.fanout = {}]
            ELSE [orch EXCEPT !.pc = "failRun", !.fanout = {}]

\* failRun, conditional on the run still being active; then the job is given up.
FailRun ==
  /\ orch.pc = "failRun"
  /\ orch' = [orch EXCEPT !.pc = "done"]
  /\ run' = IF run \in RunActive THEN "failed" ELSE run
  /\ UNCHANGED <<lastRun, mapping, row, job, handler, dropped, faults, lostLocks, edits>>

\* beginRun up to its transaction: a settled run is dropped by the lookup before
\* it, or refused if it settles in between; otherwise the enabled mappings and
\* the configured resources are read.
BeginRead ==
  /\ orch.pc = "waiting"
  /\ \/ /\ run \in RunActive
        /\ orch' = [orch EXCEPT !.pc = IF Enabled = {} \/ NumResources = 0 THEN "empty" ELSE "write",
                                !.fanout = Enabled]
     \/ /\ run \notin RunActive
        /\ OrchThrows \/ orch' = [orch EXCEPT !.pc = "done"]
  /\ UNCHANGED <<run, lastRun, mapping, row, job, handler, dropped, faults, lostLocks, edits>>

MappingGone == \E m \in orch.fanout : mapping[m] = "deleted"

\* Nothing to fan out: settle the run in one transaction; a mapping deleted
\* since the read breaks the foreign key of its row.
BeginEmpty ==
  /\ orch.pc = "empty"
  /\ IF run \in RunActive /\ MappingGone
       THEN OrchThrows ELSE orch' = [orch EXCEPT !.pc = "done", !.fanout = {}]
  /\ IF run \in RunActive /\ ~MappingGone
       THEN /\ run' = "succeeded"
            /\ lastRun' = "succeeded"
            /\ CreateRows("succeeded")
       ELSE UNCHANGED <<run, lastRun, row>>
  /\ UNCHANGED <<mapping, job, handler, dropped, faults, lostLocks, edits>>

\* Claim the run and create the missing result rows, in one transaction.
BeginWrite ==
  /\ orch.pc = "write"
  /\ IF MappingGone
       THEN OrchThrows /\ UNCHANGED <<run, row>>
       ELSE /\ run' = IF run = "queued" THEN "running" ELSE run
            /\ CreateRows("queued")
            /\ orch' = [orch EXCEPT !.pc = "select"]
  /\ UNCHANGED <<lastRun, mapping, job, handler, dropped, faults, lostLocks, edits>>

\* Only rows that are still queued are fanned out.
BeginSelect ==
  /\ orch.pc = "select"
  /\ orch' = [orch EXCEPT !.pc = "enqueue",
                          !.fanout = {m \in orch.fanout : StatusOf(m) = "queued"}]
  /\ UNCHANGED <<run, lastRun, mapping, row, job, handler, dropped, faults, lostLocks, edits>>

\* One queue.add per mapping; the job id makes a second add a no-op.
Enqueue(m) ==
  /\ orch.pc = "enqueue"
  /\ m \in orch.fanout
  /\ SetJob(m, IF job[m].state = "absent" THEN [job[m] EXCEPT !.state = "waiting"] ELSE job[m])
  /\ orch' = [orch EXCEPT !.fanout = @ \ {m}]
  /\ UNCHANGED <<run, lastRun, mapping, row, handler, dropped, faults, lostLocks, edits>>

BeginDone ==
  /\ orch.pc = "enqueue"
  /\ orch.fanout = {}
  /\ orch' = [orch EXCEPT !.pc = "done"]
  /\ UNCHANGED <<run, lastRun, mapping, row, job, handler, dropped, faults, lostLocks, edits>>

\* Redis or the database fails during an attempt, or the worker dies and the
\* job is redelivered (or given up, when it stalled too often).
OrchFault ==
  /\ orch.pc \in {"empty", "write", "select", "enqueue", "failRun"}
  /\ faults < MaxFaults
  /\ faults' = faults + 1
  /\ \/ orch.pc # "failRun" /\ OrchThrows
     \/ orch.pc = "failRun" /\ orch' = [orch EXCEPT !.pc = "done"]
     \/ orch' = IF orch.stalls < MaxStalls
                  THEN [orch EXCEPT !.pc = "waiting", !.stalls = @ + 1, !.fanout = {}]
                  ELSE [orch EXCEPT !.pc = "done", !.fanout = {}]
  /\ UNCHANGED <<run, lastRun, mapping, row, job, handler, dropped, lostLocks, edits>>

-----------------------------------------------------------------------------
(* BullMQ: delivery of the mapping jobs (external) *)

Deliver(m, s) ==
  /\ job[m].state = "waiting"
  /\ handler[m][s].pc = "idle"
  /\ SetJob(m, [job[m] EXCEPT !.state = "active", !.owner = s])
  /\ SetHandler(m, s, [NoHandler EXCEPT !.pc = "load", !.final = job[m].attempt = JobAttempts])
  /\ UNCHANGED <<run, lastRun, mapping, row, orch, dropped, faults, lostLocks, edits>>

OwnsLock(m, s) == job[m].state = "active" /\ job[m].owner = s

\* A job without its lock goes back to the queue, or is failed when it stalled
\* too often (no handler runs then).
Requeued(j) ==
  IF j.stalls < MaxStalls THEN [j EXCEPT !.state = "waiting", !.stalls = @ + 1, !.owner = 0]
                          ELSE [j EXCEPT !.state = "done", !.owner = 0]

\* The lock of a live handler expires; the handler does not notice.
LoseLock(m) ==
  /\ job[m].state = "active"
  /\ lostLocks < MaxLost
  /\ lostLocks' = lostLocks + 1
  /\ SetJob(m, Requeued(job[m]))
  /\ UNCHANGED <<run, lastRun, mapping, row, orch, handler, dropped, faults, edits>>

\* The worker dies in the middle of a handler.
Crash(m, s) ==
  /\ handler[m][s].pc # "idle"
  /\ faults < MaxFaults
  /\ faults' = faults + 1
  /\ SetHandler(m, s, NoHandler)
  /\ SetJob(m, IF OwnsLock(m, s) THEN Requeued(job[m]) ELSE job[m])
  /\ UNCHANGED <<run, lastRun, mapping, row, orch, dropped, lostLocks, edits>>

\* The handler returns; only the owner of the lock moves the job.
Finish(m, s) ==
  /\ SetHandler(m, s, NoHandler)
  /\ SetJob(m, IF OwnsLock(m, s) THEN [job[m] EXCEPT !.state = "done", !.owner = 0] ELSE job[m])

\* The handler throws: another attempt, or the end of the job.
FailAttempt(m, s) ==
  /\ SetHandler(m, s, NoHandler)
  /\ SetJob(m, IF ~OwnsLock(m, s) THEN job[m]
               ELSE IF handler[m][s].final THEN [job[m] EXCEPT !.state = "done", !.owner = 0]
               ELSE [job[m] EXCEPT !.state = "waiting", !.attempt = @ + 1, !.owner = 0])

-----------------------------------------------------------------------------
(* The mapping handler: executeMappingDag *)

Goto(m, s, pc) == SetHandler(m, s, [handler[m][s] EXCEPT !.pc = pc])

\* Slip: the final attempt is not treated differently.
ThrowWithoutFallback(m, s) == FailAttempt(m, s)

\* An unexpected exception: on the final attempt the row is failed first.
Throw(m, s) ==
  IF handler[m][s].final
    THEN Goto(m, s, "failRead") /\ UNCHANGED job
    ELSE FailAttempt(m, s)

\* A mapping that is gone ends the job quietly, without closing the run.
Load(m, s) ==
  /\ handler[m][s].pc = "load"
  /\ IF mapping[m] = "deleted"
       THEN Finish(m, s)
       ELSE Goto(m, s, "mark") /\ UNCHANGED job
  /\ UNCHANGED <<run, lastRun, mapping, row, orch, dropped, faults, lostLocks, edits>>

\* markMappingRunning: queued rows only.
Mark(m, s) ==
  /\ handler[m][s].pc = "mark"
  /\ SetRow(m, IF StatusOf(m) = "queued" THEN [row[m] EXCEPT !.status = "running"] ELSE row[m])
  /\ Goto(m, s, "work")
  /\ UNCHANGED <<run, lastRun, mapping, orch, job, dropped, faults, lostLocks, edits>>

Failed(out) == out \in {"error", "incomplete"}

\* The outcomes one traversal of the resources can have: a resource with a
\* failed dependency is skipped (incomplete).
PossibleOutcomes ==
  {outs \in [Resources -> {"succeeded", "error", "incomplete"}] :
     \A r \in Resources :
       (\E d \in DependsOn[r] : Failed(outs[d])) => outs[r] = "incomplete"}

Retryable(outs) == \E r \in Resources : outs[r] = "error"

\* Slip: the final attempt rethrows before merging, too.
ThrowsOnEveryAttempt(m, s, outs) == Retryable(outs)

\* A driver error on an attempt that is not the last one.
ThrowsUnmerged(m, s, outs) == Retryable(outs) /\ ~handler[m][s].final

\* Run every resource (the pages' run claims find the run running already).  A
\* driver error on an attempt that is not the last one throws before anything is
\* merged.
Work(m, s) ==
  /\ handler[m][s].pc = "work"
  /\ \E outs \in PossibleOutcomes :
       IF ThrowsUnmerged(m, s, outs)
         THEN FailAttempt(m, s)
         ELSE /\ SetHandler(m, s, [handler[m][s] EXCEPT !.pc = "mergeRead", !.outs = outs])
              /\ UNCHANGED job
  /\ UNCHANGED <<run, lastRun, mapping, row, orch, dropped, faults, lostLocks, edits>>

\* mergeResourceResult reads the row...
MergeRead(m, s) ==
  /\ handler[m][s].pc = "mergeRead"
  /\ SetHandler(m, s, [handler[m][s] EXCEPT !.pc = "mergeWrite", !.read = row[m]])
  /\ UNCHANGED <<run, lastRun, mapping, row, orch, job, dropped, faults, lostLocks, edits>>

\* Slips of the merge: the outcome is stored as the driver reports it; the
\* totals of earlier resources are dropped; one success is enough for the row.
RawMerged(read, r, out) ==
  [status |-> IF r < NumResources THEN "running" ELSE "succeeded",
   by |-> [read.by EXCEPT ![r] = out]]

MergedAlone(read, r, out) ==
  [status |-> IF out = "succeeded" THEN "succeeded" ELSE "failed",
   by |-> [NoRow.by EXCEPT ![r] = IF out = "succeeded" THEN "succeeded" ELSE "failed"]]

FailsIfAllFail(read, r, out) ==
  LET by == [read.by EXCEPT ![r] = IF out = "succeeded" THEN "succeeded" ELSE "failed"]
  IN [status |-> IF \E q \in Resources : by[q] = "none" THEN "running"
                 ELSE IF \E q \in Resources : by[q] = "succeeded" THEN "succeeded" ELSE "failed",
      by |-> by]

\* The row after one more resource: terminal once every resource has reported.
Merged(read, r, out) ==
  LET by == [read.by EXCEPT ![r] = IF out = "succeeded" THEN "succeeded" ELSE "failed"]
      allDone == \A q \in Resources : by[q] # "none"
      anyFailed == \E q \in Resources : by[q] = "failed"
  IN [status |-> IF ~allDone THEN "running" ELSE IF anyFailed THEN "failed" ELSE "succeeded",
      by |-> by]

\* A result is written back whole, from what the handler has read of it.
WriteBack(m, r) ==
  /\ SetRow(m, r)
  /\ dropped' = IF \E q \in Resources : row[m].by[q] # "none" /\ r.by[q] = "none"
                  THEN dropped \union {m} ELSE dropped

\* ... and writes it back whole; a row deleted with its mapping throws.
MergeWrite(m, s) ==
  LET h == handler[m][s] IN
  /\ h.pc = "mergeWrite"
  /\ \/ /\ h.read.status # "absent" /\ StatusOf(m) # "absent"
        /\ WriteBack(m, Merged(h.read, h.next, h.outs[h.next]))
        /\ SetHandler(m, s, [h EXCEPT !.next = h.next + 1, !.read = NoRow, !.then = "end",
                              !.pc = IF h.next < NumResources THEN "mergeRead" ELSE "closeRead"])
        /\ UNCHANGED job
     \/ /\ h.read.status = "absent" \/ StatusOf(m) = "absent"
        /\ Throw(m, s)
        /\ UNCHANGED <<row, dropped>>
  /\ UNCHANGED <<run, lastRun, mapping, orch, faults, lostLocks, edits>>

\* A database or Redis error anywhere in the handler; inside the fallback it
\* ends the attempt at once.
HandlerFault(m, s) ==
  /\ handler[m][s].pc # "idle"
  /\ faults < MaxFaults
  /\ faults' = faults + 1
  /\ IF handler[m][s].pc \in {"failRead", "failWrite"} \/ handler[m][s].then = "failed"
       THEN FailAttempt(m, s) ELSE Throw(m, s)
  /\ UNCHANGED <<run, lastRun, mapping, row, orch, dropped, lostLocks, edits>>

-----------------------------------------------------------------------------
(* closeRun, failMappingJob *)

Present == {m \in Mappings : StatusOf(m) # "absent"}

\* How the handler ends after closeRun: a retryable outcome of the last attempt
\* is reported to BullMQ as FinalizedMappingError, failMappingJob rethrows.
AfterClose(m, s) ==
  IF handler[m][s].then = "failed" \/ Retryable(handler[m][s].outs)
    THEN FailAttempt(m, s) ELSE Finish(m, s)

\* Read the run with all its rows; not every row terminal: return.
CloseRead(m, s) ==
  /\ handler[m][s].pc = "closeRead"
  /\ IF \A n \in Present : StatusOf(n) \in RowTerminal
       THEN /\ SetHandler(m, s, [handler[m][s] EXCEPT !.pc = "closeWrite",
                 !.verdict = IF \E n \in Present : StatusOf(n) = "failed"
                               THEN "failed" ELSE "succeeded"])
            /\ UNCHANGED job
       ELSE AfterClose(m, s)
  /\ UNCHANGED <<run, lastRun, mapping, row, orch, dropped, faults, lostLocks, edits>>

\* Slips: the update is not conditional; the stamp is outside the condition.
SettleAlways(verdict) == run' = verdict /\ lastRun' = verdict

StampAlways(verdict) ==
  lastRun' = verdict /\ run' = IF run \in RunActive THEN verdict ELSE run

\* The conditional transition is authoritative; only it stamps the integration.
Settle(verdict) ==
  IF run \in RunActive THEN run' = verdict /\ lastRun' = verdict
                       ELSE UNCHANGED <<run, lastRun>>

CloseWrite(m, s) ==
  /\ handler[m][s].pc = "closeWrite"
  /\ Settle(handler[m][s].verdict)
  /\ AfterClose(m, s)
  /\ UNCHANGED <<mapping, row, orch, dropped, faults, lostLocks, edits>>

\* failMappingJob: without a row there is nothing to fail, and nothing to close.
FailRead(m, s) ==
  /\ handler[m][s].pc = "failRead"
  /\ IF StatusOf(m) = "absent"
       THEN FailAttempt(m, s)
       ELSE /\ SetHandler(m, s, [handler[m][s] EXCEPT !.pc = "failWrite", !.read = row[m]])
            /\ UNCHANGED job
  /\ UNCHANGED <<run, lastRun, mapping, row, orch, dropped, faults, lostLocks, edits>>

\* The row is written with the totals that were read.
FailWrite(m, s) ==
  /\ handler[m][s].pc = "failWrite"
  /\ IF StatusOf(m) = "absent"
       THEN FailAttempt(m, s) /\ UNCHANGED <<row, dropped>>
       ELSE /\ WriteBack(m, [status |-> "failed", by |-> handler[m][s].read.by])
            /\ SetHandler(m, s, [handler[m][s] EXCEPT !.pc = "closeRead", !.read = NoRow,
                                                      !.then = "failed"])
            /\ UNCHANGED job
  /\ UNCHANGED <<run, lastRun, mapping, orch, faults, lostLocks, edits>>

-----------------------------------------------------------------------------
(* Administrators *)

\* Deleting a mapping cascades to its result row.
DeleteMapping(m) ==
  /\ mapping[m] # "deleted"
  /\ edits < MaxEdits
  /\ edits' = edits + 1
  /\ mapping' = [mapping EXCEPT ![m] = "deleted"]
  /\ SetRow(m, NoRow)
  /\ UNCHANGED <<run, lastRun, orch, job, handler, dropped, faults, lostLocks>>

DisableMapping(m) ==
  /\ mapping[m] = "enabled"
  /\ edits < MaxEdits
  /\ edits' = edits + 1
  /\ mapping' = [mapping EXCEPT ![m] = "disabled"]
  /\ UNCHANGED <<run, lastRun, row, orch, job, handler, dropped, faults, lostLocks>>

-----------------------------------------------------------------------------
Orchestrate ==
  \/ BeginRead \/ BeginEmpty \/ BeginWrite \/ BeginSelect \/ BeginDone \/ FailRun
  \/ \E m \in Mappings : Enqueue(m)

HandlerStep(m, s) ==
  \/ Load(m, s) \/ Mark(m, s) \/ Work(m, s) \/ MergeRead(m, s) \/ MergeWrite(m, s)
  \/ CloseRead(m, s) \/ CloseWrite(m, s) \/ FailRead(m, s) \/ FailWrite(m, s)

Environment ==
  \/ OrchFault
  \/ \E m \in Mappings : LoseLock(m) \/ DeleteMapping(m) \/ DisableMapping(m)
  \/ \E m \in Mappings, s \in Slots : Crash(m, s) \/ HandlerFault(m, s)

Next ==
  \/ Orchestrate
  \/ \E m \in Mappings, s \in Slots : Deliver(m, s) \/ HandlerStep(m, s)
  \/ Environment

Spec == Init /\ [][Next]_vars

\* Workers keep taking jobs and their handlers keep running.
Fairness ==
  /\ WF_vars(Orchestrate)
  /\ \A m \in Mappings : WF_vars(\E s \in Slots : Deliver(m, s))
  /\ \A m \in Mappings, s \in Slots : WF_vars(HandlerStep(m, s))

FairSpec == Spec /\ Fairness

-----------------------------------------------------------------------------
(* Properties *)

Row == [status : RowStatus, by : [Resources -> Recorded]]
Orchestrator == [pc : {"waiting", "empty", "write", "select", "enqueue", "failRun", "done"},
                 attempt : 1..OrchAttempts, stalls : 0..MaxStalls, fanout : SUBSET Mappings]
Job == [state : {"absent", "waiting", "active", "done"}, attempt : Nat,
        stalls : 0..MaxStalls, owner : Slots \cup {0}]
Handler == [pc : {"idle", "load", "mark", "work", "mergeRead", "mergeWrite", "closeRead",
                  "closeWrite", "failRead", "failWrite"},
            outs : [Resources -> Outcomes], next : Nat, read : Row,
            final : BOOLEAN, verdict : {"succeeded", "failed"},
            then : {"none", "end", "failed"}]

\* Every variable has its type.
TypeOK ==
  /\ run \in RunStatus
  /\ lastRun \in {"none", "succeeded", "failed"}
  /\ mapping \in [Mappings -> {"enabled", "disabled", "deleted"}]
  /\ row \in [Mappings -> Row]
  /\ orch \in Orchestrator
  /\ job \in [Mappings -> Job]
  /\ handler \in [Mappings -> [Slots -> Handler]]
  /\ dropped \subseteq Mappings
  /\ faults \in 0..MaxFaults /\ lostLocks \in 0..MaxLost /\ edits \in 0..MaxEdits

\* A settled run is never revived or rewritten: late children, replayed
\* deliveries and the final-attempt fallback all lose to the first settlement.
SettledIsFinal == [][run \notin RunActive => run' = run]_vars

\* The integration's last-run status is that of the run, or untouched (a run
\* that failRun ended does not stamp it).
LastRunAgrees == lastRun = "none" \/ lastRun = run

\* closeRun settles a run only when every mapping has a terminal row (or was
\* disabled before the run began, or deleted; a redelivered orchestrator closes
\* the run over its rows when no mapping is left), and, while nothing failed and
\* no mapping was edited, as succeeded exactly if every resource of every mapping
\* was reported and succeeded: two mappings that finish together, in any order
\* of their reads and writes, never close it early, and a failed or skipped
\* resource fails it even when its mapping's job was retried.  (A job redelivered
\* after its merges may fail a row that another closer has read; a handler that
\* lost its lock, or a job redelivered after its fallback wrote a row short of
\* outcomes, which takes two faults, may take a row back to running under a
\* closer.)
VerdictIsTruthful ==
  [][lastRun' # lastRun /\ lostLocks = 0 /\ faults <= 1 =>
       /\ \A m \in Mappings :
            \/ row'[m].status \in RowTerminal
            \/ row'[m].status = "absent" /\ mapping[m] # "enabled"
            \/ Enabled = {}
       /\ faults + edits = 0 =>
            (run' = "succeeded" <=>
               \A m \in Mappings, r \in Resources : row'[m].by[r] = "succeeded")]_vars

\* A mapping whose job is over, with no handler left running, has a terminal
\* result row: whichever attempt failed, crashed or overlapped with its own
\* redelivery, no row waits for an outcome that will never come again.  The
\* exceptions: a job that runs into trouble twice may be given up without a
\* handler, or fail in its fallback too; and a handler that overlaps with its
\* redelivery may write back a result from which the other's outcomes are
\* missing, and leave the row running for ever.
NoOrphanRow ==
  MaxStalls > 0 /\ faults + lostLocks <= 1 =>
    \A m \in Mappings :
      job[m].state = "done" /\ (\A s \in Slots : handler[m][s].pc = "idle")
        => StatusOf(m) \in RowTerminal \cup {"absent"} \/ m \in dropped

\* An outcome that was merged into a mapping's result stays there while the
\* result exists ("atomically folds the resource totals").
NoOutcomeLost ==
  [][\A m \in Mappings, r \in Resources :
       row[m].by[r] # "none" /\ row'[m].status # "absent" => row'[m].by[r] # "none"]_vars

\* Every run is settled in the end: retries, redeliveries and the fallbacks
\* leave nobody waiting for a row that no job will finish, also when a mapping is
\* disabled meanwhile.  (Not so when one is deleted under its job, which then
\* ends without closing the run, or when one is disabled between an orchestrator
\* attempt that wrote its row and failed, and the retry that would queue its job.)
RunSettles ==
  <>(\/ run \notin RunActive
     \/ \E m \in Mappings : mapping[m] = "deleted"
     \/ edits > 0 /\ faults > 0)
=============================================================================
