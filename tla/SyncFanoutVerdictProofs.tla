---------------------- MODULE SyncFanoutVerdictProofs ----------------------
(* Theorems about the results of SyncFanout's mappings and the verdict that *)
(* closeRun draws from them, and their proofs.                              *)
EXTENDS SyncFanoutProofs

-----------------------------------------------------------------------------
(* What a step does, by who takes it *)

\* A row the handlers leave alone: kept, created by beginRun, or deleted.
LeftAlone(m) ==
  \/ row'[m] = row[m]
  \/ /\ m \in orch.fanout /\ m \notin Present /\ ~Gone(m)
     /\ \/ orch.pc = "write" /\ row'[m] = [row[m] EXCEPT !.status = "queued"]
        \/ orch.pc = "empty" /\ row'[m] = [row[m] EXCEPT !.status = "succeeded"]
  \/ row'[m] = NoRow /\ Gone(m)'

\* The orchestrator or an administrator takes the step.
Apart == UNCHANGED <<job, handler, lostLocks>> /\ \A m \in Mappings : LeftAlone(m)

\* The orchestrator queues one job.
Queues(n) ==
  /\ orch.pc = "enqueue" /\ n \in orch.fanout
  /\ UNCHANGED <<row, mapping, handler, faults, lostLocks, edits>>
  /\ \A m \in Mappings : m # n => job'[m] = job[m]
  /\ job'[n] = IF job[n].state = "absent" THEN [job[n] EXCEPT !.state = "waiting"] ELSE job[n]

\* Handler s of mapping n starts.
Begins(n, s) ==
  /\ handler[n][s].pc = "idle" /\ job[n].state = "waiting"
  /\ job'[n].state = "active" /\ job'[n].owner = s
  /\ handler'[n][s].pc = "load" /\ handler'[n][s].next = 1 /\ handler'[n][s].then = "none"
  /\ row'[n] = row[n]

\* It finds its row, or the row it has read, deleted.
FindsNoRow(n, s) ==
  handler[n][s].pc = "mergeWrite" /\ (handler[n][s].read.status = "absent" \/ n \notin Present)

\* It ends: its job is over, or waits for another attempt when it crashed or
\* threw on an attempt that was not the last.
Leaves(n, s) ==
  LET h == handler[n][s] IN
  /\ h.pc # "idle"
  /\ handler'[n][s] = NoHandler
  /\ IF OwnsLock(n, s) THEN job'[n].state \in {"done", "waiting"} ELSE job'[n] = job[n]
  /\ OwnsLock(n, s) /\ job'[n].state = "waiting" =>
       \/ faults' > faults
       \/ /\ ~h.final
          /\ \/ h.pc \in {"work", "failRead", "failWrite"} \/ FindsNoRow(n, s)
             \/ h.pc \in Closing /\ (h.then = "failed" \/ Retryable(h.outs))
  /\ row'[n] = row[n]

\* Of a handler that stays: what it is, what it has got and where it goes.
Same(n, s) ==
  /\ handler'[n][s].final = handler[n][s].final
  /\ job'[n] = job[n]

Loads(n, s) ==
  LET h == handler[n][s] IN LET g == handler'[n][s] IN
  /\ Same(n, s) /\ g.next = h.next /\ g.then = h.then
  /\ \/ h.pc = "load" /\ g.pc = "mark" /\ row'[n] = row[n]
     \/ /\ h.pc = "mark" /\ g.pc = "work"
        /\ row'[n] = IF StatusOf(n) = "queued" THEN [row[n] EXCEPT !.status = "running"] ELSE row[n]

Works(n, s) ==
  LET h == handler[n][s] IN LET g == handler'[n][s] IN
  /\ Same(n, s) /\ g.next = h.next /\ g.then = h.then
  /\ h.pc = "work" /\ g.pc = "mergeRead"
  /\ Retryable(g.outs) => g.final
  /\ row'[n] = row[n]

Reads(n, s) ==
  LET h == handler[n][s] IN LET g == handler'[n][s] IN
  /\ Same(n, s) /\ g.next = h.next /\ g.then = h.then /\ g.outs = h.outs
  /\ h.pc = "mergeRead" /\ g.pc = "mergeWrite" /\ g.read = row[n]
  /\ row'[n] = row[n]

Merges(n, s) ==
  LET h == handler[n][s] IN LET g == handler'[n][s] IN
  /\ Same(n, s) /\ g.next = h.next + 1 /\ g.then = "end" /\ g.outs = h.outs
  /\ h.pc = "mergeWrite" /\ h.read.status # "absent" /\ n \in Present
  /\ g.pc = IF h.next < NumResources THEN "mergeRead" ELSE "closeRead"
  /\ row'[n] = Merged(h.read, h.next, h.outs[h.next])

Draws(n, s) ==
  LET h == handler[n][s] IN LET g == handler'[n][s] IN
  /\ Same(n, s) /\ g.then = h.then /\ g.outs = h.outs
  /\ h.pc = "closeRead" /\ g.pc = "closeWrite"
  /\ \A m \in Present : StatusOf(m) \in RowTerminal
  /\ g.verdict = IF \E m \in Present : StatusOf(m) = "failed" THEN "failed" ELSE "succeeded"
  /\ row'[n] = row[n]

Falls(n, s) ==
  LET h == handler[n][s] IN LET g == handler'[n][s] IN
  /\ Same(n, s) /\ g.then = h.then
  /\ h.pc # "idle" /\ g.pc = "failRead" /\ g.final
  /\ FindsNoRow(n, s) \/ (faults' > faults /\ h.then # "failed")
  /\ row'[n] = row[n]

FallReads(n, s) ==
  LET h == handler[n][s] IN LET g == handler'[n][s] IN
  /\ Same(n, s) /\ g.then = h.then
  /\ h.pc = "failRead" /\ g.pc = "failWrite" /\ n \in Present /\ g.read = row[n]
  /\ row'[n] = row[n]

Gives(n, s) ==
  LET h == handler[n][s] IN LET g == handler'[n][s] IN
  /\ Same(n, s) /\ g.then = "failed"
  /\ h.pc = "failWrite" /\ g.pc = "closeRead" /\ n \in Present
  /\ row'[n] = [status |-> "failed", by |-> h.read.by]

Moved(n, s) ==
  \/ Begins(n, s) \/ Leaves(n, s) \/ Loads(n, s) \/ Works(n, s) \/ Reads(n, s)
  \/ Merges(n, s) \/ Draws(n, s) \/ Falls(n, s) \/ FallReads(n, s) \/ Gives(n, s)

\* Nobody else moves.
Alone(n, s) ==
  /\ UNCHANGED <<mapping, orch, lostLocks, edits>>
  /\ \A m \in Mappings : m # n => job'[m] = job[m] /\ row'[m] = row[m] /\ handler'[m] = handler[m]
  /\ \A t \in Slots : t # s => handler'[n][t] = handler[n][t]

Acts(n, s) == Alone(n, s) /\ Moved(n, s)

LEMMA HandlerSet ==
  ASSUME TypeOK, NEW n \in Mappings, NEW s \in Slots, NEW g, SetHandler(n, s, g)
  PROVE  /\ handler'[n][s] = g
         /\ \A m \in Mappings : m # n => handler'[m] = handler[m]
         /\ \A t \in Slots : t # s => handler'[n][t] = handler[n][t]
BY DEF SetHandler, TypeOK

LEMMA JobSet ==
  ASSUME TypeOK, NEW n \in Mappings, NEW j, SetJob(n, j)
  PROVE  job'[n] = j /\ \A m \in Mappings : m # n => job'[m] = job[m]
BY DEF SetJob, TypeOK

LEMMA RowSet ==
  ASSUME TypeOK, NEW n \in Mappings, NEW r, SetRow(n, r)
  PROVE  row'[n] = r /\ \A m \in Mappings : m # n => row'[m] = row[m]
BY DEF SetRow, TypeOK

\* A handler that ends moves nothing but its own job.
LEMMA EndsAlone ==
  ASSUME TypeOK, NEW n \in Mappings, NEW s \in Slots, Finish(n, s) \/ FailAttempt(n, s)
  PROVE  /\ handler'[n][s] = NoHandler
         /\ \A m \in Mappings : m # n => job'[m] = job[m] /\ handler'[m] = handler[m]
         /\ \A t \in Slots : t # s => handler'[n][t] = handler[n][t]
         /\ IF OwnsLock(n, s) THEN job'[n].state \in {"done", "waiting"} ELSE job'[n] = job[n]
         /\ OwnsLock(n, s) /\ job'[n].state = "waiting" =>
              ~handler[n][s].final /\ FailAttempt(n, s)
<1>1. SetHandler(n, s, NoHandler)
  BY DEF Finish, FailAttempt
<1>2. job[n] \in Job
  BY DEF TypeOK
<1>3. /\ [job[n] EXCEPT !.state = "done", !.owner = 0].state = "done"
      /\ [job[n] EXCEPT !.state = "waiting", !.attempt = @ + 1, !.owner = 0].state = "waiting"
  BY <1>2 DEF Job
<1>4. /\ handler'[n][s] = NoHandler
      /\ \A m \in Mappings : m # n => handler'[m] = handler[m]
      /\ \A t \in Slots : t # s => handler'[n][t] = handler[n][t]
  BY <1>1, HandlerSet
<1>5. CASE Finish(n, s)
  <2> DEFINE j == IF OwnsLock(n, s) THEN [job[n] EXCEPT !.state = "done", !.owner = 0] ELSE job[n]
  <2>1. SetJob(n, j)
    BY <1>5 DEF Finish
  <2>2. OwnsLock(n, s) => j.state = "done"
    BY <1>3
  <2>3. ~OwnsLock(n, s) => j = job[n]
    OBVIOUS
  <2> HIDE DEF j
  <2>4. job'[n] = j /\ \A m \in Mappings : m # n => job'[m] = job[m]
    BY <2>1, JobSet
  <2>5. QED BY <1>4, <2>2, <2>3, <2>4
<1>6. CASE FailAttempt(n, s)
  <2> DEFINE j == IF ~OwnsLock(n, s) THEN job[n]
                  ELSE IF handler[n][s].final THEN [job[n] EXCEPT !.state = "done", !.owner = 0]
                  ELSE [job[n] EXCEPT !.state = "waiting", !.attempt = @ + 1, !.owner = 0]
  <2>1. SetJob(n, j)
    BY <1>6 DEF FailAttempt
  <2>2. OwnsLock(n, s) => j.state \in {"done", "waiting"} /\ (j.state = "waiting" => ~handler[n][s].final)
    BY <1>3
  <2>3. ~OwnsLock(n, s) => j = job[n]
    OBVIOUS
  <2> HIDE DEF j
  <2>4. job'[n] = j /\ \A m \in Mappings : m # n => job'[m] = job[m]
    BY <2>1, JobSet
  <2>5. QED BY <1>4, <1>6, <2>2, <2>3, <2>4
<1>7. QED BY <1>5, <1>6

\* The frame of a step that ends a handler.
LEMMA LeavesAlone ==
  ASSUME TypeOK, NEW n \in Mappings, NEW s \in Slots, handler[n][s].pc # "idle",
         UNCHANGED <<mapping, orch, lostLocks, edits, row>>,
         \/ Finish(n, s)
         \/ /\ FailAttempt(n, s)
            /\ \/ faults' > faults
               \/ handler[n][s].pc \in {"work", "failRead", "failWrite"} \/ FindsNoRow(n, s)
               \/ /\ handler[n][s].pc \in Closing
                  /\ handler[n][s].then = "failed" \/ Retryable(handler[n][s].outs)
               \/ handler[n][s].final
  PROVE  Acts(n, s)
<1>1. /\ handler'[n][s] = NoHandler
      /\ \A m \in Mappings : m # n => job'[m] = job[m] /\ handler'[m] = handler[m]
      /\ \A t \in Slots : t # s => handler'[n][t] = handler[n][t]
      /\ IF OwnsLock(n, s) THEN job'[n].state \in {"done", "waiting"} ELSE job'[n] = job[n]
      /\ OwnsLock(n, s) /\ job'[n].state = "waiting" => ~handler[n][s].final /\ FailAttempt(n, s)
  BY EndsAlone
<1>2. ASSUME OwnsLock(n, s), job'[n].state = "waiting"
      PROVE  \/ faults' > faults
             \/ /\ ~handler[n][s].final
                /\ \/ handler[n][s].pc \in {"work", "failRead", "failWrite"} \/ FindsNoRow(n, s)
                   \/ /\ handler[n][s].pc \in Closing
                      /\ handler[n][s].then = "failed" \/ Retryable(handler[n][s].outs)
  <2>1. ~handler[n][s].final /\ FailAttempt(n, s)
    BY <1>1, <1>2
  <2>2. ~Finish(n, s)
    <3>1. ASSUME Finish(n, s) PROVE FALSE
      <4>1. SetJob(n, [job[n] EXCEPT !.state = "done", !.owner = 0]) /\ job[n] \in Job
        BY <1>2, <3>1 DEF Finish, TypeOK
      <4>2. job'[n] = [job[n] EXCEPT !.state = "done", !.owner = 0]
        BY <4>1, JobSet
      <4>3. QED BY <1>2, <4>1, <4>2 DEF Job
    <3>2. QED BY <3>1
  <2>3. QED BY <2>1, <2>2
<1>3. Leaves(n, s)
  BY <1>1, <1>2 DEF Leaves
<1>4. Alone(n, s)
  BY <1>1 DEF Alone
<1>5. QED BY <1>3, <1>4 DEF Acts, Moved

\* The frame of a step that moves a handler on.
LEMMA StaysAlone ==
  ASSUME TypeOK, NEW n \in Mappings, NEW s \in Slots, NEW g, SetHandler(n, s, g),
         UNCHANGED <<mapping, orch, lostLocks, edits, job>>,
         \A m \in Mappings : m # n => row'[m] = row[m]
  PROVE  Alone(n, s) /\ handler'[n][s] = g /\ job'[n] = job[n]
BY HandlerSet DEF Alone

\* A handler goes on to another program point.
LEMMA GoesOn ==
  ASSUME NEW h \in Handler, NEW pc \in {"mark", "work", "failRead"}
  PROVE  LET g == [h EXCEPT !.pc = pc] IN
           /\ g.pc = pc /\ g.final = h.final /\ g.next = h.next /\ g.then = h.then
           /\ g.outs = h.outs
BY DEF Handler

LEMMA ThrowActs ==
  ASSUME TypeOK, NEW n \in Mappings, NEW s \in Slots, handler[n][s].pc # "idle", Throw(n, s),
         UNCHANGED <<mapping, orch, lostLocks, edits, row>>,
         FindsNoRow(n, s) \/ (faults' > faults /\ handler[n][s].then # "failed")
  PROVE  Acts(n, s)
<1> DEFINE h == handler[n][s]
<1>0. h \in Handler
  BY DEF TypeOK
<1>1. CASE h.final
  <2> DEFINE g == [h EXCEPT !.pc = "failRead"]
  <2>1. SetHandler(n, s, g) /\ UNCHANGED job
    BY <1>1 DEF Throw, Goto
  <2>2. g.pc = "failRead" /\ g.then = h.then /\ g.final = h.final
    BY <1>0, GoesOn
  <2> HIDE DEF g
  <2>3. Alone(n, s) /\ handler'[n][s] = g /\ job'[n] = job[n] /\ row'[n] = row[n]
    BY <2>1, StaysAlone
  <2>4. Falls(n, s)
    BY <1>1, <2>2, <2>3 DEF Falls, Same
  <2>5. QED BY <2>3, <2>4 DEF Acts, Moved
<1>2. CASE ~h.final
  BY <1>2, LeavesAlone DEF Throw
<1>3. QED BY <1>1, <1>2

LEMMA EarlyActs ==
  ASSUME TypeOK, NEW n \in Mappings, NEW s \in Slots, Load(n, s) \/ Mark(n, s) \/ Work(n, s)
  PROVE  Acts(n, s)
<1> DEFINE h == handler[n][s]
<1>0. h \in Handler /\ h.pc # "idle"
  BY DEF TypeOK, Load, Mark, Work
<1>1. CASE Load(n, s)
  <2>0. UNCHANGED <<mapping, orch, lostLocks, edits, row>>
    BY <1>1 DEF Load
  <2>1. CASE mapping[n] = "deleted"
    BY <1>0, <1>1, <2>0, <2>1, LeavesAlone DEF Load
  <2>2. CASE mapping[n] # "deleted"
    <3> DEFINE g == [h EXCEPT !.pc = "mark"]
    <3>1. SetHandler(n, s, g) /\ UNCHANGED job /\ h.pc = "load"
      BY <1>1, <2>2 DEF Load, Goto
    <3>2. g.pc = "mark" /\ g.final = h.final /\ g.next = h.next /\ g.then = h.then
      BY <1>0, GoesOn
    <3> HIDE DEF g
    <3>3. Alone(n, s) /\ handler'[n][s] = g /\ job'[n] = job[n] /\ row'[n] = row[n]
      BY <2>0, <3>1, StaysAlone
    <3>4. Loads(n, s)
      BY <3>1, <3>2, <3>3 DEF Loads, Same
    <3>5. QED BY <3>3, <3>4 DEF Acts, Moved
  <2>3. QED BY <2>1, <2>2
<1>2. CASE Mark(n, s)
  <2> DEFINE g == [h EXCEPT !.pc = "work"]
  <2>1. SetHandler(n, s, g) /\ UNCHANGED <<mapping, orch, lostLocks, edits, job>> /\ h.pc = "mark"
    BY <1>2 DEF Mark, Goto
  <2>2. g.pc = "work" /\ g.final = h.final /\ g.next = h.next /\ g.then = h.then
    BY <1>0, GoesOn
  <2>3. /\ row'[n] = IF StatusOf(n) = "queued" THEN [row[n] EXCEPT !.status = "running"] ELSE row[n]
        /\ \A m \in Mappings : m # n => row'[m] = row[m]
    BY <1>2, RowSet DEF Mark
  <2> HIDE DEF g
  <2>4. Alone(n, s) /\ handler'[n][s] = g /\ job'[n] = job[n]
    BY <2>1, <2>3, StaysAlone
  <2>5. Loads(n, s)
    BY <2>1, <2>2, <2>3, <2>4 DEF Loads, Same
  <2>6. QED BY <2>4, <2>5 DEF Acts, Moved
<1>3. CASE Work(n, s)
  <2>0. UNCHANGED <<mapping, orch, lostLocks, edits, row>> /\ h.pc = "work"
    BY <1>3 DEF Work
  <2>1. PICK outs \in PossibleOutcomes :
          IF ThrowsUnmerged(n, s, outs)
            THEN FailAttempt(n, s)
            ELSE SetHandler(n, s, [h EXCEPT !.pc = "mergeRead", !.outs = outs]) /\ UNCHANGED job
    BY <1>3 DEF Work
  <2>2. CASE ThrowsUnmerged(n, s, outs)
    BY <1>0, <2>0, <2>1, <2>2, LeavesAlone
  <2>3. CASE ~ThrowsUnmerged(n, s, outs)
    <3> DEFINE g == [h EXCEPT !.pc = "mergeRead", !.outs = outs]
    <3>1. SetHandler(n, s, g) /\ UNCHANGED job
      BY <2>1, <2>3
    <3>2. /\ g.pc = "mergeRead" /\ g.final = h.final /\ g.next = h.next /\ g.then = h.then
          /\ g.outs = outs
      BY <1>0 DEF Handler
    <3>3. Retryable(g.outs) => g.final
      BY <2>3, <3>2 DEF ThrowsUnmerged
    <3> HIDE DEF g
    <3>4. Alone(n, s) /\ handler'[n][s] = g /\ job'[n] = job[n] /\ row'[n] = row[n]
      BY <2>0, <3>1, StaysAlone
    <3>5. Works(n, s)
      BY <2>0, <3>2, <3>3, <3>4 DEF Works, Same
    <3>6. QED BY <3>4, <3>5 DEF Acts, Moved
  <2>4. QED BY <2>2, <2>3
<1>4. QED BY <1>1, <1>2, <1>3

LEMMA MergeActs ==
  ASSUME TypeOK, NEW n \in Mappings, NEW s \in Slots, MergeRead(n, s) \/ MergeWrite(n, s)
  PROVE  Acts(n, s)
<1> DEFINE h == handler[n][s]
<1>0. h \in Handler /\ h.pc # "idle"
  BY DEF TypeOK, MergeRead, MergeWrite
<1>1. CASE MergeRead(n, s)
  <2> DEFINE g == [h EXCEPT !.pc = "mergeWrite", !.read = row[n]]
  <2>1. /\ SetHandler(n, s, g) /\ UNCHANGED <<mapping, orch, lostLocks, edits, job, row>>
        /\ h.pc = "mergeRead"
    BY <1>1 DEF MergeRead
  <2>2. /\ g.pc = "mergeWrite" /\ g.final = h.final /\ g.next = h.next /\ g.then = h.then
        /\ g.outs = h.outs /\ g.read = row[n]
    BY <1>0 DEF Handler
  <2> HIDE DEF g
  <2>3. Alone(n, s) /\ handler'[n][s] = g /\ job'[n] = job[n] /\ row'[n] = row[n]
    BY <2>1, StaysAlone
  <2>4. Reads(n, s)
    BY <2>1, <2>2, <2>3 DEF Reads, Same
  <2>5. QED BY <2>3, <2>4 DEF Acts, Moved
<1>2. CASE MergeWrite(n, s)
  <2>0. UNCHANGED <<mapping, orch, lostLocks, edits>> /\ h.pc = "mergeWrite"
    BY <1>2 DEF MergeWrite
  <2>1. CASE h.read.status # "absent" /\ StatusOf(n) # "absent"
    <3> DEFINE pc == IF h.next < NumResources THEN "mergeRead" ELSE "closeRead"
    <3> DEFINE g == [h EXCEPT !.next = h.next + 1, !.read = NoRow, !.then = "end", !.pc = pc]
    <3>1. /\ SetHandler(n, s, g) /\ UNCHANGED job
          /\ SetRow(n, Merged(h.read, h.next, h.outs[h.next]))
      BY <1>2, <2>1 DEF MergeWrite, WriteBack
    <3>2. /\ g.pc = pc /\ g.final = h.final /\ g.next = h.next + 1 /\ g.then = "end"
          /\ g.outs = h.outs
      BY <1>0 DEF Handler
    <3> HIDE DEF g
    <3>3. /\ row'[n] = Merged(h.read, h.next, h.outs[h.next])
          /\ \A m \in Mappings : m # n => row'[m] = row[m]
      BY <3>1, RowSet
    <3>4. Alone(n, s) /\ handler'[n][s] = g /\ job'[n] = job[n]
      BY <2>0, <3>1, <3>3, StaysAlone
    <3>5. Merges(n, s)
      BY <2>0, <2>1, <3>2, <3>3, <3>4 DEF Merges, Same, Present
    <3>6. QED BY <3>4, <3>5 DEF Acts, Moved
  <2>2. CASE ~(h.read.status # "absent" /\ StatusOf(n) # "absent")
    <3>1. Throw(n, s) /\ UNCHANGED row
      BY <1>2, <2>2 DEF MergeWrite
    <3>2. FindsNoRow(n, s)
      BY <2>0, <2>2 DEF FindsNoRow, Present
    <3>3. QED BY <1>0, <2>0, <3>1, <3>2, ThrowActs
  <2>3. QED BY <2>1, <2>2
<1>3. QED BY <1>1, <1>2

LEMMA CloseActs ==
  ASSUME TypeOK, NEW n \in Mappings, NEW s \in Slots, CloseRead(n, s) \/ CloseWrite(n, s)
  PROVE  Acts(n, s)
<1> DEFINE h == handler[n][s]
<1>0. h \in Handler /\ h.pc \in Closing /\ h.pc # "idle"
  BY DEF TypeOK, CloseRead, CloseWrite, Closing
<1>1. UNCHANGED <<mapping, orch, lostLocks, edits, row>>
  BY DEF CloseRead, CloseWrite
<1>2. CASE AfterClose(n, s)
  <2>1. Finish(n, s) \/ (FailAttempt(n, s) /\ (h.then = "failed" \/ Retryable(h.outs)))
    BY <1>2 DEF AfterClose
  <2>2. QED BY <1>0, <1>1, <2>1, LeavesAlone
<1>3. CASE CloseRead(n, s) /\ \A m \in Present : StatusOf(m) \in RowTerminal
  <2> DEFINE verdict == IF \E m \in Present : StatusOf(m) = "failed" THEN "failed" ELSE "succeeded"
  <2> DEFINE g == [h EXCEPT !.pc = "closeWrite", !.verdict = verdict]
  <2>1. SetHandler(n, s, g) /\ UNCHANGED job /\ h.pc = "closeRead"
    BY <1>3 DEF CloseRead
  <2> HIDE DEF verdict
  <2>2. /\ g.pc = "closeWrite" /\ g.final = h.final /\ g.then = h.then /\ g.outs = h.outs
        /\ g.verdict = verdict
    BY <1>0 DEF Handler
  <2> HIDE DEF g
  <2>3. Alone(n, s) /\ handler'[n][s] = g /\ job'[n] = job[n] /\ row'[n] = row[n]
    BY <1>1, <2>1, StaysAlone
  <2>4. Draws(n, s)
    BY <1>3, <2>1, <2>2, <2>3 DEF Draws, Same, verdict
  <2>5. QED BY <2>3, <2>4 DEF Acts, Moved
<1>4. CASE CloseWrite(n, s) \/ ~(\A m \in Present : StatusOf(m) \in RowTerminal)
  BY <1>2, <1>4 DEF CloseRead, CloseWrite
<1>5. QED BY <1>3, <1>4

LEMMA FailActs ==
  ASSUME TypeOK, NEW n \in Mappings, NEW s \in Slots, FailRead(n, s) \/ FailWrite(n, s)
  PROVE  Acts(n, s)
<1> DEFINE h == handler[n][s]
<1>0. h \in Handler /\ h.pc \in {"failRead", "failWrite"} /\ h.pc # "idle"
  BY DEF TypeOK, FailRead, FailWrite
<1>1. UNCHANGED <<mapping, orch, lostLocks, edits>>
  BY DEF FailRead, FailWrite
<1>2. CASE StatusOf(n) = "absent"
  <2>1. FailAttempt(n, s) /\ UNCHANGED row
    BY <1>2 DEF FailRead, FailWrite
  <2>2. QED BY <1>0, <1>1, <2>1, LeavesAlone
<1>3. CASE StatusOf(n) # "absent" /\ FailRead(n, s)
  <2> DEFINE g == [h EXCEPT !.pc = "failWrite", !.read = row[n]]
  <2>1. /\ SetHandler(n, s, g) /\ UNCHANGED <<job, row>> /\ h.pc = "failRead" /\ n \in Present
    BY <1>3 DEF FailRead, Present
  <2>2. g.pc = "failWrite" /\ g.final = h.final /\ g.then = h.then /\ g.read = row[n]
    BY <1>0 DEF Handler
  <2> HIDE DEF g
  <2>3. Alone(n, s) /\ handler'[n][s] = g /\ job'[n] = job[n] /\ row'[n] = row[n]
    BY <1>1, <2>1, StaysAlone
  <2>4. FallReads(n, s)
    BY <2>1, <2>2, <2>3 DEF FallReads, Same
  <2>5. QED BY <2>3, <2>4 DEF Acts, Moved
<1>4. CASE StatusOf(n) # "absent" /\ FailWrite(n, s)
  <2> DEFINE g == [h EXCEPT !.pc = "closeRead", !.read = NoRow, !.then = "failed"]
  <2>1. /\ SetHandler(n, s, g) /\ UNCHANGED job /\ h.pc = "failWrite" /\ n \in Present
        /\ SetRow(n, [status |-> "failed", by |-> h.read.by])
    BY <1>4 DEF FailWrite, WriteBack, Present
  <2>2. g.pc = "closeRead" /\ g.final = h.final /\ g.then = "failed"
    BY <1>0 DEF Handler
  <2> HIDE DEF g
  <2>3. /\ row'[n] = [status |-> "failed", by |-> h.read.by]
        /\ \A m \in Mappings : m # n => row'[m] = row[m]
    BY <2>1, RowSet
  <2>4. Alone(n, s) /\ handler'[n][s] = g /\ job'[n] = job[n]
    BY <1>1, <2>1, <2>3, StaysAlone
  <2>5. Gives(n, s)
    BY <2>1, <2>2, <2>3, <2>4 DEF Gives, Same
  <2>6. QED BY <2>4, <2>5 DEF Acts, Moved
<1>5. QED BY <1>2, <1>3, <1>4

LEMMA DeliverActs ==
  ASSUME TypeOK, NEW n \in Mappings, NEW s \in Slots, Deliver(n, s)
  PROVE  Acts(n, s)
<1> DEFINE g == [NoHandler EXCEPT !.pc = "load", !.final = job[n].attempt = JobAttempts]
<1> DEFINE j == [job[n] EXCEPT !.state = "active", !.owner = s]
<1>1. /\ SetHandler(n, s, g) /\ SetJob(n, j)
      /\ UNCHANGED <<mapping, orch, lostLocks, edits, row>>
      /\ handler[n][s].pc = "idle" /\ job[n].state = "waiting"
  BY DEF Deliver
<1>2. g.pc = "load" /\ g.next = 1 /\ g.then = "none"
  BY DEF NoHandler
<1>3. j.state = "active" /\ j.owner = s
  BY DEF TypeOK, Job
<1> HIDE DEF g, j
<1>4. job'[n] = j /\ \A m \in Mappings : m # n => job'[m] = job[m]
  BY <1>1, JobSet
<1>5. /\ handler'[n][s] = g
      /\ \A m \in Mappings : m # n => handler'[m] = handler[m]
      /\ \A t \in Slots : t # s => handler'[n][t] = handler[n][t]
  BY <1>1, HandlerSet
<1>6. Alone(n, s)
  BY <1>1, <1>4, <1>5 DEF Alone
<1>7. Begins(n, s)
  BY <1>1, <1>2, <1>3, <1>4, <1>5 DEF Begins
<1>8. QED BY <1>6, <1>7 DEF Acts, Moved

\* A crash, or an unexpected error.
LEMMA TroubleActs ==
  ASSUME TypeOK, NEW n \in Mappings, NEW s \in Slots, Crash(n, s) \/ HandlerFault(n, s)
  PROVE  Acts(n, s)
<1>0. /\ handler[n][s].pc # "idle" /\ faults' > faults
      /\ UNCHANGED <<mapping, orch, lostLocks, edits, row>>
  BY Counters, FanoutAssumption DEF Crash, HandlerFault, TypeOK, FanoutAssumption
<1>1. CASE Crash(n, s)
  <2> DEFINE j == IF OwnsLock(n, s) THEN Requeued(job[n]) ELSE job[n]
  <2>1. SetHandler(n, s, NoHandler) /\ SetJob(n, j)
    BY <1>1 DEF Crash
  <2>2. OwnsLock(n, s) => j.state \in {"done", "waiting"}
    BY DEF Requeued, TypeOK, Job
  <2>3. ~OwnsLock(n, s) => j = job[n]
    OBVIOUS
  <2> HIDE DEF j
  <2>4. job'[n] = j /\ \A m \in Mappings : m # n => job'[m] = job[m]
    BY <2>1, JobSet
  <2>5. /\ handler'[n][s] = NoHandler
        /\ \A m \in Mappings : m # n => handler'[m] = handler[m]
        /\ \A t \in Slots : t # s => handler'[n][t] = handler[n][t]
    BY <2>1, HandlerSet
  <2>6. Alone(n, s)
    BY <1>0, <2>4, <2>5 DEF Alone
  <2>7. Leaves(n, s)
    BY <1>0, <2>2, <2>3, <2>4, <2>5 DEF Leaves
  <2>8. QED BY <2>6, <2>7 DEF Acts, Moved
<1>2. CASE HandlerFault(n, s) /\ FailAttempt(n, s)
  BY <1>0, <1>2, LeavesAlone
<1>3. CASE HandlerFault(n, s) /\ ~FailAttempt(n, s)
  <2>1. Throw(n, s) /\ handler[n][s].then # "failed"
    BY <1>3 DEF HandlerFault
  <2>2. QED BY <1>0, <2>1, ThrowActs
<1>4. QED BY <1>1, <1>2, <1>3

LEMMA OrchestrateApart ==
  ASSUME TypeOK, Orchestrate \/ OrchFault
  PROVE  Apart \/ \E n \in Mappings : Queues(n)
<1>1. ASSUME UNCHANGED <<row, job, handler, lostLocks>> PROVE Apart
  BY <1>1 DEF Apart, LeftAlone
<1>2. ASSUME NEW status \in {"queued", "succeeded"}, CreateRows(status), ~MappingGone,
             UNCHANGED <<job, handler, lostLocks>>,
             IF status = "queued" THEN orch.pc = "write" ELSE orch.pc = "empty"
      PROVE  Apart
  <2>1. ASSUME NEW m \in Mappings PROVE LeftAlone(m)
    <3>1. row'[m] = IF m \in orch.fanout /\ StatusOf(m) = "absent"
                      THEN [row[m] EXCEPT !.status = status] ELSE row[m]
      BY <1>2 DEF CreateRows
    <3>2. m \in orch.fanout => ~Gone(m)
      BY <1>2 DEF MappingGone, Gone
    <3>3. QED BY <1>2, <3>1, <3>2 DEF LeftAlone, Present
  <2>2. QED BY <1>2, <2>1 DEF Apart
<1>3. CASE BeginEmpty
  <2>1. CASE run \in RunActive /\ ~MappingGone
    BY <1>2, <1>3, <2>1 DEF BeginEmpty
  <2>2. CASE ~(run \in RunActive /\ ~MappingGone)
    BY <1>1, <1>3, <2>2 DEF BeginEmpty
  <2>3. QED BY <2>1, <2>2
<1>4. CASE BeginWrite
  <2>1. CASE MappingGone
    BY <1>1, <1>4, <2>1 DEF BeginWrite
  <2>2. CASE ~MappingGone
    BY <1>2, <1>4, <2>2 DEF BeginWrite
  <2>3. QED BY <2>1, <2>2
<1>5. CASE BeginRead \/ BeginSelect \/ BeginDone \/ FailRun \/ OrchFault
  BY <1>1, <1>5 DEF BeginRead, BeginSelect, BeginDone, FailRun, OrchFault
<1>6. ASSUME NEW n \in Mappings, Enqueue(n) PROVE Queues(n)
  <2>1. SetJob(n, IF job[n].state = "absent" THEN [job[n] EXCEPT !.state = "waiting"] ELSE job[n])
    BY <1>6 DEF Enqueue
  <2>2. /\ job'[n] = IF job[n].state = "absent" THEN [job[n] EXCEPT !.state = "waiting"] ELSE job[n]
        /\ \A m \in Mappings : m # n => job'[m] = job[m]
    BY <2>1, JobSet
  <2>3. QED BY <1>6, <2>2 DEF Enqueue, Queues
<1>7. QED BY <1>3, <1>4, <1>5, <1>6 DEF Orchestrate

LEMMA EditsApart ==
  ASSUME TypeOK, NEW n \in Mappings, DeleteMapping(n) \/ DisableMapping(n)
  PROVE  Apart
<1>1. CASE DisableMapping(n)
  BY <1>1 DEF DisableMapping, Apart, LeftAlone
<1>2. CASE DeleteMapping(n)
  <2>1. row'[n] = NoRow /\ \A m \in Mappings : m # n => row'[m] = row[m]
    BY <1>2, RowSet DEF DeleteMapping
  <2>2. Gone(n)'
    BY <1>2 DEF DeleteMapping, Gone, TypeOK
  <2>3. \A m \in Mappings : LeftAlone(m)
    BY <2>1, <2>2 DEF LeftAlone
  <2>4. QED BY <1>2, <2>3 DEF DeleteMapping, Apart
<1>3. QED BY <1>1, <1>2

\* Every step is one of these.
LEMMA StepCases ==
  ASSUME TypeOK, [Next]_vars
  PROVE  \/ Apart
         \/ \E n \in Mappings : Queues(n)
         \/ \E n \in Mappings : LoseLock(n)
         \/ \E n \in Mappings, s \in Slots : Acts(n, s)
<1>1. CASE UNCHANGED vars
  BY <1>1 DEF vars, Apart, LeftAlone
<1>2. ASSUME NEW n \in Mappings, NEW s \in Slots, HandlerStep(n, s) PROVE Acts(n, s)
  BY <1>2, EarlyActs, MergeActs, CloseActs, FailActs DEF HandlerStep
<1>3. QED BY <1>1, <1>2, OrchestrateApart, EditsApart, DeliverActs, TroubleActs
          DEF Next, Environment

-----------------------------------------------------------------------------
(* Which mappings have a row and a job *)

Started == \E m \in Mappings : job[m].state # "absent"

\* Handlers run only jobs that were queued, and those for mappings with a row.
JobPlanned(m) ==
  /\ job[m].state = "absent" => \A s \in Slots : handler[m][s].pc = "idle"
  /\ job[m].state # "absent" => m \in Present \/ Gone(m)

\* Without an enabled resource there is nothing to do.
NothingToDo ==
  NumResources = 0 =>
    ~Started /\ \A m \in Mappings : StatusOf(m) \in {"absent", "succeeded"}

\* What beginRun has read covers the mappings that are still enabled, and from
\* its transaction on each of them has a row.
Counted ==
  /\ orch.pc \in {"empty", "write"} => Enabled \subseteq orch.fanout
  /\ orch.pc = "empty" /\ NumResources # 0 => orch.fanout = {}
  /\ orch.pc = "write" /\ Started => \A m \in orch.fanout : m \in Present \/ Gone(m)
  /\ orch.pc \in {"select", "enqueue"} \/ Started => Enabled \subseteq Present
  /\ edits = 0 => Enabled = Mappings

Accounted ==
  /\ Planned /\ NothingToDo /\ Counted
  /\ \A m \in Mappings : RowFits(m) /\ JobPlanned(m)

LEMMA InitAccounted == Init => Accounted
<1> SUFFICES ASSUME Init PROVE Accounted
  OBVIOUS
<1>1. \A m \in Mappings : row[m] = NoRow /\ job[m].state = "absent" /\ mapping[m] = "enabled"
  BY DEF Init
<1>2. \A m \in Mappings, s \in Slots : handler[m][s].pc = "idle"
  BY DEF Init, NoHandler
<1>3. NoRow.status = "absent"
  BY DEF NoRow
<1>4. \A m \in Mappings : RowFits(m) /\ JobPlanned(m)
  BY <1>1, <1>2, <1>3 DEF RowFits, JobPlanned, Present, StatusOf, Gone
<1>5. ~Started /\ Enabled = Mappings /\ orch.pc = "waiting"
  BY <1>1 DEF Started, Enabled, Init
<1>6. NothingToDo
  BY <1>1, <1>3, <1>5 DEF NothingToDo, StatusOf
<1>7. Counted /\ Planned
  BY <1>5 DEF Counted, Planned
<1>8. QED BY <1>4, <1>6, <1>7 DEF Accounted

\* Mappings are only ever disabled or deleted.
LEMMA Edits ==
  ASSUME TypeOK, [Next]_vars
  PROVE  /\ Enabled' \subseteq Enabled
         /\ edits' = 0 => edits = 0 /\ mapping' = mapping
         /\ \A m \in Mappings : Gone(m) => Gone(m)'
<1>0. edits \in Nat
  BY FanoutAssumption DEF FanoutAssumption, TypeOK
<1>1. CASE UNCHANGED <<mapping, edits>>
  <2>1. Enabled' = Enabled /\ \A m \in Mappings : Gone(m)' = Gone(m)
    BY <1>1 DEF Enabled, Gone
  <2>2. QED BY <1>1, <2>1
<1>2. ASSUME NEW n \in Mappings, DeleteMapping(n) \/ DisableMapping(n)
      PROVE  /\ Enabled' \subseteq Enabled /\ edits' # 0
             /\ \A m \in Mappings : Gone(m) => Gone(m)'
  BY <1>0, <1>2 DEF DeleteMapping, DisableMapping, Enabled, Gone, TypeOK
<1>3. ASSUME NEW n \in Mappings, NEW s \in Slots,
             Deliver(n, s) \/ HandlerStep(n, s) \/ Crash(n, s) \/ HandlerFault(n, s)
      PROVE  UNCHANGED <<mapping, edits>>
  BY <1>3 DEF Deliver, HandlerStep, Load, Mark, Work, MergeRead, MergeWrite, CloseRead,
              CloseWrite, FailRead, FailWrite, Crash, HandlerFault
<1>4. ASSUME NEW n \in Mappings, LoseLock(n) \/ Enqueue(n) PROVE UNCHANGED <<mapping, edits>>
  BY <1>4 DEF LoseLock, Enqueue
<1>5. ASSUME \/ BeginRead \/ BeginEmpty \/ BeginWrite \/ BeginSelect \/ BeginDone \/ FailRun
             \/ OrchFault \/ UNCHANGED vars
      PROVE  UNCHANGED <<mapping, edits>>
  BY <1>5 DEF BeginRead, BeginEmpty, BeginWrite, BeginSelect, BeginDone, FailRun, OrchFault, vars
<1>6. QED BY <1>1, <1>2, <1>3, <1>4, <1>5 DEF Next, Orchestrate, Environment

LEMMA JobPlannedStep ==
  ASSUME TypeOK, Accounted, [Next]_vars, NEW m \in Mappings
  PROVE  JobPlanned(m)' /\ (job'[m].state # "absent" => job[m].state # "absent" \/ orch.pc = "enqueue")
<1>0. Planned /\ JobPlanned(m) /\ \A n \in Mappings : JobPlanned(n)
  BY DEF Accounted
<1>1. m \in Present \/ Gone(m) => m \in Present' \/ Gone(m)'
  BY <1>0, Lasting
<1>2. CASE Apart
  BY <1>0, <1>1, <1>2 DEF Apart, JobPlanned
<1>3. ASSUME NEW n \in Mappings, Queues(n) PROVE JobPlanned(m)' /\ orch.pc = "enqueue"
  <2>1. CASE m = n
    <3>1. m \in Present \/ Gone(m)
      BY <1>0, <1>3, <2>1 DEF Queues, Planned
    <3>2. job'[m].state # "absent"
      BY <1>3, <2>1 DEF Queues, TypeOK, Job
    <3>3. QED BY <1>1, <1>3, <3>1, <3>2 DEF JobPlanned, Queues
  <2>2. CASE m # n
    BY <1>0, <1>1, <1>3, <2>2 DEF Queues, JobPlanned
  <2>3. QED BY <2>1, <2>2
<1>4. ASSUME NEW n \in Mappings, LoseLock(n)
      PROVE  JobPlanned(m)' /\ (job'[m].state # "absent" => job[m].state # "absent")
  <2>1. /\ job'[n] = Requeued(job[n]) /\ \A k \in Mappings : k # n => job'[k] = job[k]
        /\ UNCHANGED handler /\ job[n].state = "active"
    BY <1>4, JobSet DEF LoseLock
  <2>2. job'[n].state # "absent"
    BY <2>1 DEF Requeued, TypeOK, Job
  <2>3. QED BY <1>0, <1>1, <2>1, <2>2 DEF JobPlanned
<1>5. ASSUME NEW n \in Mappings, NEW s \in Slots, Acts(n, s)
      PROVE  JobPlanned(m)' /\ (job'[m].state # "absent" => job[m].state # "absent")
  <2>1. CASE m # n
    BY <1>0, <1>1, <1>5, <2>1 DEF Acts, Alone, JobPlanned
  <2>2. CASE m = n
    <3>1. job[n].state # "absent"
      BY <1>0, <1>5 DEF Acts, Moved, JobPlanned, Begins, Leaves, Loads, Works, Reads, Merges,
                        Draws, Falls, FallReads, Gives
    <3>2. job'[n].state # "absent"
      BY <1>5, <3>1 DEF Acts, Moved, Begins, Leaves, Loads, Works, Reads, Merges,
                        Draws, Falls, FallReads, Gives, Same
    <3>3. QED BY <1>0, <1>1, <2>2, <3>1, <3>2 DEF JobPlanned
  <2>3. QED BY <2>1, <2>2
<1>6. QED BY <1>2, <1>3, <1>4, <1>5, StepCases DEF Apart

LEMMA NothingToDoStep ==
  ASSUME TypeOK, Accounted, [Next]_vars
  PROVE  NothingToDo'
<1> SUFFICES ASSUME NumResources = 0
             PROVE  ~Started' /\ \A m \in Mappings : StatusOf(m)' \in {"absent", "succeeded"}
  BY DEF NothingToDo
<1>0. ~Started /\ \A m \in Mappings : StatusOf(m) \in {"absent", "succeeded"}
  BY DEF Accounted, NothingToDo
<1>1. orch.pc \notin {"write", "select", "enqueue"}
  BY DEF Accounted, Planned
<1>2. ~Started'
  BY <1>0, <1>1, JobPlannedStep DEF Started
<1>3. \A m \in Mappings, s \in Slots : handler[m][s].pc = "idle" /\ job[m].state = "absent"
  BY <1>0 DEF Accounted, JobPlanned, Started
<1>4. CASE Apart
  <2>1. ASSUME NEW m \in Mappings PROVE StatusOf(m)' \in {"absent", "succeeded"}
    <3>1. \/ row'[m] = row[m] \/ row'[m] = [row[m] EXCEPT !.status = "succeeded"]
          \/ row'[m] = NoRow
      BY <1>1, <1>4 DEF Apart, LeftAlone
    <3>2. row[m] \in Row
      BY DEF TypeOK
    <3>3. QED BY <1>0, <3>1, <3>2 DEF StatusOf, Row, NoRow
  <2>2. QED BY <1>2, <2>1
<1>5. ASSUME NEW n \in Mappings, NEW s \in Slots, Acts(n, s) PROVE FALSE
  BY <1>3, <1>5 DEF Acts, Moved, Begins, Leaves, Loads, Works, Reads, Merges, Draws, Falls,
                    FallReads, Gives
<1>6. ASSUME NEW n \in Mappings, LoseLock(n) PROVE FALSE
  BY <1>0, <1>6 DEF LoseLock, Started
<1>7. ASSUME NEW n \in Mappings, Queues(n) PROVE FALSE
  BY <1>1, <1>7 DEF Queues
<1>8. QED BY <1>4, <1>5, <1>6, <1>7, StepCases

\* The orchestrator's steps keep count of the mappings.
LEMMA CountedStep ==
  ASSUME TypeOK, Accounted, [Next]_vars
  PROVE  Counted'
<1>0. /\ orch \in Orchestrator /\ Counted /\ Planned
      /\ \A m \in Mappings : m \in Present \/ Gone(m) => m \in Present' \/ Gone(m)'
  BY Lasting DEF TypeOK, Accounted
<1>1. Enabled' \subseteq Enabled /\ (edits' = 0 => edits = 0 /\ Enabled' = Enabled)
  <2>1. mapping' = mapping => Enabled' = Enabled
    BY DEF Enabled
  <2>2. QED BY <2>1, Edits
<1>2. edits' = 0 => Enabled' = Mappings
  BY <1>0, <1>1 DEF Counted
<1>3. Enabled \subseteq Present => Enabled' \subseteq Present'
  <2>1. \A m \in Enabled' : m \in Mappings /\ m \in Enabled /\ ~Gone(m)'
    BY <1>1 DEF Enabled, Gone
  <2>2. QED BY <1>0, <2>1
<1>4. Started' => Started \/ orch.pc = "enqueue"
  BY JobPlannedStep DEF Started
<1>5. Started' => Enabled' \subseteq Present'
  BY <1>0, <1>3, <1>4 DEF Counted
<1>6. ASSUME UNCHANGED orch PROVE Counted'
  <2>1. orch.pc = "write" /\ Started' => \A m \in orch.fanout : m \in Present' \/ Gone(m)'
    BY <1>0, <1>4 DEF Counted, Orchestrator
  <2>2. orch.pc \in {"empty", "write"} => Enabled' \subseteq orch.fanout
    BY <1>0, <1>1 DEF Counted
  <2>3. orch.pc \in {"select", "enqueue"} => Enabled' \subseteq Present'
    BY <1>0, <1>3 DEF Counted
  <2>4. QED BY <1>0, <1>2, <1>5, <1>6, <2>1, <2>2, <2>3 DEF Counted
<1>7. ASSUME orch'.pc \notin {"empty", "write", "select", "enqueue"} PROVE Counted'
  BY <1>2, <1>5, <1>7 DEF Counted
<1>8. ASSUME orch'.pc \in {"select", "enqueue"}, Enabled' \subseteq Present' PROVE Counted'
  BY <1>2, <1>5, <1>8 DEF Counted
<1>9. OrchThrows => orch'.pc \in {"waiting", "failRun"}
  BY <1>0 DEF OrchThrows, Orchestrator
<1>10. CASE BeginRead
  <2>1. CASE run \notin RunActive
    BY <1>0, <1>7, <1>9, <1>10, <2>1 DEF BeginRead, Orchestrator
  <2>2. CASE run \in RunActive
    <3>1. /\ orch'.pc = IF Enabled = {} \/ NumResources = 0 THEN "empty" ELSE "write"
          /\ orch'.fanout = Enabled /\ UNCHANGED <<mapping, row, job>>
      BY <1>0, <1>10, <2>2 DEF BeginRead, Orchestrator
    <3>2. Started => \A m \in Enabled : m \in Present'
      <4>1. Present' = Present
        BY <3>1 DEF Present, StatusOf
      <4>2. QED BY <1>0, <4>1 DEF Counted
    <3>3. Enabled' = Enabled /\ Started' = Started
      BY <3>1 DEF Enabled, Started
    <3>4. QED BY <1>2, <1>5, <3>1, <3>2, <3>3 DEF Counted
  <2>3. QED BY <2>1, <2>2
<1>11. CASE BeginEmpty
  BY <1>0, <1>7, <1>9, <1>11 DEF BeginEmpty, Orchestrator
<1>12. CASE BeginWrite
  <2>1. CASE MappingGone
    BY <1>7, <1>9, <1>12, <2>1 DEF BeginWrite
  <2>2. CASE ~MappingGone
    <3>1. /\ orch'.pc = "select" /\ orch.pc = "write" /\ CreateRows("queued")
      BY <1>0, <1>12, <2>2 DEF BeginWrite, Orchestrator
    <3>2. ASSUME NEW m \in Enabled' PROVE m \in Present'
      <4>1. m \in orch.fanout /\ m \in Mappings
        BY <1>0, <1>1, <3>1 DEF Counted, Enabled
      <4>2. row'[m] = IF StatusOf(m) = "absent" THEN [row[m] EXCEPT !.status = "queued"] ELSE row[m]
        BY <3>1, <4>1 DEF CreateRows
      <4>3. row[m] \in Row
        BY <4>1 DEF TypeOK
      <4>4. QED BY <4>1, <4>2, <4>3 DEF Present, StatusOf, Row
    <3>3. QED BY <1>8, <3>1, <3>2
  <2>3. QED BY <2>1, <2>2
<1>13. CASE BeginSelect
  BY <1>0, <1>3, <1>8, <1>13 DEF BeginSelect, Orchestrator, Counted
<1>14. ASSUME NEW m \in Mappings, Enqueue(m) PROVE Counted'
  BY <1>0, <1>3, <1>8, <1>14 DEF Enqueue, Orchestrator, Counted
<1>15. CASE BeginDone \/ FailRun
  BY <1>0, <1>7, <1>15 DEF BeginDone, FailRun, Orchestrator
<1>16. CASE OrchFault
  <2>1. orch'.pc \notin {"empty", "write", "select", "enqueue"}
    BY <1>0, <1>9, <1>16 DEF OrchFault, Orchestrator
  <2>2. QED BY <1>7, <2>1
<1>17. ASSUME NEW m \in Mappings, NEW s \in Slots,
              Deliver(m, s) \/ HandlerStep(m, s) \/ Crash(m, s) \/ HandlerFault(m, s)
       PROVE  UNCHANGED orch
  BY <1>17 DEF Deliver, HandlerStep, Load, Mark, Work, MergeRead, MergeWrite, CloseRead,
               CloseWrite, FailRead, FailWrite, Crash, HandlerFault
<1>18. ASSUME NEW m \in Mappings, LoseLock(m) \/ DeleteMapping(m) \/ DisableMapping(m)
       PROVE  UNCHANGED orch
  BY <1>18 DEF LoseLock, DeleteMapping, DisableMapping
<1>19. CASE UNCHANGED vars
  BY <1>6, <1>19 DEF vars
<1>20. QED BY <1>6, <1>10, <1>11, <1>12, <1>13, <1>14, <1>15, <1>16, <1>17, <1>18, <1>19
           DEF Next, Orchestrate, Environment

LEMMA AccountedStep == TypeOK /\ Accounted /\ [Next]_vars => Accounted'
<1> SUFFICES ASSUME TypeOK, Accounted, [Next]_vars PROVE Accounted'
  OBVIOUS
<1>1. Planned'
  BY PlannedStep DEF Accounted
<1>2. \A m \in Mappings : RowFits(m)' /\ JobPlanned(m)'
  BY RowFitsStep, JobPlannedStep DEF Accounted
<1>3. QED BY <1>1, <1>2, NothingToDoStep, CountedStep DEF Accounted

LEMMA AlwaysAccounted == Spec => [](TypeOK /\ Accounted)
<1>1. QED BY InitTypeOK, NextTypeOK, InitAccounted, AccountedStep, PTL DEF Spec

-----------------------------------------------------------------------------
(* One handler at a time loses no outcome *)

\* Two handlers of one job do not coexist.
OneHandlerAtATime ==
  \A m \in Mappings : \A s, t \in Slots :
    handler[m][s].pc # "idle" /\ handler[m][t].pc # "idle" => s = t

LocksHeld ==
  \A m \in Mappings, s \in Slots : handler[m][s].pc # "idle" => OwnsLock(m, s)

\* A handler that starts takes the lock, one that ends gives it back.
LEMMA LocksHeldStep ==
  ASSUME TypeOK, lostLocks = 0 => LocksHeld, [Next]_vars, lostLocks' = 0
  PROVE  LocksHeld'
<1>0. LocksHeld /\ lostLocks = 0
  BY Counters
<1>1. CASE Apart
  BY <1>0, <1>1 DEF Apart, LocksHeld, OwnsLock
<1>2. ASSUME NEW n \in Mappings, Queues(n) PROVE LocksHeld'
  BY <1>0, <1>2 DEF Queues, LocksHeld, OwnsLock
<1>3. ASSUME NEW n \in Mappings, LoseLock(n) PROVE FALSE
  BY <1>0, <1>3 DEF LoseLock
<1>4. ASSUME NEW n \in Mappings, NEW s \in Slots, Acts(n, s) PROVE LocksHeld'
  <2>1. handler'[n][s].pc # "idle" => OwnsLock(n, s)'
    <3>1. CASE Begins(n, s)
      BY <3>1 DEF Begins, OwnsLock
    <3>2. CASE Leaves(n, s)
      BY <3>2 DEF Leaves, NoHandler
    <3>3. CASE ~Begins(n, s) /\ ~Leaves(n, s)
      <4>1. handler[n][s].pc # "idle" /\ job'[n] = job[n]
        BY <1>4, <3>3 DEF Acts, Moved, Loads, Works, Reads, Merges, Draws, Falls, FallReads,
                          Gives, Same
      <4>2. QED BY <1>0, <4>1 DEF LocksHeld, OwnsLock
    <3>4. QED BY <3>1, <3>2, <3>3
  <2>2. ASSUME NEW t \in Slots, t # s PROVE handler'[n][t].pc = "idle"
    <3>1. handler'[n][t] = handler[n][t]
      BY <1>4, <2>2 DEF Acts, Alone
    <3>2. CASE Begins(n, s)
      BY <1>0, <3>1, <3>2 DEF Begins, LocksHeld, OwnsLock
    <3>3. CASE ~Begins(n, s)
      <4>1. handler[n][s].pc # "idle"
        BY <1>4, <3>3 DEF Acts, Moved, Leaves, Loads, Works, Reads, Merges, Draws, Falls,
                          FallReads, Gives
      <4>2. QED BY <1>0, <2>2, <3>1, <4>1 DEF LocksHeld, OwnsLock
    <3>4. QED BY <3>2, <3>3
  <2>3. ASSUME NEW m \in Mappings, m # n, NEW t \in Slots, handler'[m][t].pc # "idle"
        PROVE  OwnsLock(m, t)'
    BY <1>0, <1>4, <2>3 DEF Acts, Alone, LocksHeld, OwnsLock
  <2>4. QED BY <2>1, <2>2, <2>3 DEF LocksHeld
<1>5. QED BY <1>1, <1>2, <1>3, <1>4, StepCases

LEMMA LocksAreHeld == Spec => [](lostLocks = 0 => LocksHeld)
<1>1. Init => (lostLocks = 0 => LocksHeld)
  BY DEF Init, LocksHeld, NoHandler
<1>2. TypeOK /\ (lostLocks = 0 => LocksHeld) /\ [Next]_vars => (lostLocks = 0 => LocksHeld)'
  BY LocksHeldStep
<1>3. QED BY InitTypeOK, NextTypeOK, <1>1, <1>2, PTL DEF Spec

\* For any number of worker slots, attempts, crashes and redeliveries: while no
\* live handler loses its lock, no two handlers of one mapping's job coexist.
THEOREM LocksKeepHandlersApart == Spec => [](lostLocks = 0 => OneHandlerAtATime)
<1>1. LocksHeld => OneHandlerAtATime
  BY DEF LocksHeld, OneHandlerAtATime, OwnsLock
<1>2. QED BY LocksAreHeld, <1>1, PTL

\* The row a handler is about to write back is the row as it is.
ReadsCurrent ==
  \A m \in Mappings, s \in Slots :
    handler[m][s].pc \in {"mergeWrite", "failWrite"} =>
      Gone(m) \/ (m \in Present /\ handler[m][s].read = row[m])

LEMMA ReadsCurrentStep ==
  ASSUME TypeOK, Accounted, OneHandlerAtATime, ReadsCurrent, [Next]_vars
  PROVE  ReadsCurrent'
<1>0. \A m \in Mappings : Gone(m) => Gone(m)'
  BY Edits
<1>1. ASSUME NEW m \in Mappings, NEW t \in Slots, handler'[m][t] = handler[m][t], row'[m] = row[m],
             handler'[m][t].pc \in {"mergeWrite", "failWrite"}
      PROVE  Gone(m)' \/ (m \in Present' /\ handler'[m][t].read = row'[m])
  BY <1>0, <1>1 DEF ReadsCurrent, Present, StatusOf
<1>2. CASE Apart
  <2>1. ASSUME NEW m \in Mappings, NEW t \in Slots, handler'[m][t].pc \in {"mergeWrite", "failWrite"}
        PROVE  Gone(m)' \/ (m \in Present' /\ handler'[m][t].read = row'[m])
    <3>1. handler'[m][t] = handler[m][t] /\ LeftAlone(m)
      BY <1>2 DEF Apart
    <3>2. Gone(m) \/ m \in Present
      BY <2>1, <3>1 DEF ReadsCurrent
    <3>3. row'[m] = row[m] \/ Gone(m)'
      BY <1>0, <3>1, <3>2 DEF LeftAlone
    <3>4. QED BY <1>1, <2>1, <3>1, <3>3
  <2>2. QED BY <2>1 DEF ReadsCurrent
<1>3. ASSUME NEW n \in Mappings, Queues(n) \/ LoseLock(n) PROVE ReadsCurrent'
  <2>1. UNCHANGED <<row, handler>>
    BY <1>3 DEF Queues, LoseLock
  <2>2. QED BY <1>1, <2>1 DEF ReadsCurrent
<1>4. ASSUME NEW n \in Mappings, NEW s \in Slots, Acts(n, s) PROVE ReadsCurrent'
  <2>1. ASSUME handler'[n][s].pc \in {"mergeWrite", "failWrite"}
        PROVE  Gone(n)' \/ (n \in Present' /\ handler'[n][s].read = row'[n])
    <3>1. Reads(n, s) \/ FallReads(n, s)
      BY <1>4, <2>1 DEF Acts, Moved, Begins, Leaves, NoHandler, Loads, Works, Merges, Draws, Falls,
                        Gives
    <3>2. n \in Present \/ Gone(n)
      BY <3>1 DEF Reads, FallReads, Accounted, JobPlanned
    <3>3. handler'[n][s].read = row[n] /\ row'[n] = row[n]
      BY <3>1 DEF Reads, FallReads
    <3>4. QED BY <1>0, <3>2, <3>3 DEF Present, StatusOf
  <2>2. ASSUME NEW t \in Slots, t # s, handler'[n][t].pc \in {"mergeWrite", "failWrite"}
        PROVE  Gone(n)' \/ (n \in Present' /\ handler'[n][t].read = row'[n])
    <3>1. handler'[n][t] = handler[n][t]
      BY <1>4, <2>2 DEF Acts, Alone
    <3>2. handler[n][s].pc = "idle"
      BY <2>2, <3>1 DEF OneHandlerAtATime
    <3>3. row'[n] = row[n]
      BY <1>4, <3>2 DEF Acts, Moved, Begins, Leaves, Loads, Works, Reads, Merges, Draws, Falls,
                        FallReads, Gives
    <3>4. QED BY <1>1, <2>2, <3>1, <3>3
  <2>3. ASSUME NEW m \in Mappings, m # n, NEW t \in Slots,
               handler'[m][t].pc \in {"mergeWrite", "failWrite"}
        PROVE  Gone(m)' \/ (m \in Present' /\ handler'[m][t].read = row'[m])
    BY <1>1, <1>4, <2>3 DEF Acts, Alone
  <2>4. QED BY <2>1, <2>2, <2>3 DEF ReadsCurrent
<1>5. QED BY <1>2, <1>3, <1>4, StepCases

\* So a write back takes nothing out of the row.
LEMMA OutcomesStay ==
  ASSUME TypeOK, Accounted, ReadsCurrent, [Next]_vars,
         NEW m \in Mappings, NEW q \in Resources, Has(m, q)
  PROVE  row'[m].status = "absent" \/ Has(m, q)'
<1>0. row[m] \in Row
  BY DEF TypeOK
<1>1. CASE Apart
  <2>1. LeftAlone(m)
    BY <1>1 DEF Apart
  <2>2. row'[m] = NoRow \/ row'[m].by = row[m].by
    BY <1>0, <2>1 DEF LeftAlone, Row
  <2>3. QED BY <2>2 DEF NoRow, Has
<1>2. ASSUME NEW n \in Mappings, Queues(n) \/ LoseLock(n) PROVE Has(m, q)'
  BY <1>2 DEF Queues, LoseLock, Has
<1>3. ASSUME NEW n \in Mappings, NEW s \in Slots, Acts(n, s) PROVE Has(m, q)'
  <2>1. CASE m # n
    BY <1>3, <2>1 DEF Acts, Alone, Has
  <2>2. CASE m = n /\ Merges(n, s)
    <3>1. handler[n][s].pc = "mergeWrite" /\ n \in Present
      BY <2>2 DEF Merges
    <3>2. handler[n][s].read = row[n] /\ handler[n][s].next \in Nat
      BY <2>2, <3>1 DEF ReadsCurrent, Accounted, RowFits, TypeOK, Handler
    <3>3. PICK k \in Nat : \E out : row'[m] = Merged(row[m], k, out)
      BY <2>2, <3>2 DEF Merges
    <3>4. QED BY <1>0, <3>3, MergedShape DEF Has
  <2>3. CASE m = n /\ Gives(n, s)
    <3>1. handler[n][s].read = row[n]
      BY <2>3 DEF Gives, ReadsCurrent, Accounted, RowFits
    <3>2. row'[m].by = row[m].by
      BY <2>3, <3>1 DEF Gives
    <3>3. QED BY <3>2 DEF Has
  <2>4. CASE m = n /\ ~Merges(n, s) /\ ~Gives(n, s)
    <3>1. row'[m].by = row[m].by
      BY <1>0, <1>3, <2>4 DEF Acts, Moved, Begins, Leaves, Loads, Works, Reads, Draws, Falls,
                              FallReads, Row
    <3>2. QED BY <3>1 DEF Has
  <2>5. QED BY <2>1, <2>2, <2>3, <2>4
<1>4. QED BY <1>1, <1>2, <1>3, StepCases

\* For any number of mappings, resources, attempts and faults: while the handlers
\* of one job do not coexist, no write of a result row drops an outcome that was
\* merged into it.  (With two of them the run lost_outcome shows that one does.)
THEOREM OutcomesKeptByOneHandler == Spec /\ []OneHandlerAtATime => NoOutcomeLost
<1>1. Init => ReadsCurrent
  BY DEF Init, ReadsCurrent, NoHandler
<1>2. TypeOK /\ Accounted /\ OneHandlerAtATime /\ ReadsCurrent /\ [Next]_vars => ReadsCurrent'
  BY ReadsCurrentStep
<1>3. TypeOK /\ Accounted /\ ReadsCurrent /\ [Next]_vars =>
        [\A m \in Mappings, r \in Resources :
           row[m].by[r] # "none" /\ row'[m].status # "absent" => row'[m].by[r] # "none"]_vars
  BY OutcomesStay DEF Has
<1>4. QED BY AlwaysAccounted, <1>1, <1>2, <1>3, PTL DEF Spec, NoOutcomeLost

\* In particular while no handler loses its lock, however often jobs crash.
THEOREM OutcomesKeptWhileLocksHold == Spec /\ [](lostLocks = 0) => NoOutcomeLost
<1>1. Spec /\ [](lostLocks = 0) => []OneHandlerAtATime
  BY LocksKeepHandlersApart, PTL
<1>2. QED BY <1>1, OutcomesKeptByOneHandler, PTL

-----------------------------------------------------------------------------
(* A verdict is drawn when every row is terminal *)

\* No lock was lost, and at most one handler crashed or met an error.
Undisturbed == lostLocks = 0 /\ faults <= 1

\* The fallback is the end of a last attempt, and follows a fault or a deletion.
FallbackFits ==
  \A m \in Mappings, s \in Slots :
    LET h == handler[m][s] IN
      /\ h.pc \in {"failRead", "failWrite"} => h.final /\ (faults >= 1 \/ Gone(m))
      /\ h.then = "failed" => h.pc \in Closing /\ h.final /\ faults >= 1

\* A terminal row that is short of outcomes.
Short(m) == m \in Present /\ StatusOf(m) \in RowTerminal /\ ~AllDone(m)

\* It was written by the fallback: its job makes no other attempt.
ShortRowsStay ==
  \A m \in Mappings : Short(m) =>
    /\ faults >= 1 /\ job[m].state \in {"active", "done"}
    /\ \A s \in Slots : \/ handler[m][s].pc = "idle"
                        \/ handler[m][s].pc \in Closing /\ handler[m][s].final

\* A verdict that was drawn from terminal rows is still one of terminal rows.
Drawn ==
  \A m \in Mappings, s \in Slots :
    handler[m][s].pc = "closeWrite" => \A n \in Present : StatusOf(n) \in RowTerminal

VerdictFits == FallbackFits /\ ShortRowsStay /\ Drawn

\* What is known of the jobs and handlers while no lock is lost.
Locked == LocksHeld /\ OneHandlerAtATime /\ ReadsCurrent

LEMMA LocksHeldApart == LocksHeld => OneHandlerAtATime
BY DEF LocksHeld, OneHandlerAtATime, OwnsLock

LEMMA LockedStep ==
  ASSUME TypeOK, Accounted, lostLocks = 0 => Locked, [Next]_vars, lostLocks' = 0
  PROVE  Locked'
<1>1. lostLocks = 0 /\ Locked
  BY Counters
<1>2. LocksHeld' /\ ReadsCurrent'
  BY <1>1, LocksHeldStep, ReadsCurrentStep DEF Locked
<1>3. QED BY <1>2, LocksHeldApart DEF Locked, LocksHeld, OneHandlerAtATime, OwnsLock

\* A step between undisturbed states.
PlainStep ==
  /\ TypeOK /\ Accounted /\ Locked /\ VerdictFits
  /\ Undisturbed /\ Undisturbed' /\ [Next]_vars

LEMMA PlainCounters ==
  ASSUME PlainStep
  PROVE  /\ faults \in Nat /\ faults' \in Nat /\ faults <= faults' /\ faults' <= 1
         /\ faults >= 1 => faults' >= 1 /\ ~(faults' > faults)
         /\ faults' > faults => faults' >= 1
         /\ lostLocks' = lostLocks
BY Counters DEF PlainStep, Undisturbed

\* What the steps are, without those that lose a lock.
LEMMA PlainCases ==
  ASSUME PlainStep
  PROVE  \/ Apart
         \/ \E n \in Mappings : Queues(n)
         \/ \E n \in Mappings, s \in Slots : Acts(n, s)
<1>1. ASSUME NEW n \in Mappings, LoseLock(n) PROVE FALSE
  BY <1>1, Counters DEF LoseLock, PlainStep, Undisturbed
<1>2. QED BY <1>1, StepCases DEF PlainStep

\* While no lock is lost a handler finds no row only if its mapping is deleted.
LEMMA NoRowMeansGone ==
  ASSUME PlainStep, NEW n \in Mappings, NEW s \in Slots, FindsNoRow(n, s)
  PROVE  Gone(n)
BY DEF PlainStep, Locked, ReadsCurrent, FindsNoRow, Present, StatusOf

LEMMA FallbackFitsStep == ASSUME PlainStep PROVE FallbackFits'
<1>0. TypeOK /\ [Next]_vars /\ FallbackFits /\ \A m \in Mappings : Gone(m) => Gone(m)'
  BY Edits DEF PlainStep, VerdictFits
<1>1. ASSUME NEW m \in Mappings, NEW t \in Slots, handler'[m][t] = handler[m][t]
      PROVE  LET g == handler'[m][t] IN
               /\ g.pc \in {"failRead", "failWrite"} => g.final /\ (faults' >= 1 \/ Gone(m)')
               /\ g.then = "failed" => g.pc \in Closing /\ g.final /\ faults' >= 1
  BY <1>0, <1>1, PlainCounters DEF FallbackFits
<1>2. CASE Apart \/ \E n \in Mappings : Queues(n)
  <2>1. UNCHANGED handler
    BY <1>2 DEF Apart, Queues
  <2>2. QED BY <1>1, <2>1 DEF FallbackFits
<1>3. ASSUME NEW n \in Mappings, NEW s \in Slots, Acts(n, s) PROVE FallbackFits'
  <2> DEFINE h == handler[n][s]
  <2> DEFINE g == handler'[n][s]
  <2> DEFINE Fits == /\ g.pc \in {"failRead", "failWrite"} => g.final /\ (faults' >= 1 \/ Gone(n)')
                     /\ g.then = "failed" => g.pc \in Closing /\ g.final /\ faults' >= 1
  <2>0. /\ h.pc \in {"failRead", "failWrite"} => h.final /\ (faults >= 1 \/ Gone(n))
        /\ h.then = "failed" => h.pc \in Closing /\ h.final /\ faults >= 1
    BY <1>0 DEF FallbackFits
  <2>1. ASSUME Begins(n, s) \/ Leaves(n, s) PROVE Fits
    BY <2>1 DEF Begins, Leaves, NoHandler
  <2>2. ASSUME Loads(n, s) \/ Works(n, s) \/ Reads(n, s) \/ Merges(n, s) PROVE Fits
    BY <2>0, <2>2 DEF Loads, Works, Reads, Merges, Closing
  <2>3. ASSUME Draws(n, s) PROVE Fits
    BY <2>0, <2>3, PlainCounters DEF Draws, Same, Closing
  <2>4. ASSUME Falls(n, s) PROVE Fits
    <3>1. h.then # "failed"
      BY <2>0, <2>4 DEF Falls, FindsNoRow, Closing
    <3>2. faults' >= 1 \/ Gone(n)'
      BY <1>0, <2>4, NoRowMeansGone, PlainCounters DEF Falls
    <3>3. QED BY <2>4, <3>1, <3>2 DEF Falls
  <2>5. ASSUME FallReads(n, s) PROVE Fits
    BY <1>0, <2>0, <2>5, PlainCounters DEF FallReads, Same, Closing
  <2>6. ASSUME Gives(n, s) PROVE Fits
    <3>1. ~Gone(n)
      BY <2>6 DEF Gives, PlainStep, Accounted, RowFits
    <3>2. QED BY <2>0, <2>6, <3>1, PlainCounters DEF Gives, Same, Closing
  <2>7. Fits
    BY <1>3, <2>1, <2>2, <2>3, <2>4, <2>5, <2>6 DEF Acts, Moved
  <2>8. \A m \in Mappings, t \in Slots : m # n \/ t # s => handler'[m][t] = handler[m][t]
    BY <1>3 DEF Acts, Alone
  <2>9. QED BY <1>1, <2>7, <2>8 DEF FallbackFits
<1>4. QED BY <1>2, <1>3, PlainCases

\* A merge leaves a terminal row only with every outcome, and its verdict.
LEMMA MergedVerdict ==
  ASSUME NEW r \in Row, NEW k \in Nat, NEW out, Merged(r, k, out).status \in RowTerminal
  PROVE  /\ \A q \in Resources : Merged(r, k, out).by[q] # "none"
         /\ Merged(r, k, out).status = "failed" <=>
              \E q \in Resources : Merged(r, k, out).by[q] = "failed"
<1> DEFINE by == [r.by EXCEPT ![k] = IF out = "succeeded" THEN "succeeded" ELSE "failed"]
<1>1. Merged(r, k, out).by = by
  BY DEF Merged
<1> HIDE DEF by
<1>2. Merged(r, k, out).status =
        IF ~(\A q \in Resources : by[q] # "none") THEN "running"
        ELSE IF \E q \in Resources : by[q] = "failed" THEN "failed" ELSE "succeeded"
  BY DEF Merged, by
<1>3. QED BY <1>1, <1>2 DEF RowTerminal

\* While a handler is busy no row of a mapping that counts is missing.
LEMMA BusyMeansCounted ==
  ASSUME TypeOK, Accounted, NEW m \in Mappings, NEW t \in Slots, handler[m][t].pc # "idle"
  PROVE  /\ Enabled \subseteq Present /\ NumResources # 0
         /\ orch.pc = "write" => \A n \in orch.fanout : n \in Present \/ Gone(n)
<1>1. job[m].state # "absent"
  BY DEF Accounted, JobPlanned
<1>2. Started
  BY <1>1 DEF Started
<1>3. QED BY <1>2 DEF Accounted, Counted, NothingToDo

\* A row that beginRun creates is not short of an outcome it should have.
LEMMA CreatedNotShort ==
  ASSUME TypeOK, Accounted, NEW m \in Mappings, LeftAlone(m), row'[m] # row[m]
  PROVE  ~Short(m)'
<1>0. row[m] \in Row
  BY DEF TypeOK
<1>1. CASE row'[m] = NoRow
  BY <1>1 DEF Short, Present, StatusOf, NoRow
<1>2. CASE row'[m] = [row[m] EXCEPT !.status = "queued"]
  BY <1>0, <1>2 DEF Short, StatusOf, Row, RowTerminal
<1>3. CASE m \in orch.fanout /\ orch.pc = "empty"
  <2>1. Resources = {}
    BY <1>3 DEF Accounted, Counted, Resources
  <2>2. QED BY <2>1 DEF Short, AllDone
<1>4. QED BY <1>1, <1>2, <1>3 DEF LeftAlone

LEMMA ShortRowsStep ==
  ASSUME PlainStep, NEW m \in Mappings, Short(m)'
  PROVE  /\ faults' >= 1 /\ job'[m].state \in {"active", "done"}
         /\ \A t \in Slots : \/ handler'[m][t].pc = "idle"
                             \/ handler'[m][t].pc \in Closing /\ handler'[m][t].final
<1>0. TypeOK /\ Accounted /\ Locked /\ FallbackFits /\ [Next]_vars
  BY DEF PlainStep, VerdictFits
<1>1. ASSUME row'[m] = row[m]
      PROVE  /\ faults >= 1 /\ faults' >= 1 /\ ~(faults' > faults)
             /\ job[m].state \in {"active", "done"}
             /\ \A t \in Slots : \/ handler[m][t].pc = "idle"
                                 \/ handler[m][t].pc \in Closing /\ handler[m][t].final
  <2>1. Short(m)
    BY <1>1 DEF Short, Present, StatusOf, AllDone, Has
  <2>2. QED BY <2>1, PlainCounters DEF PlainStep, VerdictFits, ShortRowsStay
<1>2. CASE Apart
  <2>1. LeftAlone(m) /\ UNCHANGED <<job, handler>>
    BY <1>2 DEF Apart
  <2>2. row'[m] = row[m]
    BY <1>0, <2>1, CreatedNotShort
  <2>3. QED BY <1>1, <2>1, <2>2
<1>3. ASSUME NEW n \in Mappings, Queues(n)
      PROVE  /\ faults' >= 1 /\ job'[m].state \in {"active", "done"}
             /\ \A t \in Slots : \/ handler'[m][t].pc = "idle"
                                 \/ handler'[m][t].pc \in Closing /\ handler'[m][t].final
  <2>1. row'[m] = row[m] /\ handler' = handler
    BY <1>3 DEF Queues
  <2>2. job[m].state # "absent" => job'[m] = job[m]
    BY <1>3 DEF Queues
  <2>3. QED BY <1>1, <2>1, <2>2
<1>4. ASSUME NEW n \in Mappings, NEW s \in Slots, Acts(n, s)
      PROVE  /\ faults' >= 1 /\ job'[m].state \in {"active", "done"}
             /\ \A t \in Slots : \/ handler'[m][t].pc = "idle"
                                 \/ handler'[m][t].pc \in Closing /\ handler'[m][t].final
  <2> DEFINE h == handler[m][s]
  <2> DEFINE g == handler'[m][s]
  <2>1. CASE m # n
    BY <1>1, <1>4, <2>1 DEF Acts, Alone
  <2>2. CASE m = n
    <3>1. \A t \in Slots : t # s => handler'[m][t] = handler[m][t]
      BY <1>4, <2>2 DEF Acts, Alone
    <3>2. CASE Gives(n, s)
      <4>1. h.pc = "failWrite" /\ m \in Present /\ g.pc = "closeRead" /\ job'[m] = job[m]
            /\ g.final = h.final
        BY <2>2, <3>2 DEF Gives, Same
      <4>2. h.final /\ faults' >= 1
        BY <1>0, <4>1, PlainCounters DEF FallbackFits, Accounted, RowFits
      <4>3. job'[m].state = "active"
        BY <1>0, <4>1 DEF Locked, LocksHeld, OwnsLock
      <4>4. \A t \in Slots : t # s => handler[m][t].pc = "idle"
        BY <1>0, <4>1 DEF Locked, OneHandlerAtATime
      <4>5. QED BY <3>1, <4>1, <4>2, <4>3, <4>4 DEF Closing
    <3>3. ASSUME Merges(n, s) PROVE FALSE
      <4>1. h.read \in Row /\ h.next \in Nat
        BY DEF PlainStep, TypeOK, Handler
      <4>2. PICK out : row'[m] = Merged(h.read, h.next, out)
        BY <2>2, <3>3 DEF Merges
      <4>3. row'[m].status \in RowTerminal /\ ~(\A q \in Resources : row'[m].by[q] # "none")
        BY DEF Short, StatusOf, AllDone, Has
      <4>4. QED BY <4>1, <4>2, <4>3, MergedVerdict
    <3>4. CASE ~Gives(n, s) /\ ~Merges(n, s)
      <4>1. row'[m] = row[m] \/ row'[m] = [row[m] EXCEPT !.status = "running"]
        BY <1>4, <2>2, <3>4 DEF Acts, Moved, Begins, Leaves, Loads, Works, Reads, Draws, Falls, FallReads
      <4>2. row[m] \in Row
        BY <1>0 DEF TypeOK
      <4>3. row'[m] = row[m]
        BY <4>1, <4>2 DEF Short, StatusOf, Row, RowTerminal
      <4>4. /\ faults >= 1 /\ faults' >= 1 /\ ~(faults' > faults)
            /\ job[m].state \in {"active", "done"}
            /\ \A t \in Slots : \/ handler[m][t].pc = "idle"
                                \/ handler[m][t].pc \in Closing /\ handler[m][t].final
        BY <1>1, <4>3
      <4>5. h.pc = "idle" \/ (h.pc \in Closing /\ h.final)
        BY <4>4
      <4>6. CASE Leaves(n, s)
        <5>1. OwnsLock(m, s)
          BY <1>0, <2>2, <4>6 DEF Leaves, Locked, LocksHeld
        <5>2. job'[m].state = "done" /\ g.pc = "idle"
          BY <2>2, <4>4, <4>5, <4>6, <5>1 DEF Leaves, Closing, FindsNoRow, NoHandler
        <5>3. QED BY <3>1, <4>4, <5>2
      <4>7. CASE Draws(n, s)
        <5>1. g.pc \in Closing /\ g.final = h.final /\ job'[m] = job[m] /\ h.pc # "idle"
          BY <2>2, <4>7 DEF Draws, Same, Closing
        <5>2. QED BY <3>1, <4>4, <4>5, <5>1
      <4>8. ASSUME ~Leaves(n, s), ~Draws(n, s) PROVE FALSE
        BY <1>4, <2>2, <3>4, <4>4, <4>5, <4>8 DEF Acts, Moved, Begins, Loads, Works, Reads, Falls,
           FallReads, FindsNoRow, Closing
      <4>9. QED BY <4>6, <4>7, <4>8
    <3>5. QED BY <3>2, <3>3, <3>4
  <2>3. QED BY <2>1, <2>2
<1>5. QED BY <1>2, <1>3, <1>4, PlainCases

\* Once a verdict was drawn, no step takes a row back from terminal, and no new
\* row appears.
LEMMA TerminalRowsStay ==
  ASSUME PlainStep, NEW m \in Mappings, NEW t \in Slots, handler[m][t].pc = "closeWrite",
         NEW n \in Present'
  PROVE  n \in Present /\ StatusOf(n)' \in RowTerminal
<1>0. /\ TypeOK /\ Accounted /\ Locked /\ FallbackFits /\ [Next]_vars
      /\ \A k \in Present : StatusOf(k) \in RowTerminal
  BY DEF PlainStep, VerdictFits, Drawn
<1>1. n \in Mappings
  BY DEF Present
<1>2. CASE row'[n] = row[n]
  BY <1>0, <1>1, <1>2 DEF Present, StatusOf
<1>3. CASE row'[n] # row[n] /\ Apart
  <2>1. LeftAlone(n)
    BY <1>1, <1>3 DEF Apart
  <2>2. row'[n] # NoRow
    BY DEF Present, StatusOf, NoRow
  <2>3. /\ n \in orch.fanout /\ n \notin Present /\ ~Gone(n) /\ orch.pc \in {"write", "empty"}
        /\ orch.pc = "empty" => NumResources = 0
    BY <1>0, <1>3, <2>1, <2>2 DEF LeftAlone, Accounted, Counted
  <2>4. FALSE
    BY <1>0, <2>3, BusyMeansCounted
  <2>5. QED BY <2>4
<1>4. ASSUME NEW k \in Mappings, NEW s \in Slots, Acts(k, s), row'[n] # row[n]
      PROVE  n \in Present /\ StatusOf(n)' \in RowTerminal
  <2> DEFINE h == handler[n][s]
  <2>1. n = k
    BY <1>1, <1>4 DEF Acts, Alone
  <2>2. CASE Merges(n, s)
    <3>1. h.pc = "mergeWrite" /\ n \in Present /\ h.next \in Nat
      BY <1>0, <1>1, <2>2 DEF Merges, TypeOK, Handler
    <3>2. AllDone(n)
      BY <1>0, <1>1, <3>1 DEF PlainStep, VerdictFits, ShortRowsStay, Short, Closing
    <3>3. h.read = row[n] /\ row[n] \in Row
      BY <1>0, <1>1, <3>1 DEF Locked, ReadsCurrent, Accounted, RowFits, TypeOK
    <3>4. PICK out : row'[n] = Merged(row[n], h.next, out)
      BY <2>2, <3>3 DEF Merges
    <3>5. \A q \in Resources : row[n].by[q] # "none"
      BY <3>2 DEF AllDone, Has
    <3>6. row'[n].status \in RowTerminal
      BY <3>1, <3>3, <3>4, <3>5, MergedShape
    <3>7. QED BY <3>1, <3>6 DEF StatusOf
  <2>3. CASE Gives(n, s)
    BY <2>3 DEF Gives, StatusOf, RowTerminal
  <2>4. CASE Loads(n, s)
    <3>1. StatusOf(n) = "queued"
      BY <1>4, <2>4 DEF Loads
    <3>2. n \in Present
      BY <1>1, <3>1 DEF Present
    <3>3. QED BY <1>0, <3>1, <3>2 DEF RowTerminal
  <2>5. QED BY <1>4, <2>1, <2>2, <2>3, <2>4 DEF Acts, Moved, Begins, Leaves, Works, Reads, Draws,
               Falls, FallReads
<1>5. ASSUME NEW k \in Mappings, Queues(k) PROVE row'[n] = row[n]
  BY <1>5 DEF Queues
<1>6. QED BY <1>2, <1>3, <1>4, <1>5, PlainCases

LEMMA DrawnStep ==
  ASSUME PlainStep, NEW m \in Mappings, NEW t \in Slots, handler'[m][t].pc = "closeWrite",
         NEW n \in Present'
  PROVE  StatusOf(n)' \in RowTerminal
<1>1. CASE handler[m][t].pc = "closeWrite"
  BY <1>1, TerminalRowsStay
<1>2. ASSUME handler[m][t].pc # "closeWrite", NEW k \in Mappings, NEW s \in Slots, Acts(k, s)
      PROVE  StatusOf(n)' \in RowTerminal
  <2>1. m = k /\ t = s
    BY <1>2 DEF Acts, Alone
  <2>2. Draws(m, t)
    BY <1>2, <2>1 DEF Acts, Moved, Begins, Leaves, NoHandler, Loads, Works, Reads, Merges, Falls,
                      FallReads, Gives
  <2>3. row'[n] = row[n] /\ n \in Mappings
    BY <1>2, <2>1, <2>2 DEF Draws, Acts, Alone, Present
  <2>4. QED BY <2>2, <2>3 DEF Draws, Present, StatusOf
<1>3. CASE Apart \/ \E k \in Mappings : Queues(k)
  <2>1. handler' = handler
    BY <1>3 DEF Apart, Queues
  <2>2. QED BY <1>1, <2>1
<1>4. QED BY <1>1, <1>2, <1>3, PlainCases

LEMMA VerdictFitsStep ==
  ASSUME TypeOK, Accounted, lostLocks = 0 => Locked, Undisturbed => VerdictFits, [Next]_vars,
         Undisturbed'
  PROVE  VerdictFits'
<1>1. PlainStep
  BY Counters DEF PlainStep, Undisturbed
<1>2. ShortRowsStay'
  BY <1>1, ShortRowsStep DEF ShortRowsStay
<1>3. Drawn'
  BY <1>1, DrawnStep DEF Drawn
<1>4. QED BY <1>1, <1>2, <1>3, FallbackFitsStep DEF VerdictFits

Grounded ==
  Accounted /\ (lostLocks = 0 => Locked) /\ (Undisturbed => VerdictFits)

LEMMA InitGrounded == Init => Grounded
<1> SUFFICES ASSUME Init PROVE Grounded
  OBVIOUS
<1>1. \A m \in Mappings, s \in Slots : handler[m][s].pc = "idle" /\ handler[m][s].then = "none"
  BY DEF Init, NoHandler
<1>2. Locked
  BY <1>1 DEF Locked, LocksHeld, OneHandlerAtATime, ReadsCurrent
<1>3. \A m \in Mappings : m \notin Present
  BY DEF Init, Present, StatusOf, NoRow
<1>4. VerdictFits
  BY <1>1, <1>3 DEF VerdictFits, FallbackFits, ShortRowsStay, Short, Drawn
<1>5. QED BY <1>2, <1>4, InitAccounted DEF Grounded

LEMMA AlwaysGrounded == Spec => [](TypeOK /\ Grounded)
<1>1. TypeOK /\ Grounded /\ [Next]_vars => Grounded'
  <2> SUFFICES ASSUME TypeOK, Grounded, [Next]_vars PROVE Grounded'
    OBVIOUS
  <2>1. Accounted'
    BY AccountedStep DEF Grounded
  <2>2. lostLocks' = 0 => Locked'
    BY LockedStep DEF Grounded
  <2>3. Undisturbed' => VerdictFits'
    BY VerdictFitsStep DEF Grounded
  <2>4. QED BY <2>1, <2>2, <2>3 DEF Grounded
<1>2. QED BY InitTypeOK, NextTypeOK, InitGrounded, <1>1, PTL DEF Spec

-----------------------------------------------------------------------------
(* Without faults and edits the verdict is that of every outcome *)

Quiet == faults + edits + lostLocks = 0

\* A job that waits for an attempt has merged nothing yet.
Unmerged(m) == job[m].state \in {"absent", "waiting"} => \A q \in Resources : ~Has(m, q)

\* A terminal row has every outcome, and failed exactly if one of them did.
RowVerdict(m) ==
  StatusOf(m) \in RowTerminal =>
    AllDone(m) /\ (StatusOf(m) = "failed" <=> \E q \in Resources : row[m].by[q] = "failed")

Merging == {"mergeRead", "mergeWrite"}

\* A handler has merged the resources before the next one only; what it merges is
\* final; and its verdict is the one that the rows give.
MergesInOrder(m, s) ==
  LET h == handler[m][s] IN
  /\ h.pc \in {"load", "mark", "work"} => h.next = 1 /\ \A q \in Resources : ~Has(m, q)
  /\ h.pc \in Merging => h.next \in Resources /\ \A q \in Resources : q >= h.next => ~Has(m, q)
  /\ h.pc \in Merging \cup Closing => (Retryable(h.outs) => h.final)
  /\ h.pc = "closeWrite" => (h.verdict = "failed" <=> \E n \in Mappings : StatusOf(n) = "failed")

QuietFits ==
  /\ \A m \in Mappings : Unmerged(m) /\ RowVerdict(m)
  /\ \A m \in Mappings, s \in Slots : MergesInOrder(m, s)

\* A step between quiet states.
QuietStep == PlainStep /\ Quiet /\ Quiet' /\ QuietFits

LEMMA QuietFacts ==
  ASSUME QuietStep
  PROVE  /\ TypeOK /\ Accounted /\ Locked /\ [Next]_vars
         /\ ~(faults >= 1) /\ ~(faults' > faults)
         /\ \A m \in Mappings : ~Gone(m) /\ ~Gone(m)'
         /\ \A m \in Mappings, s \in Slots :
              /\ handler[m][s].pc \notin {"failRead", "failWrite"}
              /\ handler[m][s].then # "failed"
              /\ ~FindsNoRow(m, s)
<1>0. /\ TypeOK /\ Accounted /\ Locked /\ [Next]_vars /\ FallbackFits
      /\ faults \in Nat /\ edits \in Nat /\ lostLocks \in Nat
  BY Counters, FanoutAssumption DEF QuietStep, PlainStep, VerdictFits, TypeOK, FanoutAssumption
<1>1. faults = 0 /\ edits = 0
  BY <1>0 DEF QuietStep, Quiet
<1>2. faults' \in Nat /\ edits' \in Nat /\ lostLocks' \in Nat
  <2>1. TypeOK'
    BY <1>0, NextTypeOK
  <2>2. QED BY <2>1, FanoutAssumption DEF TypeOK, FanoutAssumption
<1>3. faults' = 0 /\ edits' = 0
  <2>1. faults' + edits' + lostLocks' = 0
    BY DEF QuietStep, Quiet
  <2>2. \A i, j, k \in Nat : i + j + k = 0 => i = 0 /\ j = 0
    OBVIOUS
  <2>3. QED BY <1>2, <2>1, <2>2
<1>4. mapping' = mapping
  BY <1>0, <1>3, Edits
<1>5. \A m \in Mappings : ~Gone(m) /\ ~Gone(m)'
  BY <1>0, <1>1, <1>4 DEF Accounted, Counted, Enabled, Gone
<1>6. ASSUME NEW m \in Mappings, NEW s \in Slots
      PROVE  /\ handler[m][s].pc \notin {"failRead", "failWrite"}
             /\ handler[m][s].then # "failed"
             /\ ~FindsNoRow(m, s)
  <2>1. ~(faults >= 1)
    BY <1>1
  <2>2. ~FindsNoRow(m, s)
    BY <1>5, NoRowMeansGone DEF QuietStep
  <2>3. QED BY <1>0, <1>5, <2>1, <2>2 DEF FallbackFits
<1>7. QED BY <1>0, <1>1, <1>3, <1>5, <1>6

\* What a handler can do in a quiet run.
LEMMA QuietMoves ==
  ASSUME QuietStep, NEW n \in Mappings, NEW s \in Slots, Acts(n, s)
  PROVE  \/ Begins(n, s) \/ Leaves(n, s) \/ Loads(n, s) \/ Works(n, s) \/ Reads(n, s)
         \/ Merges(n, s) \/ Draws(n, s)
BY QuietFacts DEF Acts, Moved, Falls, FallReads, Gives

\* What a merge does to the row: one more outcome.
LEMMA QuietMerge ==
  ASSUME QuietStep, NEW n \in Mappings, NEW s \in Slots, Merges(n, s)
  PROVE  LET k == handler[n][s].next IN
           /\ k \in Resources
           /\ \A q \in Resources : q >= k => ~Has(n, q)
           /\ \A q \in Resources : q > k => ~Has(n, q)'
           /\ RowVerdict(n)'
<1> DEFINE k == handler[n][s].next
<1> DEFINE out == handler[n][s].outs[k]
<1>1. handler[n][s].pc = "mergeWrite" /\ n \in Present
  BY DEF Merges
<1>2. k \in Resources /\ \A q \in Resources : q >= k => ~Has(n, q)
  BY <1>1 DEF QuietStep, QuietFits, MergesInOrder, Merging
<1>3. handler[n][s].read = row[n] /\ row[n] \in Row /\ k \in Nat
  BY <1>1, QuietFacts DEF Locked, ReadsCurrent, TypeOK, Handler
<1>4. row'[n] = Merged(row[n], k, out)
  BY <1>3 DEF Merges
<1>5. \A q \in Resources : q # k => row'[n].by[q] = row[n].by[q]
  BY <1>3, <1>4 DEF Merged, Row
<1>6. \A q \in Resources : q > k => ~Has(n, q)'
  BY <1>2, <1>3, <1>5 DEF Has, Resources
<1>7. RowVerdict(n)'
  <2>1. ASSUME row'[n].status \in RowTerminal
        PROVE  /\ \A q \in Resources : row'[n].by[q] # "none"
               /\ row'[n].status = "failed" <=> \E q \in Resources : row'[n].by[q] = "failed"
    <3> HIDE DEF k, out
    <3>1. Merged(row[n], k, out).status \in RowTerminal
      BY <1>4, <2>1
    <3>2. /\ \A q \in Resources : Merged(row[n], k, out).by[q] # "none"
          /\ Merged(row[n], k, out).status = "failed" <=>
               \E q \in Resources : Merged(row[n], k, out).by[q] = "failed"
      BY <1>3, <3>1, MergedVerdict, Zenon
    <3>3. QED BY <1>4, <3>2
  <2>2. QED BY <2>1 DEF RowVerdict, StatusOf, AllDone, Has
<1>8. QED BY <1>2, <1>6, <1>7

\* What the orchestrator does to rows in a quiet run.
LEMMA QuietCreates ==
  ASSUME QuietStep, NEW m \in Mappings, LeftAlone(m)
  PROVE  /\ \A q \in Resources : Has(m, q)' = Has(m, q)
         /\ RowVerdict(m)'
<1>0. RowVerdict(m) /\ ~Gone(m)' /\ row[m] \in Row
  BY QuietFacts DEF QuietStep, QuietFits, TypeOK
<1>1. CASE row'[m] = row[m]
  BY <1>0, <1>1 DEF RowVerdict, StatusOf, AllDone, Has
<1>2. CASE row'[m] # row[m]
  <2>1. \/ row'[m] = [row[m] EXCEPT !.status = "queued"]
        \/ row'[m] = [row[m] EXCEPT !.status = "succeeded"] /\ Resources = {}
    <3>1. orch.pc = "empty" /\ m \in orch.fanout => Resources = {}
      BY QuietFacts DEF Accounted, Counted, Resources
    <3>2. QED BY <1>0, <1>2, <3>1 DEF LeftAlone
  <2>2. row'[m].by = row[m].by
    BY <1>0, <2>1 DEF Row
  <2>3. row'[m].status = "queued" \/ (row'[m].status = "succeeded" /\ Resources = {})
    BY <1>0, <2>1 DEF Row
  <2>4. QED BY <2>2, <2>3 DEF RowVerdict, StatusOf, AllDone, Has, RowTerminal
<1>3. QED BY <1>1, <1>2

\* What a handler's step does to its job and its row.
LEMMA QuietRow ==
  ASSUME QuietStep, NEW n \in Mappings, NEW s \in Slots, Acts(n, s)
  PROVE  Unmerged(n)' /\ RowVerdict(n)'
<1> DEFINE h == handler[n][s]
<1>0. /\ Unmerged(n) /\ RowVerdict(n) /\ MergesInOrder(n, s) /\ row[n] \in Row
      /\ h.pc # "idle" => OwnsLock(n, s)
  BY QuietFacts DEF QuietStep, QuietFits, TypeOK, Locked, LocksHeld
<1>1. ASSUME row'[n] = row[n] PROVE RowVerdict(n)' /\ \A q \in Resources : Has(n, q)' = Has(n, q)
  BY <1>0, <1>1 DEF RowVerdict, StatusOf, AllDone, Has
<1>2. ASSUME job'[n].state = "active" PROVE Unmerged(n)'
  BY <1>2 DEF Unmerged
<1>3. CASE Begins(n, s)
  BY <1>1, <1>2, <1>3 DEF Begins
<1>4. CASE Leaves(n, s)
  <2>1. row'[n] = row[n] /\ OwnsLock(n, s)
    BY <1>0, <1>4 DEF Leaves
  <2>2. job'[n].state = "waiting" => ~h.final /\ (h.pc = "work" \/ (h.pc \in Closing /\ Retryable(h.outs)))
    BY <1>4, <2>1, QuietFacts DEF Leaves
  <2>3. job'[n].state = "waiting" => h.pc = "work"
    BY <1>0, <2>2 DEF MergesInOrder
  <2>4. job'[n].state = "waiting" => \A q \in Resources : ~Has(n, q)
    BY <1>0, <2>3 DEF MergesInOrder
  <2>5. job'[n].state \in {"done", "waiting"}
    BY <1>4, <2>1 DEF Leaves
  <2>6. QED BY <1>1, <2>1, <2>4, <2>5 DEF Unmerged
<1>5. CASE ~Begins(n, s) /\ ~Leaves(n, s)
  <2>1. job'[n] = job[n] /\ h.pc # "idle"
    BY <1>5, QuietMoves DEF Loads, Works, Reads, Merges, Draws, Same
  <2>2. Unmerged(n)'
    BY <1>0, <1>2, <2>1 DEF OwnsLock
  <2>3. CASE Merges(n, s)
    BY <2>2, <2>3, QuietMerge
  <2>4. CASE row'[n] = [row[n] EXCEPT !.status = "running"]
    BY <1>0, <2>2, <2>4 DEF RowVerdict, StatusOf, RowTerminal, Row
  <2>5. CASE row'[n] = row[n]
    BY <1>1, <2>2, <2>5
  <2>6. QED BY <1>5, <2>3, <2>4, <2>5, QuietMoves DEF Loads, Works, Reads, Draws
<1>6. QED BY <1>3, <1>4, <1>5

\* Once a verdict was drawn, no row changes its result.
LEMMA ResultsStay ==
  ASSUME QuietStep, NEW m \in Mappings, NEW t \in Slots, handler[m][t].pc = "closeWrite",
         NEW n \in Mappings
  PROVE  StatusOf(n)' = StatusOf(n)
<1>0. /\ TypeOK /\ Accounted /\ \A k \in Mappings : ~Gone(k) /\ ~Gone(k)'
      /\ \A k \in Present : StatusOf(k) \in RowTerminal /\ RowVerdict(k)
  BY QuietFacts DEF QuietStep, QuietFits, PlainStep, VerdictFits, Drawn, Present
<1>1. n \in Present
  <2>1. Enabled = Mappings
    BY DEF QuietStep, Quiet, PlainStep, Accounted, Counted, TypeOK, Enabled
  <2>2. QED BY <1>0, <2>1, BusyMeansCounted
<1>2. CASE row'[n] = row[n]
  BY <1>2 DEF StatusOf
<1>3. CASE Apart
  BY <1>0, <1>1, <1>2, <1>3 DEF Apart, LeftAlone
<1>4. ASSUME NEW k \in Mappings, NEW s \in Slots, Acts(k, s), row'[n] # row[n] PROVE FALSE
  <2>1. n = k
    BY <1>4 DEF Acts, Alone
  <2>2. ~Merges(n, s)
    BY <1>0, <1>1, QuietMerge DEF RowVerdict, AllDone, Resources
  <2>3. StatusOf(n) = "queued"
    BY <1>4, <2>1, <2>2, QuietMoves DEF Begins, Leaves, Loads, Works, Reads, Draws
  <2>4. QED BY <1>0, <1>1, <2>3 DEF RowTerminal
<1>5. ASSUME NEW k \in Mappings, Queues(k) PROVE row'[n] = row[n]
  BY <1>5 DEF Queues
<1>6. QED BY <1>2, <1>3, <1>4, <1>5, PlainCases DEF QuietStep

\* A handler that moves goes on merging in order.
LEMMA QuietHandler ==
  ASSUME QuietStep, NEW n \in Mappings, NEW s \in Slots, Acts(n, s)
  PROVE  MergesInOrder(n, s)'
<1> DEFINE h == handler[n][s]
<1> DEFINE g == handler'[n][s]
<1>0. /\ Unmerged(n) /\ MergesInOrder(n, s) /\ row[n] \in Row
      /\ \A m \in Mappings, t \in Slots : handler[m][t].pc # "idle" => NumResources # 0
      /\ NumResources \in Nat
  BY QuietFacts, BusyMeansCounted, FanoutAssumption
     DEF QuietStep, QuietFits, TypeOK, FanoutAssumption
<1>1. ASSUME row'[n].by = row[n].by PROVE \A q \in Resources : Has(n, q)' = Has(n, q)
  BY <1>1 DEF Has
<1>2. CASE Begins(n, s)
  <2>1. \A q \in Resources : ~Has(n, q)'
    BY <1>0, <1>1, <1>2 DEF Begins, Unmerged
  <2>2. QED BY <1>2, <2>1 DEF Begins, MergesInOrder, Merging, Closing
<1>3. CASE Leaves(n, s)
  <2>1. g.pc = "idle"
    BY <1>3 DEF Leaves, NoHandler
  <2>2. QED BY <2>1 DEF MergesInOrder, Merging, Closing
<1>4. CASE Loads(n, s)
  <2>1. row'[n].by = row[n].by
    BY <1>0, <1>4 DEF Loads, Row
  <2>2. \A q \in Resources : ~Has(n, q)'
    BY <1>0, <1>1, <1>4, <2>1 DEF Loads, MergesInOrder
  <2>3. g.pc \in {"mark", "work"} /\ g.next = 1
    BY <1>0, <1>4 DEF Loads, MergesInOrder
  <2>4. QED BY <2>2, <2>3 DEF MergesInOrder, Merging, Closing
<1>5. CASE Works(n, s)
  <2>1. \A q \in Resources : ~Has(n, q)'
    BY <1>0, <1>1, <1>5 DEF Works, MergesInOrder
  <2>2. g.next = 1 /\ 1 \in Resources /\ g.pc = "mergeRead" /\ (Retryable(g.outs) => g.final)
    BY <1>0, <1>5 DEF Works, MergesInOrder, Resources
  <2>3. QED BY <2>1, <2>2 DEF MergesInOrder, Closing
<1>6. CASE Reads(n, s)
  <2>1. \A q \in Resources : Has(n, q)' = Has(n, q)
    BY <1>1, <1>6 DEF Reads
  <2>2. /\ g.pc = "mergeWrite" /\ g.next = h.next /\ g.outs = h.outs /\ g.final = h.final
        /\ h.pc = "mergeRead"
    BY <1>6 DEF Reads, Same
  <2>3. h.next \in Resources /\ (Retryable(h.outs) => h.final) /\ \A q \in Resources : q >= h.next => ~Has(n, q)
    BY <1>0, <2>2 DEF MergesInOrder, Merging
  <2>4. QED BY <2>1, <2>2, <2>3 DEF MergesInOrder, Closing
<1>7. CASE Merges(n, s)
  <2>1. /\ g.pc = IF h.next < NumResources THEN "mergeRead" ELSE "closeRead"
        /\ g.next = h.next + 1 /\ g.outs = h.outs /\ g.final = h.final /\ h.pc = "mergeWrite"
    BY <1>7 DEF Merges, Same
  <2>2. h.next \in Resources /\ \A q \in Resources : q > h.next => ~Has(n, q)'
    BY <1>7, QuietMerge
  <2>3. Retryable(g.outs) => g.final
    BY <1>0, <2>1 DEF MergesInOrder, Merging
  <2>4. g.pc = "mergeRead" => g.next \in Resources /\ \A q \in Resources : q >= g.next => ~Has(n, q)'
    BY <1>0, <2>1, <2>2 DEF Resources
  <2>5. QED BY <2>1, <2>3, <2>4 DEF MergesInOrder, Merging
<1>8. CASE Draws(n, s)
  <2>1. /\ g.pc = "closeWrite" /\ g.outs = h.outs /\ g.final = h.final /\ h.pc = "closeRead"
        /\ g.verdict = IF \E m \in Present : StatusOf(m) = "failed" THEN "failed" ELSE "succeeded"
    BY <1>8 DEF Draws, Same
  <2>2. \A m \in Mappings : StatusOf(m)' = StatusOf(m)
    BY <1>8 DEF Draws, Acts, Alone, StatusOf
  <2>3. Retryable(g.outs) => g.final
    BY <1>0, <2>1 DEF MergesInOrder, Closing
  <2>4. g.verdict = "failed" <=> \E m \in Mappings : StatusOf(m)' = "failed"
    BY <2>1, <2>2 DEF Present
  <2>5. QED BY <2>1, <2>3, <2>4 DEF MergesInOrder, Merging
<1>9. QED BY <1>2, <1>3, <1>4, <1>5, <1>6, <1>7, <1>8, QuietMoves

\* A handler that does not move is not disturbed.
LEMMA QuietBystander ==
  ASSUME QuietStep, NEW m \in Mappings, NEW t \in Slots, handler'[m][t] = handler[m][t],
         handler[m][t].pc \notin Closing => \A q \in Resources : Has(m, q)' = Has(m, q)
  PROVE  MergesInOrder(m, t)'
<1>0. MergesInOrder(m, t)
  BY DEF QuietStep, QuietFits
<1>1. handler[m][t].pc = "closeWrite" => \A n \in Mappings : StatusOf(n)' = StatusOf(n)
  BY ResultsStay
<1>2. QED BY <1>0, <1>1 DEF MergesInOrder, Merging, Closing

LEMMA QuietFitsStep == ASSUME QuietStep PROVE QuietFits'
<1>0. TypeOK /\ Accounted /\ Locked /\ [Next]_vars /\ QuietFits
  BY QuietFacts DEF QuietStep
<1>1. CASE Apart
  <2>1. ASSUME NEW m \in Mappings
        PROVE  Unmerged(m)' /\ RowVerdict(m)' /\ \A t \in Slots : MergesInOrder(m, t)'
    <3>1. RowVerdict(m)' /\ \A q \in Resources : Has(m, q)' = Has(m, q)
      BY <1>1, QuietCreates DEF Apart
    <3>2. Unmerged(m)'
      BY <1>0, <1>1, <3>1 DEF Apart, QuietFits, Unmerged
    <3>3. QED BY <1>1, <3>1, <3>2, QuietBystander DEF Apart
  <2>2. QED BY <2>1 DEF QuietFits
<1>2. ASSUME NEW n \in Mappings, Queues(n) PROVE QuietFits'
  <2>1. ASSUME NEW m \in Mappings
        PROVE  Unmerged(m)' /\ RowVerdict(m)' /\ \A t \in Slots : MergesInOrder(m, t)'
    <3>1. row'[m] = row[m] /\ handler'[m] = handler[m]
      BY <1>2 DEF Queues
    <3>2. RowVerdict(m)' /\ \A q \in Resources : Has(m, q)' = Has(m, q)
      BY <1>0, <3>1 DEF QuietFits, RowVerdict, StatusOf, AllDone, Has
    <3>3. job'[m].state \in {"absent", "waiting"} => job[m].state \in {"absent", "waiting"}
      BY <1>2 DEF Queues
    <3>4. Unmerged(m)'
      BY <1>0, <3>2, <3>3 DEF QuietFits, Unmerged
    <3>5. QED BY <3>1, <3>2, <3>4, QuietBystander
  <2>2. QED BY <2>1 DEF QuietFits
<1>3. ASSUME NEW n \in Mappings, NEW s \in Slots, Acts(n, s) PROVE QuietFits'
  <2>1. Unmerged(n)' /\ RowVerdict(n)' /\ MergesInOrder(n, s)'
    BY <1>3, QuietRow, QuietHandler
  <2>2. ASSUME NEW t \in Slots, t # s PROVE MergesInOrder(n, t)'
    <3>1. handler'[n][t] = handler[n][t]
      BY <1>3, <2>2 DEF Acts, Alone
    <3>2. handler'[n][t].pc = "idle"
      <4>1. OneHandlerAtATime'
        <5>1. LocksHeld' /\ lostLocks = 0 /\ lostLocks' = 0
          BY <1>0, LocksHeldStep DEF QuietStep, PlainStep, Undisturbed, Locked
        <5>2. QED BY <5>1 DEF LocksHeld, OneHandlerAtATime, OwnsLock
      <4>2. handler[n][s].pc # "idle" \/ handler'[n][s].pc # "idle"
        BY <1>3, QuietMoves DEF Begins, Leaves, Loads, Works, Reads, Merges, Draws
      <4>3. QED BY <1>0, <2>2, <3>1, <4>1, <4>2 DEF Locked, OneHandlerAtATime
    <3>3. QED BY <3>2 DEF MergesInOrder, Merging, Closing
  <2>3. ASSUME NEW m \in Mappings, m # n
        PROVE  Unmerged(m)' /\ RowVerdict(m)' /\ \A t \in Slots : MergesInOrder(m, t)'
    <3>1. row'[m] = row[m] /\ handler'[m] = handler[m] /\ job'[m] = job[m]
      BY <1>3, <2>3 DEF Acts, Alone
    <3>2. RowVerdict(m)' /\ \A q \in Resources : Has(m, q)' = Has(m, q)
      BY <1>0, <3>1 DEF QuietFits, RowVerdict, StatusOf, AllDone, Has
    <3>3. Unmerged(m)'
      BY <1>0, <3>1, <3>2 DEF QuietFits, Unmerged
    <3>4. QED BY <3>1, <3>2, <3>3, QuietBystander
  <2>4. QED BY <2>1, <2>2, <2>3 DEF QuietFits
<1>4. QED BY <1>1, <1>2, <1>3, PlainCases DEF QuietStep

LEMMA QuietInvariant == Spec => [](TypeOK /\ Grounded /\ (Quiet => QuietFits))
<1>1. Init => (Quiet => QuietFits)
  <2> SUFFICES ASSUME Init PROVE QuietFits
    OBVIOUS
  <2>1. \A m \in Mappings : row[m] = NoRow /\ \A s \in Slots : handler[m][s].pc = "idle"
    BY DEF Init, NoHandler
  <2>2. \A m \in Mappings : Unmerged(m) /\ RowVerdict(m)
    BY <2>1 DEF Unmerged, RowVerdict, StatusOf, RowTerminal, NoRow, Has
  <2>3. QED BY <2>1, <2>2 DEF QuietFits, MergesInOrder, Merging, Closing
<1>2. TypeOK /\ Grounded /\ (Quiet => QuietFits) /\ [Next]_vars => (Quiet' => QuietFits')
  <2> SUFFICES ASSUME TypeOK, Grounded, Quiet => QuietFits, [Next]_vars, Quiet' PROVE QuietFits'
    OBVIOUS
  <2>1. /\ faults \in Nat /\ lostLocks \in Nat /\ edits \in Nat
        /\ faults' \in Nat /\ lostLocks' \in Nat /\ edits' \in Nat
    <3>1. TypeOK'
      BY NextTypeOK
    <3>2. QED BY <3>1, FanoutAssumption DEF TypeOK, FanoutAssumption
  <2>2. faults' = 0 /\ edits' = 0 /\ lostLocks' = 0
    <3>1. faults' + edits' + lostLocks' = 0
      BY DEF Quiet
    <3>2. \A i, j, k \in Nat : i + j + k = 0 => i = 0 /\ j = 0 /\ k = 0
      OBVIOUS
    <3>3. QED BY <2>1, <3>1, <3>2
  <2>3. faults = 0 /\ edits = 0 /\ lostLocks = 0
    <3>1. edits = 0
      BY <2>2, Edits
    <3>2. faults <= faults' /\ lostLocks <= lostLocks'
      BY Counters
    <3>3. QED BY <2>1, <2>2, <3>1, <3>2
  <2>4. Quiet /\ Undisturbed /\ Undisturbed'
    BY <2>2, <2>3 DEF Quiet, Undisturbed
  <2>5. QuietStep
    BY <2>3, <2>4 DEF QuietStep, PlainStep, Grounded
  <2>6. QED BY <2>5, QuietFitsStep
<1>3. QED BY AlwaysGrounded, <1>1, <1>2, PTL DEF Spec

\* Only beginRun without anything to do and closeRun stamp the integration.
LEMMA SettlingSteps ==
  ASSUME TypeOK, [Next]_vars, lastRun' # lastRun
  PROVE  \/ BeginEmpty /\ run \in RunActive /\ ~MappingGone
         \/ \E m \in Mappings, s \in Slots :
              CloseWrite(m, s) /\ run' = handler[m][s].verdict
<1>1. ASSUME NEW m \in Mappings, NEW s \in Slots, HandlerStep(m, s)
      PROVE  CloseWrite(m, s) /\ run' = handler[m][s].verdict
  BY <1>1 DEF HandlerStep, Load, Mark, Work, MergeRead, MergeWrite, CloseRead, CloseWrite, Settle,
              FailRead, FailWrite
<1>2. CASE Orchestrate
  BY <1>2 DEF Orchestrate, BeginRead, BeginEmpty, BeginWrite, BeginSelect, BeginDone, Enqueue,
              FailRun
<1>3. ASSUME Environment PROVE FALSE
  BY <1>3 DEF Environment, OrchFault, LoseLock, Crash, HandlerFault, DeleteMapping, DisableMapping
<1>4. ASSUME NEW m \in Mappings, NEW s \in Slots, Deliver(m, s) PROVE FALSE
  BY <1>4 DEF Deliver
<1>5. QED BY <1>1, <1>2, <1>3, <1>4 DEF Next, vars

\* beginRun settles a run only when there is nothing to evaluate.
LEMMA EmptyRunIsTruthful ==
  ASSUME TypeOK, Accounted, BeginEmpty, run \in RunActive, ~MappingGone
  PROVE  /\ \A m \in Mappings :
              \/ row'[m].status \in RowTerminal
              \/ row'[m].status = "absent" /\ mapping[m] # "enabled"
              \/ Enabled = {}
         /\ run' = "succeeded"
         /\ edits = 0 => \A m \in Mappings, r \in Resources : row'[m].by[r] = "succeeded"
<1>1. orch.pc = "empty" /\ run' = "succeeded" /\ CreateRows("succeeded")
  BY DEF BeginEmpty
<1>2. Enabled \subseteq orch.fanout /\ (NumResources # 0 => Enabled = {})
  BY <1>1 DEF Accounted, Counted
<1>3. CASE NumResources # 0
  <2>1. Enabled = {} /\ (edits = 0 => Mappings = {})
    BY <1>2, <1>3 DEF Accounted, Counted
  <2>2. QED BY <1>1, <2>1
<1>4. CASE NumResources = 0
  <2>1. Resources = {}
    BY <1>4 DEF Resources
  <2>2. ASSUME NEW m \in Mappings
        PROVE  \/ row'[m].status \in RowTerminal
               \/ row'[m].status = "absent" /\ mapping[m] # "enabled"
    <3>1. /\ row'[m] = IF m \in orch.fanout /\ StatusOf(m) = "absent"
                         THEN [row[m] EXCEPT !.status = "succeeded"] ELSE row[m]
          /\ row[m] \in Row
      BY <1>1 DEF CreateRows, TypeOK
    <3>2. StatusOf(m) \in {"absent", "succeeded"}
      BY <1>4 DEF Accounted, NothingToDo
    <3>3. m \notin orch.fanout => mapping[m] # "enabled"
      BY <1>2 DEF Enabled
    <3>4. QED BY <3>1, <3>2, <3>3 DEF StatusOf, Row, RowTerminal
  <2>3. QED BY <1>1, <2>1, <2>2
<1>5. QED BY <1>3, <1>4

\* closeRun settles it over terminal rows of all the mappings that count.
LEMMA CloseIsTruthful ==
  ASSUME TypeOK, Grounded, Undisturbed, NEW m \in Mappings, NEW s \in Slots, CloseWrite(m, s),
         NEW n \in Mappings
  PROVE  \/ row'[n].status \in RowTerminal
         \/ row'[n].status = "absent" /\ mapping[n] # "enabled"
<1>1. handler[m][s].pc = "closeWrite" /\ row' = row
  BY DEF CloseWrite
<1>2. n \in Present => StatusOf(n) \in RowTerminal
  BY <1>1 DEF Grounded, VerdictFits, Drawn
<1>3. Enabled \subseteq Present
  BY <1>1, BusyMeansCounted DEF Grounded
<1>4. QED BY <1>1, <1>2, <1>3 DEF Present, StatusOf, Enabled

LEMMA CloseIsExact ==
  ASSUME TypeOK, Grounded, Undisturbed, edits = 0, QuietFits,
         NEW m \in Mappings, NEW s \in Slots, CloseWrite(m, s)
  PROVE  handler[m][s].verdict = "succeeded" <=>
           \A n \in Mappings, r \in Resources : row'[n].by[r] = "succeeded"
<1>1. handler[m][s].pc = "closeWrite" /\ row' = row /\ handler[m][s].verdict \in {"succeeded", "failed"}
  BY DEF CloseWrite, TypeOK, Handler
<1>2. Enabled \subseteq Present /\ Enabled = Mappings
  BY <1>1, BusyMeansCounted DEF Grounded, Accounted, Counted
<1>3. \A n \in Mappings : StatusOf(n) \in RowTerminal
  BY <1>1, <1>2 DEF Grounded, VerdictFits, Drawn
<1>4. \A n \in Mappings :
        /\ \A r \in Resources : row[n].by[r] # "none"
        /\ StatusOf(n) = "failed" <=> \E r \in Resources : row[n].by[r] = "failed"
  BY <1>3 DEF QuietFits, RowVerdict, AllDone, Has
<1>5. \A n \in Mappings, r \in Resources : row[n].by[r] \in {"none", "succeeded", "failed"}
  BY DEF TypeOK, Row, Recorded
<1>6. handler[m][s].verdict = "failed" <=> \E n \in Mappings : StatusOf(n) = "failed"
  BY <1>1 DEF QuietFits, MergesInOrder
<1>7. QED BY <1>1, <1>4, <1>5, <1>6

\* For any number of mappings, resources, attempts and handlers, in any order of
\* their reads and writes: a run is settled only over terminal rows of every
\* mapping that counts, with at most one fault and no lock lost so far, and
\* without faults and edits its verdict is exactly that of all the outcomes.
THEOREM VerdictsAreTruthful == Spec => VerdictIsTruthful
<1>1. ASSUME TypeOK, Grounded, Quiet => QuietFits, [Next]_vars,
             lastRun' # lastRun, lostLocks = 0, faults <= 1
      PROVE  /\ \A m \in Mappings :
                  \/ row'[m].status \in RowTerminal
                  \/ row'[m].status = "absent" /\ mapping[m] # "enabled"
                  \/ Enabled = {}
             /\ faults + edits = 0 =>
                  (run' = "succeeded" <=>
                     \A m \in Mappings, r \in Resources : row'[m].by[r] = "succeeded")
  <2>0. Undisturbed /\ faults \in Nat /\ edits \in Nat /\ Accounted
    BY <1>1, FanoutAssumption DEF Undisturbed, FanoutAssumption, TypeOK, Grounded
  <2>1. faults + edits = 0 => edits = 0 /\ Quiet
    BY <1>1, <2>0 DEF Quiet
  <2>2. CASE BeginEmpty /\ run \in RunActive /\ ~MappingGone
    BY <1>1, <2>0, <2>1, <2>2, EmptyRunIsTruthful
  <2>3. ASSUME NEW m \in Mappings, NEW s \in Slots, CloseWrite(m, s), run' = handler[m][s].verdict
        PROVE  /\ \A n \in Mappings :
                    \/ row'[n].status \in RowTerminal
                    \/ row'[n].status = "absent" /\ mapping[n] # "enabled"
               /\ faults + edits = 0 =>
                    (run' = "succeeded" <=>
                       \A n \in Mappings, r \in Resources : row'[n].by[r] = "succeeded")
    BY <1>1, <2>0, <2>1, <2>3, CloseIsTruthful, CloseIsExact
  <2>4. QED BY <1>1, <2>2, <2>3, SettlingSteps
<1>2. TypeOK /\ Grounded /\ (Quiet => QuietFits) /\ [Next]_vars =>
        [lastRun' # lastRun /\ lostLocks = 0 /\ faults <= 1 =>
           /\ \A m \in Mappings :
                \/ row'[m].status \in RowTerminal
                \/ row'[m].status = "absent" /\ mapping[m] # "enabled"
                \/ Enabled = {}
           /\ faults + edits = 0 =>
                (run' = "succeeded" <=>
                   \A m \in Mappings, r \in Resources : row'[m].by[r] = "succeeded")]_vars
  BY <1>1
<1>3. QED BY QuietInvariant, <1>2, PTL DEF Spec, VerdictIsTruthful

=============================================================================
