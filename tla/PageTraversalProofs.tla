------------------------ MODULE PageTraversalProofs ------------------------
(* Theorems about PageTraversal and their proofs. *)
EXTENDS PageTraversal, TLAPS

-----------------------------------------------------------------------------
(* The rules of a gap row *)

\* What every row satisfies: a resolution is later than the last sighting.
RowOK(row) ==
  row \in GapRow /\ (row.resolved # Never => row.exists /\ row.seen < row.resolved)

\* What no operation may do to a row, given the scope's watermark.
Forward(row, next, watermarkNow) ==
  /\ row.exists => next.exists /\ next.seen >= row.seen
  /\ row.resolved # Never /\ Open(next) => next.seen >= row.resolved
  /\ ~row.exists /\ next.exists => next.seen >= watermarkNow

\* upsertReconstructionGap only moves a row forward.
LEMMA ObserveForward ==
  ASSUME NEW row, RowOK(row), NEW at \in Nat, NEW w \in Nat
  PROVE  RowOK(Observe(row, at, w)) /\ Forward(row, Observe(row, at, w), w)
BY DEF RowOK, GapRow, Observe, Applies, Open, Never, Forward

\* And so does resolveAbsentGaps after it, in the same transaction.
LEMMA ResolveForward ==
  ASSUME NEW row, NEW observed, RowOK(row), RowOK(observed), NEW at \in Nat, NEW w \in Nat,
         Forward(row, observed, w)
  PROVE  RowOK(ResolveAbsent(observed, at)) /\ Forward(row, ResolveAbsent(observed, at), w)
BY DEF RowOK, GapRow, ResolveAbsent, Open, Never, Forward

\* An untouched row is moved forward trivially.
LEMMA StayForward == ASSUME NEW row, RowOK(row), NEW w \in Nat PROVE Forward(row, row, w)
BY DEF RowOK, GapRow, Forward, Open, Never

-----------------------------------------------------------------------------
(* Types *)

\* An idle worker is well formed.
LEMMA IdleType == Idle \in Worker
<1>1. NoContent \in Contents
  <2>1. NoContent \in [{} -> Change]
    BY DEF NoContent
  <2>2. QED BY <2>1 DEF Contents
<1>2. QED BY <1>1, ScopeAssumption DEF ScopeAssumption, Idle, Worker, Modes, Times

\* A scope that was never synced has the types.
LEMMA InitTypeOK == Init => TypeOK
<1> SUFFICES ASSUME Init PROVE TypeOK
  OBVIOUS
<1> USE ScopeAssumption DEF ScopeAssumption, Init
<1>1. clock \in 1..MaxClock /\ watermark \in Times /\ trouble \in 0..MaxTrouble
  BY DEF Times, Never
<1>2. source \in [Records -> Change]
  BY DEF Change, Kinds, Times
<1>3. binding \in [Records -> Binding]
  BY DEF Binding, States, Times
<1>4. gap \in [Records -> GapRow]
  BY DEF GapRow, NoGap, Never
<1>5. checkpoint \in [Modes -> Checkpoint]
  BY DEF Checkpoint, NoCheckpoint, Times
<1>6. worker \in [Workers -> Worker]
  BY IdleType
<1>7. front \in Times /\ late \subseteq Records
  BY DEF Times
<1>8. QED BY <1>1, <1>2, <1>3, <1>4, <1>5, <1>6, <1>7 DEF TypeOK

\* A call that starts or resumes a traversal is well formed.
LEMMA StartedType ==
  ASSUME TypeOK, NEW mode \in Modes
  PROVE  Started(mode) \in Worker
<1> DEFINE c == checkpoint[mode]
           page == IF c.cursor # 0 THEN c.cursor ELSE 1
           snapshot == IF c.cursor # 0 THEN c.snapshot ELSE 0
           listing == IF c.cursor # 0 THEN c.listing ELSE {}
           authoritative == IF c.cursor # 0 THEN c.authoritative ELSE TRUE
<1>0. c \in Checkpoint
  BY DEF TypeOK
<1>1. page \in 1..LastPage /\ snapshot \in Times /\ c.highWater \in Times
  BY <1>0, ScopeAssumption DEF ScopeAssumption, Checkpoint, Times
<1>2. listing \in SUBSET Records
  BY <1>0 DEF Checkpoint
<1>3. authoritative \in BOOLEAN
  BY <1>0, Zenon DEF Checkpoint
<1>4. Started(mode) =
        [Idle EXCEPT !.pc = "fetch", !.mode = mode, !.active = TRUE, !.page = page,
           !.snapshot = snapshot, !.listing = listing, !.authoritative = authoritative,
           !.since = c.highWater]
  BY DEF Started
<1> HIDE DEF c, page, snapshot, listing, authoritative
<1>5. QED BY <1>1, <1>2, <1>3, <1>4, IdleType DEF Worker

\* Every step keeps the types.
LEMMA NextTypeOK == TypeOK /\ [Next]_vars => TypeOK'
<1> SUFFICES ASSUME TypeOK, [Next]_vars PROVE TypeOK'
  OBVIOUS
<1> USE ScopeAssumption DEF ScopeAssumption
<1>1. ASSUME NEW r \in Records, NEW kind \in Kinds, SourceChange(r, kind) PROVE TypeOK'
  <2>1. [kind |-> kind, at |-> clock + 1] \in Change
    BY <1>1 DEF SourceChange, TypeOK, Change, Times
  <2>2. source' \in [Records -> Change]
    BY <1>1, <2>1 DEF SourceChange, TypeOK
  <2>3. QED BY <1>1, <2>2 DEF SourceChange, TypeOK
<1>2. ASSUME NEW w \in Workers, NEW mode \in Modes, Start(w, mode) PROVE TypeOK'
  <2>1. worker' \in [Workers -> Worker]
    BY <1>2, StartedType DEF Start, TypeOK
  <2>2. QED BY <1>2, <2>1 DEF Start, TypeOK
<1>9. ASSUME NEW w \in Workers, Redeliver(w) PROVE TypeOK'
  <2>1. worker' \in [Workers -> Worker]
    BY <1>9, StartedType DEF Redeliver, TypeOK, Modes
  <2>2. QED BY <1>9, <2>1 DEF Redeliver, TypeOK
<1>3. ASSUME NEW w \in Workers, Fetch(w) PROVE TypeOK'
  <2> DEFINE me == worker[w]
             snapshot == IF me.snapshot = 0 THEN clock ELSE me.snapshot
             listing == IF me.snapshot = 0 THEN Listing(me.mode, me.since) ELSE me.listing
             page == {r \in listing : PageOf[r] = me.page /\ source[r].kind # "gone"}
             content == [r \in page |-> source[r]]
  <2>1. me \in Worker /\ snapshot \in Times /\ listing \in SUBSET Records
    BY DEF TypeOK, Worker, Times, Listing
  <2>2. content \in Contents
    <3>1. page \in SUBSET Records
      BY <2>1
    <3>2. content \in [page -> Change]
      BY <3>1 DEF TypeOK
    <3>3. QED BY <3>1, <3>2 DEF Contents
  <2>3. worker' = [worker EXCEPT ![w].pc = "commit", ![w].snapshot = snapshot,
                                 ![w].listing = listing, ![w].content = content]
    BY <1>3 DEF Fetch
  <2> HIDE DEF snapshot, listing, content
  <2>4. [me EXCEPT !.pc = "commit", !.snapshot = snapshot, !.listing = listing,
                   !.content = content] \in Worker
    BY <2>1, <2>2 DEF Worker
  <2>5. worker' \in [Workers -> Worker]
    BY <2>3, <2>4 DEF TypeOK
  <2>6. QED BY <1>3, <2>5 DEF Fetch, TypeOK
<1>4. ASSUME NEW w \in Workers, RejectPage(w) \/ CommitRefused(w) \/ Fail(w) PROVE TypeOK'
  BY <1>4, IdleType DEF RejectPage, CommitRefused, Fail, Abandon, TypeOK
<1>5. ASSUME NEW w \in Workers, RunEnds(w) PROVE TypeOK'
  <2>1. ASSUME NEW v \in Workers PROVE [worker[v] EXCEPT !.active = FALSE] \in Worker
    <3>1. worker[v] \in Worker
      BY DEF TypeOK
    <3>2. QED BY <3>1 DEF Worker
  <2>2. worker' \in [Workers -> Worker]
    BY <1>5, <2>1 DEF RunEnds, TypeOK
  <2>3. QED BY <1>5, <2>2 DEF RunEnds, TypeOK
<1>6. CASE UNCHANGED vars
  BY <1>6 DEF vars, TypeOK
<1>7. ASSUME NEW w \in Workers, Commit(w) PROVE TypeOK'
  <2> DEFINE me == worker[w]
  <2>1. me \in Worker /\ me.snapshot \in Times
    BY DEF TypeOK, Worker
  <2>2. binding' \in [Records -> Binding] /\ gap' \in [Records -> GapRow]
    <3> DEFINE blocked == {r \in DOMAIN me.content : me.content[r].kind # "ok"}
               final == me.page = LastPage /\ me.authoritative /\ Unreadable(me.content) = {}
               written(named) == WrittenBindings(me.content, named, me.snapshot)
               observed(named) == [r \in Records |->
                             IF r \in named THEN Observe(gap[r], me.snapshot, watermark)
                                            ELSE gap[r]]
    <3>1. PICK unnamed \in SUBSET Unreadable(me.content) :
            /\ binding' = IF final /\ me.mode = "full"
                            THEN SweptBindings(written(blocked \ unnamed), me.snapshot)
                            ELSE written(blocked \ unnamed)
            /\ gap' = IF final
                        THEN [r \in Records |-> ResolveAbsent(observed(blocked \ unnamed)[r], me.snapshot)]
                        ELSE observed(blocked \ unnamed)
      BY <1>7 DEF Commit
    <3> HIDE DEF final
    <3> DEFINE named == blocked \ unnamed
    <3> HIDE DEF named
    <3>2. \A r \in DOMAIN me.content : me.content[r] \in Change
      BY <2>1 DEF Worker, Contents
    <3>3. written(named) \in [Records -> Binding]
      BY <2>1, <3>2 DEF WrittenBindings, Seen, TypeOK, Binding, Change, States
    <3>4. SweptBindings(written(named), me.snapshot) \in [Records -> Binding]
      <4> HIDE DEF written
      <4>1. QED BY <3>3 DEF SweptBindings, Binding, States
    <3>5. observed(named) \in [Records -> GapRow]
      BY <2>1 DEF TypeOK, Observe, GapRow, Times, Never
    <3>6. \A row \in GapRow : ResolveAbsent(row, me.snapshot) \in GapRow
      BY <2>1 DEF ResolveAbsent, GapRow, Times
    <3>7. gap' \in [Records -> GapRow]
      <4> HIDE DEF observed
      <4>1. QED BY <3>1, <3>5, <3>6 DEF named
    <3>8. binding' \in [Records -> Binding]
      <4> HIDE DEF written
      <4>1. QED BY <3>1, <3>3, <3>4 DEF named
    <3>9. QED BY <3>7, <3>8
  <2>3. watermark' \in Times
    BY <1>7, <2>1 DEF Commit, Advance, TypeOK
  <2>4. checkpoint' \in [Modes -> Checkpoint]
    <3>1. ASSUME NEW authoritative \in BOOLEAN
          PROVE  NextCheckpoint(w, me.page = LastPage, authoritative) \in Checkpoint
      <4> DEFINE cursor == IF me.page = LastPage THEN 0 ELSE me.page + 1
                 highWater == IF me.page = LastPage /\ authoritative /\ me.mode = "incremental"
                                THEN me.snapshot ELSE checkpoint[me.mode].highWater
                 listing == IF me.page = LastPage THEN {} ELSE me.listing
      <4>1. cursor \in 0..LastPage
        BY <2>1 DEF Worker
      <4>2. highWater \in Times
        BY <2>1 DEF Worker, TypeOK, Checkpoint
      <4>3. listing \in SUBSET Records
        BY <2>1 DEF Worker
      <4>4. NextCheckpoint(w, me.page = LastPage, authoritative) =
              [cursor |-> cursor, snapshot |-> me.snapshot, authoritative |-> authoritative,
               highWater |-> highWater, listing |-> listing]
        BY DEF NextCheckpoint
      <4> HIDE DEF cursor, highWater, listing
      <4>5. QED BY <2>1, <4>1, <4>2, <4>3, <4>4 DEF Checkpoint
    <3>2. QED BY <1>7, <2>1, <3>1 DEF Commit, TypeOK, Worker
  <2>5. worker' \in [Workers -> Worker]
    <3>1. NoContent \in Contents
      BY IdleType DEF Idle, Worker
    <3>2. ASSUME NEW authoritative \in BOOLEAN, me.page # LastPage
          PROVE  [me EXCEPT !.pc = "fetch", !.page = me.page + 1,
                            !.authoritative = authoritative, !.content = NoContent] \in Worker
      <4>1. me.page + 1 \in 1..LastPage
        BY <2>1, <3>2 DEF Worker
      <4>2. QED BY <2>1, <3>1, <4>1 DEF Worker
    <3>3. QED BY <1>7, <2>1, <3>2, IdleType DEF Commit, TypeOK, Worker
  <2>6. front' \in Times /\ late' \subseteq Records
    <3>1. \A named : Seen(me.content, named) \subseteq Records
      BY <2>1 DEF Seen, Worker, Contents
    <3>2. QED BY <1>7, <2>1, <3>1 DEF Commit, TypeOK
  <2>7. QED BY <1>7, <2>2, <2>3, <2>4, <2>5, <2>6 DEF Commit, TypeOK
<1>8. QED BY <1>1, <1>2, <1>3, <1>4, <1>5, <1>6, <1>7, <1>9 DEF Next

\* Every state of every scope has the types.
THEOREM TypeCorrect == Spec => []TypeOK
<1>1. QED BY InitTypeOK, NextTypeOK, PTL DEF Spec

-----------------------------------------------------------------------------
(* Gap rows and the watermark move forward *)

GapsOK == \A r \in Records : RowOK(gap[r])

\* One page transaction, whatever snapshot it carries.
LEMMA CommitForward ==
  ASSUME TypeOK, GapsOK, NEW w \in Workers, Commit(w)
  PROVE  /\ watermark' >= watermark
         /\ \A r \in Records : RowOK(gap'[r]) /\ Forward(gap[r], gap'[r], watermark)
<1> DEFINE at == worker[w].snapshot
           observed(named) == [r \in Records |->
              IF r \in named THEN Observe(gap[r], at, watermark) ELSE gap[r]]
<1>1. at \in Nat /\ watermark \in Nat
  BY ScopeAssumption DEF ScopeAssumption, TypeOK, Worker, Times
<1>2. watermark' >= watermark
  BY <1>1 DEF Commit, Advance
<1>3. PICK named \in SUBSET Records :
        \/ gap' = [r \in Records |-> ResolveAbsent(observed(named)[r], at)]
        \/ gap' = observed(named)
  <2> DEFINE blocked == {r \in DOMAIN worker[w].content : worker[w].content[r].kind # "ok"}
  <2>1. PICK unnamed \in SUBSET Unreadable(worker[w].content) :
          \/ gap' = [r \in Records |-> ResolveAbsent(observed(blocked \ unnamed)[r], at)]
          \/ gap' = observed(blocked \ unnamed)
    BY DEF Commit
  <2>2. blocked \ unnamed \in SUBSET Records
    BY DEF TypeOK, Worker, Contents
  <2> HIDE DEF blocked, observed
  <2>3. QED BY <2>1, <2>2
<1>4. ASSUME NEW r \in Records
      PROVE  RowOK(gap'[r]) /\ Forward(gap[r], gap'[r], watermark)
  <2>1. RowOK(gap[r])
    BY DEF GapsOK
  <2>2. RowOK(observed(named)[r]) /\ Forward(gap[r], observed(named)[r], watermark)
    BY <1>1, <2>1, ObserveForward, StayForward
  <2>3. /\ RowOK(ResolveAbsent(observed(named)[r], at))
        /\ Forward(gap[r], ResolveAbsent(observed(named)[r], at), watermark)
    <3> HIDE DEF observed, at
    <3>1. QED BY <1>1, <2>1, <2>2, ResolveForward
  <2> HIDE DEF observed
  <2>4. QED BY <1>3, <2>2, <2>3
<1>5. QED BY <1>2, <1>4

\* Only page transactions write the gap table.
LEMMA NextForward ==
  ASSUME TypeOK, GapsOK, [Next]_vars
  PROVE  /\ GapsOK' /\ watermark' >= watermark
         /\ \A r \in Records : Forward(gap[r], gap'[r], watermark)
<1>1. ASSUME NEW w \in Workers, Commit(w) PROVE GapsOK' /\ watermark' >= watermark
         /\ \A r \in Records : Forward(gap[r], gap'[r], watermark)
  BY <1>1, CommitForward DEF GapsOK
<1>2. CASE UNCHANGED <<gap, watermark>>
  <2>1. watermark \in Nat
    BY ScopeAssumption DEF ScopeAssumption, TypeOK, Times
  <2>2. QED BY <1>2, <2>1, StayForward DEF GapsOK
<1>3. QED BY <1>1, <1>2
      DEF Next, SourceChange, Start, Redeliver, Fetch, RejectPage, CommitRefused, Fail, RunEnds, vars

\* For any number of workers, pages and records: an evaluation that finishes
\* late never moves a gap row or the watermark backwards, whatever it saw.
THEOREM GapRowsMoveForward == Spec => GapsMoveForward
<1>1. Init => GapsOK
  BY DEF Init, GapsOK, RowOK, GapRow, NoGap, Never
<1>2. TypeOK /\ GapsOK /\ [Next]_vars => GapsOK'
  BY NextForward
<1>3. TypeOK /\ GapsOK /\ [Next]_vars =>
        [/\ watermark' >= watermark
         /\ \A r \in Records :
              /\ gap[r].exists => gap'[r].exists /\ gap'[r].seen >= gap[r].seen
              /\ gap[r].resolved # Never /\ Open(gap'[r]) => gap'[r].seen >= gap[r].resolved
              /\ ~gap[r].exists /\ gap'[r].exists => gap'[r].seen >= watermark]_vars
  BY NextForward DEF Forward
<1>4. QED BY InitTypeOK, NextTypeOK, <1>1, <1>2, <1>3, PTL DEF Spec, GapsMoveForward

-----------------------------------------------------------------------------
(* A full traversal owns its checkpoint *)

ActiveFull(w) == worker[w].active /\ worker[w].mode = "full"

FullInv ==
  /\ checkpoint["full"].cursor # 1
  /\ \A w \in Workers : worker[w].active => worker[w].pc # "idle"
  /\ \A v, w \in Workers : ~redelivered /\ ActiveFull(v) /\ ActiveFull(w) => v = w
  /\ FullTraversalUndisturbed

\* A commit is an active worker's; an incremental one leaves the full
\* checkpoint alone, a full one is the only worker to care.
LEMMA NextFullInv == TypeOK /\ FullInv /\ [Next]_vars => FullInv'
<1> SUFFICES ASSUME TypeOK, FullInv, [Next]_vars PROVE FullInv'
  OBVIOUS
<1> USE ScopeAssumption
    DEF ScopeAssumption, TypeOK, Worker, Checkpoint, Modes, FullInv, ActiveFull, FullTraversalUndisturbed
<1>1. ASSUME NEW w \in Workers, NEW mode \in Modes, Start(w, mode) PROVE FullInv'
  BY <1>1 DEF Start, Started, MayStart, Idle
<1>8. ASSUME NEW w \in Workers, Redeliver(w) PROVE FullInv'
  BY <1>8 DEF Redeliver, Started, Idle
<1>2. ASSUME NEW w \in Workers, Fetch(w) PROVE FullInv'
  <2>1. /\ \A v \in Workers :
             /\ worker'[v].active = worker[v].active
             /\ worker'[v].mode = worker[v].mode
             /\ worker'[v].page = worker[v].page
             /\ v # w => worker'[v].pc = worker[v].pc
        /\ worker[w].pc # "idle" /\ worker'[w].pc # "idle"
        /\ UNCHANGED <<checkpoint, redelivered>>
    BY <1>2, SMTT(30) DEF Fetch
  <2>2. QED BY <2>1
<1>3. ASSUME NEW w \in Workers, Commit(w) PROVE FullInv'
  <2> DEFINE me == worker[w]
             terminal == me.page = LastPage
  <2>1. PICK authoritative \in BOOLEAN :
          /\ me.active /\ me.pc = "commit" /\ UNCHANGED redelivered
          /\ checkpoint' = [checkpoint EXCEPT ![me.mode] = NextCheckpoint(w, terminal, authoritative)]
          /\ worker' = [worker EXCEPT ![w] =
               IF terminal THEN Idle
               ELSE [me EXCEPT !.pc = "fetch", !.page = me.page + 1,
                               !.authoritative = authoritative, !.content = NoContent]]
    BY <1>3 DEF Commit
  <2>2. me.page \in 1..LastPage /\ me.mode \in Modes
    OBVIOUS
  <2>3. CASE me.mode = "full"
    <3>1. checkpoint'["full"].cursor = IF terminal THEN 0 ELSE me.page + 1
      BY <2>1, <2>3 DEF NextCheckpoint
    <3>2. \A v \in Workers : v # w => (redelivered \/ ~ActiveFull(v)) /\ worker'[v] = worker[v]
      BY <2>1, <2>3
    <3>3. worker'[w] = Idle \/ (~terminal /\ worker'[w].page = me.page + 1 /\ worker'[w].pc = "fetch"
                                /\ worker'[w].active /\ worker'[w].mode = "full")
      BY <2>1, <2>3
    <3>4. QED BY <2>1, <2>2, <3>1, <3>2, <3>3 DEF Idle
  <2>4. CASE me.mode = "incremental"
    <3>1. checkpoint'["full"] = checkpoint["full"]
      BY <2>1, <2>4
    <3>2. \A v \in Workers : v # w => worker'[v] = worker[v]
      BY <2>1
    <3>3. worker'[w] = Idle \/ (worker'[w].mode = "incremental" /\ worker'[w].pc = "fetch")
      BY <2>1, <2>4
    <3>4. ~ActiveFull(w)' /\ \A v \in Workers : ActiveFull(v)' => v # w /\ ActiveFull(v)
      BY <3>2, <3>3 DEF Idle
    <3>5. \A v \in Workers : worker'[v].active => worker'[v].pc # "idle"
      BY <3>2, <3>3 DEF Idle
    <3>6. \A u, v \in Workers : ~redelivered' /\ ActiveFull(u)' /\ ActiveFull(v)' => u = v
      BY <2>1, <3>4
    <3>7. FullTraversalUndisturbed'
      BY <2>1, <3>1, <3>2, <3>4
    <3>8. QED BY <3>1, <3>5, <3>6, <3>7
  <2>5. QED BY <2>2, <2>3, <2>4 DEF Modes
<1>4. ASSUME NEW w \in Workers, RejectPage(w) \/ CommitRefused(w) \/ Fail(w) PROVE FullInv'
  BY <1>4, SMTT(30) DEF RejectPage, CommitRefused, Fail, Abandon, Idle
<1>5. ASSUME NEW w \in Workers, RunEnds(w) PROVE FullInv'
  BY <1>5 DEF RunEnds, SameRun
<1>6. CASE UNCHANGED <<worker, checkpoint, redelivered>>
  BY <1>6
<1>7. QED BY <1>1, <1>2, <1>3, <1>4, <1>5, <1>6, <1>8 DEF Next, SourceChange, vars

\* For any number of workers and pages, orphans of failed runs included.
THEOREM FullTraversalOwnsCheckpoint == Spec => []FullTraversalUndisturbed
<1>1. Init => FullInv
  BY DEF Init, FullInv, ActiveFull, FullTraversalUndisturbed, NoCheckpoint, Idle, Modes
<1>2. QED BY InitTypeOK, NextTypeOK, <1>1, NextFullInv, PTL DEF Spec, FullInv

-----------------------------------------------------------------------------
(* What a page transaction writes *)

\* The effect of one page on the bindings, the checkpoint and its call, with
\* the records it names and whether the traversal stays authoritative.
PageWrites(w, named, authoritative) ==
  LET me == worker[w]
      terminal == me.page = LastPage
      ok(r) == r \in DOMAIN me.content /\ me.content[r].kind = "ok"
      seen == Seen(me.content, named)
  IN /\ me.pc = "commit" /\ me.active
     /\ authoritative <=> me.authoritative /\ Unreadable(me.content) = {}
     /\ \A r \in DOMAIN me.content : me.content[r].kind \in {"withheld", "gone"} => r \in named
     /\ \A r \in Records :
          /\ binding'[r].version = IF ok(r) THEN me.content[r].at ELSE binding[r].version
          /\ r \in seen => binding'[r].seen = me.snapshot /\ binding'[r].state \in {"active", "blocked"}
          /\ r \notin seen => /\ binding'[r].seen = binding[r].seen
                              /\ binding'[r].state \in {binding[r].state, "stale"}
                              /\ binding[r].state = "none" => binding'[r].state = "none"
          /\ binding[r].state # "stale" /\ binding'[r].state = "stale" =>
               /\ me.mode = "full" /\ terminal /\ authoritative
               /\ binding[r].state # "none" /\ binding[r].seen < me.snapshot
     /\ late' = IF me.snapshot < front THEN late \union seen ELSE late \ seen
     /\ front' = IF me.mode = "full" /\ me.snapshot > front THEN me.snapshot ELSE front
     /\ checkpoint' = [checkpoint EXCEPT ![me.mode] = NextCheckpoint(w, terminal, authoritative)]
     /\ worker' = [worker EXCEPT ![w] =
          IF terminal THEN Idle
          ELSE [me EXCEPT !.pc = "fetch", !.page = me.page + 1,
                          !.authoritative = authoritative, !.content = NoContent]]
     /\ UNCHANGED <<clock, source>>

\* A blocked binding keeps its content version.
LEMMA Blocked ==
  ASSUME NEW x \in Binding, NEW snapshot
  PROVE  [x EXCEPT !.state = "blocked", !.seen = snapshot] =
           [state |-> "blocked", version |-> x.version, seen |-> snapshot]
<1> DEFINE y == [state |-> "blocked", version |-> x.version, seen |-> x.seen]
<1>1. [x EXCEPT !.state = "blocked"] = y
  BY DEF Binding
<1>2. [y EXCEPT !.seen = snapshot] =
        [state |-> "blocked", version |-> x.version, seen |-> snapshot]
  OBVIOUS
<1> HIDE DEF y
<1>3. QED BY <1>1, <1>2

\* What the sweep makes of one binding.
LEMMA Swept ==
  ASSUME NEW written, NEW snapshot \in Nat, NEW r \in Records, written[r] \in Binding
  PROVE  LET b == SweptBindings(written, snapshot)[r] IN
         /\ b.version = written[r].version /\ b.seen = written[r].seen
         /\ b.state \in {written[r].state, "stale"}
         /\ b.state # written[r].state =>
              written[r].state \in {"active", "blocked"} /\ written[r].seen < snapshot
<1>1. SweptBindings(written, snapshot)[r] =
        IF written[r].state \in {"active", "blocked"} /\ written[r].seen < snapshot
          THEN [written[r] EXCEPT !.state = "stale"] ELSE written[r]
  BY DEF SweptBindings
<1>2. [written[r] EXCEPT !.state = "stale"] =
        [state |-> "stale", version |-> written[r].version, seen |-> written[r].seen]
  BY DEF Binding
<1>3. QED BY <1>1, <1>2

\* Sweep or no sweep, a record keeps what the page wrote of it.
LEMMA WrittenAndSwept ==
  ASSUME TypeOK, NEW content \in Contents, NEW named, NEW snapshot \in Times, NEW r \in Records,
         NEW b, \/ b = WrittenBindings(content, named, snapshot)
                \/ b = SweptBindings(WrittenBindings(content, named, snapshot), snapshot)
  PROVE  /\ b[r].version = IF r \in DOMAIN content /\ content[r].kind = "ok"
                             THEN content[r].at ELSE binding[r].version
         /\ r \in Seen(content, named) =>
              b[r].seen = snapshot /\ b[r].state \in {"active", "blocked"}
         /\ r \notin Seen(content, named) =>
              /\ b[r].seen = binding[r].seen
              /\ b[r].state \in {binding[r].state, "stale"}
              /\ binding[r].state = "none" => b[r].state = "none"
         /\ binding[r].state # "stale" /\ b[r].state = "stale" =>
              /\ b # WrittenBindings(content, named, snapshot)
              /\ binding[r].state # "none" /\ binding[r].seen < snapshot
<1> DEFINE written == WrittenBindings(content, named, snapshot)
<1>1. binding[r] \in Binding /\ snapshot \in Nat /\ binding[r].seen \in Nat
  BY ScopeAssumption DEF ScopeAssumption, TypeOK, Times, Binding
<1>2. CASE r \in Seen(content, named)
  <2>1. written[r] = IF content[r].kind = "ok"
          THEN [state |-> "active", version |-> content[r].at, seen |-> snapshot]
          ELSE [state |-> "blocked", version |-> binding[r].version, seen |-> snapshot]
    BY <1>1, <1>2, Blocked DEF WrittenBindings
  <2>2. r \in DOMAIN content /\ content[r] \in Change
    BY <1>2 DEF Seen, Contents
  <2>3. written[r] \in Binding
    BY <1>1, <2>1, <2>2 DEF Binding, Change, States
  <2>4. /\ written[r].version = IF content[r].kind = "ok" THEN content[r].at ELSE binding[r].version
        /\ written[r].seen = snapshot
        /\ written[r].state \in {"active", "blocked"}
    BY <2>1
  <2> HIDE DEF written
  <2>5. b[r].version = written[r].version /\ b[r].seen = snapshot /\ b[r].state = written[r].state
    <3>1. CASE b = written
      BY <2>4, <3>1
    <3>2. CASE b = SweptBindings(written, snapshot)
      BY <1>1, <2>3, <2>4, <3>2, Swept
    <3>3. QED BY <3>1, <3>2 DEF written
  <2>6. QED BY <1>2, <2>2, <2>4, <2>5
<1>3. CASE r \notin Seen(content, named)
  <2>1. written[r] = binding[r]
    BY <1>3 DEF WrittenBindings
  <2>2. ~(r \in DOMAIN content /\ content[r].kind = "ok")
    BY <1>3 DEF Seen
  <2> HIDE DEF written
  <2>3. CASE b = written
    BY <1>3, <2>1, <2>2, <2>3 DEF written
  <2>4. CASE b # written
    <3>1. b = SweptBindings(written, snapshot)
      BY <2>4 DEF written
    <3>2. /\ b[r].version = binding[r].version /\ b[r].seen = binding[r].seen
          /\ b[r].state \in {binding[r].state, "stale"}
          /\ b[r].state # binding[r].state =>
               binding[r].state \in {"active", "blocked"} /\ binding[r].seen < snapshot
      BY <1>1, <2>1, <3>1, Swept
    <3>3. QED BY <1>3, <2>2, <2>4, <3>2 DEF written
  <2>5. QED BY <2>3, <2>4
<1>4. QED BY <1>2, <1>3

\* Every commit is such a page, for some choice of records without an id.
LEMMA CommitWrites ==
  ASSUME TypeOK, NEW w \in Workers, Commit(w)
  PROVE  \E named \in SUBSET Records, authoritative \in BOOLEAN : PageWrites(w, named, authoritative)
<1> DEFINE me == worker[w]
           blocked == {r \in DOMAIN me.content : me.content[r].kind # "ok"}
           authoritative == me.authoritative /\ Unreadable(me.content) = {}
           final == me.page = LastPage /\ authoritative
<1>1. me \in Worker
  BY DEF TypeOK
<1>2. PICK unnamed \in SUBSET Unreadable(me.content) :
        /\ binding' = IF final /\ me.mode = "full"
             THEN SweptBindings(WrittenBindings(me.content, blocked \ unnamed, me.snapshot), me.snapshot)
             ELSE WrittenBindings(me.content, blocked \ unnamed, me.snapshot)
        /\ late' = IF me.snapshot < front THEN late \union Seen(me.content, blocked \ unnamed)
                                          ELSE late \ Seen(me.content, blocked \ unnamed)
  BY DEF Commit
<1> DEFINE named == blocked \ unnamed
<1>3. named \in SUBSET Records /\ me.content \in Contents /\ me.snapshot \in Times
  BY <1>1 DEF Worker, Contents
<1>4. authoritative \in BOOLEAN
  BY <1>1 DEF Worker
<1>5. \A r \in DOMAIN me.content : me.content[r].kind \in {"withheld", "gone"} => r \in named
  BY DEF Unreadable
<1>6. /\ me.pc = "commit" /\ me.active
      /\ front' = IF me.mode = "full" /\ me.snapshot > front THEN me.snapshot ELSE front
      /\ checkpoint' = [checkpoint EXCEPT ![me.mode] =
                          NextCheckpoint(w, me.page = LastPage, authoritative)]
      /\ worker' = [worker EXCEPT ![w] =
           IF me.page = LastPage THEN Idle
           ELSE [me EXCEPT !.pc = "fetch", !.page = me.page + 1,
                           !.authoritative = authoritative, !.content = NoContent]]
      /\ UNCHANGED <<clock, source>>
  BY DEF Commit
<1> HIDE DEF named
<1>7. ASSUME NEW r \in Records
      PROVE  /\ binding'[r].version = IF r \in DOMAIN me.content /\ me.content[r].kind = "ok"
                                        THEN me.content[r].at ELSE binding[r].version
             /\ r \in Seen(me.content, named) =>
                  binding'[r].seen = me.snapshot /\ binding'[r].state \in {"active", "blocked"}
             /\ r \notin Seen(me.content, named) =>
                  /\ binding'[r].seen = binding[r].seen
                  /\ binding'[r].state \in {binding[r].state, "stale"}
                  /\ binding[r].state = "none" => binding'[r].state = "none"
             /\ binding[r].state # "stale" /\ binding'[r].state = "stale" =>
                  /\ binding' # WrittenBindings(me.content, named, me.snapshot)
                  /\ binding[r].state # "none" /\ binding[r].seen < me.snapshot
  <2> HIDE DEF final
  <2>1. \/ binding' = WrittenBindings(me.content, named, me.snapshot)
        \/ binding' = SweptBindings(WrittenBindings(me.content, named, me.snapshot), me.snapshot)
    BY <1>2 DEF named
  <2> HIDE DEF me
  <2>2. QED BY <1>3, <2>1, WrittenAndSwept
<1>8. binding' # WrittenBindings(me.content, named, me.snapshot) =>
        me.mode = "full" /\ me.page = LastPage /\ authoritative
  BY <1>2 DEF named
<1> HIDE DEF authoritative, final
<1>9. PageWrites(w, named, authoritative)
  BY <1>2, <1>5, <1>6, <1>7, <1>8 DEF PageWrites, named, authoritative
<1>10. QED BY <1>3, <1>4, <1>9

-----------------------------------------------------------------------------
(* What a traversal knows of the provider *)

\* A listed record is there until something newer than the snapshot happens.
Listed(snapshot, listing) ==
  /\ snapshot <= clock
  /\ \A r \in listing : source[r].at <= snapshot => source[r].kind # "gone"

\* A page in hand: what has not changed since the snapshot is in it as it is,
\* anything else is at most older than the source.
PageRead(call) ==
  /\ call.snapshot # 0
  /\ \A r \in DOMAIN call.content :
       /\ call.content[r].at <= source[r].at
       /\ source[r].at <= call.snapshot => call.content[r] = source[r]
  /\ \A r \in call.listing :
       PageOf[r] = call.page /\ source[r].at <= call.snapshot => r \in DOMAIN call.content

VersionOK(r) == binding[r].version <= source[r].at /\ source[r].at <= clock

CallOK(call) ==
  /\ Listed(call.snapshot, call.listing)
  /\ call.snapshot = 0 => call.page = 1
  /\ call.pc = "commit" => PageRead(call)

RowOfModeOK(c) ==
  /\ Listed(c.snapshot, c.listing)
  /\ c.cursor # 0 => c.snapshot # 0
  /\ c.highWater <= clock

SnapshotInv ==
  /\ \A r \in Records : VersionOK(r)
  /\ \A w \in Workers : CallOK(worker[w])
  /\ \A m \in Modes : RowOfModeOK(checkpoint[m])

\* The provider moves on: nothing a snapshot covers is touched.
LEMMA ListedStays ==
  ASSUME TypeOK, NEW r \in Records, NEW kind \in Kinds, SourceChange(r, kind),
         NEW snapshot \in Times, NEW listing \in SUBSET Records, Listed(snapshot, listing)
  PROVE  /\ snapshot <= clock'
         /\ \A q \in Records : source'[q].at <= snapshot => source'[q] = source[q]
         /\ \A q \in Records : source'[q].at >= source[q].at \/ source[q].at > clock
         /\ \A q \in listing : source'[q].at <= snapshot => source'[q].kind # "gone"
<1>1. clock \in Nat /\ snapshot \in Nat /\ clock' = clock + 1 /\ snapshot <= clock
  BY ScopeAssumption DEF ScopeAssumption, TypeOK, Times, SourceChange, Listed
<1>2. /\ source'[r] = [kind |-> kind, at |-> clock + 1]
      /\ \A q \in Records : q # r => source'[q] = source[q]
  BY DEF SourceChange, TypeOK
<1>3. \A q \in Records : source[q].at \in Nat
  BY ScopeAssumption DEF ScopeAssumption, TypeOK, Change, Times
<1>4. \A q \in Records : source'[q].at <= snapshot => source'[q] = source[q]
  BY <1>1, <1>2
<1>5. \A q \in Records : source'[q].at >= source[q].at \/ source[q].at > clock
  BY <1>1, <1>2, <1>3
<1>6. QED BY <1>1, <1>4, <1>5 DEF Listed

\* Every step keeps what the traversals know true.
LEMMA NextSnapshotInv ==
  ASSUME TypeOK, SnapshotInv, [Next]_vars
  PROVE  SnapshotInv'
<1>1. ASSUME NEW r \in Records, NEW kind \in Kinds, SourceChange(r, kind) PROVE SnapshotInv'
  <2>1. /\ \A q \in Records : source[q].at <= clock /\ source'[q].at >= source[q].at
        /\ \A q \in Records : source'[q].at <= clock'
        /\ clock' >= clock
    <3>1. \A q \in Records : source[q].at <= clock /\ source[q].at \in Nat /\ clock \in Nat
      BY ScopeAssumption DEF ScopeAssumption, TypeOK, Change, Times, SnapshotInv, VersionOK
    <3>2. QED BY <1>1, <3>1 DEF SourceChange, TypeOK
  <2>2. \A q \in Records : VersionOK(q)'
    <3>1. \A q \in Records : binding[q].version \in Nat /\ source'[q].at \in Nat /\ source[q].at \in Nat
      BY NextTypeOK, ScopeAssumption DEF ScopeAssumption, TypeOK, Binding, Change, Times
    <3>2. QED BY <1>1, <2>1, <3>1 DEF SnapshotInv, VersionOK, SourceChange
  <2>3. ASSUME NEW w \in Workers PROVE CallOK(worker[w])'
    <3>1. /\ worker[w] \in Worker /\ worker'[w] = worker[w]
          /\ worker[w].snapshot \in Times /\ worker[w].listing \in SUBSET Records
          /\ worker[w].pc = "commit" => DOMAIN worker[w].content \subseteq Records
      BY <1>1 DEF SourceChange, TypeOK, Worker, Contents
    <3>2. CallOK(worker[w])
      BY DEF SnapshotInv
    <3>3. Listed(worker[w].snapshot, worker[w].listing)
      BY <3>2 DEF CallOK
    <3>4. /\ \A q \in Records : source'[q].at <= worker[w].snapshot => source'[q] = source[q]
          /\ worker[w].snapshot <= clock'
          /\ \A q \in worker[w].listing : source'[q].at <= worker[w].snapshot => source'[q].kind # "gone"
      BY <1>1, <3>1, <3>3, ListedStays
    <3>5. Listed(worker[w].snapshot, worker[w].listing)'
      BY <3>1, <3>4 DEF Listed
    <3>6. ASSUME worker[w].pc = "commit" PROVE PageRead(worker[w])'
      <4>1. PageRead(worker[w])
        BY <3>2, <3>6 DEF CallOK
      <4>2. ASSUME NEW q \in DOMAIN worker[w].content
            PROVE  worker[w].content[q].at <= source'[q].at
        <5>1. q \in Records /\ worker[w].content[q] \in Change
          BY <3>1, <3>6 DEF Worker, Contents
        <5>2. /\ worker[w].content[q].at \in Nat /\ source[q].at \in Nat /\ source'[q].at \in Nat
          BY <5>1, NextTypeOK, ScopeAssumption DEF ScopeAssumption, TypeOK, Change, Times
        <5>3. QED BY <2>1, <4>1, <5>1, <5>2 DEF PageRead
      <4>3. QED BY <3>1, <3>4, <3>6, <4>1, <4>2 DEF PageRead
    <3>7. QED BY <3>1, <3>2, <3>5, <3>6 DEF CallOK
  <2>4. ASSUME NEW m \in Modes PROVE RowOfModeOK(checkpoint[m])'
    <3>1. /\ checkpoint[m] \in Checkpoint /\ checkpoint' = checkpoint
          /\ RowOfModeOK(checkpoint[m])
      BY <1>1 DEF SourceChange, TypeOK, SnapshotInv
    <3>2. checkpoint[m].snapshot \in Times /\ checkpoint[m].listing \in SUBSET Records
          /\ Listed(checkpoint[m].snapshot, checkpoint[m].listing)
      BY <3>1 DEF Checkpoint, RowOfModeOK
    <3>3. /\ checkpoint[m].snapshot <= clock'
          /\ \A q \in checkpoint[m].listing :
               source'[q].at <= checkpoint[m].snapshot => source'[q].kind # "gone"
      BY <1>1, <3>2, ListedStays
    <3>4. checkpoint[m].highWater <= clock'
      <4>1. checkpoint[m].highWater \in Nat /\ clock \in Nat /\ clock' \in Nat
        BY <1>1, <3>1, ScopeAssumption DEF ScopeAssumption, Checkpoint, Times, TypeOK, SourceChange
      <4>2. QED BY <2>1, <3>1, <4>1 DEF RowOfModeOK
    <3>5. QED BY <3>1, <3>3, <3>4 DEF RowOfModeOK, Listed
  <2>5. QED BY <2>2, <2>3, <2>4 DEF SnapshotInv
<1>2. ASSUME UNCHANGED <<clock, source, binding, checkpoint>>,
             \A w \in Workers : CallOK(worker[w]) => CallOK(worker'[w])
      PROVE  SnapshotInv'
  BY <1>2 DEF SnapshotInv, VersionOK, CallOK, RowOfModeOK, Listed, PageRead
<1>3. CallOK(Idle)
  BY ScopeAssumption DEF CallOK, Idle, Listed, TypeOK, ScopeAssumption
<1>4. ASSUME NEW mode \in Modes PROVE CallOK(Started(mode))
  <2>1. RowOfModeOK(checkpoint[mode])
    BY DEF SnapshotInv
  <2>2. CASE checkpoint[mode].cursor = 0
    <3>1. /\ Started(mode).pc = "fetch" /\ Started(mode).page = 1
          /\ Started(mode).snapshot = 0 /\ Started(mode).listing = {}
      BY <2>2 DEF Started, Idle
    <3>2. QED BY <1>3, <3>1 DEF CallOK, Listed, Idle
  <2>3. CASE checkpoint[mode].cursor # 0
    <3>1. /\ Started(mode).pc = "fetch"
          /\ Started(mode).snapshot = checkpoint[mode].snapshot
          /\ Started(mode).listing = checkpoint[mode].listing
      BY <2>3 DEF Started, Idle
    <3>2. QED BY <2>1, <2>3, <3>1 DEF CallOK, RowOfModeOK
  <2>4. QED BY <2>2, <2>3
<1>5. ASSUME NEW w \in Workers, NEW mode \in Modes, Start(w, mode) PROVE SnapshotInv'
  <2>1. \A v \in Workers : worker'[v] = worker[v] \/ worker'[v] = Started(mode)
    BY <1>5 DEF Start, TypeOK
  <2>2. QED BY <1>2, <1>4, <1>5, <2>1 DEF Start
<1>6. ASSUME NEW w \in Workers, Redeliver(w) PROVE SnapshotInv'
  <2>1. \A v \in Workers : worker'[v] = worker[v] \/ worker'[v] = Started("full")
    BY <1>6 DEF Redeliver, TypeOK
  <2>2. QED BY <1>2, <1>4, <1>6, <2>1 DEF Redeliver, Modes
<1>7. ASSUME NEW w \in Workers, Fetch(w) PROVE SnapshotInv'
  <2> DEFINE me == worker[w]
             snapshot == IF me.snapshot = 0 THEN clock ELSE me.snapshot
             listing == IF me.snapshot = 0 THEN Listing(me.mode, me.since) ELSE me.listing
             page == {r \in listing : PageOf[r] = me.page /\ source[r].kind # "gone"}
             content == [r \in page |-> source[r]]
  <2>1. /\ worker' = [worker EXCEPT ![w].pc = "commit", ![w].snapshot = snapshot,
                                    ![w].listing = listing, ![w].content = content]
        /\ UNCHANGED <<clock, source, binding, checkpoint>>
    BY <1>7 DEF Fetch
  <2>2. me \in Worker /\ CallOK(me) /\ clock \in Nat /\ clock # 0
    BY ScopeAssumption DEF TypeOK, SnapshotInv, ScopeAssumption
  <2>3. listing \in SUBSET Records /\ snapshot \in Nat /\ snapshot # 0
    BY <2>2, ScopeAssumption DEF ScopeAssumption, Worker, Times, Listing
  <2>4. Listed(snapshot, listing)
    BY <2>2 DEF CallOK, Listed, Listing
  <2>5. /\ DOMAIN content = page
        /\ \A r \in page : content[r] = source[r]
    OBVIOUS
  <2>6. \A r \in listing : PageOf[r] = me.page /\ source[r].at <= snapshot => r \in page
    BY <2>4 DEF Listed
  <2>7. \A r \in page : source[r].at \in Nat
    BY <2>3, ScopeAssumption DEF ScopeAssumption, TypeOK, Change, Times
  <2> HIDE DEF snapshot, listing, content, page
  <2>8. /\ worker'[w].pc = "commit" /\ worker'[w].snapshot = snapshot /\ worker'[w].page = me.page
        /\ worker'[w].listing = listing /\ worker'[w].content = content
        /\ \A v \in Workers : v # w => worker'[v] = worker[v]
    BY <2>1 DEF TypeOK, Worker
  <2>9. CallOK(worker'[w])
    BY <2>3, <2>4, <2>5, <2>6, <2>7, <2>8 DEF CallOK, PageRead
  <2>10. QED BY <1>2, <2>1, <2>8, <2>9
<1>8. ASSUME NEW w \in Workers, RejectPage(w) \/ CommitRefused(w) \/ Fail(w) PROVE SnapshotInv'
  <2>1. \A v \in Workers : worker'[v] = worker[v] \/ worker'[v] = Idle
    BY <1>8 DEF RejectPage, CommitRefused, Fail, Abandon, TypeOK
  <2>2. QED BY <1>2, <1>3, <1>8, <2>1 DEF RejectPage, CommitRefused, Fail
<1>9. ASSUME NEW w \in Workers, RunEnds(w) PROVE SnapshotInv'
  <2>1. ASSUME NEW v \in Workers PROVE CallOK(worker[v]) => CallOK(worker'[v])
    <3>1. worker'[v] = worker[v] \/ worker'[v] = [worker[v] EXCEPT !.active = FALSE]
      BY <1>9 DEF RunEnds
    <3>2. worker[v] \in Worker
      BY DEF TypeOK
    <3>3. QED BY <3>1, <3>2 DEF CallOK, PageRead, Worker
  <2>2. QED BY <1>2, <1>9, <2>1 DEF RunEnds
<1>10. ASSUME NEW w \in Workers, Commit(w) PROVE SnapshotInv'
  <2> DEFINE me == worker[w]
  <2>1. PICK named \in SUBSET Records, authoritative \in BOOLEAN : PageWrites(w, named, authoritative)
    BY <1>10, CommitWrites
  <2>2. me \in Worker /\ CallOK(me) /\ PageRead(me) /\ UNCHANGED <<clock, source>>
    BY <2>1 DEF TypeOK, SnapshotInv, CallOK, PageWrites
  <2>3. ASSUME NEW r \in Records PROVE VersionOK(r)'
    <3>1. VersionOK(r)
      BY DEF SnapshotInv
    <3>2. \/ binding'[r].version = binding[r].version
          \/ r \in DOMAIN me.content /\ binding'[r].version = me.content[r].at
      BY <2>1 DEF PageWrites
    <3>3. QED BY <2>2, <3>1, <3>2 DEF VersionOK, PageRead
  <2>4. ASSUME NEW v \in Workers PROVE CallOK(worker[v])'
    <3>1. CASE worker'[v] = worker[v]
      BY <2>2, <3>1 DEF SnapshotInv, CallOK, Listed, PageRead
    <3>2. CASE worker'[v] = Idle
      BY <1>3, <2>2, <3>2 DEF CallOK, Listed, PageRead, Idle
    <3>3. CASE worker'[v] # worker[v] /\ worker'[v] # Idle
      <4>1. worker'[v] = [me EXCEPT !.pc = "fetch", !.page = me.page + 1,
                                    !.authoritative = authoritative, !.content = NoContent]
        BY <2>1, <3>3 DEF PageWrites, TypeOK
      <4>2. /\ worker'[v].snapshot = me.snapshot /\ worker'[v].listing = me.listing
            /\ worker'[v].pc = "fetch"
        BY <2>2, <4>1 DEF Worker
      <4>3. QED BY <2>2, <4>2 DEF CallOK, Listed, PageRead
    <3>4. QED BY <3>1, <3>2, <3>3
  <2>5. ASSUME NEW m \in Modes PROVE RowOfModeOK(checkpoint[m])'
    <3>1. RowOfModeOK(checkpoint[m]) /\ RowOfModeOK(checkpoint[me.mode])
      BY <2>2 DEF SnapshotInv, Worker
    <3>2. CASE checkpoint'[m] = checkpoint[m]
      BY <2>2, <3>1, <3>2 DEF RowOfModeOK, Listed
    <3>3. CASE checkpoint'[m] # checkpoint[m]
      <4> DEFINE terminal == me.page = LastPage
      <4>1. checkpoint'[m] = NextCheckpoint(w, terminal, authoritative)
        BY <2>1, <3>3 DEF PageWrites, TypeOK
      <4>2. /\ checkpoint'[m].snapshot = me.snapshot /\ me.snapshot # 0
            /\ checkpoint'[m].listing \in {{}, me.listing}
            /\ checkpoint'[m].highWater \in {me.snapshot, checkpoint[me.mode].highWater}
        BY <2>2, <4>1 DEF NextCheckpoint, PageRead
      <4>3. /\ me.snapshot <= clock
            /\ \A r \in me.listing : source[r].at <= me.snapshot => source[r].kind # "gone"
            /\ checkpoint[me.mode].highWater <= clock
        BY <2>2, <3>1 DEF CallOK, Listed, RowOfModeOK
      <4>4. QED BY <2>2, <4>2, <4>3 DEF RowOfModeOK, Listed
    <3>4. QED BY <3>2, <3>3
  <2>6. QED BY <2>3, <2>4, <2>5 DEF SnapshotInv
<1>11. CASE UNCHANGED vars
  BY <1>2, <1>11 DEF vars
<1>12. QED BY <1>1, <1>5, <1>6, <1>7, <1>8, <1>9, <1>10, <1>11 DEF Next

\* Of the types, what the arithmetic of snapshots needs.
LEMMA SnapshotTypes ==
  ASSUME TypeOK
  PROVE  /\ clock \in Nat /\ front \in Nat
         /\ \A r \in Records : /\ source[r].at \in Nat /\ PageOf[r] \in Nat
                               /\ binding[r].version \in Nat /\ binding[r].seen \in Nat
         /\ \A w \in Workers : /\ worker[w].snapshot \in Nat /\ worker[w].since \in Nat
                               /\ worker[w].page \in 1..LastPage
                               /\ worker[w].listing \in SUBSET Records
                               /\ DOMAIN worker[w].content \in SUBSET Records
         /\ \A m \in Modes : /\ checkpoint[m].snapshot \in Nat /\ checkpoint[m].highWater \in Nat
                             /\ checkpoint[m].cursor \in 0..LastPage
                             /\ checkpoint[m].listing \in SUBSET Records
<1> USE ScopeAssumption DEF ScopeAssumption, Times
<1>1. clock \in Nat /\ front \in Nat
  BY DEF TypeOK
<1>2. \A r \in Records : /\ source[r].at \in Nat /\ PageOf[r] \in Nat
                         /\ binding[r].version \in Nat /\ binding[r].seen \in Nat
  BY DEF TypeOK, Change, Binding
<1>3. \A w \in Workers : /\ worker[w].snapshot \in Nat /\ worker[w].since \in Nat
                         /\ worker[w].page \in 1..LastPage
                         /\ worker[w].listing \in SUBSET Records
  BY DEF TypeOK, Worker
<1>4. \A w \in Workers : DOMAIN worker[w].content \in SUBSET Records
  BY DEF TypeOK, Worker, Contents
<1>5. \A m \in Modes : /\ checkpoint[m].snapshot \in Nat /\ checkpoint[m].highWater \in Nat
                       /\ checkpoint[m].cursor \in 0..LastPage
                       /\ checkpoint[m].listing \in SUBSET Records
  BY DEF TypeOK, Checkpoint
<1>6. QED BY <1>1, <1>2, <1>3, <1>4, <1>5

-----------------------------------------------------------------------------
(* Only absent records go stale *)

\* What a full traversal that has come to a page may rely on: every record it
\* listed on an earlier page, and that has not changed since, has no live
\* binding, or one that it or a newer page has seen, or was seen late.
Kept(t, page) ==
  /\ page > 1 => front >= t.snapshot
  /\ t.authoritative =>
       \A r \in t.listing :
         source[r].at <= t.snapshot /\ PageOf[r] < page =>
           \/ r \in late
           \/ binding[r].state \in {"none", "stale"}
           \/ binding[r].seen >= t.snapshot

SweepInv ==
  /\ \A w \in Workers : worker[w].mode = "full" => Kept(worker[w], worker[w].page)
  /\ checkpoint["full"].cursor # 0 => Kept(checkpoint["full"], checkpoint["full"].cursor)

\* A listed record of the page in hand that has not changed since the snapshot
\* is written by the page, unless it has no binding yet or is unreadable.
LEMMA PageSees ==
  ASSUME TypeOK, SnapshotInv, NEW w \in Workers, NEW named, NEW authoritative,
         PageWrites(w, named, authoritative), authoritative,
         NEW r \in worker[w].listing, PageOf[r] = worker[w].page,
         source[r].at <= worker[w].snapshot
  PROVE  /\ r \in DOMAIN worker[w].content /\ worker[w].content[r] = source[r]
         /\ r \in Seen(worker[w].content, named) \/ binding[r].state = "none"
         /\ source[r].kind \in {"ok", "withheld"}
<1> DEFINE me == worker[w]
<1>1. PageRead(me) /\ Listed(me.snapshot, me.listing) /\ r \in Records
  BY SnapshotTypes DEF PageWrites, SnapshotInv, CallOK
<1>2. r \in DOMAIN me.content /\ me.content[r] = source[r] /\ source[r].kind # "gone"
  BY <1>1 DEF PageRead, Listed
<1>3. source[r].kind \in {"ok", "withheld"}
  <2>1. Unreadable(me.content) = {}
    BY DEF PageWrites
  <2>2. source[r].kind # "unreadable"
    BY <1>2, <2>1 DEF Unreadable
  <2>3. source[r] \in Change
    BY <1>1 DEF TypeOK
  <2>4. QED BY <1>2, <2>2, <2>3 DEF Change, Kinds
<1>4. source[r].kind = "withheld" => r \in named
  BY <1>2 DEF PageWrites
<1>5. QED BY <1>2, <1>3, <1>4 DEF Seen

\* A page of one call leaves what the others rely on true.
LEMMA CommitKept ==
  ASSUME TypeOK, NEW w \in Workers, NEW named, NEW authoritative,
         PageWrites(w, named, authoritative),
         NEW snapshot \in Nat, NEW r \in Records, front >= snapshot,
         \/ r \in late
         \/ binding[r].state \in {"none", "stale"}
         \/ binding[r].seen >= snapshot
  PROVE  \/ r \in late'
         \/ binding'[r].state \in {"none", "stale"}
         \/ binding'[r].seen >= snapshot
<1>1. worker[w].snapshot \in Nat /\ front \in Nat /\ binding[r].seen \in Nat
  BY SnapshotTypes
<1>2. CASE r \in Seen(worker[w].content, named)
  BY <1>1, <1>2 DEF PageWrites
<1>3. CASE r \notin Seen(worker[w].content, named)
  <2>1. /\ binding'[r].seen = binding[r].seen
        /\ binding'[r].state \in {binding[r].state, "stale"}
        /\ r \in late => r \in late'
    BY <1>3 DEF PageWrites
  <2>2. QED BY <2>1
<1>4. QED BY <1>2, <1>3

\* The front only advances, and covers the full page that commits.
LEMMA FrontForward ==
  ASSUME TypeOK, NEW w \in Workers, NEW named, NEW authoritative,
         PageWrites(w, named, authoritative)
  PROVE  /\ UNCHANGED source
         /\ front' >= front
         /\ worker[w].mode = "full" => front' >= worker[w].snapshot
<1>1. worker[w].snapshot \in Nat /\ front \in Nat
  BY SnapshotTypes
<1>2. QED BY <1>1 DEF PageWrites

\* Every step keeps what the full traversals rely on.
LEMMA NextSweepInv ==
  ASSUME TypeOK, SnapshotInv, SweepInv, [Next]_vars
  PROVE  SweepInv'
<1>1. ASSUME NEW r \in Records, NEW kind \in Kinds, SourceChange(r, kind) PROVE SweepInv'
  <2>1. UNCHANGED <<binding, checkpoint, worker, front, late>>
    BY <1>1 DEF SourceChange
  <2>2. ASSUME NEW snapshot \in Nat, NEW listing \in SUBSET Records, Listed(snapshot, listing)
        PROVE  \A q \in listing : source'[q].at <= snapshot => source[q].at <= snapshot
    <3>1. snapshot \in Times
      BY <2>2, ScopeAssumption DEF ScopeAssumption, Listed, TypeOK, Times
    <3>2. QED BY <1>1, <2>2, <3>1, ListedStays
  <2>3. \A w \in Workers : worker[w].mode = "full" => Kept(worker[w], worker[w].page)'
    <3>1. ASSUME NEW w \in Workers, worker[w].mode = "full" PROVE Kept(worker[w], worker[w].page)'
      <4>1. Kept(worker[w], worker[w].page) /\ Listed(worker[w].snapshot, worker[w].listing)
        BY <3>1 DEF SweepInv, SnapshotInv, CallOK
      <4>2. \A q \in worker[w].listing :
              source'[q].at <= worker[w].snapshot => source[q].at <= worker[w].snapshot
        BY <2>2, <4>1, SnapshotTypes
      <4>3. QED BY <2>1, <4>1, <4>2 DEF Kept
    <3>2. QED BY <3>1
  <2>4. checkpoint["full"].cursor # 0 => Kept(checkpoint["full"], checkpoint["full"].cursor)'
    <3> DEFINE c == checkpoint["full"]
    <3>1. Listed(c.snapshot, c.listing) /\ c.snapshot \in Nat /\ c.listing \in SUBSET Records
      BY SnapshotTypes DEF SnapshotInv, RowOfModeOK, Modes
    <3>2. \A q \in c.listing : source'[q].at <= c.snapshot => source[q].at <= c.snapshot
      BY <2>2, <3>1
    <3>3. QED BY <2>1, <3>2 DEF Kept, SweepInv
  <2>5. QED BY <2>1, <2>3, <2>4 DEF SweepInv
<1>2. ASSUME UNCHANGED <<source, binding, checkpoint, front, late>>,
             \A w \in Workers : worker'[w].mode = "full" =>
                Kept(worker'[w], worker'[w].page) \/ (worker[w].mode = "full"
                   /\ (Kept(worker[w], worker[w].page) => Kept(worker'[w], worker'[w].page)))
      PROVE  SweepInv'
  BY <1>2 DEF SweepInv, Kept
<1>3. Kept(Idle, Idle.page)
  BY DEF Kept, Idle
<1>4. Kept(Started("full"), Started("full").page)
  <2> DEFINE c == checkpoint["full"]
  <2>1. CASE c.cursor = 0
    <3>1. Started("full").page = 1 /\ Started("full").listing = {}
      BY <2>1 DEF Started, Idle
    <3>2. QED BY <3>1 DEF Kept
  <2>2. CASE c.cursor # 0
    <3>1. /\ Started("full").page = c.cursor /\ Started("full").listing = c.listing
          /\ Started("full").snapshot = c.snapshot
          /\ Started("full").authoritative = c.authoritative
      BY <2>2 DEF Started, Idle
    <3>2. QED BY <2>2, <3>1 DEF Kept, SweepInv
  <2>3. QED BY <2>1, <2>2
<1>5. ASSUME NEW w \in Workers, NEW mode \in Modes, Start(w, mode) PROVE SweepInv'
  <2>1. \A v \in Workers : \/ worker'[v] = worker[v]
                           \/ worker'[v] = Started(mode)
    BY <1>5 DEF Start, TypeOK
  <2>2. Started(mode).mode = mode
    BY DEF Started, Idle
  <2>3. QED BY <1>2, <1>4, <1>5, <2>1, <2>2 DEF Start
<1>6. ASSUME NEW w \in Workers, Redeliver(w) PROVE SweepInv'
  <2>1. \A v \in Workers : worker'[v] = worker[v] \/ worker'[v] = Started("full")
    BY <1>6 DEF Redeliver, TypeOK
  <2>2. QED BY <1>2, <1>4, <1>6, <2>1 DEF Redeliver
<1>7. ASSUME NEW w \in Workers, Fetch(w) PROVE SweepInv'
  <2> DEFINE me == worker[w]
  <2>1. /\ worker'[w].mode = me.mode /\ worker'[w].page = me.page
        /\ worker'[w].authoritative = me.authoritative
        /\ me.snapshot # 0 => worker'[w].snapshot = me.snapshot /\ worker'[w].listing = me.listing
        /\ worker'[w].listing \subseteq Records
        /\ \A v \in Workers : v # w => worker'[v] = worker[v]
    <3>1. me \in Worker
      BY DEF TypeOK
    <3>2. worker'[w].listing = IF me.snapshot = 0 THEN Listing(me.mode, me.since) ELSE me.listing
      BY <1>7, <3>1 DEF Fetch, TypeOK, Worker
    <3>3. worker'[w].listing \subseteq Records
      BY <3>1, <3>2 DEF Listing, Worker
    <3>4. QED BY <1>7, <3>1, <3>3 DEF Fetch, TypeOK, Worker
  <2>2. CASE me.snapshot # 0
    <3>1. UNCHANGED <<source, binding, checkpoint, front, late>>
      BY <1>7 DEF Fetch
    <3>2. Kept(me, me.page) => Kept(worker'[w], worker'[w].page)
      BY <2>1, <2>2 DEF Kept
    <3>3. QED BY <1>2, <2>1, <3>1, <3>2
  <2>3. CASE me.snapshot = 0
    <3>1. worker'[w].page = 1
      BY <2>1, <2>3 DEF SnapshotInv, CallOK
    <3>2. \A r \in worker'[w].listing : ~(PageOf[r] < 1)
      BY <2>1, ScopeAssumption DEF ScopeAssumption
    <3>3. Kept(worker'[w], worker'[w].page)
      BY <3>1, <3>2 DEF Kept
    <3>4. QED BY <1>2, <1>7, <2>1, <3>3 DEF Fetch
  <2>4. QED BY <2>2, <2>3
<1>8. ASSUME NEW w \in Workers, RejectPage(w) \/ CommitRefused(w) \/ Fail(w) PROVE SweepInv'
  <2>1. \A v \in Workers : worker'[v] = worker[v] \/ worker'[v] = Idle
    BY <1>8 DEF RejectPage, CommitRefused, Fail, Abandon, TypeOK
  <2>2. QED BY <1>2, <1>3, <1>8, <2>1 DEF RejectPage, CommitRefused, Fail
<1>9. ASSUME NEW w \in Workers, RunEnds(w) PROVE SweepInv'
  <2>1. ASSUME NEW v \in Workers
        PROVE  /\ worker'[v].mode = worker[v].mode
               /\ Kept(worker[v], worker[v].page) => Kept(worker'[v], worker'[v].page)
    <3>1. worker'[v] = worker[v] \/ worker'[v] = [worker[v] EXCEPT !.active = FALSE]
      BY <1>9 DEF RunEnds
    <3>2. worker[v] \in Worker
      BY DEF TypeOK
    <3>3. QED BY <3>1, <3>2 DEF Kept, Worker
  <2>2. QED BY <1>2, <1>9, <2>1 DEF RunEnds
<1>10. ASSUME NEW w \in Workers, Commit(w) PROVE SweepInv'
  <2> DEFINE me == worker[w]
  <2>1. PICK named \in SUBSET Records, authoritative \in BOOLEAN : PageWrites(w, named, authoritative)
    BY <1>10, CommitWrites
  <2>2. UNCHANGED source /\ front' >= front /\ (me.mode = "full" => front' >= me.snapshot)
    BY <2>1, FrontForward
  <2>3. ASSUME NEW snapshot \in Nat, NEW listing \in SUBSET Records, NEW page \in Nat,
               NEW sure, page > 1 => front >= snapshot,
               sure => \A r \in listing : source[r].at <= snapshot /\ PageOf[r] < page =>
                          \/ r \in late
                          \/ binding[r].state \in {"none", "stale"}
                          \/ binding[r].seen >= snapshot
        PROVE  /\ page > 1 => front' >= snapshot
               /\ sure => \A r \in listing : source'[r].at <= snapshot /\ PageOf[r] < page =>
                          \/ r \in late'
                          \/ binding'[r].state \in {"none", "stale"}
                          \/ binding'[r].seen >= snapshot
    <3>1. front' \in Nat /\ front \in Nat
      BY SnapshotTypes, NextTypeOK, ScopeAssumption DEF ScopeAssumption, TypeOK, Times
    <3>2. \A r \in listing : PageOf[r] < page => page > 1
      BY ScopeAssumption DEF ScopeAssumption
    <3>3. QED BY <2>1, <2>2, <2>3, <3>1, <3>2, CommitKept
  <2>4. ASSUME NEW v \in Workers, worker[v].mode = "full", worker'[v] = worker[v]
        PROVE  Kept(worker[v], worker[v].page)'
    <3>1. Kept(worker[v], worker[v].page)
      BY <2>4 DEF SweepInv
    <3>2. /\ worker[v].snapshot \in Nat /\ worker[v].listing \in SUBSET Records
          /\ worker[v].page \in Nat
      BY SnapshotTypes, ScopeAssumption DEF ScopeAssumption
    <3>3. QED BY <2>3, <2>4, <3>1, <3>2 DEF Kept
  <2>5. ASSUME me.mode = "full", me.page # LastPage, NEW t,
               t.snapshot = me.snapshot, t.listing = me.listing, t.authoritative = authoritative
        PROVE  /\ me.page + 1 > 1 => front' >= t.snapshot
               /\ t.authoritative =>
                    \A r \in t.listing :
                      source'[r].at <= t.snapshot /\ PageOf[r] < me.page + 1 =>
                        \/ r \in late'
                        \/ binding'[r].state \in {"none", "stale"}
                        \/ binding'[r].seen >= t.snapshot
    <3>1. /\ me.snapshot \in Nat /\ me.page \in Nat /\ me.listing \in SUBSET Records
          /\ front \in Nat
      BY SnapshotTypes, ScopeAssumption DEF ScopeAssumption
    <3>2. Kept(me, me.page) /\ (authoritative => me.authoritative)
      BY <2>1, <2>5 DEF SweepInv, PageWrites
    <3>3. ASSUME authoritative, NEW r \in me.listing, source[r].at <= me.snapshot,
                 PageOf[r] < me.page + 1
          PROVE  \/ r \in late'
                 \/ binding'[r].state \in {"none", "stale"}
                 \/ binding'[r].seen >= me.snapshot
      <4>1. r \in Records /\ PageOf[r] \in Nat
        BY <3>1, SnapshotTypes
      <4>2. CASE PageOf[r] < me.page
        BY <2>3, <3>1, <3>2, <3>3, <4>2, <2>2 DEF Kept
      <4>3. CASE PageOf[r] = me.page
        <5>1. r \in Seen(me.content, named) \/ binding[r].state = "none"
          BY <2>1, <3>3, <4>3, PageSees
        <5>2. r \in Seen(me.content, named) =>
                binding'[r].seen = me.snapshot
          BY <2>1, <4>1 DEF PageWrites
        <5>3. r \notin Seen(me.content, named) /\ binding[r].state = "none" =>
                binding'[r].state = "none"
          BY <2>1, <4>1 DEF PageWrites
        <5>4. QED BY <3>1, <5>1, <5>2, <5>3
      <4>4. QED BY <3>1, <3>3, <4>1, <4>2, <4>3
    <3>4. QED BY <2>2, <2>5, <3>3
  <2>6. ASSUME NEW v \in Workers, worker'[v].mode = "full" PROVE Kept(worker[v], worker[v].page)'
    <3>1. CASE worker'[v] = worker[v]
      BY <2>4, <2>6, <3>1
    <3>2. CASE worker'[v] = Idle
      BY <3>2 DEF Kept, Idle
    <3>3. CASE worker'[v] # worker[v] /\ worker'[v] # Idle
      <4>1. /\ me.page # LastPage
            /\ worker'[v] = [me EXCEPT !.pc = "fetch", !.page = me.page + 1,
                                       !.authoritative = authoritative, !.content = NoContent]
        BY <2>1, <3>3 DEF PageWrites, TypeOK
      <4>2. /\ worker'[v].snapshot = me.snapshot /\ worker'[v].listing = me.listing
            /\ worker'[v].authoritative = authoritative /\ worker'[v].mode = me.mode
            /\ worker'[v].page = me.page + 1
        BY <4>1 DEF Worker, TypeOK
      <4>3. QED BY <2>5, <2>6, <4>1, <4>2 DEF Kept
    <3>4. QED BY <3>1, <3>2, <3>3
  <2>7. checkpoint'["full"].cursor # 0 => Kept(checkpoint["full"], checkpoint["full"].cursor)'
    <3> DEFINE c == checkpoint["full"]
    <3>1. CASE checkpoint'["full"] = c
      <4>1. c.snapshot \in Nat /\ c.listing \in SUBSET Records /\ c.cursor \in Nat
        BY SnapshotTypes, ScopeAssumption DEF ScopeAssumption, Modes
      <4>2. QED BY <2>3, <3>1, <4>1 DEF Kept, SweepInv
    <3>2. CASE checkpoint'["full"] # c
      <4>1. /\ me.mode = "full"
            /\ checkpoint'["full"] = NextCheckpoint(w, me.page = LastPage, authoritative)
        BY <2>1, <3>2 DEF PageWrites, TypeOK, Modes
      <4>2. CASE me.page = LastPage
        BY <4>1, <4>2 DEF NextCheckpoint
      <4>3. CASE me.page # LastPage
        <5>1. /\ checkpoint'["full"].snapshot = me.snapshot
              /\ checkpoint'["full"].listing = me.listing
              /\ checkpoint'["full"].authoritative = authoritative
              /\ checkpoint'["full"].cursor = me.page + 1
          BY <4>1, <4>3 DEF NextCheckpoint
        <5>2. QED BY <2>5, <4>1, <4>3, <5>1 DEF Kept
      <4>4. QED BY <4>2, <4>3
    <3>3. QED BY <3>1, <3>2
  <2>8. QED BY <2>6, <2>7 DEF SweepInv
<1>11. CASE UNCHANGED vars
  BY <1>2, <1>11 DEF vars
<1>12. QED BY <1>1, <1>5, <1>6, <1>7, <1>8, <1>9, <1>10, <1>11 DEF Next

\* Only a sweep makes a binding stale, and it finds what it swept absent.
LEMMA SweepFindsAbsent ==
  ASSUME TypeOK, SnapshotInv, SweepInv, [Next]_vars, NEW r \in Records,
         binding[r].state # "stale", binding'[r].state = "stale"
  PROVE  r \in late \/ \E w \in Workers : UnseenBy(w, r)
<1>1. PICK w \in Workers : Commit(w)
  BY DEF Next, SourceChange, Start, Redeliver, Fetch, RejectPage, CommitRefused, Fail, RunEnds, vars
<1>2. PICK named \in SUBSET Records, authoritative \in BOOLEAN : PageWrites(w, named, authoritative)
  BY <1>1, CommitWrites
<1> DEFINE me == worker[w]
<1>3. /\ me.mode = "full" /\ me.pc = "commit" /\ me.page = LastPage /\ authoritative
      /\ binding[r].state # "none" /\ binding[r].seen < me.snapshot
      /\ r \notin Seen(me.content, named)
  BY <1>2 DEF PageWrites
<1>4. SUFFICES ASSUME r \in me.listing, source[r].at <= me.snapshot PROVE r \in late
  <2>1. me.snapshot \in Nat /\ source[r].at \in Nat
    BY SnapshotTypes
  <2>2. QED BY <1>3, <2>1 DEF UnseenBy
<1>5. PageOf[r] \in 1..LastPage
  BY ScopeAssumption DEF ScopeAssumption
<1>6. CASE PageOf[r] = me.page
  BY <1>2, <1>3, <1>4, <1>6, PageSees
<1>7. CASE PageOf[r] < me.page
  <2>1. Kept(me, me.page) /\ me.authoritative
    BY <1>2, <1>3 DEF SweepInv, PageWrites
  <2>2. me.snapshot \in Nat /\ binding[r].seen \in Nat
    BY SnapshotTypes
  <2>3. QED BY <1>3, <1>4, <1>7, <2>1, <2>2 DEF Kept
<1>8. QED BY <1>3, <1>5, <1>6, <1>7, ScopeAssumption DEF ScopeAssumption

\* A scope that was never synced.
LEMMA InitSnapshotInv == Init => SnapshotInv
<1> SUFFICES ASSUME Init PROVE SnapshotInv
  OBVIOUS
<1>1. \A r \in Records : VersionOK(r)
  BY DEF Init, VersionOK
<1>2. \A w \in Workers : CallOK(worker[w])
  BY DEF Init, CallOK, Listed, Idle
<1>3. \A m \in Modes : RowOfModeOK(checkpoint[m])
  BY DEF Init, RowOfModeOK, Listed, NoCheckpoint
<1>4. QED BY <1>1, <1>2, <1>3 DEF SnapshotInv

\* For any number of calls, records and pages, whatever overlaps, crashes,
\* resumes or is redelivered: what goes stale is absent, unless an older page
\* had moved its lastSeenAt back.
THEOREM OnlyAbsentGoStale == Spec => StaleOnlyIfAbsent
<1>1. Init => SweepInv
  BY DEF Init, SweepInv, Kept, Idle, NoCheckpoint, Modes
<1>2. TypeOK /\ SnapshotInv /\ SweepInv /\ [Next]_vars =>
        [\A r \in Records :
           binding[r].state # "stale" /\ binding'[r].state = "stale" =>
             r \in late \/ \E w \in Workers : UnseenBy(w, r)]_vars
  BY SweepFindsAbsent
<1>3. TypeOK /\ SnapshotInv /\ [Next]_vars => SnapshotInv'
  BY NextSnapshotInv
<1>4. TypeOK /\ SnapshotInv /\ SweepInv /\ [Next]_vars => SweepInv'
  BY NextSweepInv
<1>5. QED BY InitTypeOK, NextTypeOK, InitSnapshotInv, <1>1, <1>2, <1>3, <1>4, PTL
          DEF Spec, StaleOnlyIfAbsent

-----------------------------------------------------------------------------
(* The high-water mark of calls that do not overlap *)

\* One call of the scope at a time; crashes, resumptions and both modes remain.
NoOverlap == \A v, w \in Workers : worker[v].pc # "idle" /\ worker[w].pc # "idle" => v = w

Applied(r) ==
  binding[r].version >= source[r].at \/ source[r].kind \in {"gone", "withheld"}

\* What an incremental traversal that has come to a page may rely on: every
\* change up to its snapshot is applied, unless it is on a page still to come.
Covered(t, page) ==
  t.authoritative =>
    \A r \in Records :
      source[r].at <= t.snapshot /\ (r \in t.listing => PageOf[r] < page) => Applied(r)

CallCovers(call) ==
  /\ call.pc = "commit" =>
       \A r \in DOMAIN call.content : call.content[r].at >= binding[r].version
  /\ call.pc # "idle" => call.since = checkpoint[call.mode].highWater
  /\ call.pc # "idle" /\ call.snapshot # 0 =>
       /\ call.snapshot >= call.since
       /\ call.mode = "incremental" => Covered(call, call.page)

MarkCovers == \A r \in Records : source[r].at <= checkpoint["incremental"].highWater => Applied(r)

HighWaterInv ==
  /\ MarkCovers
  /\ CursorResumable
  /\ checkpoint["full"].highWater = 0
  /\ checkpoint["incremental"].cursor # 0 =>
       Covered(checkpoint["incremental"], checkpoint["incremental"].cursor)
  /\ \A w \in Workers : CallCovers(worker[w])

\* A page applies what it covers, and takes nothing back.
LEMMA CommitApplies ==
  ASSUME TypeOK, SnapshotInv, HighWaterInv, NEW w \in Workers, NEW named, NEW authoritative,
         PageWrites(w, named, authoritative)
  PROVE  /\ \A r \in Records : Applied(r) => Applied(r)'
         /\ authoritative /\ worker[w].mode = "incremental" =>
              \A r \in Records :
                source[r].at <= worker[w].snapshot
                  /\ (r \in worker[w].listing => PageOf[r] < worker[w].page + 1) => Applied(r)'
<1> DEFINE me == worker[w]
<1>1. UNCHANGED source /\ me.pc = "commit" /\ CallCovers(me) /\ PageRead(me)
  BY DEF PageWrites, HighWaterInv, SnapshotInv, CallOK
<1>2. ASSUME NEW r \in Records, Applied(r) PROVE Applied(r)'
  <2>1. /\ binding[r].version \in Nat /\ source[r].at \in Nat
        /\ \/ binding'[r].version = binding[r].version
           \/ r \in DOMAIN me.content /\ binding'[r].version = me.content[r].at
    BY SnapshotTypes DEF PageWrites
  <2>2. r \in DOMAIN me.content => me.content[r].at >= binding[r].version /\ me.content[r].at \in Nat
    <3>1. r \in DOMAIN me.content => me.content[r] \in Change
      BY DEF TypeOK, Worker, Contents
    <3>2. QED BY <1>1, <3>1, ScopeAssumption DEF ScopeAssumption, CallCovers, Change, Times
  <2>3. QED BY <1>1, <1>2, <2>1, <2>2 DEF Applied
<1>3. ASSUME authoritative, me.mode = "incremental", NEW r \in Records,
             source[r].at <= me.snapshot, r \in me.listing => PageOf[r] < me.page + 1
      PROVE  Applied(r)'
  <2>1. me.page \in Nat /\ PageOf[r] \in Nat /\ source[r].at \in Nat
    BY SnapshotTypes, ScopeAssumption DEF ScopeAssumption
  <2>2. CASE r \in me.listing => PageOf[r] < me.page
    <3>1. me.authoritative /\ Covered(me, me.page)
      BY <1>1, <1>3 DEF PageWrites, CallCovers, PageRead
    <3>2. QED BY <1>2, <1>3, <2>2, <3>1 DEF Covered
  <2>3. CASE r \in me.listing /\ PageOf[r] = me.page
    <3>1. /\ r \in DOMAIN me.content /\ me.content[r] = source[r]
          /\ source[r].kind \in {"ok", "withheld"}
      BY <1>3, <2>3, PageSees
    <3>2. source[r].kind = "ok" => binding'[r].version = source[r].at
      BY <3>1 DEF PageWrites
    <3>3. QED BY <1>1, <2>1, <3>1, <3>2 DEF Applied
  <2>4. QED BY <1>3, <2>1, <2>2, <2>3
<1>4. QED BY <1>2, <1>3

\* A step of calls that do not overlap keeps the invariant.
LEMMA NextHighWaterInv ==
  ASSUME TypeOK, SnapshotInv, HighWaterInv, NoOverlap, [Next]_vars
  PROVE  HighWaterInv'
<1>1. ASSUME NEW r \in Records, NEW kind \in Kinds, SourceChange(r, kind) PROVE HighWaterInv'
  <2>1. UNCHANGED <<binding, checkpoint, worker>>
    BY <1>1 DEF SourceChange
  <2>2. ASSUME NEW mark \in Nat, mark <= clock, NEW q \in Records, source'[q].at <= mark
        PROVE  source'[q] = source[q]
    <3>1. mark \in Times /\ Listed(mark, {})
      BY <2>2, ScopeAssumption DEF ScopeAssumption, Listed, TypeOK, Times
    <3>2. QED BY <1>1, <2>2, <3>1, ListedStays
  <2>3. ASSUME NEW mark \in Nat, mark <= clock, NEW q \in Records, source'[q].at <= mark,
               source[q].at <= mark => Applied(q)
        PROVE  Applied(q)'
    BY <2>1, <2>2, <2>3 DEF Applied
  <2>4. MarkCovers'
    <3>1. checkpoint["incremental"].highWater \in Nat /\ checkpoint["incremental"].highWater <= clock
      BY SnapshotTypes DEF SnapshotInv, RowOfModeOK, Modes
    <3>2. QED BY <2>1, <2>2, <2>3, <3>1 DEF MarkCovers, HighWaterInv
  <2>5. ASSUME NEW snapshot \in Nat, snapshot <= clock, NEW sure, NEW listing, NEW page,
               sure => \A q \in Records :
                 source[q].at <= snapshot /\ (q \in listing => PageOf[q] < page) => Applied(q)
        PROVE  sure => \A q \in Records :
                 source'[q].at <= snapshot /\ (q \in listing => PageOf[q] < page) => Applied(q)'
    BY <2>2, <2>3, <2>5
  <2>6. checkpoint["incremental"].cursor # 0 =>
          Covered(checkpoint["incremental"], checkpoint["incremental"].cursor)'
    <3> DEFINE c == checkpoint["incremental"]
    <3>1. c.snapshot \in Nat /\ c.snapshot <= clock
      BY SnapshotTypes DEF SnapshotInv, RowOfModeOK, Listed, Modes
    <3>2. QED BY <2>1, <2>5, <3>1 DEF Covered, HighWaterInv
  <2>7. ASSUME NEW w \in Workers PROVE CallCovers(worker[w])'
    <3>1. worker[w].snapshot \in Nat /\ worker[w].snapshot <= clock /\ CallCovers(worker[w])
      BY SnapshotTypes DEF SnapshotInv, CallOK, Listed, HighWaterInv
    <3>2. Covered(worker[w], worker[w].page) => Covered(worker[w], worker[w].page)'
      BY <2>1, <2>5, <3>1 DEF Covered
    <3>3. QED BY <2>1, <3>1, <3>2 DEF CallCovers
  <2>8. QED BY <2>1, <2>4, <2>6, <2>7 DEF HighWaterInv, CursorResumable
<1>2. ASSUME UNCHANGED <<source, binding, checkpoint>>,
             \A w \in Workers : worker'[w] = worker[w] \/ CallCovers(worker'[w])
      PROVE  HighWaterInv'
  BY <1>2 DEF HighWaterInv, MarkCovers, CursorResumable, CallCovers, Covered, Applied
<1>3. CallCovers(Idle)
  BY DEF CallCovers, Idle
<1>4. ASSUME NEW mode \in Modes PROVE CallCovers(Started(mode))
  <2> DEFINE c == checkpoint[mode]
  <2>1. Started(mode).pc = "fetch" /\ Started(mode).mode = mode /\ Started(mode).since = c.highWater
    BY DEF Started, Idle
  <2>2. CASE c.cursor = 0
    <3>1. Started(mode).snapshot = 0
      BY <2>2 DEF Started, Idle
    <3>2. QED BY <2>1, <3>1 DEF CallCovers
  <2>3. CASE c.cursor # 0
    <3>1. /\ Started(mode).page = c.cursor /\ Started(mode).listing = c.listing
          /\ Started(mode).snapshot = c.snapshot
          /\ Started(mode).authoritative = c.authoritative
      BY <2>3 DEF Started, Idle
    <3>2. c.snapshot >= c.highWater
      BY <2>3 DEF HighWaterInv, CursorResumable
    <3>3. mode = "incremental" => Covered(Started(mode), Started(mode).page)
      BY <2>3, <3>1 DEF HighWaterInv, Covered
    <3>4. QED BY <2>1, <3>1, <3>2, <3>3 DEF CallCovers
  <2>4. QED BY <2>2, <2>3
<1>5. ASSUME NEW w \in Workers, NEW mode \in Modes, Start(w, mode) PROVE HighWaterInv'
  <2>1. \A v \in Workers : worker'[v] = worker[v] \/ worker'[v] = Started(mode)
    BY <1>5 DEF Start, TypeOK
  <2>2. QED BY <1>2, <1>4, <1>5, <2>1 DEF Start
<1>6. ASSUME NEW w \in Workers, Redeliver(w) PROVE HighWaterInv'
  <2>1. \A v \in Workers : worker'[v] = worker[v] \/ worker'[v] = Started("full")
    BY <1>6 DEF Redeliver, TypeOK
  <2>2. QED BY <1>2, <1>4, <1>6, <2>1 DEF Redeliver, Modes
<1>7. ASSUME NEW w \in Workers, Fetch(w) PROVE HighWaterInv'
  <2> DEFINE me == worker[w]
             listing == IF me.snapshot = 0 THEN Listing(me.mode, me.since) ELSE me.listing
             page == {r \in listing : PageOf[r] = me.page /\ source[r].kind # "gone"}
  <2>1. /\ me.pc = "fetch" /\ me.mode \in Modes
        /\ UNCHANGED <<source, binding, checkpoint>>
        /\ \A v \in Workers : v # w => worker'[v] = worker[v]
    BY <1>7 DEF Fetch, TypeOK, Worker
  <2>2. /\ worker'[w].mode = me.mode /\ worker'[w].page = me.page
        /\ worker'[w].authoritative = me.authoritative /\ worker'[w].since = me.since
        /\ worker'[w].snapshot = (IF me.snapshot = 0 THEN clock ELSE me.snapshot)
        /\ worker'[w].listing = listing
        /\ worker'[w].content = [r \in page |-> source[r]]
    <3>1. me \in Worker
      BY DEF TypeOK
    <3> HIDE DEF me
    <3>2. QED BY <1>7, <3>1 DEF Fetch, TypeOK, Worker, me
  <2>3. \A r \in DOMAIN worker'[w].content : worker'[w].content[r].at >= binding[r].version
    <3>1. page \subseteq Records
      BY SnapshotTypes DEF Listing
    <3>2. \A r \in page : source[r].at \in Nat /\ binding[r].version \in Nat
                          /\ binding[r].version <= source[r].at
      BY <3>1, SnapshotTypes DEF SnapshotInv, VersionOK
    <3> HIDE DEF page
    <3>3. QED BY <2>2, <3>2
  <2>4. CallCovers(me) /\ CallOK(me)
    BY DEF HighWaterInv, SnapshotInv
  <2>5. me.since = checkpoint[me.mode].highWater /\ me.since <= clock
    BY <2>1, <2>4 DEF CallCovers, SnapshotInv, RowOfModeOK
  <2>6. CASE me.snapshot # 0
    <3>1. Covered(me, me.page) => Covered(worker'[w], worker'[w].page)
      BY <2>2, <2>6 DEF Covered
    <3>2. CallCovers(worker'[w])
      <4>1. worker'[w].snapshot = me.snapshot /\ worker'[w].snapshot >= worker'[w].since
        BY <2>1, <2>2, <2>4, <2>6 DEF CallCovers
      <4>2. worker'[w].mode = "incremental" => Covered(worker'[w], worker'[w].page)
        BY <2>1, <2>2, <2>4, <2>6, <3>1 DEF CallCovers
      <4>3. QED BY <2>2, <2>3, <2>5, <4>1, <4>2 DEF CallCovers
    <3>3. QED BY <1>2, <2>1, <3>2
  <2>7. CASE me.snapshot = 0
    <3>1. me.page = 1 /\ \A r \in Records : ~(PageOf[r] < 1)
      BY <2>4, <2>7, ScopeAssumption DEF CallOK, ScopeAssumption
    <3>2. ASSUME me.mode = "incremental", NEW r \in Records, r \notin listing PROVE Applied(r)
      <4>1. source[r].kind = "gone" \/ ~(source[r].at > me.since)
        BY <2>7, <3>2 DEF Listing
      <4>2. source[r].at \in Nat /\ me.since \in Nat
        BY SnapshotTypes
      <4>3. source[r].kind = "gone" \/ source[r].at <= checkpoint["incremental"].highWater
        BY <2>5, <3>2, <4>1, <4>2
      <4>4. QED BY <4>3 DEF Applied, HighWaterInv, MarkCovers
    <3>3. me.mode = "incremental" => Covered(worker'[w], worker'[w].page)
      <4> HIDE DEF listing
      <4>1. QED BY <2>2, <3>1, <3>2 DEF Covered
    <3>4. worker'[w].snapshot >= worker'[w].since
      BY <2>2, <2>5, <2>7, SnapshotTypes
    <3>5. CallCovers(worker'[w])
      BY <2>2, <2>3, <2>5, <3>3, <3>4 DEF CallCovers
    <3>6. QED BY <1>2, <2>1, <3>5
  <2>8. QED BY <2>6, <2>7
<1>8. ASSUME NEW w \in Workers, RejectPage(w) \/ CommitRefused(w) \/ Fail(w) PROVE HighWaterInv'
  <2>1. \A v \in Workers : worker'[v] = worker[v] \/ worker'[v] = Idle
    BY <1>8 DEF RejectPage, CommitRefused, Fail, Abandon, TypeOK
  <2>2. QED BY <1>2, <1>3, <1>8, <2>1 DEF RejectPage, CommitRefused, Fail
<1>9. ASSUME NEW w \in Workers, RunEnds(w) PROVE HighWaterInv'
  <2>1. ASSUME NEW v \in Workers PROVE CallCovers(worker'[v])
    <3>1. worker'[v] = worker[v] \/ worker'[v] = [worker[v] EXCEPT !.active = FALSE]
      BY <1>9 DEF RunEnds
    <3>2. worker[v] \in Worker /\ CallCovers(worker[v])
      BY DEF TypeOK, HighWaterInv
    <3>3. /\ worker'[v].pc = worker[v].pc /\ worker'[v].mode = worker[v].mode
          /\ worker'[v].page = worker[v].page /\ worker'[v].snapshot = worker[v].snapshot
          /\ worker'[v].since = worker[v].since /\ worker'[v].listing = worker[v].listing
          /\ worker'[v].authoritative = worker[v].authoritative
          /\ worker'[v].content = worker[v].content
      BY <3>1, <3>2 DEF Worker
    <3>4. QED BY <3>2, <3>3 DEF CallCovers, Covered
  <2>2. QED BY <1>2, <1>9, <2>1 DEF RunEnds
<1>10. ASSUME NEW w \in Workers, Commit(w) PROVE HighWaterInv'
  <2> DEFINE me == worker[w]
             terminal == me.page = LastPage
  <2>1. PICK named \in SUBSET Records, authoritative \in BOOLEAN : PageWrites(w, named, authoritative)
    BY <1>10, CommitWrites
  <2>2. /\ me.pc = "commit" /\ me.mode \in Modes /\ UNCHANGED source
        /\ checkpoint' = [checkpoint EXCEPT ![me.mode] = NextCheckpoint(w, terminal, authoritative)]
    BY <2>1 DEF PageWrites, TypeOK, Worker
  <2>3. /\ \A r \in Records : Applied(r) => Applied(r)'
        /\ authoritative /\ me.mode = "incremental" =>
             \A r \in Records :
               source[r].at <= me.snapshot /\ (r \in me.listing => PageOf[r] < me.page + 1)
                 => Applied(r)'
    BY <2>1, CommitApplies
  <2>4. /\ me.since = checkpoint[me.mode].highWater /\ me.snapshot >= me.since /\ me.snapshot # 0
    BY <2>2 DEF HighWaterInv, CallCovers, SnapshotInv, CallOK, PageRead
  <2>5. /\ checkpoint'[me.mode] = NextCheckpoint(w, terminal, authoritative)
        /\ \A m \in Modes : m # me.mode => checkpoint'[m] = checkpoint[m]
    BY <2>2 DEF TypeOK
  <2>6. /\ checkpoint'[me.mode].snapshot = me.snapshot
        /\ checkpoint'[me.mode].authoritative = authoritative
        /\ checkpoint'[me.mode].cursor = (IF terminal THEN 0 ELSE me.page + 1)
        /\ checkpoint'[me.mode].highWater =
             (IF terminal /\ authoritative /\ me.mode = "incremental"
                THEN me.snapshot ELSE checkpoint[me.mode].highWater)
        /\ checkpoint'[me.mode].listing = (IF terminal THEN {} ELSE me.listing)
    BY <2>5 DEF NextCheckpoint
  <2>7. MarkCovers'
    <3>1. CASE checkpoint'["incremental"].highWater = checkpoint["incremental"].highWater
      BY <2>2, <2>3, <3>1 DEF HighWaterInv, MarkCovers
    <3>2. CASE checkpoint'["incremental"].highWater # checkpoint["incremental"].highWater
      <4>1. /\ me.mode = "incremental" /\ terminal /\ authoritative
            /\ checkpoint'["incremental"].highWater = me.snapshot
        BY <2>5, <2>6, <3>2 DEF Modes
      <4>2. \A r \in Records : PageOf[r] < me.page + 1
        BY <4>1, ScopeAssumption DEF ScopeAssumption
      <4>3. QED BY <2>2, <2>3, <4>1, <4>2 DEF MarkCovers
    <3>3. QED BY <3>1, <3>2
  <2>8. CursorResumable'
    <3>1. ASSUME NEW m \in Modes, checkpoint'[m].cursor # 0
          PROVE  checkpoint'[m].snapshot >= checkpoint'[m].highWater
      <4>1. CASE m # me.mode
        BY <2>5, <3>1, <4>1 DEF HighWaterInv, CursorResumable
      <4>2. CASE m = me.mode
        BY <2>4, <2>6, <3>1, <4>2
      <4>3. QED BY <4>1, <4>2
    <3>2. QED BY <3>1 DEF CursorResumable
  <2>9. checkpoint'["full"].highWater = 0
    BY <2>2, <2>5, <2>6 DEF HighWaterInv, Modes
  <2>10. checkpoint'["incremental"].cursor # 0 =>
           Covered(checkpoint["incremental"], checkpoint["incremental"].cursor)'
    <3>1. CASE me.mode = "incremental"
      BY <2>2, <2>3, <2>6, <3>1 DEF Covered
    <3>2. CASE me.mode # "incremental"
      BY <2>2, <2>3, <2>5, <3>2 DEF Covered, HighWaterInv, Modes
    <3>3. QED BY <3>1, <3>2
  <2>11. ASSUME NEW v \in Workers PROVE CallCovers(worker[v])'
    <3>1. CASE worker'[v] = Idle
      BY <3>1 DEF CallCovers, Idle
    <3>2. CASE v # w
      <4>1. worker'[v] = worker[v] /\ worker[v].pc = "idle"
        BY <2>1, <2>2, <3>2 DEF PageWrites, NoOverlap
      <4>2. QED BY <4>1 DEF CallCovers
    <3>3. CASE v = w /\ worker'[v] # Idle
      <4>1. /\ ~terminal
            /\ worker'[w] = [me EXCEPT !.pc = "fetch", !.page = me.page + 1,
                               !.authoritative = authoritative, !.content = NoContent]
        BY <2>1, <3>3 DEF PageWrites, TypeOK
      <4>2. /\ worker'[w].pc = "fetch" /\ worker'[w].mode = me.mode
            /\ worker'[w].page = me.page + 1 /\ worker'[w].snapshot = me.snapshot
            /\ worker'[w].since = me.since /\ worker'[w].listing = me.listing
            /\ worker'[w].authoritative = authoritative
        BY <4>1 DEF TypeOK, Worker
      <4>3. checkpoint'[me.mode].highWater = me.since
        BY <2>4, <2>6, <4>1
      <4>4. me.mode = "incremental" => Covered(worker[w], worker[w].page)'
        BY <2>2, <2>3, <4>2 DEF Covered
      <4>5. QED BY <2>4, <3>3, <4>2, <4>3, <4>4 DEF CallCovers
    <3>4. QED BY <3>1, <3>2, <3>3
  <2>12. QED BY <2>7, <2>8, <2>9, <2>10, <2>11 DEF HighWaterInv
<1>11. CASE UNCHANGED vars
  BY <1>2, <1>11 DEF vars
<1>12. QED BY <1>1, <1>5, <1>6, <1>7, <1>8, <1>9, <1>10, <1>11 DEF Next

\* The invariant, for calls that do not overlap.
LEMMA HighWaterInvariant == Spec /\ []NoOverlap => []HighWaterInv
<1>1. Init => HighWaterInv
  BY DEF Init, HighWaterInv, MarkCovers, CursorResumable, CallCovers, NoCheckpoint, Idle, Modes
<1>2. TypeOK /\ SnapshotInv /\ [Next]_vars => SnapshotInv'
  BY NextSnapshotInv
<1>3. TypeOK /\ SnapshotInv /\ HighWaterInv /\ NoOverlap /\ [Next]_vars => HighWaterInv'
  BY NextHighWaterInv
<1>4. QED BY InitTypeOK, NextTypeOK, InitSnapshotInv, <1>1, <1>2, <1>3, PTL DEF Spec

\* For any number of records, pages and resumptions, as long as the calls of a
\* scope do not overlap: nothing up to the high-water mark is missing.
THEOREM MarkCoversWhatIsApplied == Spec /\ []NoOverlap => []HighWaterCovers
<1>1. HighWaterInv => HighWaterCovers
  BY DEF HighWaterInv, MarkCovers, HighWaterCovers, Applied
<1>2. QED BY HighWaterInvariant, <1>1, PTL

\* Under the same premise no saved cursor is one that its resumption rejects.
THEOREM SavedCursorsResume == Spec /\ []NoOverlap => []CursorResumable
<1>1. HighWaterInv => CursorResumable
  BY DEF HighWaterInv
<1>2. QED BY HighWaterInvariant, <1>1, PTL
=============================================================================
