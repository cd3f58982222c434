---------------------------- MODULE PageTraversal ----------------------------
(***************************************************************************)
(* IntegrationSyncRunnerService.runMapping for one scope (one company      *)
(* mapping and one resource): page-by-page traversal of a provider, with   *)
(* checkpoints, bindings, gaps and the stale sweep of a full traversal.    *)
(*                                                                         *)
(* A worker is one runMapping call.  It reads the checkpoint of its mode   *)
(* once, then alternates a fetch (an await on the provider) and a commit   *)
(* (one database transaction that queues on the scope lock, so commits of  *)
(* one scope are atomic).  Between the two, other workers and the provider *)
(* move.  A worker may crash, a fetch may fail, the run a worker belongs to*)
(* may be failed under it, and its job may be delivered a second time.     *)
(*                                                                         *)
(* The provider is modelled by what the driver contract promises: a        *)
(* traversal lists what existed at its snapshot (for an incremental one:   *)
(* what changed after updatedSince), in a fixed page order, with the       *)
(* records' present content.                                               *)
(***************************************************************************)
EXTENDS GapRows, FiniteSets

CONSTANTS Records,      \* source records of the scope
          Workers,      \* concurrent runMapping calls
          PageOf,       \* the page of the listing a record falls on
          LastPage,     \* number of pages of a listing
          MaxClock,     \* bound on source changes
          MaxTrouble    \* bound on crashes, failed fetches, failed runs, redeliveries

ASSUME ScopeAssumption ==
  /\ LastPage \in Nat \ {0}
  /\ PageOf \in [Records -> 1..LastPage]
  /\ MaxClock \in Nat \ {0} /\ MaxTrouble \in Nat

Modes == {"full", "incremental"}
Kinds == {"ok", "withheld", "unreadable", "gone"}
States == {"none", "active", "blocked", "stale"}

VARIABLES
  clock,      \* time of the latest change at the provider
  source,     \* the provider: kind of each record, time of its last change
  binding,    \* IntegrationSyncRecord: state, content version, lastSeenAt
  gap,        \* IntegrationReconstructionGap rows with a record's externalId
  watermark,  \* the scope's summary row: evaluatedAt
  checkpoint, \* IntegrationSyncCheckpoint, one row per mode
  worker,     \* the runMapping calls
  trouble,    \* crashes, failed fetches, failed runs and redeliveries so far
  redelivered, \* history: a second call of one full run was started beside the first
  front,      \* history: newest snapshot a full traversal has committed a page with
  late        \* history: records last seen by a page whose snapshot was behind it

vars == <<clock, source, binding, gap, watermark, checkpoint, worker, trouble, redelivered,
          front, late>>

\* cursor 0 is null: no traversal is under way.  The opaque cursor stands for
\* the rest of the provider's listing, so the listing is stored with it.
NoCheckpoint == [cursor |-> 0, snapshot |-> 0, authoritative |-> TRUE,
                 highWater |-> 0, listing |-> {}]

NoContent == [r \in {} |-> 0]

Idle == [pc |-> "idle", mode |-> "full", page |-> 1, snapshot |-> 0, since |-> 0,
         authoritative |-> TRUE, listing |-> {}, content |-> NoContent, active |-> FALSE]

Init ==
  /\ clock = 1
  /\ source = [r \in Records |-> [kind |-> "ok", at |-> 1]]
  /\ binding = [r \in Records |-> [state |-> "none", version |-> 0, seen |-> 0]]
  /\ gap = [r \in Records |-> NoGap]
  /\ watermark = Never
  /\ checkpoint = [m \in Modes |-> NoCheckpoint]
  /\ worker = [w \in Workers |-> Idle]
  /\ trouble = 0
  /\ redelivered = FALSE
  /\ front = 0
  /\ late = {}

-----------------------------------------------------------------------------
(* The provider *)

\* A record is edited, becomes withheld or unreadable, is removed or returns.
SourceChange(r, kind) ==
  /\ clock < MaxClock
  /\ kind = "gone" => source[r].kind # "gone"
  /\ clock' = clock + 1
  /\ source' = [source EXCEPT ![r] = [kind |-> kind, at |-> clock + 1]]
  /\ UNCHANGED <<binding, gap, watermark, checkpoint, worker, trouble, redelivered, front, late>>

\* What a traversal that starts now lists: everything, or for an incremental
\* one with a high-water mark, what changed after it.
Listing(mode, since) ==
  {r \in Records : /\ source[r].kind # "gone"
                   /\ mode = "incremental" => source[r].at > since}

-----------------------------------------------------------------------------
(* runMapping *)

\* Slip: the index does not cover runs that are already running.
MayAlwaysStart(mode) == TRUE

\* The unique index that allows one active full run of the integration;
\* incremental manual runs are not limited.
MayStart(mode) ==
  mode = "full" => \A w \in Workers : ~(worker[w].active /\ worker[w].mode = "full")

\* Read the mode's checkpoint: resume its cursor, snapshot and authority, or
\* start afresh.
Started(mode) ==
  LET c == checkpoint[mode]
      resumed == c.cursor # 0
  IN [Idle EXCEPT !.pc = "fetch", !.mode = mode, !.active = TRUE,
        !.page = IF resumed THEN c.cursor ELSE 1,
        !.snapshot = IF resumed THEN c.snapshot ELSE 0,
        !.listing = IF resumed THEN c.listing ELSE {},
        !.authoritative = IF resumed THEN c.authoritative ELSE TRUE,
        !.since = c.highWater]

Start(w, mode) ==
  /\ worker[w].pc = "idle"
  /\ MayStart(mode)
  /\ worker' = [worker EXCEPT ![w] = Started(mode)]
  /\ UNCHANGED <<clock, source, binding, gap, watermark, checkpoint, trouble, redelivered, front, late>>

\* BullMQ delivers the job of a worker that lost its lock again: both calls run,
\* for the same full run.
Redeliver(w) ==
  /\ worker[w].pc = "idle"
  /\ ~MayStart("full")
  /\ trouble < MaxTrouble
  /\ trouble' = trouble + 1
  /\ redelivered' = TRUE
  /\ worker' = [worker EXCEPT ![w] = Started("full")]
  /\ UNCHANGED <<clock, source, binding, gap, watermark, checkpoint, front, late>>

\* The worker gives up without a commit; a later worker starts from the
\* checkpoint again.
Abandon(w) == worker' = [worker EXCEPT ![w] = Idle]

\* The high water of an incremental page is the traversal's snapshot; it may
\* not be older than the one the worker read with its checkpoint.
HighWaterRegresses(w, snapshot) ==
  worker[w].mode = "incremental" /\ snapshot < worker[w].since

\* fetchRecords, then validateDriverFetchPage.  The first page of a fresh
\* traversal fixes its snapshot and listing.
Fetch(w) ==
  LET me == worker[w]
      fresh == me.snapshot = 0
      snapshot == IF fresh THEN clock ELSE me.snapshot
      listing == IF fresh THEN Listing(me.mode, me.since) ELSE me.listing
      page == {r \in listing : PageOf[r] = me.page /\ source[r].kind # "gone"}
  IN /\ me.pc = "fetch"
     /\ ~HighWaterRegresses(w, snapshot)
     /\ worker' = [worker EXCEPT ![w].pc = "commit", ![w].snapshot = snapshot,
                                 ![w].listing = listing,
                                 ![w].content = [r \in page |-> source[r]]]
     /\ UNCHANGED <<clock, source, binding, gap, watermark, checkpoint, trouble, redelivered, front, late>>

\* The page is rejected: "source high-water cannot regress within a traversal".
RejectPage(w) ==
  /\ worker[w].pc = "fetch"
  /\ worker[w].snapshot # 0 /\ HighWaterRegresses(w, worker[w].snapshot)
  /\ Abandon(w)
  /\ UNCHANGED <<clock, source, binding, gap, watermark, checkpoint, trouble, redelivered, front, late>>

\* The records whose binding a page writes: readable ones, and blocked ones
\* whose id is known and that have a binding.
Seen(content, named) ==
  {r \in DOMAIN content : content[r].kind = "ok" \/ (r \in named /\ binding[r].state # "none")}

\* Bindings after the records of a page: blocked ones keep their target.
WrittenBindings(content, named, snapshot) ==
  [r \in Records |->
     IF r \notin Seen(content, named) THEN binding[r]
     ELSE IF content[r].kind = "ok"
       THEN [state |-> "active", version |-> content[r].at, seen |-> snapshot]
     ELSE [binding[r] EXCEPT !.state = "blocked", !.seen = snapshot]]

\* Slip: the sweep's comparison includes the traversal's own snapshot.
SweptInclusive(bindings, snapshot) ==
  [r \in Records |->
     IF bindings[r].state \in {"active", "blocked"} /\ bindings[r].seen <= snapshot
       THEN [bindings[r] EXCEPT !.state = "stale"] ELSE bindings[r]]

\* staleUnseen: active or blocked bindings last seen before the snapshot.
SweptBindings(bindings, snapshot) ==
  [r \in Records |->
     IF bindings[r].state \in {"active", "blocked"} /\ bindings[r].seen < snapshot
       THEN [bindings[r] EXCEPT !.state = "stale"] ELSE bindings[r]]

\* A gap that keeps the traversal from being authoritative.
Unreadable(content) == {r \in DOMAIN content : content[r].kind = "unreadable"}

\* Slips of the checkpoint upsert: the cursor is not cleared by the terminal
\* page; every page commits the high-water mark; the update arm forgets the
\* snapshot.
CursorKept(w, terminal, authoritative) ==
  [cursor |-> worker[w].page + 1, snapshot |-> worker[w].snapshot,
   authoritative |-> authoritative, highWater |-> 0, listing |-> worker[w].listing]

HighWaterEveryPage(w, terminal, authoritative) ==
  [cursor |-> IF terminal THEN 0 ELSE worker[w].page + 1, snapshot |-> worker[w].snapshot,
   authoritative |-> authoritative, highWater |-> worker[w].snapshot,
   listing |-> IF terminal THEN {} ELSE worker[w].listing]

SnapshotForgotten(w, terminal, authoritative) ==
  LET me == worker[w] IN
  [cursor |-> IF terminal THEN 0 ELSE me.page + 1,
   snapshot |-> checkpoint[me.mode].snapshot,
   authoritative |-> authoritative,
   highWater |-> IF terminal /\ authoritative /\ me.mode = "incremental"
                   THEN me.snapshot ELSE checkpoint[me.mode].highWater,
   listing |-> IF terminal THEN {} ELSE me.listing]

\* The checkpoint row after a page.
NextCheckpoint(w, terminal, authoritative) ==
  LET me == worker[w] IN
  [cursor |-> IF terminal THEN 0 ELSE me.page + 1,
   snapshot |-> me.snapshot,
   authoritative |-> authoritative,
   highWater |-> IF terminal /\ authoritative /\ me.mode = "incremental"
                   THEN me.snapshot ELSE checkpoint[me.mode].highWater,
   listing |-> IF terminal THEN {} ELSE me.listing]

\* One page transaction: claim the run, lock the scope, write the page, and on
\* a terminal authoritative page resolve absent gaps, sweep (full only) and
\* advance the watermark; then save the checkpoint.
Commit(w) ==
  LET me == worker[w]
      blocked == {r \in DOMAIN me.content : me.content[r].kind # "ok"}
      authoritative == me.authoritative /\ Unreadable(me.content) = {}
      terminal == me.page = LastPage
      final == terminal /\ authoritative
  IN /\ me.pc = "commit"
     /\ me.active
     \* an unreadable record may not even have a readable id
     /\ \E unnamed \in SUBSET Unreadable(me.content) :
          LET named == blocked \ unnamed
              written == WrittenBindings(me.content, named, me.snapshot)
              observed == [r \in Records |->
                             IF r \in named THEN Observe(gap[r], me.snapshot, watermark)
                                            ELSE gap[r]]
          IN /\ binding' = IF final /\ me.mode = "full"
                             THEN SweptBindings(written, me.snapshot) ELSE written
             /\ gap' = IF final
                         THEN [r \in Records |-> ResolveAbsent(observed[r], me.snapshot)]
                         ELSE observed
             /\ late' = IF me.snapshot < front THEN late \union Seen(me.content, named)
                                               ELSE late \ Seen(me.content, named)
     /\ front' = IF me.mode = "full" /\ me.snapshot > front THEN me.snapshot ELSE front
     /\ watermark' = IF final THEN Advance(watermark, me.snapshot) ELSE watermark
     /\ checkpoint' = [checkpoint EXCEPT ![me.mode] = NextCheckpoint(w, terminal, authoritative)]
     /\ worker' = [worker EXCEPT ![w] =
          IF terminal THEN Idle
          ELSE [me EXCEPT !.pc = "fetch", !.page = me.page + 1,
                          !.authoritative = authoritative, !.content = NoContent]]
     /\ UNCHANGED <<clock, source, trouble, redelivered>>

\* The run claim finds the run no longer queued or running: the page is rolled
\* back and the call fails.
CommitRefused(w) ==
  /\ worker[w].pc = "commit"
  /\ ~worker[w].active
  /\ Abandon(w)
  /\ UNCHANGED <<clock, source, binding, gap, watermark, checkpoint, trouble, redelivered, front, late>>

\* The process dies, the provider fails, or the transaction rolls back.
Fail(w) ==
  /\ worker[w].pc # "idle"
  /\ trouble < MaxTrouble
  /\ trouble' = trouble + 1
  /\ Abandon(w)
  /\ UNCHANGED <<clock, source, binding, gap, watermark, checkpoint, redelivered, front, late>>

\* Two active calls of a full traversal belong to the one active full run.
SameRun(v, w) == v = w \/ (worker[v].mode = "full" /\ worker[w].mode = "full")

\* failRun, or the close of the run by somebody else, while its calls go on.
RunEnds(w) ==
  /\ worker[w].active
  /\ trouble < MaxTrouble
  /\ trouble' = trouble + 1
  /\ worker' = [v \in Workers |-> IF SameRun(v, w) THEN [worker[v] EXCEPT !.active = FALSE]
                                                   ELSE worker[v]]
  /\ UNCHANGED <<clock, source, binding, gap, watermark, checkpoint, redelivered, front, late>>

Next ==
  \/ \E r \in Records, kind \in Kinds : SourceChange(r, kind)
  \/ \E w \in Workers :
       \/ \E mode \in Modes : Start(w, mode)
       \/ Redeliver(w)
       \/ Fetch(w) \/ RejectPage(w) \/ Commit(w) \/ CommitRefused(w)
       \/ Fail(w) \/ RunEnds(w)

Spec == Init /\ [][Next]_vars

-----------------------------------------------------------------------------
(* Properties *)

Times == 0..MaxClock
Change == [kind : Kinds, at : Times]
Binding == [state : States, version : Times, seen : Times]
Checkpoint == [cursor : 0..LastPage, snapshot : Times, authoritative : BOOLEAN,
               highWater : Times, listing : SUBSET Records]
Contents == UNION {[page -> Change] : page \in SUBSET Records}
Worker == [pc : {"idle", "fetch", "commit"}, mode : Modes, page : 1..LastPage,
           snapshot : Times, since : Times, authoritative : BOOLEAN,
           listing : SUBSET Records, content : Contents, active : BOOLEAN]

\* Every variable has its type.
TypeOK ==
  /\ clock \in 1..MaxClock
  /\ source \in [Records -> Change]
  /\ binding \in [Records -> Binding]
  /\ gap \in [Records -> GapRow]
  /\ watermark \in Times
  /\ checkpoint \in [Modes -> Checkpoint]
  /\ worker \in [Workers -> Worker]
  /\ trouble \in 0..MaxTrouble
  /\ redelivered \in BOOLEAN
  /\ front \in Times
  /\ late \subseteq Records

\* The record is absent from what a full traversal that commits now has listed,
\* or was removed or hidden after its snapshot.
UnseenBy(w, r) ==
  /\ worker[w].mode = "full" /\ worker[w].pc = "commit"
  /\ r \notin worker[w].listing \/ source[r].at > worker[w].snapshot

\* A record goes stale only if the provider no longer has it, or removed or
\* hid it after the snapshot of the full traversal: a record that was merely
\* unreadable, or was on a page committed before a crash, is never archived,
\* however calls overlap, crash, resume and are redelivered.  The one exception
\* is a record whose lastSeenAt was last written by a page with a snapshot older
\* than one a full traversal had already committed a page with.
StaleOnlyIfAbsent ==
  [][\A r \in Records :
       binding[r].state # "stale" /\ binding'[r].state = "stale" =>
         r \in late \/ \E w \in Workers : UnseenBy(w, r)]_vars

\* The same without the exception, as docs/integrations/breeze.md promises it.
OnlyUnseenGoStale ==
  [][\A r \in Records :
       binding[r].state # "stale" /\ binding'[r].state = "stale" =>
         \E w \in Workers : UnseenBy(w, r)]_vars

\* The incremental high-water mark never covers a change that was not applied:
\* whatever happened at the provider up to it is in the binding, or visibly
\* withheld, even though pages commit one by one and calls crash between them.
\* (Calls that do not overlap: of two that do, the older page may come last.)
HighWaterCovers ==
  \A r \in Records :
    LET applied == \/ binding[r].version >= source[r].at
                   \/ source[r].kind \in {"gone", "withheld"}
    IN source[r].at <= checkpoint["incremental"].highWater => applied

\* A saved cursor can be resumed: its snapshot is not behind the high-water
\* mark the resuming call checks it against.  (Again of calls that do not
\* overlap: a newer incremental call that finishes first moves the mark past the
\* snapshot an older one then saves, and every later call is rejected.)
CursorResumable ==
  \A m \in Modes :
    checkpoint[m].cursor # 0 => checkpoint[m].snapshot >= checkpoint[m].highWater

\* A record the provider withholds stays visible to the operator: once an
\* evaluation as recent as the record's state has completed, its gap is open.
WithheldStaysVisible ==
  \A r \in Records :
    source[r].kind = "withheld" /\ source[r].at <= watermark => Open(gap[r])

\* Gap rows and the watermark only move forward, whatever order overlapping
\* evaluations commit in: an older evaluation finishing later never moves a
\* sighting backwards, never reopens a gap that a newer one resolved, and never
\* inserts a first sighting behind a newer completed sweep.
GapsMoveForward ==
  [][/\ watermark' >= watermark
     /\ \A r \in Records :
          /\ gap[r].exists => gap'[r].exists /\ gap'[r].seen >= gap[r].seen
          /\ gap[r].resolved # Never /\ Open(gap'[r]) => gap'[r].seen >= gap[r].resolved
          /\ ~gap[r].exists /\ gap'[r].exists => gap'[r].seen >= watermark]_vars

\* A full traversal owns its checkpoint: from the first page it reads to the
\* last it commits, no other call, not even an orphan of a run that was failed
\* and replaced, moves the cursor it will resume from.  The one exception is a
\* second call of the same run, when BullMQ redelivers a job that still runs.
FullTraversalUndisturbed ==
  \A w \in Workers :
    ~redelivered /\ worker[w].active /\ worker[w].mode = "full" /\ worker[w].pc # "idle" =>
      checkpoint["full"].cursor = IF worker[w].page = 1 THEN 0 ELSE worker[w].page
=============================================================================
