# TLA+ models of Weavestream

Weavestream is a documentation platform for IT service providers: a NestJS API (`apps/api`), a BullMQ
worker (`apps/worker`) that runs the API's services in jobs, web and mobile front ends, an MCP server,
and shared packages, over PostgreSQL, Redis and local file storage. This directory holds TLA+ models of
the parts of it where several actors write the same rows, what TLC checks of them, and what TLAPS proves.

`PROJECT.json` is the index: components, runs, the lines each definition models (`map`), a plausible
wrong version of the code for every checked property (`mutants`, the definitions marked "Slip" in the
modules), hazards, findings and theorems.

## 1. Inventory

### Components that keep state others race for

| Component | State | Operations | Meets | Hard about it | Correct when |
|---|---|---|---|---|---|
| Session refresh rotation (`auth.service.ts`, `auth.guard.ts`, `auth.controller.ts`) | `Session` row: active and previous token hash, `rotatedAt`, `revokedAt`, `expiresAt`; step-up key in Redis; the browser's cookie | `rotateRefresh` from `/auth/refresh` and from the guard's silent refresh, logout, administrative revocation, deactivation, step-up | users, security centre, audit log | tabs refresh concurrently; each handler is five or more separate statements; a response may be lost | one chain of tokens; the browser keeps a usable cookie; an honest browser is not taken for a thief; a reuse is audited once |
| Integration page traversal (`integration-sync-runner.service.ts`) | checkpoint row per scope and mode, bindings (`IntegrationSyncRecord`), targets | read checkpoint, fetch a page, commit a page (bindings, gaps, sweep, checkpoint in one transaction) | provider driver, gaps, run status | a process dies between pages; traversals of one scope overlap; the provider changes meanwhile | nothing is archived that the provider has; the high-water mark covers only applied changes; a saved cursor can be resumed |
| Gaps, provenance, completeness (`reconstruction/`) | gap rows, summary row with the watermark | observe, resolve absent, stale sweep, write summary | traversal | evaluations commit out of snapshot order | gap rows and the watermark only move forward |
| Run fan-out and settlement (`integration-sync.service.ts`, `integration-sync-mapping.processor.ts`, `integration-sync-orchestrator.processor.ts`) | `IntegrationSyncRun`, one result row per mapping, BullMQ jobs | `beginRun`, `markMappingRunning`, `mergeResourceResult`, `closeRun`, `failMappingJob`, `failRun`; deletion and disabling of mappings | queues, traversal, company mappings | retries, stalls and redelivered jobs; read-then-write merges; fallbacks that fail themselves | every run settles once, in the end, with the verdict its rows say |
| Run admission (`triggerManual`, `createScheduledRun`, unique indexes, the orchestrator's handlers) | the runs of an integration, orchestrator jobs | manual trigger, scheduled occurrence, redelivered occurrence, hand-over to `beginRun` | scheduler, fan-out | check-then-insert decided by two partial unique indexes; insert and queueing are separate; jobs are redelivered | one scheduled or full run at a time; an occurrence creates at most one run; no run is inserted that nobody will begin |
| OAuth tokens and credentials of integrations (`integrations/oauth`, `integrations.service.ts`) | encrypted tokens, credential binding | refresh, rebind, consent | drivers | refresh tokens are single use; concurrent refreshes | the stored token is the newest |
| Sign-in (`lockout.service.ts`, `mfa*.ts`, `step-up/`) | failure counters, backup codes, pending MFA | verify, consume, lock | sessions | counters under concurrency, Redis down | a code is used once, a lock cannot be outrun |
| Articles and summary job (`articles.service.ts`, `article-summary.processor.ts`) | article row (revision, live text, summary), version rows, one draft among them, summary jobs | save, autosave, discard, archive, restore, integration write; summarise, sweep | AI provider, queue, chat tool calls | every editor reads first and writes later; an answer takes seconds; a job's name makes queueing it a no-op | summary, live text and history agree; no draft leaves the house; a pending article is settled in the end |
| Chat tool calls (`chat-tool-call.service.ts`) | the array of calls on the message row, its row lock | apply and reject, alone or in bulk | articles | the article commits on another connection before the call is settled; the locking transaction may time out | executed at most once, as confirmed, reported as it happened; nobody's edit is overwritten |
| Uploads and reaper (`uploads.service.ts`, `upload-reaper.processor.ts`) | upload session and body slot in Redis, files and directories, rows, an advisory lock | register, PUT, confirm, delete, restore, sweep | storage, articles | rows, files and sessions change in separate steps; the sweep goes on with what it listed; the lock may be released on the wrong connection | the stored file is the confirmed one; a live row has its file; what is due, or was never confirmed, goes in the end |
| Backups, alerts, domain checks, breach check, Cloudflare sync | job rows, cooldowns, claims | periodic jobs | external services | retries of partly done work | work is claimed once |

### Components that mostly compute or display

RBAC and password access policy, field transforms and drivers, resource execution stages, IPAM
arithmetic, search, exports, settings, IP rules, tags, relations, folders, stars, e-mail, audit log
(append only), API keys and CSRF, MCP proxying, and the user interfaces. They are listed in
`PROJECT.json` with the reason each is left out; the pure decision procedures are in the plan below.

How they interact: an administrator or the scheduler *admits* a run and queues an orchestrator job; the
orchestrator *begins* it, which queues one job per company mapping; a mapping job calls the *traversal*
once per resource, merges the outcome of each into its result row and *closes* the run when it was the
last. The traversal commits each page only while the run is active, which is how failing a run reaches
calls that are still under way. Articles are written by editors, by confirmed chat tool calls and by the
traversals' reconstruction; a write that changes what is published queues a summary job. Sessions meet the
rest through the guard in front of every route.

## 2. Modules

| Module | Models | |
|---|---|---|
| `TokenChain` | what a session's token slots promise (abstract) | specification |
| `RefreshRotation` | `rotateRefresh` and all that writes the session | implements `TokenChain` |
| `RefreshRotationProofs` | theorems about it | |
| `SingleFlight` | what the single-flight guard of an integration promises (abstract) | specification |
| `SyncAdmission` | how runs come into being, up to `beginRun` | implements `SingleFlight` |
| `SyncAdmissionProofs` | theorems about it | |
| `SyncFanout` | a run from `beginRun` to `closeRun`, with BullMQ | |
| `SyncFanoutProofs` | theorems about its types, its settlement and the rows it leaves | |
| `SyncFanoutVerdictProofs` | theorems about its verdicts and merged outcomes | |
| `GapRows` | the row rules of the gap table, as operators on one row | used by `PageTraversal` |
| `PageTraversal` | `runMapping` for one scope, with provider and concurrent calls | |
| `PageTraversalProofs` | theorems about it | |
| `ChatToolCalls` | applying and rejecting the tool calls of one chat message | |
| `ChatToolCallsProofs` | theorems about it | |
| `ArticleSummary` | one article, its history and its summary jobs | |
| `ArticleSummaryProofs` | theorems about it | |
| `UploadReaper` | an upload from its registration to the removal of its bytes | |
| `UploadReaperProofs` | theorems about it | |
| `MC...` | instances for TLC | |

Where the code has a race that costs it a property, the module carries a history variable that names the
race, and the property names it as its exception; everything else must hold. These variables (`dropped`,
`excused`, `lost`, `overran`, `interrupted`, `astray`, `caught`, `slow`, `lapsed`, `late` with `front`) are
read by no guard. A hazard whose failing case a property excepts is listed in `PROJECT.json` without that
property, and with a note that says which exception it is.

### RefreshRotation

One session and one browser. `session` is the row; a token stands for its hash and is numbered in the
order of minting, because hashes are only compared. `jar` is the cookie, `req[r]` a request: where it is
(`pc`), the token it was sent with, the token it minted, the `now` it read, the answer. Each database
statement of `rotateRefresh` is one action (`FindActive`, `Swap`, `FindPrior`, `RevokeReused`,
`AuditReuse`, `ClearStepUp`), so two handlers interleave exactly at the awaits. `Deliver` applies the
cookies of a response: only a rotated token replaces the cookie; `/auth/refresh` clears it on refusal and
the silent path does not. `Drop` loses a response, `Crash` ends all handlers, `DatabaseError` ends one
with a 500. The guard of `Swap` is the `where` of the compare-and-swap; the race window compares the
loser's `now` with the winner's *start* (`rotatedAt` is the winner's own `now`), as the code does.
The step-up window (`stepUp`) is a state bit whose clearing may fail. Sign-in happens before `Init`.
A signed-out tab that deletes its cookie while another response is under way is included (`Logout`).

### SingleFlight and SyncAdmission

One integration. `run` holds its `IntegrationSyncRun` rows, `job` BullMQ's view of the orchestrator jobs,
`hand[w]` a handler, whose `pc` names its next round trip. `TriggerManual` inserts, `QueueManual` queues:
two steps, with `ManualFault` in between. A scheduled occurrence is a job with a stable id; its handler goes
through `LookupPersisted` (the run an earlier delivery inserted), `FindBlocker`, `SelectMode`, `RecheckFull`,
`InsertScheduled` and, after a unique violation, `ReloadPersisted` and `FindWinner`. `Conflicts` is the two
partial unique indexes. `Begin...` is `beginRun` up to the fan-out and `Settle` stands for all of
`SyncFanout`; `FailRun` is the last attempt's fallback. `Deliver`, `LoseLock`, `Crash` and `Requeue` are
BullMQ: a handler that lost its lock goes on beside its successor. Which scopes lack a recent full
checkpoint, the input of the mode selection, is a free choice. `SingleFlight` sees only the scheduled and
full runs: they take off one at a time, and land once.

### GapRows and PageTraversal

One scope: one mapping and one resource. `source` is the provider, abstracted to each record's kind
(readable, withheld, unreadable, gone) and the time of its last change. A worker is one call of
`runMapping`: `Start` reads the checkpoint of its mode, `Fetch` gets a page, `Commit` is the page
transaction — claim the run, write bindings, observe gaps, on the last page of an authoritative
traversal resolve absent gaps, sweep (full mode) and advance the watermark, save the checkpoint. The
scope lock at the head of the transaction makes commits of a scope atomic, hence one action. Fetch and
commit are separate because other calls and the provider move in between. `RunEnds` fails the run under
a call, `CommitRefused` is the run claim that stops it; `Fail` is any crash or error; `Redeliver` is a
second call of a job that lost its lock. `MayStart` is the partial unique index on active full runs;
incremental manual runs are not limited, so two calls of a scope do overlap.
Times are provider times: `snapshotAt`, high-water marks and gap timestamps are all compared as such.
The opaque cursor stands for the remaining listing and is stored with it. A listing is what existed (or
changed) at its snapshot; a page shows its records' present content, minus those already gone.
`Seen` are the records whose binding a page writes, and so whose `lastSeenAt` it sets to its own snapshot,
older or not. `front` is the newest snapshot any full traversal has committed a page with, and `late` the
records last seen by a page whose snapshot was behind it: the race of the finding `overlap_stale`.

### SyncFanout

`run` and `lastRun` are the run's status and the stamp on the integration; `row[m]` the result row of a
mapping; `orch` the orchestrator job; `job[m]` BullMQ's view of a mapping job; `handler[m][s]` the handlers
running for it, more than one when the lock was lost. A handler's `pc` names the next database round trip.
`Work` runs all resources of the mapping at once and picks one of `PossibleOutcomes` (dependencies
respected); a driver error before the last attempt throws before anything is merged.
`MergeRead`/`MergeWrite` are the two halves of `mergeResourceResult`, `CloseRead`/`CloseWrite` of
`closeRun`, `FailRead`/`FailWrite` of `failMappingJob`; `FailRun` is the orchestrator's own fallback, a step
of its own because it may fail too. `HandlerFault` is any exception, `Crash` the death of the worker,
`LoseLock` the expiry of a lock under a live handler; `Requeued` is BullMQ's `maxStalledCount`.
`DeleteMapping` cascades to the row. `dropped` records a mapping one of whose handlers wrote back a result
without an outcome the other had merged (finding `lost_outcome`). BullMQ, PostgreSQL and Redis are external
and modelled from how the code uses them.

### ChatToolCalls

One message: `calls` is the JSON array on its row, which every settle rewrites as a whole, `lock` the
`FOR UPDATE` lock. A request first sees its call pending (`Submit`); a confirmed create then commits a
marker that pins the confirmation and the article's id (`EnsureMarker`); `Claim` takes the lock and reads
the array; the work (`ApplyProbe`, `CreateArticle`, `Recheck`, `ReadTarget`, `WriteTarget`, or
`RejectProbe`) writes the article on another connection, so it commits on its own; `Settle` writes the array
and commits, unless the transaction has timed out. `doc` is the article the edits aim at, abstracted to its
revision and whether it is archived; `basis` says how an edit was proposed (with the revision it was drafted
on, without one, or by an older version). `TxTimeout` frees the lock under a working handler, `Crash` ends
it, and `WriteTarget` may fail after its commit. `Recheck` is the lookup in the catch of a creation that failed:
it finds the article that was inserted all the same, or fails in its turn, and then the call is settled as
failed while the article stands. Other people's edits, archiving and purging run beside.

### ArticleSummary

One article: `row` (revision, live text, pending flag, the text the stored summary is of), its `version`
rows by number, the feature gate, and a summary job per revision. Every editor request is a read (`Open`,
`ReadDraft`) and a later transaction (`CommitSave`, `CommitAutosave`, `CommitDiscard`); `Enqueue` is the
queueing after the commit, which may fail. `IntegrationWrite` is one step because its update pins every
field it was derived from. A worker takes a job, reads the article (`GenerateRead`), asks the provider, and
stamps the row on condition (`StampSettled`); the sweep queues or retries (`SweepQueue`). A text is a value;
an empty or oversized one is among the answers without a summary. Discarding a draft does not bump the
revision, and an integration write replaces a draft's text on the live row, as in the code. `astray` becomes
true when an operation commits on a history that moved since it read it (`SaveStray`, `DiscardStray`, an
autosave over a newer text). The two reads of a discard, of the draft and of the published version, are one
step. A version row's identity is the revision that inserted it.

### UploadReaper

`session` and `slot` are the two keys in Redis, `disk` the file, `dir` the age of its directory, `row` the
`Upload` row. A PUT is `PutBegin`, `PutClaim`, `PutWrite`, `PutMark`; a confirm validates, hashes, inserts
and closes in four steps, since it reads the file twice. An insert finds the id free when the row was never
inserted or has been purged (`HasRow`). A sweep takes the advisory lock, lists a batch,
removes bytes and then row of each, and spends what is left of the batch on directories nobody owns.

Both keys expire. The slot is claimed after the session was stored and for as long, so it outlives the session
(the guard of `ExpireSlot`): a PUT that finds the slot free again looked its session up before that one
expired, and claims it a session's life, fifteen minutes, later. Such a PUT may replace a file that was
confirmed in the meantime. It is counted as a fault, and `lapsed` records the upload.

`lock` is PostgreSQL's session lock: who holds it and how often. The unlock may be run by a connection that
does not hold the lock (`SweepEnd`), which leaves a hold behind; a later sweep of that process that happens to
lock on the leaking connection adds a hold and gives one back, so the leak stays until the process ends
(`SweeperDies`). A process is taken to keep its connections while it lives.

Time is an order of events: a session expires, then its slot; a tombstone passes its retention, a directory
the age floor; that a session's life is shorter than both is the guard of `AgeDir` and `PassRetention`.
`caught` is an upload restored while a sweep was at it, or after one had emptied it; `slow` one whose request
outlived the floor or the retention.

## 3. What the runs check

| Run | Question | Result |
|---|---|---|
| `refresh` | do two racing requests, with a lost response, a crash, revocations and the clock passing the leeway and the expiry, keep the session right? | holds: one token chain, cookie not stranded, no false reuse, reuse audited once |
| `traversal` | do checkpoints and the high-water mark survive crashes and failed runs when calls do not overlap? | holds |
| `traversals_overlap` | what survives two overlapping calls? | gap rows, the watermark, the cursor of a full traversal, and every record not in `late` |
| `overlap_stale` | does the sweep mark only records the traversal has not seen? | **violated**: a record the provider lists, and this traversal has seen, is marked stale |
| `withheld_hidden` | does a withheld record stay visible to the operator? | **violated**: the next incremental run hides it |
| `admission` | do two occurrences, a manual trigger and redelivered jobs get one run each, one flight at a time, and somebody to begin it? | holds |
| `settlement` | does every run settle once, in the end, with the right verdict, under retries, one fault anywhere and one edit of the mappings? | holds, given fairness |
| `jobs_overlap` | does a job that runs twice at once, beside edits of its mapping, leave a row nobody finishes? | holds: no, after one trouble |
| `lost_outcome` | is the merge of outcomes atomic, as its comment says? | **violated** by two handlers of one job |
| `tool_calls` | are calls executed once, as confirmed, and reported truthfully, through crashes and timed-out transactions? | holds |
| `summaries` | do summary, live text and history agree, and is every pending article settled? | holds, given fairness |
| `uploads` | is the stored file the confirmed one, the retention honoured, and nothing left behind? | holds, given fairness |

The three violations are described with their counterexample under `findings`. They were met while
modelling; each contradicts a sentence of the documentation or a comment.

What the properties except, because the code has it (TLC finds each when the exception is removed):

* `HighWaterCovers` and `CursorResumable` are checked for calls that do not overlap. With two workers an
  older traversal writes after a newer one, and an incremental call that finishes first advances the
  high-water mark past the snapshot of another call's saved cursor, which every later call then rejects.
* `StaleOnlyIfAbsent` excepts the records in `late`: a page of an incremental traversal with an older snapshot
  moves `lastSeenAt` back, and the terminal page of a full traversal archives what it has itself seen. The
  calls need not overlap in time: an incremental one saves its cursor and dies, a full one commits pages and
  dies, and each is resumed in turn (`overlap_stale` finds it with one worker).
* `VerdictIsTruthful`: a mapping job redelivered after its merges may fail its row between another closer's
  read and its settlement, so the run succeeds over a failed row; a handler that lost its lock may take a
  row back to running under a closer; a job redelivered after its fallback wrote a row short of outcomes, which
  takes two faults, may do the same; and an orchestrator attempt that finds no enabled mapping any more closes
  the run over the rows of the first attempt.
* `RunSettles`: deleting the last pending mapping of a run leaves the run active; so does disabling a mapping
  between an orchestrator attempt that wrote its row and failed, and the retry that would queue its job.
* `NoOrphanRow` claims one trouble, a fault or a lost lock. A job that is given up after a second stall
  calls no handler, and a fallback may fail itself; no sweeper looks for such rows. With three resources,
  the dropped outcome of `lost_outcome` leaves the row running for ever.
* `NoStrandedRun`: a manual run whose process dies before its job is queued, the run of a job that is given
  up, and the run of a redelivered occurrence that is skipped because the integration was paused meanwhile.
* `ReuseAuditedOnce`: a crash or a failed insert between the revocation and its audit row leaves none.
* `TruthfulReport` and `RejectedStandsNot`: an edit that landed before a crash is reported stale by its
  retry, one whose audit entry failed after the commit is reported failed, and so is a creation whose article
  was inserted when the lookup that would find it fails too; an apply that outlives its transaction may insert
  its article after the call was rejected.
* `astray`: reconstruction publishes while a draft is in progress, and a later save promotes the draft under
  its lower number; a discard deletes by its id a draft that was promoted meanwhile.
* `caught`: a sweep removes bytes and row of an upload restored since it listed it, and a tombstone whose
  bytes are gone may be restored. `slow`: a request that outlives the age floor or the retention meets the
  sweep. `lapsed`: a PUT that claims its slot after it has expired writes over a confirmed file.
* `NothingLingers` presumes that no leak of the lock lasts for ever, which the code does not ensure.

One more difference between code and documentation has no run, since the code is the stricter of the two:
`docs/integrations/breeze.md:93` says that a racing *full* request falls back to incremental; that is so of
scheduled occurrences, while a manual full request is refused (`TriggerManual`).

### Bounds

* `refresh`: 2 requests, 3 tokens, leeway 2, latency 1 (the premise `2 * MaxLatency <= Leeway` holds
  with equality), expiry 3 and clock up to 4: a race, its loser, a late replay of the retired token, and
  a request across the expiry. One dropped connection, crash or failed query: any of them loses a
  response, which is the only way to a genuine reuse.
* `traversal`: 3 records on 3 pages (so a record is seen before, between and after saved cursors), one call at
  a time, 3 points of time, 2 troubles (a crash, and the failure of what resumes it).
* `traversals_overlap`: the same pages and 2 calls; 2 points of time are two snapshots, one older than the
  other; 1 trouble is a call that dies and is resumed, or a redelivery. The property about stale records is
  checked here, where calls of both modes overlap.
* `overlap_stale`: the same pages, 1 call at a time, 2 points of time, 2 troubles.
* `withheld_hidden`: 2 records on 2 pages, 1 call at a time, 4 points of time: a record, its withholding, and a later change
  of another one.
* `admission`: 2 occurrences and 1 manual call for 3 runs, 2 handlers, 2 attempts of a manual job (as in the
  code), 1 stall, 1 lost lock, 1 fault: an occurrence beside its own redelivery, or beside another flight.
* `settlement`: 2 mappings (two closers), 2 resources, the second depending on the first, 2 attempts
  (the last, and one before it), 1 fault, 1 stall, 1 edit. The code's 3 attempts add a second non-final
  attempt that behaves as the first.
* `jobs_overlap`: 1 mapping (the property is about one), 3 resources (with fewer, two overlapping handlers
  cannot leave a row short of an outcome), 2 handlers of its job, 1 lost lock, 1 fault, 1 edit, 2 attempts
  of the job.
* `lost_outcome`: 1 mapping, 2 resources, 2 handlers, 1 lost lock.
* `tool_calls`: one create and one edit (siblings of one array), 2 requests, 2 confirmations, 2 ids,
  revisions up to 3, 2 faults: a crash, a failure after a commit or a failed lookup, and another in the retry.
* `summaries`: 2 texts, a saver, a discarder and a worker, 2 attempts, 3 revisions, 3 versions (published,
  draft, and an integration's), one crash or switch of the gate.
* `uploads`: 1 upload (uploads share nothing but the batch), a good and a bad body, 2 PUTs, 2 confirms, 2
  sweepers, a batch of 1, one fault (a claim after the slot has expired counts as one). That persistently failing rows can starve the batch of a later upload
  needs more uploads than the batch, and is not covered.

Symmetry is used for requests, calls, handlers and workers, in runs without liveness properties.
Deadlock checking is off in every run: each system stops when its bounds are exhausted, and SyncFanout
when the run is over.

### Fairness

Three runs need it; nothing is assumed of faults, lost locks, edits, users or the clock of another party.

* `settlement`: the orchestrator's job makes progress, a waiting mapping job is eventually taken by a
  worker, and a live handler eventually takes its next step (weak fairness of each): BullMQ workers poll as
  long as the process is up, and Node runs the continuation of every await.
* `summaries`: the same of the handlers; taking a job and reading for the sweep are strongly fair, for a
  worker that serves the one does not serve the other at that moment, but the queue delivers both in turn.
* `uploads`: time passes, a sweep that has begun goes on, and the repeated sweep takes its lock when nobody
  holds it again and again (strong fairness, as attempts meet the lock taken now and then; that a process locks
  once more on the very connection that leaked is not assumed). That leaks end is a premise of
  `NothingLingers`, not an assumption: a leaked hold stays as long as its connection.

## 4. What is proved

TLAPS checks, for every value of the constants that satisfies the named assumption of the module (types
of the bounds, a page number for every record, dependencies that point backwards):

* **RefreshRotationProofs.** `TypeCorrect`. `HonestBrowserNotRevoked` and `CookieKept` from the inductive
  invariant `RaceInv`, the conjunction of the types and `Timely` (a request's `now` lies between its sending
  and the present, and the present is before its deadline), `TokenInv` (a minted but unstored token is known
  to nobody; a token just stored is known only to the response that carries it), `RaceWindow` (while no
  response was lost, a jar that holds the previous token means a winner in transit; and whoever carries the
  previous token was sent at most one latency after the rotation's start), and `NoReuse` (nobody is at the
  revocation). The strengthening is needed because `NoFalseReuse` says nothing about the token a *stale*
  request carries. The argument: the loser's `now` is at most one latency after its sending, and its sending
  at most one after the winner's start. `ReuseAudited` from `AuditInv` (at most one handler stands between
  the flip and the audit). `RotationImplementsChain`: every step is a step of `TokenChain` or a stutter;
  that a rotation brings a *newer* token is where `TokenInv` is needed.
* **PageTraversalProofs.** `TypeCorrect`. `GapRowsMoveForward` from `GapsOK` and two lemmas about the row
  rules, composed through the page transaction. `FullTraversalOwnsCheckpoint` from `FullInv`: there is at
  most one active full call (the index) unless one was redelivered, an inactive call commits nothing (the
  run claim), and a saved cursor is never 1, so cursor and page of the active call agree.
  All other theorems here rest on `SnapshotInv`: no binding is ahead of the provider, a listing (of a call or
  saved with a cursor) is what its snapshot saw, except for records that changed since, and a page in hand
  shows what was there or older. `OnlyAbsentGoStale`, for any number of overlapping calls, from `SweepInv`:
  whatever a full traversal, running or saved, listed on an earlier page and has not changed since has no
  live binding, is in `late`, or was last seen at its snapshot or after (`Kept`). The saved traversal has to
  be in the invariant because a resumed call sweeps on what pages of its predecessors wrote; `front` has to
  be, because it makes "older than a page a full traversal has committed" a fact about the state.
  `MarkCoversWhatIsApplied` and `SavedCursorsResume` from `HighWaterInv`, under the premise that calls do not
  overlap (`NoOverlap`, a condition on the behaviour, without which both are false): an incremental
  traversal, running or saved, has applied whatever changed up to its snapshot and is on its pages so far
  (`Covered`), and it compares its snapshot with the mark that is stored now.
* **SyncFanoutProofs.** `TypeCorrect`, `SettledRunIsFinal` and `LastRunStatusAgrees`, from one lemma on what
  a step may do to the run's status and stamp. `RowsConclude` (`NoOrphanRow`) from the inductive invariant
  `Rooted`: while at most one thing went wrong and a stalled job is redelivered (`Calm`), jobs are queued
  for mappings that have a row (`Planned`), a row with every outcome is terminal (`RowFits`), a job stalls
  no more often than there was trouble and ends *concluded* (`JobFits`: every resource has reported, or the
  fallback failed the row after a fault, or an outcome was dropped or the mapping deleted), and what a
  handler has merged so far is in the row, or in what it has read of it (`HandlerFits`). The strengthening
  is needed because `NoOrphanRow` says nothing until the last handler is gone; the argument is that one
  trouble costs one handler at most, and each way of losing it leaves a redelivery or the fallback behind.
* **SyncFanoutVerdictProofs.** First, once for all theorems, what a step does, by who takes it (`StepCases`):
  the orchestrator or an administrator (`Apart`, `Queues`), a lost lock, or a handler in one of nine ways
  (`Begins` to `Gives`). Then four layers of invariant, each under a stronger promise of the environment:
  - `Accounted`, always: from the transaction of `beginRun` on, every enabled mapping has its row, jobs are of
    mappings that have (or had) one, and a run without resources starts nothing.
  - `Locked`, while no lock is lost: a live handler owns the lock of its job (`LocksHeld`), so that there is
    one at a time (`LocksKeepHandlersApart`), and the row it has read is still the stored one
    (`ReadsCurrent`). Hence `OutcomesKeptWhileLocksHold`; and `OutcomesKeptByOneHandler` from
    `ReadsCurrent` under the weaker premise that handlers of a job do not overlap, lost locks or not: the
    race of `lost_outcome` is the only way to lose an outcome.
  - `VerdictFits`, while moreover at most one thing failed: the fallback runs at the end of a last attempt
    only, after a fault or a deletion (`FallbackFits`); a terminal row short of outcomes is one the fallback
    wrote, and its job makes no other attempt (`ShortRowsStay`); hence rows a closer has read as terminal
    stay so until it settles (`Drawn`). The second fault is the one that redelivers such a job, whose next
    merge would take the row back to running: TLC finds that, and it is why the property says
    `faults <= 1`.
  - `QuietFits`, while nothing failed and no mapping was edited: outcomes are merged in order of the
    resources (`MergesInOrder`), the row of a job that waits for an attempt has none yet (`Unmerged`), and a terminal
    row carries the verdict of its outcomes (`RowVerdict`).

  `VerdictsAreTruthful` combines the last two at the step that settles the run.
* **SyncAdmissionProofs.** `TypeCorrect`; `OneRunEach` and `FlightImplemented` (every step is a step of
  `SingleFlight` or a stutter) from `SafeInv`: a handler's step fits its job, and every run made for an
  occurrence carries its key, so that the index speaks for the history. `TurnedAwayForAReason` from
  `Awaited`: an occurrence without a run has met every flight active while it is handled, and one whose
  handler lost the race for the insertion has met the winner. `NoRunStranded` from `CarryInv`: every run is
  named by one job (`Rooted`), its request or job is pending until a handler has it in hand
  (`ManualsCarried`, `OccurrencesCarried`), and while a redelivered handler looks past a run of its
  occurrence, that run is in the hand of the one that lost the lock (`Shadowed`).
* **ChatToolCallsProofs.** `TypeCorrect`, `CreatesAsPinned`, `SettlesForGood`, `EditsNothingLost`,
  `ReportsTruthfully` and `RejectionsStand`. The invariant `IInv` says what a request that holds the lock
  knows (`Held`: the array it read is the stored one, and its call is pending), and that every array anyone
  has read agrees with the stored one on the markers, which are the only ids articles are made under
  (`Pinned`); `Reported`, `Refused` and `NoLostEdit` relate a request's outcome to what it did before it
  settles.
* **ArticleSummaryProofs.** `TypeCorrect`, `SummaryFollows`, `LiveFollows`, `DraftsStayHere` and
  `HistoryStands`, from `SafeInv`: version numbers and births (`History`, `Reading`), and, unless something
  went astray, that a summary in the making or stored is of the last published text, the live row is that
  text or the draft's, and whatever was published is in `ever` (`Agreed`).
* **UploadReaperProofs.** `TypeCorrect`, `FileIsConfirmed`, `BytesFollowed` and `RetentionKept`, from
  `IInv`. An upload whose slot did not expire under a PUT yet to claim it has one writer (`SoleWriter`): while
  a PUT writes no other does, and once a file is in place either the slot is taken, or the session is over and
  nobody is about to claim (`Closed`), which is what the expiry of the slot has to preserve. Hence what a
  confirm has read is on disk or gone (`Confirmed`). A row that a sweep has listed is past its retention or
  purged, or was caught, and a directory it has listed belongs to no live session (`Listed`). That a sweep
  which runs holds the lock, so that one runs at a time (`OneSweep`), is part of the invariant: it follows from
  the count of holds, leaked ones included.

Every invariant and action property of a passing run is thus stated by a theorem. Only model-checked are the
liveness properties `RunSettles`, `EventuallySettled` and `NothingLingers`: liveness under fairness and
`ENABLED` are beyond the installed provers, as are induction over data and RECURSIVE operators; no module
uses either of the last two. The properties of the three violated runs are false of the code, so there is
nothing to prove; `OutcomesKeptByOneHandler` and `OnlyAbsentGoStale` say for two of them that the race they
exhibit is the only one.

## 5. Not modelled

Within the modelled parts: dry runs, field transforms, match resolution and conflicts, target writers,
the mapping jobs of the earlier per-resource generation, cancellation of a run by migration, audit rows
other than the reuse event, the limits on pages and gaps per traversal, HTTP retries of drivers, the
contents of tokens, texts and prompts, slugs, folders and permissions of articles, thumbnails and
attachment of uploads, the streaming of a chat turn, and the registration of schedulers and queues.

The modelled parts are the ones where several actors write the same state; they are a small part of the
repository's lines. Most of the rest edits rows in one transaction, talks to one provider's API, renders
documents or is user interface, where the steps of different actors do not meet; where they do, it is in the
plan below. It is listed component by component in `PROJECT.json`.

## 6. Plan

1. An operator module for `buildResourceExecutionStages` (a topological layering, against a reference
   definition), the dependency order `SyncFanout` takes as given.
2. Composition: `SyncAdmission` in front of `SyncFanout` and `PageTraversal` (where it replaces `MayStart`).
3. OAuth token refresh with the credential binding; sign-in, MFA and backup codes; the cooldown of alerts
   and the claims of list and backup jobs.
4. RBAC and password access as operators checked against the documented matrix.
5. Proofs: of the composition in 2, that the run `SyncAdmission` hands over is the one `SyncFanout` settles;
   of `NoOrphanRow` for more than one trouble, with the exceptions that then have to be named.
