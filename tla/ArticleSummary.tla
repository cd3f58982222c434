--------------------------- MODULE ArticleSummary ---------------------------
(***************************************************************************)
(* One article, its version history and its AI summary:                    *)
(*   - editors save, autosave, discard a draft, archive and restore; each  *)
(*     request reads the article first and writes it in a transaction      *)
(*     later.  An autosave writes its text to the live row and to one      *)
(*     draft version; a save promotes that draft or adds a version;        *)
(*   - reconstruction writes the article for an integration;               *)
(*   - a write that changes the published text leaves the summary pending  *)
(*     and queues a job named after the article and its revision; the      *)
(*     worker reads, asks the provider, and stamps the row conditionally;  *)
(*   - a periodic sweep queues or retries the jobs of pending articles.    *)
(* A text is a member of Bodies; revision numbers and versions are bounded.*)
(***************************************************************************)
EXTENDS Naturals, FiniteSets

CONSTANTS Bodies,       \* texts of the article
          Savers,       \* save and autosave requests that may overlap
          Discarders,   \* discard and archive requests that may overlap
          Workers,      \* processes of the summary queue
          Attempts,     \* attempts of a job (3)
          MaxRevision,  \* bound on the article's revision
          MaxVersions,  \* bound on its versions (a published one and a draft, at least)
          MaxEvents     \* bound on crashes of a worker and switches of the gate

NoBody == "no body"

ASSUME SummaryAssumption ==
  /\ Bodies # {} /\ NoBody \notin Bodies
  /\ Attempts \in Nat \ {0} /\ MaxRevision \in Nat \ {0} /\ MaxVersions \in Nat \ {0, 1}
  /\ MaxEvents \in Nat

Revisions == 1..MaxRevision
Versions == 1..MaxVersions

\* A version row; born is the revision that inserted it (its identity).
Version == [kind: {"absent", "draft", "published"}, body: Bodies \union {NoBody},
            born: 0..MaxRevision]
NoVersion == [kind |-> "absent", body |-> NoBody, born |-> 0]

VARIABLES
  row,      \* the article: revision, live body, summary (pending, of), archived
  version,  \* its version rows, by number
  gate,     \* whether automatic summaries are enabled
  edit,     \* the saves: step, text read, text to write, captured gate
  discard,  \* the discards: step, the draft and the published text they read
  job,      \* the queue: state and attempts of the job of each revision
  hand,     \* the workers
  ever,     \* history: the texts that have been published
  astray,   \* history: an operation has committed on a history it had not read
  events

vars == <<row, version, gate, edit, discard, job, hand, ever, astray, events>>

IdleEdit == [pc |-> "idle", body |-> NoBody, read |-> NoBody, gate |-> FALSE, revision |-> 0]
IdleDiscard == [pc |-> "idle", body |-> NoBody, number |-> 0, born |-> 0]
IdleHand == [pc |-> "idle", revision |-> 0, body |-> NoBody]
NoJob == [state |-> "absent", attempts |-> 0]

\* An article whose summary is settled, with or without a draft in progress.
Init ==
  \E b, d \in Bodies :
    /\ row = [revision |-> 1, body |-> d, pending |-> FALSE, of |-> NoBody, archived |-> FALSE]
    /\ version = [v \in Versions |->
                    IF v = 1 THEN [kind |-> "published", body |-> b, born |-> 0]
                    ELSE IF v = 2 /\ d # b THEN [kind |-> "draft", body |-> d, born |-> 1]
                    ELSE NoVersion]
    /\ gate \in BOOLEAN
    /\ edit = [e \in Savers |-> IdleEdit]
    /\ discard = [e \in Discarders |-> IdleDiscard]
    /\ job = [r \in Revisions |-> NoJob]
    /\ hand = [w \in Workers |-> IdleHand]
    /\ ever = {b}
    /\ astray = FALSE
    /\ events = 0

-----------------------------------------------------------------------------
(* The version history *)

Drafts == {v \in Versions : version[v].kind = "draft"}
Published == {v \in Versions : version[v].kind = "published"}
HasDraft == Drafts # {}

Highest(S) == CHOOSE v \in S : \A u \in S : u <= v

\* What a discard restores: the published version with the highest number.
LastPublished == Highest(Published)

NextNumber == Highest(Drafts \union Published) + 1

\* Slip: the draft in progress is not looked for.
AlwaysNew == NextNumber

\* The version an editor's write goes to: the draft in progress, or a new one.
EditNumber == IF HasDraft THEN Highest(Drafts) ELSE NextNumber

\* Slip: a draft is promoted with the text of its last autosave.
PromotesAsIs(v, b) ==
  version' = [version EXCEPT ![v] = IF @.kind = "draft" THEN [@ EXCEPT !.kind = "published"]
                                    ELSE [kind |-> "published", body |-> b, born |-> row.revision + 1]]

\* A published row: the draft it promotes keeps its number.
Publish(v, b) ==
  version' = [version EXCEPT ![v] = [kind |-> "published", body |-> b,
                                     born |-> IF @.kind = "absent" THEN row.revision + 1 ELSE @.born]]

-----------------------------------------------------------------------------
(* articles.update: save and autosave *)

\* Read the article and, for a save, the feature gate.
Open(e, op, b) ==
  /\ edit[e].pc = "idle"
  /\ ~row.archived
  /\ edit' = [edit EXCEPT ![e] = [IdleEdit EXCEPT !.pc = op, !.body = b, !.read = row.body,
                                                  !.gate = op = "save" /\ gate]]
  /\ UNCHANGED <<row, version, gate, discard, job, hand, ever, astray, events>>

\* The history moved under a save: the text it compares with is not the one it
\* replaces, or the draft it promotes is numbered below a published version.
SaveStray(e) ==
  \/ edit[e].read # row.body
  \/ HasDraft /\ LastPublished > EditNumber

\* One transaction: the row with its revision bumped and its summary cleared,
\* and the version row, unless nothing changed and no draft is to be promoted.
CommitSave(e) ==
  LET b == edit[e].body IN
  /\ edit[e].pc = "save"
  /\ row.revision < MaxRevision
  /\ row' = [row EXCEPT !.revision = @ + 1, !.body = b, !.pending = edit[e].gate, !.of = NoBody]
  /\ IF b = edit[e].read /\ ~HasDraft
       THEN UNCHANGED <<version, ever>>
       ELSE /\ EditNumber \in Versions
            /\ Publish(EditNumber, b)
            /\ ever' = ever \union {b}
  /\ astray' = (astray \/ SaveStray(e))
  /\ edit' = [edit EXCEPT ![e] = IF edit[e].gate
                THEN [IdleEdit EXCEPT !.pc = "enqueue", !.revision = row.revision + 1]
                ELSE IdleEdit]
  /\ UNCHANGED <<gate, discard, job, hand, events>>

\* A job with this id, of whatever state, makes the addition a no-op.
AddJob(r) == job' = [job EXCEPT ![r] = IF @.state = "absent" THEN [state |-> "queued", attempts |-> 0] ELSE @]

\* After the commit: queue the job, or fail to (Redis is down, the API dies).
Enqueue(e) ==
  /\ edit[e].pc = "enqueue"
  /\ AddJob(edit[e].revision) \/ UNCHANGED job
  /\ edit' = [edit EXCEPT ![e] = IdleEdit]
  /\ UNCHANGED <<row, version, gate, discard, hand, ever, astray, events>>

\* The text and the revision of the live row, never its summary; and the draft.
CommitAutosave(e) ==
  LET b == edit[e].body IN
  /\ edit[e].pc = "autosave"
  /\ row.revision < MaxRevision
  /\ row' = [row EXCEPT !.revision = @ + 1, !.body = b]
  /\ IF b = edit[e].read THEN UNCHANGED version
     ELSE /\ EditNumber \in Versions
          /\ version' = [version EXCEPT ![EditNumber] =
                           [kind |-> "draft", body |-> b,
                            born |-> IF @.kind = "draft" THEN @.born ELSE row.revision + 1]]
  /\ astray' = (astray \/ edit[e].read # row.body)
  /\ edit' = [edit EXCEPT ![e] = IdleEdit]
  /\ UNCHANGED <<gate, discard, job, hand, ever, events>>

-----------------------------------------------------------------------------
(* discardDraft, archive, restore *)

\* The transaction reads the draft and the last published version ...
ReadDraft(e, op) ==
  LET d == Highest(Drafts) IN
  /\ discard[e].pc = "idle"
  /\ ~row.archived
  /\ HasDraft
  /\ discard' = [discard EXCEPT ![e] = [pc |-> op, body |-> version[LastPublished].body,
                                        number |-> d, born |-> version[d].born]]
  /\ UNCHANGED <<row, version, gate, edit, job, hand, ever, astray, events>>

\* Slip: the draft and every later version are removed.
RemovesFrom(n, born) == [v \in Versions |-> IF v >= n THEN NoVersion ELSE version[v]]

\* The version rows without the one that was the draft.
Without(n, born) == IF version[n].born = born THEN [version EXCEPT ![n] = NoVersion] ELSE version

\* The history moved under a discard: the version it goes back to is not the
\* last one any more, or its draft has been promoted.
DiscardStray(e) ==
  \/ discard[e].body # version[LastPublished].body
  \/ version[discard[e].number].kind = "published" /\ version[discard[e].number].born = discard[e].born

\* ... then puts that version's text back and deletes the row of the draft by its
\* id.  Neither the revision nor the summary changes.
CommitDiscard(e) ==
  /\ discard[e].pc \in {"discard", "archive"}
  /\ row' = [row EXCEPT !.body = discard[e].body, !.archived = @ \/ discard[e].pc = "archive"]
  /\ version' = Without(discard[e].number, discard[e].born)
  /\ astray' = (astray \/ DiscardStray(e))
  /\ discard' = [discard EXCEPT ![e] = IdleDiscard]
  /\ UNCHANGED <<gate, edit, job, hand, ever, events>>

ArchiveUndrafted ==
  /\ ~row.archived /\ ~HasDraft
  /\ row' = [row EXCEPT !.archived = TRUE]
  /\ UNCHANGED <<version, gate, edit, discard, job, hand, ever, astray, events>>

Restore ==
  /\ row.archived
  /\ row' = [row EXCEPT !.archived = FALSE]
  /\ UNCHANGED <<version, gate, edit, discard, job, hand, ever, astray, events>>

-----------------------------------------------------------------------------
(* attemptIntegrationArticleWrite *)

\* The update pins every field it was derived from, so it takes effect on the
\* row it has read, draft text included.  It publishes a version of its own and
\* queues nothing; bringing back an archived article alone keeps its summary.
IntegrationWrite ==
  /\ row.revision < MaxRevision
  /\ \/ \E b \in Bodies \ {row.body} :
          /\ NextNumber \in Versions
          /\ row' = [row EXCEPT !.revision = @ + 1, !.body = b, !.archived = FALSE,
                                !.pending = gate, !.of = NoBody]
          /\ Publish(NextNumber, b)
          /\ ever' = ever \union {b}
     \/ /\ row.archived
        /\ row' = [row EXCEPT !.revision = @ + 1, !.archived = FALSE]
        /\ UNCHANGED <<version, ever>>
  /\ UNCHANGED <<gate, edit, discard, job, hand, astray, events>>

FlipGate ==
  /\ events < MaxEvents
  /\ events' = events + 1
  /\ gate' = ~gate
  /\ UNCHANGED <<row, version, edit, discard, job, hand, ever, astray>>

-----------------------------------------------------------------------------
(* The worker: generate *)

Rest(w) == hand' = [hand EXCEPT ![w] = IdleHand]

Take(w) ==
  /\ hand[w].pc = "idle"
  /\ \E r \in Revisions :
       /\ job[r].state = "queued"
       /\ job' = [job EXCEPT ![r].state = "active"]
       /\ hand' = [hand EXCEPT ![w] = [IdleHand EXCEPT !.pc = "read", !.revision = r]]
  /\ UNCHANGED <<row, version, gate, edit, discard, ever, astray, events>>

\* A completed job is removed.
Complete(w) ==
  /\ job' = [job EXCEPT ![hand[w].revision] = NoJob]
  /\ Rest(w)

\* Slip: a draft in progress does not hold the article.
NeverHeld == FALSE

\* An article whose live text is an unpublished draft is not read.
DraftHold == HasDraft

Due == row.pending /\ ~row.archived /\ ~DraftHold

\* Only a pending article at the job's own revision is read.  (A text that is
\* empty, or too long for the window, gets its answer of NoBody unasked.)
GenerateRead(w) ==
  /\ hand[w].pc = "read"
  /\ IF gate /\ Due /\ row.revision = hand[w].revision
       THEN /\ hand' = [hand EXCEPT ![w].pc = "ask", ![w].body = row.body]
            /\ UNCHANGED job
       ELSE Complete(w)
  /\ UNCHANGED <<row, version, gate, edit, discard, ever, astray, events>>

\* Slip: the predicate leaves out the revision.
MatchesPending(r) == ~row.archived /\ row.pending

Matches(r) == row.revision = r /\ ~row.archived /\ row.pending

\* stampSettled: every guard rides the predicate.
StampSettled(r, b) ==
  row' = IF Matches(r) THEN [row EXCEPT !.pending = FALSE, !.of = b] ELSE row

\* The provider answers, or refuses, or truncates its answer twice.
Answer(w) ==
  /\ hand[w].pc = "ask"
  /\ \E b \in {hand[w].body, NoBody} : StampSettled(hand[w].revision, b)
  /\ Complete(w)
  /\ UNCHANGED <<version, gate, edit, discard, ever, astray, events>>

\* The call to the provider fails: another attempt, or the end of the job.
AnswerFails(w) ==
  LET r == hand[w].revision IN
  /\ hand[w].pc = "ask"
  /\ IF job[r].attempts + 1 < Attempts
       THEN job' = [job EXCEPT ![r] = [state |-> "queued", attempts |-> @.attempts + 1]] /\ Rest(w)
       ELSE /\ job' = [job EXCEPT ![r] = [state |-> "failed", attempts |-> Attempts]]
            /\ hand' = [hand EXCEPT ![w].pc = "onFailed", ![w].body = NoBody]
  /\ UNCHANGED <<row, version, gate, edit, discard, ever, astray, events>>

\* The failed listener: the job is retained, and the row is stamped.
OnFailed(w) ==
  /\ hand[w].pc = "onFailed"
  /\ StampSettled(hand[w].revision, NoBody)
  /\ Rest(w)
  /\ UNCHANGED <<version, gate, edit, discard, job, ever, astray, events>>

-----------------------------------------------------------------------------
(* The worker: sweep, and faults *)

SweepRead(w) ==
  /\ hand[w].pc = "idle"
  /\ gate /\ Due
  /\ hand' = [hand EXCEPT ![w] = [IdleHand EXCEPT !.pc = "sweep", !.revision = row.revision]]
  /\ UNCHANGED <<row, version, gate, edit, discard, job, ever, astray, events>>

\* Slip: a job with this id is left alone, even one that failed.
AddsOnly(r) == AddJob(r)

\* A failed job is retried, since its id makes an addition a no-op.
QueueOrRetry(r) ==
  job' = [job EXCEPT ![r] = IF @.state = "failed" THEN [@ EXCEPT !.state = "queued"]
                            ELSE IF @.state = "absent" THEN [state |-> "queued", attempts |-> 0]
                            ELSE @]

SweepQueue(w) ==
  /\ hand[w].pc = "sweep"
  /\ QueueOrRetry(hand[w].revision)
  /\ Rest(w)
  /\ UNCHANGED <<row, version, gate, edit, discard, ever, astray, events>>

\* The worker dies: its job is delivered again, or failed when it has stalled
\* too often.  A listener that dies has stamped nothing.
Crash(w) ==
  LET r == hand[w].revision IN
  /\ hand[w].pc # "idle"
  /\ events < MaxEvents
  /\ events' = events + 1
  /\ Rest(w)
  /\ IF hand[w].pc \in {"read", "ask"}
       THEN \E state \in {"queued", "failed"} : job' = [job EXCEPT ![r].state = state]
       ELSE UNCHANGED job
  /\ UNCHANGED <<row, version, gate, edit, discard, ever, astray>>

\* A failed job is retained for a day only.
Evict(r) ==
  /\ job[r].state = "failed"
  /\ job' = [job EXCEPT ![r] = NoJob]
  /\ UNCHANGED <<row, version, gate, edit, discard, hand, ever, astray, events>>

-----------------------------------------------------------------------------
EditorStep ==
  \/ \E e \in Savers :
       \/ \E op \in {"save", "autosave"}, b \in Bodies : Open(e, op, b)
       \/ CommitSave(e) \/ Enqueue(e) \/ CommitAutosave(e)
  \/ \E e \in Discarders :
       \/ \E op \in {"discard", "archive"} : ReadDraft(e, op)
       \/ CommitDiscard(e)

JobStep(w) ==
  GenerateRead(w) \/ Answer(w) \/ AnswerFails(w) \/ OnFailed(w) \/ SweepQueue(w)

Next ==
  \/ EditorStep \/ ArchiveUndrafted \/ Restore \/ IntegrationWrite \/ FlipGate
  \/ \E w \in Workers : Take(w) \/ JobStep(w) \/ SweepRead(w) \/ Crash(w)
  \/ \E r \in Revisions : Evict(r)

\* The queue delivers its jobs in turn, the sweep among them, and a handler that
\* has begun goes on.  Nothing is assumed of editors, the gate or retention.
Fairness == \A w \in Workers : SF_vars(Take(w)) /\ WF_vars(JobStep(w)) /\ SF_vars(SweepRead(w))

Spec == Init /\ [][Next]_vars /\ Fairness

-----------------------------------------------------------------------------
(* Properties *)

Article == [revision: Revisions, body: Bodies, pending: BOOLEAN, of: Bodies \union {NoBody},
            archived: BOOLEAN]
Edit == [pc: {"idle", "save", "enqueue", "autosave"}, body: Bodies \union {NoBody},
         read: Bodies \union {NoBody}, gate: BOOLEAN, revision: 0..MaxRevision]
Discard == [pc: {"idle", "discard", "archive"}, body: Bodies \union {NoBody},
            number: 0..MaxVersions, born: 0..MaxRevision]
JobRec == [state: {"absent", "queued", "active", "failed"}, attempts: 0..Attempts]
Hand == [pc: {"idle", "read", "ask", "onFailed", "sweep"}, revision: 0..MaxRevision,
         body: Bodies \union {NoBody}]

TypeOK ==
  /\ row \in Article
  /\ version \in [Versions -> Version]
  /\ gate \in BOOLEAN
  /\ edit \in [Savers -> Edit]
  /\ discard \in [Discarders -> Discard]
  /\ job \in [Revisions -> JobRec]
  /\ hand \in [Workers -> Hand]
  /\ ever \subseteq Bodies /\ astray \in BOOLEAN
  /\ events \in 0..MaxEvents
  /\ Cardinality(Drafts) <= 1

\* The stored summary is of the text a reader finds in the latest published
\* version, whatever drafts, discards, late answers and sweeps came in between
\* ("the stored summary keeps matching the last published body").  Only an
\* operation that committed on a history it had not read can separate them.
SummaryOfPublished ==
  row.of # NoBody => row.of = version[LastPublished].body \/ astray

\* Without a draft, the live text is that of the last published version: the
\* article is never ahead of or behind its history.
LiveIsPublished == ~HasDraft => row.body = version[LastPublished].body \/ astray

\* No text goes to the provider that was never published.
OnlyPublishedLeaves ==
  \A w \in Workers : hand[w].pc = "ask" => hand[w].body \in ever \/ astray

\* A published version stays as it was published.
HistoryKept == [][\A v \in Published : version'[v] = version[v] \/ astray']_vars

\* While summaries stay enabled, an article that waits for one is settled in the
\* end, or edited, archived or put on hold: whatever job was lost, failed or
\* retained under its id.
EventuallySettled == <>[]gate => [](Due => <>~Due)
=============================================================================
