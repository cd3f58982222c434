--------------------------- MODULE ChatToolCalls ---------------------------
(***************************************************************************)
(* The write tools an assistant proposed in one chat message, while its    *)
(* user applies and rejects them from several clients:                     *)
(*   - the proposals are one JSON array on the message row, rewritten as a *)
(*     whole under a FOR UPDATE lock of that row;                          *)
(*   - the article itself is written on another connection, so it commits  *)
(*     on its own, before the call is settled;                             *)
(*   - a create first commits a marker (pendingCreate) that pins the       *)
(*     confirmation and the article's id, so that a retry after a crash    *)
(*     finds the article instead of creating a second one;                 *)
(*   - an edit is conditional on the revision the proposal was drafted on. *)
(* The transaction that holds the lock may time out under a handler that   *)
(* goes on working, and a process may die between any two steps.           *)
(***************************************************************************)
EXTENDS Naturals, FiniteSets

CONSTANTS Creates,     \* create_article calls, and update_article of no article
          Edits,       \* patch_article and update_article calls on the target article
          Requests,    \* apply and reject requests that may be in flight
          Intents,     \* what a user may confirm: company, title, folder, visibility
          ArticleIds,  \* generated article ids
          MaxRevision, \* bound on the target's revision
          MaxFaults    \* bound on crashes, timeouts, failed lookups, failures after a commit

Calls == Creates \union Edits
Free == "free"
NoCall == "no call"
NoIntent == "no intent"
NoMarker == [id |-> "no id", intent |-> NoIntent]

ASSUME ChatAssumption ==
  /\ Creates \intersect Edits = {} /\ NoCall \notin Calls
  /\ Free \notin Requests /\ NoIntent \notin Intents /\ "no id" \notin ArticleIds
  /\ MaxRevision \in Nat \ {0} /\ MaxFaults \in Nat

Marker == [id: ArticleIds, intent: Intents]

\* An edit's tool, and its base revision: captured when it was proposed, null
\* when the article was not found then, absent on calls saved by older versions.
Basis == [tool: {"patch", "update"}, base: {"captured", "null", "absent"}]

Terminal == {"applied", "failed", "rejected"}
ToolCall == [status: {"pending"} \union Terminal, marker: Marker \union {NoMarker}]

VARIABLES
  calls,    \* the message's tool calls
  basis,    \* of the edits: tool and base revision
  lock,     \* the request whose transaction holds the message row
  req,      \* the requests: step, operation, call, confirmation, snapshot, outcome
  article,  \* the articles created under the generated ids
  doc,      \* the article the edits target
  made,     \* history: the ids under which each create inserted an article
  landed,   \* history: the revisions on which each edit landed
  interrupted, \* history: calls whose apply was cut short after the claim, or failed
               \* after its commit with nothing found of it
  overran,  \* history: calls whose handler outlived its transaction
  faults

vars == <<calls, basis, lock, req, article, doc, made, landed, interrupted, overran,
          faults>>

\* The revision the captured proposals were drafted on.
BaseRevision == 1

Idle == [pc |-> "idle", op |-> "apply", call |-> NoCall, intent |-> NoIntent,
         seen |-> [c \in Calls |-> [status |-> "pending", marker |-> NoMarker]],
         outcome |-> "pending"]

Init ==
  /\ calls = Idle.seen
  /\ basis \in [Edits -> Basis]
  /\ lock = Free
  /\ req = [q \in Requests |-> Idle]
  /\ article = [a \in ArticleIds |-> NoIntent]
  /\ doc = [revision |-> BaseRevision, archived |-> FALSE]
  /\ made = [c \in Creates |-> {}]
  /\ landed = [c \in Edits |-> {}]
  /\ interrupted = {} /\ overran = {}
  /\ faults = 0

-----------------------------------------------------------------------------
(* The claim *)

Goto(q, pc) == req' = [req EXCEPT ![q].pc = pc]
Drop(q) == req' = [req EXCEPT ![q] = Idle]
Finish(q, outcome) == req' = [req EXCEPT ![q].pc = "settle", ![q].outcome = outcome]

\* loadPending: only a pending call is acted on.  A create that the user
\* confirmed and that names a company and a body has an intent.
Submit(q, op, c, intent) ==
  /\ req[q].pc = "idle"
  /\ calls[c].status = "pending"
  /\ intent # NoIntent => op = "apply" /\ c \in Creates
  /\ req' = [req EXCEPT ![q] =
       [Idle EXCEPT !.pc = IF intent = NoIntent THEN "claim" ELSE "marker",
                    !.op = op, !.call = c, !.intent = intent]]
  /\ UNCHANGED <<calls, basis, lock, article, doc, made, landed, interrupted, overran, faults>>

UnusedIds == {a \in ArticleIds : \A c \in Calls : calls[c].marker = NoMarker \/ calls[c].marker.id # a}

\* Slip: a retry writes a marker of its own.
MarkerEachTime(c, intent) ==
  \E a \in UnusedIds : calls' = [calls EXCEPT ![c].marker = [id |-> a, intent |-> intent]]

\* The marker of this call: the one an earlier attempt has left, or a new id.
PinMarker(c, intent) ==
  \/ /\ calls[c].marker # NoMarker
     /\ UNCHANGED calls
  \/ /\ calls[c].marker = NoMarker
     /\ \E a \in UnusedIds : calls' = [calls EXCEPT ![c].marker = [id |-> a, intent |-> intent]]

Matches(c, intent) == calls[c].marker = NoMarker \/ calls[c].marker.intent = intent

\* ensureCreateMarker, a transaction of its own.  A call that is settled by now,
\* or pinned to another confirmation, refuses the request.
EnsureMarker(q) ==
  LET c == req[q].call IN
  /\ req[q].pc = "marker"
  /\ lock = Free
  /\ IF calls[c].status = "pending" /\ Matches(c, req[q].intent)
       THEN PinMarker(c, req[q].intent) /\ Goto(q, "claim")
       ELSE Drop(q) /\ UNCHANGED calls
  /\ UNCHANGED <<basis, lock, article, doc, made, landed, interrupted, overran, faults>>

\* The step the claimed work begins with: no intent means no marker.
FirstStep(q) ==
  IF req[q].op = "reject" \/ req[q].intent # NoIntent THEN "probe"
  ELSE IF req[q].call \in Edits THEN "read"
  ELSE "settle"

\* Slip: the call is not verified again under the lock.
TakesAny(c) == TRUE

StillPending(c) == calls[c].status = "pending"

\* claimPendingCalls: lock the row and read the array under the lock.  A create
\* without an intent has nothing to do but fail.
Claim(q) ==
  /\ req[q].pc = "claim"
  /\ lock = Free
  /\ IF StillPending(req[q].call)
       THEN /\ lock' = q
            /\ req' = [req EXCEPT ![q].pc = FirstStep(q), ![q].seen = calls,
                                  ![q].intent = NoIntent, ![q].outcome = "failed"]
       ELSE Drop(q) /\ UNCHANGED lock
  /\ UNCHANGED <<calls, basis, article, doc, made, landed, interrupted, overran, faults>>

\* replaceCall: the array read at the claim, with this call settled.
Settled(q) == [req[q].seen EXCEPT ![req[q].call].status = req[q].outcome]

HoldsLock(q) == lock = q

\* Write the array and commit; a transaction that timed out fails here.
Settle(q) ==
  /\ req[q].pc = "settle"
  /\ Drop(q)
  /\ IF HoldsLock(q)
       THEN calls' = Settled(q) /\ lock' = Free
       ELSE UNCHANGED <<calls, lock>>
  /\ UNCHANGED <<basis, article, doc, made, landed, interrupted, overran, faults>>

-----------------------------------------------------------------------------
(* Creating *)

Exists(marker) == marker # NoMarker /\ article[marker.id] # NoIntent

\* The marker the claimed work goes by: no array written since the pinning
\* changes it.
MarkerOf(q) == req[q].seen[req[q].call].marker

\* Slips: a recovered create gets a status of its own; reject does not look for
\* the article.
SettlesAsRecovered(q) == IF Exists(MarkerOf(q)) THEN "recovered" ELSE "rejected"

RejectsBlindly(q) == "rejected"

\* reject: a create whose article stands is settled as the apply it was.
RejectOutcome(q) == IF Exists(MarkerOf(q)) THEN "applied" ELSE "rejected"

RejectProbe(q) ==
  /\ req[q].pc = "probe"
  /\ req[q].op = "reject"
  /\ Finish(q, RejectOutcome(q))
  /\ UNCHANGED <<calls, basis, lock, article, doc, made, landed, interrupted, overran, faults>>

\* applyCreateWithMarker: the article of an earlier attempt is recovered.  The
\* caller may have lost the permission to write.
ApplyProbe(q) ==
  /\ req[q].pc = "probe"
  /\ req[q].op = "apply"
  /\ \/ IF Exists(MarkerOf(q)) THEN Finish(q, "applied") ELSE Goto(q, "create")
     \/ Finish(q, "failed")
  /\ UNCHANGED <<calls, basis, lock, article, doc, made, landed, interrupted, overran, faults>>

\* articles.create, in a transaction of its own.  It fails when the id or the
\* slug is taken, or after its commit; in each case the article is looked for.
CreateArticle(q) ==
  LET m == MarkerOf(q) IN
  /\ req[q].pc = "create"
  /\ \/ /\ ~Exists(m)
        /\ article' = [article EXCEPT ![m.id] = m.intent]
        /\ made' = [made EXCEPT ![req[q].call] = @ \union {m.id}]
        /\ Finish(q, "applied") \/ Goto(q, "recheck")
     \/ Goto(q, "recheck") /\ UNCHANGED <<article, made>>
  /\ UNCHANGED <<calls, basis, lock, doc, landed, interrupted, overran, faults>>

\* Slip: an error of articles.create is final.
FailsOnError(q) == "failed"

RecheckOutcome(q) == IF Exists(MarkerOf(q)) THEN "applied" ELSE "failed"

\* The catch of articles.create looks for the article.  When the lookup throws
\* too, the call fails, and an article that was inserted stands.
Recheck(q) ==
  /\ req[q].pc = "recheck"
  /\ \/ Finish(q, RecheckOutcome(q)) /\ UNCHANGED <<interrupted, faults>>
     \/ /\ faults < MaxFaults /\ faults' = faults + 1
        /\ Finish(q, "failed") /\ interrupted' = interrupted \union {req[q].call}
  /\ UNCHANGED <<calls, basis, lock, article, doc, made, landed, overran>>

-----------------------------------------------------------------------------
(* Editing *)

Guarded(c) == basis[c].base = "captured"

\* A proposal drafted without the article's content is refused; a call saved
\* before revisions were captured is not, unless it is a patch.
HasBasis(c) == Guarded(c) \/ basis[c] = [tool |-> "update", base |-> "absent"]

\* Up to the write: the article must be there, not archived, and a patch's base
\* its current revision.  Other reasons to refuse: permission, scope, no match.
ReadTarget(q) ==
  LET c == req[q].call IN
  /\ req[q].pc = "read"
  /\ \/ /\ HasBasis(c) /\ ~doc.archived
        /\ basis[c].tool = "patch" => doc.revision = BaseRevision
        /\ Goto(q, "write")
     \/ Finish(q, "failed")
  /\ UNCHANGED <<calls, basis, lock, article, doc, made, landed, interrupted, overran, faults>>

\* Slip: the guard is a check before the statement.
Unconditional(c) == TRUE

\* The WHERE clause of the update.
WhereHolds(c) == Guarded(c) => doc.revision = BaseRevision /\ ~doc.archived

\* articles.update: conditional on the base revision.  An error after its
\* commit (the audit entry, the tombstones of removed uploads) is a failure.
WriteTarget(q) ==
  LET c == req[q].call IN
  /\ req[q].pc = "write"
  /\ doc.revision < MaxRevision
  /\ IF WhereHolds(c)
       THEN /\ doc' = [doc EXCEPT !.revision = @ + 1]
            /\ landed' = [landed EXCEPT ![c] = @ \union {doc.revision}]
            /\ \/ Finish(q, "applied") /\ UNCHANGED <<interrupted, faults>>
               \/ /\ faults < MaxFaults /\ faults' = faults + 1
                  /\ Finish(q, "failed") /\ interrupted' = interrupted \union {c}
       ELSE Finish(q, "failed") /\ UNCHANGED <<doc, landed, interrupted, faults>>
  /\ UNCHANGED <<calls, basis, lock, article, made, overran>>

-----------------------------------------------------------------------------
(* Faults, and the other users of the articles *)

Working == {"probe", "create", "recheck", "read", "write", "settle"}

\* The 30 s of the transaction are over: the lock is gone, the handler is not.
TxTimeout(q) ==
  /\ HoldsLock(q)
  /\ faults < MaxFaults
  /\ faults' = faults + 1
  /\ lock' = Free
  /\ overran' = overran \union {req[q].call}
  /\ interrupted' = interrupted \union {req[q].call}
  /\ UNCHANGED <<calls, basis, req, article, doc, made, landed>>

\* The wait for the lock is given up.
GiveUp(q) ==
  /\ req[q].pc \in {"marker", "claim"}
  /\ Drop(q)
  /\ UNCHANGED <<calls, basis, lock, article, doc, made, landed, interrupted, overran, faults>>

\* The process dies in the middle of a handler, or an error rolls its
\* transaction back (the lookup of a rejection, the settle's write).
Crash(q) ==
  /\ req[q].pc \in Working
  /\ faults < MaxFaults
  /\ faults' = faults + 1
  /\ Drop(q)
  /\ lock' = IF HoldsLock(q) THEN Free ELSE lock
  /\ interrupted' = interrupted \union {req[q].call}
  /\ UNCHANGED <<calls, basis, article, doc, made, landed, overran>>

UserEdits ==
  /\ ~doc.archived /\ doc.revision < MaxRevision
  /\ doc' = [doc EXCEPT !.revision = @ + 1]
  /\ UNCHANGED <<calls, basis, lock, req, article, made, landed, interrupted, overran, faults>>

\* (A restored article keeps its revision: restoring adds nothing here.)
Archive ==
  /\ ~doc.archived
  /\ doc' = [doc EXCEPT !.archived = TRUE]
  /\ UNCHANGED <<calls, basis, lock, req, article, made, landed, interrupted, overran, faults>>

Purge(a) ==
  /\ article[a] # NoIntent
  /\ article' = [article EXCEPT ![a] = NoIntent]
  /\ UNCHANGED <<calls, basis, lock, req, doc, made, landed, interrupted, overran, faults>>

-----------------------------------------------------------------------------
Next ==
  \/ \E q \in Requests :
       \/ \E op \in {"apply", "reject"}, c \in Calls, intent \in Intents \union {NoIntent} :
            Submit(q, op, c, intent)
       \/ EnsureMarker(q) \/ Claim(q) \/ Settle(q)
       \/ RejectProbe(q) \/ ApplyProbe(q) \/ CreateArticle(q) \/ Recheck(q)
       \/ ReadTarget(q) \/ WriteTarget(q)
       \/ TxTimeout(q) \/ GiveUp(q) \/ Crash(q)
  \/ UserEdits \/ Archive
  \/ \E a \in ArticleIds : Purge(a)

Spec == Init /\ [][Next]_vars

-----------------------------------------------------------------------------
(* Properties *)

Request == [pc: {"idle", "marker", "claim"} \union Working, op: {"apply", "reject"},
            call: Calls \union {NoCall}, intent: Intents \union {NoIntent},
            seen: [Calls -> ToolCall], outcome: {"pending"} \union Terminal]

TypeOK ==
  /\ calls \in [Calls -> ToolCall]
  /\ basis \in [Edits -> Basis]
  /\ lock \in Requests \union {Free}
  /\ req \in [Requests -> Request]
  /\ article \in [ArticleIds -> Intents \union {NoIntent}]
  /\ doc \in [revision: 1..MaxRevision, archived: BOOLEAN]
  /\ made \in [Creates -> SUBSET ArticleIds]
  /\ landed \in [Edits -> SUBSET (1..MaxRevision)]
  /\ interrupted \subseteq Calls /\ overran \subseteq Calls
  /\ faults \in 0..MaxFaults

\* However often a create is retried, from however many clients and after
\* whatever crash, it inserts its article under one id only, the pinned one, and
\* an article that stands is what the user confirmed when it was pinned ("without
\* a duplicate (or silently relocated) article").
CreatedAsPinned ==
  \A c \in Creates : \A a \in made[c] :
    /\ calls[c].marker # NoMarker /\ calls[c].marker.id = a
    /\ article[a] \in {NoIntent, calls[c].marker.intent}

\* A settled call is never settled again, and a pinned confirmation never
\* changes, whichever sibling's settle rewrites the array around them ("no
\* double-apply and no sibling-status clobber").
SettledForGood ==
  [][\A c \in Calls :
       /\ calls[c].status # "pending" => calls'[c].status = calls[c].status
       /\ calls[c].marker # NoMarker => calls'[c].marker = calls[c].marker]_vars

\* A proposal drafted on a revision lands on that revision only: nothing anyone
\* wrote since is overwritten, and it lands once however often it is applied.
NoLostEdit == \A c \in Edits : Guarded(c) => landed[c] \subseteq {BaseRevision}

Stands(c) ==
  IF c \in Creates THEN \E a \in made[c] : article[a] # NoIntent ELSE landed[c] # {}

\* What the user is told is what happened: "applied" was done, and what was done
\* is not reported as failed or rejected unless its handler was cut short, its
\* edit failed after the commit, or the lookup that would have found its article
\* failed as well.
TruthfulReport ==
  \A c \in Calls :
    /\ calls[c].status = "applied" => IF c \in Creates THEN made[c] # {} ELSE landed[c] # {}
    /\ calls[c].status \in {"failed", "rejected"} /\ Stands(c) => c \in interrupted

\* Of a create, a crash is no excuse: rejecting it after one reports "applied"
\* if its article stands.  Only an apply that outlived its own transaction can
\* still insert the article after the rejection.
RejectedStandsNot ==
  \A c \in Creates : calls[c].status = "rejected" /\ Stands(c) => c \in overran
=============================================================================
