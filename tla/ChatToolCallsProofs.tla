------------------------ MODULE ChatToolCallsProofs ------------------------
(* Theorems about ChatToolCalls and their proofs. *)
EXTENDS ChatToolCalls, TLAPS

-----------------------------------------------------------------------------
(* Types *)

\* A request at work has a call, and a create's body and article id.
Placed ==
  \A q \in Requests :
    /\ req[q].pc # "idle" => req[q].call \in Calls
    /\ req[q].pc = "marker" => req[q].op = "apply" /\ req[q].call \in Creates /\ req[q].intent \in Intents
    /\ req[q].pc = "claim" /\ req[q].intent # NoIntent =>
         /\ req[q].op = "apply" /\ req[q].call \in Creates
         /\ calls[req[q].call].marker # NoMarker
    /\ req[q].pc \in {"create", "recheck"} =>
         /\ req[q].op = "apply" /\ req[q].call \in Creates
         /\ MarkerOf(q) # NoMarker
    /\ req[q].pc = "probe" /\ req[q].op = "apply" =>
         req[q].call \in Creates /\ MarkerOf(q) # NoMarker
    /\ req[q].pc \in {"read", "write"} => req[q].call \in Edits
    /\ req[q].pc \in Working => req[q].outcome # "pending"

\* Who holds the row is at work on a pending call, and has read the array as it is.
Held ==
  \A q \in Requests : HoldsLock(q) =>
    /\ req[q].pc \in Working
    /\ req[q].seen = calls
    /\ calls[req[q].call].status = "pending"

LEMMA Bounds == MaxRevision \in Nat \ {0} /\ MaxFaults \in Nat
BY ChatAssumption DEF ChatAssumption

LEMMA MarkerTypes == NoMarker \notin Marker
BY ChatAssumption DEF ChatAssumption, NoMarker, Marker

LEMMA IdleType == Idle \in Request
BY DEF Idle, Request, ToolCall

LEMMA InitTypeOK == Init => TypeOK /\ Placed /\ Held
<1> SUFFICES ASSUME Init PROVE TypeOK /\ Placed /\ Held
  OBVIOUS
<1>1. calls \in [Calls -> ToolCall]
  BY IdleType DEF Init, Request
<1>2. req \in [Requests -> Request]
  BY IdleType DEF Init
<1>3. doc \in [revision: 1..MaxRevision, archived: BOOLEAN]
  <2>1. BaseRevision \in 1..MaxRevision
    BY Bounds DEF BaseRevision
  <2>2. QED BY <2>1 DEF Init
<1>4. faults \in 0..MaxFaults
  BY Bounds DEF Init
<1>5. TypeOK
  BY <1>1, <1>2, <1>3, <1>4 DEF Init, TypeOK
<1>6. Placed
  BY DEF Init, Placed, Idle, Working
<1>7. Held
  BY ChatAssumption DEF ChatAssumption, Init, Held, HoldsLock
<1>8. QED BY <1>5, <1>6, <1>7

\* A request moves to a record of its type.
LEMMA ReqMoves ==
  ASSUME TypeOK, NEW q \in Requests, NEW x \in Request, req' = [req EXCEPT ![q] = x]
  PROVE  req' \in [Requests -> Request]
BY DEF TypeOK

LEMMA GotoType ==
  ASSUME TypeOK, NEW q \in Requests, NEW pc \in {"claim"} \union Working, Goto(q, pc)
  PROVE  req' \in [Requests -> Request]
<1>1. [req[q] EXCEPT !.pc = pc] \in Request
  BY SMTT(30) DEF TypeOK, Request
<1>2. QED BY <1>1, ReqMoves DEF Goto

LEMMA DropType ==
  ASSUME TypeOK, NEW q \in Requests, Drop(q)
  PROVE  req' \in [Requests -> Request]
BY IdleType, ReqMoves DEF Drop

LEMMA FinishType ==
  ASSUME TypeOK, NEW q \in Requests, NEW outcome \in Terminal, Finish(q, outcome)
  PROVE  req' \in [Requests -> Request]
<1>0. req[q] \in Request
  BY DEF TypeOK
<1>1. [req[q] EXCEPT !.pc = "settle", !.outcome = outcome] \in Request
  BY <1>0 DEF Request, Working
<1>2. req' = [req EXCEPT ![q] = [req[q] EXCEPT !.pc = "settle", !.outcome = outcome]]
  BY DEF Finish, TypeOK, Request
<1>3. QED BY <1>1, <1>2, ReqMoves

\* Each request step, as a change of one request's record.
LEMMA ReqTypes ==
  ASSUME TypeOK, Placed, NEW q \in Requests,
         \/ \E op \in {"apply", "reject"}, c \in Calls, intent \in Intents \union {NoIntent} :
              Submit(q, op, c, intent)
         \/ EnsureMarker(q) \/ Claim(q) \/ Settle(q)
         \/ RejectProbe(q) \/ ApplyProbe(q) \/ CreateArticle(q) \/ Recheck(q)
         \/ ReadTarget(q) \/ WriteTarget(q) \/ TxTimeout(q) \/ GiveUp(q) \/ Crash(q)
  PROVE  req' \in [Requests -> Request]
<1>1. ASSUME NEW op \in {"apply", "reject"}, NEW c \in Calls, NEW intent \in Intents \union {NoIntent},
             Submit(q, op, c, intent)
      PROVE  req' \in [Requests -> Request]
  <2>1. \A pc \in {"claim", "marker"} :
          [Idle EXCEPT !.pc = pc, !.op = op, !.call = c, !.intent = intent] \in Request
    BY IdleType DEF Request
  <2>2. \E pc \in {"claim", "marker"} :
          req' = [req EXCEPT ![q] = [Idle EXCEPT !.pc = pc, !.op = op, !.call = c, !.intent = intent]]
    BY <1>1 DEF Submit
  <2>3. QED BY <2>1, <2>2, ReqMoves
<1>2. CASE EnsureMarker(q)
  BY <1>2, GotoType, DropType DEF EnsureMarker
<1>3. CASE Claim(q)
  <2>1. FirstStep(q) \in Working
    BY DEF FirstStep, Working
  <2>a. req[q] \in Request /\ calls \in [Calls -> ToolCall]
    BY DEF TypeOK
  <2>2. [req[q] EXCEPT !.pc = FirstStep(q), !.seen = calls, !.intent = NoIntent, !.outcome = "failed"] \in Request
    BY <2>1, <2>a DEF Request, Terminal
  <2>3. StillPending(req[q].call) =>
          req' = [req EXCEPT ![q] =
                   [req[q] EXCEPT !.pc = FirstStep(q), !.seen = calls, !.intent = NoIntent, !.outcome = "failed"]]
    BY <1>3 DEF Claim, TypeOK, Request
  <2>4. QED BY <1>3, <2>2, <2>3, ReqMoves, DropType DEF Claim
<1>4. CASE Settle(q) \/ GiveUp(q) \/ Crash(q)
  BY <1>4, DropType DEF Settle, GiveUp, Crash
<1>5. CASE RejectProbe(q)
  BY <1>5, FinishType DEF RejectProbe, RejectOutcome, Terminal
<1>6. CASE ApplyProbe(q)
  BY <1>6, FinishType, GotoType DEF ApplyProbe, Terminal, Working
<1>7. CASE CreateArticle(q)
  BY <1>7, FinishType, GotoType DEF CreateArticle, Terminal, Working
<1>8. CASE Recheck(q)
  BY <1>8, FinishType DEF Recheck, RecheckOutcome, Terminal
<1>9. CASE ReadTarget(q)
  BY <1>9, FinishType, GotoType DEF ReadTarget, Terminal, Working
<1>10. CASE WriteTarget(q)
  BY <1>10, FinishType DEF WriteTarget, Terminal
<1>11. CASE TxTimeout(q)
  BY <1>11 DEF TxTimeout, TypeOK
<1>12. QED BY <1>1, <1>2, <1>3, <1>4, <1>5, <1>6, <1>7, <1>8, <1>9, <1>10, <1>11

LEMMA PinnedType ==
  ASSUME TypeOK, NEW c \in Calls, NEW intent \in Intents, PinMarker(c, intent)
  PROVE  calls' \in [Calls -> ToolCall]
<1>1. \A a \in ArticleIds : [calls[c] EXCEPT !.marker = [id |-> a, intent |-> intent]] \in ToolCall
  BY DEF TypeOK, ToolCall, Marker
<1>2. QED BY <1>1 DEF PinMarker, UnusedIds, TypeOK

LEMMA SettledType ==
  ASSUME TypeOK, NEW q \in Requests
  PROVE  Settled(q) \in [Calls -> ToolCall]
<1>1. req[q] \in Request
  BY DEF TypeOK
<1>2. req[q].call \in Calls => [req[q].seen[req[q].call] EXCEPT !.status = req[q].outcome] \in ToolCall
  BY <1>1 DEF Request, ToolCall
<1>3. QED BY <1>1, <1>2 DEF Settled, Request

LEMMA MarkerIds ==
  ASSUME TypeOK, NEW q \in Requests, req[q].call \in Calls, MarkerOf(q) # NoMarker
  PROVE  MarkerOf(q) \in Marker
BY DEF TypeOK, Request, ToolCall, MarkerOf

LEMMA FaultRoom == ASSUME TypeOK, faults < MaxFaults, faults' = faults + 1 PROVE faults' \in 0..MaxFaults
BY Bounds DEF TypeOK

LEMMA RevisionRoom ==
  ASSUME TypeOK, doc.revision < MaxRevision
  PROVE  [doc EXCEPT !.revision = @ + 1] \in [revision: 1..MaxRevision, archived: BOOLEAN]
<1>1. doc.revision + 1 \in 1..MaxRevision
  BY Bounds DEF TypeOK
<1>2. QED BY <1>1 DEF TypeOK

LEMMA NextTypeOK == TypeOK /\ Placed /\ Held /\ [Next]_vars => TypeOK'
<1> SUFFICES ASSUME TypeOK, Placed, Held, [Next]_vars PROVE TypeOK'
  OBVIOUS
<1>1. ASSUME NEW q \in Requests, NEW op \in {"apply", "reject"}, NEW c \in Calls,
             NEW intent \in Intents \union {NoIntent}, Submit(q, op, c, intent)
      PROVE  TypeOK'
  <2>1. req' \in [Requests -> Request]
    BY <1>1, ReqTypes
  <2>2. QED BY <1>1, <2>1 DEF Submit, TypeOK
<1>2. ASSUME NEW q \in Requests, EnsureMarker(q) PROVE TypeOK'
  <2>1. req' \in [Requests -> Request]
    BY <1>2, ReqTypes
  <2>2. calls' \in [Calls -> ToolCall]
    <3>1. req[q].call \in Calls /\ req[q].intent \in Intents
      BY <1>2 DEF EnsureMarker, Placed
    <3>2. UNCHANGED calls \/ PinMarker(req[q].call, req[q].intent)
      BY <1>2 DEF EnsureMarker
    <3>3. QED BY <3>1, <3>2, PinnedType DEF TypeOK
  <2>3. QED BY <1>2, <2>1, <2>2 DEF EnsureMarker, TypeOK
<1>3. ASSUME NEW q \in Requests, Claim(q) \/ GiveUp(q) \/ TxTimeout(q) \/ Crash(q) PROVE TypeOK'
  <2>1. req' \in [Requests -> Request]
    BY <1>3, ReqTypes
  <2>2. lock' \in Requests \union {Free}
    BY <1>3 DEF Claim, GiveUp, TxTimeout, Crash, TypeOK
  <2>3. faults' \in 0..MaxFaults
    <3>1. UNCHANGED faults \/ (faults < MaxFaults /\ faults' = faults + 1)
      BY <1>3 DEF Claim, GiveUp, TxTimeout, Crash
    <3>2. QED BY <3>1, FaultRoom DEF TypeOK
  <2>4. interrupted' \subseteq Calls /\ overran' \subseteq Calls
    <3>1. TxTimeout(q) => req[q].call \in Calls
      BY DEF TxTimeout, Held, Placed, Working
    <3>2. Crash(q) => req[q].call \in Calls
      BY DEF Crash, Placed, Working
    <3>3. QED BY <1>3, <3>1, <3>2 DEF Claim, GiveUp, TxTimeout, Crash, TypeOK
  <2>5. UNCHANGED <<calls, basis, article, doc, made, landed>>
    BY <1>3 DEF Claim, GiveUp, TxTimeout, Crash
  <2>6. QED BY <2>1, <2>2, <2>3, <2>4, <2>5 DEF TypeOK
<1>4. ASSUME NEW q \in Requests, Settle(q) PROVE TypeOK'
  <2>1. req' \in [Requests -> Request]
    BY <1>4, ReqTypes
  <2>2. QED BY <1>4, <2>1, SettledType DEF Settle, TypeOK
<1>5. ASSUME NEW q \in Requests, RejectProbe(q) \/ ApplyProbe(q) \/ Recheck(q) \/ ReadTarget(q) PROVE TypeOK'
  <2>1. req' \in [Requests -> Request]
    BY <1>5, ReqTypes
  <2>2. faults' \in 0..MaxFaults
    <3>1. UNCHANGED faults \/ (faults < MaxFaults /\ faults' = faults + 1)
      BY <1>5 DEF RejectProbe, ApplyProbe, Recheck, ReadTarget
    <3>2. QED BY <3>1, FaultRoom DEF TypeOK
  <2>3. interrupted' \subseteq Calls
    <3>1. Recheck(q) => req[q].call \in Calls
      BY DEF Recheck, Placed
    <3>2. QED BY <1>5, <3>1 DEF RejectProbe, ApplyProbe, Recheck, ReadTarget, TypeOK
  <2>4. UNCHANGED <<calls, basis, lock, article, doc, made, landed, overran>>
    BY <1>5 DEF RejectProbe, ApplyProbe, Recheck, ReadTarget
  <2>5. QED BY <2>1, <2>2, <2>3, <2>4 DEF TypeOK
<1>6. ASSUME NEW q \in Requests, CreateArticle(q) PROVE TypeOK'
  <2>1. req' \in [Requests -> Request]
    BY <1>6, ReqTypes
  <2>2. req[q].call \in Creates /\ MarkerOf(q) \in Marker
    BY <1>6, MarkerIds DEF CreateArticle, Placed, Calls
  <2>3. article' \in [ArticleIds -> Intents \union {NoIntent}]
    BY <1>6, <2>2 DEF CreateArticle, TypeOK, Marker
  <2>4. made' \in [Creates -> SUBSET ArticleIds]
    <3>1. UNCHANGED made \/ made' = [made EXCEPT ![req[q].call] = @ \union {MarkerOf(q).id}]
      BY <1>6 DEF CreateArticle
    <3>2. QED BY <2>2, <3>1 DEF TypeOK, Marker
  <2>5. QED BY <1>6, <2>1, <2>3, <2>4 DEF CreateArticle, TypeOK
<1>7. ASSUME NEW q \in Requests, WriteTarget(q) PROVE TypeOK'
  <2>1. req' \in [Requests -> Request]
    BY <1>7, ReqTypes
  <2>2. req[q].call \in Edits /\ doc.revision < MaxRevision
    BY <1>7 DEF WriteTarget, Placed
  <2>3. doc' \in [revision: 1..MaxRevision, archived: BOOLEAN]
    <3>1. UNCHANGED doc \/ doc' = [doc EXCEPT !.revision = @ + 1]
      BY <1>7 DEF WriteTarget
    <3>2. QED BY <2>2, <3>1, RevisionRoom DEF TypeOK
  <2>4. landed' \in [Edits -> SUBSET (1..MaxRevision)]
    <3>1. UNCHANGED landed \/ landed' = [landed EXCEPT ![req[q].call] = @ \union {doc.revision}]
      BY <1>7 DEF WriteTarget
    <3>2. doc.revision \in 1..MaxRevision
      BY DEF TypeOK
    <3>3. QED BY <2>2, <3>1, <3>2 DEF TypeOK
  <2>5. faults' \in 0..MaxFaults
    <3>1. UNCHANGED faults \/ (faults < MaxFaults /\ faults' = faults + 1)
      BY <1>7 DEF WriteTarget
    <3>2. QED BY <3>1, FaultRoom DEF TypeOK
  <2>6. interrupted' \subseteq Calls
    BY <1>7, <2>2 DEF WriteTarget, TypeOK, Calls
  <2>7. UNCHANGED <<calls, basis, lock, article, made, overran>>
    BY <1>7 DEF WriteTarget
  <2>8. QED BY <2>1, <2>3, <2>4, <2>5, <2>6, <2>7 DEF TypeOK
<1>8. CASE UserEdits \/ Archive
  <2>1. doc' \in [revision: 1..MaxRevision, archived: BOOLEAN]
    BY <1>8, RevisionRoom DEF UserEdits, Archive, TypeOK
  <2>2. QED BY <1>8, <2>1 DEF UserEdits, Archive, TypeOK
<1>9. ASSUME NEW a \in ArticleIds, Purge(a) PROVE TypeOK'
  BY <1>9 DEF Purge, TypeOK
<1>10. CASE UNCHANGED vars
  BY <1>10 DEF vars, TypeOK
<1>11. QED BY <1>1, <1>2, <1>3, <1>4, <1>5, <1>6, <1>7, <1>8, <1>9, <1>10 DEF Next

-----------------------------------------------------------------------------
(* The array only moves forward *)

Forward ==
  \A c \in Calls :
    /\ calls[c].status # "pending" => calls'[c].status = calls[c].status
    /\ calls[c].marker # NoMarker => calls'[c].marker = calls[c].marker

\* The holder's settle changes the status of its own pending call only.
LEMMA SettleEffect ==
  ASSUME TypeOK, Placed, Held, NEW q \in Requests, Settle(q), HoldsLock(q)
  PROVE  /\ req[q].call \in Calls /\ calls[req[q].call].status = "pending"
         /\ calls'[req[q].call].status = req[q].outcome
         /\ \A c \in Calls : calls'[c].marker = calls[c].marker
         /\ \A c \in Calls \ {req[q].call} : calls'[c] = calls[c]
<1>1. req[q].call \in Calls /\ req[q].seen = calls /\ calls[req[q].call].status = "pending"
  BY DEF Held, Placed, Working
<1>2. calls' = [calls EXCEPT ![req[q].call].status = req[q].outcome]
  BY <1>1 DEF Settle, Settled
<1>3. calls \in [Calls -> ToolCall]
  BY DEF TypeOK
<1>4. QED BY <1>1, <1>2, <1>3 DEF ToolCall

LEMMA PinEffect ==
  ASSUME TypeOK, NEW c \in Calls, NEW intent \in Intents, PinMarker(c, intent)
  PROVE  /\ \A d \in Calls : calls'[d].status = calls[d].status
         /\ \A d \in Calls \ {c} : calls'[d] = calls[d]
         /\ calls[c].marker # NoMarker => calls' = calls
         /\ calls[c].marker = NoMarker =>
              \E a \in UnusedIds : calls'[c].marker = [id |-> a, intent |-> intent]
<1>1. calls \in [Calls -> ToolCall]
  BY DEF TypeOK
<1>2. CASE calls[c].marker # NoMarker
  BY <1>2 DEF PinMarker
<1>3. CASE calls[c].marker = NoMarker
  BY <1>1, <1>3 DEF PinMarker, ToolCall
<1>4. QED BY <1>2, <1>3

LEMMA NextForward == TypeOK /\ Placed /\ Held /\ [Next]_vars => Forward
<1> SUFFICES ASSUME TypeOK, Placed, Held, [Next]_vars PROVE Forward
  OBVIOUS
<1>1. CASE UNCHANGED calls
  BY <1>1 DEF Forward
<1>2. ASSUME NEW q \in Requests, Settle(q) PROVE Forward
  <2>1. CASE HoldsLock(q)
    BY <1>2, <2>1, SettleEffect DEF Forward
  <2>2. CASE ~HoldsLock(q)
    BY <1>1, <1>2, <2>2 DEF Settle
  <2>3. QED BY <2>1, <2>2
<1>3. ASSUME NEW q \in Requests, EnsureMarker(q) PROVE Forward
  <2>1. req[q].call \in Calls /\ req[q].intent \in Intents
    BY <1>3 DEF EnsureMarker, Placed
  <2>2. UNCHANGED calls \/ PinMarker(req[q].call, req[q].intent)
    BY <1>3 DEF EnsureMarker
  <2>3. QED BY <1>1, <2>1, <2>2, PinEffect DEF Forward
<1>4. QED BY <1>1, <1>2, <1>3
      DEF Next, Submit, Claim, RejectProbe, ApplyProbe, CreateArticle, Recheck, ReadTarget, WriteTarget,
          TxTimeout, GiveUp, Crash, UserEdits, Archive, Purge, vars

-----------------------------------------------------------------------------
(* Where the requests stand *)

\* One request, as Placed wants it.
PlacedAt(q) ==
  /\ req[q].pc # "idle" => req[q].call \in Calls
  /\ req[q].pc = "marker" => req[q].op = "apply" /\ req[q].call \in Creates /\ req[q].intent \in Intents
  /\ req[q].pc = "claim" /\ req[q].intent # NoIntent =>
       /\ req[q].op = "apply" /\ req[q].call \in Creates
       /\ calls[req[q].call].marker # NoMarker
  /\ req[q].pc \in {"create", "recheck"} =>
       /\ req[q].op = "apply" /\ req[q].call \in Creates
       /\ MarkerOf(q) # NoMarker
  /\ req[q].pc = "probe" /\ req[q].op = "apply" =>
       req[q].call \in Creates /\ MarkerOf(q) # NoMarker
  /\ req[q].pc \in {"read", "write"} => req[q].call \in Edits
  /\ req[q].pc \in Working => req[q].outcome # "pending"

\* A request that does not move stays where it is.
LEMMA PlacedStays ==
  ASSUME Placed, Forward, NEW q \in Requests, req'[q] = req[q]
  PROVE  PlacedAt(q)'
BY DEF Placed, PlacedAt, Forward, MarkerOf

LEMMA PlacedIdle == ASSUME NEW q \in Requests, req'[q] = Idle PROVE PlacedAt(q)'
BY DEF PlacedAt, Idle, Working


LEMMA NextPlaced == TypeOK /\ Placed /\ Held /\ [Next]_vars => Placed'
<1> SUFFICES ASSUME TypeOK, Placed, Held, [Next]_vars, NEW q \in Requests PROVE PlacedAt(q)'
  BY DEF Placed, PlacedAt
<1>0. Forward /\ PlacedAt(q) /\ req \in [Requests -> Request]
  BY NextForward DEF Placed, PlacedAt, TypeOK
<1>1. CASE req'[q] = req[q]
  BY <1>1, <1>0, PlacedStays
<1>2. CASE req'[q] = Idle
  BY <1>2, PlacedIdle
<1>3. ASSUME NEW op \in {"apply", "reject"}, NEW c \in Calls, NEW intent \in Intents \union {NoIntent},
             Submit(q, op, c, intent)
      PROVE  PlacedAt(q)'
  <2>1. req'[q] = [Idle EXCEPT !.pc = IF intent = NoIntent THEN "claim" ELSE "marker",
                               !.op = op, !.call = c, !.intent = intent]
        /\ (intent # NoIntent => op = "apply" /\ c \in Creates)
    BY <1>0, <1>3 DEF Submit
  <2>2. /\ req'[q].call = c /\ req'[q].intent = intent
        /\ req'[q].pc = IF intent = NoIntent THEN "claim" ELSE "marker"
    BY <2>1 DEF Idle
  <2>3. QED BY <2>1, <2>2 DEF PlacedAt, Working
<1>4. CASE EnsureMarker(q)
  <2>1. req[q].pc = "marker" /\ req[q].call \in Creates /\ req[q].call \in Calls /\ req[q].intent \in Intents
    BY <1>0, <1>4 DEF EnsureMarker, PlacedAt
  <2>2. CASE req'[q] = [req[q] EXCEPT !.pc = "claim"] /\ PinMarker(req[q].call, req[q].intent)
    <3>1. calls'[req[q].call].marker # NoMarker
      <4>1. \A a \in UnusedIds : [id |-> a, intent |-> req[q].intent] # NoMarker
        BY <2>1, MarkerTypes DEF Marker, UnusedIds
      <4>2. CASE calls[req[q].call].marker # NoMarker
        BY <1>0, <2>1, <4>2 DEF Forward
      <4>3. CASE calls[req[q].call].marker = NoMarker
        <5>1. \E a \in UnusedIds : calls'[req[q].call].marker = [id |-> a, intent |-> req[q].intent]
          BY <2>1, <2>2, <4>3, PinEffect
        <5>2. QED BY <4>1, <5>1
      <4>4. QED BY <4>2, <4>3
    <3>2. req[q].op = "apply"
      BY <1>0, <2>1 DEF PlacedAt
    <3>3. QED BY <1>0, <2>1, <2>2, <3>1, <3>2 DEF PlacedAt, Request, Working
  <2>3. \/ req'[q] = [req[q] EXCEPT !.pc = "claim"] /\ PinMarker(req[q].call, req[q].intent)
        \/ req'[q] = Idle
    BY <1>0, <1>4 DEF EnsureMarker, Goto, Drop
  <2>4. QED BY <1>2, <2>2, <2>3
<1>5. CASE Claim(q)
  <2>1. CASE req'[q] = [req[q] EXCEPT !.pc = FirstStep(q), !.seen = calls, !.intent = NoIntent,
                                     !.outcome = "failed"]
    <3>1. /\ req'[q].pc = FirstStep(q) /\ req'[q].seen = calls /\ req'[q].outcome = "failed"
          /\ req'[q].call = req[q].call /\ req'[q].op = req[q].op /\ req'[q].intent = NoIntent
      BY <1>0, <2>1 DEF Request
    <3>2. req[q].pc = "claim"
      BY <1>5 DEF Claim
    <3>3. \/ FirstStep(q) = "probe" /\ (req[q].op = "reject" \/ req[q].intent # NoIntent)
          \/ FirstStep(q) = "read" /\ req[q].call \in Edits
          \/ FirstStep(q) = "settle"
      BY DEF FirstStep
    <3>4. MarkerOf(q)' = calls[req[q].call].marker
      BY <3>1 DEF MarkerOf
    <3>5. QED BY <1>0, <3>1, <3>2, <3>3, <3>4 DEF PlacedAt, Working
  <2>2. QED BY <1>0, <1>2, <1>5, <2>1 DEF Claim, Drop
<1>6. CASE RejectProbe(q) \/ Recheck(q)
  <2>1. PICK outcome \in Terminal : req'[q] = [req[q] EXCEPT !.pc = "settle", !.outcome = outcome]
    BY <1>0, <1>6 DEF RejectProbe, Recheck, RejectOutcome, RecheckOutcome, Finish, Terminal, Request
  <2>2. req'[q].pc = "settle" /\ req'[q].outcome = outcome /\ req'[q].call = req[q].call
    BY <1>0, <2>1 DEF Request
  <2>3. req[q].pc # "idle"
    BY <1>6 DEF RejectProbe, Recheck
  <2>4. QED BY <1>0, <2>2, <2>3 DEF PlacedAt, Terminal
<1>7. ASSUME NEW pc \in {"create", "recheck", "write", "settle"},
             NEW outcome \in Terminal,
             \/ req'[q] = [req[q] EXCEPT !.pc = pc]
             \/ pc = "settle" /\ req'[q] = [req[q] EXCEPT !.pc = pc, !.outcome = outcome],
             req[q].pc \in Working,
             pc \in {"create", "recheck"} => req[q].op = "apply" /\ req[q].pc \in {"probe", "create"},
             pc = "write" => req[q].pc = "read"
      PROVE  PlacedAt(q)'
  <2>1. /\ req'[q].pc = pc /\ req'[q].call = req[q].call /\ req'[q].op = req[q].op
        /\ req'[q].seen = req[q].seen /\ req'[q].outcome \in {req[q].outcome, outcome}
    BY <1>0, <1>7 DEF Request
  <2>2. MarkerOf(q)' = MarkerOf(q)
    BY <2>1 DEF MarkerOf
  <2>3. QED BY <1>0, <1>7, <2>1, <2>2 DEF PlacedAt, Working, Terminal
<1>8. CASE ApplyProbe(q)
  BY <1>0, <1>7, <1>8 DEF ApplyProbe, Finish, Goto, Terminal, Request, Working
<1>9. CASE CreateArticle(q)
  BY <1>0, <1>7, <1>9 DEF CreateArticle, Finish, Goto, Terminal, Request, Working, PlacedAt
<1>10. CASE ReadTarget(q)
  BY <1>0, <1>7, <1>10 DEF ReadTarget, Finish, Goto, Terminal, Request, Working
<1>11. CASE WriteTarget(q)
  BY <1>0, <1>7, <1>11 DEF WriteTarget, Finish, Terminal, Request, Working
<1>12. CASE Settle(q) \/ GiveUp(q) \/ Crash(q)
  BY <1>0, <1>2, <1>12 DEF Settle, GiveUp, Crash, Drop
<1>13. ASSUME NEW r \in Requests, r # q,
              \/ \E op \in {"apply", "reject"}, c \in Calls, intent \in Intents \union {NoIntent} :
                   Submit(r, op, c, intent)
              \/ EnsureMarker(r) \/ Claim(r) \/ Settle(r) \/ RejectProbe(r) \/ ApplyProbe(r)
              \/ CreateArticle(r) \/ Recheck(r) \/ ReadTarget(r) \/ WriteTarget(r)
              \/ TxTimeout(r) \/ GiveUp(r) \/ Crash(r)
       PROVE  req'[q] = req[q]
  BY <1>0, <1>13
  DEF Submit, EnsureMarker, Claim, Settle, RejectProbe, ApplyProbe, CreateArticle, Recheck, ReadTarget,
      WriteTarget, TxTimeout, GiveUp, Crash, Goto, Drop, Finish
<1>14. CASE TxTimeout(q) \/ UserEdits \/ Archive \/ (\E a \in ArticleIds : Purge(a)) \/ UNCHANGED vars
  BY <1>1, <1>14 DEF TxTimeout, UserEdits, Archive, Purge, vars
<1>15. QED BY <1>1, <1>3, <1>4, <1>5, <1>6, <1>8, <1>9, <1>10, <1>11, <1>12, <1>13, <1>14 DEF Next

LEMMA NextHeld == TypeOK /\ Placed /\ Held /\ [Next]_vars => Held'
<1> SUFFICES ASSUME TypeOK, Placed, Held, [Next]_vars, NEW q \in Requests, HoldsLock(q)'
             PROVE  /\ req'[q].pc \in Working
                    /\ req'[q].seen = calls'
                    /\ calls'[req'[q].call].status = "pending"
  BY DEF Held
<1> DEFINE Goal == /\ req'[q].pc \in Working
                   /\ req'[q].seen = calls'
                   /\ calls'[req'[q].call].status = "pending"
<1>0. req \in [Requests -> Request] /\ lock' = q /\ q # Free
  BY ChatAssumption DEF ChatAssumption, TypeOK, HoldsLock
<1>1. ASSUME UNCHANGED <<calls, lock>>, req'[q].pc \in Working,
             req'[q].seen = req[q].seen, req'[q].call = req[q].call
      PROVE  Goal
  BY <1>0, <1>1 DEF Held, HoldsLock
<1>2. CASE Claim(q)
  <2>1. CASE StillPending(req[q].call)
    <3>1. req'[q] = [req[q] EXCEPT !.pc = FirstStep(q), !.seen = calls, !.intent = NoIntent, !.outcome = "failed"]
          /\ UNCHANGED calls
      BY <1>0, <1>2, <2>1 DEF Claim
    <3>2. req'[q].pc = FirstStep(q) /\ req'[q].seen = calls /\ req'[q].call = req[q].call
      BY <1>0, <3>1 DEF Request
    <3>3. QED BY <2>1, <3>1, <3>2 DEF StillPending, FirstStep, Working
  <2>2. CASE ~StillPending(req[q].call)
    <3>1. lock = q /\ lock = Free
      BY <1>0, <1>2, <2>2 DEF Claim
    <3>2. QED BY <1>0, <3>1
  <2>3. QED BY <2>1, <2>2
<1>3. ASSUME NEW r \in Requests, EnsureMarker(r) \/ Claim(r) \/ Settle(r) \/ Crash(r) \/ TxTimeout(r),
             r = q => ~Claim(r)
      PROVE  Goal
  <2>1. CASE EnsureMarker(r)
    BY <1>0, <2>1 DEF EnsureMarker
  <2>2. CASE Claim(r)
    <3>1. r # q /\ (lock' = r \/ lock' = Free)
      BY <1>3, <2>2 DEF Claim
    <3>2. QED BY <1>0, <3>1
  <2>3. CASE Settle(r) \/ Crash(r)
    <3>1. lock # r /\ UNCHANGED <<calls, lock>> /\ r # q
      BY <1>0, <2>3 DEF Settle, Crash, HoldsLock
    <3>2. req'[q] = req[q]
      BY <1>0, <2>3, <3>1 DEF Settle, Crash, Drop
    <3>3. QED BY <1>0, <1>1, <3>1, <3>2 DEF Held, HoldsLock
  <2>4. CASE TxTimeout(r)
    BY <1>0, <2>4 DEF TxTimeout
  <2>5. QED BY <1>3, <2>1, <2>2, <2>3, <2>4
<1>4. ASSUME NEW r \in Requests,
             \/ RejectProbe(r) \/ ApplyProbe(r) \/ CreateArticle(r) \/ Recheck(r)
             \/ ReadTarget(r) \/ WriteTarget(r) \/ GiveUp(r)
             \/ \E op \in {"apply", "reject"}, c \in Calls, intent \in Intents \union {NoIntent} :
                  Submit(r, op, c, intent)
      PROVE  Goal
  <2>1. UNCHANGED <<calls, lock>> /\ req[q].pc \in Working
    BY <1>0, <1>4
    DEF RejectProbe, ApplyProbe, CreateArticle, Recheck, ReadTarget, WriteTarget, GiveUp, Submit, Held, HoldsLock
  <2>2. CASE r # q
    <3>1. req'[q] = req[q]
      BY <1>0, <1>4, <2>2
      DEF RejectProbe, ApplyProbe, CreateArticle, Recheck, ReadTarget, WriteTarget, GiveUp, Submit, Goto, Drop,
          Finish
    <3>2. QED BY <1>1, <2>1, <3>1
  <2>3. CASE r = q
    <3>1. ASSUME NEW pc \in Working, Goto(r, pc) PROVE Goal
      <4>1. req'[q] = [req[q] EXCEPT !.pc = pc]
        BY <1>0, <2>3, <3>1 DEF Goto
      <4>2. QED BY <1>0, <1>1, <2>1, <4>1 DEF Request
    <3>2. ASSUME NEW outcome, Finish(r, outcome) PROVE Goal
      <4>1. req'[q] = [req[q] EXCEPT !.pc = "settle", !.outcome = outcome]
        BY <1>0, <2>3, <3>2 DEF Finish, Request
      <4>2. "settle" \in Working
        BY DEF Working
      <4>3. QED BY <1>0, <1>1, <2>1, <4>1, <4>2 DEF Request
    <3>3. ~GiveUp(r)
      BY <2>1, <2>3 DEF GiveUp, Working
    <3>4. ASSUME NEW op \in {"apply", "reject"}, NEW c \in Calls, NEW intent \in Intents \union {NoIntent}
          PROVE  ~Submit(r, op, c, intent)
      BY <2>1, <2>3 DEF Submit, Working
    <3>5. "create" \in Working /\ "recheck" \in Working /\ "write" \in Working
      BY DEF Working
    <3>6. QED BY <1>4, <3>1, <3>2, <3>3, <3>4, <3>5
          DEF RejectProbe, ApplyProbe, CreateArticle, Recheck, ReadTarget, WriteTarget
  <2>4. QED BY <2>2, <2>3
<1>5. CASE UserEdits \/ Archive \/ (\E a \in ArticleIds : Purge(a)) \/ UNCHANGED vars
  BY <1>0, <1>5 DEF UserEdits, Archive, Purge, vars, Held, HoldsLock
<1>6. QED BY <1>2, <1>3, <1>4, <1>5 DEF Next

-----------------------------------------------------------------------------
(* What is pinned is created, once *)

Pinned ==
  /\ \A c \in Calls : calls[c].marker # NoMarker => c \in Creates
  /\ \A c, d \in Calls :
       calls[c].marker # NoMarker /\ calls[d].marker # NoMarker /\ calls[c].marker.id = calls[d].marker.id
         => c = d
  /\ \A q \in Requests : req[q].pc \in Working =>
       \A c \in Calls : req[q].seen[c].marker # NoMarker => req[q].seen[c].marker = calls[c].marker
  /\ \A c \in Creates : \A a \in made[c] :
       /\ calls[c].marker # NoMarker /\ calls[c].marker.id = a
       /\ article[a] \in {NoIntent, calls[c].marker.intent}
  /\ \A a \in ArticleIds : article[a] # NoIntent =>
       \E c \in Creates : a \in made[c]

SafeInv == TypeOK /\ Placed /\ Held /\ Pinned

\* What a create at work writes is what its call's marker pins.
LEMMA WorkingMarker ==
  ASSUME SafeInv, NEW q \in Requests, req[q].pc \in Working, MarkerOf(q) # NoMarker
  PROVE  req[q].call \in Creates /\ MarkerOf(q) = calls[req[q].call].marker /\ MarkerOf(q) \in Marker
<1>1. req[q].call \in Calls
  BY DEF SafeInv, Placed, Working
<1>2. MarkerOf(q) = calls[req[q].call].marker
  BY <1>1 DEF SafeInv, Pinned, MarkerOf
<1>3. QED BY <1>1, <1>2, MarkerIds DEF SafeInv, Pinned

LEMMA InitPinned == Init => Pinned
BY DEF Init, Pinned, Idle, Calls

LEMMA NextPinned == SafeInv /\ [Next]_vars => Pinned'
<1> SUFFICES ASSUME SafeInv, [Next]_vars PROVE Pinned'
  OBVIOUS
<1>0. TypeOK /\ Placed /\ Held /\ Pinned /\ Forward /\ req \in [Requests -> Request]
  BY NextForward DEF SafeInv, TypeOK
<1>1. ASSUME NEW q \in Requests, EnsureMarker(q) PROVE Pinned'
  <2>1. req[q].call \in Creates /\ req[q].call \in Calls /\ req[q].intent \in Intents
    BY <1>0, <1>1 DEF EnsureMarker, Placed
  <2>2. CASE UNCHANGED calls
    <3>1. \A r \in Requests : req'[r].pc \in Working => req'[r] = req[r]
      BY <1>0, <1>1 DEF EnsureMarker, Goto, Drop, Idle, Working, Request
    <3>2. UNCHANGED <<made, article>>
      BY <1>1 DEF EnsureMarker
    <3>3. QED BY <1>0, <2>2, <3>1, <3>2 DEF Pinned
  <2>3. ASSUME NEW a \in UnusedIds, calls[req[q].call].marker = NoMarker,
               calls'[req[q].call].marker = [id |-> a, intent |-> req[q].intent],
               \A d \in Calls \ {req[q].call} : calls'[d] = calls[d]
        PROVE  Pinned'
    <3>1. \A r \in Requests : req'[r].pc \in Working => req'[r] = req[r]
      BY <1>0, <1>1 DEF EnsureMarker, Goto, Drop, Idle, Working, Request
    <3>2. UNCHANGED <<made, article>>
      BY <1>1 DEF EnsureMarker
    <3>3. a \in ArticleIds /\ [id |-> a, intent |-> req[q].intent] # NoMarker
          /\ [id |-> a, intent |-> req[q].intent].id = a
          /\ \A d \in Calls : calls[d].marker = NoMarker \/ calls[d].marker.id # a
      BY <2>1, MarkerTypes DEF Marker, UnusedIds
    <3>4. made[req[q].call] = {}
      BY <1>0, <2>1, <2>3 DEF Pinned, TypeOK
    <3>5. \A c, d \in Calls :
            calls'[c].marker # NoMarker /\ calls'[d].marker # NoMarker /\ calls'[c].marker.id = calls'[d].marker.id
              => c = d
      BY <1>0, <2>1, <2>3, <3>3 DEF Pinned
    <3>6. \A r \in Requests : req'[r].pc \in Working =>
            \A c \in Calls : req'[r].seen[c].marker # NoMarker => req'[r].seen[c].marker = calls'[c].marker
      BY <1>0, <2>1, <2>3, <3>1 DEF Pinned, Forward
    <3>7. \A c \in Creates : \A b \in made[c] :
            /\ calls'[c].marker # NoMarker /\ calls'[c].marker.id = b
            /\ article[b] \in {NoIntent, calls'[c].marker.intent}
      BY <1>0, <2>3, <3>4 DEF Pinned, Calls
    <3>8. QED BY <1>0, <2>1, <2>3, <3>2, <3>5, <3>6, <3>7 DEF Pinned
  <2>4. UNCHANGED calls \/ PinMarker(req[q].call, req[q].intent)
    BY <1>1 DEF EnsureMarker
  <2>5. QED BY <1>0, <2>1, <2>2, <2>3, <2>4, PinEffect
<1>2. ASSUME \A c \in Calls : calls'[c].marker = calls[c].marker,
             \A r \in Requests : req'[r].pc \in Working => req'[r].seen \in {req[r].seen, calls} /\
                                                           (req'[r].seen # calls => req[r].pc \in Working),
             UNCHANGED made, \A a \in ArticleIds : article'[a] \in {article[a], NoIntent}
      PROVE  Pinned'
  <2>1. \A c \in Creates : made[c] \subseteq ArticleIds
    BY <1>0 DEF TypeOK
  <2>2. \A r \in Requests : req'[r].pc \in Working =>
          \A c \in Calls : req'[r].seen[c].marker # NoMarker => req'[r].seen[c].marker = calls'[c].marker
    BY <1>0, <1>2 DEF Pinned
  <2>3. \A c \in Creates : \A a \in made[c] :
          /\ calls'[c].marker # NoMarker /\ calls'[c].marker.id = a
          /\ article'[a] \in {NoIntent, calls'[c].marker.intent}
    BY <1>0, <1>2, <2>1 DEF Pinned, Calls
  <2>4. QED BY <1>0, <1>2, <2>2, <2>3 DEF Pinned
<1>3. ASSUME NEW q \in Requests, CreateArticle(q) PROVE Pinned'
  <2>1. \A r \in Requests : req'[r].seen = req[r].seen /\ (req'[r].pc \in Working => req[r].pc \in Working)
    BY <1>0, <1>3 DEF CreateArticle, Finish, Goto, Working, Request
  <2>2. UNCHANGED calls
    BY <1>3 DEF CreateArticle
  <2>3. CASE UNCHANGED <<article, made>>
    BY <1>2, <2>1, <2>2, <2>3
  <2>4. CASE /\ ~Exists(MarkerOf(q))
             /\ article' = [article EXCEPT ![MarkerOf(q).id] = MarkerOf(q).intent]
             /\ made' = [made EXCEPT ![req[q].call] = @ \union {MarkerOf(q).id}]
    <3>1. MarkerOf(q) # NoMarker /\ req[q].pc \in Working
      BY <1>0, <1>3 DEF CreateArticle, Placed, Working
    <3>2. /\ req[q].call \in Creates /\ MarkerOf(q) = calls[req[q].call].marker /\ MarkerOf(q) \in Marker
      BY <3>1, WorkingMarker
    <3>3. PICK c \in Creates : c = req[q].call /\ c \in Calls
      BY <3>2 DEF Calls
    <3>4. PICK m \in Marker : m = MarkerOf(q) /\ m = calls[c].marker /\ m # NoMarker
      BY <3>1, <3>2, <3>3
    <3>5. m.id \in ArticleIds /\ m.intent \in Intents
      BY DEF Marker
    <3>6. article' = [article EXCEPT ![m.id] = m.intent] /\ made' = [made EXCEPT ![c] = @ \union {m.id}]
      BY <2>4, <3>3, <3>4
    <3>7. \A d \in Creates : \A a \in made'[d] :
            /\ calls[d].marker # NoMarker /\ calls[d].marker.id = a
            /\ article'[a] \in {NoIntent, calls[d].marker.intent}
      BY <1>0, <3>3, <3>4, <3>5, <3>6 DEF Pinned, TypeOK, Calls
    <3>8. \A a \in ArticleIds : article'[a] # NoIntent => \E d \in Creates : a \in made'[d]
      BY <1>0, <3>5, <3>6 DEF Pinned, TypeOK
    <3>9. QED BY <1>0, <2>1, <2>2, <3>7, <3>8 DEF Pinned
  <2>5. QED BY <1>3, <2>3, <2>4 DEF CreateArticle
<1>4. ASSUME NEW q \in Requests, Settle(q) PROVE Pinned'
  <2>1. \A c \in Calls : calls'[c].marker = calls[c].marker
    BY <1>0, <1>4, SettleEffect DEF Settle
  <2>2. \A r \in Requests : req'[r].pc \in Working => req'[r] = req[r]
    BY <1>0, <1>4 DEF Settle, Drop, Idle, Working
  <2>3. QED BY <1>2, <1>4, <2>1, <2>2 DEF Settle
<1>5. ASSUME NEW q \in Requests, Claim(q) PROVE Pinned'
  <2>1. \A r \in Requests : req'[r].pc \in Working => req'[r] = req[r] \/ req'[r].seen = calls
    BY <1>0, <1>5 DEF Claim, Drop, Idle, Working, Request
  <2>2. QED BY <1>2, <1>5, <2>1 DEF Claim
<1>6. ASSUME NEW q \in Requests,
             \/ RejectProbe(q) \/ ApplyProbe(q) \/ Recheck(q) \/ ReadTarget(q) \/ WriteTarget(q)
             \/ TxTimeout(q) \/ GiveUp(q) \/ Crash(q)
             \/ \E op \in {"apply", "reject"}, c \in Calls, intent \in Intents \union {NoIntent} :
                  Submit(q, op, c, intent)
      PROVE  Pinned'
  <2>1. UNCHANGED <<calls, made, article>>
    BY <1>6 DEF RejectProbe, ApplyProbe, Recheck, ReadTarget, WriteTarget, TxTimeout, GiveUp, Crash, Submit
  <2>2. \A r \in Requests \ {q} : req'[r] = req[r]
    BY <1>0, <1>6
    DEF RejectProbe, ApplyProbe, Recheck, ReadTarget, WriteTarget, TxTimeout, GiveUp, Crash, Submit, Goto,
        Drop, Finish
  <2>3. req'[q].pc \in Working => req'[q].seen = req[q].seen /\ req[q].pc \in Working
    <3>1. CASE RejectProbe(q) \/ ApplyProbe(q) \/ Recheck(q)
      BY <1>0, <3>1 DEF RejectProbe, ApplyProbe, Recheck, Goto, Finish, Request, Working
    <3>2. CASE ReadTarget(q) \/ WriteTarget(q)
      BY <1>0, <3>2 DEF ReadTarget, WriteTarget, Goto, Finish, Request, Working
    <3>3. CASE TxTimeout(q) \/ GiveUp(q) \/ Crash(q)
      BY <1>0, <3>3 DEF TxTimeout, GiveUp, Crash, Drop, Idle, Working
    <3>4. ASSUME NEW op \in {"apply", "reject"}, NEW c \in Calls, NEW intent \in Intents \union {NoIntent},
                 Submit(q, op, c, intent)
          PROVE  req'[q].pc \notin Working
      BY <1>0, <3>4 DEF Submit, Idle, Working
    <3>5. QED BY <1>6, <3>1, <3>2, <3>3, <3>4
  <2>4. QED BY <1>2, <2>1, <2>2, <2>3
<1>7. CASE UserEdits \/ Archive \/ UNCHANGED vars
  BY <1>2, <1>7 DEF UserEdits, Archive, vars
<1>8. CASE \E a \in ArticleIds : Purge(a)
  BY <1>0, <1>2, <1>8 DEF Purge, TypeOK
<1>9. QED BY <1>1, <1>3, <1>4, <1>5, <1>6, <1>7, <1>8 DEF Next

LEMMA InitSafeInv == Init => SafeInv
BY InitTypeOK, InitPinned DEF SafeInv

LEMMA NextSafeInv == SafeInv /\ [Next]_vars => SafeInv'
BY NextTypeOK, NextPlaced, NextHeld, NextPinned DEF SafeInv

-----------------------------------------------------------------------------
(* What is reported is what happened *)

Done(c) == IF c \in Creates THEN made[c] # {} ELSE landed[c] # {}

\* The holder is about to report c as applied.
Reporting(q, c) ==
  /\ HoldsLock(q)
  /\ req[q].call = c
  /\ req[q].pc = "recheck" \/ (req[q].pc = "settle" /\ req[q].outcome = "applied")

Reported ==
  /\ \A c \in Calls : calls[c].status = "applied" => Done(c)
  /\ \A q \in Requests : req[q].pc = "settle" /\ req[q].outcome = "applied" => Done(req[q].call)
  /\ \A q \in Requests : req[q].pc \in Working /\ ~HoldsLock(q) => req[q].call \in overran
  /\ overran \subseteq interrupted
  /\ \A c \in Calls : Stands(c) =>
       c \in interrupted \/ calls[c].status = "applied" \/ \E q \in Requests : Reporting(q, c)

\* A rejected create does not stand, nor one about to be rejected.
Refused ==
  /\ \A c \in Creates : calls[c].status = "rejected" /\ Stands(c) => c \in overran
  /\ \A q \in Requests :
       HoldsLock(q) /\ req[q].pc = "settle" /\ req[q].outcome = "rejected"
         /\ req[q].call \in Creates /\ Stands(req[q].call) => req[q].call \in overran

\* The article of a create at work stands exactly if its marker's id exists.
LEMMA StandsIfExists ==
  ASSUME SafeInv, NEW q \in Requests, req[q].pc \in Working, MarkerOf(q) # NoMarker
  PROVE  Exists(MarkerOf(q)) <=> Stands(req[q].call)
<1>1. PICK c \in Creates : c = req[q].call /\ c \in Calls /\ MarkerOf(q) = calls[c].marker
  BY WorkingMarker DEF Calls
<1>2. MarkerOf(q).id \in ArticleIds
  BY WorkingMarker DEF Marker
<1>3. Exists(MarkerOf(q)) => MarkerOf(q).id \in made[c]
  <2>1. ASSUME Exists(MarkerOf(q)) PROVE MarkerOf(q).id \in made[c]
    <3>1. PICK d \in Creates : MarkerOf(q).id \in made[d]
      BY <1>2, <2>1 DEF SafeInv, Pinned, Exists
    <3>2. d \in Calls /\ calls[d].marker # NoMarker /\ calls[d].marker.id = calls[c].marker.id
      BY <1>1, <3>1 DEF SafeInv, Pinned, Calls
    <3>3. d = c
      BY <1>1, <3>2 DEF SafeInv, Pinned
    <3>4. QED BY <3>1, <3>3
  <2>2. QED BY <2>1
<1>4. \A a \in made[c] : a = MarkerOf(q).id
  BY <1>1 DEF SafeInv, Pinned
<1>5. QED BY <1>1, <1>3, <1>4 DEF Stands, Exists

LEMMA ExistsIsDone ==
  ASSUME SafeInv, NEW q \in Requests, req[q].pc \in Working, Exists(MarkerOf(q))
  PROVE  Done(req[q].call)
BY StandsIfExists, WorkingMarker DEF Exists, Stands, Done

\* The holder sees no marker: nothing was created.
LEMMA UnpinnedStandsNot ==
  ASSUME SafeInv, NEW q \in Requests, HoldsLock(q), req[q].call \in Creates, MarkerOf(q) = NoMarker
  PROVE  ~Stands(req[q].call)
<1>1. calls[req[q].call].marker = NoMarker
  BY DEF SafeInv, Held, MarkerOf
<1>2. QED BY <1>1 DEF SafeInv, Pinned, Stands

\* What was done stays done, and a step makes a call stand only where it wrote.
Lasting ==
  /\ \A c \in Calls : Done(c) => Done(c)'
  /\ interrupted \subseteq interrupted' /\ overran \subseteq overran'
  /\ \A c \in Calls : Stands(c)' => Stands(c) \/
       \E q \in Requests : (CreateArticle(q) \/ WriteTarget(q)) /\ req[q].call = c

LEMMA NextLasting == SafeInv /\ [Next]_vars => Lasting
<1> SUFFICES ASSUME SafeInv, [Next]_vars PROVE Lasting
  OBVIOUS
<1>0. TypeOK /\ Placed /\ Pinned
  BY DEF SafeInv
<1>1. CASE UNCHANGED <<made, landed, article>>
           /\ interrupted \subseteq interrupted' /\ overran \subseteq overran'
  BY <1>1 DEF Lasting, Done, Stands
<1>2. ASSUME NEW q \in Requests, CreateArticle(q) PROVE Lasting
  <2>1. req[q].call \in Creates /\ MarkerOf(q) = calls[req[q].call].marker /\ MarkerOf(q) \in Marker
        /\ MarkerOf(q) # NoMarker
    BY <1>0, <1>2, WorkingMarker DEF CreateArticle, Placed, Working
  <2>2. CASE UNCHANGED <<article, made>>
    BY <1>1, <1>2, <2>2 DEF CreateArticle
  <2>3. CASE article' = [article EXCEPT ![MarkerOf(q).id] = MarkerOf(q).intent]
             /\ made' = [made EXCEPT ![req[q].call] = @ \union {MarkerOf(q).id}]
    <3>1. PICK c \in Creates : c = req[q].call /\ c \in Calls
      BY <2>1 DEF Calls
    <3>2. PICK m \in Marker : m = MarkerOf(q) /\ m = calls[c].marker /\ m # NoMarker
      BY <2>1, <3>1
    <3>3. article' = [article EXCEPT ![m.id] = m.intent] /\ made' = [made EXCEPT ![c] = @ \union {m.id}]
      BY <2>3, <3>1, <3>2
    <3>4. \A d \in Creates \ {c} : made'[d] = made[d] /\ \A a \in made[d] : a # m.id
      BY <1>0, <3>1, <3>2, <3>3 DEF Pinned, TypeOK, Calls
    <3>5. \A d \in Creates \ {c} : \A a \in made[d] : article'[a] = article[a]
      BY <1>0, <3>3, <3>4 DEF TypeOK
    <3>6. made[c] \subseteq made'[c] /\ UNCHANGED <<landed, interrupted, overran>>
      BY <1>0, <1>2, <3>3 DEF CreateArticle, TypeOK
    <3>7. \A d \in Calls \ {c} : Stands(d)' => Stands(d)
      BY <3>4, <3>5, <3>6 DEF Stands
    <3>8. \A d \in Calls : Done(d) => Done(d)'
      BY <3>4, <3>6 DEF Done
    <3>9. QED BY <1>2, <3>1, <3>6, <3>7, <3>8 DEF Lasting
  <2>4. QED BY <1>2, <2>2, <2>3 DEF CreateArticle
<1>3. ASSUME NEW q \in Requests, WriteTarget(q) PROVE Lasting
  <2>1. req[q].call \in Edits
    BY <1>0, <1>3 DEF WriteTarget, Placed
  <2>2. UNCHANGED landed \/ landed' = [landed EXCEPT ![req[q].call] = @ \union {doc.revision}]
    BY <1>3 DEF WriteTarget
  <2>3. /\ \A d \in Edits \ {req[q].call} : landed'[d] = landed[d]
        /\ \A d \in Edits : landed[d] \subseteq landed'[d]
    BY <1>0, <2>1, <2>2 DEF TypeOK
  <2>4. UNCHANGED <<made, article, overran>> /\ interrupted \subseteq interrupted'
    BY <1>3 DEF WriteTarget
  <2>5. \A d \in Calls \ {req[q].call} : Stands(d)' => Stands(d)
    BY <2>3, <2>4 DEF Stands, Calls
  <2>6. \A d \in Calls : Done(d) => Done(d)'
    BY <2>3, <2>4 DEF Done, Calls
  <2>7. QED BY <1>3, <2>4, <2>5, <2>6 DEF Lasting
<1>4. ASSUME NEW a \in ArticleIds, Purge(a) PROVE Lasting
  <2>1. \A b \in ArticleIds : article'[b] \in {article[b], NoIntent}
    BY <1>0, <1>4 DEF Purge, TypeOK
  <2>2. UNCHANGED <<made, landed, interrupted, overran>> /\ \A c \in Creates : made[c] \subseteq ArticleIds
    BY <1>0, <1>4 DEF Purge, TypeOK
  <2>3. QED BY <2>1, <2>2 DEF Lasting, Done, Stands
<1>5. QED BY <1>1, <1>2, <1>3, <1>4
      DEF Next, Submit, EnsureMarker, Claim, Settle, RejectProbe, ApplyProbe, Recheck, ReadTarget,
          TxTimeout, GiveUp, Crash, UserEdits, Archive, vars

\* The steps a request takes once it has claimed its call.
WorkStep(q) ==
  \/ RejectProbe(q) \/ ApplyProbe(q) \/ CreateArticle(q) \/ Recheck(q)
  \/ ReadTarget(q) \/ WriteTarget(q)

LEMMA WorkEffects ==
  ASSUME SafeInv, NEW q \in Requests, WorkStep(q)
  PROVE  /\ UNCHANGED <<calls, lock, overran>>
         /\ req[q].pc \in Working \ {"settle"} /\ req'[q].pc \in Working
         /\ req'[q].call = req[q].call /\ req[q].call \in Calls
         /\ \A r \in Requests \ {q} : req'[r] = req[r]
<1>0. req \in [Requests -> Request] /\ Placed
  BY DEF SafeInv, TypeOK
<1>1. req[q].pc \in Working \ {"settle"} /\ UNCHANGED <<calls, lock, overran>>
  BY DEF WorkStep, RejectProbe, ApplyProbe, CreateArticle, Recheck, ReadTarget, WriteTarget, Working
<1>2. \A r \in Requests \ {q} : req'[r] = req[r]
  BY <1>0
  DEF WorkStep, RejectProbe, ApplyProbe, CreateArticle, Recheck, ReadTarget, WriteTarget, Goto, Finish
<1>3. ASSUME NEW pc \in Working, Goto(q, pc) PROVE req'[q].pc \in Working /\ req'[q].call = req[q].call
  BY <1>0, <1>3 DEF Goto, Request
<1>4. ASSUME NEW outcome, Finish(q, outcome) PROVE req'[q].pc \in Working /\ req'[q].call = req[q].call
  BY <1>0, <1>4 DEF Finish, Request, Working
<1>5. (\E outcome \in Terminal : Finish(q, outcome)) \/ \E pc \in Working : Goto(q, pc)
  <2>1. CASE RejectProbe(q) \/ Recheck(q)
    BY <2>1 DEF RejectProbe, Recheck, RejectOutcome, RecheckOutcome, Terminal
  <2>2. CASE ApplyProbe(q) \/ CreateArticle(q)
    BY <2>2 DEF ApplyProbe, CreateArticle, Terminal, Working
  <2>3. CASE ReadTarget(q) \/ WriteTarget(q)
    BY <2>3 DEF ReadTarget, WriteTarget, Terminal, Working
  <2>4. QED BY <2>1, <2>2, <2>3 DEF WorkStep
<1>6. QED BY <1>0, <1>1, <1>2, <1>3, <1>4, <1>5 DEF Placed, Working

\* What the steps of a request at work on a call that does not stand report.
LEMMA WorkOutcome ==
  ASSUME SafeInv, NEW q \in Requests, NEW c \in Calls, req[q].call = c, WorkStep(q), req'[q].pc = "settle"
  PROVE  /\ req'[q].outcome = "applied" => Done(c)'
         /\ req'[q].outcome = "rejected" => RejectProbe(q) /\ ~Exists(MarkerOf(q))
<1>0. req \in [Requests -> Request] /\ Placed /\ TypeOK
  BY DEF SafeInv, TypeOK
<1>1. ASSUME NEW outcome, Finish(q, outcome) PROVE req'[q].outcome = outcome
  BY <1>0, <1>1 DEF Finish, Request
<1>2. ASSUME NEW pc \in {"create", "recheck", "write"}, Goto(q, pc) PROVE FALSE
  BY <1>0, <1>2 DEF Goto, Request
<1>3. CASE RejectProbe(q)
  <2>1. req[q].pc \in Working /\ UNCHANGED <<made, landed>> /\ req'[q].outcome = RejectOutcome(q)
    BY <1>1, <1>3 DEF RejectProbe, Working
  <2>2. QED BY <1>3, <2>1, ExistsIsDone DEF RejectOutcome, Done
<1>4. CASE ApplyProbe(q)
  <2>1. req[q].pc \in Working /\ UNCHANGED <<made, landed>>
    BY <1>4 DEF ApplyProbe, Working
  <2>2. req'[q].outcome = "failed" \/ (req'[q].outcome = "applied" /\ Exists(MarkerOf(q)))
    BY <1>1, <1>2, <1>4 DEF ApplyProbe
  <2>3. QED BY <2>1, <2>2, ExistsIsDone DEF Done
<1>5. CASE CreateArticle(q)
  <2>1. /\ req'[q].outcome = "applied"
        /\ made' = [made EXCEPT ![c] = @ \union {MarkerOf(q).id}]
    BY <1>1, <1>2, <1>5 DEF CreateArticle
  <2>2. c \in Creates
    BY <1>0, <1>5 DEF CreateArticle, Placed
  <2>3. made'[c] # {}
    BY <1>0, <2>1, <2>2 DEF TypeOK
  <2>4. QED BY <2>1, <2>2, <2>3 DEF Done
<1>6. CASE Recheck(q)
  <2>1. /\ req[q].pc \in Working /\ UNCHANGED <<made, landed>>
        /\ req'[q].outcome = RecheckOutcome(q) \/ req'[q].outcome = "failed"
    BY <1>1, <1>6 DEF Recheck, Working
  <2>2. QED BY <2>1, ExistsIsDone DEF RecheckOutcome, Done
<1>7. CASE ReadTarget(q)
  BY <1>1, <1>2, <1>7 DEF ReadTarget
<1>8. CASE WriteTarget(q)
  <2>1. c \in Edits /\ c \notin Creates
    BY <1>0, <1>8, ChatAssumption DEF ChatAssumption, WriteTarget, Placed
  <2>2. CASE landed' = [landed EXCEPT ![c] = @ \union {doc.revision}]
    <3>1. landed'[c] # {}
      BY <1>0, <2>1, <2>2 DEF TypeOK
    <3>2. req'[q].outcome \in {"applied", "failed"}
      BY <1>1, <1>8 DEF WriteTarget
    <3>3. QED BY <2>1, <3>1, <3>2 DEF Done
  <2>3. CASE ~(landed' = [landed EXCEPT ![c] = @ \union {doc.revision}])
    BY <1>1, <1>8, <2>3 DEF WriteTarget
  <2>4. QED BY <2>2, <2>3
<1>9. QED BY <1>3, <1>4, <1>5, <1>6, <1>7, <1>8 DEF WorkStep

\* The work of the holder on a call that was not cut short keeps it reported.
LEMMA HolderReports ==
  ASSUME SafeInv, Reported, Lasting, NEW q \in Requests, NEW c \in Calls, req[q].call = c,
         WorkStep(q), HoldsLock(q),
         c \notin interrupted', Stands(c)'
  PROVE  Reporting(q, c)'
<1>0. /\ req \in [Requests -> Request] /\ Placed /\ TypeOK
      /\ req[q].pc # "settle" /\ req[q].pc \in Working
      /\ req'[q].call = c /\ HoldsLock(q)'
  BY WorkEffects DEF SafeInv, TypeOK, HoldsLock
<1>1. c \notin interrupted /\ calls[c].status = "pending"
  BY <1>0 DEF Lasting, SafeInv, Held
<1>2. \A r \in Requests : HoldsLock(r) => r = q
  BY DEF HoldsLock
<1>3. Stands(c) => req[q].pc = "recheck"
  BY <1>0, <1>1, <1>2 DEF Reported, Reporting
<1>4. ASSUME NEW outcome, Finish(q, outcome) PROVE req'[q].outcome = outcome /\ req'[q].pc = "settle"
  BY <1>0, <1>4 DEF Finish, Request
<1>5. ASSUME NEW pc, Goto(q, pc) PROVE req'[q].pc = pc
  BY <1>0, <1>5 DEF Goto, Request
<1>6. CASE UNCHANGED <<made, landed, article>>
  <2>1. Stands(c) /\ req[q].pc = "recheck"
    BY <1>3, <1>6 DEF Stands
  <2>2. Recheck(q)
    BY <2>1 DEF WorkStep, RejectProbe, ApplyProbe, CreateArticle, ReadTarget, WriteTarget
  <2>3. MarkerOf(q) # NoMarker
    BY <1>0, <2>1 DEF Placed
  <2>4. Exists(MarkerOf(q))
    BY <1>0, <2>1, <2>3, StandsIfExists
  <2>5. req'[q].pc = "settle" /\ req'[q].outcome = "applied"
    BY <1>4, <2>2, <2>4 DEF Recheck, RecheckOutcome
  <2>6. QED BY <1>0, <2>5 DEF Reporting
<1>7. CASE CreateArticle(q)
  <2>1. (req'[q].pc = "settle" /\ req'[q].outcome = "applied") \/ req'[q].pc = "recheck"
    BY <1>4, <1>5, <1>7 DEF CreateArticle
  <2>2. QED BY <1>0, <2>1 DEF Reporting
<1>8. CASE WriteTarget(q)
  <2>1. c \in Edits /\ req[q].pc = "write"
    BY <1>0, <1>8 DEF WriteTarget, Placed
  <2>2. \/ req'[q].pc = "settle" /\ req'[q].outcome = "applied"
        \/ UNCHANGED <<made, landed, article>>
    BY <1>4, <1>8 DEF WriteTarget
  <2>3. QED BY <1>0, <1>6, <2>2 DEF Reporting
<1>9. QED BY <1>6, <1>7, <1>8 DEF WorkStep, RejectProbe, ApplyProbe, Recheck, ReadTarget

\* The other steps of a request: it comes, waits, claims, or goes.
OtherStep(q) ==
  \/ \E op \in {"apply", "reject"}, c \in Calls, intent \in Intents \union {NoIntent} :
       Submit(q, op, c, intent)
  \/ EnsureMarker(q) \/ Claim(q) \/ Settle(q) \/ TxTimeout(q) \/ GiveUp(q) \/ Crash(q)

LEMMA OtherEffects ==
  ASSUME SafeInv, NEW q \in Requests, OtherStep(q)
  PROVE  /\ \A r \in Requests \ {q} : req'[r] = req[r]
         /\ req'[q].pc \in Working => TxTimeout(q) \/ (Claim(q) /\ HoldsLock(q)')
         /\ Claim(q) /\ req'[q].pc = "settle" => req'[q].outcome = "failed"
         /\ HoldsLock(q) /\ ~Settle(q) => req[q].call \in interrupted'
<1>0. req \in [Requests -> Request]
  BY DEF SafeInv, TypeOK
<1>1. \A r \in Requests \ {q} : req'[r] = req[r]
  BY <1>0 DEF OtherStep, Submit, EnsureMarker, Claim, Settle, TxTimeout, GiveUp, Crash, Goto, Drop
<1>2. ASSUME req'[q] = Idle PROVE req'[q].pc \notin Working
  BY <1>2 DEF Idle, Working
<1>3. CASE Claim(q)
  <2>1. CASE StillPending(req[q].call)
    <3>1. lock' = q /\ req'[q].outcome = "failed"
      BY <1>0, <1>3, <2>1 DEF Claim, Request
    <3>2. HoldsLock(q)'
      BY <3>1 DEF HoldsLock
    <3>3. lock = Free /\ ~HoldsLock(q)
      BY <1>3, ChatAssumption DEF ChatAssumption, Claim, HoldsLock
    <3>4. QED BY <1>1, <1>3, <3>1, <3>2, <3>3
  <2>2. CASE ~StillPending(req[q].call)
    <3>1. req'[q] = Idle /\ lock = Free /\ ~HoldsLock(q)
      BY <1>0, <1>3, <2>2, ChatAssumption DEF ChatAssumption, Claim, Drop, HoldsLock
    <3>2. QED BY <1>1, <1>2, <3>1 DEF Idle
  <2>3. QED BY <2>1, <2>2
<1>4. CASE ~Claim(q)
  <2>1. req'[q].pc \in Working => TxTimeout(q)
    <3>1. CASE Settle(q) \/ GiveUp(q) \/ Crash(q)
      BY <1>0, <1>2, <3>1 DEF Settle, GiveUp, Crash, Drop
    <3>2. CASE EnsureMarker(q)
      BY <1>0, <1>2, <3>2 DEF EnsureMarker, Drop, Goto, Request, Working
    <3>3. ASSUME NEW op \in {"apply", "reject"}, NEW c \in Calls, NEW intent \in Intents \union {NoIntent},
                 Submit(q, op, c, intent)
          PROVE  req'[q].pc \notin Working
      BY <1>0, <3>3 DEF Submit, Idle, Working
    <3>4. QED BY <1>4, <3>1, <3>2, <3>3 DEF OtherStep
  <2>2. HoldsLock(q) /\ ~Settle(q) => req[q].call \in interrupted'
    <3>1. HoldsLock(q) => req[q].pc \in Working
      BY DEF SafeInv, Held
    <3>2. QED BY <1>4, <3>1 DEF OtherStep, Submit, EnsureMarker, TxTimeout, GiveUp, Crash, Working
  <2>3. QED BY <1>1, <1>4, <2>1, <2>2
<1>5. QED BY <1>3, <1>4

\* The statuses change by a holder's settle only.
LEMMA StatusStep ==
  ASSUME SafeInv, [Next]_vars, NEW c \in Calls, calls'[c].status # calls[c].status
  PROVE  \E q \in Requests : /\ Settle(q) /\ HoldsLock(q) /\ req[q].call = c
                             /\ req[q].pc = "settle" /\ calls'[c].status = req[q].outcome
<1>0. TypeOK /\ Placed /\ Held
  BY DEF SafeInv
<1>1. CASE \E q \in Requests : Settle(q)
  <2>1. PICK q \in Requests : Settle(q)
    BY <1>1
  <2>2. HoldsLock(q) /\ req[q].pc = "settle"
    BY <2>1 DEF Settle
  <2>3. QED BY <1>0, <2>1, <2>2, SettleEffect
<1>2. ASSUME NEW q \in Requests, EnsureMarker(q) PROVE FALSE
  <2>1. req[q].call \in Calls /\ req[q].intent \in Intents
    BY <1>0, <1>2 DEF EnsureMarker, Placed
  <2>2. UNCHANGED calls \/ PinMarker(req[q].call, req[q].intent)
    BY <1>2 DEF EnsureMarker
  <2>3. QED BY <1>0, <2>1, <2>2, PinEffect
<1>3. QED BY <1>1, <1>2
      DEF Next, Submit, Claim, RejectProbe, ApplyProbe, CreateArticle, Recheck, ReadTarget, WriteTarget,
          TxTimeout, GiveUp, Crash, UserEdits, Archive, Purge, vars

LEMMA Steps ==
  ASSUME [Next]_vars
  PROVE  \/ \E q \in Requests : WorkStep(q) \/ OtherStep(q)
         \/ UNCHANGED <<calls, lock, req, made, landed, interrupted, overran>>
BY DEF Next, WorkStep, OtherStep, UserEdits, Archive, Purge, vars

LEMMA InitReported == Init => Reported /\ Refused
<1> SUFFICES ASSUME Init PROVE Reported /\ Refused
  OBVIOUS
<1>1. \A q \in Requests : req[q].pc \notin Working /\ ~HoldsLock(q)
  BY ChatAssumption DEF ChatAssumption, Init, Idle, Working, HoldsLock
<1>2. \A c \in Calls : calls[c].status = "pending"
  BY DEF Init, Idle
<1>3. \A c \in Calls : ~Stands(c)
  BY DEF Init, Stands, Calls
<1>4. overran \subseteq interrupted
  BY DEF Init
<1>5. Reported
  BY <1>1, <1>2, <1>3, <1>4 DEF Reported, Working
<1>6. Refused
  BY <1>1, <1>2 DEF Refused, Calls
<1>7. QED BY <1>5, <1>6

LEMMA NextReported == SafeInv /\ Reported /\ [Next]_vars => Reported'
<1> SUFFICES ASSUME SafeInv, Reported, [Next]_vars PROVE Reported'
  OBVIOUS
<1>0. SafeInv' /\ Lasting /\ Forward
  BY NextSafeInv, NextLasting, NextForward DEF SafeInv
<1>1. ASSUME NEW c \in Calls, calls'[c].status = "applied" PROVE Done(c)'
  <2>1. CASE calls'[c].status = calls[c].status
    BY <1>0, <1>1, <2>1 DEF Reported, Lasting
  <2>2. CASE calls'[c].status # calls[c].status
    BY <1>0, <1>1, <2>2, StatusStep DEF Reported, Lasting
  <2>3. QED BY <2>1, <2>2
<1>2. ASSUME NEW q \in Requests, req'[q].pc = "settle", req'[q].outcome = "applied"
      PROVE  \E c \in Calls : c = req'[q].call /\ Done(c)'
  <2>1. req'[q].call \in Calls
    BY <1>0, <1>2 DEF SafeInv, Placed
  <2>2. CASE req'[q] = req[q]
    BY <1>0, <1>2, <2>1, <2>2 DEF Reported, Lasting
  <2>3. CASE WorkStep(q)
    <3>1. PICK c \in Calls : c = req[q].call /\ c = req'[q].call
      BY <2>3, WorkEffects
    <3>2. Done(c)'
      BY <1>2, <2>3, <3>1, WorkOutcome
    <3>3. QED BY <3>1, <3>2
  <2>4. CASE OtherStep(q)
    BY <1>2, <2>2, <2>4, OtherEffects DEF TxTimeout, Working
  <2>5. \/ req'[q] = req[q] \/ WorkStep(q) \/ OtherStep(q)
    BY Steps, WorkEffects, OtherEffects
  <2>6. QED BY <2>2, <2>3, <2>4, <2>5
<1>3. ASSUME NEW q \in Requests, req'[q].pc \in Working, ~HoldsLock(q)'
      PROVE  req'[q].call \in overran'
  <2>1. CASE WorkStep(q)
    BY <1>3, <2>1, WorkEffects DEF Reported, HoldsLock
  <2>2. CASE OtherStep(q)
    <3>1. TxTimeout(q)
      BY <1>3, <2>2, OtherEffects
    <3>2. QED BY <3>1 DEF TxTimeout
  <2>3. CASE req'[q] = req[q] /\ HoldsLock(q)
    <3>1. ASSUME NEW r \in Requests, r # q, OtherStep(r) PROVE lock' = lock
      BY <2>3, <3>1, ChatAssumption
      DEF ChatAssumption, OtherStep, Submit, EnsureMarker, Claim, Settle, TxTimeout, GiveUp, Crash, HoldsLock
    <3>2. ~OtherStep(q) /\ ~WorkStep(q) => lock' = lock
      BY <3>1, Steps, WorkEffects
    <3>3. QED BY <1>3, <2>1, <2>2, <2>3, <3>2 DEF HoldsLock
  <2>4. CASE req'[q] = req[q] /\ ~HoldsLock(q)
    BY <1>0, <1>3, <2>4 DEF Reported, Lasting
  <2>5. \/ req'[q] = req[q] \/ WorkStep(q) \/ OtherStep(q)
    BY Steps, WorkEffects, OtherEffects
  <2>6. QED BY <2>1, <2>2, <2>3, <2>4, <2>5
<1>4. overran' \subseteq interrupted'
  <2>1. CASE \E q \in Requests : TxTimeout(q)
    BY <2>1 DEF TxTimeout, Reported
  <2>2. CASE overran' = overran
    BY <1>0, <2>2 DEF Reported, Lasting
  <2>3. QED BY <2>1, <2>2, Steps, WorkEffects
        DEF OtherStep, Submit, EnsureMarker, Claim, Settle, GiveUp, Crash
<1>5. ASSUME NEW c \in Calls, Stands(c)', c \notin interrupted', calls'[c].status # "applied"
      PROVE  \E q \in Requests : Reporting(q, c)'
  <2>0. c \notin interrupted /\ calls[c].status # "applied"
    BY <1>0, <1>5 DEF Lasting, Forward
  <2>1. CASE \E q \in Requests : WorkStep(q) /\ req[q].call = c
    <3>1. PICK q \in Requests : WorkStep(q) /\ req[q].call = c
      BY <2>1
    <3>2. HoldsLock(q)
      BY <1>0, <1>5, <3>1, WorkEffects DEF Reported, Lasting
    <3>3. QED BY <1>0, <1>5, <3>1, <3>2, HolderReports
  <2>2. CASE ~\E q \in Requests : WorkStep(q) /\ req[q].call = c
    <3>1. Stands(c)
      BY <1>0, <1>5, <2>2 DEF Lasting, WorkStep
    <3>2. PICK q \in Requests : Reporting(q, c)
      BY <2>0, <3>1 DEF Reported
    <3>3. HoldsLock(q) /\ req[q].call = c
      BY <3>2 DEF Reporting
    <3>4. ~WorkStep(q)
      BY <2>2, <3>3
    <3>5. ~OtherStep(q)
      <4>1. ASSUME OtherStep(q) PROVE FALSE
        <5>1. Settle(q)
          BY <1>5, <3>3, <4>1, OtherEffects
        <5>2. req[q].outcome = "applied"
          BY <3>2, <5>1 DEF Reporting, Settle
        <5>3. calls'[c].status = "applied"
          BY <3>3, <5>1, <5>2, SettleEffect DEF SafeInv
        <5>4. QED BY <1>5, <5>3
      <4>2. QED BY <4>1
    <3>6. req'[q] = req[q]
      BY <3>4, <3>5, Steps, WorkEffects, OtherEffects
    <3>7. lock' = lock
      <4>1. ASSUME NEW r \in Requests, r # q, OtherStep(r) PROVE lock' = lock
        BY <3>3, <4>1, ChatAssumption
        DEF ChatAssumption, OtherStep, Submit, EnsureMarker, Claim, Settle, TxTimeout, GiveUp, Crash, HoldsLock
      <4>2. QED BY <3>4, <3>5, <4>1, Steps, WorkEffects
    <3>8. QED BY <3>2, <3>6, <3>7 DEF Reporting, HoldsLock
  <2>3. QED BY <2>1, <2>2
<1>6. QED BY <1>1, <1>2, <1>3, <1>4, <1>5 DEF Reported

LEMMA NextRefused == SafeInv /\ Reported /\ Refused /\ [Next]_vars => Refused'
<1> SUFFICES ASSUME SafeInv, Reported, Refused, [Next]_vars PROVE Refused'
  OBVIOUS
<1>0. Lasting
  BY NextLasting
<1>1. ASSUME NEW q \in Requests, CreateArticle(q) \/ WriteTarget(q), ~HoldsLock(q)
      PROVE  req[q].call \in overran'
  BY <1>0, <1>1, WorkEffects DEF WorkStep, Reported, Lasting
<1>2. ASSUME NEW c \in Creates, calls'[c].status = "rejected", Stands(c)'
      PROVE  c \in overran'
  <2>0. c \in Calls
    BY DEF Calls
  <2>1. CASE calls'[c].status = calls[c].status
    <3>1. CASE Stands(c)
      BY <1>0, <1>2, <2>1, <3>1 DEF Refused, Lasting
    <3>2. CASE ~Stands(c)
      <4>1. PICK q \in Requests : (CreateArticle(q) \/ WriteTarget(q)) /\ req[q].call = c
        BY <1>0, <1>2, <2>0, <3>2 DEF Lasting
      <4>2. ~HoldsLock(q)
        BY <1>2, <2>1, <4>1 DEF SafeInv, Held
      <4>3. QED BY <1>1, <4>1, <4>2
    <3>3. QED BY <3>1, <3>2
  <2>2. CASE calls'[c].status # calls[c].status
    <3>1. PICK q \in Requests : /\ Settle(q) /\ HoldsLock(q) /\ req[q].call = c
                               /\ req[q].pc = "settle" /\ req[q].outcome = "rejected"
      BY <1>2, <2>0, <2>2, StatusStep
    <3>2. Stands(c)
      BY <1>2, <3>1 DEF Settle, Stands
    <3>3. QED BY <1>0, <3>1, <3>2 DEF Refused, Lasting
  <2>3. QED BY <2>1, <2>2
<1>3. ASSUME NEW q \in Requests, NEW c \in Creates, HoldsLock(q)', req'[q].pc = "settle",
             req'[q].outcome = "rejected", req'[q].call = c, Stands(c)'
      PROVE  c \in overran'
  <2>0. c \in Calls
    BY DEF Calls
  <2>1. CASE WorkStep(q)
    <3>1. req[q].call = c /\ HoldsLock(q) /\ req[q].pc \in Working
      BY <1>3, <2>1, WorkEffects DEF HoldsLock
    <3>2. RejectProbe(q) /\ ~Exists(MarkerOf(q))
      BY <1>3, <2>0, <2>1, <3>1, WorkOutcome
    <3>3. Stands(c)
      BY <1>3, <3>2 DEF RejectProbe, Stands
    <3>4. CASE MarkerOf(q) = NoMarker
      BY <3>1, <3>3, <3>4, UnpinnedStandsNot
    <3>5. CASE MarkerOf(q) # NoMarker
      BY <3>1, <3>2, <3>3, <3>5, StandsIfExists
    <3>6. QED BY <3>4, <3>5
  <2>2. CASE OtherStep(q)
    <3>1. ~TxTimeout(q)
      BY <1>3, ChatAssumption DEF ChatAssumption, TxTimeout, HoldsLock
    <3>2. QED BY <1>3, <2>2, <3>1, OtherEffects DEF Working
  <2>3. CASE req'[q] = req[q] /\ ~HoldsLock(q)
    BY <1>0, <1>3, <2>3 DEF Reported, Lasting, Working
  <2>4. CASE req'[q] = req[q] /\ HoldsLock(q)
    <3>1. CASE Stands(c)
      BY <1>0, <1>3, <2>4, <3>1 DEF Refused, Lasting
    <3>2. CASE ~Stands(c)
      <4>1. PICK r \in Requests : (CreateArticle(r) \/ WriteTarget(r)) /\ req[r].call = c
        BY <1>0, <1>3, <2>0, <3>2 DEF Lasting
      <4>2. r # q
        BY <1>3, <2>4, <4>1 DEF CreateArticle, WriteTarget
      <4>3. ~HoldsLock(r)
        BY <2>4, <4>2 DEF HoldsLock
      <4>4. QED BY <1>1, <4>1, <4>3
    <3>3. QED BY <3>1, <3>2
  <2>5. \/ req'[q] = req[q] \/ WorkStep(q) \/ OtherStep(q)
    BY Steps, WorkEffects, OtherEffects
  <2>6. QED BY <2>1, <2>2, <2>3, <2>4, <2>5
<1>4. QED BY <1>2, <1>3 DEF Refused

-----------------------------------------------------------------------------
(* The theorems *)

IInv == SafeInv /\ Reported /\ Refused /\ NoLostEdit

LEMMA InitIInv == Init => IInv
<1>1. Init => NoLostEdit
  BY DEF Init, NoLostEdit
<1>2. QED BY <1>1, InitSafeInv, InitReported DEF IInv

LEMMA NextNoLostEdit == TypeOK /\ Placed /\ NoLostEdit /\ [Next]_vars => NoLostEdit'
<1> SUFFICES ASSUME TypeOK, Placed, NoLostEdit, [Next]_vars PROVE NoLostEdit'
  OBVIOUS
<1>1. CASE UNCHANGED <<basis, landed>>
  BY <1>1 DEF NoLostEdit, Guarded
<1>2. ASSUME NEW q \in Requests, WriteTarget(q) PROVE NoLostEdit'
  <2>1. PICK c \in Edits : c = req[q].call
    BY <1>2 DEF WriteTarget, Placed
  <2>2. CASE UNCHANGED landed
    BY <1>1, <1>2, <2>2 DEF WriteTarget
  <2>3. CASE WhereHolds(c) /\ landed' = [landed EXCEPT ![c] = @ \union {doc.revision}]
    <3>1. landed'[c] = landed[c] \union {doc.revision} /\ \A d \in Edits \ {c} : landed'[d] = landed[d]
      BY <2>3 DEF TypeOK
    <3>2. UNCHANGED basis
      BY <1>2 DEF WriteTarget
    <3>3. Guarded(c) => doc.revision = BaseRevision
      BY <2>3 DEF WhereHolds
    <3>4. QED BY <3>1, <3>2, <3>3 DEF NoLostEdit, Guarded
  <2>4. QED BY <1>2, <2>1, <2>2, <2>3 DEF WriteTarget
<1>3. QED BY <1>1, <1>2
      DEF Next, Submit, EnsureMarker, Claim, Settle, RejectProbe, ApplyProbe, CreateArticle, Recheck,
          ReadTarget, TxTimeout, GiveUp, Crash, UserEdits, Archive, Purge, vars

LEMMA NextIInv == IInv /\ [Next]_vars => IInv'
BY NextSafeInv, NextReported, NextRefused, NextNoLostEdit DEF IInv, SafeInv

LEMMA Invariance == Spec => []IInv
BY InitIInv, NextIInv, PTL DEF Spec

\* The calls, the requests and the articles keep their types.
THEOREM TypeCorrect == Spec => []TypeOK
<1>1. IInv => TypeOK
  BY DEF IInv, SafeInv
<1>2. QED BY <1>1, Invariance, PTL

\* However a create is retried, it inserts one article, the pinned one.
THEOREM CreatesAsPinned == Spec => []CreatedAsPinned
<1>1. IInv => CreatedAsPinned
  BY DEF IInv, SafeInv, Pinned, CreatedAsPinned
<1>2. QED BY <1>1, Invariance, PTL

\* No settle undoes another, and no step moves a pin.
THEOREM SettlesForGood == Spec => SettledForGood
<1>1. IInv /\ [Next]_vars => Forward
  BY NextForward DEF IInv, SafeInv
<1>2. Forward => [\A c \in Calls :
                    /\ calls[c].status # "pending" => calls'[c].status = calls[c].status
                    /\ calls[c].marker # NoMarker => calls'[c].marker = calls[c].marker]_vars
  BY DEF Forward
<1>3. QED BY <1>1, <1>2, Invariance, PTL DEF Spec, SettledForGood

\* An edit with a base revision lands on that revision only.
THEOREM EditsNothingLost == Spec => []NoLostEdit
<1>1. IInv => NoLostEdit
  BY DEF IInv
<1>2. QED BY <1>1, Invariance, PTL

\* A settled status says what happened, unless the handler was cut short, or
\* failed after its commit with nothing found of what it had done.
THEOREM ReportsTruthfully == Spec => []TruthfulReport
<1>1. IInv => TruthfulReport
  <2> SUFFICES ASSUME IInv, NEW c \in Calls
               PROVE  /\ calls[c].status = "applied" => Done(c)
                      /\ calls[c].status \in {"failed", "rejected"} /\ Stands(c) => c \in interrupted
    BY DEF TruthfulReport, Done
  <2>1. calls[c].status = "applied" => Done(c)
    BY DEF IInv, Reported
  <2>2. \A q \in Requests : Reporting(q, c) => calls[c].status = "pending"
    BY DEF IInv, SafeInv, Held, Reporting
  <2>3. calls[c].status \in {"failed", "rejected"} /\ Stands(c) => c \in interrupted
    BY <2>2 DEF IInv, Reported
  <2>4. QED BY <2>1, <2>3
<1>2. QED BY <1>1, Invariance, PTL

\* A rejected create stands only if its apply outlived its transaction.
THEOREM RejectionsStand == Spec => []RejectedStandsNot
<1>1. IInv => RejectedStandsNot
  BY DEF IInv, Refused, RejectedStandsNot
<1>2. QED BY <1>1, Invariance, PTL
=============================================================================
