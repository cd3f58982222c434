----------------------- MODULE RefreshRotationProofs -----------------------
(* Theorems about RefreshRotation and their proofs. *)
EXTENDS RefreshRotation, TLAPS

-----------------------------------------------------------------------------
(* Types *)

\* An idle slot is a request.
LEMMA IdleType == Idle \in Request
BY DEF Idle, Request, Tokens, NoToken, Phases, InServer, Kinds, Outcomes

\* The initial state has the types: a session just signed in.
LEMMA InitTypeOK == Init => TypeOK
<1> SUFFICES ASSUME Init PROVE TypeOK
  OBVIOUS
<1>1. session \in SessionRow
  BY ConstantsAssumption DEF ConstantsAssumption, Init, SessionRow, Tokens, NoToken
<1>2. req \in [Requests -> Request]
  BY IdleType DEF Init
<1>3. jar \in Tokens /\ minted \in Tokens
  BY ConstantsAssumption DEF ConstantsAssumption, Init, Tokens
<1>4. QED BY <1>1, <1>2, <1>3 DEF Init, TypeOK

\* Every step of a request, the browser's and the handler's, keeps the types.
LEMMA RequestTypeOK ==
  ASSUME TypeOK, NEW r \in Requests, RequestStep(r)
  PROVE  TypeOK'
<1> DEFINE q == req[r]
<1>0. q \in Request /\ jar \in Tokens \cup {NoToken}
  BY DEF TypeOK
<1>1. CASE \E kind \in Kinds : Send(r, kind)
  <2>1. PICK kind \in Kinds : Send(r, kind)
    BY <1>1
  <2>2. [Idle EXCEPT !.pc = "sent", !.kind = kind, !.tok = jar,
                     !.sentAt = clock, !.open = TRUE] \in Request
    BY <1>0, <2>1 DEF TypeOK, Idle, Request, NoToken, Phases, Outcomes
  <2>3. req' \in [Requests -> Request]
    BY <2>1, <2>2 DEF Send, TypeOK
  <2>4. QED BY <2>1, <2>3 DEF Send, TypeOK
<1>2. CASE Deliver(r)
  <2>1. jar' \in Tokens \cup {NoToken}
    BY <1>0, <1>2 DEF Deliver, JarAfter, TypeOK, Request
  <2>2. QED BY <1>2, <2>1, IdleType DEF Deliver, JarAfter, TypeOK
<1>3. CASE Drop(r)
  <2>1. req' \in [Requests -> Request]
    BY <1>3 DEF Drop, TypeOK, Request
  <2>2. QED BY <1>3, <2>1 DEF Drop, TypeOK
<1>10. CASE Arrive(r)
  <2>1. [q EXCEPT !.pc = "findActive", !.now = clock] \in Request
    BY <1>0 DEF TypeOK, Request, Phases, InServer
  <2>2. req' \in [Requests -> Request]
    BY <1>10, <2>1 DEF Arrive, TypeOK
  <2>3. QED BY <1>10, <2>2 DEF Arrive, TypeOK
<1>4. CASE FindActive(r)
  <2>1. req' \in [Requests -> Request] /\ minted' \in Tokens
    BY <1>4, ConstantsAssumption
    DEF FindActive, Respond, ConstantsAssumption, TypeOK, Request, Phases, InServer, Outcomes, Tokens
  <2>2. QED BY <1>4, <2>1 DEF FindActive, TypeOK
<1>5. CASE Swap(r)
  <2>1. req' \in [Requests -> Request]
    BY <1>5 DEF Swap, RotatedRow, Respond, TypeOK, Request, Phases, InServer, Outcomes
  <2>2. session' \in SessionRow
    <3>1. /\ session \in SessionRow /\ q.now \in Nat
          /\ q.next \in Tokens \cup {NoToken} /\ q.tok \in Tokens \cup {NoToken}
      BY <1>0 DEF TypeOK, Request
    <3>2. RotatedRow(r) \in SessionRow
      BY <3>1 DEF RotatedRow, SessionRow
    <3>3. QED BY <1>5, <3>1, <3>2 DEF Swap
  <2>3. QED BY <1>5, <2>1, <2>2 DEF Swap, RotatedRow, TypeOK
<1>6. CASE FindPrior(r)
  <2>1. req' \in [Requests -> Request]
    BY <1>6 DEF FindPrior, Respond, TypeOK, Request, Phases, InServer, Outcomes
  <2>2. QED BY <1>6, <2>1 DEF FindPrior, TypeOK
<1>7. CASE RevokeReused(r)
  <2>1. req' \in [Requests -> Request]
    BY <1>7 DEF RevokeReused, Respond, TypeOK, Request, Phases, InServer, Outcomes
  <2>2. session' \in SessionRow
    BY <1>7 DEF RevokeReused, TypeOK, SessionRow
  <2>3. QED BY <1>7, <2>1, <2>2 DEF RevokeReused, TypeOK
<1>11. CASE AuditReuse(r)
  <2>1. req' \in [Requests -> Request]
    BY <1>11 DEF AuditReuse, TypeOK, Request, Phases, InServer
  <2>2. QED BY <1>11, <2>1 DEF AuditReuse, TypeOK
<1>12. CASE ClearStepUp(r)
  <2>0. [q EXCEPT !.pc = "respond", !.out = "null"] \in Request
    BY <1>0 DEF Request, Phases, Outcomes
  <2>1. req' \in [Requests -> Request]
    BY <1>12, <2>0 DEF ClearStepUp, Respond, TypeOK
  <2>2. stepUp' \in BOOLEAN
    BY <1>12, Zenon DEF ClearStepUp, TypeOK
  <2>3. QED BY <1>12, <2>1, <2>2 DEF ClearStepUp, TypeOK
<1>8. CASE Logout(r)
  <2>1. [Idle EXCEPT !.pc = "respond", !.kind = "logout", !.out = "ok",
                     !.sentAt = clock, !.now = clock, !.open = TRUE] \in Request
    BY DEF TypeOK, Idle, Request, NoToken, Phases, Outcomes, Kinds
  <2>2. req' \in [Requests -> Request]
    BY <1>8, <2>1 DEF Logout, TypeOK
  <2>3. session' \in SessionRow
    BY <1>8 DEF Logout, Revoke, TypeOK, SessionRow
  <2>4. QED BY <1>8, <2>2, <2>3 DEF Logout, Revoke, TypeOK
<1>9. QED BY <1>1, <1>2, <1>3, <1>4, <1>5, <1>6, <1>7, <1>8,
           <1>10, <1>11, <1>12 DEF RequestStep

\* And so does everything else that happens to the session.
LEMMA NextTypeOK == TypeOK /\ [Next]_vars => TypeOK'
<1> SUFFICES ASSUME TypeOK, [Next]_vars PROVE TypeOK'
  OBVIOUS
<1>1. CASE \E r \in Requests : RequestStep(r)
  BY <1>1, RequestTypeOK
<1>2. CASE Crash
  BY <1>2, IdleType DEF Crash, TypeOK
<1>3. CASE AdminRevoke \/ Deactivate
  <2>1. session' \in SessionRow
    BY <1>3 DEF AdminRevoke, Deactivate, Revoke, TypeOK, SessionRow
  <2>2. QED BY <1>3, <2>1 DEF AdminRevoke, Deactivate, Revoke, TypeOK
<1>4. CASE Reactivate \/ MarkVerified \/ StepUpExpires
  BY <1>4 DEF Reactivate, MarkVerified, StepUpExpires, TypeOK
<1>7. CASE Tick
  BY <1>7 DEF Tick, TypeOK
<1>5. CASE UNCHANGED vars
  BY <1>5 DEF vars, TypeOK
<1>8. CASE \E r \in Requests : DatabaseError(r)
  <2>1. PICK r \in Requests : DatabaseError(r)
    BY <1>8
  <2>2. [req[r] EXCEPT !.pc = "respond", !.out = "none"] \in Request
    BY <2>1 DEF TypeOK, Request, Phases, Outcomes
  <2>3. req' \in [Requests -> Request]
    BY <2>1, <2>2 DEF DatabaseError, Respond, TypeOK
  <2>4. QED BY <2>1, <2>3 DEF DatabaseError, TypeOK
<1>6. QED BY <1>1, <1>2, <1>3, <1>4, <1>5, <1>7, <1>8 DEF Next

\* Every state of every session has the types.
THEOREM TypeCorrect == Spec => []TypeOK
<1>1. QED BY InitTypeOK, NextTypeOK, PTL DEF Spec

-----------------------------------------------------------------------------
(* Time: a request is answered within MaxLatency, and `now` lies between its  *)
(* sending and the present.                                                    *)

Timely ==
  \A r \in Requests :
    req[r].pc # "idle" =>
      /\ req[r].sentAt <= clock /\ clock <= req[r].sentAt + MaxLatency
      /\ req[r].pc # "sent" => req[r].sentAt <= req[r].now /\ req[r].now <= clock

\* The steps of a request respect its deadline.
LEMMA RequestTimely ==
  ASSUME TypeOK, Timely, NEW r \in Requests, RequestStep(r)
  PROVE  Timely'
<1> USE ConstantsAssumption DEF ConstantsAssumption, TypeOK, Timely, Request
<1>1. CASE \E kind \in Kinds : Send(r, kind)
  BY <1>1 DEF Send, Idle
<1>2. CASE Deliver(r)
  BY <1>2 DEF Deliver, JarAfter, Idle
<1>3. CASE Drop(r)
  BY <1>3 DEF Drop
<1>4. CASE Arrive(r)
  BY <1>4 DEF Arrive
<1>5. CASE FindActive(r)
  BY <1>5 DEF FindActive, Respond
<1>6. CASE Swap(r)
  BY <1>6 DEF Swap, RotatedRow, Respond
<1>7. CASE FindPrior(r)
  BY <1>7 DEF FindPrior, Respond
<1>8. CASE RevokeReused(r)
  BY <1>8 DEF RevokeReused, Respond
<1>9. CASE AuditReuse(r)
  BY <1>9 DEF AuditReuse
<1>10. CASE ClearStepUp(r)
  BY <1>10 DEF ClearStepUp, Respond
<1>11. CASE Logout(r)
  BY <1>11 DEF Logout, Idle
<1>12. QED BY <1>1, <1>2, <1>3, <1>4, <1>5, <1>6, <1>7, <1>8, <1>9, <1>10, <1>11
           DEF RequestStep

\* Time passes only while every request is before its deadline.
LEMMA NextTimely == TypeOK /\ Timely /\ [Next]_vars => Timely'
<1> SUFFICES ASSUME TypeOK, Timely, [Next]_vars PROVE Timely'
  OBVIOUS
<1>1. CASE \E r \in Requests : RequestStep(r)
  BY <1>1, RequestTimely
<1>2. CASE Crash
  BY <1>2 DEF Crash, Timely, Idle, TypeOK
<1>6. CASE \E r \in Requests : DatabaseError(r)
  BY <1>6 DEF DatabaseError, Respond, InServer, Timely, TypeOK
<1>3. CASE Tick
  BY <1>3, ConstantsAssumption DEF Tick, Timely, ConstantsAssumption, TypeOK, Request
<1>4. CASE AdminRevoke \/ Deactivate \/ Reactivate \/ MarkVerified \/ StepUpExpires \/ UNCHANGED vars
  <2>1. UNCHANGED <<req, clock>>
    BY <1>4 DEF AdminRevoke, Deactivate, Reactivate, MarkVerified, StepUpExpires, vars
  <2>2. QED BY <2>1 DEF Timely
<1>5. QED BY <1>1, <1>2, <1>3, <1>4, <1>6 DEF Next

-----------------------------------------------------------------------------
(* Tokens: a token that is minted but not yet swapped in is known to nobody,  *)
(* and the token that was just swapped in only to the response that carries it. *)

\* Requests that still carry the token they were sent with.
Carrying == {"sent", "findActive", "cas", "findPrior"}

\* Every token in use was minted.
TokensMinted ==
  /\ session.active # NoToken /\ session.active <= minted
  /\ session.previous <= minted /\ session.previous # session.active
  /\ jar <= minted
  /\ \A r \in Requests :
       req[r].pc \in Carrying => req[r].tok # NoToken /\ req[r].tok <= minted

\* The token a request is about to swap in is unknown to everybody else.
Fresh ==
  \A r \in Requests : req[r].pc = "cas" =>
    /\ req[r].next <= minted
    /\ req[r].next \notin {NoToken, session.active, session.previous, jar}
    /\ req[r].tok = session.active => req[r].next > session.active
    /\ \A o \in Requests :
         /\ req[o].pc \in Carrying => req[o].tok # req[r].next
         /\ req[o].pc = "cas" /\ o # r => req[o].next # req[r].next

\* A rotated response on its way is the only holder of the active token.
SoleHolder ==
  \A r \in Requests : InTransit(r) =>
    /\ req[r].next = session.active
    /\ jar # session.active
    /\ \A o \in Requests :
         /\ req[o].pc \in Carrying => req[o].tok # session.active
         /\ InTransit(o) => o = r

TokenInv == TokensMinted /\ Fresh /\ SoleHolder

\* At sign-in the browser holds the only token.
LEMMA InitTokenInv == Init => TokenInv
BY DEF Init, Idle, NoToken, Carrying, InTransit, TokenInv, TokensMinted, Fresh, SoleHolder

\* The steps that mint, send, swap or deliver a token keep it so.
LEMMA RequestTokenInv ==
  ASSUME TypeOK, TokenInv, NEW r \in Requests, RequestStep(r)
  PROVE  TokenInv'
<1> USE ConstantsAssumption DEF ConstantsAssumption, TypeOK, Request, SessionRow, Tokens,
        NoToken, Carrying, InTransit, TokenInv, TokensMinted, Fresh, SoleHolder
<1>1. CASE \E kind \in Kinds : Send(r, kind)
  BY <1>1 DEF Send, Idle
<1>2. CASE Deliver(r)
  BY <1>2 DEF Deliver, JarAfter, Idle
<1>3. CASE Drop(r)
  BY <1>3 DEF Drop
<1>4. CASE Arrive(r)
  BY <1>4 DEF Arrive
<1>5. CASE FindActive(r)
  BY <1>5, SMTT(30) DEF FindActive, Respond
<1>6. CASE Swap(r)
  <2>1. CASE SwapMatches(r)
    <3>1. /\ session' = [session EXCEPT !.active = req[r].next, !.previous = req[r].tok,
                                        !.rotatedAt = req[r].now]
          /\ req' = [req EXCEPT ![r].pc = "respond", ![r].out = "rotated"]
          /\ req[r].pc = "cas" /\ req[r].tok = session.active
          /\ UNCHANGED <<jar, minted>>
      BY <1>6, <2>1 DEF Swap, RotatedRow, SwapMatches, Respond
    <3>2. \A o \in Requests : ~InTransit(o)
      BY <3>1
    <3>3. TokensMinted'
      BY <3>1
    <3>4. Fresh'
      BY <3>1
    <3>5. SoleHolder'
      BY <3>1, <3>2
    <3>6. QED BY <3>3, <3>4, <3>5
  <2>2. CASE ~SwapMatches(r)
    <3>1. /\ req' = [req EXCEPT ![r].pc = "findPrior"] /\ req[r].pc = "cas"
          /\ UNCHANGED <<session, jar, minted>>
      BY <1>6, <2>2 DEF Swap
    <3>2. QED BY <3>1, SMTT(30)
  <2>3. QED BY <2>1, <2>2
<1>7. CASE FindPrior(r)
  BY <1>7 DEF FindPrior, Respond
<1>8. CASE RevokeReused(r)
  BY <1>8 DEF RevokeReused, Respond
<1>9. CASE AuditReuse(r)
  BY <1>9 DEF AuditReuse
<1>10. CASE ClearStepUp(r)
  BY <1>10 DEF ClearStepUp, Respond
<1>11. CASE Logout(r)
  BY <1>11 DEF Logout, Idle, Revoke
<1>12. QED BY <1>1, <1>2, <1>3, <1>4, <1>5, <1>6, <1>7, <1>8, <1>9, <1>10, <1>11
           DEF RequestStep

\* Nothing else moves a token.
LEMMA NextTokenInv == TypeOK /\ TokenInv /\ [Next]_vars => TokenInv'
<1> SUFFICES ASSUME TypeOK, TokenInv, [Next]_vars PROVE TokenInv'
  OBVIOUS
<1> USE DEF TypeOK, SessionRow, Request, Carrying, InTransit, TokenInv, TokensMinted, Fresh, SoleHolder
<1>1. CASE \E r \in Requests : RequestStep(r)
  BY <1>1, RequestTokenInv
<1>2. CASE Crash
  BY <1>2 DEF Crash, Idle, InServer
<1>6. CASE \E r \in Requests : DatabaseError(r)
  BY <1>6 DEF DatabaseError, Respond, InServer
<1>3. CASE AdminRevoke \/ Deactivate
  <2>1. /\ session'.active = session.active /\ session'.previous = session.previous
        /\ UNCHANGED <<jar, req, minted>>
    BY <1>3 DEF AdminRevoke, Deactivate, Revoke
  <2>2. QED BY <2>1
<1>4. CASE Reactivate \/ MarkVerified \/ StepUpExpires \/ Tick \/ UNCHANGED vars
  BY <1>4 DEF Reactivate, MarkVerified, StepUpExpires, Tick, vars
<1>5. QED BY <1>1, <1>2, <1>3, <1>4, <1>6 DEF Next

-----------------------------------------------------------------------------
(* The race window: while no response was lost, a cookie that is one rotation *)
(* behind is so only until the winner's response arrives, so a request that   *)
(* carries it was sent within MaxLatency of the winner's start.               *)

RaceWindow ==
  Reliable =>
    /\ \A r \in Requests : req[r].pc # "idle" => req[r].open
    /\ jar # NoToken =>
         \/ jar = session.active
         \/ /\ jar = session.previous
            /\ \E r \in Requests : InTransit(r) /\ req[r].now = session.rotatedAt
    /\ \A r \in Requests :
         req[r].pc \in Carrying /\ req[r].tok = session.previous
           => req[r].sentAt <= session.rotatedAt + MaxLatency

\* Nobody is about to revoke the session for reuse, and nobody has.
NoReuse ==
  2 * MaxLatency <= Leeway /\ Reliable =>
    revokedBy # "reuse" /\ \A r \in Requests : req[r].pc # "revoke"

RaceInv == TypeOK /\ Timely /\ TokenInv /\ RaceWindow /\ NoReuse

\* Sending: a stale cookie means a winner in transit, hence a recent rotation.
\* Swapping: whoever carries the old token was sent before the deadline of the
\* winner.  The other steps of a request change neither jar nor slots.
LEMMA RequestRaceWindow ==
  ASSUME RaceInv, NEW r \in Requests, RequestStep(r)
  PROVE  RaceWindow'
<1> SUFFICES ASSUME Reliable' PROVE RaceWindow'
  BY DEF RaceWindow
<1>0. Reliable /\ UNCHANGED <<dropped, crashed>>
  <2>1. dropped' = dropped \/ dropped' = dropped + 1
    BY DEF RequestStep, Send, Deliver, JarAfter, Drop, Arrive, FindActive, Swap,
           RotatedRow, FindPrior, RevokeReused, AuditReuse, ClearStepUp, Logout
  <2>2. crashed' = crashed
    BY DEF RequestStep, Send, Deliver, JarAfter, Drop, Arrive, FindActive, Swap,
           RotatedRow, FindPrior, RevokeReused, AuditReuse, ClearStepUp, Logout
  <2>3. QED BY <2>1, <2>2 DEF Reliable, RaceInv, TypeOK
<1> USE <1>0, ConstantsAssumption DEF ConstantsAssumption, RaceInv, TypeOK, Request, SessionRow,
        Tokens, NoToken, Carrying, InTransit, TokenInv, TokensMinted, SoleHolder, Timely, RaceWindow
<1>1. CASE \E kind \in Kinds : Send(r, kind)
  <2>1. jar = session.previous => clock <= session.rotatedAt + MaxLatency
    <3>1. SUFFICES ASSUME jar = session.previous
                   PROVE  clock <= session.rotatedAt + MaxLatency
      OBVIOUS
    <3>2. PICK w \in Requests : InTransit(w) /\ req[w].now = session.rotatedAt
      BY <1>1, <3>1 DEF Send
    <3>3. QED BY <3>2
  <2>2. /\ UNCHANGED <<session, jar>>
        /\ \A o \in Requests : o # r => req'[o] = req[o]
        /\ req[r].pc = "idle" /\ req'[r].pc = "sent" /\ req'[r].open
        /\ req'[r].tok = jar /\ req'[r].sentAt = clock
    BY <1>1 DEF Send, Idle
  <2>3. QED BY <2>1, <2>2
<1>2. CASE Deliver(r)
  BY <1>2 DEF Deliver, JarAfter, Idle
<1>3. CASE Drop(r)
  BY <1>3 DEF Drop
<1>4. CASE Arrive(r)
  BY <1>4 DEF Arrive
<1>5. CASE FindActive(r)
  BY <1>5 DEF FindActive, Respond
<1>6. CASE Swap(r)
  <2>1. CASE SwapMatches(r)
    <3>1. /\ session' = [session EXCEPT !.active = req[r].next, !.previous = req[r].tok,
                                        !.rotatedAt = req[r].now]
          /\ req' = [req EXCEPT ![r].pc = "respond", ![r].out = "rotated"]
          /\ req[r].pc = "cas" /\ req[r].tok = session.active
          /\ UNCHANGED <<jar, minted>>
      BY <1>6, <2>1 DEF Swap, RotatedRow, SwapMatches, Respond
    <3>2. jar # NoToken => jar = session'.previous
      BY <3>1
    <3>3. InTransit(r)' /\ req'[r].now = session'.rotatedAt
      BY <3>1
    <3>4. \A o \in Requests :
            req'[o].pc # "idle" => req'[o].sentAt <= session'.rotatedAt + MaxLatency
      BY <3>1
    <3>5. QED BY <3>1, <3>2, <3>3, <3>4
  <2>2. CASE ~SwapMatches(r)
    BY <1>6, <2>2 DEF Swap, RotatedRow
  <2>3. QED BY <2>1, <2>2
<1>7. CASE FindPrior(r)
  BY <1>7 DEF FindPrior, Respond
<1>8. CASE RevokeReused(r)
  BY <1>8 DEF RevokeReused, Respond
<1>9. CASE AuditReuse(r)
  BY <1>9 DEF AuditReuse
<1>10. CASE ClearStepUp(r)
  BY <1>10 DEF ClearStepUp, Respond
<1>11. CASE Logout(r)
  BY <1>11 DEF Logout, Idle, Revoke
<1>12. QED BY <1>1, <1>2, <1>3, <1>4, <1>5, <1>6, <1>7, <1>8, <1>9, <1>10, <1>11
           DEF RequestStep

\* Only FindPrior decides to revoke, and inside the race window it does not.
LEMMA RequestNoReuse ==
  ASSUME RaceInv, NEW r \in Requests, RequestStep(r)
  PROVE  NoReuse'
<1> SUFFICES ASSUME 2 * MaxLatency <= Leeway, Reliable' PROVE NoReuse'
  BY DEF NoReuse
<1>0. Reliable /\ UNCHANGED <<dropped, crashed>>
  <2>1. dropped' = dropped \/ dropped' = dropped + 1
    BY DEF RequestStep, Send, Deliver, JarAfter, Drop, Arrive, FindActive, Swap,
           RotatedRow, FindPrior, RevokeReused, AuditReuse, ClearStepUp, Logout
  <2>2. crashed' = crashed
    BY DEF RequestStep, Send, Deliver, JarAfter, Drop, Arrive, FindActive, Swap,
           RotatedRow, FindPrior, RevokeReused, AuditReuse, ClearStepUp, Logout
  <2>3. QED BY <2>1, <2>2 DEF Reliable, RaceInv, TypeOK
<1> USE <1>0 DEF RaceInv, TypeOK, Request, NoReuse
<1>1. CASE FindPrior(r)
  <2>1. CASE session.previous = req[r].tok
    <3>1. /\ req[r].now <= req[r].sentAt + MaxLatency
          /\ req[r].sentAt <= session.rotatedAt + MaxLatency
      BY <1>1, <2>1, ConstantsAssumption
      DEF FindPrior, Timely, RaceWindow, Carrying, ConstantsAssumption, SessionRow
    <3>2. WithinLeeway(r)
      BY <3>1, ConstantsAssumption DEF WithinLeeway, ConstantsAssumption, SessionRow
    <3>3. QED BY <1>1, <3>2 DEF FindPrior, Respond
  <2>2. CASE session.previous # req[r].tok
    BY <1>1, <2>2 DEF FindPrior, Respond
  <2>3. QED BY <2>1, <2>2
<1>2. CASE RevokeReused(r)
  BY <1>2 DEF RevokeReused
<1>3. CASE Logout(r)
  BY <1>3 DEF Logout, Revoke, Idle
<1>4. CASE \E kind \in Kinds : Send(r, kind)
  BY <1>4 DEF Send, Idle
<1>5. CASE Deliver(r) \/ Drop(r) \/ Arrive(r)
  BY <1>5 DEF Deliver, JarAfter, Drop, Arrive, Idle
<1>6. CASE FindActive(r) \/ Swap(r)
  BY <1>6 DEF FindActive, Swap, RotatedRow, Respond
<1>7. CASE AuditReuse(r) \/ ClearStepUp(r)
  BY <1>7 DEF AuditReuse, ClearStepUp, Respond
<1>8. QED BY <1>1, <1>2, <1>3, <1>4, <1>5, <1>6, <1>7 DEF RequestStep

\* The race invariant is inductive.
LEMMA NextRaceInv == RaceInv /\ [Next]_vars => RaceInv'
<1> SUFFICES ASSUME RaceInv, [Next]_vars PROVE RaceInv'
  OBVIOUS
<1>1. TypeOK' /\ Timely' /\ TokenInv'
  BY NextTypeOK, NextTimely, NextTokenInv DEF RaceInv
<1>2. RaceWindow' /\ NoReuse'
  <2>1. CASE \E r \in Requests : RequestStep(r)
    BY <2>1, RequestRaceWindow, RequestNoReuse
  <2>2. CASE Crash \/ \E r \in Requests : DatabaseError(r)
    BY <2>2 DEF Crash, DatabaseError, RaceInv, TypeOK, RaceWindow, NoReuse, Reliable
  <2>3. CASE AdminRevoke \/ Deactivate
    <3>1. /\ session'.active = session.active /\ session'.previous = session.previous
          /\ session'.rotatedAt = session.rotatedAt
          /\ UNCHANGED <<jar, req, dropped, crashed>>
      BY <2>3 DEF AdminRevoke, Deactivate, Revoke, RaceInv, TypeOK, SessionRow
    <3>2. revokedBy' \in {revokedBy, "admin"}
      BY <2>3 DEF AdminRevoke, Deactivate, Revoke
    <3>3. QED BY <3>1, <3>2 DEF RaceInv, RaceWindow, NoReuse, Reliable, InTransit
  <2>4. CASE Reactivate \/ MarkVerified \/ StepUpExpires \/ Tick \/ UNCHANGED vars
    <3>1. UNCHANGED <<session, revokedBy, jar, req, dropped, crashed>>
      BY <2>4 DEF Reactivate, MarkVerified, StepUpExpires, Tick, vars
    <3>2. QED BY <3>1 DEF RaceInv, RaceWindow, NoReuse, Reliable, InTransit
  <2>5. QED BY <2>1, <2>2, <2>3, <2>4 DEF Next
<1>3. QED BY <1>1, <1>2 DEF RaceInv

\* It holds at sign-in.
LEMMA InitRaceInv == Init => RaceInv
BY InitTypeOK, InitTokenInv
DEF Init, Idle, RaceInv, Timely, RaceWindow, NoReuse, Carrying

\* However the requests interleave and however slow they are up to MaxLatency,
\* the honest browser's session is never revoked for reuse while no response
\* was lost and the leeway covers two round trips.
THEOREM HonestBrowserNotRevoked == Spec => []NoFalseReuse
<1>1. RaceInv => NoFalseReuse
  BY DEF RaceInv, NoReuse, NoFalseReuse
<1>2. QED BY InitRaceInv, NextRaceInv, <1>1, PTL DEF Spec

\* While no response was lost the browser holds the active token, or the
\* response that carries it is on its way.
THEOREM CookieKept == Spec => []CookieNotStranded
<1>1. RaceInv => CookieNotStranded
  BY DEF RaceInv, RaceWindow, TokenInv, SoleHolder, CookieNotStranded
<1>2. QED BY InitRaceInv, NextRaceInv, <1>1, PTL DEF Spec

-----------------------------------------------------------------------------
(* The security event: exactly one handler flips the row, and only it audits. *)

AuditInv ==
  /\ ~session.revoked => revokedBy = "nobody"
  /\ reuseAudits <= 1
  /\ reuseAudits = 1 => revokedBy = "reuse"
  /\ revokedBy = "reuse" =>
       reuseAudits = 1 \/ crashed > 0 \/ \E r \in Requests : req[r].pc = "audit"
  /\ \A r \in Requests : req[r].pc = "audit" =>
       /\ reuseAudits = 0 /\ revokedBy = "reuse"
       /\ \A o \in Requests : req[o].pc = "audit" => o = r

\* Only the revocation's two steps, logout and the administrators touch the facts
\* about the reuse audit; every other step leaves them alone.
LEMMA NextAuditInv == TypeOK /\ AuditInv /\ [Next]_vars => AuditInv'
<1> SUFFICES ASSUME TypeOK, AuditInv, [Next]_vars PROVE AuditInv'
  OBVIOUS
<1> USE DEF TypeOK, SessionRow, Request, AuditInv
<1>1. ASSUME NEW r \in Requests, RequestStep(r) PROVE AuditInv'
  <2>1. CASE RevokeReused(r)
    BY <2>1, SMTT(30) DEF RevokeReused, Respond
  <2>2. CASE AuditReuse(r)
    BY <2>2 DEF AuditReuse
  <2>3. CASE Logout(r)
    BY <2>3 DEF Logout, Revoke, Idle
  <2>4. CASE Swap(r)
    <3>1. session'.revoked = session.revoked
      BY <2>4 DEF Swap, RotatedRow
    <3>2. QED BY <2>4, <3>1 DEF Swap, RotatedRow, Respond
  <2>5. CASE \E kind \in Kinds : Send(r, kind)
    BY <2>5 DEF Send, Idle
  <2>6. CASE Deliver(r) \/ Arrive(r)
    BY <2>6 DEF Deliver, Arrive, Idle
  <2>10. CASE Drop(r)
    <3>1. /\ req' = [req EXCEPT ![r].open = FALSE]
          /\ UNCHANGED <<session, reuseAudits, revokedBy, crashed>>
      BY <2>10 DEF Drop
    <3>2. QED BY <3>1
  <2>7. CASE FindActive(r) \/ FindPrior(r)
    BY <2>7 DEF FindActive, FindPrior, Respond
  <2>8. CASE ClearStepUp(r)
    <3>1. /\ req[r].pc = "clearStepUp" /\ req' = [req EXCEPT ![r].pc = "respond", ![r].out = "null"]
          /\ UNCHANGED <<session, reuseAudits, revokedBy, crashed>>
      BY <2>8 DEF ClearStepUp, Respond
    <3>2. QED BY <3>1
  <2>9. QED BY <1>1, <2>1, <2>2, <2>3, <2>4, <2>5, <2>6, <2>7, <2>8, <2>10 DEF RequestStep
<1>2. CASE Crash
  BY <1>2 DEF Crash, Idle
<1>6. CASE \E r \in Requests : DatabaseError(r)
  BY <1>6 DEF DatabaseError, Respond
<1>3. CASE AdminRevoke \/ Deactivate
  BY <1>3 DEF AdminRevoke, Deactivate, Revoke
<1>4. CASE Reactivate \/ MarkVerified \/ StepUpExpires \/ Tick \/ UNCHANGED vars
  BY <1>4 DEF Reactivate, MarkVerified, StepUpExpires, Tick, vars
<1>5. QED BY <1>1, <1>2, <1>3, <1>4, <1>6 DEF Next

\* A reuse revocation is audited at most once, and always unless the API died
\* or the audit insert failed between the two.
THEOREM ReuseAudited == Spec => []ReuseAuditedOnce
<1>1. Init => AuditInv
  BY DEF Init, Idle, AuditInv
<1>2. AuditInv => ReuseAuditedOnce
  BY DEF AuditInv, ReuseAuditedOnce
<1>3. QED BY InitTypeOK, NextTypeOK, <1>1, NextAuditInv, <1>2, PTL DEF Spec

-----------------------------------------------------------------------------
(* The row implements the token chain *)

\* Every step is a rotation of the chain, its revocation, or invisible in it.
LEMMA ChainStep == TypeOK /\ TokenInv /\ [Next]_vars => [Chain!Next]_(Chain!vars)
<1> SUFFICES ASSUME TypeOK, TokenInv, [Next]_vars PROVE [Chain!Next]_(Chain!vars)
  OBVIOUS
<1> USE DEF Chain!Next, Chain!Rotate, Chain!Revoke, Chain!vars, TypeOK, SessionRow
<1>1. ASSUME NEW r \in Requests, RequestStep(r), session' # session
      PROVE  [Chain!Next]_(Chain!vars)
  <2>1. CASE Swap(r)
    <3>1. /\ session' = [session EXCEPT !.active = req[r].next, !.previous = req[r].tok,
                                        !.rotatedAt = req[r].now]
          /\ req[r].pc = "cas" /\ req[r].tok = session.active /\ ~session.revoked
      BY <1>1, <2>1 DEF Swap, RotatedRow, SwapMatches
    <3>2. req[r].next \in Nat /\ req[r].next > session.active
      BY <3>1, ConstantsAssumption
      DEF TokenInv, Fresh, Request, Tokens, NoToken, ConstantsAssumption
    <3>3. Chain!Rotate
      BY <3>1, <3>2
    <3>4. QED BY <3>3
  <2>2. CASE RevokeReused(r) \/ Logout(r)
    BY <1>1, <2>2 DEF RevokeReused, Logout, Revoke
  <2>3. QED BY <1>1, <2>1, <2>2
        DEF RequestStep, Send, Deliver, JarAfter, Drop, Arrive, FindActive, FindPrior,
            AuditReuse, ClearStepUp
<1>2. CASE AdminRevoke \/ Deactivate
  BY <1>2 DEF AdminRevoke, Deactivate, Revoke
<1>3. CASE session' = session
  BY <1>3
<1>4. QED BY <1>1, <1>2, <1>3
      DEF Next, Crash, DatabaseError, Reactivate, MarkVerified, StepUpExpires, Tick, vars

\* For any number of requests, tokens and clock ticks, the session row behaves
\* as one linear chain of tokens that ends with the session's revocation.
THEOREM RotationImplementsChain == Spec => ImplementsTokenChain
<1>1. Init => Chain!Init
  BY DEF Init, Chain!Init, Chain!NoToken, NoToken
<1>2. QED BY InitTypeOK, NextTypeOK, InitTokenInv, NextTokenInv, <1>1, ChainStep, PTL
      DEF Spec, ImplementsTokenChain, Chain!Spec
=============================================================================
