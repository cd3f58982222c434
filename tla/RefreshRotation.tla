--------------------------- MODULE RefreshRotation ---------------------------
(***************************************************************************)
(* Refresh-token rotation of one browser session (AuthService.rotateRefresh*)
(* with its two callers, POST /auth/refresh and the guard's silentRefresh).*)
(*                                                                         *)
(* One browser with a cookie jar has several requests in flight.  Each     *)
(* request is a handler whose steps are the database round trips of the    *)
(* code, so every interleaving of two handlers between two awaits is a     *)
(* behaviour.  Tokens are numbered in the order they are minted, which is  *)
(* all their hashes are used for (equality).  The model starts right after *)
(* a sign-in.                                                              *)
(*                                                                         *)
(* Time is discrete.  A request that is in flight is answered within       *)
(* MaxLatency (Tick cannot pass the deadline); connections drop, the API   *)
(* crashes and database calls fail at most MaxTrouble times together.      *)
(***************************************************************************)
EXTENDS Naturals

CONSTANTS Requests,     \* concurrent requests of the browser (its tabs)
          Leeway,       \* REFRESH_REUSE_LEEWAY_SEC
          MaxLatency,   \* bound on the round trip of one request
          ExpiresAt,    \* session.expiresAt
          MaxClock,     \* bound on the clock
          MaxToken,     \* bound on the tokens minted
          MaxTrouble    \* bound on dropped connections, API crashes and failed
                        \* database calls together

ASSUME ConstantsAssumption ==
  /\ Leeway \in Nat /\ MaxLatency \in Nat /\ ExpiresAt \in Nat
  /\ MaxClock \in Nat /\ MaxToken \in Nat \ {0}
  /\ MaxTrouble \in Nat

NoToken == 0
Tokens == 1..MaxToken

Kinds == {"refresh", "silent", "logout"}
InServer == {"findActive", "cas", "findPrior", "revoke", "audit", "clearStepUp"}
Phases == {"idle", "sent", "respond"} \cup InServer
Outcomes == {"none", "rotated", "access", "null", "ok"}

VARIABLES
  session,      \* the Session row
  isActive,     \* user.isActive
  stepUp,       \* the session's step-up window in Redis is open
  reuseAudits,  \* auth.refresh_token_reused rows in the audit log
  revokedBy,    \* history: what revoked the session
  jar,          \* the session cookie the browser holds
  req,          \* the requests
  minted,       \* number of tokens minted so far
  clock,
  dropped,      \* connections dropped so far
  crashed       \* API crashes and failed database calls so far

vars == <<session, isActive, stepUp, reuseAudits, revokedBy, jar, req, minted, clock, dropped, crashed>>

Idle == [pc |-> "idle", kind |-> "refresh", tok |-> NoToken, next |-> NoToken,
         sentAt |-> 0, now |-> 0, out |-> "none", open |-> FALSE]

Init ==
  /\ session = [active |-> 1, previous |-> NoToken, rotatedAt |-> 0, revoked |-> FALSE]
  /\ isActive = TRUE
  /\ stepUp = FALSE
  /\ reuseAudits = 0
  /\ revokedBy = "nobody"
  /\ jar = 1
  /\ req = [r \in Requests |-> Idle]
  /\ minted = 1
  /\ clock = 0
  /\ dropped = 0
  /\ crashed = 0

-----------------------------------------------------------------------------
(* The browser *)

\* A tab calls POST /auth/refresh, or any guarded route with an expired access
\* token: the request carries the session cookie the jar holds now.
Send(r, kind) ==
  /\ req[r].pc = "idle"
  /\ kind \in {"refresh", "silent"}
  /\ jar # NoToken
  /\ req' = [req EXCEPT ![r] = [Idle EXCEPT !.pc = "sent", !.kind = kind, !.tok = jar,
                                            !.sentAt = clock, !.open = TRUE]]
  /\ UNCHANGED <<session, isActive, stepUp, reuseAudits, revokedBy, jar, minted, clock, dropped, crashed>>

\* Slip: the loser of the race hands back the token it minted but never stored.
GraceSetsCookie(r) ==
  CASE ~req[r].open -> jar
    [] req[r].out \in {"rotated", "access"} /\ req[r].next # NoToken -> req[r].next
    [] req[r].out = "null" /\ req[r].kind = "refresh" -> NoToken
    [] req[r].out = "ok" -> NoToken
    [] OTHER -> jar

\* Only a response that carries a refresh token replaces the session cookie;
\* /auth/refresh and logout clear it on failure and on success respectively, the
\* silent path leaves it alone.
JarAfter(r) ==
  CASE ~req[r].open -> jar
    [] req[r].out = "rotated" -> req[r].next
    [] req[r].out = "null" /\ req[r].kind = "refresh" -> NoToken
    [] req[r].out = "ok" -> NoToken
    [] OTHER -> jar

\* The response reaches the browser.
Deliver(r) ==
  /\ req[r].pc = "respond"
  /\ jar' = JarAfter(r)
  /\ req' = [req EXCEPT ![r] = Idle]
  /\ UNCHANGED <<session, isActive, stepUp, reuseAudits, revokedBy, minted, clock, dropped, crashed>>

\* The connection drops; the handler runs on, nobody reads its response.
Drop(r) ==
  /\ req[r].open
  /\ dropped + crashed < MaxTrouble
  /\ dropped' = dropped + 1
  /\ req' = [req EXCEPT ![r].open = FALSE]
  /\ UNCHANGED <<session, isActive, stepUp, reuseAudits, revokedBy, jar, minted, clock, crashed>>

-----------------------------------------------------------------------------
(* rotateRefresh, one action per round trip *)

Respond(r, out) == req' = [req EXCEPT ![r].pc = "respond", ![r].out = out]

\* revokedAt set, expired at the handler's own `now`, or the user deactivated.
Refused(r) == session.revoked \/ ExpiresAt < req[r].now \/ ~isActive

\* The handler starts: `now` is read once, before the first query.
Arrive(r) ==
  /\ req[r].pc = "sent"
  /\ req' = [req EXCEPT ![r].pc = "findActive", ![r].now = clock]
  /\ UNCHANGED <<session, isActive, stepUp, reuseAudits, revokedBy, jar, minted, clock, dropped, crashed>>

\* findUnique by refreshTokenHash; on a usable row both tokens are minted
\* before the compare-and-swap.
FindActive(r) ==
  /\ req[r].pc = "findActive"
  /\ \/ /\ session.active = req[r].tok /\ Refused(r)
        /\ Respond(r, "null")
        /\ UNCHANGED minted
     \/ /\ session.active = req[r].tok /\ ~Refused(r)
        /\ minted < MaxToken
        /\ minted' = minted + 1
        /\ req' = [req EXCEPT ![r].pc = "cas", ![r].next = minted + 1]
     \/ /\ session.active # req[r].tok
        /\ req' = [req EXCEPT ![r].pc = "findPrior"]
        /\ UNCHANGED minted
  /\ UNCHANGED <<session, isActive, stepUp, reuseAudits, revokedBy, jar, clock, dropped, crashed>>

\* Slip: the update selects the session by id, not by the hash it read.
SwapById(r) == ~session.revoked

\* The row updateMany matches: same hash, not revoked.
SwapMatches(r) == session.active = req[r].tok /\ ~session.revoked

\* Slip: the row stores the start of the grace window, not the rotation time.
WindowStartRow(r) ==
  [session EXCEPT !.active = req[r].next, !.previous = req[r].tok,
                  !.rotatedAt = req[r].now - Leeway]

RotatedRow(r) ==
  [session EXCEPT !.active = req[r].next, !.previous = req[r].tok, !.rotatedAt = req[r].now]

Swap(r) ==
  /\ req[r].pc = "cas"
  /\ IF SwapMatches(r)
       THEN /\ session' = RotatedRow(r)
            /\ Respond(r, "rotated")
       ELSE /\ req' = [req EXCEPT ![r].pc = "findPrior"]
            /\ UNCHANGED session
  /\ UNCHANGED <<isActive, stepUp, reuseAudits, revokedBy, jar, minted, clock, dropped, crashed>>

\* Slip: the boundary of the window is excluded.
StrictlyWithinLeeway(r) == req[r].now < session.rotatedAt + Leeway

\* now - rotatedAt <= leeway; the difference is negative when the winner
\* started after this handler.
WithinLeeway(r) == req[r].now <= session.rotatedAt + Leeway

\* findUnique by previousRefreshTokenHash: unknown or refused, a benign race
\* (access token only), or reuse.
FindPrior(r) ==
  /\ req[r].pc = "findPrior"
  /\ \/ /\ session.previous # req[r].tok \/ Refused(r)
        /\ Respond(r, "null")
     \/ /\ session.previous = req[r].tok /\ ~Refused(r)
        /\ WithinLeeway(r)
        /\ Respond(r, "access")
     \/ /\ session.previous = req[r].tok /\ ~Refused(r)
        /\ ~WithinLeeway(r)
        /\ req' = [req EXCEPT ![r].pc = "revoke"]
  /\ UNCHANGED <<session, isActive, stepUp, reuseAudits, revokedBy, jar, minted, clock, dropped, crashed>>

\* Slip: the revocation is not conditional on the row being live.
RevokeBlindly(r) ==
  /\ req[r].pc = "revoke"
  /\ session' = [session EXCEPT !.revoked = TRUE]
  /\ revokedBy' = "reuse"
  /\ req' = [req EXCEPT ![r].pc = "audit"]
  /\ UNCHANGED <<isActive, stepUp, reuseAudits, jar, minted, clock, dropped, crashed>>

\* Conditional revocation: only the request that flips the row audits it.
RevokeReused(r) ==
  /\ req[r].pc = "revoke"
  /\ IF session.revoked
       THEN Respond(r, "null") /\ UNCHANGED <<session, revokedBy>>
       ELSE /\ session' = [session EXCEPT !.revoked = TRUE]
            /\ revokedBy' = "reuse"
            /\ req' = [req EXCEPT ![r].pc = "audit"]
  /\ UNCHANGED <<isActive, stepUp, reuseAudits, jar, minted, clock, dropped, crashed>>

AuditReuse(r) ==
  /\ req[r].pc = "audit"
  /\ reuseAudits' = reuseAudits + 1
  /\ req' = [req EXCEPT ![r].pc = "clearStepUp"]
  /\ UNCHANGED <<session, isActive, stepUp, revokedBy, jar, minted, clock, dropped, crashed>>

\* Best effort: a Redis failure is swallowed and leaves the window to its TTL.
ClearStepUp(r) ==
  /\ req[r].pc = "clearStepUp"
  /\ stepUp' \in {FALSE, stepUp}
  /\ Respond(r, "null")
  /\ UNCHANGED <<session, isActive, reuseAudits, revokedBy, jar, minted, clock, dropped, crashed>>

\* The API process dies: every handler is gone, the browser keeps its cookie.
Crash ==
  /\ dropped + crashed < MaxTrouble
  /\ \E r \in Requests : req[r].pc \in InServer
  /\ crashed' = crashed + 1
  /\ req' = [r \in Requests |-> IF req[r].pc \in InServer THEN Idle ELSE req[r]]
  /\ UNCHANGED <<session, isActive, stepUp, reuseAudits, revokedBy, jar, minted, clock, dropped>>

\* A database call throws: the handler ends there with a 500, no cookie changes.
DatabaseError(r) ==
  /\ req[r].pc \in InServer \ {"clearStepUp"}
  /\ dropped + crashed < MaxTrouble
  /\ crashed' = crashed + 1
  /\ Respond(r, "none")
  /\ UNCHANGED <<session, isActive, stepUp, reuseAudits, revokedBy, jar, minted, clock, dropped>>

-----------------------------------------------------------------------------
(* Everything else that writes the session row *)

\* updateMany / update where revokedAt is null.
Revoke(by) ==
  IF session.revoked
    THEN UNCHANGED <<session, revokedBy>>
    ELSE session' = [session EXCEPT !.revoked = TRUE] /\ revokedBy' = by

\* POST /auth/logout with a valid access token: the guard has seen the session
\* live; the cookie goes when the response arrives.
Logout(r) ==
  /\ req[r].pc = "idle"
  /\ jar # NoToken /\ isActive /\ ~session.revoked /\ clock <= ExpiresAt
  /\ Revoke("user")
  /\ stepUp' \in {FALSE, stepUp}
  /\ req' = [req EXCEPT ![r] = [Idle EXCEPT !.pc = "respond", !.kind = "logout", !.out = "ok",
                                            !.sentAt = clock, !.now = clock, !.open = TRUE]]
  /\ UNCHANGED <<isActive, reuseAudits, jar, minted, clock, dropped, crashed>>

\* An administrator revokes the session (security centre).
AdminRevoke ==
  /\ ~session.revoked
  /\ Revoke("admin")
  /\ stepUp' \in {FALSE, stepUp}
  /\ UNCHANGED <<isActive, reuseAudits, jar, req, minted, clock, dropped, crashed>>

\* Deactivation signs the user out everywhere, in the same transaction.
Deactivate ==
  /\ isActive
  /\ isActive' = FALSE
  /\ Revoke("admin")
  /\ UNCHANGED <<stepUp, reuseAudits, jar, req, minted, clock, dropped, crashed>>

Reactivate ==
  /\ ~isActive
  /\ isActive' = TRUE
  /\ UNCHANGED <<session, stepUp, reuseAudits, revokedBy, jar, req, minted, clock, dropped, crashed>>

\* StepUpService.markVerified, behind the guard; and the TTL of the window.
MarkVerified ==
  /\ ~stepUp /\ isActive /\ ~session.revoked /\ clock <= ExpiresAt
  /\ stepUp' = TRUE
  /\ UNCHANGED <<session, isActive, reuseAudits, revokedBy, jar, req, minted, clock, dropped, crashed>>

StepUpExpires ==
  /\ stepUp
  /\ stepUp' = FALSE
  /\ UNCHANGED <<session, isActive, reuseAudits, revokedBy, jar, req, minted, clock, dropped, crashed>>

\* Time passes, but never beyond the deadline of a request in flight.
Tick ==
  /\ clock < MaxClock
  /\ \A r \in Requests : req[r].pc # "idle" => clock < req[r].sentAt + MaxLatency
  /\ clock' = clock + 1
  /\ UNCHANGED <<session, isActive, stepUp, reuseAudits, revokedBy, jar, req, minted, dropped, crashed>>

-----------------------------------------------------------------------------
RequestStep(r) ==
  \/ \E kind \in Kinds : Send(r, kind)
  \/ Deliver(r) \/ Drop(r)
  \/ Arrive(r) \/ FindActive(r) \/ Swap(r) \/ FindPrior(r)
  \/ RevokeReused(r) \/ AuditReuse(r) \/ ClearStepUp(r)
  \/ Logout(r)

Next ==
  \/ \E r \in Requests : RequestStep(r) \/ DatabaseError(r)
  \/ Crash \/ AdminRevoke \/ Deactivate \/ Reactivate
  \/ MarkVerified \/ StepUpExpires \/ Tick

Spec == Init /\ [][Next]_vars

-----------------------------------------------------------------------------
(* Properties *)

SessionRow == [active : Tokens \cup {NoToken}, previous : Tokens \cup {NoToken},
               rotatedAt : Nat, revoked : BOOLEAN]

Request == [pc : Phases, kind : Kinds, tok : Tokens \cup {NoToken},
            next : Tokens \cup {NoToken}, sentAt : Nat, now : Nat,
            out : Outcomes, open : BOOLEAN]

\* Every variable has its type.
TypeOK ==
  /\ session \in SessionRow
  /\ isActive \in BOOLEAN
  /\ stepUp \in BOOLEAN
  /\ reuseAudits \in Nat
  /\ revokedBy \in {"nobody", "user", "admin", "reuse"}
  /\ jar \in Tokens \cup {NoToken}
  /\ req \in [Requests -> Request]
  /\ minted \in Tokens
  /\ clock \in Nat
  /\ dropped \in Nat /\ crashed \in Nat

Chain == INSTANCE TokenChain WITH current <- session.active,
                                  retired <- session.previous,
                                  live <- ~session.revoked

\* The row's slots behave as one linear chain of tokens: however the handlers
\* interleave, a rotation retires exactly the token it replaces (the
\* compare-and-swap on the hash), never brings an old one back, and nothing
\* rotates or un-revokes a revoked session.
ImplementsTokenChain == Chain!Spec

\* No response was lost so far.
Reliable == dropped = 0 /\ crashed = 0

\* A response on its way to the browser with a new session cookie.
InTransit(r) == req[r].pc = "respond" /\ req[r].out = "rotated"

\* The browser is never stranded on a cookie the database has forgotten: while
\* no connection dropped and the jar was not cleared, the active token is in
\* the jar or in a response still on its way (grace answers never replace the
\* cookie, and a rotation always hands its token back).
CookieNotStranded ==
  Reliable /\ jar # NoToken =>
    \/ jar = session.active
    \/ jar = session.previous /\ \E r \in Requests : InTransit(r) /\ req[r].next = session.active

\* A session of an honest browser is revoked for reuse only if a response was
\* lost, provided two round trips fit in the leeway.  rotatedAt is the winner's
\* start time, not the time of its update, hence two round trips and not one.
NoFalseReuse ==
  2 * MaxLatency <= Leeway /\ Reliable => revokedBy # "reuse"

\* The security event: at most one reuse row per session, and one for every
\* reuse revocation once its handler is past the audit, unless the insert failed
\* or the API died before it.
ReuseAuditedOnce ==
  /\ reuseAudits <= 1
  /\ reuseAudits = 1 => revokedBy = "reuse"
  /\ revokedBy = "reuse" =>
       reuseAudits = 1 \/ crashed > 0 \/ \E r \in Requests : req[r].pc = "audit"
=============================================================================
