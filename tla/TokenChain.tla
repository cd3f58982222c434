----------------------------- MODULE TokenChain -----------------------------
(***************************************************************************)
(* What a session's refresh-token slots promise, whatever the requests do: *)
(* tokens form one linear chain, a rotation retires exactly the token it   *)
(* replaces, and a revoked session is frozen for ever.  RefreshRotation    *)
(* implements this specification.                                          *)
(***************************************************************************)
EXTENDS Naturals

VARIABLES current,    \* the token the session row accepts as active
          retired,    \* the one token the row remembers as just replaced
          live        \* FALSE once the session is revoked

vars == <<current, retired, live>>

NoToken == 0

Init == current = 1 /\ retired = NoToken /\ live = TRUE

\* A rotation: a token never seen before replaces the current one.
Rotate == /\ live
          /\ current' \in Nat /\ current' > current
          /\ retired' = current
          /\ UNCHANGED live

Revoke == live /\ live' = FALSE /\ UNCHANGED <<current, retired>>

Next == Rotate \/ Revoke

Spec == Init /\ [][Next]_vars
=============================================================================
