------------------------------- MODULE GapRows -------------------------------
(***************************************************************************)
(* The row-level rules of the reconstruction gap table: a gap row records  *)
(* one problem the operator must look at, when it was last seen, and when  *)
(* a sweep found it gone.  Timestamps are the snapshot times of the        *)
(* evaluations, not the commit times; 0 means "never".  The scope's        *)
(* watermark is the snapshot time of the newest completed evaluation (the  *)
(* summary row's evaluatedAt, seeded with the epoch).                      *)
(***************************************************************************)
EXTENDS Naturals

Never == 0

NoGap == [exists |-> FALSE, seen |-> Never, resolved |-> Never]

GapRow == [exists : BOOLEAN, seen : Nat, resolved : Nat]

Open(row) == row.exists /\ row.resolved = Never

\* Slip: the update is not compared with what the row already says.
AppliesAlways(row, at) == row.exists

\* The guard of both updateMany arms: the observation is at least as recent as
\* what the row says (its last sighting while open, its resolution when not).
Applies(row, at) ==
  /\ row.exists
  /\ IF row.resolved = Never THEN row.seen <= at ELSE row.resolved <= at

\* upsertReconstructionGap: update if at least as recent, insert if the key is
\* new and no newer sweep has completed, otherwise nothing.
Observe(row, at, watermark) ==
  IF Applies(row, at) \/ (~row.exists /\ ~(watermark > at))
    THEN [exists |-> TRUE, seen |-> at, resolved |-> Never]
    ELSE row

\* resolveAbsentGaps: an open gap the terminal evaluation did not see again.
ResolveAbsent(row, at) ==
  IF Open(row) /\ row.seen < at THEN [row EXCEPT !.resolved = at] ELSE row

\* writeSummary: the newest evaluation keeps the watermark.
Advance(watermark, at) == IF watermark <= at THEN at ELSE watermark
=============================================================================
