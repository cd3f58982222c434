--------------------------- MODULE MCPageTraversal ---------------------------
(* Instances of PageTraversal for TLC: two or three records, each on its own *)
(* page.                                                                     *)
EXTENDS PageTraversal, TLC

CONSTANTS rec1, rec2, rec3

TwoRecords == {rec1, rec2}
ThreeRecords == {rec1, rec2, rec3}
OnTwoPages == (rec1 :> 1) @@ (rec2 :> 2)
OnThreePages == (rec1 :> 1) @@ (rec2 :> 2) @@ (rec3 :> 3)
Symmetry == Permutations(Workers)
=============================================================================
