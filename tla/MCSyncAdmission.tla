--------------------------- MODULE MCSyncAdmission ---------------------------
EXTENDS SyncAdmission, TLC
\* Workers are interchangeable, and so are occurrences; run ids are not, since
\* FreshId takes them in order.
Symmetry == Permutations(Workers) \union Permutations(Occurrences)
=============================================================================
