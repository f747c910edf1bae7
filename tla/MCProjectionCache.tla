------------------------- MODULE MCProjectionCache -------------------------
(* Small instances of ProjectionCache for TLC.                             *)
EXTENDS ProjectionCache, TLC

\* Requests are interchangeable.
RequestSymmetry == Permutations(Requests)
=============================================================================
