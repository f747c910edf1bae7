------------------------ MODULE MCReceiptExtraction ------------------------
(* ReceiptExtraction for TLC: calls, pixels and sources are interchangeable. *)
EXTENDS ReceiptExtraction, TLC

Symmetry == Permutations(Extractors) \cup Permutations(Digests) \cup Permutations(Sources)
=============================================================================
