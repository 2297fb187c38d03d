--------------------------- MODULE MCReviewSession ---------------------------
(* A small instance of ReviewSession for TLC.                              *)
EXTENDS ReviewSessionProperties, TLC

Symmetry == Permutations(CommentIds) \cup Permutations(Bodies) \cup Permutations(Gens)
=============================================================================
