---------------------------- MODULE MCCancelToken ----------------------------
(* A family of tokens used by a few threads at once.                          *)
EXTENDS CancelToken, TLC

Symmetry == Permutations(Tokens) \cup Permutations(Threads)
=============================================================================
