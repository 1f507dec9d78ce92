------------------------- MODULE MCApprovalRegistry -------------------------
EXTENDS ApprovalRegistry, TLC

\* Neither the identifiers nor the requests are told apart.
Symmetry == Permutations(Ids) \cup Permutations(Whats)
=============================================================================
