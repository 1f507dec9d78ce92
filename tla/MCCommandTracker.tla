-------------------------- MODULE MCCommandTracker --------------------------
(* Commands and approvals under three identifiers, at the tracker's bounds.    *)
EXTENDS CommandTracker, TLC

Symmetry == Permutations(Ids) \cup Permutations(Guards)
=============================================================================
