---------------------------- MODULE MCStatement ----------------------------
(* Statements of every kind on one session, against what closes it.           *)
EXTENDS Statement, TLC

Symmetry == Permutations(Stmts) \cup Permutations(Closers)
=============================================================================
