------------------------- MODULE MCConnectionCatalog -------------------------
(* Openings, refreshes, schema changes and closings of one connection.        *)
EXTENDS ConnectionCatalog, TLC

Symmetry == Permutations(Openings) \cup Permutations(Refreshes)
            \cup Permutations(Ddls) \cup Permutations(Closers)
=============================================================================
