------------------------------ MODULE MCWindows ------------------------------
EXTENDS Windows, TLC

\* Neither the windows nor the calls are told apart.
Symmetry == Permutations(Keys) \cup Permutations(Tasks)
=============================================================================
