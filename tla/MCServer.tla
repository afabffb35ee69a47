------------------------------ MODULE MCServer ------------------------------
EXTENDS Server, TLC

Symmetry == Permutations(Handles) \cup Permutations(Sockets)
=============================================================================
