------------------------------ MODULE MCSocket ------------------------------
EXTENDS SocketInv, TLC

\* Every payload but the empty one is one byte long.
MCLength == [d \in Data |-> IF d = Empty THEN 0 ELSE 1]

Symmetry == Permutations(Users) \cup Permutations(Data \ {Empty})
=============================================================================
