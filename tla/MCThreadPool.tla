---------------------------- MODULE MCThreadPool ----------------------------
EXTENDS ThreadPool, TLC

CONSTANTS t1, t2, t3, t4, null

\* With two workers, bit 0 is the one push() tests: t1 and t2 fit both workers, t3 fits
\* worker 0 only, t4 no worker.
MCMask == [t \in Tasks |-> CASE t = t2 -> {0, 1} [] t = t3 -> {0} [] t = t4 -> {5}
                            [] OTHER -> AllBits]

\* t2 fits worker 1 only.
LastMask == [t \in Tasks |-> IF t = t2 THEN {1} ELSE AllBits]

Symmetry == Permutations(Pushers)
=============================================================================
