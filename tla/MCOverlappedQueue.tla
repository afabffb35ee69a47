-------------------------- MODULE MCOverlappedQueue --------------------------
EXTENDS OverlappedQueue

CONSTANTS o1, o2, t1

WaitLists == {<<o1, o2>>, <<o1, Null>>}
WaitDurations == {-1, 3}

\* Every wait of the thread t1 returns (waitable.cpp:39-64), whatever the other one does.
\* The threads are alike, so this is every wait of any of them.
WaitReturns == Returns(t1)
=============================================================================
