----------------------------- MODULE WorkQueues -----------------------------
(***************************************************************************)
(* What a pool of workers promises to those who push tasks, as long as        *)
(* nobody takes one back: a task goes to the end of one worker's queue, and  *)
(* the worker takes up what is waiting there from the front, nothing twice    *)
(* and nothing skipped.  Taking up a task and removing it is one step.       *)
(***************************************************************************)
EXTENDS Sequences

CONSTANTS
  Workers,
  Tasks          \* what can be pushed

VARIABLES
  waiting,       \* the tasks of each worker that it has not taken up, in order
  taken          \* the tasks it has taken up, in order

vars == <<waiting, taken>>

Init ==
  /\ waiting = [w \in Workers |-> <<>>]
  /\ taken = [w \in Workers |-> <<>>]

Put(w, t) ==
  /\ waiting' = [waiting EXCEPT ![w] = Append(@, t)]
  /\ UNCHANGED taken

\* The only task that can be taken up is the first one waiting.
Take(w) ==
  /\ waiting[w] # <<>>
  /\ taken' = [taken EXCEPT ![w] = Append(@, Head(waiting[w]))]
  /\ waiting' = [waiting EXCEPT ![w] = Tail(@)]

Next == \E w \in Workers : Take(w) \/ \E t \in Tasks : Put(w, t)

Spec == Init /\ [][Next]_vars
=============================================================================
