-------------------------------- MODULE Task --------------------------------
(***************************************************************************)
(* datapath::windows::task and ::overlapped: the writes of socket::write,    *)
(* the threads that issue and wait for them, and the tasks the application   *)
(* waits on, cancels, uses again and drops.                                  *)
(*                                                                         *)
(* Every write makes one overlapped object, which its number stands for.     *)
(* The object owns an event by its handle value, which the system gives out  *)
(* again once it was closed.  The write is done in three stages: the system  *)
(* finishes it, queues its completion routine to the thread that issued it,  *)
(* and that thread runs the routine inside an alertable wait.                *)
(***************************************************************************)
EXTENDS Naturals

CONSTANTS
  Threads,       \* threads that write and wait
  Tasks,         \* the tasks the application has a pointer for
  Events,        \* the handle values of events
  None,          \* no write
  MaxWrites      \* bound: calls of write()

ASSUME TaskAssumption ==
  /\ MaxWrites \in Nat
  /\ None \notin Nat /\ None \notin Events

Writes == 1..MaxWrites

VARIABLES
  \* the tasks: the overlapped object of the last write, and whether ~task has begun
  held, dying,
  \* the overlapped objects
  alive, event, io, issuer,
  evt,           \* the state of the event behind each handle value
  corrupt,       \* memory was used after it was freed
  \* history
  count,         \* writes so far
  awaited,       \* how often a wait for each write has succeeded
  hasty,         \* writes whose object was released before a wait for them succeeded
  cancelled      \* some write was cancelled while the system owned it

taskVars == <<held, dying>>
ovVars == <<alive, event, io, issuer>>
histVars == <<count, awaited, hasty, cancelled>>
vars == <<taskVars, ovVars, evt, corrupt, histVars>>

----------------------------------------------------------------------------
(* The overlapped object *)

\* Mutant: the event is created signalled.
NewEventSet(e) == [evt EXCEPT ![e] = "set"]

\* An event that resets itself, not signalled.
NewEvent(e) == [evt EXCEPT ![e] = "unset"]

\* overlapped::cancel.  The handle was never set, so CancelIoEx fails and the write goes
\* on; the event is closed by its value, whoever owns that by now.
CloseEvent(e, w) == [e EXCEPT ![event[w]] = "closed"]

\* overlapped::is_completed: the system is done, whether or not the routine has run.
IsCompleted(w) == io[w] # "pending"

InFlight(w) == io[w] \in {"pending", "completed"}

\* The writes of S that were taken and that no wait has succeeded for.
Unawaited(S) == {w \in S : io[w] # "refused" /\ awaited[w] = 0}

----------------------------------------------------------------------------
(* socket::write *)

\* Mutant: the new object has no event.
WriteNoEvent(th, k) ==
  /\ ~dying[k] /\ count < MaxWrites
  /\ count' = count + 1
  /\ issuer' = [issuer EXCEPT ![count'] = th] /\ io' = [io EXCEPT ![count'] = "pending"]
  /\ held' = [held EXCEPT ![k] = count'] /\ alive' = [alive EXCEPT ![count'] = TRUE]
  /\ UNCHANGED <<dying, event, evt, corrupt, awaited, hasty, cancelled>>

\* A new object is made with its event and assigned to the task, which releases the old
\* one; then WriteFileEx takes the write or refuses it.
Write(th, k) ==
  /\ ~dying[k] /\ count < MaxWrites
  /\ count' = count + 1
  /\ issuer' = [issuer EXCEPT ![count'] = th]
  /\ \E result \in {"pending", "refused"} : io' = [io EXCEPT ![count'] = result]
  /\ held' = [held EXCEPT ![k] = count']
  /\ \E e \in Events :
       /\ evt[e] = "closed"
       /\ event' = [event EXCEPT ![count'] = e]
       /\ evt' = IF held[k] = None THEN NewEvent(e) ELSE CloseEvent(NewEvent(e), held[k])
  /\ alive' = [w \in Writes |-> w = count' \/ (alive[w] /\ w # held[k])]
  /\ hasty' = hasty \cup Unawaited({held[k]} \ {None})
  /\ UNCHANGED <<dying, corrupt, awaited, cancelled>>

\* The system finishes a write, with an error if the pipe is gone: it stores the status in
\* the object and queues the routine.
Complete(w) ==
  /\ io[w] = "pending"
  /\ io' = [io EXCEPT ![w] = "completed"]
  /\ corrupt' = ~alive[w]
  /\ UNCHANGED <<taskVars, alive, event, issuer, evt, histVars>>

\* Mutant: the routine does not signal.
RoutineForgets(th) ==
  LET queued == {w \in Writes : issuer[w] = th /\ io[w] = "completed"}
  IN  /\ queued # {}
      /\ io' = [w \in Writes |-> IF w \in queued THEN "called" ELSE io[w]]
      /\ corrupt' = (\E w \in queued : ~alive[w])
      /\ UNCHANGED <<taskVars, alive, event, issuer, evt, histVars>>

\* An alertable wait of any kind runs the routines queued to its thread.  SetEvent on a
\* closed handle fails.
RunRoutines(th) ==
  LET queued == {w \in Writes : issuer[w] = th /\ io[w] = "completed"}
      signalled == {event[w] : w \in queued}
  IN  /\ queued # {}
      /\ io' = [w \in Writes |-> IF w \in queued THEN "called" ELSE io[w]]
      /\ evt' = [e \in Events |-> IF e \in signalled /\ evt[e] # "closed" THEN "set" ELSE evt[e]]
      /\ corrupt' = (\E w \in queued : ~alive[w])
      /\ UNCHANGED <<taskVars, alive, event, issuer, histVars>>

----------------------------------------------------------------------------
(* The task *)

\* Mutant: the event stays signalled.
WaitKeepsEvent(k) ==
  /\ ~dying[k] /\ held[k] # None
  /\ evt[event[held[k]]] = "set"
  /\ awaited' = [awaited EXCEPT ![held[k]] = @ + 1]
  /\ UNCHANGED <<taskVars, ovVars, evt, corrupt, count, hasty, cancelled>>

\* waitable::wait returns Success, and on_success is called.  A wait that times out, or
\* fails because the handle is closed, changes nothing.
WaitSucceeds(k) ==
  /\ ~dying[k] /\ held[k] # None
  /\ evt[event[held[k]]] = "set"
  /\ evt' = [evt EXCEPT ![event[held[k]]] = "unset"]
  /\ awaited' = [awaited EXCEPT ![held[k]] = @ + 1]
  /\ UNCHANGED <<taskVars, ovVars, corrupt, count, hasty, cancelled>>

\* Mutant: a task that is done is cancelled too.
CancelAlways(w) == evt' = CloseEvent(evt, w) /\ UNCHANGED cancelled

\* task::cancel with an object.
CancelPending(w) ==
  IF IsCompleted(w) THEN UNCHANGED <<evt, cancelled>>
  ELSE evt' = CloseEvent(evt, w) /\ cancelled' = TRUE

Cancel(k) ==
  /\ ~dying[k] /\ held[k] # None
  /\ CancelPending(held[k])
  /\ UNCHANGED <<taskVars, ovVars, corrupt, count, awaited, hasty>>

\* The last pointer to the task goes: ~task cancels ...
Drop(k) ==
  /\ ~dying[k] /\ held[k] # None
  /\ dying' = [dying EXCEPT ![k] = TRUE]
  /\ CancelPending(held[k])
  /\ UNCHANGED <<held, ovVars, corrupt, count, awaited, hasty>>

\* ... and its members are destroyed, the object with them, which closes the event (again).
Destroy(k) ==
  /\ dying[k]
  /\ dying' = [dying EXCEPT ![k] = FALSE] /\ held' = [held EXCEPT ![k] = None]
  /\ alive' = [alive EXCEPT ![held[k]] = FALSE]
  /\ evt' = CloseEvent(evt, held[k])
  /\ hasty' = hasty \cup Unawaited({held[k]})
  /\ UNCHANGED <<event, io, issuer, corrupt, count, awaited, cancelled>>

----------------------------------------------------------------------------

Init ==
  /\ held = [k \in Tasks |-> None] /\ dying = [k \in Tasks |-> FALSE]
  /\ alive = [w \in Writes |-> FALSE] /\ event = [w \in Writes |-> None]
  /\ io = [w \in Writes |-> "none"] /\ issuer = [w \in Writes |-> None]
  /\ evt = [e \in Events |-> "closed"] /\ corrupt = FALSE
  /\ count = 0 /\ awaited = [w \in Writes |-> 0] /\ hasty = {} /\ cancelled = FALSE

Step ==
  \/ \E w \in Writes : Complete(w)
  \/ \E th \in Threads : RunRoutines(th) \/ \E k \in Tasks : Write(th, k)
  \/ \E k \in Tasks : WaitSucceeds(k) \/ Cancel(k) \/ Drop(k) \/ Destroy(k)

\* Nothing is known of a process that used freed memory.
Next == ~corrupt /\ Step

Spec == Init /\ [][Next]_vars

\* The system finishes its writes, the threads that issue writes make alertable waits, the
\* tasks that are kept are waited for, and a destructor that was entered ends.
FairSpec ==
  /\ Spec
  /\ \A w \in Writes : WF_vars(~corrupt /\ Complete(w))
  /\ \A th \in Threads : WF_vars(~corrupt /\ RunRoutines(th))
  /\ \A k \in Tasks : WF_vars(~corrupt /\ WaitSucceeds(k)) /\ WF_vars(~corrupt /\ Destroy(k))

----------------------------------------------------------------------------
(* Properties *)

\* Every variable has its type, and every object that is alive was given an event.
TypeOK ==
  /\ count \in 0..MaxWrites
  /\ held \in [Tasks -> 1..count \cup {None}] /\ dying \in [Tasks -> BOOLEAN]
  /\ alive \in [Writes -> BOOLEAN]
  /\ event \in [Writes -> Events \cup {None}]
  /\ \A w \in Writes : w <= count <=> event[w] # None
  /\ io \in [Writes -> {"none", "refused", "pending", "completed", "called"}]
  /\ issuer \in [Writes -> Threads \cup {None}]
  /\ evt \in [Events -> {"closed", "unset", "set"}]
  /\ corrupt \in BOOLEAN
  /\ awaited \in [Writes -> Nat] /\ hasty \subseteq Writes /\ cancelled \in BOOLEAN

\* As long as no write in flight was cancelled or dropped, no object closes or shares the
\* event of another, although events are closed by values that the system gives out again
\* (overlapped.cpp:66-73), and although ~task cancels (task.cpp:37-52).
EventsExclusive ==
  ~cancelled =>
    \A w \in Writes : alive[w] =>
      /\ evt[event[w]] # "closed"
      /\ \A v \in Writes : alive[v] /\ v # w => event[v] # event[w]

\* ... a successful wait means that this very write is done, its routine included, and it
\* succeeds once (waitable.cpp:42-46, utility.hpp:53-57).
WaitMeansDone ==
  ~cancelled =>
    \A w \in Writes : awaited[w] <= 1 /\ (awaited[w] = 1 => io[w] = "called")

\* ... memory is freed under the system or under a queued routine only for a write that
\* was released before a wait for it succeeded: is_completed() does not make it safe
\* (task.cpp:54-60, overlapped.cpp:75-81).
FreedOnlyInHaste ==
  ~cancelled => \A w \in Writes : InFlight(w) /\ ~alive[w] => w \in hasty

\* A write that the system took is reported to a wait, unless its task is used for another
\* write or dropped before that, or some write in flight was cancelled.
EveryWriteAwaited ==
  \A w \in Writes :
    io[w] = "pending" ~> (awaited[w] > 0 \/ w \in hasty \/ cancelled \/ corrupt)
=============================================================================
