----------------------------- MODULE ThreadPool -----------------------------
(***************************************************************************)
(* datapath::threadpool::pool: N workers, each with a thread that runs the   *)
(* tasks of its own queue, the threads that push tasks, one thread that      *)
(* calls clear(), and the destructor.                                       *)
(*                                                                         *)
(* A section under a worker's mutex is one step, except that the runner      *)
(* still holds it between finding its wait condition false ("drowsy") and    *)
(* blocking: the destructor does not take the mutex and can come in between. *)
(***************************************************************************)
EXTENDS Naturals, Sequences, FiniteSets

CONSTANTS
  N,             \* workers of the largest machine
  Counts,        \* what hardware_concurrency() may return: 0 if it cannot tell
  Tasks,         \* tasks, each pushed once at most
  Invalid,       \* the ones that are null or have no function
  Mask,          \* the bits set in the mask of each task
  ClearMasks,    \* the masks clear() is called with
  Pushers,       \* threads that call push()
  None           \* no task and no worker

Workers == 0..(N - 1)
AllBits == 0..63

\* 1 << idx has the width of an int, so more than 31 workers are not modelled.
ASSUME PoolAssumption ==
  /\ N \in 0..31 /\ Counts \subseteq 0..N
  /\ Invalid \subseteq Tasks
  /\ Mask \in [Tasks -> SUBSET AllBits]
  /\ ClearMasks \subseteq SUBSET AllBits
  /\ None \notin Tasks \cup Workers

VARIABLES
  \* the workers
  size, queue, pc, mine, should_stop,
  \* the calls of push(): the task, the workers not looked at, the best one so far
  call, arg, left, best, low,
  \* clear() and the destructor
  clearing, fate,
  broken,        \* pop() of an empty queue
  \* history
  calls,         \* tasks push() was called with
  rejected, refused, arrived, started, finished

workVars == <<size, queue, pc, mine, should_stop>>
callVars == <<call, arg, left, best, low>>
histVars == <<calls, rejected, refused, arrived, started, finished>>
vars == <<workVars, callVars, clearing, fate, broken, histVars>>

\* The workers in _workers.
Present == {w \in Workers : w < size}

\* Somebody other than the runner can take the worker's mutex.
Unlocked(w) == pc[w] # "drowsy"

\* w is the worker of S that a loop over _workers, a map ordered by index, comes to next.
IsFirst(w, S) == w \in S /\ \A v \in S : w <= v

----------------------------------------------------------------------------
(* worker::runner *)

RunnerFrame == UNCHANGED <<size, should_stop, callVars, clearing, fate, calls, rejected,
                           refused, arrived>>

Top(w) ==
  /\ pc[w] = "top"
  /\ pc' = [pc EXCEPT ![w] = IF should_stop[w] THEN "exited" ELSE "grab"]
  /\ UNCHANGED <<queue, mine, broken, started, finished>> /\ RunnerFrame

\* The task at the front is taken up, and stays in the queue while it runs.
Grab(w) ==
  /\ pc[w] = "grab"
  /\ IF queue[w] # <<>>
     THEN /\ mine' = [mine EXCEPT ![w] = Head(queue[w])]
          /\ started' = [started EXCEPT ![w] = Append(@, Head(queue[w]))]
          /\ pc' = [pc EXCEPT ![w] = "run"]
     ELSE pc' = [pc EXCEPT ![w] = "remove"] /\ UNCHANGED <<mine, started>>
  /\ UNCHANGED <<queue, broken, finished>> /\ RunnerFrame

\* my_task->function() returns.
Run(w) ==
  /\ pc[w] = "run"
  /\ finished' = finished \cup {mine[w]}
  /\ pc' = [pc EXCEPT ![w] = "remove"]
  /\ UNCHANGED <<queue, mine, broken, started>> /\ RunnerFrame

\* Mutant: the finished task stays at the front.
RemoveNothing(w) ==
  /\ pc[w] = "remove"
  /\ mine' = [mine EXCEPT ![w] = None]
  /\ pc' = [pc EXCEPT ![w] = IF queue[w] # <<>> \/ should_stop[w] THEN "top" ELSE "drowsy"]
  /\ UNCHANGED <<queue, broken, started, finished>> /\ RunnerFrame

\* Mutant: the runner waits without a look at the queue.
RemoveAndSleep(w) ==
  /\ pc[w] = "remove"
  /\ IF mine[w] = None THEN UNCHANGED <<queue, broken>>
     ELSE IF queue[w] = <<>> THEN broken' = TRUE /\ UNCHANGED queue
     ELSE queue' = [queue EXCEPT ![w] = Tail(@)] /\ UNCHANGED broken
  /\ mine' = [mine EXCEPT ![w] = None]
  /\ pc' = [pc EXCEPT ![w] = IF should_stop[w] THEN "top" ELSE "drowsy"]
  /\ UNCHANGED <<started, finished>> /\ RunnerFrame

\* "Remove it from the queue and wait": whatever is at the front is removed.
Remove(w) ==
  /\ pc[w] = "remove"
  /\ IF mine[w] = None THEN UNCHANGED <<queue, broken>>
     ELSE IF queue[w] = <<>> THEN broken' = TRUE /\ UNCHANGED queue
     ELSE queue' = [queue EXCEPT ![w] = Tail(@)] /\ UNCHANGED broken
  /\ mine' = [mine EXCEPT ![w] = None]
  /\ pc' = [pc EXCEPT ![w] = IF queue'[w] # <<>> \/ should_stop[w] THEN "top" ELSE "drowsy"]
  /\ UNCHANGED <<started, finished>> /\ RunnerFrame

\* The wait condition was false: block, and release the mutex with it.
Block(w) ==
  /\ pc[w] = "drowsy"
  /\ pc' = [pc EXCEPT ![w] = "blocked"]
  /\ UNCHANGED <<queue, mine, broken, started, finished>> /\ RunnerFrame

SpuriousWakeup(w) ==
  /\ pc[w] = "blocked"
  /\ pc' = [pc EXCEPT ![w] = "woken"]
  /\ UNCHANGED <<queue, mine, broken, started, finished>> /\ RunnerFrame

Recheck(w) ==
  /\ pc[w] = "woken"
  /\ pc' = [pc EXCEPT ![w] = IF queue[w] # <<>> \/ should_stop[w] THEN "top" ELSE "drowsy"]
  /\ UNCHANGED <<queue, mine, broken, started, finished>> /\ RunnerFrame

Runner(w) == Top(w) \/ Grab(w) \/ Run(w) \/ Remove(w) \/ Block(w) \/ Recheck(w)

\* signal.notify_all()
Wake(w) == pc' = [pc EXCEPT ![w] = IF @ = "blocked" THEN "woken" ELSE @]

----------------------------------------------------------------------------
(* pool::push *)

PushFrame == UNCHANGED <<size, mine, should_stop, clearing, fate, broken, started, finished>>

\* Mutant: any mask passes the test.
AnyMask == AllBits

\* The bits of _workers.size() - 1, a size_t, which wraps when there are no workers.  With
\* 31 workers at most, only the last five can be set.
TestedBits == IF size = 0 THEN AllBits
              ELSE {b \in 0..4 : ((size - 1) \div (2 ^ b)) % 2 = 1}

\* The destructor is not called while another thread is inside the pool.
Alive == \A w \in Present : fate[w] = "alive"

\* Mutant: null tasks are not caught.
PushUnchecked(p, t) ==
  /\ call[p] = "idle" /\ t \notin calls /\ Alive
  /\ calls' = calls \cup {t}
  /\ IF Mask[t] \cap TestedBits = {}
     THEN rejected' = rejected \cup {t} /\ UNCHANGED callVars
     ELSE /\ call' = [call EXCEPT ![p] = "scan"] /\ arg' = [arg EXCEPT ![p] = t]
          /\ left' = [left EXCEPT ![p] = Present]
          /\ UNCHANGED <<best, low, rejected>>
  /\ UNCHANGED <<queue, pc, refused, arrived>> /\ PushFrame

\* The early exits throw, for a null or invalid task and for the mask.
Push(p, t) ==
  /\ call[p] = "idle" /\ t \notin calls /\ Alive
  /\ calls' = calls \cup {t}
  /\ IF t \in Invalid \/ Mask[t] \cap TestedBits = {}
     THEN rejected' = rejected \cup {t} /\ UNCHANGED callVars
     ELSE /\ call' = [call EXCEPT ![p] = "scan"] /\ arg' = [arg EXCEPT ![p] = t]
          /\ left' = [left EXCEPT ![p] = Present]
          /\ UNCHANGED <<best, low, rejected>>
  /\ UNCHANGED <<queue, pc, refused, arrived>> /\ PushFrame

\* Look at the next worker: one whose affinity is in the mask is better if its queue
\* is shorter than the best one's was.
Scan(p) ==
  /\ call[p] = "scan"
  /\ \E w \in Workers :
       /\ IsFirst(w, left[p])
       /\ w \in Mask[arg[p]] => Unlocked(w)
       /\ left' = [left EXCEPT ![p] = @ \ {w}]
       /\ IF w \in Mask[arg[p]] /\ (best[p] = None \/ Len(queue[w]) < low[p])
          THEN best' = [best EXCEPT ![p] = w] /\ low' = [low EXCEPT ![p] = Len(queue[w])]
          ELSE UNCHANGED <<best, low>>
  /\ UNCHANGED <<size, queue, pc, call, arg, histVars, mine, should_stop, clearing, fate, broken>>

\* push() returns false: no worker fits.
Refuse(p) ==
  /\ call[p] = "scan" /\ left[p] = {} /\ best[p] = None
  /\ refused' = refused \cup {arg[p]}
  /\ call' = [call EXCEPT ![p] = "idle"] /\ arg' = [arg EXCEPT ![p] = None]
  /\ UNCHANGED <<left, best, low, queue, pc, calls, rejected, arrived>> /\ PushFrame

\* Mutant: the task is put in front of the others.
EnqueueFront(p) ==
  /\ call[p] = "scan" /\ left[p] = {} /\ best[p] # None
  /\ Unlocked(best[p])
  /\ queue' = [queue EXCEPT ![best[p]] = <<arg[p]>> \o @]
  /\ arrived' = [arrived EXCEPT ![best[p]] = Append(@, arg[p])]
  /\ call' = [call EXCEPT ![p] = "notify"]
  /\ UNCHANGED <<arg, left, best, low, pc, calls, rejected, refused>> /\ PushFrame

\* worker::push of the worker found, whatever its queue is like by now ...
Enqueue(p) ==
  /\ call[p] = "scan" /\ left[p] = {} /\ best[p] # None
  /\ Unlocked(best[p])
  /\ queue' = [queue EXCEPT ![best[p]] = Append(@, arg[p])]
  /\ arrived' = [arrived EXCEPT ![best[p]] = Append(@, arg[p])]
  /\ call' = [call EXCEPT ![p] = "notify"]
  /\ UNCHANGED <<arg, left, best, low, pc, calls, rejected, refused>> /\ PushFrame

\* Mutant: the notification is forgotten.
ReturnUnnotified(p) ==
  /\ call[p] = "notify"
  /\ call' = [call EXCEPT ![p] = "idle"] /\ arg' = [arg EXCEPT ![p] = None]
  /\ best' = [best EXCEPT ![p] = None] /\ low' = [low EXCEPT ![p] = 0]
  /\ UNCHANGED <<left, queue, pc, calls, rejected, refused, arrived>> /\ PushFrame

\* ... and its notification, after the mutex was released.
Notify(p) ==
  /\ call[p] = "notify"
  /\ Wake(best[p])
  /\ call' = [call EXCEPT ![p] = "idle"] /\ arg' = [arg EXCEPT ![p] = None]
  /\ best' = [best EXCEPT ![p] = None] /\ low' = [low EXCEPT ![p] = 0]
  /\ UNCHANGED <<left, queue, calls, rejected, refused, arrived>> /\ PushFrame

----------------------------------------------------------------------------
(* pool::clear *)

\* clear(mask) throws for a mask that fails the test of push().
Clear(mask) ==
  /\ clearing = {} /\ Alive
  /\ mask \cap TestedBits # {}
  /\ clearing' = mask \cap Present
  /\ UNCHANGED <<workVars, callVars, fate, broken, histVars>>

\* worker::clear of the next worker of the mask.
ClearWorker ==
  /\ \E w \in Workers :
       /\ IsFirst(w, clearing) /\ Unlocked(w)
       /\ queue' = [queue EXCEPT ![w] = <<>>]
       /\ clearing' = clearing \ {w}
  /\ UNCHANGED <<size, pc, mine, should_stop, callVars, fate, broken, histVars>>

----------------------------------------------------------------------------
(* ~pool: the workers are destroyed one after the other, in no order that matters *)

StopFrame == UNCHANGED <<size, queue, mine, callVars, clearing, broken, histVars>>

\* ~worker sets should_stop without the mutex ...
StopWorker(w) ==
  /\ fate[w] = "alive" /\ clearing = {}
  /\ \A p \in Pushers : call[p] = "idle"
  /\ \A v \in Workers : fate[v] \in {"alive", "gone"}
  /\ fate' = [fate EXCEPT ![w] = "stopped"]
  /\ should_stop' = [should_stop EXCEPT ![w] = TRUE]
  /\ UNCHANGED pc /\ StopFrame

\* Mutant: the worker is joined without a notification.
NotifyNobody(w) ==
  /\ fate[w] = "stopped"
  /\ fate' = [fate EXCEPT ![w] = "joining"]
  /\ UNCHANGED <<pc, should_stop>> /\ StopFrame

\* ... notifies ...
NotifyWorker(w) ==
  /\ fate[w] = "stopped"
  /\ fate' = [fate EXCEPT ![w] = "joining"]
  /\ Wake(w)
  /\ UNCHANGED should_stop /\ StopFrame

\* ... and joins.
JoinWorker(w) ==
  /\ fate[w] = "joining" /\ pc[w] = "exited"
  /\ fate' = [fate EXCEPT ![w] = "gone"]
  /\ UNCHANGED <<pc, should_stop>> /\ StopFrame

Destroying(w) == NotifyWorker(w) \/ JoinWorker(w)

----------------------------------------------------------------------------

Init ==
  /\ size \in Counts
  /\ queue = [w \in Workers |-> <<>>]
  /\ pc = [w \in Workers |-> IF w < size THEN "top" ELSE "exited"]
  /\ mine = [w \in Workers |-> None] /\ should_stop = [w \in Workers |-> FALSE]
  /\ call = [p \in Pushers |-> "idle"] /\ arg = [p \in Pushers |-> None]
  /\ left = [p \in Pushers |-> {}] /\ best = [p \in Pushers |-> None]
  /\ low = [p \in Pushers |-> 0]
  /\ clearing = {} /\ broken = FALSE
  /\ fate = [w \in Workers |-> IF w < size THEN "alive" ELSE "gone"]
  /\ calls = {} /\ rejected = {} /\ refused = {} /\ finished = {}
  /\ arrived = [w \in Workers |-> <<>>] /\ started = [w \in Workers |-> <<>>]

Pushing(p) == Scan(p) \/ Refuse(p) \/ Enqueue(p) \/ Notify(p)

Step ==
  \/ \E w \in Workers : Runner(w) \/ SpuriousWakeup(w) \/ StopWorker(w) \/ Destroying(w)
  \/ \E p \in Pushers : Pushing(p) \/ \E t \in Tasks : Push(p, t)
  \/ \E mask \in ClearMasks : Clear(mask)
  \/ ClearWorker

\* Nothing is known of a process that popped an empty queue.
Next == ~broken /\ Step

Spec == Init /\ [][Next]_vars

\* The scheduler runs every thread, and the tasks return.
FairSpec ==
  /\ Spec
  /\ \A w \in Workers : WF_vars(~broken /\ Runner(w)) /\ WF_vars(~broken /\ Destroying(w))
  /\ \A p \in Pushers : WF_vars(~broken /\ Pushing(p))

----------------------------------------------------------------------------
(* Properties *)

Accepted == Tasks \ Invalid

\* Every variable has its type; no queue holds a task that is null.
TypeOK ==
  /\ size \in 0..N /\ queue \in [Workers -> Seq(Accepted)]
  /\ pc \in [Workers -> {"top", "grab", "run", "remove", "drowsy", "blocked", "woken",
                         "exited"}]
  /\ mine \in [Workers -> Accepted \cup {None}]
  /\ should_stop \in [Workers -> BOOLEAN]
  /\ call \in [Pushers -> {"idle", "scan", "notify"}]
  /\ arg \in [Pushers -> Accepted \cup {None}]
  /\ left \in [Pushers -> SUBSET Workers]
  /\ best \in [Pushers -> Workers \cup {None}] /\ low \in [Pushers -> Nat]
  /\ clearing \subseteq Workers
  /\ fate \in [Workers -> {"alive", "stopped", "joining", "gone"}]
  /\ broken \in BOOLEAN
  /\ calls \subseteq Tasks /\ rejected \subseteq Tasks /\ refused \subseteq Tasks
  /\ finished \subseteq Tasks
  /\ arrived \in [Workers -> Seq(Accepted)] /\ started \in [Workers -> Seq(Accepted)]

\* A worker starts its tasks in the order they reached its queue and none twice, although
\* the front is taken and removed in two sections of the mutex, and even when clear()
\* has emptied the queue in between (threadpool.cpp:51-66, 74-79).
InPushOrder ==
  \A w \in Workers : \A i, j \in 1..Len(started[w]) :
    i < j => \E a, b \in 1..Len(arrived[w]) :
               a < b /\ arrived[w][a] = started[w][i] /\ arrived[w][b] = started[w][j]

\* No lost wakeup of push(): a worker blocked on a queue with work in it is about to be
\* notified (threadpool.cpp:67-69, 83-87).
SleeperIsNotified ==
  \A w \in Workers :
    pc[w] = "blocked" /\ queue[w] # <<>> =>
      \E p \in Pushers : call[p] = "notify" /\ best[p] = w

\* A mask that passes the test of push() fits a worker: push() returns false only if
\* there are no workers at all (threadpool.cpp:116, 133).
NeverRefused == refused # {} => size = 0

\* "Remove it from the queue and wait" (threadpool.cpp:61): what the runner removes is
\* the task it ran.
RemovesItsOwn ==
  \A w \in Workers :
    pc[w] = "remove" /\ mine[w] # None => queue[w] # <<>> /\ Head(queue[w]) = mine[w]

\* The task in hand is the front of the queue, and does not wait any more.
Queues == INSTANCE WorkQueues
  WITH Tasks <- Accepted,
       waiting <- [w \in Workers |-> IF mine[w] = None THEN queue[w] ELSE Tail(queue[w])],
       taken <- started

\* Without clear(), a worker's queue is one in spite of the two sections of the mutex in
\* which its front is taken and removed (threadpool.cpp:51-66): tasks wait in the order of
\* push(), each is started next when it is first, and none goes away.
ImplementsQueues == Queues!Spec

\* "mask does not fit any thread" (threadpool.cpp:117): a task is only rejected for its
\* mask when its mask has no worker's bit.
RejectedFitsNone == \A t \in rejected : t \in Invalid \/ Mask[t] \cap Present = {}

\* Without clear(), every task that reached a queue is run, unless the pool is destroyed.
EveryTaskRuns ==
  \A t \in Tasks :
    (\E w \in Workers : \E i \in 1..Len(arrived[w]) : arrived[w][i] = t)
      ~> (t \in finished \/ ~Alive)

\* ~worker returns, unless its runner had found should_stop unset and was about to block:
\* only that runner can miss the notification, as should_stop is set without the mutex
\* (threadpool.cpp:33-36, 68).
StopsUnlessDrowsy ==
  \A w \in Workers : fate[w] = "stopped" /\ pc[w] # "drowsy" ~> fate[w] = "gone"
=============================================================================
