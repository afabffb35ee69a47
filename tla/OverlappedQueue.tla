--------------------------- MODULE OverlappedQueue ---------------------------
(***************************************************************************)
(* datapath::windows::overlapped_queue: a pool of overlapped objects, and    *)
(* the threads that take objects out of it, start I/O with them, wait and    *)
(* give them back.  A thread may give an object back while its I/O goes on,  *)
(* or when it is somebody else's: nothing in the queue prevents either.      *)
(***************************************************************************)
EXTENDS Waitable

CONSTANTS
  QueueBacklog,  \* the constructor's backlog
  MaxFree        \* bound: length of free_objs

ASSUME QueueAssumption == QueueBacklog \in Nat /\ MaxFree \in Nat /\ QueueBacklog <= MaxFree

VARIABLES
  free_objs, used_objs,
  open,          \* the queue has not been destroyed
  made,          \* objects that were ever made
  has,           \* the objects each thread took and has not given back
  \* history
  twice,         \* an object was given back that its thread did not have
  careless       \* an object was given back, or used again, with a success still owed

queueVars == <<free_objs, used_objs, open, made, has, twice, careless>>
vars == <<waitVars, queueVars>>

\* The thread gets the object o.
Taken(u, o) ==
  /\ has' = [has EXCEPT ![u] = @ \cup {o}]
  /\ used_objs' = Append(used_objs, o)

\* Mutant: the object stays in front of free_objs.
AllocKeeps(u) ==
  /\ open /\ Out(u)
  /\ \/ /\ free_objs # <<>> /\ Taken(u, Head(free_objs))
        /\ UNCHANGED <<free_objs, made>>
     \/ /\ free_objs = <<>> /\ UNCHANGED free_objs
        /\ \E o \in Objects \ made : Taken(u, o) /\ made' = made \cup {o}
  /\ UNCHANGED <<waitVars, open, twice, careless>>

\* alloc(): the oldest free object, as it was left, or a new one.
Alloc(u) ==
  /\ open /\ Out(u)
  /\ \/ /\ free_objs # <<>> /\ Taken(u, Head(free_objs))
        /\ free_objs' = Tail(free_objs) /\ UNCHANGED made
     \/ /\ free_objs = <<>> /\ UNCHANGED free_objs
        /\ \E o \in Objects \ made : Taken(u, o) /\ made' = made \cup {o}
  /\ UNCHANGED <<waitVars, open, twice, careless>>

\* The first entry that is o is erased, if there is one.
EraseUsed(o) ==
  \/ o \notin Entries(used_objs) /\ UNCHANGED used_objs
  \/ \E i \in DOMAIN used_objs :
       /\ used_objs[i] = o /\ \A k \in 1..(i - 1) : used_objs[k] # o
       /\ used_objs' = SubSeq(used_objs, 1, i - 1)
                       \o SubSeq(used_objs, i + 1, Len(used_objs))

\* free(): nothing tests whether the object was in use, or is idle.
Free(u, o) ==
  /\ open /\ Out(u) /\ o \in made /\ Len(free_objs) < MaxFree
  /\ EraseUsed(o)
  /\ free_objs' = Append(free_objs, o)
  /\ has' = [has EXCEPT ![u] = @ \ {o}]
  /\ twice' = (twice \/ o \notin has[u])
  /\ careless' = (careless \/ owed[o] # 0)
  /\ UNCHANGED <<waitVars, open, made>>

\* ~overlapped_queue: objects that threads have pointers to live on.
DestroyQueue ==
  /\ open
  /\ open' = FALSE /\ free_objs' = <<>> /\ used_objs' = <<>>
  /\ UNCHANGED <<waitVars, made, has, twice, careless>>

\* The constructor makes the objects of the backlog.
QueueInit ==
  /\ \E s \in [1..QueueBacklog -> Objects] :
       /\ \A i, j \in 1..QueueBacklog : i # j => s[i] # s[j]
       /\ free_objs = s /\ made = Entries(s)
  /\ used_objs = <<>> /\ open = TRUE
  /\ has = [u \in Threads |-> {}] /\ twice = FALSE /\ careless = FALSE

\* A thread starts I/O with an object it took.
Use(u, o) ==
  /\ o \in has[u] /\ Start(u, o)
  /\ careless' = (careless \/ owed[o] # 0)
  /\ UNCHANGED <<free_objs, used_objs, open, made, has, twice>>

\* A thread waits for objects that exist.
Await(u) ==
  /\ \E ms \in Durations :
       \/ \E o \in made : Wait(u, o, ms)
       \/ \E s \in Lists :
            /\ Entries(s) \ {Null} \subseteq made
            /\ WaitAll(u, s, ms) \/ WaitAny(u, s, ms)
  /\ UNCHANGED queueVars

Init == WaitInit /\ QueueInit

\* Bound: threads start nothing after an object was misused.
Proper == ~twice /\ ~careless

Next ==
  \/ Proper /\ \E u \in Threads, o \in Objects : Free(u, o) \/ Use(u, o)
  \/ Proper /\ \E u \in Threads : Alloc(u) \/ Await(u)
  \/ \E u \in Threads : Waiting(u) /\ UNCHANGED queueVars
  \/ \E o \in Objects : Finish(o) /\ UNCHANGED queueVars
  \/ Proper /\ DestroyQueue

\* A thread in a wait gets on.
Spec == Init /\ [][Next]_vars /\ \A u \in Threads : WF_vars(Waiting(u) /\ UNCHANGED queueVars)

----------------------------------------------------------------------------

QueueTypeOK ==
  /\ free_objs \in Seq(Objects) /\ used_objs \in Seq(Objects)
  /\ open \in BOOLEAN /\ twice \in BOOLEAN /\ careless \in BOOLEAN
  /\ made \subseteq Objects /\ has \in [Threads -> SUBSET Objects]

TypeOK == WaitTypeOK /\ QueueTypeOK

\* As long as threads only give back what they have, no object is handed out twice
\* (overlapped-queue.cpp:40-66): two threads never have the same one, and none is free while
\* a thread has it or twice on the free list.
HandedOutOnce ==
  ~twice =>
    /\ \A u, v \in Threads : u # v => has[u] \cap has[v] = {}
    /\ \A u \in Threads : has[u] \cap Entries(free_objs) = {}
    /\ \A i, j \in DOMAIN free_objs : i # j => free_objs[i] # free_objs[j]

Reporters(o) == {t \in Threads : o \in Entries(report[t])}

\* Where the success of the I/O on o is: none is due, the I/O is not done, the event is set,
\* or one wait has taken it.
Accounted(o) ==
  \/ owed[o] = 0 /\ io[o] = "idle" /\ o \notin signalled /\ Reporters(o) = {}
  \/ owed[o] = 1 /\ io[o] # "idle" /\ o \notin signalled /\ Reporters(o) = {}
  \/ owed[o] = 1 /\ io[o] = "idle" /\ o \in signalled /\ Reporters(o) = {}
  \/ /\ owed[o] = 1 /\ io[o] = "idle" /\ o \notin signalled
     /\ \E t \in Threads : Reporters(o) = {t}

\* Each I/O is reported to the listeners of its object exactly once, by one of the waits
\* that compete for it and never before it is done (waitable.cpp:44-46, 97-101, 155-158) -
\* unless an object is given back or used again before its I/O was waited for, because
\* alloc() hands out an object with the event its last user left.
ReportedOnce == ~careless => \A o \in Objects : Accounted(o)
=============================================================================
