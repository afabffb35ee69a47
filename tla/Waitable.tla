------------------------------ MODULE Waitable ------------------------------
(***************************************************************************)
(* datapath::waitable: threads that wait for one object, for all of several  *)
(* or for any of them, while I/O on the objects is done and its completion   *)
(* routines interrupt the waits of the threads that issued it.               *)
(*                                                                         *)
(* An event resets itself when a wait takes it.  Time runs in half           *)
(* milliseconds, because the code counts whole ones.  The system reports     *)
(* abandoned objects for mutexes only, and no waitable is one.               *)
(***************************************************************************)
EXTENDS Integers, Sequences

CONSTANTS
  Threads,       \* threads that start I/O and wait
  Objects,       \* waitable objects, each with an event of its own
  Null,          \* a null pointer
  Lists,         \* the lists of objects that are waited for
  Durations,     \* the durations asked for, in milliseconds
  Longest,       \* numeric_limits<int32_t>::max()
  RoutineTimes,  \* bound: half milliseconds that completion routines may take
  MaxOwed        \* bound: I/O on one object whose success was not reported

ASSUME WaitableAssumption ==
  /\ Null \notin Objects
  /\ Lists \subseteq Seq(Objects \cup {Null}) /\ <<>> \notin Lists
  /\ Durations \subseteq Int
  /\ Longest \in Nat /\ RoutineTimes \subseteq Nat /\ MaxOwed \in Nat

VARIABLES
  io, issuer,    \* the I/O on each object: idle, busy, or its routine queued to its issuer
  signalled,     \* the objects whose event is set
  call,          \* the wait a thread is in: objects, timeout, and time in this system call
  report,        \* the objects whose listeners a thread is still to call, in order
  owed           \* history: I/O started on each object minus calls of its _on_wait_success

waitVars == <<io, issuer, signalled, call, report, owed>>

Entries(s) == {s[i] : i \in DOMAIN s}

\* timeout < 0 and timeout > max.
Clamp(ms) == IF ms < 0 THEN 0 ELSE IF ms > Longest THEN Longest ELSE ms

\* timeout <= 0 after an interruption.
AtLeast0(ms) == IF ms < 0 THEN 0 ELSE ms

\* A thread that is not in a wait.
NoCall == [kind |-> "none", list |-> <<>>, left |-> 0, spent |-> 0,
           asked |-> 0, lasted |-> 0, breaks |-> 0]

\* The wait c with other times.
Timed(c, left, spent, lasted, breaks) ==
  [kind |-> c.kind, list |-> c.list, left |-> left, spent |-> spent,
   asked |-> c.asked, lasted |-> lasted, breaks |-> breaks]

\* The list of handles has an entry for every object, null ones included, so the system
\* refuses it; and it refuses a list that names an object twice.
Refused(s) == Null \in Entries(s) \/ \E i, j \in DOMAIN s : i # j /\ s[i] = s[j]

\* WaitForSingleObjectEx and WaitForMultipleObjectsEx would succeed.
Ready(t) ==
  /\ ~Refused(call[t].list)
  /\ IF call[t].kind = "any" THEN Entries(call[t].list) \cap signalled # {}
                             ELSE Entries(call[t].list) \subseteq signalled

Out(t) == call[t].kind = "none" /\ report[t] = <<>>
In(t) == call[t].kind # "none"

----------------------------------------------------------------------------
(* I/O *)

\* An overlapped read or write with the completion routine.
Start(t, o) ==
  /\ Out(t) /\ io[o] = "idle" /\ owed[o] < MaxOwed
  /\ io' = [io EXCEPT ![o] = "busy"] /\ issuer' = [issuer EXCEPT ![o] = t]
  /\ owed' = [owed EXCEPT ![o] = @ + 1]
  /\ UNCHANGED <<signalled, call, report>>

\* The system is done and queues the routine.
Finish(o) ==
  /\ io[o] = "busy"
  /\ io' = [io EXCEPT ![o] = "queued"]
  /\ UNCHANGED <<issuer, signalled, call, report, owed>>

----------------------------------------------------------------------------
(* The waits *)

Enter(t, how, objs, ms) ==
  /\ Out(t)
  /\ call' = [call EXCEPT ![t] = [NoCall EXCEPT !.kind = how, !.list = objs,
                                                !.left = Clamp(ms), !.asked = Clamp(ms)]]
  /\ UNCHANGED <<io, issuer, signalled, report, owed>>

\* wait(obj, duration)
Wait(t, o, ms) == Enter(t, "one", <<o>>, ms)

\* wait(objs, count, duration)
WaitAll(t, objs, ms) == Enter(t, "all", objs, ms)

\* wait_any(objs, count, index, duration)
WaitAny(t, objs, ms) == Enter(t, "any", objs, ms)

\* Takes the events of the objects in s; their listeners are called after that.
Take(t, s) ==
  /\ signalled' = signalled \ Entries(s)
  /\ report' = [report EXCEPT ![t] = s] /\ call' = [call EXCEPT ![t] = NoCall]
  /\ UNCHANGED <<io, issuer, owed>>

SucceedOne(t) == call[t].kind = "one" /\ Ready(t) /\ Take(t, call[t].list)

\* Mutant: bWaitAll is FALSE.
SucceedSome(t) ==
  /\ call[t].kind = "all" /\ ~Refused(call[t].list)
  /\ Entries(call[t].list) \cap signalled # {}
  /\ Take(t, call[t].list)

SucceedAll(t) == call[t].kind = "all" /\ Ready(t) /\ Take(t, call[t].list)

\* The first object that is signalled, by its index.
SucceedAny(t) ==
  /\ call[t].kind = "any" /\ Ready(t)
  /\ \E index \in DOMAIN call[t].list :
       /\ call[t].list[index] \in signalled
       /\ \A j \in 1..(index - 1) : call[t].list[j] \notin signalled
       /\ Take(t, <<call[t].list[index]>>)

\* _on_wait_success of the next object; after the last the wait returns Success.
CallListeners(t) ==
  /\ report[t] # <<>>
  /\ owed' = [owed EXCEPT ![Head(report[t])] = @ - 1]
  /\ report' = [report EXCEPT ![t] = Tail(@)]
  /\ UNCHANGED <<io, issuer, signalled, call>>

Routines(t) == {o \in Objects : io[o] = "queued" /\ issuer[o] = t}

\* WAIT_IO_COMPLETION: the routines queued to the thread have run and set their events.
\* The thread waits again with the new timeout.
Broken(t, late, timeout) ==
  /\ In(t) /\ ~Refused(call[t].list) /\ Routines(t) # {}
  /\ io' = [o \in Objects |-> IF o \in Routines(t) THEN "idle" ELSE io[o]]
  /\ issuer' = [o \in Objects |-> IF o \in Routines(t) THEN Null ELSE issuer[o]]
  /\ signalled' = signalled \cup Routines(t)
  /\ call' = [call EXCEPT ![t] = Timed(@, timeout, 0, @.lasted + late, @.breaks + 1)]
  /\ UNCHANGED <<report, owed>>

\* Mutant: a millisecond that has begun counts as a whole one.
InterruptRoundsUp(t) ==
  \E late \in RoutineTimes :
    Broken(t, late, AtLeast0(call[t].left - (call[t].spent + late + 1) \div 2))

\* Mutant: the timeout may become negative.
InterruptUnclamped(t) ==
  \E late \in RoutineTimes :
    Broken(t, late, call[t].left - (call[t].spent + late) \div 2)

\* The duration of the call, with the routines, comes off the timeout in whole milliseconds.
Interrupt(t) ==
  \E late \in RoutineTimes :
    Broken(t, late, AtLeast0(call[t].left - (call[t].spent + late) \div 2))

Tick(t) ==
  /\ In(t) /\ ~Refused(call[t].list) /\ call[t].spent < 2 * call[t].left
  /\ call' = [call EXCEPT ![t] = Timed(@, @.left, @.spent + 1, @.lasted + 1, @.breaks)]
  /\ UNCHANGED <<io, issuer, signalled, report, owed>>

Leave(t) ==
  /\ In(t) /\ call' = [call EXCEPT ![t] = NoCall]
  /\ UNCHANGED <<io, issuer, signalled, report, owed>>

\* WAIT_TIMEOUT
TimeOut(t) ==
  /\ ~Refused(call[t].list) /\ ~Ready(t) /\ call[t].spent = 2 * call[t].left
  /\ Leave(t)

\* WAIT_FAILED
Fail(t) == Refused(call[t].list) /\ Leave(t)

----------------------------------------------------------------------------

WaitInit ==
  /\ io = [o \in Objects |-> "idle"] /\ issuer = [o \in Objects |-> Null]
  /\ signalled = {} /\ owed = [o \in Objects |-> 0]
  /\ call = [t \in Threads |-> NoCall] /\ report = [t \in Threads |-> <<>>]

\* What a thread inside a wait does next.
Waiting(t) ==
  \/ SucceedOne(t) \/ SucceedAll(t) \/ SucceedAny(t) \/ CallListeners(t)
  \/ Interrupt(t) \/ Tick(t) \/ TimeOut(t) \/ Fail(t)

----------------------------------------------------------------------------

Calls == [kind : {"none", "one", "all", "any"}, list : Seq(Objects \cup {Null}),
          left : Nat, spent : Nat, asked : Nat, lasted : Nat, breaks : Nat]

WaitTypeOK ==
  /\ io \in [Objects -> {"idle", "busy", "queued"}]
  /\ issuer \in [Objects -> Threads \cup {Null}]
  /\ signalled \subseteq Objects
  /\ call \in [Threads -> Calls] /\ report \in [Threads -> Seq(Objects)]
  /\ owed \in [Objects -> Int]

\* What is left of the wait c is what was asked for less the time it has lasted, with at
\* most half a millisecond more for every interruption; nothing is left of a wait that has
\* lasted longer.
InTime(c) ==
  LET due == 2 * c.asked - c.lasted
  IN  /\ 2 * c.left - c.spent >= due
      /\ 2 * c.left - c.spent <= due + c.breaks \/ c.left = 0

\* No interruption makes a wait time out early or go on for long (waitable.cpp:53-57,
\* 110-114, 166-170): what comes off the timeout is the time of the call in whole
\* milliseconds.
TimeoutBounds == \A t \in Threads : In(t) => InTime(call[t])

\* Every wait of a thread returns (waitable.cpp:39-64): interruptions come from I/O the
\* thread started before, and the timeout never becomes one without end.
Returns(t) == In(t) ~> Out(t)
=============================================================================
