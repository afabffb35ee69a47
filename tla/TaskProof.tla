------------------------------ MODULE TaskProof ------------------------------
(***************************************************************************)
(* Theorems about tasks and their overlapped objects, for every number of    *)
(* threads, tasks, events and writes.                                        *)
(***************************************************************************)
EXTENDS Task, TLAPS

\* A task that is being destroyed has an object, a task's object is alive, and no other
\* task has it.
Holds ==
  /\ \A k \in Tasks : dying[k] => held[k] # None
  /\ \A k \in Tasks : held[k] # None => alive[held[k]]
  /\ \A j, k \in Tasks : held[j] # None /\ held[j] = held[k] => j = k

\* Nothing happened to a write that was not made.
Fresh == \A w \in Writes : w > count => ~alive[w] /\ io[w] = "none" /\ awaited[w] = 0

\* An event is signalled only for the object that owns it, after the routine of its write
\* ran and before a wait for it succeeded.
SetMeansCalled ==
  ~cancelled /\ ~corrupt =>
    \A w \in Writes :
      alive[w] /\ evt[event[w]] = "set" => io[w] = "called" /\ awaited[w] = 0

Shape == TypeOK /\ Holds /\ Fresh

IInv == Shape /\ EventsExclusive /\ SetMeansCalled /\ WaitMeansDone /\ FreedOnlyInHaste

----------------------------------------------------------------------------

LEMMA UnawaitedSubset == \A S : Unawaited(S) \subseteq S
  BY DEF Unawaited

LEMMA ShapeInit == Init => Shape
  <1> SUFFICES ASSUME Init PROVE Shape
    OBVIOUS
  <1> USE TaskAssumption DEF Init
  <1>1. TypeOK
    <2>1. dying \in [Tasks -> BOOLEAN] /\ alive \in [Writes -> BOOLEAN]
          /\ corrupt \in BOOLEAN /\ cancelled \in BOOLEAN
      BY Zenon
    <2>2. held \in [Tasks -> 1..count \cup {None}] /\ count \in 0..MaxWrites
      OBVIOUS
    <2>3. \A w \in Writes : w <= count <=> event[w] # None
      BY DEF Writes
    <2>4. event \in [Writes -> Events \cup {None}] /\ issuer \in [Writes -> Threads \cup {None}]
      OBVIOUS
    <2>5. awaited \in [Writes -> Nat] /\ hasty \subseteq Writes
      OBVIOUS
    <2>6. /\ io \in [Writes -> {"none", "refused", "pending", "completed", "called"}]
          /\ evt \in [Events -> {"closed", "unset", "set"}]
      OBVIOUS
    <2> QED
      BY <2>1, <2>2, <2>3, <2>4, <2>5, <2>6 DEF TypeOK
  <1>2. Holds
    BY DEF Holds
  <1>3. Fresh
    BY DEF Fresh
  <1> QED
    BY <1>1, <1>2, <1>3 DEF Shape

LEMMA ShapeNext == Shape /\ [Next]_vars => Shape'
  <1> SUFFICES ASSUME Shape, [Next]_vars PROVE Shape'
    OBVIOUS
  <1> USE TaskAssumption DEF Shape, TypeOK, Holds, Fresh, Writes, taskVars, ovVars, histVars
  <1>1. ASSUME NEW w \in Writes, Complete(w) PROVE Shape'
    BY <1>1 DEF Complete
  <1>2. ASSUME NEW th \in Threads, RunRoutines(th) PROVE Shape'
    BY <1>2 DEF RunRoutines
  <1>3. ASSUME NEW th \in Threads, NEW k \in Tasks, Write(th, k) PROVE Shape'
    <2>1. /\ count' = count + 1 /\ count' \in Writes /\ count \in Nat
          /\ issuer' = [issuer EXCEPT ![count'] = th]
          /\ held' = [held EXCEPT ![k] = count']
          /\ alive' = [w \in Writes |-> w = count' \/ (alive[w] /\ w # held[k])]
          /\ hasty' = hasty \cup Unawaited({held[k]} \ {None})
          /\ UNCHANGED <<dying, corrupt, awaited, cancelled>> /\ ~dying[k]
      BY <1>3 DEF Write
    <2>2. PICK result \in {"pending", "refused"} : io' = [io EXCEPT ![count'] = result]
      BY <1>3 DEF Write
    <2>3. PICK e \in Events :
            /\ event' = [event EXCEPT ![count'] = e]
            /\ evt' = IF held[k] = None THEN NewEvent(e) ELSE CloseEvent(NewEvent(e), held[k])
      BY <1>3 DEF Write
    <2>4. TypeOK'
      <3>1. count' \in 0..MaxWrites /\ held' \in [Tasks -> 1..count' \cup {None}]
        BY <2>1
      <3>2. dying' \in [Tasks -> BOOLEAN] /\ alive' \in [Writes -> BOOLEAN]
            /\ corrupt' \in BOOLEAN /\ cancelled' \in BOOLEAN
        BY <2>1
      <3>3. event' \in [Writes -> Events \cup {None}]
            /\ \A w \in Writes : w <= count' <=> event'[w] # None
        BY <2>1, <2>3
      <3>4. /\ io' \in [Writes -> {"none", "refused", "pending", "completed", "called"}]
            /\ issuer' \in [Writes -> Threads \cup {None}]
            /\ awaited' \in [Writes -> Nat]
        BY <2>1, <2>2
      <3>5. evt' \in [Events -> {"closed", "unset", "set"}]
        BY <2>3 DEF NewEvent, CloseEvent
      <3>6. hasty' \subseteq Writes
        BY <2>1, UnawaitedSubset, {held[k]} \ {None} \subseteq Writes
      <3> QED
        BY <3>1, <3>2, <3>3, <3>4, <3>5, <3>6
    <2>5. Holds'
      <3>1. \A j \in Tasks : held[j] # count' /\ (held[j] = None \/ held[j] \in Writes)
        <4> TAKE j \in Tasks
        <4>1. held[j] \in 1..count \cup {None}
          OBVIOUS
        <4>2. count' \notin 1..count /\ 1..count \subseteq Writes /\ count' # None
          <5>1. count \in 0..MaxWrites /\ MaxWrites \in Nat /\ None \notin Nat
            OBVIOUS
          <5> QED
            BY <2>1, <5>1 DEF Writes
        <4> QED
          BY <4>1, <4>2
      <3>2. \A j \in Tasks : j # k => held'[j] = held[j]
        BY <2>1
      <3>3. held'[k] = count' /\ count' # None /\ alive'[count']
        <4>1. held'[k] = count'
          BY <2>1
        <4>2. count' # None
          BY <2>1, 1..MaxWrites \subseteq Nat
        <4>3. alive'[count']
          BY <2>1
        <4> QED
          BY <4>1, <4>2, <4>3
      <3>4. \A j \in Tasks : j # k /\ held[j] # None => held[j] # held[k]
        OBVIOUS
      <3> QED
        BY <2>1, <3>1, <3>2, <3>3, <3>4
    <2>6. Fresh'
      BY <2>1, <2>2
    <2> QED
      BY <2>4, <2>5, <2>6
  <1>4. ASSUME NEW k \in Tasks, WaitSucceeds(k) PROVE Shape'
    BY <1>4 DEF WaitSucceeds
  <1>5. ASSUME NEW k \in Tasks, Cancel(k) PROVE Shape'
    BY <1>5 DEF Cancel, CancelPending, CloseEvent
  <1>6. ASSUME NEW k \in Tasks, Drop(k) PROVE Shape'
    BY <1>6 DEF Drop, CancelPending, CloseEvent
  <1>7. ASSUME NEW k \in Tasks, Destroy(k) PROVE Shape'
    <2> USE <1>7 DEF Destroy
    <2>1. held[k] \in Writes
      OBVIOUS
    <2>2. TypeOK'
      <3>1. evt' \in [Events -> {"closed", "unset", "set"}]
        BY DEF CloseEvent
      <3>2. hasty' \subseteq Writes
        <4>1. hasty \subseteq Writes /\ hasty' = hasty \cup Unawaited({held[k]})
          OBVIOUS
        <4>2. Unawaited({held[k]}) \subseteq {held[k]}
          BY UnawaitedSubset
        <4> QED
          BY ONLY <2>1, <4>1, <4>2
      <3> QED
        BY <2>1, <3>1, <3>2
    <2>3. Holds'
      BY <2>1
    <2>4. Fresh'
      BY <2>1
    <2> QED
      BY <2>2, <2>3, <2>4
  <1>8. CASE UNCHANGED vars
    BY <1>8 DEF vars
  <1> QED
    BY <1>1, <1>2, <1>3, <1>4, <1>5, <1>6, <1>7, <1>8 DEF Next, Step

----------------------------------------------------------------------------

\* The four parts about events, waits and memory, in a state where no write in flight
\* was cancelled.
Exclusive ==
  \A w \in Writes : alive[w] =>
    /\ evt[event[w]] # "closed"
    /\ \A v \in Writes : alive[v] /\ v # w => event[v] # event[w]

SetCalled ==
  ~corrupt =>
    \A w \in Writes :
      alive[w] /\ evt[event[w]] = "set" => io[w] = "called" /\ awaited[w] = 0

AwaitedCalled == \A w \in Writes : awaited[w] <= 1 /\ (awaited[w] = 1 => io[w] = "called")

FreedHasty == \A w \in Writes : InFlight(w) /\ ~alive[w] => w \in hasty

Owned == Exclusive /\ SetCalled /\ AwaitedCalled /\ FreedHasty

LEMMA OwnedParts ==
  (~cancelled => Owned)
    <=> EventsExclusive /\ SetMeansCalled /\ WaitMeansDone /\ FreedOnlyInHaste
  BY DEF Owned, Exclusive, SetCalled, AwaitedCalled, FreedHasty, EventsExclusive, SetMeansCalled, WaitMeansDone, FreedOnlyInHaste

\* An object that is alive was given an event.
LEMMA AliveHasEvent ==
  ASSUME Shape, NEW w \in Writes, alive[w]
  PROVE  event[w] \in Events /\ w <= count
  <1>1. w <= count
    BY DEF Shape, Fresh, TypeOK, Writes
  <1> QED
    BY <1>1 DEF Shape, TypeOK

LEMMA OwnedInit == Init => Owned
  BY DEF Init, Owned, Exclusive, SetCalled, AwaitedCalled, FreedHasty, InFlight, Writes

\* Closing the event of an object that is alive touches the event of no other one.
LEMMA OtherEvents ==
  ASSUME Shape, Exclusive, NEW v \in Writes, NEW w \in Writes, alive[v], alive[w], v # w,
         NEW f \in [Events -> {"closed", "unset", "set"}]
  PROVE  CloseEvent(f, w)[event[v]] = f[event[v]]
  <1>1. event[v] \in Events /\ event[w] \in Events /\ event[v] # event[w]
    BY AliveHasEvent DEF Exclusive
  <1> QED
    BY <1>1 DEF CloseEvent

\* A write that is not done and not hasty when its object is released becomes hasty.
LEMMA ReleaseIsHasty ==
  ASSUME AwaitedCalled, TypeOK, NEW w \in Writes, InFlight(w)
  PROVE  w \in Unawaited({w})
  BY DEF AwaitedCalled, TypeOK, InFlight, Unawaited

LEMMA OwnedRun ==
  ASSUME Shape, Owned, ~corrupt, NEW th \in Threads, RunRoutines(th)
  PROVE  Owned'
  <1> USE DEF Owned
  <1> DEFINE queued == {w \in Writes : issuer[w] = th /\ io[w] = "completed"}
             signalled == {event[w] : w \in queued}
  <1>0. TypeOK
    BY DEF Shape
  <1>1. /\ io' = [w \in Writes |-> IF w \in queued THEN "called" ELSE io[w]]
        /\ evt' = [e \in Events |->
                     IF e \in signalled /\ evt[e] # "closed" THEN "set" ELSE evt[e]]
        /\ corrupt' = (\E w \in queued : ~alive[w])
        /\ UNCHANGED <<held, dying, alive, event, issuer, count, awaited, hasty, cancelled>>
    BY DEF RunRoutines, taskVars, histVars
  <1>2. \A w \in Writes : alive[w] => (evt'[event[w]] = "closed" <=> evt[event[w]] = "closed")
    BY <1>1, AliveHasEvent
  <1>3. Exclusive'
    BY <1>1, <1>2 DEF Exclusive
  <1>4. SetCalled'
    <2> SUFFICES ASSUME ~corrupt', NEW v \in Writes, alive[v], evt'[event[v]] = "set"
                 PROVE  io'[v] = "called" /\ awaited[v] = 0
      BY <1>1 DEF SetCalled
    <2>1. event[v] \in Events
      BY AliveHasEvent
    <2>2. CASE evt[event[v]] = "set"
      BY <1>1, <2>2 DEF SetCalled
    <2>3. CASE evt[event[v]] # "set"
      <3>1. PICK q \in queued : event[v] = event[q]
        BY <1>1, <2>1, <2>3
      <3>2. q = v
        BY <1>1, <3>1 DEF Exclusive
      <3>3. io[v] = "completed"
        BY <3>1, <3>2
      <3>4. awaited[v] = 0
        BY <1>0, <3>3 DEF AwaitedCalled, TypeOK
      <3> QED
        BY <1>1, <3>1, <3>2, <3>4
    <2> QED
      BY <2>2, <2>3
  <1>5. AwaitedCalled'
    BY <1>1 DEF AwaitedCalled
  <1>6. FreedHasty'
    BY <1>1 DEF FreedHasty, InFlight
  <1> QED
    BY <1>3, <1>4, <1>5, <1>6

LEMMA OwnedDestroy ==
  ASSUME Shape, Owned, ~corrupt, NEW k \in Tasks, Destroy(k)
  PROVE  Owned'
  <1> USE DEF Owned
  <1> DEFINE h == held[k]
  <1>0. TypeOK /\ h \in Writes /\ alive[h] /\ evt \in [Events -> {"closed", "unset", "set"}]
    <2>1. TypeOK /\ dying[k] /\ h # None /\ alive[h]
      BY DEF Shape, Holds, Destroy
    <2>2. h \in Writes
      BY <2>1, TaskAssumption DEF TypeOK, Writes
    <2> QED
      BY <2>1, <2>2 DEF TypeOK
  <1>1. /\ alive' = [alive EXCEPT ![h] = FALSE] /\ evt' = CloseEvent(evt, h)
        /\ hasty' = hasty \cup Unawaited({h})
        /\ UNCHANGED <<event, io, issuer, corrupt, count, awaited, cancelled>>
    BY DEF Destroy
  <1> HIDE DEF h
  <1>2. \A v \in Writes : alive'[v] <=> alive[v] /\ v # h
    BY <1>0, <1>1 DEF TypeOK
  <1>3. \A v \in Writes : alive'[v] => evt'[event[v]] = evt[event[v]]
    BY <1>0, <1>1, <1>2, OtherEvents
  <1>4. Exclusive'
    BY <1>1, <1>2, <1>3 DEF Exclusive
  <1>5. SetCalled'
    BY <1>1, <1>2, <1>3 DEF SetCalled
  <1>6. AwaitedCalled'
    BY <1>1 DEF AwaitedCalled
  <1>7. FreedHasty'
    BY <1>0, <1>1, <1>2, ReleaseIsHasty DEF FreedHasty, InFlight
  <1> QED
    BY <1>4, <1>5, <1>6, <1>7

LEMMA OwnedWrite ==
  ASSUME Shape, Owned, ~corrupt, NEW th \in Threads, NEW k \in Tasks, Write(th, k)
  PROVE  Owned'
  <1> USE DEF Owned
  <1> DEFINE h == held[k]
             c == count + 1
  <1>0. /\ TypeOK /\ Fresh /\ c \in Writes /\ c > count
        /\ h # None => h \in Writes /\ alive[h]
    BY TaskAssumption DEF Shape, Holds, TypeOK, Write, Writes
  <1>1. /\ alive' = [w \in Writes |-> w = c \/ (alive[w] /\ w # h)]
        /\ hasty' = hasty \cup Unawaited({h} \ {None})
        /\ UNCHANGED <<dying, corrupt, awaited, cancelled>>
    BY DEF Write
  <1>2. PICK result \in {"pending", "refused"} : io' = [io EXCEPT ![c] = result]
    BY DEF Write
  <1>3. PICK e \in Events :
          /\ evt[e] = "closed" /\ event' = [event EXCEPT ![c] = e]
          /\ evt' = IF h = None THEN NewEvent(e) ELSE CloseEvent(NewEvent(e), h)
    BY DEF Write
  <1>4. ~alive[c] /\ io[c] = "none" /\ awaited[c] = 0
    BY <1>0 DEF Fresh
  <1>5. NewEvent(e) \in [Events -> {"closed", "unset", "set"}]
    BY <1>0 DEF NewEvent, TypeOK
  <1>6. h # None => event[h] \in Events /\ event[h] # e
    BY <1>0, <1>3, AliveHasEvent DEF Exclusive
  <1>7. evt'[e] = "unset"
    BY <1>0, <1>3, <1>5, <1>6 DEF NewEvent, CloseEvent, TypeOK
  <1> HIDE DEF h, c
  <1>8. ASSUME NEW v \in Writes, alive[v], v # h
        PROVE  event[v] # e /\ v # c /\ evt'[event[v]] = evt[event[v]]
    <2>1. event[v] # e /\ event[v] \in Events /\ v # c
      BY <1>3, <1>4, <1>8, AliveHasEvent DEF Exclusive
    <2>2. NewEvent(e)[event[v]] = evt[event[v]]
      BY <1>0, <2>1 DEF NewEvent, TypeOK
    <2>3. h # None => CloseEvent(NewEvent(e), h)[event[v]] = NewEvent(e)[event[v]]
      BY <1>0, <1>5, <1>8, OtherEvents
    <2> QED
      BY <1>3, <2>1, <2>2, <2>3
  <1>9. /\ event'[c] = e /\ \A v \in Writes : v # c => event'[v] = event[v] /\ io'[v] = io[v]
        /\ io'[c] = result
    BY <1>0, <1>2, <1>3 DEF TypeOK
  <1>10. Exclusive'
    <2> SUFFICES ASSUME NEW w \in Writes, alive'[w]
                 PROVE  /\ evt'[event'[w]] # "closed"
                        /\ \A v \in Writes : alive'[v] /\ v # w => event'[v] # event'[w]
      BY DEF Exclusive
    <2>1. CASE w = c
      BY <1>1, <1>7, <1>8, <1>9, <2>1
    <2>2. CASE w # c
      <3>1. alive[w] /\ w # h /\ event'[w] = event[w] /\ event[w] # e
        BY <1>1, <1>8, <1>9, <2>2
      <3>2. evt'[event[w]] = evt[event[w]] /\ evt[event[w]] # "closed"
        BY <1>8, <3>1 DEF Exclusive
      <3>3. \A v \in Writes : alive'[v] /\ v # w /\ v # c => event'[v] # event'[w]
        BY <1>1, <1>9, <3>1 DEF Exclusive
      <3> QED
        BY <1>9, <3>1, <3>2, <3>3
    <2> QED
      BY <2>1, <2>2
  <1>11. SetCalled'
    <2> SUFFICES ASSUME NEW w \in Writes, alive'[w], evt'[event'[w]] = "set"
                 PROVE  io'[w] = "called" /\ awaited'[w] = 0
      BY DEF SetCalled
    <2>1. w # c
      BY <1>7, <1>9
    <2>2. alive[w] /\ w # h /\ event'[w] = event[w] /\ io'[w] = io[w]
      BY <1>1, <1>9, <2>1
    <2>3. evt[event[w]] = "set"
      BY <1>8, <2>2
    <2> QED
      BY <1>1, <2>2, <2>3 DEF SetCalled
  <1>12. AwaitedCalled'
    BY <1>1, <1>4, <1>9 DEF AwaitedCalled
  <1>13. FreedHasty'
    <2> SUFFICES ASSUME NEW w \in Writes, InFlight(w)', ~alive'[w] PROVE w \in hasty'
      BY DEF FreedHasty
    <2>1. w # c /\ InFlight(w) /\ (~alive[w] \/ w = h)
      BY <1>1, <1>9 DEF InFlight
    <2>2. CASE ~alive[w]
      BY <1>1, <2>1, <2>2 DEF FreedHasty
    <2>3. CASE w = h
      <3>1. h # None /\ {h} \ {None} = {w}
        BY <2>3, TaskAssumption DEF Writes
      <3> QED
        BY <1>0, <1>1, <2>1, <3>1, ReleaseIsHasty
    <2> QED
      BY <2>1, <2>2, <2>3
  <1> QED
    BY <1>10, <1>11, <1>12, <1>13

LEMMA OwnedNext ==
  ASSUME Shape, Shape', [Next]_vars, ~cancelled => Owned
  PROVE  ~cancelled' => Owned'
  <1> SUFFICES ASSUME ~cancelled' PROVE Owned'
    OBVIOUS
  <1> USE DEF Exclusive, SetCalled, AwaitedCalled, FreedHasty, InFlight, taskVars, ovVars, histVars
  <1>0. TypeOK /\ Holds /\ Fresh
    BY DEF Shape
  <1>1. ASSUME NEW w \in Writes, Complete(w), ~corrupt PROVE Owned'
    BY <1>0, <1>1 DEF Complete, Owned, TypeOK
  <1>2. ASSUME NEW th \in Threads, RunRoutines(th), ~corrupt PROVE Owned'
    BY <1>2, OwnedRun DEF RunRoutines
  <1>3. ASSUME NEW th \in Threads, NEW k \in Tasks, Write(th, k), ~corrupt PROVE Owned'
    BY <1>3, OwnedWrite DEF Write
  <1>4. ASSUME NEW k \in Tasks, WaitSucceeds(k), ~corrupt PROVE Owned'
    BY <1>0, <1>4, AliveHasEvent DEF WaitSucceeds, Owned, TypeOK, Holds
  <1>5. ASSUME NEW k \in Tasks, Cancel(k), ~corrupt PROVE Owned'
    BY <1>0, <1>5 DEF Cancel, CancelPending, Owned, TypeOK
  <1>6. ASSUME NEW k \in Tasks, Drop(k), ~corrupt PROVE Owned'
    BY <1>0, <1>6 DEF Drop, CancelPending, Owned, TypeOK
  <1>7. ASSUME NEW k \in Tasks, Destroy(k), ~corrupt PROVE Owned'
    BY <1>7, OwnedDestroy DEF Destroy
  <1>8. CASE UNCHANGED vars
    BY <1>8 DEF vars, Owned
  <1> QED
    BY <1>1, <1>2, <1>3, <1>4, <1>5, <1>6, <1>7, <1>8 DEF Next, Step

----------------------------------------------------------------------------

LEMMA Inductive ==
  /\ Init => IInv
  /\ IInv /\ [Next]_vars => IInv'
  <1>1. Init => IInv
    BY ShapeInit, OwnedInit, OwnedParts DEF IInv
  <1>2. IInv /\ [Next]_vars => IInv'
    <2> SUFFICES ASSUME IInv, [Next]_vars PROVE IInv'
      OBVIOUS
    <2>1. Shape /\ (~cancelled => Owned)
      BY OwnedParts DEF IInv
    <2>2. Shape'
      BY <2>1, ShapeNext
    <2>3. ~cancelled' => Owned'
      BY <2>1, <2>2, OwnedNext
    <2>4. (EventsExclusive /\ SetMeansCalled /\ WaitMeansDone /\ FreedOnlyInHaste)'
      BY <2>3, OwnedParts, PTL
    <2> QED
      BY <2>2, <2>4 DEF IInv
  <1> QED
    BY <1>1, <1>2

\* The invariant: which objects are alive, who owns which event, and what a set event means.
THEOREM Invariance == Spec => []IInv
  BY Inductive, PTL DEF Spec

\* Every variable of the tasks and their objects keeps its type, whatever is cancelled or
\* dropped (task.cpp:23-52, overlapped.cpp:21-73).
THEOREM TypeCorrect == Spec => []TypeOK
  <1>1. IInv => TypeOK
    BY DEF IInv, Shape
  <1> QED
    BY <1>1, Invariance, PTL

\* As long as no write in flight is cancelled, no object closes or shares the event of
\* another, although every handle is closed by its value, and is given out again
\* (overlapped.cpp:66-73).
THEOREM NoSharedEvent == Spec => []EventsExclusive
  <1>1. IInv => EventsExclusive
    BY DEF IInv
  <1> QED
    BY <1>1, Invariance, PTL

\* ... a wait succeeds once for a write, and only after its routine ran (waitable.cpp:42-46).
THEOREM WaitIsRight == Spec => []WaitMeansDone
  <1>1. IInv => WaitMeansDone
    BY DEF IInv
  <1> QED
    BY <1>1, Invariance, PTL

\* ... and the object of a write that was waited for is never freed under the system or
\* under a queued routine (socket.cpp:185-202).
THEOREM OwnerWaits == Spec => []FreedOnlyInHaste
  <1>1. IInv => FreedOnlyInHaste
    BY DEF IInv
  <1> QED
    BY <1>1, Invariance, PTL
=============================================================================
