------------------------- MODULE OverlappedQueueProof -------------------------
(***************************************************************************)
(* Proofs about waits and the overlapped queue, for any threads, objects,    *)
(* lists, durations and bounds.                                              *)
(***************************************************************************)
EXTENDS OverlappedQueue, TLAPS

\* A clamped timeout is a number of milliseconds, and never more than the one given.
LEMMA ClampType ==
  ASSUME NEW ms \in Int
  PROVE  Clamp(ms) \in Nat /\ (ms < 0 => Clamp(ms) = 0) /\ (ms >= 0 => Clamp(ms) <= ms)
BY WaitableAssumption DEF Clamp

LEMMA NoCallType == NoCall \in Calls
BY DEF NoCall, Calls


\* Starting I/O, finishing it and entering a wait keep the types.
LEMMA StartType == ASSUME WaitTypeOK, NEW t \in Threads, NEW o \in Objects, Start(t, o)
                   PROVE  WaitTypeOK'
BY DEF WaitTypeOK, Start

LEMMA FinishType == ASSUME WaitTypeOK, NEW o \in Objects, Finish(o) PROVE WaitTypeOK'
BY DEF WaitTypeOK, Finish

LEMMA EnterType ==
  ASSUME WaitTypeOK, NEW t \in Threads, NEW how \in {"one", "all", "any"},
         NEW s \in Seq(Objects \cup {Null}), NEW ms \in Int, Enter(t, how, s, ms)
  PROVE  WaitTypeOK'
<1>. DEFINE c == [NoCall EXCEPT !.kind = how, !.list = s, !.left = Clamp(ms),
                                !.asked = Clamp(ms)]
<1>1. c \in Calls
  BY ClampType DEF NoCall, Calls
<1>2. call' = [call EXCEPT ![t] = c]
  BY DEF Enter
<1>. QED
  BY <1>1, <1>2 DEF WaitTypeOK, Enter

\* A list the system does not refuse has objects only.
LEMMA NotRefused ==
  ASSUME NEW s \in Seq(Objects \cup {Null}), ~Refused(s)
  PROVE  s \in Seq(Objects)
<1>1. \A i \in 1..Len(s) : s[i] \in Objects
  BY DEF Refused, Entries
<1>. QED
  BY <1>1

LEMMA TakeType ==
  ASSUME WaitTypeOK, NEW t \in Threads, NEW s \in Seq(Objects), Take(t, s)
  PROVE  WaitTypeOK'
BY NoCallType DEF WaitTypeOK, Take

LEMMA TimedType ==
  ASSUME NEW c \in Calls, NEW left \in Nat, NEW spent \in Nat, NEW lasted \in Nat,
         NEW breaks \in Nat
  PROVE  Timed(c, left, spent, lasted, breaks) \in Calls
BY DEF Calls, Timed

LEMMA BrokenType ==
  ASSUME WaitTypeOK, NEW t \in Threads, NEW late \in Nat, NEW timeout \in Nat,
         Broken(t, late, timeout)
  PROVE  WaitTypeOK'
<1>. DEFINE c == Timed(call[t], timeout, 0, call[t].lasted + late, call[t].breaks + 1)
<1>1. call[t] \in Calls /\ call[t].lasted \in Nat /\ call[t].breaks \in Nat
  BY DEF WaitTypeOK, Calls
<1>2. c \in Calls
  <2>1. call[t].lasted + late \in Nat /\ call[t].breaks + 1 \in Nat
    BY <1>1
  <2>. QED
    BY <1>1, <2>1, TimedType
<1>3. call' = [call EXCEPT ![t] = c]
  BY DEF Broken
<1>. QED
  BY <1>2, <1>3 DEF WaitTypeOK, Broken, Routines

LEMMA TickType == ASSUME WaitTypeOK, NEW t \in Threads, Tick(t) PROVE WaitTypeOK'
<1>. DEFINE c == Timed(call[t], call[t].left, call[t].spent + 1, call[t].lasted + 1,
                       call[t].breaks)
<1>1. /\ call[t] \in Calls /\ call[t].lasted \in Nat /\ call[t].breaks \in Nat
      /\ call[t].left \in Nat /\ call[t].spent \in Nat
  BY DEF WaitTypeOK, Calls
<1>2. c \in Calls
  <2>1. call[t].spent + 1 \in Nat /\ call[t].lasted + 1 \in Nat
    BY <1>1
  <2>. QED
    BY <1>1, <2>1, TimedType
<1>3. call' = [call EXCEPT ![t] = c]
  BY DEF Tick
<1>. QED
  BY <1>2, <1>3 DEF WaitTypeOK, Tick

\* The timeout of a wait that was interrupted.
LEMMA InterruptCases ==
  ASSUME WaitTypeOK, NEW t \in Threads, Interrupt(t)
  PROVE  \E late \in Nat, timeout \in Nat :
           /\ Broken(t, late, timeout)
           /\ timeout = AtLeast0(call[t].left - (call[t].spent + late) \div 2)
<1>1. PICK late \in RoutineTimes :
        Broken(t, late, AtLeast0(call[t].left - (call[t].spent + late) \div 2))
  BY DEF Interrupt
<1>2. late \in Nat
  BY WaitableAssumption
<1>3. call[t].left - (call[t].spent + late) \div 2 \in Int
  BY <1>2 DEF WaitTypeOK, Calls
<1>. QED
  BY <1>1, <1>2, <1>3 DEF AtLeast0

LEMMA WaitingType == ASSUME WaitTypeOK, NEW t \in Threads, Waiting(t) PROVE WaitTypeOK'
<1>0. call[t] \in Calls /\ call[t].list \in Seq(Objects \cup {Null})
  BY DEF WaitTypeOK, Calls
<1>1. CASE SucceedOne(t) \/ SucceedAll(t)
  BY <1>0, <1>1, NotRefused, TakeType DEF SucceedOne, SucceedAll, Ready
<1>2. CASE SucceedAny(t)
  <2>1. PICK i \in DOMAIN call[t].list : Take(t, <<call[t].list[i]>>)
    BY <1>2 DEF SucceedAny
  <2>2. call[t].list \in Seq(Objects)
    BY <1>0, <1>2, NotRefused DEF SucceedAny, Ready
  <2>3. <<call[t].list[i]>> \in Seq(Objects)
    BY <2>2
  <2>. QED
    BY <2>1, <2>3, TakeType
<1>3. CASE CallListeners(t)
  BY <1>3 DEF CallListeners, WaitTypeOK
<1>4. CASE Interrupt(t)
  BY <1>4, InterruptCases, BrokenType
<1>5. CASE Tick(t)
  BY <1>5, TickType
<1>6. CASE TimeOut(t) \/ Fail(t)
  BY <1>6, NoCallType DEF TimeOut, Fail, Leave, WaitTypeOK
<1>. QED
  BY <1>1, <1>2, <1>3, <1>4, <1>5, <1>6 DEF Waiting
LEMMA QueueInitType == Init => TypeOK
<1>. SUFFICES ASSUME Init PROVE TypeOK
  OBVIOUS
<1>1. WaitTypeOK
  BY NoCallType DEF Init, WaitInit, WaitTypeOK
<1>2. QueueTypeOK
  <2>1. PICK s \in [1..QueueBacklog -> Objects] : free_objs = s /\ made = Entries(s)
    BY DEF Init, QueueInit
  <2>2. s \in Seq(Objects)
    BY QueueAssumption
  <2>3. made \subseteq Objects
    BY <2>1 DEF Entries
  <2>4. /\ used_objs = <<>> /\ open = TRUE /\ twice = FALSE /\ careless = FALSE
        /\ has = [u \in Threads |-> {}]
    BY DEF Init, QueueInit
  <2>5. used_objs \in Seq(Objects) /\ has \in [Threads -> SUBSET Objects]
    BY <2>4
  <2>. QED
    BY <2>1, <2>2, <2>3, <2>4, <2>5 DEF QueueTypeOK
<1>. QED
  BY <1>1, <1>2 DEF TypeOK

LEMMA TakenType ==
  ASSUME QueueTypeOK, NEW u \in Threads, NEW o \in Objects, Taken(u, o)
  PROVE  used_objs' \in Seq(Objects) /\ has' \in [Threads -> SUBSET Objects]
BY DEF QueueTypeOK, Taken

LEMMA AllocType == ASSUME TypeOK, NEW u \in Threads, Alloc(u) PROVE TypeOK'
<1>1. WaitTypeOK'
  BY DEF TypeOK, WaitTypeOK, Alloc, waitVars
<1>2. CASE free_objs # <<>> /\ Taken(u, Head(free_objs)) /\ free_objs' = Tail(free_objs)
           /\ UNCHANGED made
  <2>1. Head(free_objs) \in Objects /\ Tail(free_objs) \in Seq(Objects)
    BY <1>2 DEF TypeOK, QueueTypeOK
  <2>. QED
    BY <1>1, <1>2, <2>1, TakenType DEF Alloc, TypeOK, QueueTypeOK
<1>3. CASE UNCHANGED free_objs /\ \E o \in Objects \ made : Taken(u, o) /\ made' = made \cup {o}
  BY <1>1, <1>3, TakenType DEF Alloc, TypeOK, QueueTypeOK
<1>. QED
  BY <1>2, <1>3 DEF Alloc

LEMMA FreeType ==
  ASSUME TypeOK, NEW u \in Threads, NEW o \in Objects, Free(u, o) PROVE TypeOK'
<1>1. WaitTypeOK'
  BY DEF TypeOK, WaitTypeOK, Free, waitVars
<1>2. used_objs' \in Seq(Objects)
  <2>1. \A i \in DOMAIN used_objs :
          SubSeq(used_objs, 1, i - 1) \o SubSeq(used_objs, i + 1, Len(used_objs))
            \in Seq(Objects)
    BY DEF TypeOK, QueueTypeOK
  <2>. QED
    BY <2>1 DEF Free, EraseUsed, TypeOK, QueueTypeOK
<1>3. free_objs' \in Seq(Objects)
  BY DEF Free, TypeOK, QueueTypeOK
<1>4. has' \in [Threads -> SUBSET Objects]
  BY DEF Free, TypeOK, QueueTypeOK
<1>. QED
  BY <1>1, <1>2, <1>3, <1>4 DEF Free, TypeOK, QueueTypeOK

LEMMA UseType ==
  ASSUME TypeOK, NEW u \in Threads, NEW o \in Objects, Use(u, o) PROVE TypeOK'
<1>1. WaitTypeOK'
  BY StartType DEF TypeOK, Use
<1>. QED
  BY <1>1 DEF TypeOK, QueueTypeOK, Use

LEMMA QueueUnchanged == ASSUME QueueTypeOK, UNCHANGED queueVars PROVE QueueTypeOK'
BY DEF QueueTypeOK, queueVars

\* The wait that Await enters.
LEMMA AwaitCases ==
  ASSUME TypeOK, NEW u \in Threads, Await(u)
  PROVE  \E how \in {"one", "all", "any"}, s \in Seq(Objects \cup {Null}), ms \in Int :
           Enter(u, how, s, ms) /\ UNCHANGED queueVars
<1>1. PICK ms \in Durations :
        \/ \E o \in made : Wait(u, o, ms)
        \/ \E s \in Lists : WaitAll(u, s, ms) \/ WaitAny(u, s, ms)
  BY DEF Await
<1>2. ms \in Int /\ \A s \in Lists : s \in Seq(Objects \cup {Null})
  BY WaitableAssumption
<1>3. ASSUME NEW o \in made PROVE <<o>> \in Seq(Objects \cup {Null})
  BY DEF TypeOK, QueueTypeOK
<1>. QED
  BY <1>1, <1>2, <1>3 DEF Await, Wait, WaitAll, WaitAny

LEMMA TypeStep == TypeOK /\ [Next]_vars => TypeOK'
<1>. SUFFICES ASSUME TypeOK, [Next]_vars PROVE TypeOK'
  OBVIOUS
<1>1. ASSUME NEW u \in Threads, NEW o \in Objects, Free(u, o) \/ Use(u, o) PROVE TypeOK'
  BY <1>1, FreeType, UseType
<1>2. ASSUME NEW u \in Threads, Alloc(u) PROVE TypeOK'
  BY <1>2, AllocType
<1>3. ASSUME NEW u \in Threads, Await(u) PROVE TypeOK'
  BY <1>3, AwaitCases, EnterType, QueueUnchanged DEF TypeOK
<1>4. ASSUME NEW u \in Threads, Waiting(u), UNCHANGED queueVars PROVE TypeOK'
  BY <1>4, WaitingType, QueueUnchanged DEF TypeOK
<1>5. ASSUME NEW o \in Objects, Finish(o), UNCHANGED queueVars PROVE TypeOK'
  BY <1>5, FinishType, QueueUnchanged DEF TypeOK
<1>6. CASE DestroyQueue
  <2>1. <<>> \in Seq(Objects)
    OBVIOUS
  <2>2. WaitTypeOK'
    BY <1>6 DEF DestroyQueue, TypeOK, WaitTypeOK, waitVars
  <2>. QED
    BY <1>6, <2>1, <2>2 DEF DestroyQueue, TypeOK, QueueTypeOK
<1>7. CASE UNCHANGED vars
  BY <1>7, QueueUnchanged DEF vars, waitVars, TypeOK, WaitTypeOK
<1>. QED
  BY <1>1, <1>2, <1>3, <1>4, <1>5, <1>6, <1>7 DEF Next

\* Waits and the queue keep their types, whatever threads wait for and give back.
THEOREM TypeCorrect == Spec => []TypeOK
BY QueueInitType, TypeStep, PTL DEF Spec
----------------------------------------------------------------------------
(* Time *)

\* An interruption takes no more off the timeout than the call lasted, and at most half a
\* millisecond less.
LEMMA InterruptInTime ==
  ASSUME NEW c \in Calls, NEW late \in Nat, InTime(c),
         NEW left, left = AtLeast0(c.left - (c.spent + late) \div 2)
  PROVE  InTime(Timed(c, left, 0, c.lasted + late, c.breaks + 1))
<1>1. /\ c.left \in Nat /\ c.spent \in Nat /\ c.asked \in Nat /\ c.lasted \in Nat
      /\ c.breaks \in Nat
  BY DEF Calls
<1>2. PICK d \in Int : d = (c.spent + late) \div 2
  BY <1>1
<1>3. 2 * d <= c.spent + late /\ c.spent + late <= 2 * d + 1
  BY <1>1, <1>2
<1>4. left = IF c.left - d < 0 THEN 0 ELSE c.left - d
  BY <1>2 DEF AtLeast0
<1>. DEFINE T == Timed(c, left, 0, c.lasted + late, c.breaks + 1)
<1>5. /\ T.left = left /\ T.spent = 0 /\ T.asked = c.asked /\ T.lasted = c.lasted + late
      /\ T.breaks = c.breaks + 1
  BY DEF Timed
<1>6. /\ 2 * c.left - c.spent >= 2 * c.asked - c.lasted
      /\ 2 * c.left - c.spent <= 2 * c.asked - c.lasted + c.breaks \/ c.left = 0
  BY DEF InTime
<1>7. 2 * left >= 2 * c.asked - (c.lasted + late)
  BY <1>1, <1>3, <1>4, <1>6
<1>8. 2 * left <= 2 * c.asked - (c.lasted + late) + (c.breaks + 1) \/ left = 0
  BY <1>1, <1>3, <1>4, <1>6
<1>. HIDE DEF T
<1>9. 2 * T.left - T.spent = 2 * left
  BY <1>1, <1>4, <1>5
<1>10. InTime(T)
  BY <1>1, <1>5, <1>7, <1>8, <1>9 DEF InTime
<1>. QED
  BY <1>10 DEF T

\* What one step does to the wait of one thread.
LEMMA CallSteps ==
  ASSUME TypeOK, [Next]_vars, NEW t \in Threads
  PROVE  \/ call'[t] = call[t]
         \/ call'[t] = NoCall
         \/ \E how \in {"one", "all", "any"}, s \in Seq(Objects \cup {Null}), ms \in Int :
              /\ Out(t)
              /\ call'[t] = [NoCall EXCEPT !.kind = how, !.list = s, !.left = Clamp(ms),
                                           !.asked = Clamp(ms)]
         \/ \E late \in Nat :
              call'[t] = Timed(call[t], AtLeast0(call[t].left - (call[t].spent + late) \div 2),
                               0, call[t].lasted + late, call[t].breaks + 1)
         \/ /\ call[t].spent < 2 * call[t].left
            /\ call'[t] = Timed(call[t], call[t].left, call[t].spent + 1,
                                call[t].lasted + 1, call[t].breaks)
<1>0. DOMAIN call = Threads
  BY DEF TypeOK, WaitTypeOK
<1>1. ASSUME NEW u \in Threads, Await(u) PROVE t = u \/ call'[t] = call[t]
  BY <1>0, <1>1, AwaitCases DEF Enter
<1>2. CASE Await(t)
  <2>1. PICK how \in {"one", "all", "any"}, s \in Seq(Objects \cup {Null}), ms \in Int :
          Enter(t, how, s, ms)
    BY <1>2, AwaitCases
  <2>. QED
    BY <1>0, <2>1 DEF Enter
<1>3. ASSUME NEW u \in Threads, Waiting(u) PROVE t = u \/ call'[t] = call[t]
  BY <1>0, <1>3 DEF Waiting, SucceedOne, SucceedAll, SucceedAny, Take, CallListeners,
                    Interrupt, Broken, Tick, TimeOut, Fail, Leave
<1>4. CASE Waiting(t)
  <2>1. CASE SucceedOne(t) \/ SucceedAll(t) \/ SucceedAny(t) \/ TimeOut(t) \/ Fail(t)
    BY <1>0, <2>1 DEF SucceedOne, SucceedAll, SucceedAny, Take, TimeOut, Fail, Leave
  <2>2. CASE CallListeners(t)
    BY <2>2 DEF CallListeners
  <2>3. CASE Interrupt(t)
    <3>1. PICK late \in Nat, timeout \in Nat :
            /\ Broken(t, late, timeout)
            /\ timeout = AtLeast0(call[t].left - (call[t].spent + late) \div 2)
      BY <2>3, InterruptCases DEF TypeOK
    <3>. QED
      BY <1>0, <3>1 DEF Broken
  <2>4. CASE Tick(t)
    BY <1>0, <2>4 DEF Tick
  <2>. QED
    BY <1>4, <2>1, <2>2, <2>3, <2>4 DEF Waiting
<1>5. CASE \/ \E u \in Threads, o \in Objects : Free(u, o) \/ Use(u, o)
           \/ \E u \in Threads : Alloc(u)
           \/ \E o \in Objects : Finish(o)
           \/ DestroyQueue \/ UNCHANGED vars
  BY <1>5 DEF Free, Use, Start, Alloc, Finish, DestroyQueue, vars, waitVars
<1>. QED
  BY <1>1, <1>2, <1>3, <1>4, <1>5 DEF Next

LEMMA TimeInit == Init => TimeoutBounds
BY DEF Init, WaitInit, TimeoutBounds, In, NoCall

LEMMA TimeStep == TypeOK /\ TimeoutBounds /\ [Next]_vars => TimeoutBounds'
<1>. SUFFICES ASSUME TypeOK, TimeoutBounds, [Next]_vars, NEW t \in Threads, In(t)'
              PROVE  InTime(call'[t])
  BY DEF TimeoutBounds
<1>0. call[t] \in Calls
  BY DEF TypeOK, WaitTypeOK
<1>1. CASE call'[t] = call[t]
  BY <1>1 DEF TimeoutBounds, In
<1>2. CASE call'[t] = NoCall
  BY <1>2 DEF In, NoCall
<1>3. ASSUME NEW how \in {"one", "all", "any"}, NEW s \in Seq(Objects \cup {Null}),
             NEW ms \in Int,
             call'[t] = [NoCall EXCEPT !.kind = how, !.list = s, !.left = Clamp(ms),
                                       !.asked = Clamp(ms)]
      PROVE  InTime(call'[t])
  BY <1>3, ClampType DEF InTime, NoCall
<1>4. ASSUME NEW late \in Nat,
             call'[t] = Timed(call[t],
                              AtLeast0(call[t].left - (call[t].spent + late) \div 2),
                              0, call[t].lasted + late, call[t].breaks + 1)
      PROVE  InTime(call'[t])
  <2>1. In(t)
    BY <1>4 DEF In, Timed
  <2>. QED
    BY <1>0, <1>4, <2>1, InterruptInTime DEF TimeoutBounds
<1>5. CASE /\ call[t].spent < 2 * call[t].left
           /\ call'[t] = Timed(call[t], call[t].left, call[t].spent + 1,
                               call[t].lasted + 1, call[t].breaks)
  <2>1. InTime(call[t])
    BY <1>5 DEF TimeoutBounds, In, Timed
  <2>2. /\ call[t].left \in Nat /\ call[t].spent \in Nat /\ call[t].asked \in Nat
        /\ call[t].lasted \in Nat /\ call[t].breaks \in Nat
    BY <1>0 DEF Calls
  <2>. QED
    BY <1>5, <2>1, <2>2 DEF InTime, Timed
<1>6. \/ call'[t] = call[t]
      \/ call'[t] = NoCall
      \/ \E how \in {"one", "all", "any"}, s \in Seq(Objects \cup {Null}), ms \in Int :
           call'[t] = [NoCall EXCEPT !.kind = how, !.list = s, !.left = Clamp(ms),
                                     !.asked = Clamp(ms)]
      \/ \E late \in Nat :
           call'[t] = Timed(call[t], AtLeast0(call[t].left - (call[t].spent + late) \div 2),
                            0, call[t].lasted + late, call[t].breaks + 1)
      \/ /\ call[t].spent < 2 * call[t].left
         /\ call'[t] = Timed(call[t], call[t].left, call[t].spent + 1,
                             call[t].lasted + 1, call[t].breaks)
  BY CallSteps
<1>. QED
  BY <1>1, <1>2, <1>3, <1>4, <1>5, <1>6

\* Interrupted or not, no wait times out early or goes on for long, whatever is asked for.
THEOREM WaitsInTime == Spec => []TimeoutBounds
<1>1. Init => TypeOK /\ TimeoutBounds
  BY QueueInitType, TimeInit
<1>2. TypeOK /\ TimeoutBounds /\ [Next]_vars => (TypeOK /\ TimeoutBounds)'
  BY TypeStep, TimeStep
<1>. QED
  BY <1>1, <1>2, PTL DEF Spec
----------------------------------------------------------------------------
(* The queue *)

LEMMA TailEntries ==
  ASSUME NEW s \in Seq(Objects), s # <<>>
  PROVE  /\ 1 \in DOMAIN s /\ Head(s) = s[1] /\ Tail(s) \in Seq(Objects)
         /\ \A i \in DOMAIN Tail(s) : Tail(s)[i] = s[i + 1] /\ i + 1 \in DOMAIN s
         /\ \A i \in DOMAIN s : i = 1 \/ \E j \in DOMAIN Tail(s) : Tail(s)[j] = s[i]
<1>1. /\ 1 \in DOMAIN s /\ Head(s) = s[1] /\ Tail(s) \in Seq(Objects)
      /\ \A i \in DOMAIN Tail(s) : Tail(s)[i] = s[i + 1] /\ i + 1 \in DOMAIN s
  OBVIOUS
<1>2. ASSUME NEW i \in DOMAIN s, i # 1 PROVE \E j \in DOMAIN Tail(s) : Tail(s)[j] = s[i]
  <2>1. i - 1 \in 1..Len(Tail(s)) /\ Tail(s)[i - 1] = s[i]
    BY <1>2
  <2>. QED
    BY <2>1
<1>. QED
  BY <1>1, <1>2

LEMMA AppendEntries ==
  ASSUME NEW s \in Seq(Objects), NEW o \in Objects
  PROVE  /\ \A i \in DOMAIN Append(s, o) :
              \/ i = Len(s) + 1 /\ Append(s, o)[i] = o
              \/ i \in DOMAIN s /\ Append(s, o)[i] = s[i]
         /\ Entries(Append(s, o)) \subseteq Entries(s) \cup {o}
BY DEF Entries

\* No sequence that has no entry twice has its head in its tail.
LEMMA DistinctTail ==
  ASSUME NEW s \in Seq(Objects), s # <<>>,
         \A i, j \in DOMAIN s : i # j => s[i] # s[j]
  PROVE  /\ \A i, j \in DOMAIN Tail(s) : i # j => Tail(s)[i] # Tail(s)[j]
         /\ Entries(Tail(s)) = Entries(s) \ {Head(s)}
<1>1. \A i, j \in DOMAIN Tail(s) : i # j => Tail(s)[i] # Tail(s)[j]
  <2>. SUFFICES ASSUME NEW i \in DOMAIN Tail(s), NEW j \in DOMAIN Tail(s), i # j
                PROVE  Tail(s)[i] # Tail(s)[j]
    OBVIOUS
  <2>1. i \in Nat /\ j \in Nat
    BY TailEntries
  <2>2. i + 1 # j + 1
    BY <2>1
  <2>. QED
    BY <2>2, TailEntries
<1>2. \A i \in DOMAIN Tail(s) : Tail(s)[i] # s[1]
  <2>. SUFFICES ASSUME NEW i \in DOMAIN Tail(s) PROVE Tail(s)[i] # s[1]
    OBVIOUS
  <2>1. i + 1 # 1
    BY TailEntries
  <2>. QED
    BY <2>1, TailEntries
<1>3. Entries(Tail(s)) \subseteq Entries(s) \ {s[1]}
  BY <1>2, TailEntries DEF Entries
<1>4. Entries(s) \ {s[1]} \subseteq Entries(Tail(s))
  <2>. SUFFICES ASSUME NEW i \in DOMAIN s, s[i] # s[1] PROVE s[i] \in Entries(Tail(s))
    BY DEF Entries
  <2>1. \E j \in DOMAIN Tail(s) : Tail(s)[j] = s[i]
    BY TailEntries
  <2>. QED
    BY <2>1 DEF Entries
<1>. QED
  BY <1>1, <1>3, <1>4, TailEntries

\* The inductive invariant: objects nobody took are none of those in use.
QueueInv ==
  ~twice =>
    /\ HandedOutOnce
    /\ Entries(free_objs) \subseteq made
    /\ \A u \in Threads : has[u] \subseteq made

LEMMA QueueInvInit == Init => QueueInv
<1>. SUFFICES ASSUME Init PROVE QueueInv
  OBVIOUS
<1>1. PICK s \in [1..QueueBacklog -> Objects] :
        /\ \A i, j \in 1..QueueBacklog : i # j => s[i] # s[j]
        /\ free_objs = s /\ made = Entries(s)
  BY DEF Init, QueueInit
<1>2. DOMAIN free_objs = 1..QueueBacklog
  BY <1>1
<1>. QED
  BY <1>1, <1>2 DEF Init, QueueInit, QueueInv, HandedOutOnce

LEMMA AllocInv == ASSUME TypeOK, QueueInv, NEW u \in Threads, Alloc(u) PROVE QueueInv'
<1>. SUFFICES ASSUME ~twice PROVE QueueInv'
  BY DEF Alloc, QueueInv
<1>0. has \in [Threads -> SUBSET Objects] /\ free_objs \in Seq(Objects)
  BY DEF TypeOK, QueueTypeOK
<1>1. CASE free_objs # <<>> /\ Taken(u, Head(free_objs)) /\ free_objs' = Tail(free_objs)
           /\ UNCHANGED made
  <2>1. /\ \A i, j \in DOMAIN free_objs' : i # j => free_objs'[i] # free_objs'[j]
        /\ Entries(free_objs)' = Entries(free_objs) \ {Head(free_objs)}
    BY <1>0, <1>1, DistinctTail DEF QueueInv, HandedOutOnce
  <2>2. Head(free_objs) \in Entries(free_objs)
    BY <1>0, <1>1, TailEntries DEF Entries
  <2>3. \A v \in Threads :
          has'[v] = IF v = u THEN has[v] \cup {Head(free_objs)} ELSE has[v]
    BY <1>0, <1>1 DEF Taken
  <2>4. \A v \in Threads : Head(free_objs) \notin has[v] /\ has[v] \subseteq made
    BY <2>2 DEF QueueInv, HandedOutOnce
  <2>5. \A v, w \in Threads : v # w => has'[v] \cap has'[w] = {}
    BY <2>3, <2>4 DEF QueueInv, HandedOutOnce
  <2>6. \A v \in Threads : has'[v] \cap Entries(free_objs)' = {}
    BY <2>1, <2>3 DEF QueueInv, HandedOutOnce
  <2>7. Entries(free_objs)' \subseteq made' /\ \A v \in Threads : has'[v] \subseteq made'
    BY <1>1, <2>1, <2>2, <2>3 DEF QueueInv
  <2>. QED
    BY <2>1, <2>5, <2>6, <2>7 DEF QueueInv, HandedOutOnce
<1>2. CASE UNCHANGED free_objs /\ \E o \in Objects \ made : Taken(u, o) /\ made' = made \cup {o}
  <2>1. PICK o \in Objects \ made : Taken(u, o) /\ made' = made \cup {o}
    BY <1>2
  <2>2. \A v \in Threads : has'[v] = IF v = u THEN has[v] \cup {o} ELSE has[v]
    BY <1>0, <2>1 DEF Taken
  <2>3. Entries(free_objs)' = Entries(free_objs)
    BY <1>2 DEF Entries
  <2>4. \A v \in Threads : o \notin has[v] /\ has[v] \subseteq made
    BY <2>1 DEF QueueInv
  <2>5. \A v, w \in Threads : v # w => has'[v] \cap has'[w] = {}
    BY <2>2, <2>4 DEF QueueInv, HandedOutOnce
  <2>6. \A v \in Threads : has'[v] \cap Entries(free_objs)' = {}
    BY <2>1, <2>2, <2>3 DEF QueueInv, HandedOutOnce
  <2>7. Entries(free_objs)' \subseteq made' /\ \A v \in Threads : has'[v] \subseteq made'
    BY <2>1, <2>2, <2>3 DEF QueueInv
  <2>8. \A i, j \in DOMAIN free_objs' : i # j => free_objs'[i] # free_objs'[j]
    BY <1>2 DEF QueueInv, HandedOutOnce
  <2>. QED
    BY <2>5, <2>6, <2>7, <2>8 DEF QueueInv, HandedOutOnce
<1>. QED
  BY <1>1, <1>2 DEF Alloc

LEMMA FreeInv ==
  ASSUME TypeOK, QueueInv, NEW u \in Threads, NEW o \in Objects, Free(u, o) PROVE QueueInv'
<1>. SUFFICES ASSUME ~twice' PROVE QueueInv'
  BY DEF QueueInv
<1>0. has \in [Threads -> SUBSET Objects] /\ free_objs \in Seq(Objects)
  BY DEF TypeOK, QueueTypeOK
<1>1. ~twice /\ o \in has[u] /\ o \in made /\ made' = made
  BY DEF Free, TypeOK, QueueTypeOK
<1>2. free_objs' = Append(free_objs, o)
  BY DEF Free
<1>3. o \notin Entries(free_objs)
  BY <1>1 DEF QueueInv, HandedOutOnce
<1>4. \A i, j \in DOMAIN free_objs' : i # j => free_objs'[i] # free_objs'[j]
  <2>. SUFFICES ASSUME NEW i \in DOMAIN free_objs', NEW j \in DOMAIN free_objs', i # j
                PROVE  free_objs'[i] # free_objs'[j]
    OBVIOUS
  <2>1. \A k \in DOMAIN free_objs : free_objs[k] # o
    BY <1>3 DEF Entries
  <2>2. \A k, l \in DOMAIN free_objs : k # l => free_objs[k] # free_objs[l]
    BY <1>1 DEF QueueInv, HandedOutOnce
  <2>. QED
    BY <1>0, <1>2, <2>1, <2>2, AppendEntries
<1>5. Entries(free_objs)' \subseteq Entries(free_objs) \cup {o}
  BY <1>0, <1>2, AppendEntries
<1>6. \A v \in Threads : has'[v] = IF v = u THEN has[v] \ {o} ELSE has[v]
  BY <1>0 DEF Free
<1>7. \A v \in Threads : has'[v] \subseteq has[v] /\ o \notin has'[v]
  BY <1>1, <1>6 DEF QueueInv, HandedOutOnce
<1>8. /\ \A v, w \in Threads : v # w => has'[v] \cap has'[w] = {}
      /\ \A v \in Threads : has'[v] \cap Entries(free_objs)' = {}
  BY <1>1, <1>5, <1>7 DEF QueueInv, HandedOutOnce
<1>9. Entries(free_objs)' \subseteq made' /\ \A v \in Threads : has'[v] \subseteq made'
  BY <1>1, <1>5, <1>7 DEF QueueInv
<1>. QED
  BY <1>4, <1>8, <1>9 DEF QueueInv, HandedOutOnce

LEMMA QueueInvStep == TypeOK /\ QueueInv /\ [Next]_vars => QueueInv'
<1>. SUFFICES ASSUME TypeOK, QueueInv, [Next]_vars PROVE QueueInv'
  OBVIOUS
<1>1. CASE \E u \in Threads, o \in Objects : Free(u, o)
  BY <1>1, FreeInv
<1>2. CASE \E u \in Threads : Alloc(u)
  BY <1>2, AllocInv
<1>3. CASE DestroyQueue
  BY <1>3 DEF DestroyQueue, QueueInv, HandedOutOnce, Entries
<1>4. CASE UNCHANGED <<free_objs, made, has, twice>>
  BY <1>4 DEF QueueInv, HandedOutOnce, Entries
<1>. QED
  BY <1>1, <1>2, <1>3, <1>4 DEF Next, Use, Await, queueVars, vars

\* No object of the queue is handed out twice, as long as nobody gives back what is not his.
THEOREM NoObjectTwice == Spec => []HandedOutOnce
<1>1. TypeOK /\ QueueInv /\ [Next]_vars => (TypeOK /\ QueueInv)'
  BY TypeStep, QueueInvStep
<1>2. QueueInv => HandedOutOnce
  BY DEF QueueInv, HandedOutOnce
<1>. QED
  BY QueueInitType, QueueInvInit, <1>1, <1>2, PTL DEF Spec
----------------------------------------------------------------------------
(* Reports *)

\* Part of the invariant: a thread in a wait has nothing to report, and no thread reports
\* the same object twice.
ReportShape ==
  \A t \in Threads :
    /\ In(t) => report[t] = <<>>
    /\ \A i, j \in DOMAIN report[t] : i # j => report[t][i] # report[t][j]

ReportInv == ReportedOnce /\ ReportShape

LEMMA ReportInit == Init => ReportInv
BY DEF Init, WaitInit, QueueInit, ReportInv, ReportedOnce, Accounted, Reporters, Entries,
       ReportShape, In, NoCall

LEMMA ReportsSame == ASSUME UNCHANGED report PROVE \A o : Reporters(o)' = Reporters(o)
BY DEF Reporters

LEMMA UseReport ==
  ASSUME TypeOK, ReportInv, NEW u \in Threads, NEW o \in Objects, Use(u, o) PROVE ReportInv'
<1>1. ReportShape'
  BY DEF Use, Start, ReportInv, ReportShape, In
<1>2. ASSUME ~careless', NEW p \in Objects PROVE Accounted(p)'
  <2>1. ~careless /\ owed[o] = 0
    BY <1>2 DEF Use
  <2>2. Accounted(p) /\ Accounted(o)
    BY <2>1 DEF ReportInv, ReportedOnce
  <2>3. Reporters(p)' = Reporters(p)
    BY ReportsSame DEF Use, Start
  <2>4. CASE p = o
    BY <2>1, <2>2, <2>3, <2>4 DEF Use, Start, Accounted, TypeOK, WaitTypeOK
  <2>5. CASE p # o
    BY <2>2, <2>3, <2>5 DEF Use, Start, Accounted, TypeOK, WaitTypeOK
  <2>. QED
    BY <2>4, <2>5
<1>. QED
  BY <1>1, <1>2 DEF ReportInv, ReportedOnce

LEMMA FinishReport ==
  ASSUME TypeOK, ReportInv, NEW o \in Objects, Finish(o), UNCHANGED queueVars
  PROVE  ReportInv'
<1>1. ReportShape'
  BY DEF Finish, ReportInv, ReportShape, In
<1>2. ASSUME ~careless', NEW p \in Objects PROVE Accounted(p)'
  <2>1. Accounted(p)
    BY <1>2 DEF ReportInv, ReportedOnce, queueVars
  <2>2. Reporters(p)' = Reporters(p)
    BY ReportsSame DEF Finish
  <2>. QED
    BY <2>1, <2>2 DEF Finish, Accounted, TypeOK, WaitTypeOK
<1>. QED
  BY <1>1, <1>2 DEF ReportInv, ReportedOnce

\* A step that leaves I/O, events and reports alone.
LEMMA OtherReport ==
  ASSUME ReportInv, UNCHANGED <<io, signalled, report, owed>>, careless' \/ ~careless,
         \A t \in Threads : In(t)' => report[t] = <<>>
  PROVE  ReportInv'
BY ReportsSame DEF ReportInv, ReportedOnce, Accounted, ReportShape

LEMMA BrokenReport ==
  ASSUME TypeOK, ReportInv, NEW t \in Threads, NEW late \in Nat, NEW timeout \in Nat,
         Broken(t, late, timeout), UNCHANGED queueVars
  PROVE  ReportInv'
<1>1. ReportShape'
  BY DEF Broken, ReportInv, ReportShape, In, TypeOK, WaitTypeOK, Timed
<1>2. ASSUME ~careless', NEW p \in Objects PROVE Accounted(p)'
  <2>1. Accounted(p)
    BY <1>2 DEF ReportInv, ReportedOnce, queueVars
  <2>2. Reporters(p)' = Reporters(p) /\ owed' = owed
    BY ReportsSame DEF Broken
  <2>3. CASE p \in Routines(t)
    <3>1. io[p] # "idle" /\ io'[p] = "idle" /\ p \in signalled'
      BY <2>3 DEF Broken, Routines
    <3>. QED
      BY <2>1, <2>2, <3>1 DEF Accounted
  <2>4. CASE p \notin Routines(t)
    <3>1. io'[p] = io[p] /\ (p \in signalled' <=> p \in signalled)
      BY <2>4 DEF Broken
    <3>. QED
      BY <2>1, <2>2, <3>1 DEF Accounted
  <2>. QED
    BY <2>3, <2>4
<1>. QED
  BY <1>1, <1>2 DEF ReportInv, ReportedOnce

\* A wait takes events that are set, each once.
LEMMA TakeReport ==
  ASSUME TypeOK, ReportInv, NEW t \in Threads, In(t), NEW s \in Seq(Objects), Take(t, s),
         Entries(s) \subseteq signalled, \A i, j \in DOMAIN s : i # j => s[i] # s[j],
         UNCHANGED queueVars
  PROVE  ReportInv'
<1>0. /\ report[t] = <<>> /\ report' = [report EXCEPT ![t] = s]
      /\ report \in [Threads -> Seq(Objects)] /\ call \in [Threads -> Calls]
      /\ call' = [call EXCEPT ![t] = NoCall]
  BY DEF ReportInv, ReportShape, Take, TypeOK, WaitTypeOK
<1>1. ReportShape'
  <2>1. \A u \in Threads : u # t => report'[u] = report[u] /\ call'[u] = call[u]
    BY <1>0
  <2>2. report'[t] = s /\ ~In(t)'
    BY <1>0 DEF In, NoCall
  <2>3. ASSUME NEW u \in Threads, u # t
        PROVE  /\ In(u)' => report'[u] = <<>>
               /\ \A i, j \in DOMAIN report'[u] : i # j => report'[u][i] # report'[u][j]
    BY <2>1, <2>3 DEF ReportInv, ReportShape, In
  <2>. QED
    BY <2>2, <2>3 DEF ReportShape
<1>2. ASSUME ~careless', NEW p \in Objects PROVE Accounted(p)'
  <2>1. Accounted(p) /\ io'[p] = io[p] /\ owed'[p] = owed[p]
    BY <1>2 DEF ReportInv, ReportedOnce, queueVars, Take
  <2>2. Entries(<<>>) = {}
    BY DEF Entries
  <2>3. Reporters(p)' = IF p \in Entries(s) THEN Reporters(p) \cup {t} ELSE Reporters(p)
    BY <1>0, <2>2 DEF Reporters
  <2>4. p \in signalled' <=> p \in signalled /\ p \notin Entries(s)
    BY DEF Take
  <2>5. CASE p \in Entries(s)
    <3>1. p \in signalled /\ Reporters(p)' = Reporters(p) \cup {t}
      BY <2>3, <2>5
    <3>. QED
      BY <2>1, <2>4, <2>5, <3>1 DEF Accounted
  <2>6. CASE p \notin Entries(s)
    BY <2>1, <2>3, <2>4, <2>6 DEF Accounted
  <2>. QED
    BY <2>5, <2>6
<1>. QED
  BY <1>1, <1>2 DEF ReportInv, ReportedOnce

\* A thread that reports an object is the only one that does.
LEMMA ListenersReport ==
  ASSUME TypeOK, ReportInv, NEW t \in Threads, CallListeners(t), UNCHANGED queueVars
  PROVE  ReportInv'
<1>0. /\ report[t] # <<>> /\ report[t] \in Seq(Objects)
      /\ report' = [report EXCEPT ![t] = Tail(report[t])]
      /\ report \in [Threads -> Seq(Objects)] /\ call' = call
      /\ \A i, j \in DOMAIN report[t] : i # j => report[t][i] # report[t][j]
  BY DEF CallListeners, TypeOK, WaitTypeOK, ReportInv, ReportShape
<1>. DEFINE h == Head(report[t])
<1>1. /\ \A i, j \in DOMAIN Tail(report[t]) : i # j => Tail(report[t])[i] # Tail(report[t])[j]
      /\ Entries(Tail(report[t])) = Entries(report[t]) \ {h}
  BY <1>0, DistinctTail
<1>2. h \in Entries(report[t]) /\ h \in Objects
  BY <1>0, TailEntries DEF Entries
<1>3. ReportShape'
  <2>1. \A u \in Threads : u # t => report'[u] = report[u]
    BY <1>0
  <2>2. report'[t] = Tail(report[t]) /\ ~In(t)'
    BY <1>0 DEF In, ReportInv, ReportShape
  <2>3. ASSUME NEW u \in Threads, u # t
        PROVE  /\ In(u)' => report'[u] = <<>>
               /\ \A i, j \in DOMAIN report'[u] : i # j => report'[u][i] # report'[u][j]
    BY <1>0, <2>1, <2>3 DEF ReportInv, ReportShape, In
  <2>. QED
    BY <1>1, <2>2, <2>3 DEF ReportShape
<1>4. ASSUME ~careless', NEW p \in Objects PROVE Accounted(p)'
  <2>1. Accounted(p) /\ io' = io /\ signalled' = signalled
    BY <1>4 DEF ReportInv, ReportedOnce, queueVars, CallListeners
  <2>2. CASE p = h
    <3>1. t \in Reporters(p) /\ Reporters(p)' = Reporters(p) \ {t}
      BY <1>0, <1>1, <1>2, <2>2 DEF Reporters
    <3>2. owed[p] = 1 /\ io[p] = "idle" /\ p \notin signalled /\ Reporters(p) = {t}
      BY <2>1, <3>1 DEF Accounted
    <3>3. owed'[p] = 0
      BY <1>0, <2>2, <3>2 DEF CallListeners, TypeOK, WaitTypeOK
    <3>. QED
      BY <2>1, <3>1, <3>2, <3>3 DEF Accounted
  <2>3. CASE p # h
    <3>1. Reporters(p)' = Reporters(p)
      BY <1>0, <1>1, <2>3 DEF Reporters
    <3>2. owed'[p] = owed[p]
      BY <2>3 DEF CallListeners, TypeOK, WaitTypeOK
    <3>. QED
      BY <2>1, <3>1, <3>2 DEF Accounted
  <2>. QED
    BY <2>2, <2>3
<1>. QED
  BY <1>3, <1>4 DEF ReportInv, ReportedOnce

LEMMA WaitingReport ==
  ASSUME TypeOK, ReportInv, NEW t \in Threads, Waiting(t), UNCHANGED queueVars
  PROVE  ReportInv'
<1>0. call[t].list \in Seq(Objects \cup {Null}) /\ careless' = careless
  BY DEF TypeOK, WaitTypeOK, Calls, queueVars
<1>1. CASE SucceedOne(t) \/ SucceedAll(t)
  <2>1. /\ In(t) /\ Take(t, call[t].list) /\ ~Refused(call[t].list)
        /\ Entries(call[t].list) \subseteq signalled
    BY <1>1 DEF SucceedOne, SucceedAll, Ready, In
  <2>2. call[t].list \in Seq(Objects)
    BY <1>0, <2>1, NotRefused
  <2>3. \A i, j \in DOMAIN call[t].list : i # j => call[t].list[i] # call[t].list[j]
    BY <2>1 DEF Refused
  <2>. QED
    BY <2>1, <2>2, <2>3, TakeReport
<1>2. CASE SucceedAny(t)
  <2>1. PICK i \in DOMAIN call[t].list :
          call[t].list[i] \in signalled /\ Take(t, <<call[t].list[i]>>)
    BY <1>2 DEF SucceedAny
  <2>2. call[t].list \in Seq(Objects) /\ In(t)
    BY <1>0, <1>2, NotRefused DEF SucceedAny, Ready, In
  <2>3. <<call[t].list[i]>> \in Seq(Objects) /\ Entries(<<call[t].list[i]>>) \subseteq signalled
    BY <2>1, <2>2 DEF Entries
  <2>4. \A j, k \in DOMAIN <<call[t].list[i]>> : j = k
    OBVIOUS
  <2>. QED
    BY <2>1, <2>2, <2>3, <2>4, TakeReport
<1>3. CASE CallListeners(t)
  BY <1>3, ListenersReport
<1>4. CASE Interrupt(t)
  BY <1>4, InterruptCases, BrokenReport DEF TypeOK
<1>5. CASE Tick(t) \/ TimeOut(t) \/ Fail(t)
  <2>1. \A u \in Threads : In(u)' => In(u)
    BY <1>5 DEF Tick, TimeOut, Fail, Leave, In, NoCall, TypeOK, WaitTypeOK
  <2>2. UNCHANGED <<io, signalled, report, owed>>
    BY <1>5 DEF Tick, TimeOut, Fail, Leave
  <2>. QED
    BY <1>0, <2>1, <2>2, OtherReport DEF ReportInv, ReportShape
<1>. QED
  BY <1>1, <1>2, <1>3, <1>4, <1>5 DEF Waiting

LEMMA ReportStep == TypeOK /\ ReportInv /\ [Next]_vars => ReportInv'
<1>. SUFFICES ASSUME TypeOK, ReportInv, [Next]_vars PROVE ReportInv'
  OBVIOUS
<1>1. CASE \E u \in Threads, o \in Objects : Use(u, o)
  BY <1>1, UseReport
<1>2. CASE \E o \in Objects : Finish(o) /\ UNCHANGED queueVars
  BY <1>2, FinishReport
<1>3. CASE \E u \in Threads : Waiting(u) /\ UNCHANGED queueVars
  BY <1>3, WaitingReport
<1>4. CASE \/ \E u \in Threads, o \in Objects : Free(u, o)
           \/ \E u \in Threads : Alloc(u)
           \/ DestroyQueue \/ UNCHANGED vars
  <2>1. UNCHANGED waitVars
    BY <1>4 DEF Free, Alloc, DestroyQueue, vars, queueVars
  <2>2. careless' \/ ~careless
    BY <1>4 DEF Free, Alloc, DestroyQueue, vars, queueVars, TypeOK, QueueTypeOK
  <2>. QED
    BY <2>1, <2>2, OtherReport DEF waitVars, ReportInv, ReportShape, In
<1>5. CASE \E u \in Threads : Await(u)
  <2>1. PICK u \in Threads, how \in {"one", "all", "any"}, s \in Seq(Objects \cup {Null}),
             ms \in Int : Enter(u, how, s, ms) /\ UNCHANGED queueVars
    BY <1>5, AwaitCases
  <2>2. \A t \in Threads : t = u \/ call'[t] = call[t]
    BY <2>1 DEF Enter, TypeOK, WaitTypeOK
  <2>3. \A t \in Threads : In(t)' => report[t] = <<>>
    BY <2>1, <2>2 DEF ReportInv, ReportShape, In, Enter, Out
  <2>. QED
    BY <2>1, <2>3, OtherReport DEF Enter, queueVars
<1>. QED
  BY <1>1, <1>2, <1>3, <1>4, <1>5 DEF Next

\* Whatever waits compete for an I/O, exactly one reports it, once, after it is done.
THEOREM EveryReportOnce == Spec => []ReportedOnce
<1>1. TypeOK /\ ReportInv /\ [Next]_vars => (TypeOK /\ ReportInv)'
  BY TypeStep, ReportStep
<1>2. ReportInv => ReportedOnce
  BY DEF ReportInv
<1>. QED
  BY QueueInitType, ReportInit, <1>1, <1>2, PTL DEF Spec
=============================================================================
