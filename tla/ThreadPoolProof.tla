-------------------------- MODULE ThreadPoolProof --------------------------
(***************************************************************************)
(* Theorems about the thread pool, for every number of workers up to the     *)
(* width of the mask, every set of tasks and pushers and every mask.         *)
(***************************************************************************)
EXTENDS ThreadPool, SequenceTheorems, TLAPS

\* A task is at hand wherever one is used.
AtHand ==
  /\ \A w \in Workers : pc[w] = "run" => mine[w] # None
  /\ \A p \in Pushers : call[p] = "scan" => arg[p] # None
  /\ \A p \in Pushers : call[p] = "notify" => best[p] # None

\* The wait condition a runner found false stays false until it blocks.
DrowsyIsIdle == \A w \in Workers : pc[w] = "drowsy" => queue[w] = <<>>

\* The notification a pushed task still needs.
WakeInv == DrowsyIsIdle /\ SleeperIsNotified

\* The task in hand is the front of the queue.
FrontInHand ==
  \A w \in Workers :
    /\ pc[w] \notin {"run", "remove"} => mine[w] = None
    /\ mine[w] # None => queue[w] # <<>> /\ Head(queue[w]) = mine[w]

\* What holds where nobody calls clear().
HandInv == clearing = {} /\ ~broken /\ FrontInHand

----------------------------------------------------------------------------

LEMMA NoneApart == None \notin Tasks /\ None \notin Workers
  BY PoolAssumption

LEMMA HeadTail ==
  ASSUME NEW S, NEW s \in Seq(S), s # <<>>
  PROVE  Head(s) \in S /\ Tail(s) \in Seq(S)
  OBVIOUS

LEMMA HeadAppend ==
  ASSUME NEW S, NEW s \in Seq(S), NEW x \in S
  PROVE  /\ Append(s, x) \in Seq(S) /\ Append(s, x) # <<>>
         /\ s # <<>> => Head(Append(s, x)) = Head(s)
<1>1. Append(s, x) \in Seq(S) /\ Append(s, x) # <<>>
  BY AppendProperties
<1>2. s # <<>> => 1 \in 1..Len(s) /\ Head(s) = s[1]
  BY EmptySeq, HeadTailProperties
<1>3. Head(Append(s, x)) = Append(s, x)[1]
  BY <1>1, HeadTailProperties
<1> QED
  BY <1>1, <1>2, <1>3, AppendProperties

----------------------------------------------------------------------------

LEMMA TypeInit == Init => TypeOK /\ AtHand
  <1> SUFFICES ASSUME Init PROVE TypeOK /\ AtHand
    OBVIOUS
  <1> USE DEF Init, TypeOK, AtHand
  <1>1. broken \in BOOLEAN /\ should_stop \in [Workers -> BOOLEAN]
    BY Zenon
  <1>2. queue \in [Workers -> Seq(Accepted)] /\ arrived \in [Workers -> Seq(Accepted)]
        /\ started \in [Workers -> Seq(Accepted)]
    OBVIOUS
  <1>3. size \in 0..N
    BY PoolAssumption
  <1> QED
    BY <1>1, <1>2, <1>3

LEMMA TypeNext == TypeOK /\ AtHand /\ [Next]_vars => TypeOK' /\ AtHand'
  <1> SUFFICES ASSUME TypeOK, AtHand, [Next]_vars PROVE TypeOK' /\ AtHand'
    OBVIOUS
  <1> USE DEF TypeOK, AtHand, callVars, workVars, histVars, RunnerFrame, PushFrame,
              StopFrame, Wake
  <1>1. ASSUME NEW w \in Workers, Top(w) PROVE TypeOK' /\ AtHand'
    BY <1>1 DEF Top
  <1>2. ASSUME NEW w \in Workers, Grab(w) PROVE TypeOK' /\ AtHand'
    <2>1. CASE queue[w] # <<>>
      <3>1. Head(queue[w]) \in Accepted
        BY <2>1, HeadTail
      <3>2. Append(started[w], Head(queue[w])) \in Seq(Accepted)
        BY <3>1
      <3>3. started' \in [Workers -> Seq(Accepted)]
        BY <1>2, <2>1, <3>2 DEF Grab
      <3>4. mine' \in [Workers -> Accepted \cup {None}] /\ mine'[w] = Head(queue[w])
        BY <1>2, <2>1, <3>1 DEF Grab
      <3>5. Head(queue[w]) # None
        BY <3>1, NoneApart DEF Accepted
      <3>6. \A v \in Workers : pc'[v] = "run" => mine'[v] # None
        BY <1>2, <2>1, <3>4, <3>5 DEF Grab
      <3> QED
        BY <1>2, <2>1, <3>3, <3>4, <3>6 DEF Grab
    <2>2. CASE queue[w] = <<>>
      BY <1>2, <2>2 DEF Grab
    <2> QED
      BY <2>1, <2>2
  <1>3. ASSUME NEW w \in Workers, Run(w) PROVE TypeOK' /\ AtHand'
    BY <1>3 DEF Run, Accepted
  <1>4. ASSUME NEW w \in Workers, Remove(w) PROVE TypeOK' /\ AtHand'
    <2>1. queue' \in [Workers -> Seq(Accepted)]
      <3>1. CASE mine[w] = None \/ queue[w] = <<>>
        BY <1>4, <3>1 DEF Remove
      <3>2. CASE mine[w] # None /\ queue[w] # <<>>
        <4>1. Tail(queue[w]) \in Seq(Accepted)
          BY <3>2, HeadTail
        <4> QED
          BY <1>4, <3>2, <4>1 DEF Remove
      <3> QED
        BY <3>1, <3>2
    <2>2. broken' \in BOOLEAN
      <3>1. broken' = TRUE \/ broken' = broken
        BY <1>4 DEF Remove
      <3> QED
        BY <3>1, Zenon
    <2> QED
      BY <1>4, <2>1, <2>2 DEF Remove
  <1>5. ASSUME NEW w \in Workers, Block(w) \/ SpuriousWakeup(w) \/ Recheck(w)
        PROVE  TypeOK' /\ AtHand'
    BY <1>5 DEF Block, SpuriousWakeup, Recheck
  <1>6. ASSUME NEW w \in Workers, StopWorker(w) PROVE TypeOK' /\ AtHand'
    <2>1. should_stop' \in [Workers -> BOOLEAN]
      BY <1>6, Zenon DEF StopWorker
    <2> QED
      BY <1>6, <2>1 DEF StopWorker
  <1>7. ASSUME NEW w \in Workers, Destroying(w) PROVE TypeOK' /\ AtHand'
    <2>1. CASE NotifyWorker(w)
      BY <2>1 DEF NotifyWorker
    <2>2. CASE JoinWorker(w)
      BY <2>2 DEF JoinWorker
    <2> QED
      BY <1>7, <2>1, <2>2 DEF Destroying
  <1>8. ASSUME NEW p \in Pushers, NEW t \in Tasks, Push(p, t) PROVE TypeOK' /\ AtHand'
    <2>1. CASE t \in Invalid \/ Mask[t] \cap TestedBits = {}
      BY <1>8, <2>1 DEF Push
    <2>2. CASE ~(t \in Invalid \/ Mask[t] \cap TestedBits = {})
      <3>1. t \in Accepted /\ t # None
        BY <2>2, NoneApart DEF Accepted
      <3> QED
        <4>1. Present \subseteq Workers
          BY DEF Present
        <4>2. /\ call' = [call EXCEPT ![p] = "scan"] /\ arg' = [arg EXCEPT ![p] = t]
              /\ left' = [left EXCEPT ![p] = Present] /\ calls' = calls \cup {t}
              /\ UNCHANGED <<best, low, rejected, queue, pc, refused, arrived>> /\ PushFrame
          BY <1>8, <2>2 DEF Push
        <4> QED
          BY <3>1, <4>1, <4>2
    <2> QED
      BY <2>1, <2>2
  <1>9. ASSUME NEW p \in Pushers, Scan(p) PROVE TypeOK' /\ AtHand'
    <2>1. PICK w \in Workers :
            /\ left' = [left EXCEPT ![p] = @ \ {w}]
            /\ \/ best' = [best EXCEPT ![p] = w] /\ low' = [low EXCEPT ![p] = Len(queue[w])]
               \/ UNCHANGED <<best, low>>
      BY <1>9 DEF Scan
    <2>2. Len(queue[w]) \in Nat
      OBVIOUS
    <2>3. left' \in [Pushers -> SUBSET Workers]
      BY <2>1
    <2>4. best' \in [Pushers -> Workers \cup {None}] /\ low' \in [Pushers -> Nat]
      <3>1. CASE UNCHANGED <<best, low>>
        BY <3>1
      <3>2. CASE best' = [best EXCEPT ![p] = w] /\ low' = [low EXCEPT ![p] = Len(queue[w])]
        BY <3>2, <2>2
      <3> QED
        BY <2>1, <3>1, <3>2
    <2>5. UNCHANGED <<size, queue, pc, call, arg, histVars, mine, should_stop, clearing, fate, broken>>
          /\ call[p] = "scan"
      BY <1>9 DEF Scan
    <2>6. \A q \in Pushers : call[q] = "notify" => best'[q] # None
      BY <2>1, <2>5
    <2> QED
      BY <2>3, <2>4, <2>5, <2>6
  <1>10. ASSUME NEW p \in Pushers, Refuse(p) PROVE TypeOK' /\ AtHand'
    BY <1>10 DEF Refuse, Accepted
  <1>11. ASSUME NEW p \in Pushers, Enqueue(p) PROVE TypeOK' /\ AtHand'
    <2>1. best[p] \in Workers /\ arg[p] \in Accepted
      BY <1>11 DEF Enqueue
    <2>2. /\ Append(queue[best[p]], arg[p]) \in Seq(Accepted)
          /\ Append(arrived[best[p]], arg[p]) \in Seq(Accepted)
      BY <2>1
    <2> QED
      BY <1>11, <2>1, <2>2 DEF Enqueue
  <1>12. ASSUME NEW p \in Pushers, Notify(p) PROVE TypeOK' /\ AtHand'
    BY <1>12 DEF Notify
  <1>13. ASSUME NEW mask \in ClearMasks, Clear(mask) PROVE TypeOK' /\ AtHand'
    BY <1>13 DEF Clear, Present
  <1>14. CASE ClearWorker
    BY <1>14 DEF ClearWorker
  <1>15. CASE UNCHANGED vars
    BY <1>15 DEF vars
  <1> QED
    BY <1>1, <1>2, <1>3, <1>4, <1>5, <1>6, <1>7, <1>8, <1>9, <1>10, <1>11, <1>12, <1>13,
       <1>14, <1>15 DEF Next, Step, Runner, Pushing

\* Every variable has its type in every reachable state; in particular no worker's queue
\* ever holds a task that push() must refuse (threadpool.cpp:109-114).
THEOREM TypeCorrect == Spec => []TypeOK
  <1>1. Spec => [](TypeOK /\ AtHand)
    BY TypeInit, TypeNext, PTL DEF Spec
  <1> QED
    BY <1>1, PTL

----------------------------------------------------------------------------

LEMMA WakeInit == Init => WakeInv
  BY DEF Init, WakeInv, DrowsyIsIdle, SleeperIsNotified

LEMMA WakeNext == TypeOK /\ AtHand /\ WakeInv /\ [Next]_vars => WakeInv'
  <1> SUFFICES ASSUME TypeOK, AtHand, WakeInv, [Next]_vars PROVE WakeInv'
    OBVIOUS
  <1> USE DEF TypeOK, WakeInv, DrowsyIsIdle, SleeperIsNotified, callVars, workVars, histVars,
              RunnerFrame, PushFrame, StopFrame, Wake
  <1>1. ASSUME NEW w \in Workers, Top(w) \/ Grab(w) \/ Run(w) \/ SpuriousWakeup(w)
        PROVE  WakeInv'
    <2>1. CASE Top(w)
      BY <2>1 DEF Top
    <2>2. CASE Grab(w)
      <3>1. UNCHANGED <<queue, call, best>> /\ pc'[w] \in {"run", "remove"}
            /\ \A v \in Workers : v # w => pc'[v] = pc[v]
        BY <2>2 DEF Grab
      <3> QED
        BY <3>1
    <2>3. CASE Run(w)
      BY <2>3 DEF Run
    <2>4. CASE SpuriousWakeup(w)
      BY <2>4 DEF SpuriousWakeup
    <2> QED
      BY <1>1, <2>1, <2>2, <2>3, <2>4
  <1>2. ASSUME NEW w \in Workers, Remove(w) PROVE WakeInv'
    <2>1. \A v \in Workers : v # w => queue'[v] = queue[v] /\ pc'[v] = pc[v]
      BY <1>2 DEF Remove
    <2>2. pc'[w] # "blocked" /\ (pc'[w] = "drowsy" => queue'[w] = <<>>)
      BY <1>2 DEF Remove
    <2> QED
      BY <1>2, <2>1, <2>2 DEF Remove
  <1>3. ASSUME NEW w \in Workers, Block(w) \/ Recheck(w) PROVE WakeInv'
    <2>1. CASE Block(w)
      BY <2>1 DEF Block
    <2>2. CASE Recheck(w)
      BY <2>2 DEF Recheck
    <2> QED
      BY <1>3, <2>1, <2>2
  <1>4. ASSUME NEW w \in Workers, StopWorker(w) \/ Destroying(w) PROVE WakeInv'
    BY <1>4 DEF StopWorker, Destroying, NotifyWorker, JoinWorker
  <1>5. ASSUME NEW p \in Pushers, NEW t \in Tasks, Push(p, t) PROVE WakeInv'
    BY <1>5 DEF Push
  <1>6. ASSUME NEW p \in Pushers, Scan(p) \/ Refuse(p) PROVE WakeInv'
    BY <1>6 DEF Scan, Refuse
  <1>7. ASSUME NEW p \in Pushers, Enqueue(p) PROVE WakeInv'
    <2>1. best[p] \in Workers /\ pc[best[p]] # "drowsy"
      BY <1>7 DEF Enqueue, Unlocked
    <2>2. \A v \in Workers : v # best[p] => queue'[v] = queue[v]
      BY <1>7 DEF Enqueue
    <2>3. call'[p] = "notify" /\ UNCHANGED <<pc, best>>
          /\ \A q \in Pushers : call[q] = "notify" => call'[q] = "notify"
      BY <1>7 DEF Enqueue
    <2> QED
      BY <2>1, <2>2, <2>3
  <1>8. ASSUME NEW p \in Pushers, Notify(p) PROVE WakeInv'
    <2>1. best[p] \in Workers
      BY <1>8 DEF Notify, AtHand
    <2>2. pc'[best[p]] # "blocked" /\ UNCHANGED queue
          /\ (pc'[best[p]] = "drowsy" => pc[best[p]] = "drowsy")
          /\ \A v \in Workers : v # best[p] => pc'[v] = pc[v]
      BY <1>8, <2>1 DEF Notify
    <2>3. \A q \in Pushers : q # p => call'[q] = call[q] /\ best'[q] = best[q]
      BY <1>8 DEF Notify
    <2>4. DrowsyIsIdle'
      BY <2>2
    <2>5. ASSUME NEW v \in Workers, pc'[v] = "blocked", queue'[v] # <<>>
          PROVE  \E q \in Pushers : call'[q] = "notify" /\ best'[q] = v
      <3>1. v # best[p] /\ pc[v] = "blocked" /\ queue[v] # <<>>
        BY <2>2, <2>5
      <3>2. PICK q \in Pushers : call[q] = "notify" /\ best[q] = v
        BY <3>1
      <3> QED
        BY <2>3, <3>1, <3>2
    <2> QED
      BY <2>4, <2>5
  <1>9. ASSUME NEW mask \in ClearMasks, Clear(mask) PROVE WakeInv'
    BY <1>9 DEF Clear
  <1>10. CASE ClearWorker
    BY <1>10 DEF ClearWorker
  <1>11. CASE UNCHANGED vars
    BY <1>11 DEF vars
  <1> QED
    BY <1>1, <1>2, <1>3, <1>4, <1>5, <1>6, <1>7, <1>8, <1>9, <1>10, <1>11
       DEF Next, Step, Runner, Pushing

\* No wakeup of push() is lost: a runner is never blocked on a queue with work in it
\* unless a push() that will wake it is between its two steps (threadpool.cpp:67-69, 83-87).
THEOREM NoLostPush == Spec => []SleeperIsNotified
  <1>1. Spec => [](TypeOK /\ AtHand /\ WakeInv)
    BY TypeInit, TypeNext, WakeInit, WakeNext, PTL DEF Spec
  <1>2. WakeInv => SleeperIsNotified
    BY DEF WakeInv
  <1> QED
    BY <1>1, <1>2, PTL

----------------------------------------------------------------------------

LEMMA HeadKept ==
  ASSUME TypeOK, NEW w \in Workers, NEW t \in Accepted, queue[w] # <<>>
  PROVE  Append(queue[w], t) # <<>> /\ Head(Append(queue[w], t)) = Head(queue[w])
  <1>1. queue[w] \in Seq(Accepted)
    BY DEF TypeOK
  <1> QED
    BY <1>1, HeadAppend

LEMMA HandInit == Init => HandInv
  BY DEF Init, HandInv, FrontInHand

LEMMA HandNext ==
  ASSUME ClearMasks = {}
  PROVE  TypeOK /\ AtHand /\ HandInv /\ [Next]_vars => HandInv'
  <1> SUFFICES ASSUME TypeOK, AtHand, HandInv, [Next]_vars PROVE HandInv'
    OBVIOUS
  <1> USE DEF TypeOK, AtHand, HandInv, FrontInHand, callVars, workVars, histVars,
              RunnerFrame, PushFrame, StopFrame, Wake
  <1>1. ASSUME NEW w \in Workers, Top(w) \/ Run(w) \/ SpuriousWakeup(w) \/ Block(w) \/ Recheck(w)
        PROVE  HandInv'
    <2>1. CASE Top(w)
      BY <2>1 DEF Top
    <2>2. CASE Run(w)
      BY <2>2 DEF Run
    <2>3. CASE SpuriousWakeup(w)
      BY <2>3 DEF SpuriousWakeup
    <2>4. CASE Block(w)
      BY <2>4 DEF Block
    <2>5. CASE Recheck(w)
      BY <2>5 DEF Recheck
    <2> QED
      BY <1>1, <2>1, <2>2, <2>3, <2>4, <2>5
  <1>2. ASSUME NEW w \in Workers, Grab(w) PROVE HandInv'
    <2>1. UNCHANGED <<queue, broken, clearing>> /\ pc'[w] \in {"run", "remove"}
          /\ \A v \in Workers : v # w => pc'[v] = pc[v] /\ mine'[v] = mine[v]
      BY <1>2 DEF Grab
    <2>2. mine'[w] # None => queue[w] # <<>> /\ Head(queue[w]) = mine'[w]
      BY <1>2 DEF Grab
    <2> QED
      BY <2>1, <2>2
  <1>3. ASSUME NEW w \in Workers, Remove(w) PROVE HandInv'
    <2>1. ~broken'
      BY <1>3 DEF Remove
    <2>2. \A v \in Workers : v # w => queue'[v] = queue[v] /\ pc'[v] = pc[v] /\ mine'[v] = mine[v]
      BY <1>3 DEF Remove
    <2>3. mine'[w] = None
      BY <1>3 DEF Remove
    <2> QED
      BY <1>3, <2>1, <2>2, <2>3 DEF Remove
  <1>4. ASSUME NEW w \in Workers, StopWorker(w) \/ Destroying(w) PROVE HandInv'
    <2>1. CASE StopWorker(w)
      BY <2>1 DEF StopWorker
    <2>2. CASE NotifyWorker(w)
      BY <2>2 DEF NotifyWorker
    <2>3. CASE JoinWorker(w)
      BY <2>3 DEF JoinWorker
    <2> QED
      BY <1>4, <2>1, <2>2, <2>3 DEF Destroying
  <1>5. ASSUME NEW p \in Pushers, NEW t \in Tasks, Push(p, t) PROVE HandInv'
    BY <1>5 DEF Push
  <1>6. ASSUME NEW p \in Pushers, Scan(p) \/ Refuse(p) \/ Notify(p) PROVE HandInv'
    <2>1. CASE Scan(p)
      BY <2>1 DEF Scan
    <2>2. CASE Refuse(p)
      BY <2>2 DEF Refuse
    <2>3. CASE Notify(p)
      BY <2>3 DEF Notify
    <2> QED
      BY <1>6, <2>1, <2>2, <2>3
  <1>7. ASSUME NEW p \in Pushers, Enqueue(p) PROVE HandInv'
    <2>1. best[p] \in Workers /\ arg[p] \in Accepted
      BY <1>7 DEF Enqueue
    <2>2. \A v \in Workers : queue'[v] = queue[v] \/ queue'[v] = Append(queue[v], arg[p])
      BY <1>7, <2>1 DEF Enqueue
    <2>3. \A v \in Workers : queue[v] # <<>> => queue'[v] # <<>> /\ Head(queue'[v]) = Head(queue[v])
      <3> TAKE v \in Workers
      <3>1. queue[v] # <<>> => /\ Append(queue[v], arg[p]) # <<>>
                              /\ Head(Append(queue[v], arg[p])) = Head(queue[v])
        BY <2>1, HeadKept
      <3> QED
        BY <2>2, <3>1
    <2> QED
      BY <1>7, <2>3 DEF Enqueue
  <1>8. CASE ClearWorker
    BY <1>8 DEF ClearWorker, IsFirst
  <1>9. CASE UNCHANGED vars
    BY <1>9 DEF vars
  <1> QED
    BY <1>1, <1>2, <1>3, <1>4, <1>5, <1>6, <1>7, <1>8, <1>9 DEF Next, Step, Runner, Pushing

\* Where nobody calls clear(), the runner removes the task it ran (threadpool.cpp:61-66).
THEOREM RemovesOwnUnlessCleared == ClearMasks = {} => (Spec => []RemovesItsOwn)
  <1> SUFFICES ASSUME ClearMasks = {} PROVE Spec => []RemovesItsOwn
    OBVIOUS
  <1>1. TypeOK /\ AtHand /\ HandInv /\ [Next]_vars => HandInv'
    BY HandNext
  <1>2. Spec => [](TypeOK /\ AtHand /\ HandInv)
    BY <1>1, TypeInit, TypeNext, HandInit, PTL DEF Spec
  <1>3. HandInv => RemovesItsOwn
    BY DEF HandInv, FrontInHand, RemovesItsOwn
  <1> QED
    BY <1>2, <1>3, PTL

LEMMA TailAppend ==
  ASSUME NEW S, NEW s \in Seq(S), NEW x \in S, s # <<>>
  PROVE  Tail(Append(s, x)) = Append(Tail(s), x)
  OBVIOUS

\* What the abstract queue holds changes with the queue and the task in hand alone.
LEMMA QueuesSame ==
  ASSUME UNCHANGED <<queue, mine, started>>
  PROVE  UNCHANGED Queues!vars
  BY DEF Queues!vars

LEMMA QueuesStep ==
  ASSUME ClearMasks = {}
  PROVE  TypeOK /\ AtHand /\ HandInv /\ [Next]_vars => [Queues!Next]_(Queues!vars)
  <1> SUFFICES ASSUME TypeOK, AtHand, HandInv, [Next]_vars
               PROVE  [Queues!Next]_(Queues!vars)
    OBVIOUS
  <1> DEFINE waiting == [w \in Workers |-> IF mine[w] = None THEN queue[w] ELSE Tail(queue[w])]
  <1> USE DEF callVars, workVars, histVars, RunnerFrame, PushFrame, StopFrame
  <1>1. ASSUME NEW w \in Workers,
               Top(w) \/ Run(w) \/ SpuriousWakeup(w) \/ Block(w) \/ Recheck(w)
                 \/ StopWorker(w) \/ Destroying(w)
        PROVE  UNCHANGED Queues!vars
    BY <1>1, QueuesSame
    DEF Top, Run, SpuriousWakeup, Block, Recheck, StopWorker, Destroying, NotifyWorker, JoinWorker
  <1>2. ASSUME NEW w \in Workers, Grab(w)
        PROVE  Queues!Take(w) \/ UNCHANGED Queues!vars
    <2>1. CASE queue[w] = <<>>
      BY <1>2, <2>1, QueuesSame DEF Grab
    <2>2. CASE queue[w] # <<>>
      <3>1. /\ mine[w] = None /\ UNCHANGED queue
            /\ mine' = [mine EXCEPT ![w] = Head(queue[w])]
            /\ started' = [started EXCEPT ![w] = Append(@, Head(queue[w]))]
        BY <1>2, <2>2 DEF Grab, HandInv, FrontInHand
      <3>2. Head(queue[w]) # None
        BY <2>2, NoneApart, HeadTail DEF TypeOK, Accepted
      <3>3. waiting[w] = queue[w]
        BY <3>1
      <3>4. mine \in [Workers -> Accepted \cup {None}]
        BY DEF TypeOK
      <3>5. waiting' = [waiting EXCEPT ![w] = Tail(@)]
        BY <3>1, <3>2, <3>3, <3>4
      <3> QED
        BY <2>2, <3>1, <3>3, <3>5 DEF Queues!Take
    <2> QED
      BY <2>1, <2>2
  <1>3. ASSUME NEW w \in Workers, Remove(w)
        PROVE  UNCHANGED Queues!vars
    <2>1. UNCHANGED started
      BY <1>3 DEF Remove
    <2>2. mine[w] # None => queue[w] # <<>>
      BY DEF HandInv, FrontInHand
    <2>3. queue' = IF mine[w] = None THEN queue ELSE [queue EXCEPT ![w] = Tail(@)]
      BY <1>3, <2>2 DEF Remove
    <2>4. mine' = [mine EXCEPT ![w] = None]
      BY <1>3 DEF Remove
    <2>5. queue \in [Workers -> Seq(Accepted)] /\ mine \in [Workers -> Accepted \cup {None}]
      BY DEF TypeOK
    <2>6. waiting' = waiting
      BY <2>3, <2>4, <2>5
    <2> QED
      BY <2>1, <2>6 DEF Queues!vars
  <1>4. ASSUME NEW p \in Pushers,
               Scan(p) \/ Refuse(p) \/ Notify(p) \/ \E t \in Tasks : Push(p, t)
        PROVE  UNCHANGED Queues!vars
    BY <1>4, QueuesSame DEF Scan, Refuse, Notify, Push
  <1>5. ASSUME NEW p \in Pushers, Enqueue(p)
        PROVE  Queues!Next
    <2>0. best[p] \in Workers /\ arg[p] \in Accepted
      BY <1>5 DEF Enqueue, TypeOK, AtHand
    <2>1. PICK b \in Workers, x \in Accepted : b = best[p] /\ x = arg[p]
      BY <2>0
    <2>2. /\ queue' = [queue EXCEPT ![b] = Append(@, x)] /\ UNCHANGED <<mine, started>>
      BY <1>5, <2>1 DEF Enqueue
    <2>3. queue \in [Workers -> Seq(Accepted)]
      BY DEF TypeOK
    <2>4. mine[b] # None => queue[b] # <<>>
      BY <2>1 DEF HandInv, FrontInHand
    <2>5. queue[b] # <<>> => Tail(Append(queue[b], x)) = Append(Tail(queue[b]), x)
      BY <2>1, <2>3, TailAppend
    <2>6. waiting' = [waiting EXCEPT ![b] = Append(@, x)]
      BY <2>1, <2>2, <2>3, <2>4, <2>5
    <2>7. Queues!Put(b, x)
      BY <2>2, <2>6 DEF Queues!Put
    <2> QED
      BY <2>1, <2>7 DEF Queues!Next
  <1>6. CASE ClearWorker
    BY <1>6 DEF ClearWorker, IsFirst, HandInv
  <1>7. CASE UNCHANGED vars
    BY <1>7, QueuesSame DEF vars
  <1> QED
    BY <1>1, <1>2, <1>3, <1>4, <1>5, <1>6, <1>7
       DEF Next, Step, Runner, Pushing, Queues!Next

\* Where nobody calls clear(), the queues of the workers, each with a front that stays in
\* it while it runs (threadpool.cpp:51-66), implement queues from which it is taken at once.
THEOREM QueuesImplemented == ClearMasks = {} => (Spec => ImplementsQueues)
  <1> SUFFICES ASSUME ClearMasks = {} PROVE Spec => ImplementsQueues
    OBVIOUS
  <1>1. TypeOK /\ AtHand /\ HandInv /\ [Next]_vars => HandInv'
    BY HandNext
  <1>2. Spec => [](TypeOK /\ AtHand /\ HandInv)
    BY <1>1, TypeInit, TypeNext, HandInit, PTL DEF Spec
  <1>3. Init => Queues!Init
    BY DEF Init, Queues!Init
  <1>4. TypeOK /\ AtHand /\ HandInv /\ [Next]_vars => [Queues!Next]_(Queues!vars)
    BY QueuesStep
  <1> QED
    BY <1>2, <1>3, <1>4, PTL DEF Spec, ImplementsQueues, Queues!Spec

\* Where nobody calls clear(), pop() is never called on an empty queue
\* (threadpool.cpp:64).
THEOREM NoEmptyPop == ClearMasks = {} => (Spec => []~broken)
  <1> SUFFICES ASSUME ClearMasks = {} PROVE Spec => []~broken
    OBVIOUS
  <1>1. TypeOK /\ AtHand /\ HandInv /\ [Next]_vars => HandInv'
    BY HandNext
  <1>2. Spec => [](TypeOK /\ AtHand /\ HandInv)
    BY <1>1, TypeInit, TypeNext, HandInit, PTL DEF Spec
  <1>3. HandInv => ~broken
    BY DEF HandInv
  <1> QED
    BY <1>2, <1>3, PTL

----------------------------------------------------------------------------
(* The order of a worker's tasks *)

\* Of one worker, with q its queue, a what reached the queue, s what it started and m the
\* task in hand: the queue is the end of a, and what was started comes before that end, the
\* task in hand excepted, which may still be its first.
Ordered(q, a, s, m) ==
  /\ Len(q) <= Len(a)
  /\ \A k \in 1..Len(q) : q[k] = a[Len(a) - Len(q) + k]
  /\ \A i \in 1..Len(s) : \E x \in 1..Len(a) :
       a[x] = s[i] /\ x <= Len(a) - Len(q) + (IF m = None THEN 0 ELSE 1)
  /\ \A i, j \in 1..Len(s) :
       i < j => \E x, y \in 1..Len(a) : x < y /\ a[x] = s[i] /\ a[y] = s[j]

\* A runner has a task in hand only while it runs or removes it.
HandOnlyInRun == \A w \in Workers : pc[w] \notin {"run", "remove"} => mine[w] = None

OrderInv ==
  HandOnlyInRun /\ \A w \in Workers : Ordered(queue[w], arrived[w], started[w], mine[w])

\* Taking up the front of the queue with nothing in hand.
LEMMA OrderedGrab ==
  ASSUME NEW q \in Seq(Accepted), NEW a \in Seq(Accepted), NEW s \in Seq(Accepted),
         Ordered(q, a, s, None), q # <<>>
  PROVE  Ordered(q, a, Append(s, Head(q)), Head(q))
  <1> DEFINE t == Append(s, Head(q))
             b == Len(a) - Len(q)
  <1>1. Head(q) \in Accepted /\ Head(q) # None /\ Head(q) = q[1]
    BY NoneApart DEF Accepted
  <1>2. /\ Len(t) = Len(s) + 1 /\ t[Len(s) + 1] = q[1] /\ t \in Seq(Accepted)
        /\ \A i \in 1..Len(s) : t[i] = s[i]
    BY <1>1
  <1>3. Len(q) >= 1 /\ Len(q) \in Nat /\ Len(a) \in Nat /\ Len(s) \in Nat
    OBVIOUS
  <1>4. b + 1 \in 1..Len(a) /\ a[b + 1] = q[1]
    BY <1>3 DEF Ordered
  <1>5. \A i \in 1..Len(s) : \E x \in 1..Len(a) : a[x] = s[i] /\ x <= b
    BY <1>3 DEF Ordered
  <1> HIDE DEF t, b
  <1>6. \A i \in 1..Len(t) : \E x \in 1..Len(a) : a[x] = t[i] /\ x <= b + 1
    <2> TAKE i \in 1..Len(t)
    <2>1. CASE i = Len(s) + 1
      BY <1>2, <1>4, <2>1
    <2>2. CASE i \in 1..Len(s)
      <3>1. PICK x \in 1..Len(a) : a[x] = s[i] /\ x <= b
        BY <1>5, <2>2
      <3>2. b \in Nat
        BY <1>3 DEF b, Ordered
      <3> QED
        BY <1>2, <2>2, <3>1, <3>2
    <2> QED
      BY <1>2, <1>3, <2>1, <2>2
  <1>7. ASSUME NEW i \in 1..Len(t), NEW j \in 1..Len(t), i < j
        PROVE  \E x, y \in 1..Len(a) : x < y /\ a[x] = t[i] /\ a[y] = t[j]
    <2>1. i \in 1..Len(s)
      BY <1>2, <1>3, <1>7
    <2>2. CASE j = Len(s) + 1
      <3>1. PICK x \in 1..Len(a) : a[x] = s[i] /\ x <= b
        BY <1>5, <2>1
      <3>2. x < b + 1
        BY <1>3, <3>1 DEF b
      <3> QED
        BY <1>2, <1>4, <2>1, <2>2, <3>1, <3>2
    <2>3. CASE j \in 1..Len(s)
      <3>1. PICK x, y \in 1..Len(a) : x < y /\ a[x] = s[i] /\ a[y] = s[j]
        BY <1>7, <2>1, <2>3 DEF Ordered
      <3>2. t[i] = s[i] /\ t[j] = s[j]
        BY <1>2, <2>1, <2>3
      <3> QED
        BY <3>1, <3>2
    <2> QED
      BY <1>2, <1>3, <2>2, <2>3
  <1>8. Ordered(q, a, t, Head(q))
    BY <1>1, <1>6, <1>7 DEF Ordered, b
  <1> QED
    BY <1>8 DEF t

\* Removing the front of the queue, whatever it is, with a task in hand.
LEMMA OrderedRemove ==
  ASSUME NEW q \in Seq(Accepted), NEW a \in Seq(Accepted), NEW s \in Seq(Accepted), NEW m,
         Ordered(q, a, s, m), q # <<>>, m # None
  PROVE  Ordered(Tail(q), a, s, None)
  <1>1. /\ Len(q) \in Nat /\ Len(q) >= 1 /\ Len(a) \in Nat /\ Len(Tail(q)) = Len(q) - 1
        /\ \A k \in 1..Len(Tail(q)) : Tail(q)[k] = q[k + 1]
    OBVIOUS
  <1>2. \A k \in 1..Len(Tail(q)) : Tail(q)[k] = a[Len(a) - Len(Tail(q)) + k]
    <2> TAKE k \in 1..Len(Tail(q))
    <2>1. k + 1 \in 1..Len(q) /\ Len(a) - Len(q) + (k + 1) = Len(a) - Len(Tail(q)) + k
      BY <1>1
    <2> QED
      BY <1>1, <2>1 DEF Ordered
  <1>3. \A i \in 1..Len(s) : \E x \in 1..Len(a) : a[x] = s[i] /\ x <= Len(a) - Len(Tail(q)) + 0
    BY <1>1 DEF Ordered
  <1>4. Len(Tail(q)) <= Len(a)
    BY <1>1 DEF Ordered
  <1> QED
    BY <1>2, <1>3, <1>4 DEF Ordered

\* Emptying the queue, whether a task is in hand afterwards or not.
LEMMA OrderedEmpty ==
  ASSUME NEW q \in Seq(Accepted), NEW a \in Seq(Accepted), NEW s \in Seq(Accepted), NEW m,
         NEW n, Ordered(q, a, s, m)
  PROVE  Ordered(<<>>, a, s, n)
  <1>1. Len(<<>>) = 0 /\ Len(a) \in Nat
    OBVIOUS
  <1>2. \A i \in 1..Len(s) : \E x \in 1..Len(a) : a[x] = s[i]
    BY DEF Ordered
  <1>3. \A i \in 1..Len(s) : \E x \in 1..Len(a) :
          a[x] = s[i] /\ x <= Len(a) - Len(<<>>) + (IF n = None THEN 0 ELSE 1)
    BY <1>1, <1>2
  <1> QED
    BY <1>1, <1>3 DEF Ordered

\* A task is pushed.
LEMMA OrderedPush ==
  ASSUME NEW q \in Seq(Accepted), NEW a \in Seq(Accepted), NEW s \in Seq(Accepted), NEW m,
         NEW t \in Accepted, Ordered(q, a, s, m)
  PROVE  Ordered(Append(q, t), Append(a, t), s, m)
  <1> DEFINE r == Append(q, t)
             c == Append(a, t)
  <1>1. /\ Len(q) \in Nat /\ Len(a) \in Nat /\ Len(r) = Len(q) + 1 /\ Len(c) = Len(a) + 1
        /\ \A k \in 1..Len(q) : r[k] = q[k]
        /\ \A k \in 1..Len(a) : c[k] = a[k]
        /\ r[Len(q) + 1] = t /\ c[Len(a) + 1] = t
    OBVIOUS
  <1> HIDE DEF r, c
  <1>2. Len(c) - Len(r) = Len(a) - Len(q) /\ 1..Len(a) \subseteq 1..Len(c) /\ Len(r) <= Len(c)
    BY <1>1 DEF Ordered
  <1>3. \A k \in 1..Len(r) : r[k] = c[Len(c) - Len(r) + k]
    <2> TAKE k \in 1..Len(r)
    <2>1. CASE k = Len(r)
      BY <1>1, <2>1
    <2>2. CASE k \in 1..Len(q)
      <3>1. Len(a) - Len(q) + k \in 1..Len(a) /\ q[k] = a[Len(a) - Len(q) + k]
        BY <1>1, <2>2 DEF Ordered
      <3> QED
        BY <1>1, <1>2, <2>2, <3>1
    <2> QED
      BY <1>1, <2>1, <2>2
  <1>4. \A i \in 1..Len(s) : \E x \in 1..Len(c) :
          c[x] = s[i] /\ x <= Len(c) - Len(r) + (IF m = None THEN 0 ELSE 1)
    <2> TAKE i \in 1..Len(s)
    <2>1. PICK x \in 1..Len(a) :
            a[x] = s[i] /\ x <= Len(a) - Len(q) + (IF m = None THEN 0 ELSE 1)
      BY DEF Ordered
    <2> QED
      BY <1>1, <1>2, <2>1
  <1>5. ASSUME NEW i \in 1..Len(s), NEW j \in 1..Len(s), i < j
        PROVE  \E x, y \in 1..Len(c) : x < y /\ c[x] = s[i] /\ c[y] = s[j]
    <2>1. PICK x, y \in 1..Len(a) : x < y /\ a[x] = s[i] /\ a[y] = s[j]
      BY <1>5 DEF Ordered
    <2> QED
      BY <1>1, <1>2, <2>1
  <1>6. Ordered(r, c, s, m)
    BY <1>2, <1>3, <1>4, <1>5 DEF Ordered
  <1> QED
    BY <1>6 DEF r, c

\* Nothing the order depends on.
orderVars == <<queue, arrived, started, mine>>

LEMMA OrderFrame ==
  ASSUME OrderInv, UNCHANGED orderVars,
         \A w \in Workers : pc[w] \in {"run", "remove"} => pc'[w] \in {"run", "remove"}
                            \/ mine[w] = None
  PROVE  OrderInv'
  <1>1. queue' = queue /\ arrived' = arrived /\ started' = started /\ mine' = mine
    BY DEF orderVars
  <1>2. HandOnlyInRun'
    BY <1>1 DEF OrderInv, HandOnlyInRun
  <1> QED
    BY <1>1, <1>2 DEF OrderInv

LEMMA OrderInit == Init => OrderInv
  <1> SUFFICES ASSUME Init, NEW w \in Workers
               PROVE  mine[w] = None /\ Ordered(queue[w], arrived[w], started[w], mine[w])
    BY DEF OrderInv, HandOnlyInRun
  <1>1. queue[w] = <<>> /\ arrived[w] = <<>> /\ started[w] = <<>> /\ mine[w] = None
    BY DEF Init
  <1> QED
    BY <1>1 DEF Ordered

LEMMA OrderNext == TypeOK /\ AtHand /\ OrderInv /\ [Next]_vars => OrderInv'
  <1> SUFFICES ASSUME TypeOK, AtHand, OrderInv, [Next]_vars PROVE OrderInv'
    OBVIOUS
  <1>0. \A w \in Workers : /\ queue[w] \in Seq(Accepted) /\ arrived[w] \in Seq(Accepted)
                           /\ started[w] \in Seq(Accepted)
                           /\ Ordered(queue[w], arrived[w], started[w], mine[w])
    BY DEF TypeOK, OrderInv
  <1> USE DEF callVars, workVars, histVars, RunnerFrame, PushFrame, StopFrame, Wake
  <1>1. ASSUME NEW w \in Workers, Top(w) \/ Run(w) \/ SpuriousWakeup(w) \/ Block(w) \/ Recheck(w)
        PROVE  OrderInv'
    <2>1. UNCHANGED orderVars
      BY <1>1 DEF Top, Run, SpuriousWakeup, Block, Recheck, orderVars
    <2>2. \A v \in Workers : pc'[v] = pc[v] \/ pc[v] \notin {"run", "remove"} \/ pc'[v] = "remove"
      BY <1>1 DEF Top, Run, SpuriousWakeup, Block, Recheck, TypeOK
    <2> QED
      BY <2>1, <2>2, OrderFrame DEF OrderInv, HandOnlyInRun
  <1>2. ASSUME NEW w \in Workers, Grab(w) PROVE OrderInv'
    <2>1. CASE queue[w] = <<>>
      <3>1. UNCHANGED orderVars
        BY <1>2, <2>1 DEF Grab, orderVars
      <3>2. \A v \in Workers : pc'[v] = pc[v] \/ pc[v] \notin {"run", "remove"}
        BY <1>2, <2>1 DEF Grab, TypeOK
      <3> QED
        BY <3>1, <3>2, OrderFrame DEF OrderInv, HandOnlyInRun
    <2>2. CASE queue[w] # <<>>
      <3>1. mine[w] = None
        BY <1>2 DEF Grab, OrderInv, HandOnlyInRun
      <3>2. Ordered(queue[w], arrived[w], Append(started[w], Head(queue[w])), Head(queue[w]))
        BY <1>0, <2>2, <3>1, OrderedGrab
      <3>3. /\ queue' = queue /\ arrived' = arrived /\ pc'[w] = "run"
            /\ mine' = [mine EXCEPT ![w] = Head(queue[w])]
            /\ started' = [started EXCEPT ![w] = Append(started[w], Head(queue[w]))]
            /\ \A v \in Workers : v # w => pc'[v] = pc[v]
        BY <1>2, <2>2 DEF Grab, TypeOK
      <3>4. /\ mine'[w] = Head(queue[w]) /\ started'[w] = Append(started[w], Head(queue[w]))
            /\ \A v \in Workers : v # w => mine'[v] = mine[v] /\ started'[v] = started[v]
        BY <3>3 DEF TypeOK
      <3>5. \A v \in Workers : Ordered(queue'[v], arrived'[v], started'[v], mine'[v])
        BY <1>0, <3>2, <3>3, <3>4
      <3>6. HandOnlyInRun'
        BY <3>3, <3>4 DEF OrderInv, HandOnlyInRun
      <3> QED
        BY <3>5, <3>6 DEF OrderInv
    <2> QED
      BY <2>1, <2>2
  <1>3. ASSUME NEW w \in Workers, Remove(w) PROVE OrderInv'
    <2>1. /\ arrived' = arrived /\ started' = started /\ mine'[w] = None
          /\ \A v \in Workers : v # w => /\ mine'[v] = mine[v] /\ pc'[v] = pc[v]
                                         /\ queue'[v] = queue[v]
      BY <1>3 DEF Remove, TypeOK
    <2>2. Ordered(queue'[w], arrived[w], started[w], None)
      <3>1. CASE mine[w] = None
        BY <1>0, <1>3, <3>1 DEF Remove
      <3>2. CASE mine[w] # None /\ queue[w] = <<>>
        <4>1. queue'[w] = <<>>
          BY <1>3, <3>2 DEF Remove
        <4> QED
          BY <1>0, <4>1, OrderedEmpty
      <3>3. CASE mine[w] # None /\ queue[w] # <<>>
        <4>1. queue'[w] = Tail(queue[w])
          BY <1>3, <3>3 DEF Remove, TypeOK
        <4> QED
          BY <1>0, <3>3, <4>1, OrderedRemove
      <3> QED
        BY <3>1, <3>2, <3>3
    <2>3. \A v \in Workers : Ordered(queue'[v], arrived'[v], started'[v], mine'[v])
      BY <1>0, <2>1, <2>2
    <2>4. HandOnlyInRun'
      BY <2>1 DEF OrderInv, HandOnlyInRun
    <2> QED
      BY <2>3, <2>4 DEF OrderInv
  <1>4. ASSUME NEW w \in Workers, StopWorker(w) \/ Destroying(w) PROVE OrderInv'
    <2>1. UNCHANGED orderVars
      BY <1>4 DEF StopWorker, Destroying, NotifyWorker, JoinWorker, orderVars
    <2>2. \A v \in Workers : pc'[v] = pc[v] \/ pc[v] = "blocked"
      BY <1>4 DEF StopWorker, Destroying, NotifyWorker, JoinWorker, TypeOK
    <2> QED
      BY <2>1, <2>2, OrderFrame
  <1>5. ASSUME NEW p \in Pushers,
               Scan(p) \/ Refuse(p) \/ Notify(p) \/ \E t \in Tasks : Push(p, t)
        PROVE  OrderInv'
    <2>1. UNCHANGED orderVars
      BY <1>5 DEF Scan, Refuse, Notify, Push, orderVars
    <2>2. \A v \in Workers : pc'[v] = pc[v] \/ pc[v] = "blocked"
      BY <1>5 DEF Scan, Refuse, Notify, Push, TypeOK
    <2> QED
      BY <2>1, <2>2, OrderFrame
  <1>6. ASSUME NEW p \in Pushers, Enqueue(p) PROVE OrderInv'
    <2>1. best[p] \in Workers /\ arg[p] \in Accepted
      BY <1>6 DEF Enqueue, TypeOK, AtHand
    <2>2. /\ UNCHANGED <<started, mine, pc>>
          /\ queue'[best[p]] = Append(queue[best[p]], arg[p])
          /\ arrived'[best[p]] = Append(arrived[best[p]], arg[p])
          /\ \A v \in Workers : v # best[p] => queue'[v] = queue[v] /\ arrived'[v] = arrived[v]
      BY <1>6, <2>1 DEF Enqueue, TypeOK
    <2>3. Ordered(queue'[best[p]], arrived'[best[p]], started[best[p]], mine[best[p]])
      BY <1>0, <2>1, <2>2, OrderedPush
    <2>4. \A v \in Workers : Ordered(queue'[v], arrived'[v], started'[v], mine'[v])
      BY <1>0, <2>1, <2>2, <2>3
    <2> QED
      BY <2>2, <2>4 DEF OrderInv, HandOnlyInRun
  <1>7. ASSUME NEW mask \in ClearMasks, Clear(mask) PROVE OrderInv'
    BY <1>7, OrderFrame DEF Clear, orderVars
  <1>8. CASE ClearWorker
    <2>1. PICK w \in Workers : queue' = [queue EXCEPT ![w] = <<>>]
      BY <1>8 DEF ClearWorker
    <2>2. UNCHANGED <<arrived, started, mine, pc>>
      BY <1>8 DEF ClearWorker
    <2>3. Ordered(<<>>, arrived[w], started[w], mine[w])
      BY <1>0, OrderedEmpty
    <2>4. \A v \in Workers : queue'[v] = queue[v] \/ (v = w /\ queue'[v] = <<>>)
      BY <2>1 DEF TypeOK
    <2>5. \A v \in Workers : Ordered(queue'[v], arrived'[v], started'[v], mine'[v])
      BY <1>0, <2>2, <2>3, <2>4
    <2> QED
      BY <2>2, <2>5 DEF OrderInv, HandOnlyInRun
  <1>9. CASE UNCHANGED vars
    BY <1>9, OrderFrame DEF vars, orderVars
  <1> QED
    BY <1>1, <1>2, <1>3, <1>4, <1>5, <1>6, <1>7, <1>8, <1>9 DEF Next, Step, Runner, Pushing

\* A worker starts its tasks in the order they reached its queue, although clear() can come
\* between the two sections that take the front and remove it (threadpool.cpp:51-66, 74-79).
THEOREM StartsInOrder == Spec => []InPushOrder
  <1>1. Spec => [](TypeOK /\ AtHand /\ OrderInv)
    BY TypeInit, TypeNext, OrderInit, OrderNext, PTL DEF Spec
  <1>2. OrderInv => InPushOrder
    BY DEF OrderInv, Ordered, InPushOrder
  <1> QED
    BY <1>1, <1>2, PTL

----------------------------------------------------------------------------
(* No task is started twice *)

\* A task is started at most once, by one worker (threadpool.cpp:51-59).
StartedOnce ==
  \A v, w \in Workers : \A i \in 1..Len(started[v]), j \in 1..Len(started[w]) :
    started[v][i] = started[w][j] => v = w /\ i = j

\* A task reaches one queue, once.
ArrivedOnce ==
  \A v, w \in Workers : \A i \in 1..Len(arrived[v]), j \in 1..Len(arrived[w]) :
    arrived[v][i] = arrived[w][j] => v = w /\ i = j

\* The task of a push that is looking for a worker has reached none, and is its own.
ArgIsNew ==
  /\ \A w \in Workers : \A i \in 1..Len(arrived[w]) : arrived[w][i] \in calls
  /\ \A p \in Pushers : call[p] = "scan" =>
       /\ arg[p] \in calls
       /\ \A q \in Pushers : call[q] = "scan" /\ arg[q] = arg[p] => q = p
       /\ \A w \in Workers : \A i \in 1..Len(arrived[w]) : arrived[w][i] # arg[p]

OnceInv == ArrivedOnce /\ ArgIsNew

\* Steps of the workers, of clear() and of the destructor push nothing.
LEMMA OnceFrame == OnceInv /\ UNCHANGED <<arrived, calls, call, arg>> => OnceInv'
  BY DEF OnceInv, ArrivedOnce, ArgIsNew

LEMMA OnceInit == Init => OnceInv
  <1> SUFFICES ASSUME Init PROVE OnceInv
    OBVIOUS
  <1>1. \A w \in Workers : Len(arrived[w]) = 0
    BY DEF Init
  <1>2. \A p \in Pushers : call[p] = "idle"
    BY DEF Init
  <1> QED
    BY <1>1, <1>2 DEF OnceInv, ArrivedOnce, ArgIsNew

LEMMA OnceNext == TypeOK /\ AtHand /\ OnceInv /\ [Next]_vars => OnceInv'
  <1> SUFFICES ASSUME TypeOK, AtHand, OnceInv, [Next]_vars PROVE OnceInv'
    OBVIOUS
  <1> USE DEF callVars, workVars, histVars, RunnerFrame, PushFrame, StopFrame
  <1>1. ASSUME NEW w \in Workers,
               Runner(w) \/ SpuriousWakeup(w) \/ StopWorker(w) \/ Destroying(w)
        PROVE  OnceInv'
    BY <1>1, OnceFrame DEF Runner, Top, Grab, Run, Remove, Block, Recheck, SpuriousWakeup,
                           StopWorker, Destroying, NotifyWorker, JoinWorker
  <1>2. ASSUME NEW p \in Pushers, NEW t \in Tasks, Push(p, t) PROVE OnceInv'
    <2>1. t \notin calls /\ calls' = calls \cup {t} /\ arrived' = arrived /\ call[p] = "idle"
      BY <1>2 DEF Push
    <2>2. CASE UNCHANGED callVars
      BY <2>1, <2>2 DEF OnceInv, ArrivedOnce, ArgIsNew
    <2>3. CASE arg' = [arg EXCEPT ![p] = t] /\ call' = [call EXCEPT ![p] = "scan"]
      <3>1. arg'[p] = t /\ \A q \in Pushers : q # p => arg'[q] = arg[q] /\ call'[q] = call[q]
        BY <2>3 DEF TypeOK
      <3> QED
        BY <2>1, <3>1 DEF OnceInv, ArrivedOnce, ArgIsNew
    <2> QED
      BY <1>2, <2>2, <2>3 DEF Push
  <1>3. ASSUME NEW p \in Pushers, Scan(p) PROVE OnceInv'
    BY <1>3, OnceFrame DEF Scan
  <1>4. ASSUME NEW p \in Pushers, Refuse(p) \/ Notify(p) PROVE OnceInv'
    <2>1. UNCHANGED <<arrived, calls>> /\ call'[p] = "idle"
          /\ \A q \in Pushers : q # p => arg'[q] = arg[q] /\ call'[q] = call[q]
      BY <1>4 DEF Refuse, Notify, TypeOK
    <2> QED
      BY <2>1 DEF OnceInv, ArrivedOnce, ArgIsNew
  <1>5. ASSUME NEW p \in Pushers, Enqueue(p) PROVE OnceInv'
    <2> DEFINE b == best[p]
               n == Len(arrived[b]) + 1
    <2>1. b \in Workers /\ arg[p] \in Accepted /\ call[p] = "scan"
      BY <1>5 DEF Enqueue, TypeOK, AtHand
    <2>2. /\ UNCHANGED <<calls, arg>> /\ call'[p] = "notify"
          /\ \A q \in Pushers : q # p => call'[q] = call[q]
          /\ arrived'[b] = Append(arrived[b], arg[p])
          /\ \A v \in Workers : v # b => arrived'[v] = arrived[v]
      BY <1>5, <2>1 DEF Enqueue, TypeOK
    <2>3. arrived[b] \in Seq(Accepted)
      BY <2>1 DEF TypeOK
    <2>4. /\ Len(arrived[b]) \in Nat /\ Len(arrived'[b]) = n /\ arrived'[b][n] = arg[p]
          /\ \A i \in 1..Len(arrived[b]) : arrived'[b][i] = arrived[b][i]
          /\ \A i \in 1..n : i = n \/ i \in 1..Len(arrived[b])
      BY <2>1, <2>2, <2>3
    <2> HIDE DEF b, n
    <2>5. \A v \in Workers : \A i \in 1..Len(arrived'[v]) :
            \/ v = b /\ i = n /\ arrived'[v][i] = arg[p]
            \/ i \in 1..Len(arrived[v]) /\ arrived'[v][i] = arrived[v][i]
      BY <2>2, <2>4
    <2>6. \A v \in Workers : \A i \in 1..Len(arrived[v]) : arrived[v][i] # arg[p]
      BY <2>1 DEF OnceInv, ArgIsNew
    <2>7. ArrivedOnce'
      <3> SUFFICES ASSUME NEW v \in Workers, NEW w \in Workers,
                          NEW i \in 1..Len(arrived'[v]), NEW j \in 1..Len(arrived'[w]),
                          arrived'[v][i] = arrived'[w][j]
                   PROVE  v = w /\ i = j
        BY DEF ArrivedOnce
      <3> QED
        BY <2>5, <2>6 DEF OnceInv, ArrivedOnce
    <2>8. ArgIsNew'
      <3>1. \A v \in Workers : \A i \in 1..Len(arrived'[v]) : arrived'[v][i] \in calls'
        BY <2>1, <2>2, <2>5 DEF OnceInv, ArgIsNew
      <3>2. ASSUME NEW q \in Pushers, call'[q] = "scan"
            PROVE  /\ arg'[q] \in calls'
                   /\ \A r \in Pushers : call'[r] = "scan" /\ arg'[r] = arg'[q] => r = q
                   /\ \A v \in Workers : \A i \in 1..Len(arrived'[v]) : arrived'[v][i] # arg'[q]
        <4>1. q # p /\ call[q] = "scan" /\ arg'[q] = arg[q] /\ arg[q] # arg[p]
          BY <2>1, <2>2, <3>2 DEF OnceInv, ArgIsNew
        <4>2. \A v \in Workers : \A i \in 1..Len(arrived'[v]) : arrived'[v][i] # arg'[q]
          BY <2>5, <4>1 DEF OnceInv, ArgIsNew
        <4>3. \A r \in Pushers : call'[r] = "scan" /\ arg'[r] = arg'[q] => r = q
          BY <2>2, <4>1 DEF OnceInv, ArgIsNew
        <4> QED
          BY <2>2, <4>1, <4>2, <4>3 DEF OnceInv, ArgIsNew
      <3> QED
        BY <3>1, <3>2 DEF ArgIsNew
    <2> QED
      BY <2>7, <2>8 DEF OnceInv
  <1>6. CASE ClearWorker \/ \E mask \in ClearMasks : Clear(mask)
    BY <1>6, OnceFrame DEF ClearWorker, Clear
  <1>7. CASE UNCHANGED vars
    BY <1>7, OnceFrame DEF vars
  <1> QED
    BY <1>1, <1>2, <1>3, <1>4, <1>5, <1>6, <1>7 DEF Next, Step, Pushing

\* A task is started at most once, whatever clear() does between the two sections in which
\* a runner takes the front of the queue and removes it (threadpool.cpp:51-66, 74-79).
THEOREM NeverStartedTwice == Spec => []StartedOnce
  <1>1. Spec => [](TypeOK /\ AtHand /\ OrderInv /\ OnceInv)
    BY TypeInit, TypeNext, OrderInit, OrderNext, OnceInit, OnceNext, PTL DEF Spec
  <1>2. TypeOK /\ OrderInv /\ OnceInv => StartedOnce
    <2> SUFFICES ASSUME TypeOK, OrderInv, OnceInv, NEW v \in Workers, NEW w \in Workers,
                        NEW i \in 1..Len(started[v]), NEW j \in 1..Len(started[w]),
                        started[v][i] = started[w][j]
                 PROVE  v = w /\ i = j
      BY DEF StartedOnce
    <2>1. PICK x \in 1..Len(arrived[v]) : arrived[v][x] = started[v][i]
      BY DEF OrderInv, Ordered
    <2>2. PICK y \in 1..Len(arrived[w]) : arrived[w][y] = started[w][j]
      BY DEF OrderInv, Ordered
    <2>3. v = w
      BY <2>1, <2>2 DEF OnceInv, ArrivedOnce
    <2>4. ASSUME NEW k \in 1..Len(started[v]), NEW l \in 1..Len(started[v]), k < l,
                 started[v][k] = started[v][l]
          PROVE  FALSE
      <3>1. PICK a, b \in 1..Len(arrived[v]) :
              a < b /\ arrived[v][a] = started[v][k] /\ arrived[v][b] = started[v][l]
        BY <2>4 DEF OrderInv, Ordered
      <3> QED
        BY <2>4, <3>1 DEF OnceInv, ArrivedOnce
    <2>5. started[v] \in Seq(Accepted)
      BY DEF TypeOK
    <2>6. i < j \/ j < i \/ i = j
      BY <2>3, <2>5
    <2> QED
      BY <2>3, <2>4, <2>6
  <1> QED
    BY <1>1, <1>2, PTL

----------------------------------------------------------------------------
(* The affinity mask *)

\* push() has found a worker that fits or has one still to look at, unless there are none.
FitInv ==
  \A p \in Pushers :
    call[p] = "scan" => size = 0 \/ best[p] # None \/ left[p] \cap Mask[arg[p]] # {}

\* A number below m has no bit of value m.
LEMMA BitAbove ==
  ASSUME NEW n \in Nat, NEW m \in Nat \ {0}, (n \div m) % 2 = 1
  PROVE  m <= n
  <1> SUFFICES ASSUME n < m PROVE FALSE
    OBVIOUS
  <1>1. n \div m = 0
    OBVIOUS
  <1> QED
    BY <1>1

\* A bit that push() tests is the index of a worker.
LEMMA TestedIsPresent ==
  ASSUME size \in 0..N, size # 0
  PROVE  TestedBits \subseteq Present
  <1>1. size \in Nat /\ size <= N /\ N <= 31 /\ size - 1 \in Nat
    BY PoolAssumption
  <1>2. ASSUME NEW b \in 0..4, ((size - 1) \div (2 ^ b)) % 2 = 1 PROVE b < size
    <2>1. CASE b = 0
      BY <1>1, <2>1
    <2>2. CASE b = 1
      <3>1. ((size - 1) \div 2) % 2 = 1
        BY <1>2, <2>2
      <3> QED
        BY <1>1, <2>2, <3>1, BitAbove
    <2>3. CASE b = 2
      <3>1. ((size - 1) \div 4) % 2 = 1
        BY <1>2, <2>3
      <3> QED
        BY <1>1, <2>3, <3>1, BitAbove
    <2>4. CASE b = 3
      <3>1. ((size - 1) \div 8) % 2 = 1
        BY <1>2, <2>4
      <3> QED
        BY <1>1, <2>4, <3>1, BitAbove
    <2>5. CASE b = 4
      <3>1. ((size - 1) \div 16) % 2 = 1
        BY <1>2, <2>5
      <3> QED
        BY <1>1, <2>5, <3>1, BitAbove
    <2> QED
      BY <2>1, <2>2, <2>3, <2>4, <2>5
  <1>3. \A b \in 0..4 : b < size => b \in Workers
    BY <1>1, PoolAssumption DEF Workers
  <1> QED
    BY <1>2, <1>3 DEF TestedBits, Present

LEMMA FitNext == TypeOK /\ AtHand /\ FitInv /\ NeverRefused /\ [Next]_vars
                   => FitInv' /\ NeverRefused'
  <1> SUFFICES ASSUME TypeOK, AtHand, FitInv, NeverRefused, [Next]_vars
               PROVE  FitInv' /\ NeverRefused'
    OBVIOUS
  <1> USE DEF callVars, workVars, histVars, RunnerFrame, PushFrame, StopFrame
  <1>0. CASE UNCHANGED <<size, call, best, left, arg, refused>>
    BY <1>0 DEF FitInv, NeverRefused
  <1>1. ASSUME NEW w \in Workers,
               Runner(w) \/ SpuriousWakeup(w) \/ StopWorker(w) \/ Destroying(w)
        PROVE  FitInv' /\ NeverRefused'
    BY <1>0, <1>1 DEF Runner, Top, Grab, Run, Remove, Block, Recheck, SpuriousWakeup,
                      StopWorker, Destroying, NotifyWorker, JoinWorker
  <1>2. ASSUME NEW p \in Pushers, NEW t \in Tasks, Push(p, t)
        PROVE  FitInv' /\ NeverRefused'
    <2>1. CASE UNCHANGED callVars
      BY <1>0, <1>2, <2>1 DEF Push
    <2>2. CASE ~UNCHANGED callVars
      <3>1. /\ Mask[t] \cap TestedBits # {} /\ UNCHANGED <<size, best, refused>>
            /\ call' = [call EXCEPT ![p] = "scan"] /\ arg' = [arg EXCEPT ![p] = t]
            /\ left' = [left EXCEPT ![p] = Present]
        BY <1>2, <2>2 DEF Push
      <3>2. size = 0 \/ Present \cap Mask[t] # {}
        BY <3>1, TestedIsPresent DEF TypeOK
      <3>3. /\ arg'[p] = t /\ left'[p] = Present
            /\ \A q \in Pushers :
                 q # p => arg'[q] = arg[q] /\ left'[q] = left[q] /\ call'[q] = call[q]
        BY <3>1 DEF TypeOK
      <3> QED
        BY <3>1, <3>2, <3>3 DEF FitInv, NeverRefused
    <2> QED
      BY <2>1, <2>2
  <1>3. ASSUME NEW p \in Pushers, Scan(p) PROVE FitInv' /\ NeverRefused'
    <2>1. PICK w \in Workers :
            /\ left' = [left EXCEPT ![p] = @ \ {w}]
            /\ IF w \in Mask[arg[p]] /\ (best[p] = None \/ Len(queue[w]) < low[p])
               THEN best' = [best EXCEPT ![p] = w]
               ELSE best' = best
      BY <1>3 DEF Scan
    <2>2. /\ UNCHANGED <<size, call, arg, refused>> /\ left'[p] = left[p] \ {w}
          /\ \A q \in Pushers : q # p => best'[q] = best[q] /\ left'[q] = left[q]
      BY <1>3, <2>1 DEF Scan, TypeOK
    <2>3. w # None
      BY NoneApart
    <2>4. best[p] # None => best'[p] # None
      BY <2>1, <2>3 DEF TypeOK
    <2>5. w \in Mask[arg[p]] => best'[p] # None
      BY <2>1, <2>3, <2>4 DEF TypeOK
    <2> QED
      BY <2>2, <2>4, <2>5 DEF FitInv, NeverRefused
  <1>4. ASSUME NEW p \in Pushers, Refuse(p) PROVE FitInv' /\ NeverRefused'
    <2>1. size = 0 /\ size' = size
      BY <1>4 DEF Refuse, FitInv
    <2> QED
      BY <2>1 DEF FitInv, NeverRefused
  <1>5. ASSUME NEW p \in Pushers, Enqueue(p) \/ Notify(p) PROVE FitInv' /\ NeverRefused'
    <2>1. UNCHANGED <<size, left, refused>> /\ call'[p] # "scan"
          /\ \A q \in Pushers : q # p => /\ call'[q] = call[q] /\ arg'[q] = arg[q]
                                         /\ best'[q] = best[q]
      BY <1>5 DEF Enqueue, Notify, TypeOK
    <2> QED
      BY <2>1 DEF FitInv, NeverRefused
  <1>6. CASE ClearWorker \/ \E mask \in ClearMasks : Clear(mask)
    BY <1>0, <1>6 DEF ClearWorker, Clear
  <1>7. CASE UNCHANGED vars
    BY <1>0, <1>7 DEF vars
  <1> QED
    BY <1>1, <1>2, <1>3, <1>4, <1>5, <1>6, <1>7 DEF Next, Step, Pushing

\* A mask that passes the test of push() fits a worker, for any number of workers up to 31,
\* so push() returns false only when there is none (threadpool.cpp:116, 133).
THEOREM FitsWhenTested == Spec => []NeverRefused
  <1>1. Init => FitInv /\ NeverRefused
    BY DEF Init, FitInv, NeverRefused
  <1>2. Spec => [](TypeOK /\ AtHand /\ FitInv /\ NeverRefused)
    BY <1>1, TypeInit, TypeNext, FitNext, PTL DEF Spec
  <1> QED
    BY <1>2, PTL

----------------------------------------------------------------------------
(* No task is forgotten *)

\* Every task that push() was called with was rejected or refused, is in the hands of a
\* push, is in a queue, or has been run (threadpool.cpp:51-66, 105-136).
Accounted ==
  \A t \in calls :
    \/ t \in rejected \cup refused \cup finished
    \/ \E p \in Pushers : call[p] = "scan" /\ arg[p] = t
    \/ \E w \in Workers : \E k \in 1..Len(queue[w]) : queue[w][k] = t

\* Every task that was not rejected or refused is on its way to a queue or reached one.
CallsInv ==
  \A t \in calls :
    \/ t \in rejected \cup refused
    \/ \E p \in Pushers : call[p] = "scan" /\ arg[p] = t
    \/ \E w \in Workers : \E a \in 1..Len(arrived[w]) : arrived[w][a] = t

\* What has left a queue has been run, and so has the task about to be removed.
DoneInv ==
  \A w \in Workers :
    /\ \A a \in 1..Len(arrived[w]) :
         a <= Len(arrived[w]) - Len(queue[w]) => arrived[w][a] \in finished
    /\ pc[w] = "remove" /\ mine[w] # None => mine[w] \in finished

\* Where a task of a queue of length n stands among the m that reached it.
LEMMA EndPart ==
  ASSUME NEW m \in Nat, NEW n \in Nat, n <= m, NEW a \in 1..m, ~(a <= m - n)
  PROVE  \E k \in 1..n : m - n + k = a
  <1> DEFINE k == a - (m - n)
  <1>1. k \in 1..n /\ m - n + k = a
    OBVIOUS
  <1> QED
    BY <1>1

\* Places of a prefix that grew by one at both ends are those it had.
LEMMA GonePart ==
  ASSUME NEW m \in Nat, NEW n \in Nat, n <= m, NEW a \in 1..(m + 1), a <= m + 1 - (n + 1)
  PROVE  a \in 1..m /\ a <= m - n
  OBVIOUS

LEMMA CallsNext == TypeOK /\ AtHand /\ CallsInv /\ [Next]_vars => CallsInv'
  <1> SUFFICES ASSUME TypeOK, AtHand, CallsInv, [Next]_vars PROVE CallsInv'
    OBVIOUS
  <1> USE DEF callVars, workVars, histVars, RunnerFrame, PushFrame, StopFrame
  <1>0. CASE UNCHANGED <<calls, rejected, refused, call, arg, arrived>>
    BY <1>0 DEF CallsInv
  <1>1. ASSUME NEW w \in Workers,
               Runner(w) \/ SpuriousWakeup(w) \/ StopWorker(w) \/ Destroying(w)
        PROVE  CallsInv'
    BY <1>0, <1>1 DEF Runner, Top, Grab, Run, Remove, Block, Recheck, SpuriousWakeup,
                      StopWorker, Destroying, NotifyWorker, JoinWorker
  <1>2. ASSUME NEW p \in Pushers, NEW t \in Tasks, Push(p, t) PROVE CallsInv'
    <2>1. calls' = calls \cup {t} /\ UNCHANGED <<refused, arrived>> /\ call[p] = "idle"
      BY <1>2 DEF Push
    <2>2. CASE rejected' = rejected \cup {t} /\ UNCHANGED callVars
      BY <2>1, <2>2 DEF CallsInv
    <2>3. CASE /\ call' = [call EXCEPT ![p] = "scan"] /\ arg' = [arg EXCEPT ![p] = t]
               /\ rejected' = rejected
      <3>1. /\ call'[p] = "scan" /\ arg'[p] = t
            /\ \A q \in Pushers : q # p => call'[q] = call[q] /\ arg'[q] = arg[q]
        BY <2>3 DEF TypeOK
      <3> QED
        BY <2>1, <2>3, <3>1 DEF CallsInv
    <2> QED
      BY <1>2, <2>2, <2>3 DEF Push
  <1>3. ASSUME NEW p \in Pushers, Scan(p) PROVE CallsInv'
    BY <1>0, <1>3 DEF Scan
  <1>4. ASSUME NEW p \in Pushers, Refuse(p) PROVE CallsInv'
    <2>1. /\ UNCHANGED <<calls, rejected, arrived>> /\ refused' = refused \cup {arg[p]}
          /\ \A q \in Pushers : q # p => call'[q] = call[q] /\ arg'[q] = arg[q]
      BY <1>4 DEF Refuse, TypeOK
    <2> QED
      BY <2>1 DEF CallsInv
  <1>5. ASSUME NEW p \in Pushers, Notify(p) PROVE CallsInv'
    <2>1. /\ UNCHANGED <<calls, rejected, refused, arrived>> /\ call[p] = "notify"
          /\ \A q \in Pushers : q # p => call'[q] = call[q] /\ arg'[q] = arg[q]
      BY <1>5 DEF Notify, TypeOK
    <2> QED
      BY <2>1 DEF CallsInv
  <1>6. ASSUME NEW p \in Pushers, Enqueue(p) PROVE CallsInv'
    <2> DEFINE b == best[p]
    <2>1. b \in Workers /\ arg[p] \in Accepted /\ arrived[b] \in Seq(Accepted)
      BY <1>6 DEF Enqueue, TypeOK, AtHand
    <2>2. /\ UNCHANGED <<calls, rejected, refused, arg>>
          /\ \A q \in Pushers : q # p => call'[q] = call[q]
          /\ arrived'[b] = Append(arrived[b], arg[p])
          /\ \A v \in Workers : v # b => arrived'[v] = arrived[v]
      BY <1>6, <2>1 DEF Enqueue, TypeOK
    <2> HIDE DEF b
    <2>3. /\ \E a \in 1..Len(arrived'[b]) : arrived'[b][a] = arg[p]
          /\ \A a \in 1..Len(arrived[b]) :
               a \in 1..Len(arrived'[b]) /\ arrived'[b][a] = arrived[b][a]
      <3>1. Len(arrived'[b]) = Len(arrived[b]) + 1 /\ Len(arrived[b]) \in Nat
        BY <2>1, <2>2
      <3>2. arrived'[b][Len(arrived[b]) + 1] = arg[p]
        BY <2>1, <2>2
      <3> QED
        BY <2>1, <2>2, <3>1, <3>2
    <2>4. \A v \in Workers : \A a \in 1..Len(arrived[v]) :
            a \in 1..Len(arrived'[v]) /\ arrived'[v][a] = arrived[v][a]
      BY <2>2, <2>3
    <2> SUFFICES ASSUME NEW t \in calls
                 PROVE  \/ t \in rejected \cup refused
                        \/ \E q \in Pushers : call'[q] = "scan" /\ arg[q] = t
                        \/ \E w \in Workers : \E a \in 1..Len(arrived'[w]) : arrived'[w][a] = t
      BY <2>2 DEF CallsInv
    <2>5. CASE \E q \in Pushers : call[q] = "scan" /\ arg[q] = t
      BY <2>1, <2>2, <2>3, <2>5
    <2>6. CASE \E w \in Workers : \E a \in 1..Len(arrived[w]) : arrived[w][a] = t
      BY <2>4, <2>6
    <2> QED
      BY <2>5, <2>6 DEF CallsInv
  <1>7. CASE ClearWorker \/ \E mask \in ClearMasks : Clear(mask)
    BY <1>0, <1>7 DEF ClearWorker, Clear
  <1>8. CASE UNCHANGED vars
    BY <1>0, <1>8 DEF vars
  <1> QED
    BY <1>1, <1>2, <1>3, <1>4, <1>5, <1>6, <1>7, <1>8 DEF Next, Step, Pushing

LEMMA DoneNext ==
  TypeOK /\ AtHand /\ OrderInv /\ HandInv /\ DoneInv /\ [Next]_vars => DoneInv'
  <1> SUFFICES ASSUME TypeOK, AtHand, OrderInv, HandInv, DoneInv, [Next]_vars PROVE DoneInv'
    OBVIOUS
  <1> USE DEF callVars, workVars, histVars, RunnerFrame, PushFrame, StopFrame
  <1>0. CASE /\ UNCHANGED <<arrived, queue, finished, mine>>
             /\ \A v \in Workers : pc'[v] = "remove" => pc[v] = "remove" \/ mine[v] = None
    BY <1>0 DEF DoneInv
  <1>1. ASSUME NEW w \in Workers, Top(w) \/ SpuriousWakeup(w) \/ Block(w) \/ Recheck(w)
        PROVE  DoneInv'
    <2>1. \A v \in Workers : pc'[v] # "remove" \/ pc'[v] = pc[v]
      BY <1>1 DEF Top, SpuriousWakeup, Block, Recheck, TypeOK
    <2> QED
      BY <1>0, <1>1, <2>1 DEF Top, SpuriousWakeup, Block, Recheck
  <1>2. ASSUME NEW w \in Workers, Grab(w) PROVE DoneInv'
    <2>1. /\ UNCHANGED <<arrived, queue, finished>>
          /\ \A v \in Workers : v # w => pc'[v] = pc[v] /\ mine'[v] = mine[v]
      BY <1>2 DEF Grab, TypeOK
    <2>2. pc'[w] = "run" \/ (mine'[w] = mine[w] /\ mine[w] = None)
      BY <1>2 DEF Grab, TypeOK, OrderInv, HandOnlyInRun
    <2> QED
      BY <2>1, <2>2 DEF DoneInv
  <1>3. ASSUME NEW w \in Workers, Run(w) PROVE DoneInv'
    <2>1. /\ UNCHANGED <<arrived, queue, mine>> /\ finished' = finished \cup {mine[w]}
          /\ \A v \in Workers : v # w => pc'[v] = pc[v]
      BY <1>3 DEF Run, TypeOK
    <2> QED
      BY <2>1 DEF DoneInv
  <1>4. ASSUME NEW w \in Workers, Remove(w) PROVE DoneInv'
    <2>1. /\ UNCHANGED <<arrived, finished>> /\ mine'[w] = None
          /\ \A v \in Workers : v # w => /\ mine'[v] = mine[v] /\ pc'[v] = pc[v]
                                         /\ queue'[v] = queue[v]
      BY <1>4 DEF Remove, TypeOK
    <2>2. CASE mine[w] = None
      <3>1. queue'[w] = queue[w]
        BY <1>4, <2>2 DEF Remove
      <3> QED
        BY <2>1, <3>1 DEF DoneInv
    <2>3. CASE mine[w] # None
      <3>1. queue[w] # <<>> /\ Head(queue[w]) = mine[w] /\ mine[w] \in finished
        BY <1>4, <2>3 DEF HandInv, FrontInHand, DoneInv, Remove
      <3>2. queue'[w] = Tail(queue[w])
        BY <1>4, <2>3, <3>1 DEF Remove, TypeOK
      <3>3. /\ Len(queue[w]) \in Nat /\ Len(queue[w]) >= 1 /\ Len(arrived[w]) \in Nat
            /\ Len(queue'[w]) = Len(queue[w]) - 1 /\ Head(queue[w]) = queue[w][1]
        BY <3>1, <3>2 DEF TypeOK
      <3>4. arrived[w][Len(arrived[w]) - Len(queue[w]) + 1] = mine[w]
        <4>1. 1 \in 1..Len(queue[w])
          BY <3>3
        <4>2. queue[w][1] = arrived[w][Len(arrived[w]) - Len(queue[w]) + 1]
          BY <4>1 DEF OrderInv, Ordered
        <4> QED
          BY <3>1, <3>3, <4>2
      <3>5. \A a \in 1..Len(arrived[w]) :
              a <= Len(arrived[w]) - Len(queue'[w]) => arrived[w][a] \in finished
        <4> TAKE a \in 1..Len(arrived[w])
        <4> HAVE a <= Len(arrived[w]) - Len(queue'[w])
        <4>1. a <= Len(arrived[w]) - Len(queue[w]) \/ a = Len(arrived[w]) - Len(queue[w]) + 1
          BY <3>3
        <4> QED
          BY <3>1, <3>4, <4>1 DEF DoneInv
      <3> QED
        BY <2>1, <3>5 DEF DoneInv
    <2> QED
      BY <2>2, <2>3
  <1>5. ASSUME NEW w \in Workers, StopWorker(w) \/ Destroying(w) PROVE DoneInv'
    <2>1. \A v \in Workers : pc'[v] # "remove" \/ pc'[v] = pc[v]
      BY <1>5 DEF StopWorker, Destroying, NotifyWorker, JoinWorker, Wake, TypeOK
    <2> QED
      BY <1>0, <1>5, <2>1 DEF StopWorker, Destroying, NotifyWorker, JoinWorker
  <1>6. ASSUME NEW p \in Pushers,
               Scan(p) \/ Refuse(p) \/ Notify(p) \/ \E t \in Tasks : Push(p, t)
        PROVE  DoneInv'
    <2>1. \A v \in Workers : pc'[v] # "remove" \/ pc'[v] = pc[v]
      BY <1>6 DEF Scan, Refuse, Notify, Push, Wake, TypeOK
    <2> QED
      BY <1>0, <1>6, <2>1 DEF Scan, Refuse, Notify, Push
  <1>7. ASSUME NEW p \in Pushers, Enqueue(p) PROVE DoneInv'
    <2> DEFINE b == best[p]
    <2>1. /\ b \in Workers /\ arg[p] \in Accepted
          /\ arrived[b] \in Seq(Accepted) /\ queue[b] \in Seq(Accepted)
      BY <1>7 DEF Enqueue, TypeOK, AtHand
    <2>2. /\ UNCHANGED <<finished, mine, pc>>
          /\ arrived'[b] = Append(arrived[b], arg[p]) /\ queue'[b] = Append(queue[b], arg[p])
          /\ \A v \in Workers : v # b => arrived'[v] = arrived[v] /\ queue'[v] = queue[v]
      BY <1>7, <2>1 DEF Enqueue, TypeOK
    <2> HIDE DEF b
    <2> DEFINE m == Len(arrived[b])
               n == Len(queue[b])
    <2>3. /\ Len(arrived'[b]) = Len(arrived[b]) + 1 /\ Len(queue'[b]) = Len(queue[b]) + 1
          /\ Len(arrived[b]) \in Nat /\ Len(queue[b]) \in Nat
          /\ \A a \in 1..Len(arrived[b]) : arrived'[b][a] = arrived[b][a]
      BY <2>1, <2>2
    <2>4. \A a \in 1..Len(arrived'[b]) :
            a <= Len(arrived'[b]) - Len(queue'[b]) => arrived'[b][a] \in finished
      <3>1. m \in Nat /\ n \in Nat /\ n <= m
        BY <2>1, <2>3 DEF OrderInv, Ordered
      <3>2. Len(arrived'[b]) = m + 1 /\ Len(queue'[b]) = n + 1
        BY <2>3
      <3> HIDE DEF m, n
      <3>3. \A a \in 1..(m + 1) : a <= m + 1 - (n + 1) => a \in 1..m /\ a <= m - n
        BY <3>1, GonePart
      <3>4. \A a \in 1..m : a <= m - n => arrived'[b][a] \in finished
        BY <2>1, <2>3 DEF DoneInv, m, n
      <3> QED
        BY <3>1, <3>2, <3>3, <3>4
    <2> QED
      BY <2>2, <2>4 DEF DoneInv
  <1>8. ASSUME NEW mask \in ClearMasks, Clear(mask) PROVE DoneInv'
    BY <1>0, <1>8 DEF Clear
  <1>9. CASE ClearWorker
    BY <1>9 DEF ClearWorker, IsFirst, HandInv
  <1>10. CASE UNCHANGED vars
    BY <1>0, <1>10 DEF vars
  <1> QED
    BY <1>1, <1>2, <1>3, <1>4, <1>5, <1>6, <1>7, <1>8, <1>9, <1>10
       DEF Next, Step, Runner, Pushing

\* Where nobody calls clear(), no task is lost between the two sections in which the front
\* of a queue is taken and removed: it was turned away, is waiting, or has been run.
THEOREM NothingForgotten == ClearMasks = {} => (Spec => []Accounted)
  <1> SUFFICES ASSUME ClearMasks = {} PROVE Spec => []Accounted
    OBVIOUS
  <1>1. TypeOK /\ AtHand /\ HandInv /\ [Next]_vars => HandInv'
    BY HandNext
  <1>2. Init => CallsInv /\ DoneInv
    <2> SUFFICES ASSUME Init PROVE CallsInv /\ DoneInv
      OBVIOUS
    <2>1. \A w \in Workers : arrived[w] = <<>> /\ mine[w] = None
      BY DEF Init
    <2> QED
      BY <2>1 DEF Init, CallsInv, DoneInv
  <1>3. Spec => [](TypeOK /\ AtHand /\ OrderInv /\ HandInv /\ CallsInv /\ DoneInv)
    BY <1>1, <1>2, TypeInit, TypeNext, OrderInit, OrderNext, HandInit, CallsNext, DoneNext,
       PTL DEF Spec
  <1>4. TypeOK /\ OrderInv /\ CallsInv /\ DoneInv => Accounted
    <2> SUFFICES ASSUME TypeOK, OrderInv, CallsInv, DoneInv, NEW t \in calls,
                        t \notin rejected \cup refused \cup finished,
                        ~\E p \in Pushers : call[p] = "scan" /\ arg[p] = t
                 PROVE  \E w \in Workers : \E k \in 1..Len(queue[w]) : queue[w][k] = t
      BY DEF Accounted
    <2>1. PICK w \in Workers : \E a \in 1..Len(arrived[w]) : arrived[w][a] = t
      BY DEF CallsInv
    <2>2. PICK a \in 1..Len(arrived[w]) : arrived[w][a] = t
      BY <2>1
    <2>3. ~(a <= Len(arrived[w]) - Len(queue[w]))
      BY <2>2 DEF DoneInv
    <2>4. /\ Len(arrived[w]) \in Nat /\ Len(queue[w]) \in Nat
          /\ Len(queue[w]) <= Len(arrived[w])
      BY DEF TypeOK, OrderInv, Ordered
    <2>5. PICK k \in 1..Len(queue[w]) : Len(arrived[w]) - Len(queue[w]) + k = a
      <3> DEFINE m == Len(arrived[w])
                 n == Len(queue[w])
      <3>1. m \in Nat /\ n \in Nat
        BY <2>4
      <3>2. n <= m
        BY <2>4
      <3>3. a \in 1..m
        OBVIOUS
      <3>4. ~(a <= m - n)
        BY <2>3
      <3> HIDE DEF m, n
      <3>5. \E k \in 1..n : m - n + k = a
        BY <3>1, <3>2, <3>3, <3>4, EndPart
      <3> QED
        BY <3>5 DEF m, n
    <2>6. queue[w][k] = arrived[w][Len(arrived[w]) - Len(queue[w]) + k]
      BY DEF OrderInv, Ordered
    <2> QED
      BY <2>2, <2>5, <2>6
  <1> QED
    BY <1>3, <1>4, PTL
=============================================================================
