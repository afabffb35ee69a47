----------------------------- MODULE SocketProof -----------------------------
(***************************************************************************)
(* Proofs about Socket, for every set of payloads and of application        *)
(* threads: its type invariant, the inductive invariant of SocketInv, the   *)
(* safety properties that follow from it, and that a socket implements the  *)
(* channel it promises.                                                     *)
(***************************************************************************)
EXTENDS SocketInv, FiniteSets, SequenceTheorems, FiniteSetTheorems, TLAPS

\* Facts about the pipe's cells.
LEMMA CellFacts ==
  /\ Stale \in Cell
  /\ Idle \in [Overlapped -> {"idle", "pending", "completed", "signalled"}]
  /\ \A d \in Data : Frame(d) \in Seq(Cell) /\ Len(Frame(d)) = 2
  /\ \A d \in Data : Length[d] \in Nat
  /\ Lengths \subseteq Nat
BY DataAssumption DEF Stale, Cell, Idle, Overlapped, Frame, Lengths

\* A read buffer only ever holds a cell.
LEMMA FetchIsCell ==
  ASSUME NEW c \in Cell, NEW o, NEW k
  PROVE  Fetch(c, o, k) \in Cell
BY CellFacts DEF Fetch

\* An accepted read keeps the types of what it changes.
LEMMA BeginReadType ==
  ASSUME TypeOK, NEW o \in Overlapped, NEW k \in Nat, BeginRead(o, k)
  PROVE  /\ read_size' \in Nat /\ read_buffer' \in Cell
         /\ rd' \in [Overlapped -> {"idle", "pending", "completed", "signalled"}]
         /\ rpos' \in 0..Len(wire)
<1>1. wire \in Seq(Cell) /\ rpos \in 0..Len(wire)
  BY DEF TypeOK
<1>2. CASE /\ rd' = [Idle EXCEPT ![o] = "pending"]
           /\ read_buffer' = Stale
           /\ UNCHANGED rpos
           /\ read_size' = k
  BY <1>1, <1>2, CellFacts DEF Idle
<1>3. CASE /\ rpos < Len(wire)
           /\ rd' = [Idle EXCEPT ![o] = "completed"]
           /\ read_buffer' = Fetch(wire[rpos + 1], o, k)
           /\ rpos' = rpos + 1
           /\ read_size' = k
  <2>1. wire[rpos + 1] \in Cell
    BY <1>1, <1>3
  <2>2. read_buffer' \in Cell
    BY <1>3, <2>1, FetchIsCell
  <2> QED
    BY <1>1, <1>3, <2>2, CellFacts DEF Idle
<1> QED
  BY <1>2, <1>3 DEF BeginRead

\* What on_message is given has the type of a payload.
LEMMA PayloadIsData == TypeOK => Payload \subseteq Data
BY DataAssumption DEF TypeOK, Payload, Cell

\* Appending a payload keeps a history of payloads one.
LEMMA CallOnMessageType ==
  ASSUME TypeOK, CallOnMessage
  PROVE  delivered' \in Seq(Data) /\ pc' = "callback"
BY PayloadIsData DEF TypeOK, CallOnMessage

\* Failing the reads in flight keeps the type of rd.
LEMMA FailReadsType ==
  ASSUME TypeOK, FailReads
  PROVE  rd' \in [Overlapped -> {"idle", "pending", "completed", "signalled"}]
BY DEF TypeOK, FailReads

----------------------------------------------------------------------------
(* Type correctness *)

\* Every step keeps every variable in its type.
LEMMA TypeStep == TypeOK /\ [Next]_vars => TypeOK'
<1> SUFFICES ASSUME TypeOK, [Next]_vars
             PROVE  TypeOK'
  OBVIOUS
<1> USE DEF pipeVars, sockVars, watchVars, histVars
<1>1. CASE UNCHANGED vars
  BY <1>1 DEF TypeOK, vars
<1>2. ASSUME NEW d \in Data, PeerWrite(d)
      PROVE  TypeOK'
  <2>1. wire \in Seq(Cell) /\ rpos \in 0..Len(wire)
    BY DEF TypeOK
  <2>2. wire' \in Seq(Cell) /\ Len(wire') = Len(wire) + 2
    <3>1. wire' = wire \o Frame(d) /\ Frame(d) \in Seq(Cell) /\ Len(Frame(d)) = 2
      BY <1>2, CellFacts DEF PeerWrite
    <3>2. /\ wire \o Frame(d) \in Seq(Cell)
          /\ Len(wire \o Frame(d)) = Len(wire) + Len(Frame(d))
      BY <2>1, <3>1, ConcatProperties, Zenon
    <3> QED
      BY <2>1, <3>1, <3>2
  <2>3. sent' \in Seq(Data)
    BY <1>2 DEF PeerWrite, TypeOK
  <2>4. CASE UNCHANGED <<rd, read_buffer, rpos>>
    BY <1>2, <2>1, <2>2, <2>3, <2>4 DEF PeerWrite, TypeOK
  <2>5. ASSUME NEW o \in Overlapped,
               rd' = [rd EXCEPT ![o] = "completed"],
               read_buffer' = Fetch(wire'[rpos + 1], o, read_size),
               rpos' = rpos + 1
        PROVE  TypeOK'
    <3>1. wire'[rpos + 1] \in Cell
      BY <2>1, <2>2
    <3>2. read_buffer' \in Cell
      BY <2>5, <3>1, FetchIsCell
    <3>3. rpos' \in 0..Len(wire')
      BY <2>1, <2>2, <2>5
    <3>4. rd' \in [Overlapped -> {"idle", "pending", "completed", "signalled"}]
      BY <2>5 DEF TypeOK
    <3> QED
      BY <1>2, <2>2, <2>3, <3>2, <3>3, <3>4 DEF PeerWrite, TypeOK
  <2> QED
    BY <1>2, <2>4, <2>5 DEF PeerWrite
<1>3. CASE PeerEnd
  BY <1>3, FailReadsType DEF PeerEnd, TypeOK
<1>4. CASE PeerDisconnect
  BY <1>4, FailReadsType DEF PeerDisconnect, TypeOK
<1>5. CASE CheckLoop
  BY <1>5, CellFacts DEF CheckLoop, TypeOK, WatcherFrame, Quiet
<1>6. CASE ReadHeader
  <2>1. HeaderSize \in Nat /\ "header" \in Overlapped
    BY DEF HeaderSize, Overlapped
  <2>2. CASE ReadRefused
    BY <1>6, <2>1, <2>2, CellFacts DEF ReadHeader, TypeOK, WatcherFrame, Quiet
  <2>3. CASE ~ReadRefused
    <3>1. BeginRead("header", HeaderSize)
      BY <1>6, <2>3 DEF ReadHeader
    <3>2. /\ read_size' \in Nat /\ read_buffer' \in Cell
          /\ rd' \in [Overlapped -> {"idle", "pending", "completed", "signalled"}]
          /\ rpos' \in 0..Len(wire)
      BY <2>1, <3>1, BeginReadType
    <3> QED
      BY <1>6, <2>3, <3>2 DEF ReadHeader, TypeOK, WatcherFrame, Quiet
  <2> QED
    BY <2>2, <2>3
<1>7. CASE DeliverBuffered
  BY <1>7, CallOnMessageType DEF DeliverBuffered, TypeOK, WatcherFrame, Quiet
<1>8. CASE GoWait
  BY <1>8 DEF GoWait, TypeOK, WatcherFrame, Quiet
<1>9. CASE RunCompletions
  BY <1>9 DEF RunCompletions, TypeOK, WatcherFrame, Quiet
<1>10. CASE WaitTimesOut
  BY <1>10 DEF WaitTimesOut, TypeOK, WatcherFrame, Quiet
<1>11. CASE HeaderArrived
  <2>1. PICK k \in MsgSizes :
          IF ReadRefused
          THEN /\ state' = "Unknown" /\ waitable' = "none"
               /\ rd' = Idle /\ read_size' = k /\ read_buffer' = Stale
               /\ UNCHANGED rpos
          ELSE /\ state' = "Content" /\ waitable' = "content"
               /\ BeginRead("content", k)
    BY <1>11 DEF HeaderArrived
  <2>2. k \in Nat /\ "content" \in Overlapped
    BY CellFacts DEF MsgSizes, TypeOK, Cell, Overlapped
  <2>3. CASE ReadRefused
    BY <1>11, <2>1, <2>2, <2>3, CellFacts
    DEF HeaderArrived, TypeOK, WatcherFrame, Quiet
  <2>4. CASE ~ReadRefused
    <3>1. /\ read_size' \in Nat /\ read_buffer' \in Cell
          /\ rd' \in [Overlapped -> {"idle", "pending", "completed", "signalled"}]
          /\ rpos' \in 0..Len(wire)
      BY <2>1, <2>2, <2>4, BeginReadType
    <3> QED
      BY <1>11, <2>1, <2>4, <3>1 DEF HeaderArrived, TypeOK, WatcherFrame, Quiet
  <2> QED
    BY <2>3, <2>4
<1>12. CASE ContentArrived
  BY <1>12, CallOnMessageType, CellFacts
  DEF ContentArrived, TypeOK, WatcherFrame, Quiet
<1>13. CASE CallbackReturns
  BY <1>13 DEF CallbackReturns, TypeOK, WatcherFrame, Quiet
<1>14. CASE JoinOneself
  BY <1>14 DEF JoinOneself, TypeOK, WatcherFrame
<1>15. ASSUME NEW h \in BOOLEAN, Hook(h)
       PROVE  TypeOK'
  BY <1>15 DEF Hook, TypeOK
<1>16. ASSUME NEW r \in {"server", "client"}, Connect(r)
       PROVE  TypeOK'
  <2>1. CASE joinable
    BY <1>16, <2>1 DEF Connect, TypeOK
  <2>2. CASE ~joinable
    <3>1. /\ is_connected' \in BOOLEAN /\ shutdown' \in BOOLEAN
          /\ joinable' \in BOOLEAN /\ crashed' \in BOOLEAN /\ hooked' \in BOOLEAN
      BY <1>16, <2>2, Zenon DEF Connect, TypeOK
    <3> QED
      BY <1>16, <2>2, <3>1, CellFacts DEF Connect, TypeOK
  <2> QED
    BY <2>1, <2>2
<1>17. ASSUME NEW u \in Users, CloseCall(u)
       PROVE  TypeOK'
  BY <1>17, FailReadsType DEF CloseCall, TypeOK, UserFrame
<1>18. ASSUME NEW u \in Users, Notify(u) \/ Stop(u)
       PROVE  TypeOK'
  <2>1. upc' \in [Users -> {"idle", "notify", "stop", "join", "joining", "finish"}]
    BY <1>18 DEF Notify, Stop, TypeOK
  <2>2. /\ is_connected' \in BOOLEAN /\ shutdown' \in BOOLEAN
        /\ joinable' \in BOOLEAN /\ crashed' \in BOOLEAN
    BY <1>18, Zenon DEF Notify, Stop, TypeOK
  <2> QED
    BY <1>18, <2>1, <2>2 DEF Notify, Stop, TypeOK, UserFrame
<1>19. ASSUME NEW u \in Users, TestJoinable(u)
       PROVE  TypeOK'
  BY <1>19 DEF TestJoinable, TypeOK, UserFrame
<1>20. ASSUME NEW u \in Users, Join(u)
       PROVE  TypeOK'
  <2>1. upc' \in [Users -> {"idle", "notify", "stop", "join", "joining", "finish"}]
    BY <1>20 DEF Join, TypeOK
  <2>2. /\ is_connected' \in BOOLEAN /\ shutdown' \in BOOLEAN
        /\ joinable' \in BOOLEAN /\ crashed' \in BOOLEAN
    BY <1>20, Zenon DEF Join, TypeOK
  <2> QED
    BY <1>20, <2>1, <2>2 DEF Join, TypeOK, UserFrame
<1>21. ASSUME NEW u \in Users, Finish(u)
       PROVE  TypeOK'
  <2>1. upc' \in [Users -> {"idle", "notify", "stop", "join", "joining", "finish"}]
    BY <1>21 DEF Finish, TypeOK
  <2>2. /\ is_connected' \in BOOLEAN /\ shutdown' \in BOOLEAN
        /\ joinable' \in BOOLEAN /\ crashed' \in BOOLEAN
    BY <1>21, Zenon DEF Finish, TypeOK
  <2> QED
    BY <1>21, <2>1, <2>2 DEF Finish, TypeOK, UserFrame
<1> QED
  BY <1>1, <1>2, <1>3, <1>4, <1>5, <1>6, <1>7, <1>8, <1>9, <1>10, <1>11, <1>12,
     <1>13, <1>14, <1>15, <1>16, <1>17, <1>18, <1>19, <1>20, <1>21
  DEF Next, Step, Watcher, Closing

\* The initial states are well typed.
LEMMA TypeInit == Init => TypeOK
<1> SUFFICES ASSUME Init PROVE TypeOK
  OBVIOUS
<1>1. /\ is_connected \in BOOLEAN /\ shutdown \in BOOLEAN
      /\ joinable \in BOOLEAN /\ crashed \in BOOLEAN /\ hooked \in BOOLEAN
  BY Zenon DEF Init
<1> QED
  BY <1>1, CellFacts DEF Init, TypeOK

\* Every reachable state is well typed.
THEOREM TypeCorrect == Spec => []TypeOK
BY TypeInit, TypeStep, PTL DEF Spec

----------------------------------------------------------------------------
(* The thread handle and the threads inside close() *)

LEMMA ThreadStep == TypeOK /\ ThreadInv /\ [Next]_vars => ThreadInv'
<1> SUFFICES ASSUME TypeOK, ThreadInv, [Next]_vars
             PROVE  ThreadInv'
  OBVIOUS
<1> USE DEF ThreadInv, pipeVars, sockVars, watchVars, histVars
<1>1. CASE UNCHANGED vars
  BY <1>1 DEF vars
<1>2. ASSUME NEW d \in Data, PeerWrite(d)
      PROVE  ThreadInv'
  <2>1. pc = "exited" => rd' = Idle
    BY <1>2 DEF PeerWrite, Idle
  <2> QED
    BY <1>2, <2>1 DEF PeerWrite
<1>3. FailReads => (rd = Idle => rd' = Idle)
  BY DEF FailReads, Idle
<1>4. CASE PeerEnd \/ PeerDisconnect
  BY <1>3, <1>4 DEF PeerEnd, PeerDisconnect
<1>5. CASE CheckLoop
  BY <1>5 DEF CheckLoop, WatcherFrame, Quiet
<1>6. CASE ReadHeader
  BY <1>6 DEF ReadHeader, WatcherFrame, Quiet
<1>7. CASE DeliverBuffered \/ ContentArrived
  BY <1>7 DEF DeliverBuffered, ContentArrived, CallOnMessage, WatcherFrame, Quiet
<1>8. CASE GoWait \/ RunCompletions \/ WaitTimesOut \/ CallbackReturns
  BY <1>8 DEF GoWait, RunCompletions, WaitTimesOut, CallbackReturns, WatcherFrame, Quiet
<1>9. CASE HeaderArrived
  BY <1>9 DEF HeaderArrived, WatcherFrame, Quiet
<1>10. CASE JoinOneself
  BY <1>10 DEF JoinOneself, WatcherFrame
<1>11. ASSUME NEW h \in BOOLEAN, Hook(h)
       PROVE  ThreadInv'
  BY <1>11 DEF Hook
<1>12. ASSUME NEW r \in {"server", "client"}, Connect(r)
       PROVE  ThreadInv'
  BY <1>12 DEF Connect
<1>13. ASSUME NEW u \in Users, CloseCall(u)
       PROVE  ThreadInv'
  BY <1>3, <1>13 DEF CloseCall, UserFrame, TypeOK
<1>14. ASSUME NEW u \in Users, Notify(u) \/ Stop(u)
       PROVE  ThreadInv'
  BY <1>14 DEF Notify, Stop, UserFrame, TypeOK
<1>15. ASSUME NEW u \in Users, TestJoinable(u)
       PROVE  ThreadInv'
  BY <1>15 DEF TestJoinable, UserFrame, TypeOK
<1>16. ASSUME NEW u \in Users, Join(u)
       PROVE  ThreadInv'
  BY <1>16 DEF Join, UserFrame, TypeOK
<1>17. ASSUME NEW u \in Users, Finish(u)
       PROVE  ThreadInv'
  BY <1>17 DEF Finish, UserFrame, TypeOK
<1> QED
  BY <1>1, <1>2, <1>4, <1>5, <1>6, <1>7, <1>8, <1>9, <1>10, <1>11, <1>12, <1>13,
     <1>14, <1>15, <1>16, <1>17
  DEF Next, Step, Watcher, Closing

----------------------------------------------------------------------------
(* The overlapped objects and the state machine of the watcher *)

\* A read is left pending only where there was nothing to take.
LEMMA BeginReadBusy ==
  ASSUME TypeOK, NEW o \in Overlapped, NEW k \in Nat, BeginRead(o, k), wire' = wire
  PROVE  /\ rd'[o] # "idle"
         /\ \A x \in Overlapped : x # o => rd'[x] = "idle"
         /\ \A x \in Overlapped : rd'[x] = "pending" => NoBytes'
BY DEF BeginRead, Idle, Overlapped, NoBytes

\* When reads have been failed none is pending, and the busy ones are still busy.
LEMMA FailReadsBusy ==
  ASSUME TypeOK, FailReads
  PROVE  \A o \in Overlapped : /\ rd'[o] # "pending"
                               /\ rd'[o] # "idle" <=> rd[o] # "idle"
BY DEF TypeOK, FailReads

LEMMA ReadStep == TypeOK /\ ThreadInv /\ ReadInv /\ [Next]_vars => ReadInv'
<1> SUFFICES ASSUME TypeOK, ThreadInv, ReadInv, [Next]_vars
             PROVE  ReadInv'
  OBVIOUS
<1> USE DEF ReadInv, pipeVars, sockVars, watchVars, histVars
<1>0. "header" \in Overlapped /\ "content" \in Overlapped
  BY DEF Overlapped
<1>1. CASE UNCHANGED vars
  BY <1>1 DEF vars, NoBytes
<1>2. ASSUME NEW d \in Data, PeerWrite(d)
      PROVE  ReadInv'
  <2>1. CASE /\ \A o \in Overlapped : rd[o] # "pending"
             /\ UNCHANGED <<rd, read_buffer, rpos>>
    BY <1>2, <2>1 DEF PeerWrite
  <2>2. ASSUME NEW o \in Overlapped, rd[o] = "pending",
               rd' = [rd EXCEPT ![o] = "completed"]
        PROVE  ReadInv'
    <3>1. pc # "callback" /\ \A x \in Overlapped : rd'[x] # "pending"
      BY <2>2 DEF TypeOK, Overlapped, Idle
    <3> QED
      BY <1>2, <2>2, <3>1 DEF PeerWrite, TypeOK, Overlapped
  <2> QED
    BY <1>2, <2>1, <2>2 DEF PeerWrite
<1>3. CASE FailReads /\ UNCHANGED <<pc, state, waitable>>
  <2>1. pc = "callback" => rd' = Idle
    BY <1>3 DEF FailReads, Idle
  <2> QED
    BY <1>0, <1>3, <2>1, FailReadsBusy
<1>4. CASE PeerEnd \/ PeerDisconnect
  BY <1>3, <1>4 DEF PeerEnd, PeerDisconnect
<1>5. CASE CheckLoop
  BY <1>0, <1>5 DEF CheckLoop, WatcherFrame, Quiet, Idle, NoBytes
<1>6. CASE ReadHeader
  <2>1. CASE ReadRefused
    BY <1>0, <1>6, <2>1 DEF ReadHeader, WatcherFrame, Quiet, NoBytes
  <2>2. CASE ~ReadRefused
    <3>1. BeginRead("header", HeaderSize) /\ wire' = wire /\ HeaderSize \in Nat
      BY <1>6, <2>2 DEF ReadHeader, WatcherFrame, HeaderSize
    <3>2. /\ rd'["header"] # "idle" /\ rd'["content"] = "idle"
          /\ \A x \in Overlapped : rd'[x] = "pending" => NoBytes'
      BY <1>0, <3>1, BeginReadBusy
    <3> QED
      BY <1>6, <2>2, <3>2 DEF ReadHeader
  <2> QED
    BY <2>1, <2>2
<1>7. CASE DeliverBuffered
  <2>1. rd = Idle
    BY <1>0, <1>7 DEF DeliverBuffered, TypeOK, Idle, Overlapped
  <2> QED
    BY <1>7, <2>1 DEF DeliverBuffered, CallOnMessage, WatcherFrame, NoBytes
<1>8. CASE GoWait
  BY <1>8 DEF GoWait, WatcherFrame, NoBytes
<1>9. CASE RunCompletions
  BY <1>0, <1>9 DEF RunCompletions, WatcherFrame, NoBytes
<1>10. CASE WaitTimesOut
  BY <1>10 DEF WaitTimesOut, WatcherFrame, NoBytes
<1>11. CASE HeaderArrived
  <2>1. PICK k \in MsgSizes :
          IF ReadRefused
          THEN state' = "Unknown" /\ waitable' = "none" /\ rd' = Idle
          ELSE /\ state' = "Content" /\ waitable' = "content"
               /\ BeginRead("content", k)
    BY <1>11 DEF HeaderArrived
  <2>2. k \in Nat
    BY CellFacts DEF MsgSizes, TypeOK, Cell
  <2>3. wire' = wire /\ pc' = "loop"
    BY <1>11 DEF HeaderArrived, WatcherFrame
  <2>4. CASE ReadRefused
    BY <1>0, <2>1, <2>3, <2>4 DEF Idle
  <2>5. CASE ~ReadRefused
    <3>1. /\ rd'["content"] # "idle" /\ rd'["header"] = "idle"
          /\ \A x \in Overlapped : rd'[x] = "pending" => NoBytes'
      BY <1>0, <2>1, <2>2, <2>3, <2>5, BeginReadBusy
    <3> QED
      BY <2>1, <2>3, <2>5, <3>1
  <2> QED
    BY <2>4, <2>5
<1>12. CASE ContentArrived
  BY <1>0, <1>12 DEF ContentArrived, CallOnMessage, WatcherFrame, Idle, NoBytes
<1>13. CASE CallbackReturns
  BY <1>0, <1>13 DEF CallbackReturns, WatcherFrame, Idle, NoBytes
<1>14. CASE JoinOneself
  BY <1>14 DEF JoinOneself, WatcherFrame, NoBytes
<1>15. ASSUME NEW h \in BOOLEAN, Hook(h)
       PROVE  ReadInv'
  BY <1>15 DEF Hook, NoBytes
<1>16. ASSUME NEW r \in {"server", "client"}, Connect(r)
       PROVE  ReadInv'
  <2>1. CASE joinable
    BY <1>16, <2>1 DEF Connect, NoBytes
  <2>2. CASE ~joinable
    BY <1>0, <1>16, <2>2 DEF Connect, Idle
  <2> QED
    BY <2>1, <2>2
<1>17. ASSUME NEW u \in Users, CloseCall(u)
       PROVE  ReadInv'
  BY <1>3, <1>17 DEF CloseCall, UserFrame, NoBytes
<1>18. ASSUME NEW u \in Users, Closing(u)
       PROVE  ReadInv'
  BY <1>18 DEF Closing, Notify, Stop, TestJoinable, Join, Finish, UserFrame, NoBytes
<1> QED
  BY <1>1, <1>2, <1>4, <1>5, <1>6, <1>7, <1>8, <1>9, <1>10, <1>11, <1>12, <1>13,
     <1>14, <1>15, <1>16, <1>17, <1>18
  DEF Next, Step, Watcher

----------------------------------------------------------------------------
(* The contents of the pipe *)

\* One more frame at the end of the pipe leaves the earlier ones where they were.
LEMMA WireGrows ==
  ASSUME TypeOK, WireInv, NEW d \in Data, PeerWrite(d)
  PROVE  /\ WireInv'
         /\ Len(sent') = Len(sent) + 1
         /\ \A i \in 1..Len(sent) : sent'[i] = sent[i]
<1>1. wire \in Seq(Cell) /\ sent \in Seq(Data)
  BY DEF TypeOK
<1>2. /\ sent' = Append(sent, d)
      /\ wire' = wire \o Frame(d)
      /\ Frame(d) \in Seq(Cell) /\ Len(Frame(d)) = 2
  BY CellFacts DEF PeerWrite
<1>3. /\ Len(sent') = Len(sent) + 1
      /\ \A i \in 1..Len(sent) : sent'[i] = sent[i]
      /\ sent'[Len(sent) + 1] = d
  BY <1>1, <1>2
<1>4. /\ Len(wire \o Frame(d)) = Len(wire) + Len(Frame(d))
      /\ \A i \in 1..Len(wire) + Len(Frame(d)) :
           (wire \o Frame(d))[i] = IF i <= Len(wire) THEN wire[i]
                                   ELSE Frame(d)[i - Len(wire)]
  BY <1>1, <1>2, ConcatProperties, Zenon
<1>5. /\ Len(wire') = Len(wire) + 2
      /\ \A i \in 1..Len(wire) : wire'[i] = wire[i]
      /\ wire'[Len(wire) + 1] = Frame(d)[1]
      /\ wire'[Len(wire) + 2] = Frame(d)[2]
  BY <1>1, <1>2, <1>4
<1>6. /\ Frame(d)[1] = [kind |-> "header", of |-> d]
      /\ Frame(d)[2] = [kind |-> "body", of |-> d]
  BY DEF Frame
<1>7. ASSUME NEW i \in 1..Len(sent')
      PROVE  /\ wire'[2 * i - 1] = [kind |-> "header", of |-> sent'[i]]
             /\ wire'[2 * i] = [kind |-> "body", of |-> sent'[i]]
  <2>1. CASE i \in 1..Len(sent)
    <3>1. 2 * i - 1 \in 1..Len(wire) /\ 2 * i \in 1..Len(wire)
      BY <1>1, <2>1 DEF WireInv
    <3> QED
      BY <1>3, <1>5, <2>1, <3>1 DEF WireInv
  <2>2. CASE i = Len(sent) + 1
    <3>1. 2 * i - 1 = Len(wire) + 1 /\ 2 * i = Len(wire) + 2
      BY <1>1, <2>2 DEF WireInv
    <3> QED
      BY <1>3, <1>5, <1>6, <2>2, <3>1
  <2> QED
    BY <1>1, <1>3, <1>7, <2>1, <2>2
<1>8. Len(wire') = 2 * Len(sent')
  BY <1>1, <1>3, <1>5 DEF WireInv
<1> QED
  BY <1>3, <1>7, <1>8 DEF WireInv

\* Only the peer's writes and a new connection touch the pipe's contents.
LEMMA WireKept ==
  ASSUME [Next]_vars
  PROVE  \/ UNCHANGED <<wire, sent>>
         \/ \E d \in Data : PeerWrite(d)
         \/ ~joinable /\ \E r \in {"server", "client"} : Connect(r)
<1> USE DEF pipeVars, sockVars, watchVars, histVars
<1>1. CASE UNCHANGED vars
  BY <1>1 DEF vars
<1>2. CASE PeerEnd \/ PeerDisconnect
  BY <1>2 DEF PeerEnd, PeerDisconnect
<1>3. CASE Watcher
  BY <1>3 DEF Watcher, CheckLoop, ReadHeader, DeliverBuffered, GoWait, RunCompletions,
              WaitTimesOut, HeaderArrived, ContentArrived, CallbackReturns, WatcherFrame
<1>4. CASE JoinOneself
  BY <1>4 DEF JoinOneself, WatcherFrame
<1>5. CASE \E h \in BOOLEAN : Hook(h)
  BY <1>5 DEF Hook
<1>6. CASE joinable /\ \E r \in {"server", "client"} : Connect(r)
  BY <1>6 DEF Connect
<1>7. CASE \E u \in Users : CloseCall(u) \/ Closing(u)
  BY <1>7 DEF CloseCall, Closing, Notify, Stop, TestJoinable, Join, Finish, UserFrame
<1> QED
  BY <1>1, <1>2, <1>3, <1>4, <1>5, <1>6, <1>7 DEF Next, Step

LEMMA WireStep == TypeOK /\ WireInv /\ [Next]_vars => WireInv'
<1> SUFFICES ASSUME TypeOK, WireInv, [Next]_vars
             PROVE  WireInv'
  OBVIOUS
<1>1. CASE UNCHANGED <<wire, sent>>
  BY <1>1 DEF WireInv
<1>2. CASE \E d \in Data : PeerWrite(d)
  BY <1>2, WireGrows
<1>3. CASE ~joinable /\ \E r \in {"server", "client"} : Connect(r)
  BY <1>3 DEF Connect, WireInv
<1> QED
  BY <1>1, <1>2, <1>3, WireKept

----------------------------------------------------------------------------
(* Where the watcher is in the pipe *)

\* Between two frames the pipe has nothing to take only if every message was read.
LEMMA NothingAtFrame ==
  ASSUME TypeOK, WireInv, Heard <= Len(sent), rpos = 2 * Heard, NoBytes
  PROVE  Heard = Len(sent)
<1> SUFFICES ASSUME Heard < Len(sent) PROVE FALSE
  BY DEF TypeOK, Heard
<1>1. Heard + 1 \in 1..Len(sent) /\ 2 * (Heard + 1) - 1 = rpos + 1
  BY DEF TypeOK, Heard
<1>2. wire[2 * (Heard + 1) - 1] = [kind |-> "header", of |-> sent[Heard + 1]]
  BY <1>1 DEF WireInv
<1>3. rpos + 1 \in (rpos + 1)..Len(wire)
  BY <1>1 DEF WireInv, TypeOK, Heard
<1> QED
  BY <1>1, <1>2, <1>3 DEF NoBytes

\* What the pipe holds of the first message not delivered.
LEMMA NextFrame ==
  ASSUME TypeOK, WireInv, Heard < Len(sent)
  PROVE  /\ wire[2 * Heard + 1] = [kind |-> "header", of |-> sent[Heard + 1]]
         /\ wire[2 * Heard + 2] = [kind |-> "body", of |-> sent[Heard + 1]]
         /\ 2 * Heard + 2 <= Len(wire)
         /\ sent[Heard + 1] \in Data
<1>1. /\ Heard + 1 \in 1..Len(sent) /\ 2 * (Heard + 1) - 1 = 2 * Heard + 1
      /\ 2 * (Heard + 1) = 2 * Heard + 2
  BY DEF TypeOK, Heard
<1>2. /\ wire[2 * (Heard + 1) - 1] = [kind |-> "header", of |-> sent[Heard + 1]]
      /\ wire[2 * (Heard + 1)] = [kind |-> "body", of |-> sent[Heard + 1]]
  BY <1>1 DEF WireInv
<1> QED
  BY <1>1, <1>2 DEF WireInv, TypeOK

\* After the header the pipe has nothing to take only if the message is empty.
LEMMA NothingAtBody ==
  ASSUME TypeOK, WireInv, Heard < Len(sent), rpos = 2 * Heard + 1, NoBytes
  PROVE  sent[Heard + 1] = Empty
<1>1. wire[rpos + 1].of = sent[Heard + 1] /\ rpos + 1 \in (rpos + 1)..Len(wire)
  BY NextFrame DEF TypeOK, Heard
<1> QED
  BY <1>1 DEF NoBytes

\* A finished content read gives on_message the first message not delivered.
LEMMA PayloadIsNext ==
  ASSUME TypeOK, WireInv, PositionInv, pc # "exited", pc # "callback",
         state = "Content", rd["content"] # "pending"
  PROVE  Heard < Len(sent) /\ Payload = {sent[Heard + 1]}
<1>1. /\ Heard < Len(sent)
      /\ read_size = Length[sent[Heard + 1]]
      /\ sent[Heard + 1] # Empty =>
           read_buffer = [kind |-> "body", of |-> sent[Heard + 1]]
  BY DEF PositionInv, ContentInHand
<1>2. sent[Heard + 1] \in Data
  BY <1>1, NextFrame
<1>3. read_size = 0 <=> sent[Heard + 1] = Empty
  BY <1>1, <1>2, DataAssumption
<1> QED
  BY <1>1, <1>3 DEF Payload

\* A pipe that refuses reads keeps refusing them.
LEMMA RefusedStays ==
  ASSUME ReadRefused, link' = link \/ link' = "cut", UNCHANGED <<wire, rpos>>
  PROVE  ReadRefused'
BY DEF ReadRefused, NoBytes

\* When the reads in flight fail, the pipe refuses reads or none was in flight.
LEMMA CutRefuses ==
  ASSUME TypeOK, ReadInv, UNCHANGED <<wire, rpos>>,
         link' = "cut" \/ (link' = "ended" /\ link = "open")
  PROVE  /\ ReadRefused => ReadRefused'
         /\ \A o \in Overlapped : rd[o] = "pending" => ReadRefused'
BY DEF ReadRefused, NoBytes, ReadInv

\* What a header read that the pipe accepts leaves behind.
LEMMA HeaderReadBegun ==
  ASSUME TypeOK, WireInv, Heard <= Len(sent), rpos = 2 * Heard,
         BeginRead("header", HeaderSize)
  PROVE  \/ rd'["header"] = "pending" /\ rpos' = 2 * Heard
         \/ /\ rd'["header"] # "pending" /\ rpos' = 2 * Heard + 1
            /\ Heard < Len(sent)
            /\ read_buffer' = [kind |-> "header", of |-> sent[Heard + 1]]
<1>1. CASE /\ rd' = [Idle EXCEPT !["header"] = "pending"]
           /\ UNCHANGED rpos
  BY <1>1 DEF Idle, Overlapped
<1>2. CASE /\ rpos < Len(wire)
           /\ rd' = [Idle EXCEPT !["header"] = "completed"]
           /\ read_buffer' = Fetch(wire[rpos + 1], "header", HeaderSize)
           /\ rpos' = rpos + 1
  <2>1. Heard < Len(sent)
    BY <1>2 DEF TypeOK, WireInv, Heard
  <2>2. wire[rpos + 1] = [kind |-> "header", of |-> sent[Heard + 1]]
    BY <2>1, NextFrame
  <2>3. read_buffer' = [kind |-> "header", of |-> sent[Heard + 1]]
    BY <1>2, <2>2 DEF Fetch
  <2>4. rd'["header"] = "completed"
    BY <1>2 DEF Idle, Overlapped
  <2> QED
    BY <1>2, <2>1, <2>3, <2>4
<1> QED
  BY <1>1, <1>2 DEF BeginRead

\* What a content read that the pipe accepts leaves behind.
LEMMA ContentReadBegun ==
  ASSUME TypeOK, WireInv, Heard < Len(sent), rpos = 2 * Heard + 1,
         BeginRead("content", Length[sent[Heard + 1]])
  PROVE  /\ read_size' = Length[sent[Heard + 1]]
         /\ sent[Heard + 1] # Empty =>
              /\ rd'["content"] # "pending"
              /\ read_buffer' = [kind |-> "body", of |-> sent[Heard + 1]]
         /\ \/ rd'["content"] = "pending" /\ rpos' = 2 * Heard + 1
            \/ rd'["content"] # "pending" /\ rpos' = 2 * Heard + 2
<1>1. read_size' = Length[sent[Heard + 1]]
  BY DEF BeginRead
<1>2. CASE /\ NoBytes
           /\ rd' = [Idle EXCEPT !["content"] = "pending"]
           /\ UNCHANGED rpos
  <2>1. sent[Heard + 1] = Empty
    BY <1>2, NothingAtBody
  <2>2. rd'["content"] = "pending"
    BY <1>2 DEF Idle, Overlapped
  <2> QED
    BY <1>1, <1>2, <2>1, <2>2
<1>3. CASE /\ rpos < Len(wire)
           /\ rd' = [Idle EXCEPT !["content"] = "completed"]
           /\ read_buffer' = Fetch(wire[rpos + 1], "content", Length[sent[Heard + 1]])
           /\ rpos' = rpos + 1
  <2>1. wire[rpos + 1] = [kind |-> "body", of |-> sent[Heard + 1]]
    BY NextFrame DEF TypeOK, Heard
  <2>2. read_buffer' = [kind |-> "body", of |-> sent[Heard + 1]]
    BY <1>3, <2>1 DEF Fetch
  <2>3. rd'["content"] = "completed"
    BY <1>3 DEF Idle, Overlapped
  <2>4. rpos' = 2 * Heard + 2
    BY <1>3 DEF TypeOK, Heard
  <2> QED
    BY <1>1, <2>2, <2>3, <2>4
<1> QED
  BY <1>2, <1>3 DEF BeginRead

\* What PositionInv depends on.
positionVars == <<link, wire, rpos, state, read_buffer, read_size, rd, sent, delivered>>

\* A step that moves the watcher only from one point of its loop to another.
LEMMA PositionKept ==
  ASSUME PositionInv, UNCHANGED positionVars,
         pc' = pc \/ (pc \in {"loop", "step", "wait"} /\ pc' \in {"loop", "step", "wait"})
  PROVE  PositionInv'
BY DEF PositionInv, BetweenMessages, HeaderInHand, ContentInHand, positionVars,
       ReadRefused, NoBytes, Heard

\* The reads in flight fail, because of either end of the pipe.
LEMMA PositionCut ==
  ASSUME TypeOK, ReadInv, PositionInv, FailReads,
         link' = "cut" \/ (link' = "ended" /\ link = "open"),
         UNCHANGED <<wire, rpos, pc, state, read_buffer, read_size, sent, delivered>>
  PROVE  PositionInv'
<1>1. Heard' = Heard
  BY DEF Heard
<1>2. /\ ReadRefused => ReadRefused'
      /\ \A o \in Overlapped : rd[o] = "pending" => ReadRefused'
  BY CutRefuses
<1>3. \A o \in Overlapped : rd'[o] # "pending"
  BY FailReadsBusy
<1>4. "header" \in Overlapped /\ "content" \in Overlapped
  BY DEF Overlapped
<1>5. BetweenMessages => BetweenMessages'
  BY <1>1, <1>2 DEF BetweenMessages
<1>6. HeaderInHand => HeaderInHand'
  BY <1>1, <1>2, <1>3, <1>4 DEF HeaderInHand
<1>7. ContentInHand => ContentInHand'
  BY <1>1, <1>2, <1>3, <1>4 DEF ContentInHand
<1> QED
  BY <1>5, <1>6, <1>7 DEF PositionInv

\* The peer writes a message: a read in flight takes the cell it waits for.
LEMMA PositionWrite ==
  ASSUME TypeOK, ReadInv, WireInv, PositionInv, DeliveredInOrder,
         NEW d \in Data, PeerWrite(d)
  PROVE  PositionInv'
<1> SUFFICES ASSUME pc # "exited" PROVE PositionInv'
  BY DEF PeerWrite, PositionInv, watchVars
<1>1. /\ WireInv' /\ Len(sent') = Len(sent) + 1
      /\ \A i \in 1..Len(sent) : sent'[i] = sent[i]
  BY WireGrows
<1>2. /\ UNCHANGED <<link, pc, state, read_size, delivered>>
      /\ link = "open"
      /\ Heard' = Heard
  BY DEF PeerWrite, Heard
<1>3. ~ReadRefused
  BY <1>2 DEF ReadRefused
<1>4. Heard <= Len(sent) /\ Heard \in Nat /\ Len(sent) \in Nat
  BY DEF DeliveredInOrder, TypeOK, Heard
<1>5. Heard < Len(sent) => Heard + 1 \in 1..Len(sent) /\ sent'[Heard + 1] = sent[Heard + 1]
  BY <1>1, <1>4
<1>6. "header" \in Overlapped /\ "content" \in Overlapped
  BY DEF Overlapped
<1>7. CASE UNCHANGED <<rd, read_buffer, rpos>>
  BY <1>1, <1>2, <1>3, <1>4, <1>5, <1>7
  DEF PositionInv, BetweenMessages, HeaderInHand, ContentInHand
<1>8. ASSUME NEW o \in Overlapped, rd[o] = "pending",
             rd' = [rd EXCEPT ![o] = "completed"],
             read_buffer' = Fetch(wire'[rpos + 1], o, read_size),
             rpos' = rpos + 1
      PROVE  PositionInv'
  <2>1. rd'[o] = "completed" /\ NoBytes
    BY <1>8 DEF TypeOK, ReadInv
  <2>2. CASE o = "header"
    <3>1. state = "Header" /\ pc # "callback"
      BY <1>8, <2>2 DEF ReadInv, Idle, Overlapped
    <3>2. rpos = 2 * Heard
      BY <1>3, <1>8, <2>2, <3>1 DEF PositionInv, HeaderInHand
    <3>3. Heard = Len(sent)
      BY <1>4, <2>1, <3>2, NothingAtFrame
    <3>4. Heard + 1 \in 1..Len(sent') /\ 2 * (Heard + 1) - 1 = rpos + 1
      BY <1>1, <1>4, <3>2, <3>3
    <3>5. wire'[2 * (Heard + 1) - 1] = [kind |-> "header", of |-> sent'[Heard + 1]]
      BY <1>1, <3>4 DEF WireInv
    <3>6. read_buffer' = [kind |-> "header", of |-> sent'[Heard + 1]]
      BY <1>8, <2>2, <3>4, <3>5 DEF Fetch
    <3> QED
      BY <1>1, <1>2, <1>4, <1>8, <2>1, <2>2, <3>1, <3>2, <3>3, <3>6
      DEF PositionInv, BetweenMessages, HeaderInHand, ContentInHand
  <2>3. CASE o = "content"
    <3>1. state = "Content" /\ pc # "callback"
      BY <1>8, <2>3 DEF ReadInv, Idle, Overlapped
    <3>2. /\ rpos = 2 * Heard + 1 /\ Heard < Len(sent)
          /\ sent[Heard + 1] = Empty /\ read_size = Length[Empty]
      BY <1>3, <1>8, <2>3, <3>1 DEF PositionInv, ContentInHand
    <3> QED
      BY <1>1, <1>2, <1>4, <1>5, <1>8, <2>1, <2>3, <3>1, <3>2
      DEF PositionInv, BetweenMessages, HeaderInHand, ContentInHand
  <2> QED
    BY <2>2, <2>3 DEF Overlapped
<1> QED
  BY <1>7, <1>8 DEF PeerWrite

\* A message is handed over: what is read so far is what has been delivered.
LEMMA PositionDelivers ==
  ASSUME TypeOK, WireInv, PositionInv, CallOnMessage, state' = state,
         state = "Content", pc # "exited", pc # "callback",
         rd["content"] # "pending", UNCHANGED <<link, wire, rpos>>
  PROVE  PositionInv'
<1>1. Heard' = Heard + 1 /\ Heard \in Nat
  BY PayloadIsData DEF CallOnMessage, TypeOK, Heard
<1>2. ReadRefused \/ rpos = 2 * Heard + 2
  BY DEF PositionInv, ContentInHand
<1>3. ReadRefused' \/ rpos' = 2 * Heard'
  BY <1>1, <1>2, RefusedStays
<1> QED
  BY <1>3 DEF PositionInv, BetweenMessages, HeaderInHand, ContentInHand, CallOnMessage

LEMMA PositionStep ==
  TypeOK /\ ThreadInv /\ ReadInv /\ WireInv /\ PositionInv /\ DeliveredInOrder
    /\ [Next]_vars => PositionInv'
<1> SUFFICES ASSUME TypeOK, ThreadInv, ReadInv, WireInv, PositionInv,
                    DeliveredInOrder, [Next]_vars
             PROVE  PositionInv'
  OBVIOUS
<1> USE DEF pipeVars, sockVars, watchVars, histVars
<1>0. /\ "header" \in Overlapped /\ "content" \in Overlapped
      /\ Heard <= Len(sent) /\ Heard \in Nat
  BY DEF Overlapped, DeliveredInOrder, TypeOK, Heard
<1>1. CASE UNCHANGED vars
  BY <1>1, PositionKept DEF vars, positionVars
<1>2. ASSUME NEW d \in Data, PeerWrite(d)
      PROVE  PositionInv'
  BY <1>2, PositionWrite
<1>3. CASE PeerEnd \/ PeerDisconnect
  BY <1>3, PositionCut DEF PeerEnd, PeerDisconnect
<1>4. CASE CheckLoop
  <2>1. CASE pc' = "exited"
    BY <2>1 DEF PositionInv
  <2>2. CASE pc' # "exited"
    BY <1>4, <2>2, PositionKept DEF CheckLoop, WatcherFrame, positionVars
  <2> QED
    BY <2>1, <2>2
<1>5. CASE ReadHeader
  <2>1. UNCHANGED <<link, wire, sent, delivered>> /\ pc' # "exited" /\ pc' # "callback"
    BY <1>5 DEF ReadHeader, WatcherFrame
  <2>2. Heard' = Heard
    BY <2>1 DEF Heard
  <2>3. CASE ReadRefused
    <3>1. ReadRefused' /\ state' = "Unknown"
      BY <1>5, <2>1, <2>3, RefusedStays DEF ReadHeader
    <3> QED
      BY <3>1 DEF PositionInv, BetweenMessages, HeaderInHand, ContentInHand
  <2>4. CASE ~ReadRefused
    <3>1. rpos = 2 * Heard
      BY <1>5, <2>4 DEF ReadHeader, PositionInv, BetweenMessages
    <3>2. BeginRead("header", HeaderSize) /\ state' = "Header"
      BY <1>5, <2>4 DEF ReadHeader
    <3>3. \/ rd'["header"] = "pending" /\ rpos' = 2 * Heard
          \/ /\ rd'["header"] # "pending" /\ rpos' = 2 * Heard + 1
             /\ Heard < Len(sent)
             /\ read_buffer' = [kind |-> "header", of |-> sent[Heard + 1]]
      BY <1>0, <3>1, <3>2, HeaderReadBegun
    <3> QED
      BY <2>1, <2>2, <3>2, <3>3 DEF PositionInv, BetweenMessages, HeaderInHand, ContentInHand
  <2> QED
    BY <2>3, <2>4
<1>6. CASE DeliverBuffered
  <2>1. CASE hooked
    BY <1>0, <1>6, <2>1, PositionDelivers DEF DeliverBuffered, WatcherFrame, ReadInv
  <2>2. CASE ~hooked
    BY <1>6, <2>2, PositionKept DEF DeliverBuffered, WatcherFrame, positionVars
  <2> QED
    BY <2>1, <2>2
<1>7. CASE GoWait \/ WaitTimesOut
  BY <1>7, PositionKept DEF GoWait, WaitTimesOut, WatcherFrame, positionVars
<1>8. CASE RunCompletions
  <2>1. /\ UNCHANGED <<pc, link, wire, rpos, state, read_buffer, read_size, sent, delivered>>
        /\ \A o \in Overlapped : rd'[o] = "pending" <=> rd[o] = "pending"
    BY <1>8 DEF RunCompletions, WatcherFrame, TypeOK
  <2> QED
    BY <1>0, <2>1
    DEF PositionInv, BetweenMessages, HeaderInHand, ContentInHand, ReadRefused, NoBytes, Heard
<1>9. CASE HeaderArrived
  <2>1. UNCHANGED <<link, wire, sent, delivered>> /\ pc = "wait" /\ pc' = "loop"
    BY <1>9 DEF HeaderArrived, WatcherFrame
  <2>2. Heard' = Heard
    BY <2>1 DEF Heard
  <2>3. state = "Header"
    BY <1>9 DEF HeaderArrived, ReadInv
  <2>4. PICK k \in MsgSizes :
          IF ReadRefused
          THEN state' = "Unknown" /\ UNCHANGED rpos
          ELSE state' = "Content" /\ BeginRead("content", k)
    BY <1>9 DEF HeaderArrived
  <2>5. CASE ReadRefused
    <3>1. ReadRefused' /\ state' = "Unknown"
      BY <2>1, <2>4, <2>5, RefusedStays
    <3> QED
      BY <3>1 DEF PositionInv, BetweenMessages, HeaderInHand, ContentInHand
  <2>6. CASE ~ReadRefused
    <3>1. /\ rpos = 2 * Heard + 1 /\ Heard < Len(sent)
          /\ read_buffer = [kind |-> "header", of |-> sent[Heard + 1]]
      BY <1>9, <2>1, <2>3, <2>6 DEF PositionInv, HeaderInHand, HeaderArrived
    <3>2. k = Length[sent[Heard + 1]]
      BY <3>1 DEF MsgSizes
    <3>3. /\ read_size' = Length[sent[Heard + 1]]
          /\ sent[Heard + 1] # Empty =>
               /\ rd'["content"] # "pending"
               /\ read_buffer' = [kind |-> "body", of |-> sent[Heard + 1]]
          /\ \/ rd'["content"] = "pending" /\ rpos' = 2 * Heard + 1
             \/ rd'["content"] # "pending" /\ rpos' = 2 * Heard + 2
      BY <2>4, <2>6, <3>1, <3>2, ContentReadBegun
    <3> QED
      BY <2>1, <2>2, <2>4, <2>6, <3>1, <3>3
      DEF PositionInv, BetweenMessages, HeaderInHand, ContentInHand
  <2> QED
    BY <2>5, <2>6
<1>10. CASE ContentArrived
  <2>1. /\ UNCHANGED <<link, wire, rpos, state, read_buffer, read_size, sent>>
        /\ pc = "wait" /\ state = "Content"
        /\ rd["content"] = "signalled" /\ rd' = Idle
    BY <1>10 DEF ContentArrived, WatcherFrame, ReadInv
  <2>2. CASE hooked
    BY <1>10, <2>1, <2>2, PositionDelivers DEF ContentArrived
  <2>3. CASE ~hooked
    <3>1. delivered' = delivered /\ pc' = "loop" /\ rd'["content"] = "idle"
      BY <1>0, <1>10, <2>1, <2>3 DEF ContentArrived, Idle
    <3> QED
      BY <2>1, <3>1
      DEF PositionInv, BetweenMessages, HeaderInHand, ContentInHand, ReadRefused, NoBytes, Heard
  <2> QED
    BY <2>2, <2>3
<1>11. CASE CallbackReturns
  <2>1. /\ UNCHANGED <<link, wire, rpos, delivered>>
        /\ pc = "callback" /\ pc' = "loop" /\ state' = "Unknown"
    BY <1>11 DEF CallbackReturns, WatcherFrame
  <2>2. ReadRefused' \/ rpos' = 2 * Heard'
    BY <2>1, RefusedStays DEF PositionInv, BetweenMessages, Heard
  <2> QED
    BY <2>1, <2>2 DEF PositionInv, BetweenMessages, HeaderInHand, ContentInHand
<1>12. CASE JoinOneself
  BY <1>12, PositionKept DEF JoinOneself, WatcherFrame, positionVars
<1>13. ASSUME NEW h \in BOOLEAN, Hook(h)
       PROVE  PositionInv'
  BY <1>13, PositionKept DEF Hook, positionVars
<1>14. ASSUME NEW r \in {"server", "client"}, Connect(r)
       PROVE  PositionInv'
  <2>1. CASE joinable
    BY <1>14, <2>1, PositionKept DEF Connect, positionVars
  <2>2. CASE ~joinable
    <3>1. rpos' = 0 /\ Heard' = 0 /\ state' = "Unknown"
      BY <1>14, <2>2 DEF Connect, Heard
    <3> QED
      BY <3>1 DEF PositionInv, BetweenMessages, HeaderInHand, ContentInHand
  <2> QED
    BY <2>1, <2>2
<1>15. ASSUME NEW u \in Users, CloseCall(u)
       PROVE  PositionInv'
  <2>1. CASE role = "server"
    BY <1>15, <2>1, PositionCut DEF CloseCall, UserFrame
  <2>2. CASE role # "server"
    BY <1>15, <2>2, PositionKept DEF CloseCall, UserFrame, positionVars
  <2> QED
    BY <2>1, <2>2
<1>16. ASSUME NEW u \in Users, Closing(u)
       PROVE  PositionInv'
  BY <1>16, PositionKept
  DEF Closing, Notify, Stop, TestJoinable, Join, Finish, UserFrame, positionVars
<1> QED
  BY <1>1, <1>2, <1>3, <1>4, <1>5, <1>6, <1>7, <1>8, <1>9, <1>10, <1>11, <1>12,
     <1>13, <1>14, <1>15, <1>16
  DEF Next, Step, Watcher

----------------------------------------------------------------------------
(* What the application is given, and the channel it sees *)

\* A step either leaves the channel alone or is one of the channel's own steps.
LEMMA ChannelStep == IInv /\ [Next]_vars => [Channel!Next]_(Channel!vars)
<1> SUFFICES ASSUME IInv, [Next]_vars
             PROVE  [Channel!Next]_(Channel!vars)
  OBVIOUS
<1> USE DEF IInv, pipeVars, sockVars, watchVars, histVars
<1>0. UNCHANGED <<is_connected, sent, delivered>> => UNCHANGED Channel!vars
  BY DEF Channel!vars
<1>1. CASE UNCHANGED vars
  BY <1>0, <1>1 DEF vars
<1>2. ASSUME NEW d \in Data, PeerWrite(d)
      PROVE  Channel!Send(d)
  BY <1>2 DEF PeerWrite, Channel!Send
<1>3. CASE PeerEnd \/ PeerDisconnect
  BY <1>0, <1>3 DEF PeerEnd, PeerDisconnect
<1>4. CASE CheckLoop \/ ReadHeader \/ GoWait \/ RunCompletions \/ WaitTimesOut
           \/ HeaderArrived \/ CallbackReturns \/ JoinOneself
  BY <1>0, <1>4 DEF CheckLoop, ReadHeader, GoWait, RunCompletions, WaitTimesOut,
                    HeaderArrived, CallbackReturns, JoinOneself, WatcherFrame
<1>5. CASE DeliverBuffered \/ ContentArrived
  <2>1. CASE ~hooked
    BY <1>0, <1>5, <2>1 DEF DeliverBuffered, ContentArrived, WatcherFrame
  <2>2. CASE hooked
    <3>1. /\ CallOnMessage /\ UNCHANGED <<is_connected, sent>>
          /\ pc # "exited" /\ pc # "callback"
      BY <1>5, <2>2 DEF DeliverBuffered, ContentArrived, WatcherFrame
    <3>2. state = "Content" /\ rd["content"] # "pending"
      BY <1>5 DEF DeliverBuffered, ContentArrived, ReadInv, Overlapped
    <3>3. Heard < Len(sent) /\ Payload = {sent[Heard + 1]}
      BY <3>1, <3>2, PayloadIsNext
    <3>4. delivered' = Append(delivered, sent[Heard + 1])
      BY <3>1, <3>3 DEF CallOnMessage
    <3>5. is_connected
      BY <3>1 DEF ThreadInv, TypeOK
    <3> QED
      BY <3>1, <3>3, <3>4, <3>5 DEF Channel!Next, Channel!Receive, Heard
  <2> QED
    BY <2>1, <2>2
<1>6. ASSUME NEW h \in BOOLEAN, Hook(h)
      PROVE  UNCHANGED Channel!vars
  BY <1>0, <1>6 DEF Hook
<1>7. ASSUME NEW r \in {"server", "client"}, Connect(r)
      PROVE  Channel!Open \/ UNCHANGED Channel!vars
  <2>1. CASE joinable
    BY <1>0, <1>7, <2>1 DEF Connect
  <2>2. CASE ~joinable
    <3>1. ~is_connected
      BY <1>7, <2>2 DEF Connect, ThreadInv
    <3> QED
      BY <1>7, <2>2, <3>1, Zenon DEF Connect, Channel!Open
  <2> QED
    BY <2>1, <2>2
<1>8. ASSUME NEW u \in Users, CloseCall(u) \/ Notify(u) \/ Stop(u) \/ TestJoinable(u) \/ Join(u)
      PROVE  UNCHANGED Channel!vars
  BY <1>0, <1>8 DEF CloseCall, Notify, Stop, TestJoinable, Join, UserFrame
<1>9. ASSUME NEW u \in Users, Finish(u)
      PROVE  Channel!Close \/ UNCHANGED Channel!vars
  <2>1. is_connected' = FALSE /\ UNCHANGED <<sent, delivered>>
    BY <1>9 DEF Finish, UserFrame
  <2>2. CASE is_connected
    BY <2>1, <2>2, Zenon DEF Channel!Close
  <2>3. CASE ~is_connected
    BY <1>0, <2>1, <2>3 DEF TypeOK
  <2> QED
    BY <2>2, <2>3
<1> QED
  BY <1>1, <1>2, <1>3, <1>4, <1>5, <1>6, <1>7, <1>8, <1>9
  DEF Next, Step, Watcher, Closing, Channel!Next

\* The channel never receives what was not sent, or out of order.
LEMMA DeliveredStep == IInv /\ [Next]_vars => DeliveredInOrder'
<1> SUFFICES ASSUME IInv, [Channel!Next]_(Channel!vars)
             PROVE  DeliveredInOrder'
  BY ChannelStep
<1>1. sent \in Seq(Data) /\ delivered \in Seq(Data) /\ DeliveredInOrder
  BY DEF IInv, TypeOK
<1>2. CASE UNCHANGED Channel!vars
  BY <1>1, <1>2 DEF Channel!vars, DeliveredInOrder
<1>3. CASE Channel!Open
  BY <1>3 DEF Channel!Open, DeliveredInOrder
<1>4. ASSUME NEW d \in Data, Channel!Send(d)
      PROVE  DeliveredInOrder'
  BY <1>1, <1>4 DEF Channel!Send, DeliveredInOrder
<1>5. CASE Channel!Receive
  <2>1. sent[Len(delivered) + 1] \in Data
    BY <1>1, <1>5 DEF Channel!Receive
  <2> QED
    BY <1>1, <1>5, <2>1 DEF Channel!Receive, DeliveredInOrder
<1>6. CASE Channel!Close
  BY <1>1, <1>6 DEF Channel!Close, DeliveredInOrder
<1> QED
  BY <1>2, <1>3, <1>4, <1>5, <1>6 DEF Channel!Next

----------------------------------------------------------------------------
(* on_close *)

\* The threads S that called on_close on this connection: each called it once, all that
\* have come past it in _disconnect did, none that is before it has, and a connection that
\* is over was closed by one of them.
Closers(S) ==
  /\ S \subseteq Users /\ Cardinality(S) = closes
  /\ \A u \in Users :
       /\ upc[u] \in {"stop", "join", "joining", "finish"} => u \in S
       /\ upc[u] = "notify" \/ (is_connected /\ upc[u] = "idle") => u \notin S
  /\ session > 0 /\ ~is_connected => S # {}

\* The watcher counts as none of them: it dies of its own call.
CloseInv == SelfJoin = {} \/ ~crashed => \E S : Closers(S)

LEMMA CloseStep ==
  IsFiniteSet(Users) => (TypeOK /\ CloseInv /\ [Next]_vars => CloseInv')
<1> SUFFICES ASSUME IsFiniteSet(Users), TypeOK, CloseInv, [Next]_vars,
                    SelfJoin = {} \/ ~crashed'
             PROVE  \E S : Closers(S)'
  BY DEF CloseInv
<1> USE DEF pipeVars, sockVars, watchVars, histVars
<1>1. CASE UNCHANGED vars
  BY <1>1 DEF CloseInv, Closers, vars
<1>2. CASE Next
  <2>1. PICK S : Closers(S)
    BY <1>2 DEF CloseInv, Next
  <2>2. CASE UNCHANGED <<upc, closes, is_connected, session>>
    BY <2>1, <2>2 DEF Closers
  <2>3. CASE Watcher
    BY <2>2, <2>3 DEF Watcher, CheckLoop, ReadHeader, DeliverBuffered, GoWait,
       RunCompletions, WaitTimesOut, HeaderArrived, ContentArrived, CallbackReturns,
       WatcherFrame, Quiet
  <2>4. CASE JoinOneself
    BY <2>4 DEF JoinOneself
  <2>5. CASE \/ \E d \in Data : PeerWrite(d)
             \/ PeerEnd \/ PeerDisconnect
             \/ \E h \in BOOLEAN : Hook(h)
    BY <2>2, <2>5 DEF PeerWrite, PeerEnd, PeerDisconnect, Hook
  <2>6. ASSUME NEW r \in {"server", "client"}, Connect(r)
        PROVE  \E Q : Closers(Q)'
    <3>1. CASE joinable
      BY <2>2, <2>6, <3>1 DEF Connect
    <3>2. CASE ~joinable
      <4>1. /\ closes' = 0 /\ is_connected' /\ upc' = upc
            /\ \A u \in Users : upc[u] = "idle"
        BY <2>6, <3>2 DEF Connect
      <4>2. Closers({})'
        BY <4>1, FS_EmptySet DEF Closers
      <4> QED
        BY <4>2
    <3> QED
      BY <3>1, <3>2
  <2>7. ASSUME NEW u \in Users, Notify(u)
        PROVE  \E Q : Closers(Q)'
    <3>1. /\ upc[u] = "notify" /\ upc' = [upc EXCEPT ![u] = "stop"]
          /\ closes' = closes + 1 /\ UNCHANGED <<is_connected, session>>
      BY <2>7 DEF Notify, UserFrame
    <3>2. /\ IsFiniteSet(S) /\ u \notin S
      BY <2>1, <3>1, FS_Subset DEF Closers
    <3>3. Cardinality(S \cup {u}) = closes'
      BY <2>1, <3>1, <3>2, FS_AddElement DEF Closers
    <3>4. Closers(S \cup {u})'
      BY <2>1, <3>1, <3>3 DEF Closers, TypeOK
    <3> QED
      BY <3>4
  <2>8. ASSUME NEW u \in Users, CloseCall(u) \/ Stop(u) \/ TestJoinable(u) \/ Join(u)
        PROVE  Closers(S)'
    <3>1. /\ UNCHANGED <<closes, is_connected, session>>
          /\ \A v \in Users : v # u => upc'[v] = upc[v]
      BY <2>8 DEF CloseCall, Stop, TestJoinable, Join, UserFrame, TypeOK
    <3>2. \/ upc[u] = "idle" /\ is_connected /\ upc'[u] = "notify"
          \/ /\ upc[u] \in {"stop", "join", "joining"}
             /\ upc'[u] \in {"join", "joining", "finish"}
      BY <2>8 DEF CloseCall, Stop, TestJoinable, Join, UserFrame, TypeOK
    <3> QED
      BY <2>1, <3>1, <3>2 DEF Closers
  <2>9. ASSUME NEW u \in Users, Finish(u)
        PROVE  Closers(S)'
    <3>1. /\ UNCHANGED <<closes, session>> /\ ~is_connected'
          /\ upc[u] = "finish" /\ upc'[u] = "idle"
          /\ \A v \in Users : v # u => upc'[v] = upc[v]
      BY <2>9 DEF Finish, UserFrame, TypeOK
    <3> QED
      BY <2>1, <3>1 DEF Closers
  <2> QED
    BY <1>2, <2>3, <2>4, <2>5, <2>6, <2>7, <2>8, <2>9 DEF Next, Step, Closing
<1> QED
  BY <1>1, <1>2

\* CloseInv holds in every reachable state.
LEMMA CloseInvariance == IsFiniteSet(Users) => (Spec => []CloseInv)
<1> SUFFICES ASSUME IsFiniteSet(Users) PROVE Spec => []CloseInv
  OBVIOUS
<1>1. Init => CloseInv
  <2>1. Init => Closers({})
    BY FS_EmptySet DEF Init, Closers
  <2> QED
    BY <2>1 DEF CloseInv
<1>2. TypeOK /\ CloseInv /\ [Next]_vars => CloseInv'
  BY CloseStep
<1> QED
  BY <1>1, <1>2, TypeCorrect, PTL DEF Spec

----------------------------------------------------------------------------
(* The theorems *)

\* IInv holds in every reachable state.
THEOREM Invariance == Spec => []IInv
<1>1. Init => IInv
  <2> SUFFICES ASSUME Init PROVE IInv
    OBVIOUS
  <2>1. TypeOK
    BY TypeInit
  <2>2. ThreadInv /\ ReadInv /\ PositionInv
    BY DEF Init, ThreadInv, ReadInv, PositionInv, Idle, Overlapped
  <2>3. WireInv /\ DeliveredInOrder
    BY DEF Init, WireInv, DeliveredInOrder
  <2> QED
    BY <2>1, <2>2, <2>3 DEF IInv
<1>2. IInv /\ [Next]_vars => IInv'
  BY TypeStep, ThreadStep, ReadStep, WireStep, PositionStep, DeliveredStep DEF IInv
<1> QED
  BY <1>1, <1>2, PTL DEF Spec

\* Messages reach on_message whole and in the order they were written, none twice
\* and none skipped, whatever the payloads, the number of messages and the number
\* of application threads that close the socket meanwhile.
THEOREM DeliveryCorrect == Spec => []DeliveredInOrder
<1>1. IInv => DeliveredInOrder
  BY DEF IInv
<1> QED
  BY <1>1, Invariance, PTL

\* A read in flight is always the one the watcher waits for.
THEOREM ReadsAwaited == Spec => []InFlightIsAwaited
<1>1. IInv => InFlightIsAwaited
  BY DEF IInv, ReadInv, InFlightIsAwaited, Overlapped
<1> QED
  BY <1>1, Invariance, PTL

\* A socket that is not good has no thread and no read in flight.
THEOREM NotGoodQuiet == Spec => []NotGoodMeansQuiet
<1>1. IInv => NotGoodMeansQuiet
  BY DEF IInv, ThreadInv, NotGoodMeansQuiet
<1> QED
  BY <1>1, Invariance, PTL

\* However many threads close a socket at once, a connection's on_close is called by each
\* of them once at most (socket.cpp:42-50): the test of is_connected and the call are not
\* one step, so several may call it, but none twice, and a connection that is over was
\* announced.  A watcher that enters _disconnect itself does not live to break this.
CloseOncePerThread ==
  ~crashed => /\ closes <= Cardinality(Users)
              /\ session > 0 /\ ~is_connected => closes >= 1

THEOREM NoThreadClosesTwice == IsFiniteSet(Users) => (Spec => []CloseOncePerThread)
<1> SUFFICES ASSUME IsFiniteSet(Users) PROVE Spec => []CloseOncePerThread
  OBVIOUS
<1>1. CloseInv => CloseOncePerThread
  <2> SUFFICES ASSUME CloseInv, ~crashed
               PROVE  /\ closes <= Cardinality(Users)
                      /\ session > 0 /\ ~is_connected => closes >= 1
    BY DEF CloseOncePerThread
  <2>1. PICK S : Closers(S)
    BY DEF CloseInv
  <2>2. IsFiniteSet(S) /\ closes = Cardinality(S) /\ closes <= Cardinality(Users)
    BY <2>1, FS_Subset DEF Closers
  <2>3. closes \in Nat /\ (S # {} => closes # 0)
    BY <2>2, FS_CardinalityType, FS_EmptySet
  <2> QED
    BY <2>1, <2>2, <2>3 DEF Closers
<1> QED
  BY <1>1, CloseInvariance, PTL

\* With one application thread that closes the socket, and none of its calls coming from
\* the watcher, on_close is called once for each connection.
THEOREM CloseAnnouncedOnce ==
  SelfJoin = {} /\ (\E u : Users = {u}) => (Spec => []OnCloseOnce)
<1> SUFFICES ASSUME SelfJoin = {}, NEW u, Users = {u} PROVE Spec => []OnCloseOnce
  OBVIOUS
<1>1. IsFiniteSet(Users)
  BY FS_Singleton
<1>2. CloseInv => OnCloseOnce
  <2> SUFFICES ASSUME CloseInv PROVE OnCloseOnce
    OBVIOUS
  <2>1. PICK S : Closers(S)
    BY DEF CloseInv
  <2>2. S = {} \/ S = {u}
    BY <2>1 DEF Closers
  <2>3. closes = IF S = {} THEN 0 ELSE 1
    BY <2>1, <2>2, FS_EmptySet, FS_Singleton DEF Closers
  <2> QED
    BY <2>1, <2>3 DEF Closers, OnCloseOnce
<1> QED
  BY <1>1, <1>2, CloseInvariance, PTL

\* The socket implements the channel: the initial states map to initial states, and
\* every step to a step of the channel or to a stutter.
THEOREM Refinement == Spec => ImplementsChannel
<1>1. Init => Channel!Init
  BY DEF Init, Channel!Init
<1>2. IInv /\ [Next]_vars => [Channel!Next]_(Channel!vars)
  BY ChannelStep
<1> QED
  BY <1>1, <1>2, Invariance, PTL DEF Spec, ImplementsChannel, Channel!Spec
=============================================================================
