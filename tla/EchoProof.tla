------------------------------ MODULE EchoProof ------------------------------
(***************************************************************************)
(* Theorems about the samples, for every number of messages and every limit  *)
(* of a wait.                                                              *)
(***************************************************************************)
EXTENDS Echo, SequenceTheorems, TLAPS

\* The message in the server's hands.
InHand == IF echo = "write" THEN <<hand>> ELSE <<>>

\* The numbers up to n.
First(n) == [m \in 1..n |-> m]

\* The server writes a message it has read.
HandFull == echo \in {"write", "push"} => hand \in Messages

Shape == TypeOK /\ HandFull

\* Where main, the watchers and the pipe are, relative to each other.
Places ==
  /\ main \in {"serve", "connect"} <=> pipe = "none"
  /\ pipe = "cut" => main \notin {"serve", "connect", "start", "hook", "input", "join", "drop"}
  /\ main \in {"serve", "connect", "start"} => sender = "none"
  /\ main \in {"drop", "server", "shutdown", "close", "on_close", "joined", "done"} =>
       sender = "ended"
  /\ main \in {"shutdown", "close", "on_close", "joined"} => echo \in {"idle", "write", "push"}
  /\ main \in {"on_close", "joined"} => watcher = "ended"
  /\ echo = "ended" => main \in {"server", "done"}
  /\ echo # "none" => pipe # "none"

\* Everything that is on its way or has returned.
Way == received \o down \o InHand \o up

\* NothingLostOrTwice, in the words of this module.
Flow == pipe # "cut" => Way = First(sent)

\* The members are there until the client goes, and if nothing is due then and handle_message
\* has returned, it is not called again.
Quiet ==
  /\ main \in {"serve", "connect", "start", "hook", "input", "join"} => ~touched
  /\ main = "drop" /\ ~early => Len(received) >= sent /\ listener # "track"

Listening == listener \in {"idle", "track"}

\* The client's socket is there while main has its pipe, and nothing is sent before.
Ears ==
  /\ Listening => main \in {"start", "hook", "input", "join", "drop"}
  /\ sender = "none" => sent = 0

\* What Socket promises of one end, seen from the client: the server is the peer, and what it
\* sends are the client's own messages.
RoundTrip == INSTANCE MessageChannel
  WITH Data <- Messages, open <- Listening, sent <- First(sent)

----------------------------------------------------------------------------
(* Sequences *)

LEMMA FirstIsSeq ==
  ASSUME NEW n \in 0..Count
  PROVE  First(n) \in Seq(Messages) /\ Len(First(n)) = n
<1>1. n \in Nat /\ First(n) \in [1..n -> Messages]
  BY EchoAssumption DEF First, Messages
<1> QED
  BY <1>1, SeqDef

LEMMA FirstAppend ==
  ASSUME NEW n \in Nat, n < Count
  PROVE  Append(First(n), n + 1) = First(n + 1)
<1>1. First(n) \in Seq(Messages) /\ Len(First(n)) = n
  BY FirstIsSeq, EchoAssumption
<1>2. First(n + 1) \in Seq(Messages) /\ Len(First(n + 1)) = n + 1
  BY FirstIsSeq, EchoAssumption
<1>3. n + 1 \in Messages
  BY EchoAssumption DEF Messages
<1>4. /\ Append(First(n), n + 1) \in Seq(Messages)
      /\ Len(Append(First(n), n + 1)) = n + 1
      /\ \A i \in 1..n : Append(First(n), n + 1)[i] = First(n)[i]
      /\ Append(First(n), n + 1)[n + 1] = n + 1
  BY <1>1, <1>3, AppendProperties
<1>5. \A i \in 1..(n + 1) : Append(First(n), n + 1)[i] = First(n + 1)[i]
  BY <1>4 DEF First
<1> QED
  BY <1>2, <1>4, <1>5, SeqEqual

LEMMA HeadMoves ==
  ASSUME NEW S, NEW s \in Seq(S), NEW t \in Seq(S), t # <<>>
  PROVE  Append(s, Head(t)) \o Tail(t) = s \o t
<1>1. Head(t) \in S /\ Tail(t) \in Seq(S) /\ t = <<Head(t)>> \o Tail(t)
  <2>1. /\ Head(t) \in S /\ Tail(t) \in Seq(S) /\ Len(Tail(t)) = Len(t) - 1
        /\ \A i \in 1..Len(Tail(t)) : Tail(t)[i] = t[i + 1]
    BY HeadTailProperties
  <2>2. <<Head(t)>> \in Seq(S) /\ Len(<<Head(t)>>) = 1 /\ <<Head(t)>>[1] = t[1]
    BY <2>1
  <2>3. Len(t) \in Nat \ {0}
    BY EmptySeq
  <2>4. /\ <<Head(t)>> \o Tail(t) \in Seq(S)
        /\ Len(<<Head(t)>> \o Tail(t)) = 1 + Len(Tail(t))
        /\ \A i \in 1..(1 + Len(Tail(t))) : (<<Head(t)>> \o Tail(t))[i] =
             IF i <= 1 THEN <<Head(t)>>[i] ELSE Tail(t)[i - 1]
    BY <2>1, <2>2, ConcatProperties
  <2>5. \A i \in 1..Len(t) : t[i] = (<<Head(t)>> \o Tail(t))[i]
    BY <2>1, <2>2, <2>3, <2>4
  <2> QED
    BY <2>1, <2>3, <2>4, <2>5, SeqEqual
<1>2. Append(s, Head(t)) = s \o <<Head(t)>>
  BY <1>1, AppendIsConcat
<1>3. <<Head(t)>> \in Seq(S)
  BY <1>1
<1> QED
  BY <1>1, <1>2, <1>3, ConcatAssociative

LEMMA AppendMoves ==
  ASSUME NEW S, NEW s \in Seq(S), NEW t \in Seq(S), NEW e \in S
  PROVE  s \o Append(t, e) = Append(s \o t, e)
<1>1. <<e>> \in Seq(S) /\ s \o t \in Seq(S)
  BY ConcatProperties
<1> QED
  BY <1>1, AppendIsConcat, ConcatAssociative

----------------------------------------------------------------------------
(* Types *)

LEMMA ShapeInit == Init => Shape
<1> SUFFICES ASSUME Init PROVE Shape
  OBVIOUS
<1> USE EchoAssumption DEF Init
<1>1. /\ hosting \in BOOLEAN /\ stop \in BOOLEAN /\ can_send_msg \in BOOLEAN
      /\ hooked \in BOOLEAN /\ shutdown \in BOOLEAN /\ overfull \in BOOLEAN
      /\ overtaken \in BOOLEAN /\ freed \in BOOLEAN /\ early \in BOOLEAN
      /\ touched \in BOOLEAN /\ broken \in BOOLEAN
  BY Zenon
<1>2. written \in [Messages -> {"none", "pending", "queued", "set", "taken"}]
  OBVIOUS
<1>3. /\ up \in Seq(Messages) /\ down \in Seq(Messages) /\ received \in Seq(Messages)
      /\ tasks \in Seq(Messages) /\ waits \in Seq(Messages)
  BY EmptySeq
<1> QED
  BY <1>1, <1>2, <1>3 DEF Shape, HandFull, TypeOK

LEMMA SenderShape ==
  ASSUME Shape, Sender
  PROVE  Shape'
<1> USE EchoAssumption
    DEF Shape, HandFull, TypeOK, SendFrame, hearVars, echoVars, watchVars, histVars, Messages
<1>1. CASE Send
  BY <1>1, AppendProperties DEF Send, WriteNext
<1>2. CASE SendWhenReturned
  BY <1>2, AppendProperties DEF SendWhenReturned, WriteNext
<1>3. CASE ResetFlag
  <2>1. can_send_msg' \in BOOLEAN
    BY <1>3, Zenon DEF ResetFlag
  <2> QED
    BY <1>3, <2>1 DEF ResetFlag
<1>4. CASE WaitSent
  BY <1>4 DEF WaitSent
<1>5. CASE EndSender
  <2>1. freed' \in BOOLEAN
    BY <1>5, Zenon DEF EndSender
  <2> QED
    BY <1>5, <2>1 DEF EndSender
<1> QED
  BY <1>1, <1>2, <1>3, <1>4, <1>5 DEF Sender

LEMMA HearShape ==
  ASSUME Shape, HandleMessage
  PROVE  Shape'
<1> USE DEF Shape, HandFull, TypeOK, HearFrame, echoVars, watchVars
<1>1. CASE Hear
  <2>1. Head(down) \in Messages /\ Tail(down) \in Seq(Messages)
    BY <1>1, HeadTailProperties DEF Hear
  <2>2. overtaken' \in BOOLEAN
    BY <1>1, Zenon DEF Hear
  <2> QED
    BY <1>1, <2>1, <2>2, AppendProperties DEF Hear
<1>2. CASE Track(Benchmark)
  <2>1. touched' \in BOOLEAN
    BY <1>2, Zenon DEF Track
  <2> QED
    BY <1>2, <2>1 DEF Track
<1> QED
  BY <1>1, <1>2 DEF HandleMessage

LEMMA EchoShape ==
  ASSUME Shape, EchoThread
  PROVE  Shape'
<1> USE DEF Shape, HandFull, TypeOK, EchoFrame, clientVars, hearVars, echoVars, watchVars, histVars
<1>1. CASE ReadMessage
  <2>1. Head(up) \in Messages /\ Tail(up) \in Seq(Messages)
    BY <1>1, HeadTailProperties DEF ReadMessage
  <2> QED
    BY <1>1, <2>1, EchoAssumption DEF ReadMessage, Messages
<1>2. CASE EchoWrite
  <2>1. hand \in Messages /\ down \in Seq(Messages) /\ hand \in 0..Count
    BY <1>2 DEF EchoWrite
  <2>2. Append(down, hand) \in Seq(Messages)
    BY <2>1, AppendProperties
  <2>3. CASE pipe = "up"
    <3>1. written' \in [Messages -> {"none", "pending", "queued", "set", "taken"}]
      BY <1>2, <2>3 DEF EchoWrite
    <3>2. down' \in Seq(Messages) /\ hand' = hand /\ echo' = "push"
      BY <1>2, <2>2, <2>3 DEF EchoWrite
    <3> QED
      BY <1>2, <2>1, <3>1, <3>2 DEF EchoWrite
  <2>4. CASE pipe # "up"
    BY <1>2, <2>4, EchoAssumption DEF EchoWrite
  <2> QED
    BY <2>3, <2>4
<1>3. CASE EchoPush
  BY <1>3, AppendProperties, EchoAssumption DEF EchoPush
<1>4. CASE RunRoutines
  BY <1>4 DEF RunRoutines
<1> QED
  BY <1>1, <1>2, <1>3, <1>4 DEF EchoThread

LEMMA WatcherShape ==
  ASSUME Shape, Watcher
  PROVE  Shape'
<1> USE DEF Shape, HandFull, TypeOK, WatchFrame, clientVars, hearVars, echoVars, ioVars
<1>1. CASE Snapshot
  <2>1. TakeSome(tasks) \in Seq(Messages)
    BY EchoAssumption DEF TakeSome
  <2> QED
    BY <1>1, <2>1 DEF Snapshot
<1>2. CASE WaitAny
  <2>1. found' \in Messages
    BY <1>2 DEF WaitAny
  <2>2. written' \in [Messages -> {"none", "pending", "queued", "set", "taken"}]
    BY <1>2 DEF WaitAny
  <2>3. found' \in 0..Count
    BY <2>1, EchoAssumption DEF Messages
  <2> QED
    BY <1>2, <2>2, <2>3 DEF WaitAny
<1>3. CASE WaitAnyFails
  BY <1>3 DEF WaitAnyFails
<1>4. CASE Erase
  <2>1. tasks' \in Seq(Messages)
    <3>1. PICK i \in DOMAIN tasks :
            tasks' = SubSeq(tasks, 1, i - 1) \o SubSeq(tasks, i + 1, Len(tasks))
      BY <1>4 DEF Erase
    <3>2. tasks \in Seq(Messages) /\ i \in 1..Len(tasks) /\ Len(tasks) \in Nat
      BY <3>1, LenProperties DEF Shape, TypeOK
    <3>3. \A k \in 1..Len(tasks) : tasks[k] \in Messages
      BY <3>2, ElementOfSeq
    <3>4. SubSeq(tasks, 1, i - 1) \in Seq(Messages)
      BY <3>2, <3>3, SubSeqProperties
    <3>5. SubSeq(tasks, i + 1, Len(tasks)) \in Seq(Messages)
      BY <3>2, <3>3, SubSeqProperties
    <3> QED
      BY <3>1, <3>4, <3>5, ConcatProperties
  <2> QED
    BY <1>4, <2>1, EchoAssumption DEF Erase
<1>5. CASE EndWatcher
  BY <1>5 DEF EndWatcher
<1> QED
  BY <1>1, <1>2, <1>3, <1>4, <1>5 DEF Watcher

LEMMA SystemShape ==
  ASSUME Shape, FinishSend \/ FinishEcho \/ HandleAccept
  PROVE  Shape'
<1> USE DEF Shape, HandFull, TypeOK, clientVars, hearVars, echoVars, watchVars, ioVars, histVars
<1>1. CASE FinishSend
  BY <1>1 DEF FinishSend
<1>2. CASE FinishEcho
  BY <1>2 DEF FinishEcho
<1>3. CASE HandleAccept
  <2>1. shutdown' \in BOOLEAN
    BY <1>3, Zenon DEF HandleAccept
  <2> QED
    BY <1>3, <2>1 DEF HandleAccept
<1> QED
  BY <1>1, <1>2, <1>3

LEMMA MainShape ==
  ASSUME Shape, Main \/ Key
  PROVE  Shape'
<1> USE DEF Shape, HandFull, TypeOK, MainFrame, echoVars, watchVars, histVars
<1>1. CASE Host
  BY <1>1 DEF Host
<1>2. CASE Connect
  BY <1>2 DEF Connect
<1>3. CASE StartSender
  <2>1. stop' \in BOOLEAN
    BY <1>3, Zenon DEF StartSender
  <2> QED
    BY <1>3, <2>1 DEF StartSender
<1>4. CASE HookMessages
  BY <1>4 DEF HookMessages
<1>5. CASE Key
  BY <1>5 DEF Key
<1>6. CASE DestroyMembers
  BY <1>6 DEF DestroyMembers
<1>7. CASE DropClient
  BY <1>7 DEF DropClient
<1>8. CASE CloseServer
  <2>1. hosting' \in BOOLEAN
    BY <1>8, Zenon DEF CloseServer
  <2> QED
    BY <1>8, <2>1 DEF CloseServer
<1>9. CASE Shutdown
  BY <1>9 DEF Shutdown
<1>10. CASE CloseSocket
  BY <1>10 DEF CloseSocket, Cut
<1>11. CASE HandleClose
  <2>1. broken' \in BOOLEAN
    BY <1>11, Zenon DEF HandleClose, HandleCloseErases
  <2> QED
    BY <1>11, <2>1 DEF HandleClose, HandleCloseErases
<1>12. CASE DestroyServerClient
  BY <1>12 DEF DestroyServerClient
<1> QED
  BY <1>1, <1>2, <1>3, <1>4, <1>5, <1>6, <1>7, <1>8, <1>9, <1>10, <1>11, <1>12 DEF Main

LEMMA ShapeStep == Shape /\ [Next]_vars => Shape'
<1> SUFFICES ASSUME Shape, [Next]_vars PROVE Shape'
  OBVIOUS
<1>1. CASE Next
  BY <1>1, SenderShape, HearShape, EchoShape, WatcherShape, SystemShape, MainShape DEF Next
<1>2. CASE UNCHANGED vars
  BY <1>2 DEF vars, clientVars, hearVars, echoVars, watchVars, ioVars, histVars,
              Shape, HandFull, TypeOK
<1> QED
  BY <1>1, <1>2

\* Every variable of the samples keeps its type (both main.cpp), for any number of messages.
THEOREM TypeCorrect == Spec => []TypeOK
<1>1. Shape => TypeOK
  BY DEF Shape
<1> QED
  BY <1>1, ShapeInit, ShapeStep, PTL DEF Spec

----------------------------------------------------------------------------
(* Places *)

LEMMA PlacesInit == Init => Places
  BY DEF Init, Places

LEMMA ThreadsPlaces ==
  ASSUME Shape, Places,
         Sender \/ HandleMessage \/ EchoThread \/ Watcher \/ FinishSend \/ FinishEcho
           \/ HandleAccept
  PROVE  Places'
<1> USE DEF Places, clientVars, hearVars, echoVars, watchVars, ioVars, histVars
<1>1. CASE Sender
  <2> USE DEF SendFrame
  <2>1. CASE Send \/ SendWhenReturned
    BY <2>1 DEF Send, SendWhenReturned, WriteNext
  <2>2. CASE ResetFlag \/ WaitSent
    BY <2>2 DEF ResetFlag, WaitSent
  <2>3. CASE EndSender
    BY <2>3 DEF EndSender
  <2> QED
    BY <1>1, <2>1, <2>2, <2>3 DEF Sender
<1>2. CASE HandleMessage
  BY <1>2 DEF HandleMessage, Hear, Track, HearFrame
<1>3. CASE EchoThread
  BY <1>3 DEF EchoThread, ReadMessage, EchoWrite, EchoPush, RunRoutines, EchoFrame
<1>4. CASE Watcher
  <2> USE DEF WatchFrame
  <2>1. CASE Snapshot
    BY <2>1 DEF Snapshot
  <2>2. CASE WaitAny \/ WaitAnyFails
    BY <2>2 DEF WaitAny, WaitAnyFails
  <2>3. CASE Erase
    BY <2>3 DEF Erase
  <2>4. CASE EndWatcher
    BY <2>4 DEF EndWatcher
  <2> QED
    BY <1>4, <2>1, <2>2, <2>3, <2>4 DEF Watcher
<1>5. CASE FinishSend \/ FinishEcho
  BY <1>5 DEF FinishSend, FinishEcho
<1>6. CASE HandleAccept
  BY <1>6 DEF HandleAccept
<1> QED
  BY <1>1, <1>2, <1>3, <1>4, <1>5, <1>6

LEMMA MainPlaces ==
  ASSUME Shape, Places, Main \/ Key
  PROVE  Places'
<1> USE DEF Shape, TypeOK, Places, MainFrame, echoVars, watchVars, histVars
<1>1. CASE Host \/ Connect \/ StartSender \/ HookMessages \/ Key
  BY <1>1 DEF Host, Connect, StartSender, HookMessages, Key
<1>2. CASE DestroyMembers
  BY <1>2 DEF DestroyMembers
<1>3. CASE DropClient
  BY <1>3 DEF DropClient
<1>4. CASE CloseServer
  BY <1>4 DEF CloseServer
<1>5. CASE Shutdown
  BY <1>5 DEF Shutdown
<1>6. CASE CloseSocket
  BY <1>6 DEF CloseSocket, Cut
<1>7. CASE HandleClose
  BY <1>7 DEF HandleClose, HandleCloseErases
<1>8. CASE DestroyServerClient
  BY <1>8 DEF DestroyServerClient
<1> QED
  BY <1>1, <1>2, <1>3, <1>4, <1>5, <1>6, <1>7, <1>8 DEF Main

LEMMA PlacesStep == Shape /\ Places /\ [Next]_vars => Places'
<1> SUFFICES ASSUME Shape, Places, [Next]_vars PROVE Places'
  OBVIOUS
<1>1. CASE Next
  BY <1>1, ThreadsPlaces, MainPlaces DEF Next
<1>2. CASE UNCHANGED vars
  BY <1>2 DEF vars, clientVars, hearVars, echoVars, watchVars, ioVars, histVars, Places
<1> QED
  BY <1>1, <1>2

----------------------------------------------------------------------------
(* The pointers of the server's watcher *)

LEMMA AliveStep == Shape /\ Places /\ WaitsAlive /\ [Next]_vars => WaitsAlive'
<1> SUFFICES ASSUME Shape, Places, WaitsAlive, [Next]_vars PROVE WaitsAlive'
  OBVIOUS
<1> USE DEF WaitsAlive
<1>1. (watcher' = watcher /\ waits' = waits /\ tasks' = tasks) => WaitsAlive'
  OBVIOUS
<1>2. CASE Sender \/ HandleMessage \/ FinishSend \/ FinishEcho
  BY <1>1, <1>2 DEF Sender, Send, SendWhenReturned, ResetFlag, WaitSent, EndSender, SendFrame,
     HandleMessage, Hear, Track, HearFrame, FinishSend, FinishEcho, watchVars
<1>3. CASE EchoPush
  <2>1. hand \in Messages /\ tasks' = Append(tasks, hand) /\ tasks \in Seq(Messages)
    BY <1>3 DEF EchoPush, Shape, HandFull, TypeOK
  <2>2. Entries(tasks) \subseteq Entries(tasks')
    BY <2>1, AppendProperties, LenProperties DEF Entries
  <2> QED
    BY <1>3, <2>2 DEF EchoPush, EchoFrame, watchVars
<1>4. CASE ReadMessage \/ EchoWrite \/ RunRoutines
  BY <1>1, <1>4 DEF ReadMessage, EchoWrite, RunRoutines, EchoFrame, watchVars
<1>5. CASE Snapshot
  <2>1. tasks \in Seq(Messages)
    BY DEF Shape, TypeOK
  <2>2. Entries(TakeSome(tasks)) \subseteq Entries(tasks)
    <3>1. CASE Len(tasks) > MaxWait
      <4>1. /\ DOMAIN SubSeq(tasks, 1, MaxWait) = 1..MaxWait
            /\ \A i \in 1..MaxWait : SubSeq(tasks, 1, MaxWait)[i] = tasks[i]
        BY <2>1, <3>1, EchoAssumption
      <4>2. 1..MaxWait \subseteq DOMAIN tasks
        BY <2>1, <3>1, EchoAssumption
      <4> QED
        BY <3>1, <4>1, <4>2 DEF Entries, TakeSome
    <3>2. CASE ~(Len(tasks) > MaxWait)
      BY <3>2 DEF TakeSome
    <3> QED
      BY <3>1, <3>2
  <2> QED
    BY <1>5, <2>2 DEF Snapshot
<1>6. CASE WaitAny
  BY <1>6 DEF WaitAny
<1>7. CASE WaitAnyFails \/ Erase \/ EndWatcher
  BY <1>7 DEF WaitAnyFails, Erase, EndWatcher
<1>8. CASE HandleAccept
  BY <1>8 DEF HandleAccept
<1>9. CASE DestroyServerClient
  BY <1>9 DEF DestroyServerClient, Places, watchVars
<1>10. CASE Host \/ Connect \/ StartSender \/ HookMessages \/ Key \/ DestroyMembers
            \/ DropClient \/ CloseServer \/ CloseSocket \/ HandleClose
  BY <1>1, <1>10 DEF Host, Connect, StartSender, HookMessages, Key, DestroyMembers, DropClient,
     CloseServer, CloseSocket, Cut, HandleClose, HandleCloseErases, watchVars
<1>11. CASE Shutdown
  BY <1>1, <1>11 DEF Shutdown
<1>12. CASE UNCHANGED vars
  BY <1>1, <1>12 DEF vars, watchVars
<1> QED
  BY <1>2, <1>3, <1>4, <1>5, <1>6, <1>7, <1>8, <1>9, <1>10, <1>11, <1>12
  DEF Next, EchoThread, Watcher, Main

LEMMA AliveInit == Init => WaitsAlive
  BY DEF Init, WaitsAlive

\* The server's watcher waits only on tasks that are on its list (single-process-ipc
\* /main.cpp:98-124), whatever the other threads do, however many messages there are.
THEOREM NoStalePointer == Spec => []WaitsAlive
<1>1. Init => Shape /\ Places /\ WaitsAlive
  BY ShapeInit, PlacesInit, AliveInit
<1>2. Shape /\ Places /\ WaitsAlive /\ [Next]_vars => (Shape /\ Places /\ WaitsAlive)'
  BY ShapeStep, PlacesStep, AliveStep
<1> QED
  BY <1>1, <1>2, PTL DEF Spec

----------------------------------------------------------------------------
(* The messages *)

LEMMA PartsAreSeqs ==
  ASSUME Shape
  PROVE  /\ received \in Seq(Messages) /\ down \in Seq(Messages) /\ up \in Seq(Messages)
         /\ InHand \in Seq(Messages) /\ received \o down \in Seq(Messages)
         /\ received \o down \o InHand \in Seq(Messages) /\ Way \in Seq(Messages)
<1>1. received \in Seq(Messages) /\ down \in Seq(Messages) /\ up \in Seq(Messages)
  BY DEF Shape, TypeOK
<1>2. InHand \in Seq(Messages)
  BY DEF Shape, HandFull, InHand
<1>3. received \o down \in Seq(Messages)
  BY <1>1, ConcatProperties
<1>4. received \o down \o InHand \in Seq(Messages)
  BY <1>2, <1>3, ConcatProperties
<1> QED
  BY <1>1, <1>2, <1>3, <1>4, ConcatProperties DEF Way

LEMMA FlowSame ==
  ASSUME Flow, UNCHANGED <<received, down, InHand, up, sent>>, pipe' # "cut" => pipe # "cut"
  PROVE  Flow'
  BY DEF Flow, Way

LEMMA SenderFlow ==
  ASSUME Shape, Places, Flow, Sender
  PROVE  Flow'
<1> USE DEF SendFrame, hearVars, echoVars, histVars
<1>1. UNCHANGED <<received, down, InHand, pipe>>
  BY DEF Sender, Send, SendWhenReturned, ResetFlag, WaitSent, EndSender, InHand
<1>2. CASE Send \/ SendWhenReturned
  <2>1. up' = Append(up, sent + 1) /\ sent' = sent + 1 /\ sent < Count
    BY <1>2 DEF Send, SendWhenReturned, WriteNext
  <2>2. sent \in Nat /\ sent + 1 \in Messages
    BY <2>1, EchoAssumption DEF Shape, TypeOK, Messages
  <2>3. Way' = Append(Way, sent + 1)
    BY <1>1, <2>1, <2>2, PartsAreSeqs, AppendMoves DEF Way
  <2> QED
    BY <1>1, <2>1, <2>2, <2>3, FirstAppend DEF Flow, Way
<1>3. CASE ResetFlag \/ WaitSent \/ EndSender
  BY <1>1, <1>3, FlowSame DEF ResetFlag, WaitSent, EndSender
<1> QED
  BY <1>2, <1>3 DEF Sender

LEMMA HearFlow ==
  ASSUME Shape, Flow, HandleMessage
  PROVE  Flow'
<1> USE DEF HearFrame, echoVars
<1>1. CASE Hear
  <2>1. /\ down # <<>> /\ received' = Append(received, Head(down)) /\ down' = Tail(down)
        /\ UNCHANGED <<up, InHand, sent, pipe>>
    BY <1>1 DEF Hear, InHand
  <2>2. received' \o down' = received \o down
    BY <2>1, PartsAreSeqs, HeadMoves
  <2> QED
    BY <2>1, <2>2 DEF Flow, Way
<1>2. CASE Track(Benchmark)
  BY <1>2, FlowSame DEF Track, InHand
<1> QED
  BY <1>1, <1>2 DEF HandleMessage

LEMMA EchoFlow ==
  ASSUME Shape, Places, Flow, EchoThread
  PROVE  Flow'
<1> USE DEF EchoFrame, clientVars, hearVars, histVars
<1>1. CASE ReadMessage
  <2>1. /\ up # <<>> /\ up' = Tail(up) /\ InHand = <<>> /\ InHand' = <<Head(up)>>
        /\ UNCHANGED <<received, down, sent, pipe>>
    BY <1>1 DEF ReadMessage, InHand
  <2>2. Head(up) \in Messages
    BY <2>1, PartsAreSeqs, HeadTailProperties
  <2>3. received \o down \o InHand = received \o down
    BY <2>1, PartsAreSeqs, ConcatEmptySeq
  <2>4. received \o down \o <<Head(up)>> = Append(received \o down, Head(up))
    BY <2>2, PartsAreSeqs, AppendIsConcat
  <2>5. Append(received \o down, Head(up)) \o Tail(up) = received \o down \o up
    BY <2>1, PartsAreSeqs, HeadMoves
  <2>6. Way' = Way
    BY <2>1, <2>3, <2>4, <2>5 DEF Way
  <2> QED
    BY <2>1, <2>6 DEF Flow, Way
<1>2. CASE EchoWrite /\ pipe = "up"
  <2>1. /\ down' = Append(down, hand) /\ InHand = <<hand>> /\ InHand' = <<>>
        /\ UNCHANGED <<received, up, sent, pipe>>
    BY <1>2 DEF EchoWrite, InHand
  <2>2. hand \in Messages
    BY <1>2 DEF EchoWrite, Shape, HandFull
  <2>3. received \o Append(down, hand) = Append(received \o down, hand)
    BY <2>2, PartsAreSeqs, AppendMoves
  <2>4. Append(received \o down, hand) = received \o down \o InHand
    BY <2>1, <2>2, PartsAreSeqs, AppendIsConcat
  <2>5. received' \o down' \o InHand' = received \o down \o InHand
    BY <2>1, <2>3, <2>4, PartsAreSeqs, ConcatEmptySeq
  <2> QED
    BY <2>1, <2>5 DEF Flow, Way
<1>3. CASE EchoWrite /\ pipe # "up"
  <2>1. pipe = "cut" /\ pipe' = pipe
    BY <1>3 DEF EchoWrite, Places, Shape, TypeOK
  <2> QED
    BY <2>1 DEF Flow, Way
<1>4. CASE EchoPush \/ RunRoutines
  BY <1>4, FlowSame DEF EchoPush, RunRoutines, InHand, echoVars
<1> QED
  BY <1>1, <1>2, <1>3, <1>4 DEF EchoThread

LEMMA OtherFlow ==
  ASSUME Shape, Places, Flow,
         Watcher \/ FinishSend \/ FinishEcho \/ HandleAccept \/ Main \/ Key
  PROVE  Flow'
<1> USE DEF echoVars, ioVars, clientVars, hearVars, histVars
<1>1. CASE Watcher
  BY <1>1, FlowSame
  DEF Watcher, Snapshot, WaitAny, WaitAnyFails, Erase, EndWatcher, WatchFrame, InHand
<1>2. CASE FinishSend \/ FinishEcho \/ HandleAccept
  BY <1>2, FlowSame DEF FinishSend, FinishEcho, HandleAccept, InHand
<1>3. CASE Main \/ Key
  <2>1. UNCHANGED <<received, down, InHand, up, sent>>
    BY <1>3 DEF Main, Key, Host, Connect, StartSender, HookMessages, DestroyMembers, DropClient,
       CloseServer, Shutdown, CloseSocket, Cut, HandleClose, HandleCloseErases,
       DestroyServerClient, MainFrame, InHand
  <2>2. pipe' # "cut" => pipe # "cut"
    BY <1>3 DEF Main, Key, Host, Connect, StartSender, HookMessages, DestroyMembers, DropClient,
       CloseServer, Shutdown, CloseSocket, Cut, HandleClose, HandleCloseErases,
       DestroyServerClient, Places
  <2> QED
    BY <2>1, <2>2, FlowSame
<1> QED
  BY <1>1, <1>2, <1>3

LEMMA FlowInit == Init => Flow
<1> SUFFICES ASSUME Init PROVE Flow
  OBVIOUS
<1>1. <<>> \o <<>> \o <<>> \o <<>> = <<>>
  OBVIOUS
<1>2. First(0) \in Seq(Messages) /\ Len(First(0)) = 0
  BY FirstIsSeq, EchoAssumption
<1>3. First(0) = <<>>
  BY <1>2, EmptySeq
<1> QED
  BY <1>1, <1>3 DEF Init, Flow, Way, InHand

LEMMA FlowStep == Shape /\ Places /\ Flow /\ [Next]_vars => Flow'
<1> SUFFICES ASSUME Shape, Places, Flow, [Next]_vars PROVE Flow'
  OBVIOUS
<1>1. CASE Next
  BY <1>1, SenderFlow, HearFlow, EchoFlow, OtherFlow DEF Next
<1>2. CASE UNCHANGED vars
  BY <1>2, FlowSame
  DEF vars, clientVars, hearVars, echoVars, watchVars, ioVars, histVars, InHand
<1> QED
  BY <1>1, <1>2

LEMMA FlowInOrder == Flow => NothingLostOrTwice
  BY DEF Flow, Way, NothingLostOrTwice, InHand, First

\* Every message is in one place, in the order of sending (single-process-ipc/main.cpp:
\* 136-144, 255-263), for any number of messages.
THEOREM NothingLost == Spec => []NothingLostOrTwice
<1>1. Init => Shape /\ Places /\ Flow
  BY ShapeInit, PlacesInit, FlowInit
<1>2. Shape /\ Places /\ Flow /\ [Next]_vars => (Shape /\ Places /\ Flow)'
  BY ShapeStep, PlacesStep, FlowStep
<1> QED
  BY <1>1, <1>2, FlowInOrder, PTL DEF Spec

----------------------------------------------------------------------------
(* The members of the client *)

LEMMA NothingComes ==
  ASSUME Shape, Places, Flow, Quiet, Hear, main = "drop"
  PROVE  early
<1>1. down # <<>> /\ pipe # "cut"
  BY DEF Hear, Places
<1>2. Way = First(sent)
  BY <1>1 DEF Flow, Way
<1>3. Len(Way) = Len(received) + Len(down) + Len(InHand) + Len(up)
  BY PartsAreSeqs, ConcatProperties DEF Way
<1>4. Len(received) \in Nat /\ Len(down) \in Nat \ {0} /\ Len(InHand) \in Nat /\ Len(up) \in Nat
  BY <1>1, PartsAreSeqs, EmptySeq, LenProperties
<1>5. sent \in Nat /\ Len(Way) = sent
  BY <1>2, FirstIsSeq, EchoAssumption DEF Shape, TypeOK
<1>6. Len(received) < sent
  BY <1>3, <1>4, <1>5
<1> QED
  BY <1>4, <1>5, <1>6 DEF Quiet

LEMMA QuietStep == Shape /\ Places /\ Flow /\ Quiet /\ [Next]_vars => Quiet'
<1> SUFFICES ASSUME Shape, Places, Flow, Quiet, [Next]_vars PROVE Quiet'
  OBVIOUS
<1> USE DEF clientVars, hearVars, echoVars, watchVars, ioVars, histVars
<1>1. CASE Hear
  <2>1. UNCHANGED <<main, early, touched>>
    BY <1>1 DEF Hear, HearFrame
  <2>2. main = "drop" => early
    BY <1>1, NothingComes
  <2> QED
    BY <2>1, <2>2 DEF Quiet
<1>2. CASE Sender
  <2>1. sender # "ended" /\ UNCHANGED <<main, touched, early>>
    BY <1>2 DEF Sender, Send, SendWhenReturned, ResetFlag, WaitSent, EndSender, SendFrame
  <2>2. main # "drop"
    BY <2>1 DEF Places
  <2> QED
    BY <2>1, <2>2 DEF Quiet
<1>3. CASE EchoThread \/ Watcher \/ FinishSend \/ FinishEcho \/ HandleAccept
  <2>1. UNCHANGED <<main, touched, early, received, sent, listener>>
    BY <1>3 DEF EchoThread, ReadMessage, EchoWrite, EchoPush, RunRoutines, EchoFrame,
       Watcher, Snapshot, WaitAny, WaitAnyFails, Erase, EndWatcher, WatchFrame,
       FinishSend, FinishEcho, HandleAccept
  <2> QED
    BY <2>1 DEF Quiet
<1>4. CASE DestroyMembers
  <2>1. Len(received) \in Nat /\ sent \in Nat
    BY PartsAreSeqs, LenProperties, EchoAssumption DEF Shape, TypeOK
  <2>2. /\ main' = "drop" /\ early' = (Len(received) < sent \/ listener = "track")
        /\ UNCHANGED <<received, sent, listener>>
    BY <1>4 DEF DestroyMembers, MainFrame
  <2>3. ~early' => Len(received') >= sent' /\ listener' # "track"
    <3>1. ~(Len(received) < sent) => Len(received) >= sent
      BY <2>1
    <3> QED
      BY <2>2, <3>1, Zenon
  <2> QED
    BY <2>2, <2>3 DEF Quiet
<1>5. CASE Host \/ Connect \/ StartSender \/ HookMessages \/ Key
  BY <1>5 DEF Host, Connect, StartSender, HookMessages, Key, Quiet
<1>6. CASE DropClient \/ CloseServer \/ Shutdown \/ CloseSocket \/ HandleClose
            \/ DestroyServerClient
  BY <1>6 DEF DropClient, CloseServer, Shutdown, CloseSocket, Cut, HandleClose,
     HandleCloseErases, DestroyServerClient, Quiet
<1>7. CASE UNCHANGED vars
  BY <1>7 DEF vars, Quiet
<1>8. CASE Track(Benchmark)
  <2>1. /\ listener = "track" /\ listener' = "idle"
        /\ UNCHANGED <<main, early, sent, received>>
        /\ touched' = (touched \/ (Benchmark /\ main = "drop"))
    BY <1>8 DEF Track, HearFrame
  <2> QED
    BY <2>1 DEF Quiet
<1> QED
  BY <1>1, <1>2, <1>3, <1>4, <1>5, <1>6, <1>7, <1>8 DEF Next, Main, HandleMessage

LEMMA MembersStep ==
  Shape /\ Places /\ Flow /\ Quiet /\ MembersAlive /\ [Next]_vars => MembersAlive'
<1> SUFFICES ASSUME Shape, Places, Flow, Quiet, MembersAlive, [Next]_vars
             PROVE  MembersAlive'
  OBVIOUS
<1> USE DEF clientVars, hearVars, echoVars, watchVars, ioVars, histVars
<1>1. CASE Track(Benchmark)
  <2>1. /\ touched' = (touched \/ (Benchmark /\ main = "drop")) /\ listener = "track"
        /\ early' = early /\ variant' = variant
    BY <1>1 DEF Track, HearFrame
  <2>2. main = "drop" => early
    BY <2>1 DEF Quiet
  <2> QED
    BY <2>1, <2>2 DEF MembersAlive, Benchmark
<1>2. CASE DestroyMembers
  <2>1. ~touched /\ touched' = touched
    BY <1>2 DEF DestroyMembers, Quiet
  <2> QED
    BY <2>1 DEF MembersAlive
<1>3. CASE ~Track(Benchmark) /\ ~DestroyMembers
  <2>1. UNCHANGED <<touched, early, variant>>
    <3>1. CASE Sender
      BY <3>1 DEF Sender, Send, SendWhenReturned, ResetFlag, WaitSent, EndSender, SendFrame
    <3>2. CASE EchoThread \/ Watcher \/ FinishSend \/ FinishEcho \/ HandleAccept
      BY <3>2 DEF EchoThread, ReadMessage, EchoWrite, EchoPush, RunRoutines, EchoFrame,
         Watcher, Snapshot, WaitAny, WaitAnyFails, Erase, EndWatcher, WatchFrame,
         FinishSend, FinishEcho, HandleAccept
    <3>3. CASE Main \/ Key
      BY <1>3, <3>3 DEF Main, Key, Host, Connect, StartSender, HookMessages, DropClient,
         CloseServer, Shutdown, CloseSocket, Cut, HandleClose, HandleCloseErases,
         DestroyServerClient, MainFrame
    <3>4. CASE Hear
      BY <3>4 DEF Hear, HearFrame
    <3>5. CASE UNCHANGED vars
      BY <3>5 DEF vars
    <3> QED
      BY <1>3, <3>1, <3>2, <3>3, <3>4, <3>5 DEF Next, HandleMessage
  <2> QED
    BY <2>1 DEF MembersAlive, Benchmark
<1> QED
  BY <1>1, <1>2, <1>3

\* handle_message uses a member of the client that is gone only if the benchmark's members go
\* while an echo is due or handle_message runs (benchmark/main.cpp:216-218, 268-293, 327), for
\* any number of messages.
THEOREM NoMemberTouched == Spec => []MembersAlive
<1>1. Init => Shape /\ Places /\ Flow /\ Quiet /\ MembersAlive
  <2>1. Init => Quiet /\ MembersAlive
    BY DEF Init, Quiet, MembersAlive
  <2> QED
    BY <2>1, ShapeInit, PlacesInit, FlowInit
<1>2. Shape /\ Places /\ Flow /\ Quiet /\ MembersAlive /\ [Next]_vars
        => (Shape /\ Places /\ Flow /\ Quiet /\ MembersAlive)'
  BY ShapeStep, PlacesStep, FlowStep, QuietStep, MembersStep
<1> QED
  BY <1>1, <1>2, PTL DEF Spec

----------------------------------------------------------------------------
(* The way out and back is one channel *)

LEMMA EarsStep == Shape /\ Places /\ Ears /\ [Next]_vars => Ears'
<1> SUFFICES ASSUME Shape, Places, Ears, [Next]_vars PROVE Ears'
  OBVIOUS
<1> USE DEF Ears, Listening, clientVars, hearVars, histVars
<1>1. CASE Sender
  BY <1>1 DEF Sender, Send, SendWhenReturned, ResetFlag, WaitSent, EndSender, WriteNext, SendFrame
<1>2. CASE HandleMessage
  BY <1>2 DEF HandleMessage, Hear, Track, HearFrame
<1>3. CASE EchoThread
  BY <1>3 DEF EchoThread, ReadMessage, EchoWrite, EchoPush, RunRoutines, EchoFrame
<1>4. CASE Watcher
  BY <1>4 DEF Watcher, Snapshot, WaitAny, WaitAnyFails, Erase, EndWatcher, WatchFrame
<1>5. CASE FinishSend \/ FinishEcho \/ HandleAccept
  BY <1>5 DEF FinishSend, FinishEcho, HandleAccept
<1>6. CASE Main \/ Key
  BY <1>6
  DEF Main, Key, Host, Connect, StartSender, HookMessages, DestroyMembers, DropClient,
      CloseServer, Shutdown, CloseSocket, Cut, HandleClose, HandleCloseErases,
      DestroyServerClient, MainFrame
<1>7. CASE UNCHANGED vars
  BY <1>7 DEF vars
<1> QED
  BY <1>1, <1>2, <1>3, <1>4, <1>5, <1>6, <1>7 DEF Next

\* Before the client has a pipe nothing was sent, and nothing has come.
LEMMA NothingYet ==
  ASSUME Shape, Places, Flow, Ears, main \in {"serve", "connect"}
  PROVE  First(sent) = <<>> /\ received = <<>>
<1>1. sent = 0 /\ pipe # "cut"
  BY DEF Places, Ears
<1>2. First(0) \in Seq(Messages) /\ Len(First(0)) = 0
  BY FirstIsSeq, EchoAssumption
<1>3. Len(Way) = 0
  BY <1>1, <1>2 DEF Flow
<1>4. /\ Len(Way) = Len(received \o down \o InHand) + Len(up)
      /\ Len(received \o down \o InHand) = Len(received \o down) + Len(InHand)
      /\ Len(received \o down) = Len(received) + Len(down)
  BY PartsAreSeqs, ConcatProperties DEF Way
<1>5. Len(received) \in Nat /\ Len(down) \in Nat /\ Len(InHand) \in Nat /\ Len(up) \in Nat
  BY PartsAreSeqs, LenProperties
<1>6. Len(received) = 0
  BY <1>3, <1>4, <1>5
<1> QED
  BY <1>1, <1>2, <1>6, PartsAreSeqs, EmptySeq

\* The echo that is heard is of the first message not heard before.
LEMMA HeardInOrder ==
  ASSUME Shape, Places, Flow, Ears, Hear
  PROVE  /\ Len(received) < Len(First(sent))
         /\ received' = Append(received, First(sent)[Len(received) + 1])
<1>1. down # <<>> /\ received' = Append(received, Head(down)) /\ listener = "idle"
  BY DEF Hear
<1>2. Way = First(sent)
  BY <1>1 DEF Ears, Listening, Places, Flow
<1>3. /\ Len(Way) = Len(received \o down \o InHand) + Len(up)
      /\ Len(received \o down \o InHand) = Len(received \o down) + Len(InHand)
      /\ Len(received \o down) = Len(received) + Len(down)
  BY PartsAreSeqs, ConcatProperties DEF Way
<1>4. /\ Len(received) \in Nat /\ Len(down) \in Nat \ {0} /\ Len(InHand) \in Nat
      /\ Len(up) \in Nat
  BY <1>1, PartsAreSeqs, LenProperties, EmptySeq
<1>5. sent \in 0..Count /\ Len(First(sent)) = sent
  BY FirstIsSeq DEF Shape, TypeOK
<1>6. Len(Way) = sent
  BY <1>2, <1>5
<1>7. Len(received) + 1 \in 1..sent
  BY <1>3, <1>4, <1>5, <1>6
<1>8. Way[Len(received) + 1] = Head(down)
  <2>1. (received \o down)[Len(received) + 1] = down[1]
    BY <1>4, PartsAreSeqs, ConcatProperties
  <2>2. (received \o down \o InHand)[Len(received) + 1] = (received \o down)[Len(received) + 1]
    BY <1>3, <1>4, PartsAreSeqs, ConcatProperties
  <2>3. Way[Len(received) + 1] = (received \o down \o InHand)[Len(received) + 1]
    BY <1>3, <1>4, PartsAreSeqs, ConcatProperties DEF Way
  <2>4. Head(down) = down[1]
    BY <1>1, PartsAreSeqs, HeadTailProperties
  <2> QED
    BY <2>1, <2>2, <2>3, <2>4
<1>9. Way[Len(received) + 1] = Len(received) + 1
  BY <1>2, <1>7 DEF First
<1>10. First(sent)[Len(received) + 1] = Len(received) + 1
  BY <1>7 DEF First
<1> QED
  BY <1>1, <1>5, <1>7, <1>8, <1>9, <1>10

LEMMA RoundTripStep ==
  Shape /\ Places /\ Flow /\ Ears /\ [Next]_vars
    => [RoundTrip!Next]_(RoundTrip!vars)
<1> SUFFICES ASSUME Shape, Places, Flow, Ears, [Next]_vars
             PROVE  [RoundTrip!Next]_(RoundTrip!vars)
  OBVIOUS
<1>0. UNCHANGED <<Listening, sent, received>> => UNCHANGED RoundTrip!vars
  BY DEF RoundTrip!vars
<1>1. CASE Sender
  <2> USE DEF SendFrame, hearVars
  <2>1. CASE Send \/ SendWhenReturned
    <3>1. sent' = sent + 1 /\ sent < Count /\ UNCHANGED <<listener, received>>
      BY <2>1 DEF Send, SendWhenReturned, WriteNext
    <3>2. sent \in Nat /\ sent + 1 \in Messages
      BY <3>1, EchoAssumption DEF Shape, TypeOK, Messages
    <3>3. First(sent') = Append(First(sent), sent + 1)
      BY <3>1, <3>2, FirstAppend
    <3>4. RoundTrip!Send(sent + 1)
      BY <3>1, <3>3 DEF Listening, RoundTrip!Send
    <3> QED
      BY <3>2, <3>4 DEF RoundTrip!Next
  <2>2. CASE ResetFlag \/ WaitSent \/ EndSender
    BY <1>0, <2>2 DEF Listening, ResetFlag, WaitSent, EndSender
  <2> QED
    BY <1>1, <2>1, <2>2 DEF Sender
<1>2. CASE Hear
  <2>1. Listening /\ Listening' /\ UNCHANGED sent
    BY <1>2 DEF Hear, HearFrame, Listening
  <2>2. RoundTrip!Receive
    BY <1>2, <2>1, HeardInOrder DEF RoundTrip!Receive
  <2> QED
    BY <2>2 DEF RoundTrip!Next
<1>3. CASE Connect
  <2>1. /\ main = "connect" /\ listener' = "idle"
        /\ UNCHANGED <<sent, received>>
    BY <1>3 DEF Connect, MainFrame
  <2>2. First(sent) = <<>> /\ received = <<>> /\ ~Listening /\ Listening'
    BY <2>1, NothingYet DEF Ears, Listening
  <2>3. RoundTrip!Open
    BY <2>1, <2>2 DEF RoundTrip!Open
  <2> QED
    BY <2>3 DEF RoundTrip!Next
<1>4. CASE DropClient
  <2>1. listener' = "ended" /\ UNCHANGED <<sent, received>>
    BY <1>4 DEF DropClient, MainFrame
  <2>2. CASE Listening
    BY <2>1, <2>2 DEF RoundTrip!Close, RoundTrip!Next, Listening
  <2>3. CASE ~Listening
    BY <2>1, <2>3 DEF RoundTrip!vars, Listening
  <2> QED
    BY <2>2, <2>3
<1>5. CASE EchoThread \/ Watcher
  BY <1>0, <1>5
  DEF Listening, EchoThread, ReadMessage, EchoWrite, EchoPush, RunRoutines, EchoFrame, Watcher, Snapshot,
      WaitAny, WaitAnyFails, Erase, EndWatcher, WatchFrame, clientVars, hearVars
<1>6. CASE FinishSend \/ FinishEcho \/ HandleAccept
  BY <1>0, <1>6 DEF Listening, FinishSend, FinishEcho, HandleAccept, clientVars, hearVars
<1>7. CASE Main \/ Key
  <2>1. CASE Main /\ ~Connect /\ ~DropClient
    BY <1>0, <2>1
    DEF Listening, Main, Host, StartSender, HookMessages, DestroyMembers, CloseServer, Shutdown,
        CloseSocket, Cut, HandleClose, HandleCloseErases, DestroyServerClient, MainFrame
  <2>2. CASE Key
    BY <1>0, <2>2 DEF Listening, Key, MainFrame
  <2> QED
    BY <1>3, <1>4, <1>7, <2>1, <2>2
<1>8. CASE UNCHANGED vars
  BY <1>0, <1>8 DEF Listening, vars, clientVars, hearVars
<1>9. CASE Track(Benchmark)
  BY <1>0, <1>9 DEF Track, HearFrame, Listening
<1> QED
  BY <1>1, <1>2, <1>5, <1>6, <1>7, <1>8, <1>9 DEF Next, HandleMessage

\* To the client of either sample the server that echoes, with its threads, its list of tasks
\* and both directions of the pipe, is a channel from the client to itself: what handle_message
\* is called with (single-process-ipc/main.cpp:255-263, benchmark/main.cpp:264-272) are its
\* messages in the order of sending, none twice, none skipped, and none once its socket is
\* closed.
THEOREM EchoIsChannel == Spec => RoundTrip!Spec
<1>1. Init => Shape /\ Places /\ Flow /\ Ears
  <2>1. Init => Ears
    BY DEF Init, Ears, Listening
  <2> QED
    BY <2>1, ShapeInit, PlacesInit, FlowInit
<1>2. Init => RoundTrip!Init
  <2> SUFFICES ASSUME Init PROVE RoundTrip!Init
    OBVIOUS
  <2>1. First(sent) = <<>>
    BY <1>1, NothingYet DEF Init
  <2> QED
    BY <2>1 DEF Init, Listening, RoundTrip!Init
<1>3. Shape /\ Places /\ Flow /\ Ears /\ [Next]_vars => (Shape /\ Places /\ Flow /\ Ears)'
  BY ShapeStep, PlacesStep, FlowStep, EarsStep
<1> QED
  BY <1>1, <1>2, <1>3, RoundTripStep, PTL DEF Spec, RoundTrip!Spec
=============================================================================
