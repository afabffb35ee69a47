------------------------------- MODULE Socket -------------------------------
(***************************************************************************)
(* One datapath::windows::socket: the connection state it keeps, the        *)
(* _watcher thread that reads framed messages from the pipe, the            *)
(* application threads that hook, connect and close it, and the peer that   *)
(* writes frames into the pipe.                                             *)
(*                                                                         *)
(* The pipe is the history "wire" of everything the peer wrote and the      *)
(* cursor "rpos" of how much of it was read.  A message is two cells: its   *)
(* header (the length) and its body.  A read is issued with an overlapped   *)
(* object, completes when the system has data for it or fails it, queues a  *)
(* completion routine to the thread that issued it, and is seen by that     *)
(* thread's next alertable wait.                                            *)
(***************************************************************************)
EXTENDS Naturals, Sequences

CONSTANTS
  Data,          \* payloads, among them
  Empty,         \* the payload of no bytes
  Length,        \* the number of bytes of each payload
  Users,         \* application threads that may connect, hook and close
  SelfJoin,      \* which of "callback", "abandoned" lead the watcher into _disconnect
  MaxSent,       \* bound: messages the peer writes on one connection
  MaxSessions    \* bound: connections made with this socket object

ASSUME DataAssumption ==
  /\ Empty \in Data
  /\ Length \in [Data -> Nat]
  /\ \A d \in Data : Length[d] = 0 <=> d = Empty

ASSUME BoundAssumption ==
  /\ MaxSent \in Nat
  /\ MaxSessions \in Nat
  /\ SelfJoin \subseteq {"callback", "abandoned"}

VARIABLES
  \* the pipe and its other end (external)
  role,          \* which end of the pipe this socket holds
  link,          \* "none" is INVALID_HANDLE_VALUE
  wire,          \* cells written by the peer on this connection
  rpos,          \* cells taken out of the pipe
  \* the socket object
  is_connected, shutdown, joinable, hooked,
  \* locals of _watcher
  pc, state, waitable, read_buffer, read_size, rd,
  \* the application threads and the process
  upc, crashed,
  \* history
  session, sent, delivered, closes

pipeVars == <<role, link, wire, rpos>>
sockVars == <<is_connected, shutdown, joinable, hooked>>
watchVars == <<pc, state, waitable, read_buffer, read_size, rd>>
histVars == <<session, sent, delivered, closes>>
vars == <<pipeVars, sockVars, watchVars, upc, crashed, histVars>>

Overlapped == {"header", "content"}
Cell == [kind : {"header", "body", "stale"}, of : Data]
Stale == [kind |-> "stale", of |-> Empty]
Idle == [o \in Overlapped |-> "idle"]
HeaderSize == 4
Lengths == {Length[d] : d \in Data}

----------------------------------------------------------------------------
(* The pipe *)

\* The bytes of one WriteFileEx: task::_assign puts the length before the data.
Frame(d) == << [kind |-> "header", of |-> d], [kind |-> "body", of |-> d] >>

\* Nothing but bodies of zero bytes is left to read.
NoBytes ==
  \A i \in (rpos + 1)..Len(wire) : wire[i].kind = "body" /\ wire[i].of = Empty

\* ReadFileEx returns FALSE and starts nothing.
ReadRefused == link = "cut" \/ (link = "ended" /\ NoBytes)

\* What a read of n bytes into the header or content buffer makes of a cell.
Fetch(cell, o, n) ==
  IF \/ o = "header" /\ cell.kind = "header"
     \/ o = "content" /\ cell.kind = "body" /\ Length[cell.of] = n
  THEN cell ELSE Stale

\* ReadFileEx accepts a read of n bytes.  It takes what the pipe holds at once;
\* with nothing to take it stays pending, and a read of no bytes may do either.
BeginRead(o, n) ==
  /\ read_size' = n
  /\ \/ /\ NoBytes
        /\ rd' = [Idle EXCEPT ![o] = "pending"]
        /\ read_buffer' = Stale
        /\ UNCHANGED rpos
     \/ /\ rpos < Len(wire)
        /\ n = 0 \/ ~NoBytes
        /\ rd' = [Idle EXCEPT ![o] = "completed"]
        /\ read_buffer' = Fetch(wire[rpos + 1], o, n)
        /\ rpos' = rpos + 1

\* The system fails every read in flight.  Its completion routine is queued all the same.
FailReads ==
  rd' = [o \in Overlapped |-> IF rd[o] = "pending" THEN "completed" ELSE rd[o]]

\* The peer's socket::write: one frame, which a read in flight takes at once.
PeerWrite(d) ==
  /\ link = "open"
  /\ Len(sent) < MaxSent
  /\ sent' = Append(sent, d)
  /\ wire' = wire \o Frame(d)
  /\ \/ /\ \A o \in Overlapped : rd[o] # "pending"
        /\ UNCHANGED <<rd, read_buffer, rpos>>
     \/ \E o \in Overlapped :
          /\ rd[o] = "pending"
          /\ rd' = [rd EXCEPT ![o] = "completed"]
          /\ read_buffer' = Fetch(wire'[rpos + 1], o, read_size)
          /\ rpos' = rpos + 1
  /\ UNCHANGED <<role, link, sockVars, pc, state, waitable, read_size,
                 upc, crashed, session, delivered, closes>>

\* The peer's end is gone: what it wrote can still be read.
PeerEnd ==
  /\ link = "open"
  /\ link' = "ended"
  /\ FailReads
  /\ UNCHANGED <<role, wire, rpos, sockVars, pc, state, waitable, read_buffer,
                 read_size, upc, crashed, histVars>>

\* The server at the other end disconnects the pipe: unread bytes are gone.
PeerDisconnect ==
  /\ role = "client"
  /\ link \in {"open", "ended"}
  /\ link' = "cut"
  /\ FailReads
  /\ UNCHANGED <<role, wire, rpos, sockVars, pc, state, waitable, read_buffer,
                 read_size, upc, crashed, histVars>>

----------------------------------------------------------------------------
(* The watcher thread *)

WatcherFrame == UNCHANGED <<role, link, wire, is_connected, shutdown, joinable,
                            hooked, upc, sent, session>>
Quiet == UNCHANGED <<crashed, closes>>

\* Top of the loop: leave it, which destroys both overlapped objects, or go on.
CheckLoop ==
  /\ pc = "loop"
  /\ IF shutdown \/ link = "none" \/ ~is_connected
     THEN pc' = "exited" /\ rd' = Idle
     ELSE pc' = "step" /\ UNCHANGED rd
  /\ UNCHANGED <<state, waitable, read_buffer, read_size, rpos, delivered>>
  /\ WatcherFrame /\ Quiet

\* Ask for the header of the next message; when that fails, sleep and try again.
ReadHeader ==
  /\ pc = "step" /\ state = "Unknown"
  /\ IF ReadRefused
     THEN /\ state' = "Unknown" /\ waitable' = "none" /\ pc' = "loop"
          /\ read_size' = HeaderSize /\ read_buffer' = Stale
          /\ UNCHANGED <<rd, rpos>>
     ELSE /\ state' = "Header" /\ waitable' = "header" /\ pc' = "wait"
          /\ BeginRead("header", HeaderSize)
  /\ UNCHANGED delivered
  /\ WatcherFrame /\ Quiet

\* Mutant: on_message is given the buffer with its framing.
FramedPayload == {read_buffer}

\* What read_buffer gives on_message: its first read_size bytes.
Payload ==
  IF read_size = 0 THEN {Empty}
  ELSE IF read_buffer.kind = "body" THEN {read_buffer.of} ELSE Data \ {Empty}

\* on_message(read_buffer): the application's callback starts.
CallOnMessage ==
  /\ \E d \in Payload : delivered' = Append(delivered, d)
  /\ pc' = "callback"

\* Mutant: a message nobody listens to is forgotten.
DropUnheard ==
  /\ pc = "step" /\ state = "Content" /\ waitable = "none"
  /\ IF hooked THEN CallOnMessage /\ UNCHANGED state
               ELSE pc' = "loop" /\ state' = "Unknown" /\ UNCHANGED delivered
  /\ UNCHANGED <<waitable, read_buffer, read_size, rd, rpos>>
  /\ WatcherFrame /\ Quiet

\* A message is buffered and was not heard: deliver it if somebody listens now.
DeliverBuffered ==
  /\ pc = "step" /\ state = "Content" /\ waitable = "none"
  /\ IF hooked THEN CallOnMessage ELSE pc' = "loop" /\ UNCHANGED delivered
  /\ UNCHANGED <<state, waitable, read_buffer, read_size, rd, rpos>>
  /\ WatcherFrame /\ Quiet

\* A read is in flight: go and wait for it.
GoWait ==
  /\ pc = "step"
  /\ state \in {"Header", "Content"} /\ waitable # "none"
  /\ pc' = "wait"
  /\ UNCHANGED <<state, waitable, read_buffer, read_size, rd, rpos, delivered>>
  /\ WatcherFrame /\ Quiet

\* The alertable wait runs the queued completion routines: def_io_completion_routine
\* sets the event whatever the error code, and the wait goes on.
RunCompletions ==
  /\ pc = "wait"
  /\ \E o \in Overlapped : rd[o] = "completed"
  /\ rd' = [o \in Overlapped |-> IF rd[o] = "completed" THEN "signalled" ELSE rd[o]]
  /\ UNCHANGED <<pc, state, waitable, read_buffer, read_size, rpos, delivered>>
  /\ WatcherFrame /\ Quiet

\* Mutant: a wait that times out is treated like an error of the read.
TimeoutResetsState ==
  /\ pc = "wait"
  /\ \A o \in Overlapped : rd[o] # "completed"
  /\ rd[waitable] # "signalled"
  /\ pc' = "loop" /\ state' = "Unknown" /\ waitable' = "none"
  /\ UNCHANGED <<read_buffer, read_size, rd, rpos, delivered>>
  /\ WatcherFrame /\ Quiet

WaitTimesOut ==
  /\ pc = "wait"
  /\ \A o \in Overlapped : rd[o] # "completed"
  /\ rd[waitable] # "signalled"
  /\ pc' = "loop"
  /\ UNCHANGED <<state, waitable, read_buffer, read_size, rd, rpos, delivered>>
  /\ WatcherFrame /\ Quiet

\* msg_size as the header handler reads it: stale bytes can be any length.
MsgSizes == IF read_buffer.kind = "header" THEN {Length[read_buffer.of]} ELSE Lengths

\* _on_wait_success of the header: size the buffer and ask for the content.
HeaderArrived ==
  /\ pc = "wait" /\ waitable = "header" /\ rd["header"] = "signalled"
  /\ pc' = "loop"
  /\ \E n \in MsgSizes :
       IF ReadRefused
       THEN /\ state' = "Unknown" /\ waitable' = "none"
            /\ rd' = Idle /\ read_size' = n /\ read_buffer' = Stale
            /\ UNCHANGED rpos
       ELSE /\ state' = "Content" /\ waitable' = "content"
            /\ BeginRead("content", n)
  /\ UNCHANGED delivered
  /\ WatcherFrame /\ Quiet

\* Mutant: waitable keeps the finished read when nobody listens.
KeepWaitable ==
  /\ pc = "wait" /\ waitable = "content" /\ rd["content"] = "signalled"
  /\ rd' = Idle
  /\ IF hooked THEN CallOnMessage /\ UNCHANGED waitable
               ELSE pc' = "loop" /\ UNCHANGED <<delivered, waitable>>
  /\ UNCHANGED <<state, read_buffer, read_size, rpos>>
  /\ WatcherFrame /\ Quiet

\* _on_wait_success of the content: deliver it, or keep it until there is a hook.
ContentArrived ==
  /\ pc = "wait" /\ waitable = "content" /\ rd["content"] = "signalled"
  /\ rd' = Idle
  /\ IF hooked THEN CallOnMessage /\ UNCHANGED waitable
               ELSE pc' = "loop" /\ waitable' = "none" /\ UNCHANGED delivered
  /\ UNCHANGED <<state, read_buffer, read_size, rpos>>
  /\ WatcherFrame /\ Quiet

\* Mutant: a delivered message is taken for one that is still buffered.
ForgetDelivered ==
  /\ pc = "callback"
  /\ pc' = "loop" /\ waitable' = "none"
  /\ UNCHANGED <<state, read_buffer, read_size, rd, rpos, delivered>>
  /\ WatcherFrame /\ Quiet

\* The callback returns to either of the two places that made it.
CallbackReturns ==
  /\ pc = "callback"
  /\ pc' = "loop" /\ state' = "Unknown" /\ waitable' = "none"
  /\ UNCHANGED <<read_buffer, read_size, rd, rpos, delivered>>
  /\ WatcherFrame /\ Quiet

\* _disconnect on the watcher's own thread, from a callback that closes the socket
\* or from a wait that reports Closed: std::thread::join of oneself throws, and
\* nothing on this thread catches it.
JoinOneself ==
  /\ \/ pc = "callback" /\ "callback" \in SelfJoin
     \/ pc = "wait" /\ "abandoned" \in SelfJoin
  /\ crashed' = TRUE
  /\ closes' = closes + 1
  /\ UNCHANGED <<pc, state, waitable, read_buffer, read_size, rd, rpos, delivered>>
  /\ WatcherFrame

Watcher ==
  \/ CheckLoop \/ ReadHeader \/ DeliverBuffered \/ GoWait \/ RunCompletions
  \/ WaitTimesOut \/ HeaderArrived \/ ContentArrived \/ CallbackReturns

----------------------------------------------------------------------------
(* The application threads *)

UserFrame == UNCHANGED <<pc, state, waitable, read_buffer, read_size,
                         role, wire, rpos, hooked, session, sent, delivered>>

\* event::add and event::clear on on_message.
Hook(h) ==
  /\ hooked' = h
  /\ UNCHANGED <<pipeVars, is_connected, shutdown, joinable, watchVars, upc,
                 crashed, histVars>>

\* socket::_connect.  Assigning watcher.task while its thread runs terminates the
\* process.  The application does not connect while another thread is in close().
Connect(r) ==
  /\ \A u \in Users : upc[u] = "idle"
  /\ session < MaxSessions
  /\ IF joinable
     THEN crashed' = TRUE /\ UNCHANGED <<pipeVars, sockVars, watchVars, histVars>>
     ELSE /\ role' = r /\ link' = "open" /\ wire' = <<>> /\ rpos' = 0
          /\ is_connected' = TRUE /\ shutdown' = FALSE /\ joinable' = TRUE
          /\ pc' = "loop" /\ state' = "Unknown" /\ waitable' = "none"
          /\ read_buffer' = Stale /\ read_size' = 0 /\ rd' = Idle
          /\ session' = session + 1
          /\ sent' = <<>> /\ delivered' = <<>> /\ closes' = 0
          /\ UNCHANGED <<hooked, crashed>>
  /\ UNCHANGED upc

\* close() of a connected socket.  DisconnectNamedPipe works on the server's end only.
CloseCall(u) ==
  /\ upc[u] = "idle" /\ is_connected
  /\ upc' = [upc EXCEPT ![u] = "notify"]
  /\ IF role = "server" THEN link' = "cut" /\ FailReads ELSE UNCHANGED <<link, rd>>
  /\ UNCHANGED <<is_connected, shutdown, joinable, crashed, closes>>
  /\ UserFrame

\* _disconnect: on_close first.
Notify(u) ==
  /\ upc[u] = "notify"
  /\ upc' = [upc EXCEPT ![u] = "stop"]
  /\ closes' = closes + 1
  /\ UNCHANGED <<link, rd, is_connected, shutdown, joinable, crashed>>
  /\ UserFrame

\* Mutant: the watcher is joined and never told to stop.
StopWithoutFlag(u) ==
  /\ upc[u] = "stop"
  /\ upc' = [upc EXCEPT ![u] = "join"]
  /\ UNCHANGED <<link, rd, is_connected, shutdown, joinable, crashed, closes>>
  /\ UserFrame

Stop(u) ==
  /\ upc[u] = "stop"
  /\ upc' = [upc EXCEPT ![u] = "join"]
  /\ shutdown' = TRUE
  /\ UNCHANGED <<link, rd, is_connected, joinable, crashed, closes>>
  /\ UserFrame

TestJoinable(u) ==
  /\ upc[u] = "join"
  /\ upc' = [upc EXCEPT ![u] = IF joinable THEN "joining" ELSE "finish"]
  /\ UNCHANGED <<link, rd, is_connected, shutdown, joinable, crashed, closes>>
  /\ UserFrame

\* Mutant: the thread is detached, not joined.
DetachWatcher(u) ==
  /\ upc[u] = "joining"
  /\ upc' = [upc EXCEPT ![u] = "finish"]
  /\ joinable' = FALSE
  /\ UNCHANGED <<link, rd, is_connected, shutdown, crashed, closes>>
  /\ UserFrame

\* join() returns when the watcher has exited.  A second thread inside join() finds
\* the handle gone: undefined behaviour, it returns or throws.
Join(u) ==
  /\ upc[u] = "joining"
  /\ \/ /\ joinable /\ pc = "exited"
        /\ joinable' = FALSE
        /\ upc' = [upc EXCEPT ![u] = "finish"]
        /\ UNCHANGED crashed
     \/ /\ ~joinable
        /\ upc' = [upc EXCEPT ![u] = "finish"]
        /\ crashed' \in BOOLEAN
        /\ UNCHANGED joinable
  /\ UNCHANGED <<link, rd, is_connected, shutdown, closes>>
  /\ UserFrame

\* Mutant: is_connected is left set.
FinishStillConnected(u) ==
  /\ upc[u] = "finish"
  /\ upc' = [upc EXCEPT ![u] = "idle"]
  /\ UNCHANGED <<link, rd, is_connected, shutdown, joinable, crashed, closes>>
  /\ UserFrame

Finish(u) ==
  /\ upc[u] = "finish"
  /\ upc' = [upc EXCEPT ![u] = "idle"]
  /\ is_connected' = FALSE
  /\ UNCHANGED <<link, rd, shutdown, joinable, crashed, closes>>
  /\ UserFrame

Closing(u) == Notify(u) \/ Stop(u) \/ TestJoinable(u) \/ Join(u) \/ Finish(u)

----------------------------------------------------------------------------

Init ==
  /\ role = "server" /\ link = "none" /\ wire = <<>> /\ rpos = 0
  /\ is_connected = FALSE /\ shutdown = FALSE /\ joinable = FALSE /\ hooked = FALSE
  /\ pc = "exited" /\ state = "Unknown" /\ waitable = "none"
  /\ read_buffer = Stale /\ read_size = 0 /\ rd = Idle
  /\ upc = [u \in Users |-> "idle"] /\ crashed = FALSE
  /\ session = 0 /\ sent = <<>> /\ delivered = <<>> /\ closes = 0

Step ==
  \/ Watcher
  \/ JoinOneself
  \/ \E d \in Data : PeerWrite(d)
  \/ PeerEnd
  \/ PeerDisconnect
  \/ \E h \in BOOLEAN : Hook(h)
  \/ \E r \in {"server", "client"} : Connect(r)
  \/ \E u \in Users : CloseCall(u) \/ Closing(u)

\* A terminated process takes no further step.
Next == ~crashed /\ Step

Spec == Init /\ [][Next]_vars

\* The scheduler runs the watcher and any thread that is inside close().
Fairness ==
  /\ WF_vars(~crashed /\ Watcher)
  /\ \A u \in Users : WF_vars(~crashed /\ Closing(u))

FairSpec == Spec /\ Fairness

----------------------------------------------------------------------------
(* Properties *)

\* Every variable has its type, and the read cursor stays inside the pipe.
TypeOK ==
  /\ role \in {"server", "client"}
  /\ link \in {"none", "open", "ended", "cut"}
  /\ wire \in Seq(Cell) /\ rpos \in 0..Len(wire)
  /\ is_connected \in BOOLEAN /\ shutdown \in BOOLEAN
  /\ joinable \in BOOLEAN /\ hooked \in BOOLEAN
  /\ pc \in {"loop", "step", "wait", "callback", "exited"}
  /\ state \in {"Unknown", "Header", "Content"}
  /\ waitable \in {"none", "header", "content"}
  /\ read_buffer \in Cell /\ read_size \in Nat
  /\ rd \in [Overlapped -> {"idle", "pending", "completed", "signalled"}]
  /\ upc \in [Users -> {"idle", "notify", "stop", "join", "joining", "finish"}]
  /\ crashed \in BOOLEAN
  /\ session \in Nat /\ sent \in Seq(Data) /\ delivered \in Seq(Data) /\ closes \in Nat

\* on_message gets exactly the peer's messages, whole, in order, none twice, none
\* skipped: although completion errors are ignored (utility.hpp:53-57), although
\* header and body are read separately, and although a message may have to wait
\* in read_buffer for a listener (socket.cpp:97-106, 137-146).
DeliveredInOrder ==
  /\ Len(delivered) <= Len(sent)
  /\ \A i \in 1..Len(delivered) : delivered[i] = sent[i]

\* A read the system still owns is the one the state machine is waiting for, so no
\* second read is issued with its overlapped object and read_buffer is not resized
\* under it (socket.cpp:80, 123).
InFlightIsAwaited ==
  \A o \in Overlapped :
    rd[o] = "pending" => /\ waitable = o
                         /\ state = IF o = "header" THEN "Header" ELSE "Content"

\* good() = FALSE means that the watcher has been joined and no read is in flight:
\* the server recycles the pipe handle of a socket on the strength of good() alone
\* (server.cpp:210), and destroying the socket needs its thread joined.
NotGoodMeansQuiet ==
  ~is_connected => pc = "exited" /\ ~joinable /\ rd = Idle

\* close() returns: the watcher leaves its loop and can be joined (socket.cpp:46-56).
CloseReturns == \A u \in Users : upc[u] # "idle" ~> upc[u] = "idle"

\* A connection that stays up with a listener delivers every message that has bytes,
\* including those that came while nobody listened.
Stable == /\ ~crashed /\ is_connected /\ hooked /\ link = "open"
          /\ \A u \in Users : upc[u] = "idle"
AllDelivered ==
  <>[]Stable => <>[](\A i \in 1..Len(sent) : sent[i] # Empty => i <= Len(delivered))

\* With one application thread, each connection's on_close is called once at most,
\* and it was called when the socket is no longer good.
OnCloseOnce == closes <= 1 /\ (session > 0 /\ ~is_connected => closes = 1)

Channel == INSTANCE MessageChannel WITH open <- is_connected, received <- delivered

\* The socket implements the channel it promises.
ImplementsChannel == Channel!Spec
=============================================================================
