------------------------------- MODULE Server -------------------------------
(***************************************************************************)
(* datapath::windows::server: the pipe instances it keeps, the _watcher      *)
(* thread that moves them between the waiting, pending and active lists,     *)
(* the clients that connect to them and the application that accepts,        *)
(* closes and drops the sockets it is given.                                 *)
(*                                                                         *)
(* The lists are sets: no property depends on their order.  A socket is      *)
(* reduced to what the server can see of it: its handle, good(), and         *)
(* whether its weak pointer has expired.  Module Socket has the rest.        *)
(***************************************************************************)
EXTENDS Naturals, FiniteSets

CONSTANTS
  Handles,       \* the handle values the system gives out
  Sockets,       \* identities of socket objects
  None,          \* no handle and no socket
  Backlog,       \* WIN_BACKLOG_NUM
  MaxClients,    \* max_clients
  MaxConns,      \* bound: connections made by clients
  MaxCreates,    \* bound: successful calls of create()
  MaxClosers,    \* how many threads are in close() of one socket at a time
  MayDrop        \* the application drops sockets that are still good

ASSUME ServerAssumption ==
  /\ IsFiniteSet(Handles)
  /\ None \notin Handles \cup Sockets
  /\ Backlog \in Nat /\ MaxClients \in Nat /\ MaxConns \in Nat
  /\ MaxCreates \in Nat /\ MaxClosers \in Nat
  /\ MayDrop \in BOOLEAN

VARIABLES
  \* the pipe instances (external)
  inst,          \* the state of the instance behind each handle
  conn,          \* the connection last made to it
  conns,         \* connections made so far
  \* the server object
  waiting, pending, active, owned, total, hooked, shutdown, joinable,
  \* the watcher
  pc, todo, kill, cur, new,
  \* the sockets and the process
  sock, closing, crashed,
  passed,        \* the calls of close() of each socket between its test and the disconnect
  \* history
  evals,         \* how often on_accept was called for each connection
  creates,       \* how often create() has succeeded
  late           \* the pipes cut off by a call that came after its socket was closed

pipeVars == <<inst, conn, conns>>
listVars == <<waiting, pending, active, owned, total>>
ctlVars == <<hooked, shutdown, joinable, closing, passed>>
watchVars == <<pc, todo, kill, cur, new>>
histVars == <<evals, creates, late>>
vars == <<pipeVars, listVars, ctlVars, watchVars, sock, crashed, histVars>>

Connections == 1..MaxConns
InstStates == {"none", "listening", "connected", "closing", "disconnected"}
SocketState == [h : Handles \cup {None}, c : 0..MaxConns,
                life : {"none", "good", "closing", "closed", "expired", "dead"}]
Free == [h |-> None, c |-> 0, life |-> "none"]
Dead == [Free EXCEPT !.life = "dead"]

----------------------------------------------------------------------------
(* The pipe instances *)

\* DisconnectNamedPipe: whoever is at the other end is cut off.
Disconnect(i, h) == IF h \in Handles /\ i[h] # "none"
                    THEN [i EXCEPT ![h] = "disconnected"] ELSE i

\* CreateFile on the pipe's name finds an instance that is listening.
ClientConnect(h) ==
  /\ inst[h] = "listening" /\ conns < MaxConns
  /\ inst' = [inst EXCEPT ![h] = "connected"]
  /\ conns' = conns + 1
  /\ conn' = [conn EXCEPT ![h] = conns + 1] /\ late' = late \ {h}
  /\ UNCHANGED <<listVars, ctlVars, watchVars, sock, crashed, evals, creates>>

ClientLeave(h) ==
  /\ inst[h] = "connected"
  /\ inst' = [inst EXCEPT ![h] = "closing"]
  /\ UNCHANGED <<conn, conns, listVars, ctlVars, watchVars, sock, crashed, histVars>>

----------------------------------------------------------------------------
(* The watcher: first pass, over waiting_sockets *)

\* No overlapped object is ever waited for: ConnectNamedPipe on an overlapped handle
\* returns FALSE, which keeps ovmap empty.
Top ==
  /\ pc = "top"
  /\ IF shutdown
     THEN pc' = "exited" /\ UNCHANGED <<todo, kill>>
     ELSE pc' = "poll" /\ todo' = waiting /\ kill' = {}
  /\ UNCHANGED <<pipeVars, listVars, ctlVars, cur, new, sock, crashed, histVars>>

\* Mutant: a connected instance is taken off the list and put on no other.
PollAndForget(h) ==
  /\ pc = "poll" /\ h \in todo
  /\ todo' = todo \ {h}
  /\ IF inst[h] = "connected"
     THEN kill' = kill \cup {h} /\ UNCHANGED inst
     ELSE /\ inst' = IF inst[h] = "disconnected" THEN [inst EXCEPT ![h] = "listening"] ELSE inst
          /\ UNCHANGED kill
  /\ UNCHANGED <<conn, conns, pending, waiting, active, owned, total, ctlVars, pc, cur, new,
                 sock, crashed, histVars>>

\* ConnectNamedPipe.  ERROR_PIPE_CONNECTED: a client is there.  ERROR_IO_PENDING: the
\* instance listens, and the connect is cancelled when its overlapped is dropped.  Any
\* other error, as for a client that has left already, changes nothing.
Poll(h) ==
  /\ pc = "poll" /\ h \in todo
  /\ todo' = todo \ {h}
  /\ IF inst[h] = "connected"
     THEN pending' = pending \cup {h} /\ kill' = kill \cup {h} /\ UNCHANGED inst
     ELSE /\ inst' = IF inst[h] = "disconnected" THEN [inst EXCEPT ![h] = "listening"] ELSE inst
          /\ UNCHANGED <<pending, kill>>
  /\ UNCHANGED <<conn, conns, waiting, active, owned, total, ctlVars, pc, cur, new,
                 sock, crashed, histVars>>

EndPoll ==
  /\ pc = "poll" /\ todo = {}
  /\ waiting' = waiting \ kill
  /\ pc' = "accept" /\ kill' = {}
  /\ todo' = IF hooked THEN pending ELSE {}
  /\ UNCHANGED <<pipeVars, pending, active, owned, total, ctlVars, cur, new,
                 sock, crashed, histVars>>

----------------------------------------------------------------------------
(* The watcher: second pass, over pending_sockets *)

\* A socket is made for the handle and on_accept is called with it.
CallOnAccept(h) ==
  /\ pc = "accept" /\ h \in todo
  /\ \E s \in Sockets :
       /\ sock[s].life \in {"none", "dead"} /\ \A g \in DOMAIN active : active[g] # s
       /\ sock' = [sock EXCEPT ![s] = [h |-> h, c |-> conn[h], life |-> "good"]]
       /\ new' = s
  /\ evals' = [evals EXCEPT ![conn[h]] = @ + 1]
  /\ todo' = todo \ {h} /\ cur' = h
  /\ pc' = "decide"
  /\ UNCHANGED <<pipeVars, listVars, ctlVars, kill, crashed, creates, late>>

\* sockets.size() is compared with max_clients, and counts instances closed long ago.
MayCreate ==
  /\ Cardinality(waiting) + Cardinality(pending) < Backlog
  /\ total <= MaxClients /\ MaxClients > 0

\* _create_socket: a new instance that listens, or INVALID_HANDLE_VALUE.
CreateInstance(i) ==
  \/ \E g \in Handles :
       /\ inst[g] = "none"
       /\ inst' = [i EXCEPT ![g] = "listening"]
       /\ owned' = owned \cup {g} /\ total' = total + 1
       /\ waiting' = waiting \cup {g}
  \/ inst' = i /\ UNCHANGED <<owned, total, waiting>>

\* on_accept accepts.  If the application kept no reference, the socket is destroyed,
\* and with it the connection, when the loop variable goes out of scope.
Accept(kept) ==
  /\ pc = "decide"
  /\ pc' = "accept" /\ kill' = kill \cup {cur}
  /\ active' = IF cur \in DOMAIN active THEN active
               ELSE [h \in DOMAIN active \cup {cur} |-> IF h = cur THEN new ELSE active[h]]
  /\ LET i == IF kept THEN inst ELSE Disconnect(inst, cur)
     IN  IF MayCreate THEN CreateInstance(i)
                      ELSE inst' = i /\ UNCHANGED <<owned, total, waiting>>
  /\ sock' = IF kept THEN sock ELSE [sock EXCEPT ![new] = Dead]
  /\ cur' = None /\ new' = None
  /\ UNCHANGED <<conn, conns, pending, ctlVars, todo, crashed, histVars>>

\* Mutant: the declined socket is not closed.
DeclineOnly(kept) ==
  /\ pc = "decide"
  /\ pc' = "accept" /\ kill' = kill \cup {cur}
  /\ waiting' = waiting \cup {cur}
  /\ sock' = [sock EXCEPT ![new] = IF kept THEN [@ EXCEPT !.life = "closed"] ELSE Dead]
  /\ cur' = None /\ new' = None
  /\ UNCHANGED <<inst, conn, conns, pending, active, owned, total, ctlVars, todo, crashed, histVars>>

\* Mutant: the handle is pushed after it has been reset.
DeclineResetHandle(kept) ==
  /\ pc = "decide"
  /\ pc' = "accept" /\ kill' = kill \cup {cur}
  /\ inst' = Disconnect(inst, cur)
  /\ cur' = None /\ new' = None
  /\ waiting' = waiting \cup {cur'}
  /\ sock' = [sock EXCEPT ![new] = IF kept THEN [@ EXCEPT !.life = "closed"] ELSE Dead]
  /\ UNCHANGED <<conn, conns, pending, active, owned, total, ctlVars, todo, crashed, histVars>>

\* on_accept declines: the connection is closed and its instance waits again.
Decline(kept) ==
  /\ pc = "decide"
  /\ pc' = "accept" /\ kill' = kill \cup {cur}
  /\ inst' = Disconnect(inst, cur)
  /\ waiting' = waiting \cup {cur}
  /\ sock' = [sock EXCEPT ![new] = IF kept THEN [@ EXCEPT !.life = "closed"] ELSE Dead]
  /\ cur' = None /\ new' = None
  /\ UNCHANGED <<conn, conns, pending, active, owned, total, ctlVars, todo, crashed, histVars>>

\* Mutant: handles that were decided on stay pending.
EndAcceptKeepsPending ==
  /\ pc = "accept" /\ todo = {}
  /\ pc' = "verify" /\ kill' = {}
  /\ todo' = DOMAIN active
  /\ UNCHANGED <<pipeVars, listVars, ctlVars, cur, new, sock, crashed, histVars>>

EndAccept ==
  /\ pc = "accept" /\ todo = {}
  /\ pending' = pending \ kill
  /\ pc' = "verify" /\ kill' = {}
  /\ todo' = DOMAIN active
  /\ UNCHANGED <<pipeVars, waiting, active, owned, total, ctlVars, cur, new,
                 sock, crashed, histVars>>

----------------------------------------------------------------------------
(* The watcher: third pass, over active_sockets *)

Expired(s) == sock[s].life \in {"expired", "dead"}
Good(s) == sock[s].life \in {"good", "closing", "expired"}

\* Mutant: the backlog is not bounded.
RecycleAlways(h) ==
  /\ active' = [g \in DOMAIN active \ {h} |-> active[g]]
  /\ waiting' = waiting \cup {h} /\ UNCHANGED inst
  /\ todo' \in {todo \ {h}, {}} /\ crashed' \in BOOLEAN
  /\ pc' = "verify"

\* The handle of a finished connection waits again, or is closed when there are enough.
\* The iterator that was erased is then incremented: undefined behaviour, the pass goes
\* on, ends, or crashes.
Recycle(h) ==
  /\ active' = [g \in DOMAIN active \ {h} |-> active[g]]
  /\ IF Cardinality(waiting) + Cardinality(pending) < Backlog
     THEN waiting' = waiting \cup {h} /\ UNCHANGED inst
     ELSE inst' = [inst EXCEPT ![h] = "none"] /\ UNCHANGED waiting
  /\ todo' \in {todo \ {h}, {}} /\ crashed' \in BOOLEAN
  /\ pc' = "verify"

VerifyFrame == UNCHANGED <<conn, conns, pending, owned, total, ctlVars, kill, new,
                           sock, histVars>>

\* itr->second.expired()
CheckExpired(h) ==
  /\ pc = "verify" /\ h \in todo
  /\ IF Expired(active[h])
     THEN Recycle(h) /\ UNCHANGED cur
     ELSE pc' = "lock" /\ cur' = h /\ UNCHANGED <<inst, active, waiting, todo, crashed>>
  /\ VerifyFrame

\* Mutant: the test of good() is inverted.
CheckGoodInverted ==
  /\ pc = "lock"
  /\ CASE Expired(active[cur]) -> /\ crashed' = TRUE /\ pc' = "verify"
                                  /\ UNCHANGED <<inst, active, waiting, todo>>
       [] ~Expired(active[cur]) /\ Good(active[cur]) -> Recycle(cur)
       [] OTHER -> /\ pc' = "verify" /\ todo' = todo \ {cur}
                   /\ UNCHANGED <<inst, active, waiting, crashed>>
  /\ cur' = None /\ VerifyFrame

\* itr->second.lock(), which is null if the last reference went since, and good().
CheckGood ==
  /\ pc = "lock"
  /\ CASE Expired(active[cur]) -> /\ crashed' = TRUE /\ pc' = "verify"
                                  /\ UNCHANGED <<inst, active, waiting, todo>>
       [] ~Expired(active[cur]) /\ ~Good(active[cur]) -> Recycle(cur)
       [] OTHER -> /\ pc' = "verify" /\ todo' = todo \ {cur}
                   /\ UNCHANGED <<inst, active, waiting, crashed>>
  /\ cur' = None /\ VerifyFrame

EndVerify ==
  /\ pc = "verify" /\ todo = {}
  /\ pc' = "top"
  /\ UNCHANGED <<pipeVars, listVars, ctlVars, todo, kill, cur, new, sock, crashed, histVars>>

----------------------------------------------------------------------------
(* The application *)

SocketFrame == UNCHANGED <<conn, conns, listVars, hooked, shutdown, joinable, closing,
                           watchVars, crashed, evals, creates>>

\* on_accept was called with s and has not returned: nobody else has the socket.
InHand(s) == pc \in {"decide", "stuck"} /\ new = s

\* socket::close() by a thread of the application: is_connected is set, which it stays until
\* a first call is nearly over, so that others come this far ...
CloseSocket(s) ==
  /\ sock[s].life \in {"good", "closing"} /\ ~InHand(s)
  /\ passed[s] + (IF sock[s].life = "closing" THEN 1 ELSE 0) < MaxClosers
  /\ passed' = [passed EXCEPT ![s] = @ + 1]
  /\ UNCHANGED <<inst, sock, late>> /\ SocketFrame

\* ... and whatever is connected to its handle by now is disconnected ...
DisconnectSocket(s) ==
  /\ passed[s] > 0
  /\ passed' = [passed EXCEPT ![s] = @ - 1]
  /\ inst' = Disconnect(inst, sock[s].h)
  /\ sock' = IF sock[s].life = "good" THEN [sock EXCEPT ![s].life = "closing"] ELSE sock
  /\ late' = IF sock[s].life = "closed" THEN late \cup {sock[s].h} ELSE late
  /\ SocketFrame

\* ... and is_connected is cleared when its watcher has been joined.
SocketClosed(s) ==
  /\ sock[s].life = "closing"
  /\ sock' = [sock EXCEPT ![s].life = "closed"]
  /\ UNCHANGED <<inst, passed, late>> /\ SocketFrame

\* The last reference is dropped: weak pointers expire, and ~socket is still to run.
DropSocket(s) ==
  /\ passed[s] = 0 /\ ~InHand(s)
  /\ \/ sock[s].life = "closed"
        /\ sock' = [sock EXCEPT ![s] = Dead]
     \/ sock[s].life = "good" /\ MayDrop
        /\ sock' = [sock EXCEPT ![s].life = "expired"]
  /\ UNCHANGED <<inst, passed, late>> /\ SocketFrame

\* ~socket: close() of whatever is connected to its handle by now.
DestroySocket(s) ==
  /\ sock[s].life = "expired"
  /\ sock' = [sock EXCEPT ![s] = Dead]
  /\ inst' = Disconnect(inst, sock[s].h)
  /\ UNCHANGED <<passed, late>> /\ SocketFrame

UseSocket(s) ==
  CloseSocket(s) \/ DisconnectSocket(s) \/ SocketClosed(s) \/ DropSocket(s) \/ DestroySocket(s)

\* event::add and event::clear on on_accept.
Hook(b) ==
  /\ hooked' = b
  /\ UNCHANGED <<pipeVars, listVars, shutdown, joinable, closing, passed, watchVars, sock,
                 crashed, histVars>>

\* server::create() after its close(): Backlog instances, or none if one cannot be made.
Create ==
  /\ ~joinable /\ ~closing /\ creates < MaxCreates
  /\ creates' = creates + 1
  /\ \E new_handles \in SUBSET {h \in Handles : inst[h] = "none"} :
       /\ Cardinality(new_handles) = Backlog
       /\ inst' = [h \in Handles |-> IF h \in new_handles THEN "listening" ELSE inst[h]]
       /\ owned' = new_handles /\ waiting' = new_handles
  /\ total' = Backlog
  /\ shutdown' = FALSE /\ joinable' = TRUE /\ pc' = "top"
  /\ UNCHANGED <<conn, conns, pending, active, hooked, closing, passed, todo, kill, cur, new,
                 sock, crashed, evals, late>>

\* Mutant: the watcher is not told.
CloseSilently ==
  /\ joinable /\ ~closing
  /\ closing' = TRUE /\ UNCHANGED shutdown
  /\ UNCHANGED <<pipeVars, listVars, hooked, joinable, passed, watchVars, sock, crashed, histVars>>

\* server::close(): take watcher.lock, tell the watcher to stop ...
Close ==
  /\ joinable /\ ~closing
  /\ shutdown' = TRUE /\ closing' = TRUE
  /\ UNCHANGED <<pipeVars, listVars, hooked, joinable, passed, watchVars, sock, crashed, histVars>>

\* ... join it, close every handle ever made, and forget them.  Nobody tells the sockets.
CloseJoined ==
  /\ closing /\ pc = "exited"
  /\ closing' = FALSE /\ joinable' = FALSE
  /\ inst' = [h \in Handles |-> IF h \in owned THEN "none" ELSE inst[h]]
  /\ waiting' = {} /\ pending' = {} /\ owned' = {} /\ total' = 0
  /\ active' = [h \in {} |-> None]
  /\ UNCHANGED <<conn, conns, hooked, shutdown, passed, watchVars, sock, crashed, histVars>>

\* server::close() by on_accept, on the watcher: if another thread is in close() it waits for
\* watcher.lock for ever; else it joins itself, which throws, and nothing catches it.
CloseFromAccept ==
  /\ pc = "decide"
  /\ shutdown' = TRUE
  /\ IF closing THEN pc' = "stuck" /\ UNCHANGED crashed
                 ELSE crashed' = TRUE /\ UNCHANGED pc
  /\ UNCHANGED <<pipeVars, listVars, hooked, joinable, closing, passed, todo, kill, cur, new,
                 sock, histVars>>

\* ~server closes nothing: destroying a joinable std::thread terminates the process.
Destroy ==
  /\ joinable /\ ~closing
  /\ crashed' = TRUE
  /\ UNCHANGED <<pipeVars, listVars, ctlVars, watchVars, sock, histVars>>

----------------------------------------------------------------------------

Init ==
  /\ inst = [h \in Handles |-> "none"] /\ conn = [h \in Handles |-> 0] /\ conns = 0
  /\ waiting = {} /\ pending = {} /\ active = [h \in {} |-> None]
  /\ owned = {} /\ total = 0
  /\ hooked = FALSE /\ shutdown = FALSE /\ joinable = FALSE /\ closing = FALSE
  /\ pc = "exited" /\ todo = {} /\ kill = {} /\ cur = None /\ new = None
  /\ sock = [s \in Sockets |-> Free] /\ passed = [s \in Sockets |-> 0] /\ crashed = FALSE
  /\ evals = [c \in 0..MaxConns |-> 0] /\ creates = 0 /\ late = {}

Watcher ==
  \/ Top \/ EndPoll \/ EndAccept \/ CheckGood \/ EndVerify
  \/ \E h \in Handles : Poll(h) \/ CallOnAccept(h) \/ CheckExpired(h)
  \/ \E kept \in BOOLEAN : Accept(kept) \/ Decline(kept)

Application ==
  \/ \E s \in Sockets : UseSocket(s)
  \/ \E b \in BOOLEAN : Hook(b)
  \/ Create \/ Close \/ CloseJoined \/ CloseFromAccept \/ Destroy

Clients == \E h \in Handles : ClientConnect(h) \/ ClientLeave(h)

\* A terminated process takes no further step.
Next == ~crashed /\ (Watcher \/ Application \/ Clients)

Spec == Init /\ [][Next]_vars

\* The scheduler runs the watcher; the callbacks return.
FairSpec == Spec /\ WF_vars(~crashed /\ Watcher) /\ WF_vars(~crashed /\ CloseJoined)

----------------------------------------------------------------------------
(* Properties *)

\* Every variable has its type.
TypeOK ==
  /\ inst \in [Handles -> InstStates]
  /\ conn \in [Handles -> 0..MaxConns] /\ conns \in 0..MaxConns
  /\ waiting \subseteq Handles /\ pending \subseteq Handles
  /\ DOMAIN active \subseteq Handles /\ active \in [DOMAIN active -> Sockets]
  /\ owned \subseteq Handles /\ total \in Nat
  /\ hooked \in BOOLEAN /\ shutdown \in BOOLEAN /\ joinable \in BOOLEAN
  /\ closing \in BOOLEAN /\ crashed \in BOOLEAN
  /\ pc \in {"top", "poll", "accept", "decide", "verify", "lock", "stuck", "exited"}
  /\ todo \subseteq Handles /\ kill \subseteq Handles
  /\ cur \in Handles \cup {None} /\ (pc \in {"decide", "lock"} => cur \in Handles)
  /\ new \in Sockets \cup {None} /\ (pc = "decide" => new \in Sockets)
  /\ sock \in [Sockets -> SocketState] /\ passed \in [Sockets -> Nat]
  /\ evals \in [0..MaxConns -> Nat] /\ creates \in Nat
  /\ late \subseteq Handles \cup {None}

\* "Enforce backlog size" (server.cpp:198, 211): whenever the server's lock is free
\* between two rounds of the watcher, at most Backlog instances wait or are pending,
\* although three passes count them while entries are still on two lists.
BacklogBound == pc = "top" => Cardinality(waiting) + Cardinality(pending) <= Backlog

\* Between two rounds every open instance is on exactly one list, and no closed one on any: a
\* handle on two lists would be given to two sockets, one on none is lost to the server, and
\* a closed one is of use to nobody.
EachInstanceOnce ==
  pc = "top" => /\ waiting \cap pending = {}
                /\ (waiting \cup pending) \cap DOMAIN active = {}
                /\ waiting \cup pending \cup DOMAIN active = {h \in Handles : inst[h] # "none"}

\* "This event is called if a new connection is pending evaluation" (iserver.hpp:29-30):
\* on_accept is called once at most for each connection.
NewConnectionsOnly == \A c \in Connections : evals[c] <= 1

\* The pipe under an active socket that is good carries the connection it was accepted for,
\* never another client's.  That connection is cut off by nobody, but by a second call of
\* close() of a socket that had the handle before: it tests is_connected before the first
\* call clears it, and disconnects the pipe when others have it (socket.cpp:56, 177-178).
ActiveOwnsPipe ==
  \A h \in DOMAIN active :
    sock[active[h]].life = "good" =>
      conn[h] = sock[active[h]].c /\ (inst[h] \in {"connected", "closing"} \/ h \in late)

Stopping == crashed \/ shutdown

\* Every connection is put to on_accept, unless the client leaves first or is cut off.
EveryClientEvaluated ==
  <>[]hooked =>
    \A c \in Connections : \A h \in Handles :
      (inst[h] = "connected" /\ conn[h] = c) ~>
        (evals[c] > 0 \/ inst[h] # "connected" \/ Stopping)

\* The instance of a closed connection does not stay active for ever.
ClosedIsRecycled ==
  \A h \in Handles :
    (h \in DOMAIN active /\ ~Good(active[h])) ~> (h \notin DOMAIN active \/ Stopping)

\* close() returns (server.cpp:271-280) wherever the watcher is in its three passes, unless
\* on_accept calls close() as well: that waits for watcher.lock, which the joining thread holds.
CloseEnds == closing ~> (~closing \/ crashed \/ pc = "stuck")
=============================================================================
