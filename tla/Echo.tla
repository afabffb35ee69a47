-------------------------------- MODULE Echo --------------------------------
(***************************************************************************)
(* The two samples, single-process-ipc and benchmark: main makes a server    *)
(* that sends every message back and a client that writes messages and       *)
(* counts what returns, and tears both down on a key.  Five threads: main,   *)
(* the watchers of the client and of the server's client, and those of       *)
(* their two sockets, which run on_message.                                  *)
(*                                                                         *)
(* The sockets and the pipe are those of Socket, reduced to two queues.  A   *)
(* message stands for its number, and for the task that sends it back.       *)
(***************************************************************************)
EXTENDS Naturals, Sequences

CONSTANTS
  Count,         \* COUNT of the benchmark; a bound on what the other sample sends
  MaxWait        \* MAXIMUM_WAIT_OBJECTS, which the benchmark writes as 64

ASSUME EchoAssumption == Count \in Nat \ {0} /\ MaxWait \in Nat \ {0}

VARIABLES
  variant,       \* which sample
  main,          \* where main is
  pipe,          \* none, up or cut
  up, down,      \* the bytes on the way to the server and back
  hosting,       \* the server has not closed its dp
  \* the client
  sender, stop,  \* its _watcher, and watcher.shutdown
  task, sending, \* the message its task writes, and how far the write is
  sent, can_send_msg,
  listener,      \* the watcher of its socket
  hooked,
  received,      \* what handle_message was called with
  \* the server's client
  echo, hand,    \* the watcher of its socket, and the message in handle_message
  watcher, shutdown,
  tasks, written,\* its list, and how far each write is
  waits, found,  \* what _watcher waits for, and waits[index]
  \* history
  overfull,      \* wait_any was given more than MaxWait objects
  overtaken,     \* an echo came before can_send_msg was reset
  freed,         \* the client dropped a task whose write the system still had
  early, touched,\* the client went with an echo due or in handle_message, and one was
                 \* tracked after its members went
  broken         \* the map of clients was changed while it was destroyed

clientVars == <<sender, stop, task, sending, sent, can_send_msg>>
hearVars == <<listener, hooked, received>>
echoVars == <<echo, hand>>
watchVars == <<watcher, shutdown, waits, found>>
ioVars == <<pipe, up, down>>
histVars == <<overfull, overtaken, freed, early, touched, broken>>
vars == <<variant, main, ioVars, hosting, clientVars, hearVars, echoVars, watchVars,
          tasks, written, histVars>>

Messages == 1..Count
Ipc == variant = "ipc"
Benchmark == variant = "benchmark"
Entries(s) == {s[i] : i \in DOMAIN s}

----------------------------------------------------------------------------
(* client::_watcher *)

SendFrame ==
  UNCHANGED <<variant, main, pipe, down, hosting, stop, hearVars, echoVars, watchVars,
              tasks, written>>

\* dp->write of the next message.
WriteNext ==
  /\ sent' = sent + 1 /\ task' = sent + 1 /\ sending' = "pending"
  /\ up' = Append(up, sent + 1)

\* single-process-ipc: a message whenever the last one was written.
Send ==
  /\ Ipc /\ sender = "loop" /\ ~stop /\ task = 0 /\ sent < Count
  /\ WriteNext
  /\ UNCHANGED <<sender, can_send_msg, histVars>> /\ SendFrame

\* Mutant: send_cnt <= COUNT.
SendOneMore ==
  /\ Benchmark /\ sender = "loop" /\ ~stop /\ task = 0 /\ can_send_msg /\ sent <= Count
  /\ WriteNext /\ sender' = "flag"
  /\ UNCHANGED <<can_send_msg, histVars>> /\ SendFrame

\* benchmark: a message when the last one has come back.
SendWhenReturned ==
  /\ Benchmark /\ sender = "loop" /\ ~stop /\ task = 0 /\ can_send_msg /\ sent < Count
  /\ WriteNext /\ sender' = "flag"
  /\ UNCHANGED <<can_send_msg, histVars>> /\ SendFrame

\* can_send_msg = false, after the write.
ResetFlag ==
  /\ sender = "flag" /\ sender' = "loop" /\ can_send_msg' = FALSE
  /\ UNCHANGED <<up, task, sending, sent, histVars>> /\ SendFrame

\* task->wait runs the routine and succeeds.
WaitSent ==
  /\ sender = "loop" /\ task # 0 /\ sending = "queued"
  /\ task' = 0 /\ sending' = "none"
  /\ UNCHANGED <<sender, up, sent, can_send_msg, histVars>> /\ SendFrame

\* The loop ends, in the benchmark also after the last message.  The task is dropped, with
\* the object of a write that may still be pending.
EndSender ==
  /\ sender = "loop" /\ (stop \/ (Benchmark /\ sent >= Count))
  /\ sender' = "ended" /\ task' = 0 /\ sending' = "none"
  /\ freed' = (sending = "pending")
  /\ UNCHANGED <<up, sent, can_send_msg, overfull, overtaken, early, touched, broken>>
  /\ SendFrame

Sender == Send \/ SendWhenReturned \/ ResetFlag \/ WaitSent \/ EndSender

----------------------------------------------------------------------------
(* client::handle_message, on the watcher of the client's socket *)

HearFrame ==
  UNCHANGED <<variant, main, pipe, up, hosting, sender, stop, task, sending, sent, hooked,
              echoVars, watchVars, tasks, written, overfull, freed, early, broken>>

\* handle_message is called with the next echo, and resets can_send_msg.
Hear ==
  /\ listener = "idle" /\ hooked /\ down # <<>> /\ listener' = "track"
  /\ received' = Append(received, Head(down)) /\ down' = Tail(down)
  /\ can_send_msg' = TRUE
  /\ overtaken' = (overtaken \/ sender = "flag")
  /\ UNCHANGED touched /\ HearFrame

\* Mutant: can_send_msg stays as it is.
HearSilently ==
  /\ listener = "idle" /\ hooked /\ down # <<>> /\ listener' = "track"
  /\ received' = Append(received, Head(down)) /\ down' = Tail(down)
  /\ UNCHANGED <<can_send_msg, overtaken, touched>> /\ HearFrame

\* The rest of it, until it returns; measured says that it uses the measurer, a member.
Track(measured) ==
  /\ listener = "track" /\ listener' = "idle"
  /\ touched' = (touched \/ (measured /\ main = "drop"))
  /\ UNCHANGED <<down, received, can_send_msg, overtaken>> /\ HearFrame

\* Mutant: the round trip of single-process-ipc is tracked too.
HandleMessageTracks == Hear \/ Track(TRUE)

\* Mutant: the benchmark is not told that it may send.
HandleMessageSilent == HearSilently \/ Track(Benchmark)

HandleMessage == Hear \/ Track(Benchmark)

----------------------------------------------------------------------------
(* server::client::handle_message, on the watcher of the server's socket *)

EchoFrame ==
  UNCHANGED <<variant, main, pipe, hosting, clientVars, hearVars, watchVars, histVars>>

\* Mutant: the message stays in the buffer.
ReadAgain ==
  /\ echo = "idle" /\ pipe = "up" /\ up # <<>>
  /\ hand' = Head(up) /\ UNCHANGED up /\ echo' = "write"
  /\ UNCHANGED <<down, tasks, written>> /\ EchoFrame

ReadMessage ==
  /\ echo = "idle" /\ pipe = "up" /\ up # <<>>
  /\ hand' = Head(up) /\ up' = Tail(up) /\ echo' = "write"
  /\ UNCHANGED <<down, tasks, written>> /\ EchoFrame

\* dp->write(task, data), which fails once the pipe is cut.
EchoWrite ==
  /\ echo = "write"
  /\ IF pipe = "up"
     THEN /\ down' = Append(down, hand) /\ written' = [written EXCEPT ![hand] = "pending"]
          /\ echo' = "push" /\ UNCHANGED hand
     ELSE /\ echo' = "idle" /\ hand' = 0 /\ UNCHANGED <<down, written>>
  /\ UNCHANGED <<up, tasks>> /\ EchoFrame

\* tasks.push_back(task)
EchoPush ==
  /\ echo = "push" /\ tasks' = Append(tasks, hand)
  /\ echo' = "idle" /\ hand' = 0
  /\ UNCHANGED <<up, down, written>> /\ EchoFrame

\* The completion routines run where the writes were issued, in a wait between two messages.
RunRoutines ==
  /\ echo = "idle" /\ \E m \in Messages : written[m] = "queued"
  /\ written' = [m \in Messages |-> IF written[m] = "queued" THEN "set" ELSE written[m]]
  /\ UNCHANGED <<up, down, tasks, echoVars>> /\ EchoFrame

EchoThread == ReadMessage \/ EchoWrite \/ EchoPush \/ RunRoutines

----------------------------------------------------------------------------
(* server::client::_watcher *)

WatchFrame ==
  UNCHANGED <<variant, main, ioVars, hosting, clientVars, hearVars, echoVars, shutdown,
              overtaken, freed, early, touched, broken>>

\* Mutant: the benchmark puts all tasks on the list.
TakeAll(s) == s

\* The benchmark stops at 64 tasks.
TakeSome(s) == IF Len(s) > MaxWait THEN SubSeq(s, 1, MaxWait) ELSE s

Snapshot ==
  /\ watcher = "loop" /\ ~shutdown /\ tasks # <<>>
  /\ waits' = IF Benchmark THEN TakeSome(tasks) ELSE tasks
  /\ watcher' = "wait" /\ overfull' = (overfull \/ Len(waits') > MaxWait)
  /\ UNCHANGED <<tasks, written, found>> /\ WatchFrame

IsSet(i) == written[waits[i]] = "set"

\* wait_any: the first task whose event is set.
WaitAny ==
  /\ watcher = "wait" /\ Len(waits) <= MaxWait
  /\ \E index \in DOMAIN waits :
       /\ IsSet(index) /\ \A i \in 1..(index - 1) : ~IsSet(i)
       /\ found' = waits[index]
       /\ written' = [written EXCEPT ![waits[index]] = "taken"]
  /\ watcher' = "erase"
  /\ UNCHANGED <<tasks, waits, overfull>> /\ WatchFrame

\* wait_any times out, or fails because there are too many objects.
WaitAnyFails ==
  /\ watcher = "wait"
  /\ Len(waits) > MaxWait \/ \A i \in DOMAIN waits : ~IsSet(i)
  /\ watcher' = "loop" /\ waits' = <<>>
  /\ UNCHANGED <<tasks, written, found, overfull>> /\ WatchFrame

\* tasks.erase(task), the first entry that is the task found.  There is one: WaitsAlive.
Erase ==
  /\ watcher = "erase"
  /\ \E i \in DOMAIN tasks :
       /\ tasks[i] = found /\ \A k \in 1..(i - 1) : tasks[k] # found
       /\ tasks' = SubSeq(tasks, 1, i - 1) \o SubSeq(tasks, i + 1, Len(tasks))
  /\ watcher' = "loop" /\ waits' = <<>> /\ found' = 0
  /\ UNCHANGED <<written, overfull>> /\ WatchFrame

EndWatcher ==
  /\ watcher = "loop" /\ shutdown /\ watcher' = "ended"
  /\ UNCHANGED <<tasks, written, waits, found, overfull>> /\ WatchFrame

Watcher == Snapshot \/ WaitAny \/ WaitAnyFails \/ Erase \/ EndWatcher

----------------------------------------------------------------------------
(* The system *)

\* It is done with the client's write.
FinishSend ==
  /\ sending = "pending" /\ sending' = "queued"
  /\ UNCHANGED <<variant, main, ioVars, hosting, sender, stop, task, sent, can_send_msg,
                 hearVars, echoVars, watchVars, tasks, written, histVars>>

\* It is done with an echo.
FinishEcho ==
  \E m \in Messages :
    /\ written[m] = "pending" /\ written' = [written EXCEPT ![m] = "queued"]
    /\ UNCHANGED <<variant, main, ioVars, hosting, clientVars, hearVars, echoVars,
                   watchVars, tasks, histVars>>

\* handle_accept, on the server's watcher: the constructor of server::client.
HandleAccept ==
  /\ hosting /\ pipe = "up" /\ echo = "none"
  /\ echo' = "idle" /\ watcher' = "loop" /\ shutdown' = FALSE
  /\ UNCHANGED <<variant, main, ioVars, hosting, clientVars, hearVars, hand, waits, found,
                 tasks, written, histVars>>

----------------------------------------------------------------------------
(* main *)

MainFrame == UNCHANGED <<variant, up, down, task, sending, sent, can_send_msg, received>>

\* myServer
Host ==
  /\ main = "serve" /\ main' = "connect" /\ hosting' = TRUE
  /\ UNCHANGED <<pipe, sender, stop, listener, hooked, echoVars, watchVars, tasks, written,
                 histVars>>
  /\ MainFrame

\* datapath::connect
Connect ==
  /\ main = "connect" /\ main' = "start" /\ pipe' = "up" /\ listener' = "idle"
  /\ UNCHANGED <<hosting, sender, stop, hooked, echoVars, watchVars, tasks, written, histVars>>
  /\ MainFrame

\* The client's watcher runs before the client listens.
StartSender ==
  /\ main = "start" /\ main' = "hook" /\ sender' = "loop" /\ stop' = FALSE
  /\ UNCHANGED <<pipe, hosting, listener, hooked, echoVars, watchVars, tasks, written, histVars>>
  /\ MainFrame

HookMessages ==
  /\ main = "hook" /\ main' = "input" /\ hooked' = TRUE
  /\ UNCHANGED <<pipe, hosting, sender, stop, listener, echoVars, watchVars, tasks, written,
                 histVars>>
  /\ MainFrame

\* std::cin.get() returns, and ~client begins.
Key ==
  /\ main = "input" /\ main' = "join" /\ stop' = TRUE
  /\ UNCHANGED <<pipe, hosting, sender, listener, hooked, echoVars, watchVars, tasks, written,
                 histVars>>
  /\ MainFrame

\* The client's watcher is joined; its members go, the socket, declared first, last.
DestroyMembers ==
  /\ main = "join" /\ sender = "ended" /\ main' = "drop"
  /\ early' = (Len(received) < sent \/ listener = "track")
  /\ UNCHANGED <<pipe, hosting, sender, stop, listener, hooked, echoVars, watchVars, tasks,
                 written, overfull, overtaken, freed, touched, broken>>
  /\ MainFrame

\* ~socket of the client: close() joins its watcher, in handle_message too.  The pipe stays, because only the
\* server can disconnect it.  benchmark goes on with the clients, single-process-ipc with dp.
DropClient ==
  /\ main = "drop" /\ listener = "idle" /\ listener' = "ended" /\ stop' = TRUE
  /\ main' = IF Benchmark /\ echo # "none" THEN "shutdown" ELSE "server"
  /\ UNCHANGED <<pipe, hosting, sender, hooked, echoVars, watchVars, tasks, written, histVars>>
  /\ MainFrame

\* dp->close() of the server: it accepts nobody any more and closes the pipes.
CloseServer ==
  /\ main = "server" /\ hosting' = FALSE /\ pipe' = "cut"
  /\ main' = IF echo \in {"none", "ended"} THEN "done" ELSE "shutdown"
  /\ UNCHANGED <<sender, stop, listener, hooked, echoVars, watchVars, tasks, written, histVars>>
  /\ MainFrame

\* Mutant: the watcher is not told.
KeepWatching ==
  /\ main = "shutdown" /\ main' = "close"
  /\ UNCHANGED <<pipe, hosting, sender, stop, listener, hooked, echoVars, watchVars, tasks,
                 written, histVars>>
  /\ MainFrame

\* ~client of the server: watcher.shutdown = true
Shutdown ==
  /\ main = "shutdown" /\ main' = "close" /\ shutdown' = TRUE
  /\ UNCHANGED <<pipe, hosting, sender, stop, listener, hooked, echoVars, watcher, waits,
                 found, tasks, written, histVars>>
  /\ MainFrame

\* dp->close() cuts the pipe.
Cut ==
  /\ main' = "on_close" /\ pipe' = "cut"
  /\ UNCHANGED <<hosting, sender, stop, listener, hooked, echoVars, watchVars, tasks, written,
                 histVars>>
  /\ MainFrame

\* Mutant: the watcher is not joined.
CloseUnjoined == main = "close" /\ Cut

\* The watcher was joined.
CloseSocket == main = "close" /\ watcher = "ended" /\ Cut

\* handle_close of single-process-ipc: sockets.erase(dp), in the destructor of sockets.
HandleCloseErases ==
  /\ main = "on_close" /\ main' = "joined" /\ broken' = TRUE
  /\ UNCHANGED <<pipe, hosting, sender, stop, listener, hooked, echoVars, watchVars, tasks,
                 written, overfull, overtaken, freed, early, touched>>
  /\ MainFrame

\* handle_close of either sample; the benchmark's does nothing.
HandleClose ==
  \/ Ipc /\ HandleCloseErases
  \/ /\ Benchmark /\ main = "on_close" /\ main' = "joined"
     /\ UNCHANGED <<pipe, hosting, sender, stop, listener, hooked, echoVars, watchVars, tasks,
                    written, histVars>>
     /\ MainFrame

\* The watcher of the server's socket is joined, and the members go with the tasks.
DestroyServerClient ==
  /\ main = "joined" /\ echo = "idle" /\ echo' = "ended" /\ tasks' = <<>>
  /\ main' = IF hosting THEN "server" ELSE "done"
  /\ UNCHANGED <<pipe, hosting, sender, stop, listener, hooked, hand, watchVars, written,
                 histVars>>
  /\ MainFrame

\* What main does without the user.
Main ==
  \/ Host \/ Connect \/ StartSender \/ HookMessages \/ DestroyMembers \/ DropClient
  \/ CloseServer \/ Shutdown \/ CloseSocket \/ HandleClose \/ DestroyServerClient

----------------------------------------------------------------------------

Init ==
  /\ variant \in {"ipc", "benchmark"}
  /\ main = "serve" /\ pipe = "none" /\ up = <<>> /\ down = <<>> /\ hosting = FALSE
  /\ sender = "none" /\ stop = FALSE /\ task = 0 /\ sending = "none" /\ sent = 0
  /\ can_send_msg = TRUE /\ listener = "none" /\ hooked = FALSE /\ received = <<>>
  /\ echo = "none" /\ hand = 0 /\ watcher = "none" /\ shutdown = FALSE
  /\ tasks = <<>> /\ written = [m \in Messages |-> "none"] /\ waits = <<>> /\ found = 0
  /\ overfull = FALSE /\ overtaken = FALSE /\ freed = FALSE
  /\ early = FALSE /\ touched = FALSE /\ broken = FALSE

\* A map was changed while it was destroyed, or what is gone was used, by handle_message or
\* by the system.
Undefined == broken \/ touched \/ freed

\* Nothing is said of a process after undefined behaviour.
Next ==
  /\ ~Undefined
  /\ \/ Sender \/ HandleMessage \/ EchoThread \/ Watcher
     \/ FinishSend \/ FinishEcho \/ HandleAccept \/ Main \/ Key

\* Every thread runs on, the system finishes what was written, and the server accepts.
Fairness ==
  /\ WF_vars(~Undefined /\ Sender) /\ WF_vars(~Undefined /\ HandleMessage)
  /\ WF_vars(~Undefined /\ EchoThread) /\ WF_vars(~Undefined /\ Watcher)
  /\ WF_vars(~Undefined /\ FinishSend) /\ WF_vars(~Undefined /\ FinishEcho)
  /\ WF_vars(~Undefined /\ HandleAccept) /\ WF_vars(~Undefined /\ Main)

Spec == Init /\ [][Next]_vars /\ Fairness

----------------------------------------------------------------------------

TypeOK ==
  /\ variant \in {"ipc", "benchmark"} /\ pipe \in {"none", "up", "cut"}
  /\ main \in {"serve", "connect", "start", "hook", "input", "join", "drop", "server",
               "shutdown", "close", "on_close", "joined", "done"}
  /\ up \in Seq(Messages) /\ down \in Seq(Messages) /\ received \in Seq(Messages)
  /\ sender \in {"none", "loop", "flag", "ended"} /\ listener \in {"none", "idle", "track", "ended"}
  /\ echo \in {"none", "idle", "write", "push", "ended"}
  /\ watcher \in {"none", "loop", "wait", "erase", "ended"}
  /\ hosting \in BOOLEAN /\ stop \in BOOLEAN /\ can_send_msg \in BOOLEAN
  /\ hooked \in BOOLEAN /\ shutdown \in BOOLEAN /\ overfull \in BOOLEAN
  /\ overtaken \in BOOLEAN /\ freed \in BOOLEAN /\ early \in BOOLEAN
  /\ touched \in BOOLEAN /\ broken \in BOOLEAN
  /\ task \in 0..Count /\ sent \in 0..Count /\ hand \in 0..Count /\ found \in 0..Count
  /\ sending \in {"none", "pending", "queued"}
  /\ tasks \in Seq(Messages) /\ waits \in Seq(Messages)
  /\ written \in [Messages -> {"none", "pending", "queued", "set", "taken"}]

\* Every message is in exactly one place, in the order of sending, until it has returned
\* (single-process-ipc/main.cpp:136-144, 255-263): in the pipe, in the server's hands, on
\* its way back, or received.
NothingLostOrTwice ==
  pipe # "cut" =>
    received \o down \o (IF echo = "write" THEN <<hand>> ELSE <<>>) \o up
      = [m \in 1..sent |-> m]

\* The pointers the server's watcher waits on are tasks of its list (single-process-ipc
\* /main.cpp:98-124): the list only grows behind its back, and is not destroyed before it
\* was joined.
WaitsAlive == watcher \in {"wait", "erase"} => Entries(waits) \subseteq Entries(tasks)

\* handle_message uses a measurer that is gone only if, as the members of client go, an echo
\* is due or handle_message has not returned: the benchmark joins its sender, but the socket,
\* which still delivers, is the last member to go (benchmark/main.cpp:216-218, 268-293, 327).
MembersAlive == touched => Benchmark /\ early

Running == main \in {"serve", "connect", "start", "hook", "input"}

\* Every task is waited for and removed (single-process-ipc/main.cpp:107-125), however many
\* there are in the benchmark (benchmark/main.cpp:102-106) - but never again once
\* single-process-ipc waits for more objects than the system allows, against the
\* assertion of waitable.cpp:128.  Nothing is said once the client freed a pending write.
TasksDrain == (tasks # <<>>) ~> (tasks = <<>> \/ ~Running \/ (Ipc /\ overfull) \/ freed)

\* All messages are sent and return, unless an echo comes before write() has returned and
\* can_send_msg is reset (benchmark/main.cpp:244-246, 270), after which the benchmark never
\* sends again, or its last write is freed while it is pending (235-237).
AllReturn == <>(Len(received) = Count \/ overtaken \/ freed \/ ~Running)

\* After a key main returns (benchmark/main.cpp:336-340): every thread that is joined was
\* told to end.  It does so unless the tear-down meets undefined behaviour first, of three
\* kinds: single-process-ipc changes its map of clients while that is destroyed (single-
\* process-ipc/main.cpp:130-134, 165, 200-205), the benchmark tracks an echo with members
\* that are gone (benchmark/main.cpp:276), and either drops the task of a pending write
\* (benchmark/main.cpp:232-237, single-process-ipc/main.cpp:219-221).
MainReturns ==
  (main = "join") ~>
    (main = "done" \/ (Ipc /\ broken) \/ (Benchmark /\ touched) \/ freed)
=============================================================================
