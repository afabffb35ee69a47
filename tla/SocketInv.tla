------------------------------ MODULE SocketInv ------------------------------
(***************************************************************************)
(* The inductive invariant of Socket, part by part.  It says what the       *)
(* properties of Socket leave implicit: where in the pipe the watcher is,   *)
(* as a function of how many messages it has handed over, and which         *)
(* overlapped object may be busy in which state.                            *)
(***************************************************************************)
EXTENDS Socket

\* How many messages of this connection the application has been given.
Heard == Len(delivered)

\* The thread handle, the watcher and the threads inside close() agree.
ThreadInv ==
  /\ ~joinable => pc = "exited"
  /\ pc = "exited" => rd = Idle
  /\ ~is_connected => ~joinable
  /\ \A u \in Users : upc[u] = "finish" => ~joinable
  /\ is_connected /\ ~joinable => \E u \in Users : upc[u] = "finish"

\* A busy overlapped object is the one the watcher waits on, and conversely.
ReadInv ==
  /\ rd["header"] # "idle" => state = "Header" /\ waitable = "header"
  /\ rd["content"] # "idle" => state = "Content" /\ waitable = "content"
  /\ state = "Unknown" => waitable = "none"
  /\ state = "Header" => waitable = "header"
  /\ state = "Content" => waitable # "header"
  /\ pc = "wait" => waitable # "none"
  /\ pc = "callback" => rd = Idle /\ state = "Content"
  /\ \A o \in Overlapped : rd[o] = "pending" => NoBytes

\* The pipe holds the frames of the messages sent, one after the other.
WireInv ==
  /\ Len(wire) = 2 * Len(sent)
  /\ \A i \in 1..Len(sent) :
       /\ wire[2 * i - 1] = [kind |-> "header", of |-> sent[i]]
       /\ wire[2 * i] = [kind |-> "body", of |-> sent[i]]

\* Between two messages everything delivered has been read, and no more.
BetweenMessages ==
  state = "Unknown" \/ pc = "callback" => ReadRefused \/ rpos = 2 * Heard

\* A header read is at the start of a frame, or holds the header of that frame.
HeaderInHand ==
  state = "Header" =>
    \/ ReadRefused
    \/ rd["header"] = "pending" /\ rpos = 2 * Heard
    \/ /\ rd["header"] # "pending" /\ rpos = 2 * Heard + 1 /\ Heard < Len(sent)
       /\ read_buffer = [kind |-> "header", of |-> sent[Heard + 1]]

\* A content read is the body of the first message not delivered, or will be.
ContentInHand ==
  state = "Content" /\ pc # "callback" =>
    /\ Heard < Len(sent)
    /\ read_size = Length[sent[Heard + 1]]
    /\ sent[Heard + 1] # Empty =>
         /\ rd["content"] # "pending"
         /\ read_buffer = [kind |-> "body", of |-> sent[Heard + 1]]
    /\ \/ ReadRefused
       \/ rd["content"] = "pending" /\ rpos = 2 * Heard + 1
       \/ rd["content"] # "pending" /\ rpos = 2 * Heard + 2

PositionInv == pc # "exited" => BetweenMessages /\ HeaderInHand /\ ContentInHand

IInv == /\ TypeOK /\ ThreadInv /\ ReadInv /\ WireInv /\ PositionInv
        /\ DeliveredInOrder
=============================================================================
