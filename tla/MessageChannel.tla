--------------------------- MODULE MessageChannel ---------------------------
(***************************************************************************)
(* What a datapath socket promises to the application that listens on its  *)
(* on_message event: within one connection, messages written by the peer   *)
(* arrive whole, in the order they were written, none twice and none        *)
(* skipped, and none arrives once the socket is closed.                     *)
(* Loss is possible only at the end: a connection may close with messages   *)
(* that were sent and never received.                                      *)
(***************************************************************************)
EXTENDS Naturals, Sequences

CONSTANT Data      \* the payloads a message can carry

VARIABLES
  open,            \* the application may still receive on this connection
  sent,            \* what the peer has written on this connection, in order
  received         \* what on_message has been called with, in order

vars == <<open, sent, received>>

Init ==
  /\ open = FALSE
  /\ sent = <<>>
  /\ received = <<>>

\* A new connection starts with nothing sent and nothing received.
Open ==
  /\ ~open
  /\ open' = TRUE
  /\ sent' = <<>>
  /\ received' = <<>>

Send(d) ==
  /\ sent' = Append(sent, d)
  /\ UNCHANGED <<open, received>>

\* The only message that can be received is the first one not yet received.
Receive ==
  /\ open
  /\ Len(received) < Len(sent)
  /\ received' = Append(received, sent[Len(received) + 1])
  /\ UNCHANGED <<open, sent>>

Close ==
  /\ open
  /\ open' = FALSE
  /\ UNCHANGED <<sent, received>>

Next == Open \/ (\E d \in Data : Send(d)) \/ Receive \/ Close

Spec == Init /\ [][Next]_vars
=============================================================================
