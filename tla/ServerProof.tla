----------------------------- MODULE ServerProof -----------------------------
(***************************************************************************)
(* Proofs about Server, for every set of handles and of sockets, every       *)
(* backlog and every limit of clients: its type invariant, that the three    *)
(* lists never hold a handle twice or a closed one, and that the backlog is  *)
(* bounded.                                                                *)
(***************************************************************************)
EXTENDS Server, FiniteSetTheorems, TLAPS

\* A server without a watcher thread keeps no handle.
IdleInv ==
  ~joinable => /\ waiting = {} /\ pending = {} /\ DOMAIN active = {}
               /\ pc = "exited"

\* In each pass: what is on two lists is what the pass is about to remove from one.
PassInv ==
  /\ pc = "poll" =>
       /\ todo \subseteq waiting /\ todo \cap kill = {}
       /\ kill \subseteq pending /\ waiting \cap pending \subseteq kill
       /\ (waiting \cup pending) \cap DOMAIN active = {}
  /\ pc \in {"accept", "decide"} =>
       /\ kill \subseteq pending /\ waiting \cap pending \subseteq kill
       /\ waiting \cap DOMAIN active = {} /\ pending \cap DOMAIN active \subseteq kill
       /\ todo \subseteq pending /\ todo \cap kill = {}
  /\ pc = "decide" => cur \in pending /\ cur \notin kill /\ cur \notin todo
  /\ pc \in {"top", "verify", "lock", "exited"} =>
       waiting \cap pending = {} /\ (waiting \cup pending) \cap DOMAIN active = {}
  /\ pc \in {"verify", "lock"} => todo \subseteq DOMAIN active
  /\ pc = "lock" => cur \in DOMAIN active

\* Every handle on a list is one that is open.
OpenInv == \A h \in waiting \cup pending \cup DOMAIN active : inst[h] # "none"

\* The instances that wait or are pending, each counted once.
CountInv == Cardinality(waiting \cup pending) <= Backlog

\* Every instance that is open is in sockets, which close() goes through, and on a list: what
\* a pass is about to remove from one list it has put on another.
ListedInv ==
  /\ \A h \in Handles :
       inst[h] # "none" => h \in owned /\ h \in waiting \cup pending \cup DOMAIN active
  /\ pc \in {"accept", "decide"} => kill \subseteq waiting \cup DOMAIN active

IInv == TypeOK /\ IdleInv /\ PassInv /\ OpenInv /\ CountInv /\ ListedInv

----------------------------------------------------------------------------
(* Type correctness *)

\* DisconnectNamedPipe neither opens nor closes an instance.
LEMMA DisconnectKeepsOpen ==
  ASSUME TypeOK, NEW h
  PROVE  /\ Disconnect(inst, h) \in [Handles -> InstStates]
         /\ \A g \in Handles : Disconnect(inst, h)[g] = "none" <=> inst[g] = "none"
BY DEF TypeOK, Disconnect, InstStates

\* What making an instance does, with i the states of the instances before it.
LEMMA CreateInstanceOpens ==
  ASSUME TypeOK, NEW i \in [Handles -> InstStates], CreateInstance(i)
  PROVE  /\ inst' \in [Handles -> InstStates]
         /\ owned' \subseteq Handles /\ total' \in Nat /\ waiting' \subseteq Handles
         /\ \/ waiting' = waiting /\ inst' = i
            \/ \E g \in Handles : /\ inst[g] = "none" /\ waiting' = waiting \cup {g}
                                  /\ inst' = [i EXCEPT ![g] = "listening"]
<1>1. CASE \E g \in Handles :
             /\ inst[g] = "none"
             /\ inst' = [i EXCEPT ![g] = "listening"]
             /\ owned' = owned \cup {g} /\ total' = total + 1
             /\ waiting' = waiting \cup {g}
  <2>1. PICK g \in Handles : /\ inst[g] = "none"
                             /\ inst' = [i EXCEPT ![g] = "listening"]
                             /\ owned' = owned \cup {g} /\ total' = total + 1
                             /\ waiting' = waiting \cup {g}
    BY <1>1
  <2>2. inst' \in [Handles -> InstStates]
    BY <2>1 DEF InstStates
  <2>3. owned' \subseteq Handles /\ total' \in Nat /\ waiting' \subseteq Handles
    BY <2>1 DEF TypeOK
  <2> QED
    BY <2>1, <2>2, <2>3
<1>2. CASE inst' = i /\ UNCHANGED <<owned, total, waiting>>
  BY <1>2 DEF TypeOK
<1> QED
  BY <1>1, <1>2 DEF CreateInstance

\* The types of a socket record when it is made, closed or dropped.
LEMMA SocketTypes ==
  /\ Free \in SocketState /\ Dead \in SocketState
  /\ \A r \in SocketState : \A l \in {"good", "closing", "closed", "expired"} :
       [r EXCEPT !.life = l] \in SocketState
  /\ \A h \in Handles : \A c \in 0..MaxConns :
       [h |-> h, c |-> c, life |-> "good"] \in SocketState
BY ServerAssumption DEF SocketState, Free, Dead

\* Forgetting a key of the active map.
LEMMA ActiveWithout ==
  ASSUME TypeOK, NEW h, active' = [g \in DOMAIN active \ {h} |-> active[g]]
  PROVE  /\ DOMAIN active' = DOMAIN active \ {h}
         /\ DOMAIN active' \subseteq Handles
         /\ active' \in [DOMAIN active' -> Sockets]
BY DEF TypeOK

\* Recycling a handle keeps the types of what it changes.
LEMMA RecycleType ==
  ASSUME TypeOK, NEW h \in Handles, Recycle(h)
  PROVE  /\ inst' \in [Handles -> InstStates] /\ waiting' \subseteq Handles
         /\ DOMAIN active' \subseteq Handles /\ active' \in [DOMAIN active' -> Sockets]
         /\ todo' \subseteq Handles /\ crashed' \in BOOLEAN /\ pc' = "verify"
<1>1. DOMAIN active' \subseteq Handles /\ active' \in [DOMAIN active' -> Sockets]
  BY ActiveWithout DEF Recycle
<1>2. inst' \in [Handles -> InstStates] /\ waiting' \subseteq Handles
  BY DEF Recycle, TypeOK, InstStates
<1>3. todo' \subseteq Handles /\ pc' = "verify"
  BY DEF Recycle, TypeOK
<1>4. crashed' \in BOOLEAN
  BY Zenon DEF Recycle
<1> QED
  BY <1>1, <1>2, <1>3, <1>4

\* Every step keeps every variable in its type.
LEMMA TypeStep == TypeOK /\ [Next]_vars => TypeOK'
<1> SUFFICES ASSUME TypeOK, [Next]_vars
             PROVE  TypeOK'
  OBVIOUS
<1> USE DEF pipeVars, listVars, ctlVars, watchVars, histVars
<1>1. CASE UNCHANGED vars
  BY <1>1 DEF TypeOK, vars
<1>2. ASSUME NEW h \in Handles, ClientConnect(h)
      PROVE  TypeOK'
  <2>1. conns + 1 \in 0..MaxConns
    BY <1>2, ServerAssumption DEF ClientConnect, TypeOK
  <2> QED
    BY <1>2, <2>1 DEF ClientConnect, TypeOK, InstStates
<1>3. ASSUME NEW h \in Handles, ClientLeave(h)
      PROVE  TypeOK'
  BY <1>3 DEF ClientLeave, TypeOK, InstStates
<1>4. CASE Top
  BY <1>4 DEF Top, TypeOK
<1>5. ASSUME NEW h \in Handles, Poll(h)
      PROVE  TypeOK'
  BY <1>5 DEF Poll, TypeOK, InstStates
<1>6. CASE EndPoll
  BY <1>6 DEF EndPoll, TypeOK
<1>7. ASSUME NEW h \in Handles, CallOnAccept(h)
      PROVE  TypeOK'
  <2>1. PICK s \in Sockets :
          sock' = [sock EXCEPT ![s] = [h |-> h, c |-> conn[h], life |-> "good"]] /\ new' = s
    BY <1>7 DEF CallOnAccept
  <2>2. sock' \in [Sockets -> SocketState]
    BY <2>1, SocketTypes DEF TypeOK
  <2>3. evals' \in [0..MaxConns -> Nat]
    BY <1>7 DEF CallOnAccept, TypeOK
  <2> QED
    BY <1>7, <2>1, <2>2, <2>3 DEF CallOnAccept, TypeOK
<1>8. ASSUME NEW kept \in BOOLEAN, Accept(kept)
      PROVE  TypeOK'
  <2>0. cur \in Handles /\ new \in Sockets
    BY <1>8 DEF Accept, TypeOK
  <2>1. /\ inst' \in [Handles -> InstStates]
        /\ owned' \subseteq Handles /\ total' \in Nat /\ waiting' \subseteq Handles
    <3> DEFINE i == IF kept THEN inst ELSE Disconnect(inst, cur)
    <3>1. i \in [Handles -> InstStates]
      BY DisconnectKeepsOpen DEF TypeOK
    <3>2. CASE CreateInstance(i)
      BY <3>1, <3>2, CreateInstanceOpens
    <3>3. CASE inst' = i /\ UNCHANGED <<owned, total, waiting>>
      BY <3>1, <3>3 DEF TypeOK
    <3> QED
      BY <1>8, <3>2, <3>3 DEF Accept
  <2>2. DOMAIN active' \subseteq Handles /\ active' \in [DOMAIN active' -> Sockets]
    BY <1>8, <2>0 DEF Accept, TypeOK
  <2>3. sock' \in [Sockets -> SocketState]
    BY <1>8, <2>0, SocketTypes DEF Accept, TypeOK
  <2> QED
    BY <1>8, <2>1, <2>2, <2>3 DEF Accept, TypeOK
<1>9. ASSUME NEW kept \in BOOLEAN, Decline(kept)
      PROVE  TypeOK'
  <2>0. cur \in Handles /\ new \in Sockets
    BY <1>9 DEF Decline, TypeOK
  <2>1. sock' \in [Sockets -> SocketState]
    BY <1>9, <2>0, SocketTypes DEF Decline, TypeOK
  <2>2. inst' \in [Handles -> InstStates]
    BY <1>9, DisconnectKeepsOpen DEF Decline
  <2> QED
    BY <1>9, <2>0, <2>1, <2>2 DEF Decline, TypeOK
<1>10. CASE EndAccept
  BY <1>10 DEF EndAccept, TypeOK
<1>11. ASSUME NEW h \in Handles, CheckExpired(h)
       PROVE  TypeOK'
  <2>1. CASE Expired(active[h])
    BY <1>11, <2>1, RecycleType DEF CheckExpired, VerifyFrame, TypeOK
  <2>2. CASE ~Expired(active[h])
    BY <1>11, <2>2 DEF CheckExpired, VerifyFrame, TypeOK
  <2> QED
    BY <2>1, <2>2
<1>12. CASE CheckGood
  <2>0. cur \in Handles /\ pc' = "verify"
    BY <1>12 DEF CheckGood, Recycle, TypeOK
  <2>1. CASE Recycle(cur)
    BY <1>12, <2>0, <2>1, RecycleType DEF CheckGood, VerifyFrame, TypeOK
  <2>2. CASE UNCHANGED <<inst, active, waiting>> /\ todo' \subseteq Handles /\ crashed' \in BOOLEAN
    BY <1>12, <2>0, <2>2 DEF CheckGood, VerifyFrame, TypeOK
  <2>3. crashed' = TRUE => crashed' \in BOOLEAN
    BY Zenon
  <2> QED
    BY <1>12, <2>1, <2>2, <2>3 DEF CheckGood, TypeOK
<1>13. CASE EndVerify
  BY <1>13 DEF EndVerify, TypeOK
<1>14. ASSUME NEW s \in Sockets, UseSocket(s)
       PROVE  TypeOK'
  <2>1. inst' \in [Handles -> InstStates]
    BY <1>14, DisconnectKeepsOpen
    DEF UseSocket, CloseSocket, DisconnectSocket, SocketClosed, DropSocket, DestroySocket, TypeOK
  <2>2. sock' \in [Sockets -> SocketState]
    <3>1. PICK r \in SocketState : sock' = [sock EXCEPT ![s] = r]
      <4>1. sock[s] \in SocketState
        BY DEF TypeOK
      <4>2. CASE sock' = [sock EXCEPT ![s] = Dead]
        BY <4>2, SocketTypes
      <4>0. CASE sock' = sock
        BY <4>0, <4>1 DEF TypeOK
      <4>3. ASSUME NEW l \in {"closing", "closed", "expired"},
                   sock' = [sock EXCEPT ![s].life = l]
            PROVE  \E r \in SocketState : sock' = [sock EXCEPT ![s] = r]
        <5>1. sock' = [sock EXCEPT ![s] = [sock[s] EXCEPT !.life = l]]
          BY <4>3 DEF TypeOK
        <5> QED
          BY <4>1, <5>1, SocketTypes
      <4> QED
        BY <1>14, <4>0, <4>2, <4>3
        DEF UseSocket, CloseSocket, DisconnectSocket, SocketClosed, DropSocket, DestroySocket
    <3> QED
      BY <3>1 DEF TypeOK
  <2>3. passed' \in [Sockets -> Nat]
    BY <1>14
    DEF UseSocket, CloseSocket, DisconnectSocket, SocketClosed, DropSocket, DestroySocket, TypeOK
  <2>4. late' \subseteq Handles \cup {None}
    <3>1. sock[s].h \in Handles \cup {None}
      BY DEF TypeOK, SocketState
    <3> QED
      BY <1>14, <3>1
      DEF UseSocket, CloseSocket, DisconnectSocket, SocketClosed, DropSocket, DestroySocket, TypeOK
  <2> QED
    BY <1>14, <2>1, <2>2, <2>3, <2>4
    DEF UseSocket, CloseSocket, DisconnectSocket, SocketClosed, DropSocket,
      DestroySocket, SocketFrame, TypeOK
<1>15. ASSUME NEW b \in BOOLEAN, Hook(b)
       PROVE  TypeOK'
  BY <1>15 DEF Hook, TypeOK
<1>16. CASE Create
  <2>1. inst' \in [Handles -> InstStates]
    BY <1>16 DEF Create, TypeOK, InstStates
  <2>2. shutdown' \in BOOLEAN /\ joinable' \in BOOLEAN
    BY <1>16, Zenon DEF Create
  <2> QED
    BY <1>16, <2>1, <2>2, ServerAssumption DEF Create, TypeOK
<1>17. CASE Close
  BY <1>17 DEF Close, TypeOK
<1>18. CASE CloseJoined
  <2>1. closing' \in BOOLEAN /\ joinable' \in BOOLEAN
    BY <1>18, Zenon DEF CloseJoined
  <2>2. inst' \in [Handles -> InstStates]
    BY <1>18 DEF CloseJoined, TypeOK, InstStates
  <2>3. DOMAIN active' \subseteq Handles /\ active' \in [DOMAIN active' -> Sockets]
    BY <1>18 DEF CloseJoined
  <2> QED
    BY <1>18, <2>1, <2>2, <2>3 DEF CloseJoined, TypeOK
<1>19. CASE Destroy
  BY <1>19 DEF Destroy, TypeOK
<1>20. CASE CloseFromAccept
  <2>1. shutdown' \in BOOLEAN /\ crashed' \in BOOLEAN
    BY <1>20, Zenon DEF CloseFromAccept, TypeOK
  <2> QED
    BY <1>20, <2>1 DEF CloseFromAccept, TypeOK
<1> QED
  BY <1>1, <1>2, <1>3, <1>4, <1>5, <1>6, <1>7, <1>8, <1>9, <1>10, <1>11, <1>12,
     <1>13, <1>14, <1>15, <1>16, <1>17, <1>18, <1>19, <1>20
  DEF Next, Watcher, Application, Clients

----------------------------------------------------------------------------
(* The lists *)

LEMMA IdleStep == TypeOK /\ IdleInv /\ [Next]_vars => IdleInv'
<1> SUFFICES ASSUME TypeOK, IdleInv, [Next]_vars
             PROVE  IdleInv'
  OBVIOUS
<1> USE DEF IdleInv, pipeVars, listVars, ctlVars, watchVars, histVars
<1>1. CASE UNCHANGED vars
  BY <1>1 DEF vars
<1>2. CASE Watcher
  <2>1. joinable /\ joinable' = joinable
    BY <1>2 DEF Watcher, Top, EndPoll, EndAccept, CheckGood, EndVerify, Poll, CallOnAccept,
                CheckExpired, Accept, Decline, VerifyFrame
  <2> QED
    BY <2>1
<1>3. CASE \E s \in Sockets : UseSocket(s)
  BY <1>3 DEF UseSocket, CloseSocket, DisconnectSocket, SocketClosed, DropSocket,
         DestroySocket, SocketFrame
<1>4. CASE \E b \in BOOLEAN : Hook(b)
  BY <1>4 DEF Hook
<1>5. CASE Create
  BY <1>5 DEF Create
<1>6. CASE Close \/ Destroy \/ CloseFromAccept
  BY <1>6 DEF Close, Destroy, CloseFromAccept
<1>7. CASE CloseJoined
  BY <1>7 DEF CloseJoined
<1>8. CASE Clients
  BY <1>8 DEF Clients, ClientConnect, ClientLeave
<1> QED
  BY <1>1, <1>2, <1>3, <1>4, <1>5, <1>6, <1>7, <1>8 DEF Next, Application

\* A handle that is made was closed before, so it is on no list.
LEMMA NewIsUnlisted ==
  ASSUME OpenInv, NEW g \in Handles, inst[g] = "none"
  PROVE  g \notin waiting \cup pending \cup DOMAIN active
BY DEF OpenInv

LEMMA PassStep == TypeOK /\ IdleInv /\ PassInv /\ OpenInv /\ [Next]_vars => PassInv'
<1> SUFFICES ASSUME TypeOK, IdleInv, PassInv, OpenInv, [Next]_vars
             PROVE  PassInv'
  OBVIOUS
<1> USE DEF PassInv, pipeVars, listVars, ctlVars, watchVars, histVars
<1>1. CASE UNCHANGED vars
  BY <1>1 DEF vars
<1>2. CASE Top
  BY <1>2 DEF Top
<1>3. ASSUME NEW h \in Handles, Poll(h)
      PROVE  PassInv'
  BY <1>3 DEF Poll
<1>4. CASE EndPoll
  BY <1>4 DEF EndPoll
<1>5. ASSUME NEW h \in Handles, CallOnAccept(h)
      PROVE  PassInv'
  BY <1>5 DEF CallOnAccept
<1>6. ASSUME NEW kept \in BOOLEAN, Accept(kept)
      PROVE  PassInv'
  <2>1. cur \in pending /\ cur \notin waiting /\ cur \notin DOMAIN active
    BY <1>6 DEF Accept
  <2>2. DOMAIN active' = DOMAIN active \cup {cur}
    BY <1>6, <2>1 DEF Accept
  <2>3. \/ waiting' = waiting
        \/ \E g \in Handles : inst[g] = "none" /\ waiting' = waiting \cup {g}
    BY <1>6 DEF Accept, CreateInstance
  <2>4. \/ waiting' = waiting
        \/ \E g : waiting' = waiting \cup {g} /\ g \notin pending /\ g \notin DOMAIN active
    BY <2>3, NewIsUnlisted
  <2> QED
    BY <1>6, <2>1, <2>2, <2>4 DEF Accept
<1>7. ASSUME NEW kept \in BOOLEAN, Decline(kept)
      PROVE  PassInv'
  BY <1>7 DEF Decline
<1>8. CASE EndAccept
  BY <1>8 DEF EndAccept
<1>9. ASSUME NEW h \in todo, pc \in {"verify", "lock"}, Recycle(h), UNCHANGED pending
      PROVE  PassInv'
  <2>1. DOMAIN active' = DOMAIN active \ {h} /\ h \in DOMAIN active
    BY <1>9 DEF Recycle
  <2>2. waiting' \subseteq waiting \cup {h} /\ todo' \subseteq todo \ {h} /\ pc' = "verify"
    BY <1>9 DEF Recycle
  <2> QED
    BY <1>9, <2>1, <2>2
<1>10. ASSUME NEW h \in Handles, CheckExpired(h)
       PROVE  PassInv'
  <2>1. CASE Expired(active[h])
    BY <1>9, <1>10, <2>1 DEF CheckExpired, VerifyFrame
  <2>2. CASE ~Expired(active[h])
    BY <1>10, <2>2 DEF CheckExpired, VerifyFrame
  <2> QED
    BY <2>1, <2>2
<1>11. CASE CheckGood
  <2>1. CASE Recycle(cur)
    <3>1. DOMAIN active' = DOMAIN active \ {cur} /\ cur \in DOMAIN active
      BY <1>11, <2>1 DEF Recycle, CheckGood
    <3>2. waiting' \subseteq waiting \cup {cur} /\ todo' \subseteq todo \ {cur}
          /\ pc' = "verify" /\ pending' = pending
      BY <1>11, <2>1 DEF Recycle, CheckGood, VerifyFrame
    <3> QED
      BY <1>11, <3>1, <3>2 DEF CheckGood
  <2>2. CASE /\ UNCHANGED <<active, waiting, pending>>
             /\ todo' \subseteq todo /\ pc' = "verify"
    BY <1>11, <2>2 DEF CheckGood
  <2> QED
    BY <1>11, <2>1, <2>2 DEF CheckGood, VerifyFrame
<1>12. CASE EndVerify
  BY <1>12 DEF EndVerify
<1>13. ASSUME NEW s \in Sockets, UseSocket(s)
       PROVE  PassInv'
  BY <1>13 DEF UseSocket, CloseSocket, DisconnectSocket, SocketClosed, DropSocket,
         DestroySocket, SocketFrame
<1>14. CASE \E b \in BOOLEAN : Hook(b)
  BY <1>14 DEF Hook
<1>15. CASE Create
  BY <1>15 DEF Create, IdleInv
<1>16. CASE Close \/ Destroy \/ CloseFromAccept
  BY <1>16 DEF Close, Destroy, CloseFromAccept
<1>17. CASE CloseJoined
  BY <1>17 DEF CloseJoined
<1>18. CASE Clients
  BY <1>18 DEF Clients, ClientConnect, ClientLeave
<1> QED
  BY <1>1, <1>2, <1>3, <1>4, <1>5, <1>6, <1>7, <1>8, <1>10, <1>11, <1>12, <1>13,
     <1>14, <1>15, <1>16, <1>17, <1>18
  DEF Next, Watcher, Application

LEMMA OpenStep == TypeOK /\ IdleInv /\ PassInv /\ OpenInv /\ [Next]_vars => OpenInv'
<1> SUFFICES ASSUME TypeOK, IdleInv, PassInv, OpenInv, [Next]_vars
             PROVE  OpenInv'
  OBVIOUS
<1> USE DEF OpenInv, pipeVars, listVars, ctlVars, watchVars, histVars
<1>1. CASE UNCHANGED vars
  BY <1>1 DEF vars
<1>2. CASE Top \/ EndPoll \/ EndAccept \/ EndVerify
  BY <1>2 DEF Top, EndPoll, EndAccept, EndVerify
<1>3. ASSUME NEW h \in Handles, Poll(h)
      PROVE  OpenInv'
  BY <1>3 DEF Poll, TypeOK, PassInv
<1>4. ASSUME NEW h \in Handles, CallOnAccept(h)
      PROVE  OpenInv'
  BY <1>4 DEF CallOnAccept
<1>5. ASSUME NEW kept \in BOOLEAN, Accept(kept)
      PROVE  OpenInv'
  <2> DEFINE i == IF kept THEN inst ELSE Disconnect(inst, cur)
  <2>1. DOMAIN active' \subseteq DOMAIN active \cup pending
    BY <1>5 DEF Accept, PassInv
  <2>2. i \in [Handles -> InstStates]
    BY DisconnectKeepsOpen DEF TypeOK
  <2>3. \A g \in Handles : i[g] = "none" <=> inst[g] = "none"
    BY DisconnectKeepsOpen
  <2>4. \/ waiting' = waiting /\ inst' = i
        \/ \E g \in Handles : /\ inst[g] = "none" /\ waiting' = waiting \cup {g}
                              /\ inst' = [i EXCEPT ![g] = "listening"]
    <3>1. CASE CreateInstance(i)
      BY <2>2, <3>1, CreateInstanceOpens
    <3>2. CASE inst' = i /\ UNCHANGED waiting
      BY <3>2
    <3> QED
      BY <1>5, <3>1, <3>2 DEF Accept
  <2>5. pending' = pending
    BY <1>5 DEF Accept
  <2>6. waiting \cup pending \cup DOMAIN active \subseteq Handles
    BY DEF TypeOK
  <2> HIDE DEF i
  <2>7. CASE waiting' = waiting /\ inst' = i
    BY <2>1, <2>3, <2>5, <2>6, <2>7
  <2>8. ASSUME NEW g \in Handles, waiting' = waiting \cup {g},
               inst' = [i EXCEPT ![g] = "listening"]
        PROVE  OpenInv'
    BY <2>1, <2>2, <2>3, <2>5, <2>6, <2>8
  <2> QED
    BY <2>4, <2>7, <2>8
<1>6. ASSUME NEW kept \in BOOLEAN, Decline(kept)
      PROVE  OpenInv'
  BY <1>6, DisconnectKeepsOpen DEF Decline, PassInv, TypeOK
<1>7. ASSUME NEW h \in Handles, h \in DOMAIN active, Recycle(h), UNCHANGED pending,
             h \notin waiting \cup pending
      PROVE  OpenInv'
  <2>1. DOMAIN active' = DOMAIN active \ {h} /\ waiting' \subseteq waiting \cup {h}
    BY <1>7 DEF Recycle
  <2>2. \/ inst' = inst
        \/ inst' = [inst EXCEPT ![h] = "none"] /\ waiting' = waiting
    BY <1>7 DEF Recycle
  <2> QED
    BY <1>7, <2>1, <2>2 DEF TypeOK
<1>8. ASSUME NEW h \in Handles, CheckExpired(h)
      PROVE  OpenInv'
  <2>1. h \in DOMAIN active /\ h \notin waiting \cup pending
    BY <1>8 DEF CheckExpired, PassInv
  <2> QED
    BY <1>7, <1>8, <2>1 DEF CheckExpired, VerifyFrame
<1>9. CASE CheckGood
  <2>1. cur \in DOMAIN active /\ cur \notin waiting \cup pending /\ cur \in Handles
    BY <1>9 DEF CheckGood, PassInv, TypeOK
  <2> QED
    BY <1>7, <1>9, <2>1 DEF CheckGood, VerifyFrame
<1>10. ASSUME NEW s \in Sockets, UseSocket(s)
       PROVE  OpenInv'
  BY <1>10, DisconnectKeepsOpen
  DEF UseSocket, CloseSocket, DisconnectSocket, SocketClosed, DropSocket,
      DestroySocket, SocketFrame, TypeOK
<1>11. CASE \E b \in BOOLEAN : Hook(b)
  BY <1>11 DEF Hook
<1>12. CASE Create
  BY <1>12 DEF Create, IdleInv
<1>13. CASE Close \/ Destroy \/ CloseFromAccept
  BY <1>13 DEF Close, Destroy, CloseFromAccept
<1>14. CASE CloseJoined
  BY <1>14 DEF CloseJoined
<1>15. CASE Clients
  BY <1>15 DEF Clients, ClientConnect, ClientLeave, TypeOK
<1> QED
  BY <1>1, <1>2, <1>3, <1>4, <1>5, <1>6, <1>8, <1>9, <1>10, <1>11, <1>12, <1>13,
     <1>14, <1>15
  DEF Next, Watcher, Application

----------------------------------------------------------------------------
(* The backlog *)

\* Sets of handles are finite, and the union of two has no more than both together.
LEMMA HandleSets ==
  /\ \A S \in SUBSET Handles : IsFiniteSet(S) /\ Cardinality(S) \in Nat
  /\ \A S, T \in SUBSET Handles : Cardinality(S \cup T) <= Cardinality(S) + Cardinality(T)
  /\ \A S, T \in SUBSET Handles :
       S \cap T = {} => Cardinality(S \cup T) = Cardinality(S) + Cardinality(T)
  /\ \A S, T \in SUBSET Handles : S \subseteq T => Cardinality(S) <= Cardinality(T)
  /\ \A S \in SUBSET Handles : \A h \in Handles : Cardinality(S \cup {h}) <= Cardinality(S) + 1
<1>1. \A S \in SUBSET Handles : IsFiniteSet(S) /\ Cardinality(S) \in Nat
  BY ServerAssumption, FS_Subset, FS_CardinalityType
<1>2. \A S, T \in SUBSET Handles :
        /\ Cardinality(S \cup T) = Cardinality(S) + Cardinality(T) - Cardinality(S \cap T)
        /\ Cardinality(S \cap T) \in Nat
  BY <1>1, FS_Union
<1>3. \A S, T \in SUBSET Handles : S \subseteq T => Cardinality(S) <= Cardinality(T)
  BY <1>1, FS_Subset
<1>4. \A S \in SUBSET Handles : \A h \in Handles : Cardinality(S \cup {h}) <= Cardinality(S) + 1
  <2> TAKE S \in SUBSET Handles
  <2> TAKE h \in Handles
  <2>1. IsFiniteSet(S) /\ Cardinality(S) \in Nat
    BY <1>1
  <2>2. Cardinality(S \cup {h}) = IF h \in S THEN Cardinality(S) ELSE Cardinality(S) + 1
    BY <2>1, FS_AddElement
  <2> QED
    BY <2>1, <2>2
<1>5. \A S, T \in SUBSET Handles : Cardinality(S \cup T) <= Cardinality(S) + Cardinality(T)
  <2> TAKE S, T \in SUBSET Handles
  <2>1. /\ Cardinality(S) \in Nat /\ Cardinality(T) \in Nat
        /\ Cardinality(S \cap T) \in Nat
        /\ Cardinality(S \cup T) = Cardinality(S) + Cardinality(T) - Cardinality(S \cap T)
    BY <1>1, <1>2, Zenon
  <2> QED
    BY <2>1
<1>6. \A S, T \in SUBSET Handles :
        S \cap T = {} => Cardinality(S \cup T) = Cardinality(S) + Cardinality(T)
  <2> TAKE S, T \in SUBSET Handles
  <2> HAVE S \cap T = {}
  <2>1. Cardinality(S \cap T) = 0
    BY FS_EmptySet
  <2>2. /\ Cardinality(S) \in Nat /\ Cardinality(T) \in Nat
        /\ Cardinality(S \cup T) = Cardinality(S) + Cardinality(T) - Cardinality(S \cap T)
    BY <1>1, <1>2, Zenon
  <2> QED
    BY <2>1, <2>2
<1> QED
  BY <1>1, <1>3, <1>4, <1>5, <1>6

\* A step that lists no handle that was not listed keeps the count.
LEMMA CountShrinks ==
  ASSUME TypeOK, CountInv, TypeOK', waiting' \cup pending' \subseteq waiting \cup pending
  PROVE  CountInv'
<1>1. waiting \cup pending \in SUBSET Handles /\ waiting' \cup pending' \in SUBSET Handles
  BY DEF TypeOK
<1>2. Cardinality(waiting' \cup pending') <= Cardinality(waiting \cup pending)
  BY <1>1, HandleSets
<1>3. /\ Cardinality(waiting \cup pending) \in Nat
      /\ Cardinality(waiting' \cup pending') \in Nat /\ Backlog \in Nat
  BY <1>1, HandleSets, ServerAssumption
<1> QED
  BY <1>2, <1>3 DEF CountInv

\* A handle is added where the server has counted the lists and found room.
LEMMA CountGrows ==
  ASSUME TypeOK, NEW h \in Handles,
         Cardinality(waiting) + Cardinality(pending) < Backlog,
         waiting' = waiting \cup {h}, pending' = pending
  PROVE  CountInv'
<1>1. waiting \in SUBSET Handles /\ pending \in SUBSET Handles
      /\ waiting \cup pending \in SUBSET Handles
  BY DEF TypeOK
<1>2. /\ Cardinality(waiting) \in Nat /\ Cardinality(pending) \in Nat
      /\ Cardinality(waiting \cup pending) \in Nat /\ Backlog \in Nat
  BY <1>1, HandleSets, ServerAssumption
<1>3. Cardinality(waiting \cup pending) <= Cardinality(waiting) + Cardinality(pending)
  BY <1>1, HandleSets
<1>4. Cardinality((waiting \cup pending) \cup {h}) <= Cardinality(waiting \cup pending) + 1
  BY <1>1, HandleSets
<1>5. waiting' \cup pending' = (waiting \cup pending) \cup {h}
  OBVIOUS
<1>6. Cardinality((waiting \cup pending) \cup {h}) \in Nat
  BY <1>1, HandleSets
<1>7. Cardinality((waiting \cup pending) \cup {h}) <= Backlog
  BY <1>2, <1>3, <1>4, <1>6
<1> QED
  BY <1>5, <1>7, Zenon DEF CountInv

LEMMA CountStep == IInv /\ TypeOK' /\ [Next]_vars => CountInv'
<1> SUFFICES ASSUME IInv, TypeOK', [Next]_vars
             PROVE  CountInv'
  OBVIOUS
<1> USE DEF IInv, pipeVars, listVars, ctlVars, watchVars, histVars
<1>1. CASE waiting' \cup pending' \subseteq waiting \cup pending
  BY <1>1, CountShrinks
<1>2. CASE UNCHANGED vars
  BY <1>1, <1>2 DEF vars
<1>3. CASE Top \/ EndPoll \/ EndAccept \/ EndVerify
  BY <1>1, <1>3 DEF Top, EndPoll, EndAccept, EndVerify
<1>4. ASSUME NEW h \in Handles, Poll(h) \/ CallOnAccept(h)
      PROVE  CountInv'
  BY <1>1, <1>4 DEF Poll, CallOnAccept, PassInv
<1>5. ASSUME NEW kept \in BOOLEAN, Accept(kept)
      PROVE  CountInv'
  <2>1. pending' = pending
    BY <1>5 DEF Accept
  <2>2. CASE waiting' = waiting
    BY <1>1, <2>1, <2>2
  <2>3. CASE MayCreate /\ \E g \in Handles : waiting' = waiting \cup {g}
    BY <2>1, <2>3, CountGrows DEF MayCreate
  <2> QED
    BY <1>5, <2>2, <2>3 DEF Accept, CreateInstance
<1>6. ASSUME NEW kept \in BOOLEAN, Decline(kept)
      PROVE  CountInv'
  BY <1>1, <1>6 DEF Decline, PassInv
<1>7. ASSUME NEW h \in Handles, Recycle(h), pending' = pending
      PROVE  CountInv'
  BY <1>1, <1>7, CountGrows DEF Recycle
<1>8. ASSUME NEW h \in Handles, CheckExpired(h)
      PROVE  CountInv'
  BY <1>1, <1>7, <1>8 DEF CheckExpired, VerifyFrame
<1>9. CASE CheckGood
  BY <1>1, <1>7, <1>9 DEF CheckGood, VerifyFrame, TypeOK
<1>10. ASSUME NEW s \in Sockets, UseSocket(s)
       PROVE  CountInv'
  BY <1>1, <1>10 DEF UseSocket, CloseSocket, DisconnectSocket, SocketClosed, DropSocket,
         DestroySocket, SocketFrame
<1>11. CASE \E b \in BOOLEAN : Hook(b)
  BY <1>1, <1>11 DEF Hook
<1>12. CASE Create
  <2>1. pending' = {} /\ Cardinality(waiting') = Backlog
    BY <1>12 DEF Create, IdleInv
  <2>2. waiting' \cup pending' = waiting'
    BY <2>1
  <2> QED
    BY <2>1, <2>2, ServerAssumption DEF CountInv
<1>13. CASE Close \/ Destroy \/ CloseFromAccept
  BY <1>1, <1>13 DEF Close, Destroy, CloseFromAccept
<1>14. CASE CloseJoined
  BY <1>1, <1>14 DEF CloseJoined
<1>15. CASE Clients
  BY <1>1, <1>15 DEF Clients, ClientConnect, ClientLeave
<1> QED
  BY <1>2, <1>3, <1>4, <1>5, <1>6, <1>8, <1>9, <1>10, <1>11, <1>12, <1>13, <1>14, <1>15
  DEF Next, Watcher, Application

----------------------------------------------------------------------------
(* What the larger steps do, handle by handle *)

\* A handle that is accepted moves to the active map, and new instances G may be made.
LEMMA AcceptEffect ==
  ASSUME TypeOK, PassInv, OpenInv, NEW kept \in BOOLEAN, Accept(kept)
  PROVE  /\ cur \in pending /\ cur \notin kill \cup waiting \cup DOMAIN active
         /\ cur \in Handles /\ new \in Sockets
         /\ DOMAIN active' = DOMAIN active \cup {cur} /\ active'[cur] = new
         /\ \A h \in DOMAIN active : active'[h] = active[h]
         /\ \E G \in SUBSET Handles :
              /\ \A g \in G : inst[g] = "none" /\ g # cur
              /\ waiting' = waiting \cup G /\ owned' = owned \cup G
              /\ \A h \in Handles :
                   inst'[h] = IF h \in G THEN "listening"
                              ELSE IF h = cur /\ ~kept THEN "disconnected" ELSE inst[h]
<1>1. /\ cur \in pending /\ cur \notin kill \cup waiting \cup DOMAIN active
      /\ cur \in Handles /\ new \in Sockets /\ inst[cur] # "none"
  BY DEF Accept, PassInv, OpenInv, TypeOK
<1>2. /\ DOMAIN active' = DOMAIN active \cup {cur} /\ active'[cur] = new
      /\ \A h \in DOMAIN active : active'[h] = active[h]
  BY <1>1 DEF Accept
<1> DEFINE i == IF kept THEN inst ELSE Disconnect(inst, cur)
<1>3. /\ i \in [Handles -> InstStates]
      /\ \A h \in Handles : i[h] = IF h = cur /\ ~kept THEN "disconnected" ELSE inst[h]
  BY <1>1 DEF Disconnect, TypeOK, InstStates
<1>4. CASE inst' = i /\ UNCHANGED <<owned, total, waiting>>
  <2>1. \A h \in Handles : inst'[h] = IF h \in {} THEN "listening"
                              ELSE IF h = cur /\ ~kept THEN "disconnected" ELSE inst[h]
    BY <1>3, <1>4
  <2>2. waiting' = waiting \cup {} /\ owned' = owned \cup {}
    BY <1>4
  <2>3. {} \in SUBSET Handles /\ \A g \in {} : inst[g] = "none" /\ g # cur
    OBVIOUS
  <2> HIDE DEF i
  <2>4. \E G \in SUBSET Handles :
              /\ \A g \in G : inst[g] = "none" /\ g # cur
              /\ waiting' = waiting \cup G /\ owned' = owned \cup G
              /\ \A h \in Handles :
                   inst'[h] = IF h \in G THEN "listening"
                              ELSE IF h = cur /\ ~kept THEN "disconnected" ELSE inst[h]
    <3> WITNESS {} \in SUBSET Handles
    <3> QED
      BY <2>1, <2>2, <2>3
  <2> QED
    BY <1>1, <1>2, <2>4
<1>5. ASSUME NEW g \in Handles, inst[g] = "none", inst' = [i EXCEPT ![g] = "listening"],
             owned' = owned \cup {g}, waiting' = waiting \cup {g}
      PROVE  \E G \in SUBSET Handles :
              /\ \A k \in G : inst[k] = "none" /\ k # cur
              /\ waiting' = waiting \cup G /\ owned' = owned \cup G
              /\ \A h \in Handles :
                   inst'[h] = IF h \in G THEN "listening"
                              ELSE IF h = cur /\ ~kept THEN "disconnected" ELSE inst[h]
  <2> HIDE DEF i
  <2>1. \A h \in Handles : inst'[h] = IF h \in {g} THEN "listening"
                              ELSE IF h = cur /\ ~kept THEN "disconnected" ELSE inst[h]
    BY <1>3, <1>5
  <2>2. \A k \in {g} : inst[k] = "none" /\ k # cur
    BY <1>1, <1>5
  <2> QED
    BY <1>5, <2>1, <2>2
<1>6. CreateInstance(i) \/ (inst' = i /\ UNCHANGED <<owned, total, waiting>>)
  BY DEF Accept
<1> HIDE DEF i
<1> QED
  BY <1>1, <1>2, <1>4, <1>5, <1>6 DEF CreateInstance

\* A declined handle is disconnected and waits.
LEMMA DeclineEffect ==
  ASSUME TypeOK, PassInv, OpenInv, NEW kept \in BOOLEAN, Decline(kept)
  PROVE  /\ cur \in pending /\ cur \notin kill \cup waiting \cup DOMAIN active
         /\ cur \in Handles /\ new \in Sockets
         /\ \A h \in Handles : inst'[h] = IF h = cur THEN "disconnected" ELSE inst[h]
BY DEF Decline, PassInv, OpenInv, TypeOK, Disconnect

\* The third pass takes the handle of a finished connection off the active map, to the
\* waiting list or to be closed.
LEMMA VerifyEffect ==
  ASSUME TypeOK, PassInv, CheckGood \/ \E h \in Handles : CheckExpired(h)
  PROVE  /\ pc \in {"verify", "lock"} /\ pc' \in {"verify", "lock"}
         /\ UNCHANGED <<conn, conns, pending, owned, joinable, new, sock, passed, late, evals,
                        creates>>
         /\ \/ UNCHANGED <<inst, active, waiting>>
            \/ \E g \in DOMAIN active :
                 /\ Expired(active[g]) \/ ~Good(active[g])
                 /\ g \notin waiting \cup pending
                 /\ DOMAIN active' = DOMAIN active \ {g}
                 /\ \A k \in DOMAIN active' : active'[k] = active[k]
                 /\ \/ waiting' = waiting \cup {g} /\ inst' = inst
                    \/ /\ waiting' = waiting /\ inst'[g] = "none"
                       /\ \A k \in Handles \ {g} : inst'[k] = inst[k]
<1> USE DEF ctlVars, histVars
<1>1. ASSUME NEW g \in Handles, Recycle(g)
      PROVE  /\ pc' = "verify" /\ DOMAIN active' = DOMAIN active \ {g}
             /\ \A k \in DOMAIN active' : active'[k] = active[k]
             /\ \/ waiting' = waiting \cup {g} /\ inst' = inst
                \/ /\ waiting' = waiting /\ inst'[g] = "none"
                   /\ \A k \in Handles \ {g} : inst'[k] = inst[k]
  BY <1>1 DEF Recycle, TypeOK
<1>2. ASSUME NEW h \in Handles, CheckExpired(h)
      PROVE  /\ pc = "verify" /\ pc' \in {"verify", "lock"}
             /\ UNCHANGED <<conn, conns, pending, owned, joinable, new, sock, passed, late, evals,
                        creates>>
             /\ \/ UNCHANGED <<inst, active, waiting>>
                \/ /\ h \in DOMAIN active /\ Expired(active[h])
                   /\ h \notin waiting \cup pending /\ Recycle(h)
  <2>1. pc = "verify" /\ h \in DOMAIN active /\ h \notin waiting \cup pending
    BY <1>2 DEF CheckExpired, PassInv
  <2>2. CASE Expired(active[h])
    BY <1>2, <2>1, <2>2 DEF CheckExpired, VerifyFrame, Recycle
  <2>3. CASE ~Expired(active[h])
    BY <1>2, <2>1, <2>3 DEF CheckExpired, VerifyFrame
  <2> QED
    BY <2>2, <2>3
<1>3. CASE CheckGood
  <2>1. pc = "lock" /\ cur \in DOMAIN active /\ cur \notin waiting \cup pending /\ cur \in Handles
    BY <1>3 DEF CheckGood, PassInv, TypeOK
  <2>2. CASE ~Good(active[cur]) /\ Recycle(cur) /\ VerifyFrame
    BY <1>1, <2>1, <2>2 DEF VerifyFrame
  <2>3. CASE pc' = "verify" /\ UNCHANGED <<inst, active, waiting>> /\ VerifyFrame
    BY <2>1, <2>3 DEF VerifyFrame
  <2> QED
    BY <1>3, <2>2, <2>3 DEF CheckGood
<1>4. ASSUME NEW h \in Handles, CheckExpired(h)
      PROVE  \/ UNCHANGED <<inst, active, waiting>>
             \/ \E g \in DOMAIN active :
                 /\ Expired(active[g]) \/ ~Good(active[g])
                 /\ g \notin waiting \cup pending
                 /\ DOMAIN active' = DOMAIN active \ {g}
                 /\ \A k \in DOMAIN active' : active'[k] = active[k]
                 /\ \/ waiting' = waiting \cup {g} /\ inst' = inst
                    \/ /\ waiting' = waiting /\ inst'[g] = "none"
                       /\ \A k \in Handles \ {g} : inst'[k] = inst[k]
  BY <1>1, <1>2, <1>4
<1> QED
  BY <1>2, <1>3, <1>4

\* A call of close() that has passed its test holds a socket that is not in anybody's hand.
Held == \A s \in Sockets : passed[s] # 0 =>
          sock[s].life \in {"good", "closing", "closed"} /\ ~InHand(s)

\* The system cuts off whatever is connected to the handle of s.
Cuts(s) ==
  \A h \in Handles :
    inst'[h] = IF h = sock[s].h /\ inst[h] # "none" THEN "disconnected" ELSE inst[h]

\* A step of the application on a socket s touches no list and no socket in hand; a socket
\* is not good any more only after its pipe was cut, unless it was dropped.
LEMMA SocketEffect ==
  ASSUME TypeOK, NEW s \in Sockets, UseSocket(s)
  PROVE  /\ UNCHANGED <<conn, conns, waiting, pending, active, owned, joinable, pc, todo, kill,
                        cur, new, evals, creates>>
         /\ InHand(s) /\ sock[s].life = "good" => passed[s] # 0
         /\ \A r \in Sockets \ {s} : sock'[r] = sock[r] /\ passed'[r] = passed[r]
         /\ sock'[s].h = sock[s].h \/ sock'[s].life = "dead"
         /\ \/ inst' = inst /\ late' = late /\ sock' = sock
            \/ /\ Cuts(s) /\ passed[s] # 0
               /\ sock'[s].life = IF sock[s].life = "good" THEN "closing" ELSE sock[s].life
               /\ late' = IF sock[s].life = "closed" THEN late \cup {sock[s].h} ELSE late
            \/ /\ inst' = inst /\ late' = late
               /\ \/ sock[s].life = "closing" /\ sock'[s].life = "closed"
                  \/ sock[s].life = "closed" /\ sock'[s].life = "dead"
                  \/ MayDrop /\ sock'[s].life = "expired"
            \/ sock[s].life = "expired" /\ Cuts(s) /\ late' = late /\ sock'[s].life = "dead"
<1> USE DEF listVars, ctlVars, watchVars, histVars, SocketFrame
<1>1. sock[s] \in SocketState /\ sock \in [Sockets -> SocketState]
  BY DEF TypeOK
<1>2. \A l : /\ [sock EXCEPT ![s].life = l][s].life = l
             /\ [sock EXCEPT ![s].life = l][s].h = sock[s].h
  BY <1>1 DEF SocketState
<1>3. Dead.life = "dead"
  BY DEF Dead, Free
<1>4. inst' = Disconnect(inst, sock[s].h) => Cuts(s)
  BY DEF Cuts, Disconnect, TypeOK
<1>5. CASE CloseSocket(s)
  BY <1>5 DEF CloseSocket, TypeOK
<1>6. CASE DisconnectSocket(s)
  BY <1>1, <1>2, <1>4, <1>6 DEF DisconnectSocket, TypeOK
<1>7. CASE SocketClosed(s)
  BY <1>1, <1>2, <1>7 DEF SocketClosed, TypeOK
<1>8. CASE DropSocket(s)
  <2>1. /\ passed[s] = 0 /\ ~InHand(s) /\ inst' = inst /\ late' = late /\ passed' = passed
        /\ UNCHANGED <<conn, conns, waiting, pending, active, owned, joinable, pc, todo, kill,
                       cur, new, evals, creates>>
    BY <1>8 DEF DropSocket
  <2>2. CASE sock[s].life = "closed" /\ sock' = [sock EXCEPT ![s] = Dead]
    BY <1>1, <1>3, <2>1, <2>2
  <2>3. CASE MayDrop /\ sock' = [sock EXCEPT ![s].life = "expired"]
    BY <1>1, <1>2, <2>1, <2>3
  <2> QED
    BY <1>8, <2>2, <2>3 DEF DropSocket
<1>9. CASE DestroySocket(s)
  BY <1>1, <1>3, <1>4, <1>9 DEF DestroySocket, TypeOK
<1> QED
  BY <1>5, <1>6, <1>7, <1>8, <1>9 DEF UseSocket

----------------------------------------------------------------------------
(* No instance is lost *)

LEMMA ListedStep == IInv /\ [Next]_vars => ListedInv'
<1> SUFFICES ASSUME IInv, [Next]_vars
             PROVE  ListedInv'
  OBVIOUS
<1> USE DEF ListedInv, pipeVars, listVars, ctlVars, watchVars, histVars
<1>0. TypeOK /\ IdleInv /\ PassInv /\ OpenInv /\ ListedInv
  BY DEF IInv
<1>1. CASE UNCHANGED vars
  BY <1>0, <1>1 DEF vars
<1>2. CASE Top \/ EndPoll \/ EndAccept \/ EndVerify
  BY <1>0, <1>2 DEF Top, EndPoll, EndAccept, EndVerify, PassInv
<1>3. ASSUME NEW h \in Handles, Poll(h)
      PROVE  ListedInv'
  BY <1>0, <1>3 DEF Poll, PassInv, TypeOK
<1>4. ASSUME NEW h \in Handles, CallOnAccept(h)
      PROVE  ListedInv'
  BY <1>0, <1>4 DEF CallOnAccept
<1>5. ASSUME NEW kept \in BOOLEAN, Accept(kept)
      PROVE  ListedInv'
  <2>1. /\ UNCHANGED pending /\ kill' = kill \cup {cur} /\ pc = "decide"
    BY <1>5 DEF Accept
  <2>2. cur \in pending /\ DOMAIN active' = DOMAIN active \cup {cur}
    BY <1>0, <1>5, AcceptEffect
  <2>3. PICK G \in SUBSET Handles :
          /\ waiting' = waiting \cup G /\ owned' = owned \cup G
          /\ \A h \in Handles :
               inst'[h] = IF h \in G THEN "listening"
                          ELSE IF h = cur /\ ~kept THEN "disconnected" ELSE inst[h]
    BY <1>0, <1>5, AcceptEffect
  <2>4. inst[cur] # "none"
    BY <1>0, <2>2 DEF OpenInv
  <2> QED
    BY <1>0, <2>1, <2>2, <2>3, <2>4
<1>6. ASSUME NEW kept \in BOOLEAN, Decline(kept)
      PROVE  ListedInv'
  <2>1. /\ UNCHANGED <<pending, active, owned>> /\ kill' = kill \cup {cur} /\ pc = "decide"
        /\ waiting' = waiting \cup {cur}
    BY <1>6 DEF Decline
  <2>2. /\ cur \in pending /\ inst[cur] # "none"
        /\ \A h \in Handles : inst'[h] = IF h = cur THEN "disconnected" ELSE inst[h]
    BY <1>0, <1>6, DeclineEffect DEF OpenInv
  <2> QED
    BY <1>0, <2>1, <2>2
<1>7. CASE CheckGood \/ \E h \in Handles : CheckExpired(h)
  BY <1>0, <1>7, VerifyEffect DEF TypeOK
<1>8. ASSUME NEW s \in Sockets, UseSocket(s)
      PROVE  ListedInv'
  BY <1>0, <1>8, SocketEffect DEF Cuts
<1>9. CASE \E b \in BOOLEAN : Hook(b)
  BY <1>0, <1>9 DEF Hook
<1>10. CASE Create
  <2>1. \A h \in Handles : inst[h] = "none"
    BY <1>0, <1>10 DEF Create, IdleInv
  <2> QED
    BY <2>1, <1>10 DEF Create
<1>11. CASE Close \/ Destroy \/ CloseFromAccept
  BY <1>0, <1>11 DEF Close, Destroy, CloseFromAccept
<1>12. CASE CloseJoined
  BY <1>0, <1>12 DEF CloseJoined
<1>13. CASE Clients
  BY <1>0, <1>13 DEF Clients, ClientConnect, ClientLeave, TypeOK
<1> QED
  BY <1>0, <1>1, <1>2, <1>3, <1>4, <1>5, <1>6, <1>7, <1>8, <1>9, <1>10, <1>11, <1>12, <1>13
  DEF Next, Watcher, Application, TypeOK

----------------------------------------------------------------------------
(* Connections: where the application closes its sockets before it drops them *)

\* No socket is gone with its pipe still open.
NoExpired == \A s \in Sockets : sock[s].life # "expired"

\* Connections are numbered as they are made, and each was made to one instance.
Numbered ==
  /\ \A h \in Handles : conn[h] <= conns
  /\ \A h, g \in Handles : conn[h] = conn[g] /\ conn[h] # 0 => h = g
  /\ \A h \in Handles : inst[h] \in {"connected", "closing"} => conn[h] # 0
  /\ \A c \in Connections : c > conns => evals[c] = 0

\* The last connection to h was not put to on_accept.
Fresh(h) == conn[h] # 0 /\ evals[conn[h]] = 0

\* The pending handles on_accept was not called for in this pass.
Undecided ==
  IF pc = "accept" THEN pending \ kill
  ELSE IF pc \in {"decide", "stuck"} THEN pending \ (kill \cup {cur}) ELSE pending

\* A client that is found on a waiting instance is new, and so is one that is undecided.
FreshInv ==
  /\ \A h \in waiting : inst[h] = "connected" => Fresh(h)
  /\ \A h \in Undecided : Fresh(h)

\* An active socket whose is_connected is set holds the handle it is listed under; one that is
\* not good has disconnected it, and nobody else listens on it until it is recycled.
ActiveInv ==
  \A h \in DOMAIN active :
    /\ sock[active[h]].life \in {"good", "closing"} => sock[active[h]].h = h
    /\ sock[active[h]].life # "good" => inst[h] = "disconnected"

\* The socket given to on_accept is a new one.
DecideInv ==
  pc = "decide" =>
    /\ sock[new].life = "good" /\ sock[new].h = cur
    /\ \A g \in DOMAIN active : active[g] # new

ClientInv ==
  NoExpired /\ Held /\ Numbered /\ FreshInv /\ ActiveInv /\ DecideInv /\ NewConnectionsOnly

\* Steps that make no connection, move no pending handle and leave the sockets alone.
LEMMA ClientFrame ==
  ASSUME TypeOK, ClientInv,
         UNCHANGED <<conn, conns, evals, sock, passed, active, waiting, cur, new>>,
         \A h \in Handles : inst'[h] # inst[h] =>
           inst[h] # "connected" /\ inst'[h] \in {"none", "listening"}
                                 /\ h \notin DOMAIN active,
         Undecided' \subseteq Undecided, pc' = "decide" => pc = "decide",
         pc' = "stuck" => pc \in {"decide", "stuck"}
  PROVE  ClientInv'
<1> USE DEF ClientInv
<1>1. NoExpired' /\ Held' /\ Numbered' /\ NewConnectionsOnly'
  BY DEF NoExpired, Held, InHand, Numbered, NewConnectionsOnly
<1>2. FreshInv'
  BY DEF FreshInv, Fresh, TypeOK
<1>3. ActiveInv'
  BY DEF ActiveInv, TypeOK
<1>4. DecideInv'
  BY DEF DecideInv
<1> QED
  BY <1>1, <1>2, <1>3, <1>4

\* A client connects.
LEMMA ClientArrives ==
  ASSUME TypeOK, ClientInv, NEW h \in Handles, ClientConnect(h)
  PROVE  ClientInv'
<1> USE DEF listVars, ctlVars, watchVars, histVars
<1>1. /\ inst[h] = "listening" /\ inst'[h] = "connected"
      /\ \A g \in Handles \ {h} : inst'[g] = inst[g] /\ conn'[g] = conn[g]
      /\ conns' = conns + 1 /\ conn'[h] = conns + 1 /\ conns \in Nat
      /\ conns + 1 \in Connections /\ conns + 1 # 0 /\ conns < conns + 1
      /\ UNCHANGED <<waiting, pending, active, pc, kill, cur, new, sock, passed, evals>>
  BY ServerAssumption DEF ClientConnect, TypeOK, Connections
<1>2. \A g \in Handles : conn[g] \in Nat /\ conn[g] <= conns
  BY DEF ClientInv, Numbered, TypeOK
<1>3. evals[conns + 1] = 0
  BY <1>1 DEF ClientInv, Numbered
<1>4. Numbered'
  <2>1. \A g \in Handles : conn'[g] <= conns'
    BY <1>1, <1>2
  <2>2. \A g, k \in Handles : conn'[g] = conn'[k] /\ conn'[g] # 0 => g = k
    <3> SUFFICES ASSUME NEW g \in Handles, NEW k \in Handles, conn'[g] = conn'[k], conn'[g] # 0
                 PROVE  g = k
      OBVIOUS
    <3>1. CASE g # h /\ k # h
      BY <1>1, <3>1 DEF ClientInv, Numbered
    <3>2. CASE g = h \/ k = h
      BY <1>1, <1>2, <3>2
    <3> QED
      BY <3>1, <3>2
  <2>3. \A g \in Handles : inst'[g] \in {"connected", "closing"} => conn'[g] # 0
    BY <1>1 DEF ClientInv, Numbered
  <2>4. \A c \in Connections : c > conns' => evals'[c] = 0
    BY <1>1 DEF ClientInv, Numbered, Connections
  <2> QED
    BY <2>1, <2>2, <2>3, <2>4 DEF Numbered
<1>5. Undecided' = Undecided /\ \A g \in Handles \ {h} : Fresh(g)' = Fresh(g)
  BY <1>1 DEF Undecided, Fresh
<1>6. Fresh(h)'
  BY <1>1, <1>3 DEF Fresh
<1>7. Undecided \subseteq Handles
  BY DEF Undecided, TypeOK
<1>8. FreshInv'
  BY <1>1, <1>5, <1>6, <1>7 DEF ClientInv, FreshInv, TypeOK
<1>9. ActiveInv'
  BY <1>1 DEF ClientInv, ActiveInv, TypeOK
<1> QED
  BY <1>1, <1>4, <1>8, <1>9
  DEF ClientInv, NoExpired, Held, InHand, DecideInv, NewConnectionsOnly

\* Whoever closes or drops a socket, on_accept has returned for it, and the calls that have
\* passed their test keep it.
LEMMA HeldUse ==
  ASSUME TypeOK, Held, DecideInv, NEW s \in Sockets, UseSocket(s)
  PROVE  Held' /\ (pc = "decide" => new # s)
<1> USE DEF listVars, ctlVars, watchVars, SocketFrame
<1>1. sock[s] \in SocketState /\ passed[s] \in Nat
  BY DEF TypeOK
<1>2. \A r : InHand(r)' = InHand(r)
  BY SocketEffect DEF InHand
<1>3. passed'[s] # 0 => sock'[s].life \in {"good", "closing", "closed"} /\ ~InHand(s)
  <2>1. CASE CloseSocket(s)
    BY <1>1, <2>1 DEF CloseSocket, TypeOK
  <2>2. CASE DisconnectSocket(s)
    BY <1>1, <2>2 DEF DisconnectSocket, Held, TypeOK, SocketState
  <2>3. CASE SocketClosed(s)
    BY <1>1, <2>3 DEF SocketClosed, Held, TypeOK, SocketState
  <2>4. CASE DropSocket(s) \/ DestroySocket(s)
    BY <1>1, <2>4 DEF DropSocket, DestroySocket, Held
  <2> QED
    BY <2>1, <2>2, <2>3, <2>4 DEF UseSocket
<1>4. Held'
  BY <1>2, <1>3, SocketEffect DEF Held
<1>5. pc = "decide" => new # s
  BY SocketEffect DEF Held, DecideInv, InHand
<1> QED
  BY <1>4, <1>5

\* The application closes or drops a socket.
LEMMA ClientClosed ==
  ASSUME IInv, ClientInv, ~MayDrop, NEW s \in Sockets, UseSocket(s)
  PROVE  ClientInv'
<1>0. TypeOK /\ OpenInv
  BY DEF IInv
<1>1. /\ UNCHANGED <<conn, conns, waiting, pending, active, pc, kill, cur, new, evals>>
      /\ \A r \in Sockets \ {s} : sock'[r] = sock[r]
  BY <1>0, SocketEffect
<1>2. \/ inst' = inst /\ sock' = sock
      \/ Cuts(s) /\ sock'[s].life = IF sock[s].life = "good" THEN "closing" ELSE sock[s].life
      \/ /\ inst' = inst
         /\ \/ sock[s].life = "closing" /\ sock'[s].life = "closed"
            \/ sock[s].life = "closed" /\ sock'[s].life = "dead"
  BY <1>0, SocketEffect DEF ClientInv, NoExpired
<1>3. \A h \in Handles : inst'[h] = inst[h] \/ inst'[h] = "disconnected"
  BY <1>2 DEF Cuts
<1>4. NoExpired' /\ NewConnectionsOnly'
  BY <1>1, <1>2 DEF ClientInv, NoExpired, NewConnectionsOnly
<1>5. Numbered'
  BY <1>1, <1>3 DEF ClientInv, Numbered
<1>6. FreshInv'
  <2>1. Undecided' = Undecided /\ \A h : Fresh(h)' = Fresh(h)
    BY <1>1 DEF Undecided, Fresh
  <2> QED
    BY <1>0, <1>1, <1>3, <2>1 DEF ClientInv, FreshInv, TypeOK
<1>7. ActiveInv'
  <2> SUFFICES ASSUME NEW h \in DOMAIN active
               PROVE  /\ sock'[active[h]].life \in {"good", "closing"} => sock'[active[h]].h = h
                      /\ sock'[active[h]].life # "good" => inst'[h] = "disconnected"
    BY <1>1 DEF ActiveInv
  <2>1. h \in Handles /\ active[h] \in Sockets /\ inst[h] # "none"
    BY <1>0 DEF TypeOK, OpenInv
  <2>2. CASE active[h] # s
    BY <1>1, <1>3, <2>1, <2>2 DEF ClientInv, ActiveInv
  <2>3. CASE active[h] = s /\ sock[s].life = "good"
    <3>1. sock[s].h = h
      BY <2>1, <2>3 DEF ClientInv, ActiveInv
    <3>2. sock'[s].h = h \/ sock'[s].life = "dead"
      BY <1>0, <3>1, SocketEffect
    <3>3. CASE inst' = inst /\ sock' = sock
      BY <2>3, <3>1, <3>3
    <3>4. CASE Cuts(s) /\ sock'[s].life = "closing"
      BY <2>1, <2>3, <3>1, <3>2, <3>4 DEF Cuts
    <3> QED
      BY <1>2, <2>3, <3>3, <3>4
  <2>4. CASE active[h] = s /\ sock[s].life # "good"
    <3>1. inst[h] = "disconnected" /\ inst'[h] = "disconnected"
      BY <1>3, <2>1, <2>4 DEF ClientInv, ActiveInv
    <3>2. sock'[s].life \in {"good", "closing"} =>
            sock[s].life \in {"good", "closing"} /\ sock'[s].h = sock[s].h
      BY <1>0, <1>2, SocketEffect
    <3> QED
      BY <2>1, <2>4, <3>1, <3>2 DEF ClientInv, ActiveInv
  <2> QED
    BY <2>2, <2>3, <2>4
<1>8. Held' /\ (pc = "decide" => new # s)
  BY <1>0, HeldUse DEF ClientInv
<1>9. DecideInv'
  BY <1>0, <1>1, <1>8 DEF ClientInv, DecideInv, TypeOK
<1> QED
  BY <1>4, <1>5, <1>6, <1>7, <1>8, <1>9 DEF ClientInv

\* on_accept is called for a connection, which is a fresh one.
LEMMA ClientPut ==
  ASSUME IInv, ClientInv, NEW h \in Handles, CallOnAccept(h)
  PROVE  ClientInv'
<1> USE DEF pipeVars, listVars, ctlVars, watchVars, histVars
<1>0. TypeOK /\ PassInv
  BY DEF IInv
<1>1. /\ pc = "accept" /\ pc' = "decide" /\ h \in todo /\ cur' = h
      /\ UNCHANGED <<inst, conn, conns, waiting, pending, active, kill, passed>>
      /\ evals' = [evals EXCEPT ![conn[h]] = @ + 1]
  BY DEF CallOnAccept
<1>2. PICK s \in Sockets :
        /\ sock[s].life \in {"none", "dead"} /\ \A g \in DOMAIN active : active[g] # s
        /\ sock' = [sock EXCEPT ![s] = [h |-> h, c |-> conn[h], life |-> "good"]]
        /\ new' = s
  BY DEF CallOnAccept
<1>3. h \in Undecided /\ Undecided' = Undecided \ {h} /\ Undecided \subseteq Handles
  BY <1>0, <1>1 DEF Undecided, PassInv, TypeOK
<1>4. conn[h] # 0 /\ evals[conn[h]] = 0 /\ conn[h] \in Connections
  BY <1>0, <1>3, ServerAssumption DEF ClientInv, FreshInv, Fresh, TypeOK, Connections
<1>5. /\ evals'[conn[h]] = 1
      /\ \A c \in 0..MaxConns : c # conn[h] => evals'[c] = evals[c]
  BY <1>0, <1>1, <1>4 DEF TypeOK, Connections
<1>6. /\ sock'[s].life = "good" /\ sock'[s].h = h
      /\ \A r \in Sockets \ {s} : sock'[r] = sock[r]
  BY <1>0, <1>2 DEF TypeOK
<1>7. NoExpired' /\ Held'
  <2>1. passed[s] = 0
    BY <1>2 DEF ClientInv, Held
  <2> QED
    BY <1>1, <1>2, <1>6, <2>1 DEF ClientInv, NoExpired, Held, InHand
<1>8. Numbered'
  <2>1. conn[h] <= conns /\ conns \in Nat
    BY <1>0 DEF ClientInv, Numbered, TypeOK
  <2>2. \A c \in Connections : c > conns => evals'[c] = 0
    BY <1>0, <1>4, <1>5, <2>1 DEF ClientInv, Numbered, Connections, TypeOK
  <2> QED
    BY <1>1, <2>2 DEF ClientInv, Numbered
<1>9. FreshInv'
  <2>1. \A g \in Handles \ {h} : Fresh(g) => Fresh(g)'
    BY <1>0, <1>1, <1>4, <1>5 DEF ClientInv, Numbered, Fresh, TypeOK
  <2>2. h \notin waiting
    BY <1>0, <1>1 DEF PassInv
  <2> QED
    BY <1>0, <1>1, <1>3, <2>1, <2>2 DEF ClientInv, FreshInv, TypeOK
<1>10. ActiveInv'
  BY <1>0, <1>1, <1>2, <1>6 DEF ClientInv, ActiveInv, TypeOK
<1>11. DecideInv'
  BY <1>1, <1>2, <1>6 DEF DecideInv
<1>12. NewConnectionsOnly'
  BY <1>4, <1>5 DEF ClientInv, NewConnectionsOnly, Connections
<1> QED
  BY <1>7, <1>8, <1>9, <1>10, <1>11, <1>12 DEF ClientInv

\* on_accept accepts.
LEMMA ClientAccepted ==
  ASSUME IInv, ClientInv, NEW kept \in BOOLEAN, Accept(kept)
  PROVE  ClientInv'
<1> USE DEF pipeVars, listVars, ctlVars, watchVars, histVars
<1>0. TypeOK /\ PassInv /\ OpenInv
  BY DEF IInv
<1>1. /\ pc = "decide" /\ pc' = "accept" /\ kill' = kill \cup {cur}
      /\ UNCHANGED <<conn, conns, pending, evals, passed>>
      /\ sock' = IF kept THEN sock ELSE [sock EXCEPT ![new] = Dead]
  BY DEF Accept
<1>2. /\ cur \in pending /\ cur \notin kill \cup waiting \cup DOMAIN active
      /\ cur \in Handles /\ new \in Sockets
      /\ DOMAIN active' = DOMAIN active \cup {cur} /\ active'[cur] = new
      /\ \A h \in DOMAIN active : active'[h] = active[h]
  BY <1>0, AcceptEffect
<1>3. PICK G \in SUBSET Handles :
        /\ \A g \in G : inst[g] = "none" /\ g # cur
        /\ waiting' = waiting \cup G
        /\ \A h \in Handles :
             inst'[h] = IF h \in G THEN "listening"
                        ELSE IF h = cur /\ ~kept THEN "disconnected" ELSE inst[h]
  BY <1>0, AcceptEffect
<1>4. /\ sock[new].life = "good" /\ sock[new].h = cur
      /\ \A g \in DOMAIN active : active[g] # new
  BY <1>1 DEF ClientInv, DecideInv
<1>5. /\ \A r \in Sockets \ {new} : sock'[r] = sock[r]
      /\ IF kept THEN sock' = sock ELSE sock'[new].life = "dead"
  BY <1>0, <1>1, <1>2 DEF TypeOK, Dead, Free
<1>6. NoExpired' /\ NewConnectionsOnly' /\ Held'
  <2>1. passed[new] = 0
    BY <1>1, <1>2 DEF ClientInv, Held, InHand
  <2>2. NoExpired' /\ NewConnectionsOnly'
    BY <1>1, <1>5 DEF ClientInv, NoExpired, NewConnectionsOnly
  <2>3. Held'
    BY <1>1, <1>5, <2>1 DEF ClientInv, Held, InHand
  <2> QED
    BY <2>2, <2>3
<1>7. Numbered'
  BY <1>1, <1>3 DEF ClientInv, Numbered
<1>8. FreshInv'
  <2>1. Undecided' = Undecided /\ \A h : Fresh(h)' = Fresh(h)
    BY <1>1 DEF Undecided, Fresh
  <2>2. \A h \in waiting' : inst'[h] = "connected" => h \in waiting /\ inst[h] = "connected"
    BY <1>0, <1>3 DEF TypeOK
  <2> QED
    BY <2>1, <2>2 DEF ClientInv, FreshInv
<1>9. ActiveInv'
  <2> SUFFICES ASSUME NEW h \in DOMAIN active \cup {cur}
               PROVE  /\ sock'[active'[h]].life \in {"good", "closing"} =>
                           sock'[active'[h]].h = h
                      /\ sock'[active'[h]].life # "good" => inst'[h] = "disconnected"
    BY <1>2 DEF ActiveInv
  <2>1. CASE h = cur
    BY <1>2, <1>3, <1>4, <1>5, <2>1
  <2>2. CASE h \in DOMAIN active
    <3>1. h \in Handles /\ active[h] \in Sockets /\ h \notin G /\ h # cur
      BY <1>0, <1>2, <1>3, <2>2 DEF TypeOK, OpenInv
    <3>2. sock'[active'[h]] = sock[active[h]] /\ inst'[h] = inst[h]
      BY <1>2, <1>3, <1>4, <1>5, <2>2, <3>1
    <3> QED
      BY <2>2, <3>2 DEF ClientInv, ActiveInv
  <2> QED
    BY <2>1, <2>2
<1>10. DecideInv'
  BY <1>1 DEF DecideInv
<1> QED
  BY <1>6, <1>7, <1>8, <1>9, <1>10 DEF ClientInv

\* on_accept declines.
LEMMA ClientDeclined ==
  ASSUME IInv, ClientInv, NEW kept \in BOOLEAN, Decline(kept)
  PROVE  ClientInv'
<1> USE DEF pipeVars, listVars, ctlVars, watchVars, histVars
<1>0. TypeOK /\ PassInv /\ OpenInv
  BY DEF IInv
<1>1. /\ pc = "decide" /\ pc' = "accept" /\ kill' = kill \cup {cur}
      /\ UNCHANGED <<conn, conns, pending, active, evals, passed>>
      /\ waiting' = waiting \cup {cur}
      /\ sock' = [sock EXCEPT ![new] = IF kept THEN [@ EXCEPT !.life = "closed"] ELSE Dead]
  BY DEF Decline
<1>2. /\ cur \notin DOMAIN active /\ cur \in Handles /\ new \in Sockets
      /\ \A h \in Handles : inst'[h] = IF h = cur THEN "disconnected" ELSE inst[h]
  BY <1>0, DeclineEffect
<1>3. \A g \in DOMAIN active : active[g] # new
  BY <1>1 DEF ClientInv, DecideInv
<1>4. /\ \A r \in Sockets \ {new} : sock'[r] = sock[r]
      /\ sock'[new].life \in {"closed", "dead"}
  BY <1>0, <1>1, <1>2 DEF TypeOK, SocketState, Dead, Free
<1>5. NoExpired' /\ NewConnectionsOnly' /\ Held'
  <2>1. passed[new] = 0
    BY <1>1, <1>2 DEF ClientInv, Held, InHand
  <2>2. NoExpired' /\ NewConnectionsOnly'
    BY <1>1, <1>4 DEF ClientInv, NoExpired, NewConnectionsOnly
  <2>3. Held'
    BY <1>1, <1>4, <2>1 DEF ClientInv, Held, InHand
  <2> QED
    BY <2>2, <2>3
<1>6. Numbered'
  BY <1>1, <1>2 DEF ClientInv, Numbered
<1>7. FreshInv'
  <2>1. Undecided' = Undecided /\ \A h : Fresh(h)' = Fresh(h)
    BY <1>1 DEF Undecided, Fresh
  <2>2. \A h \in waiting' : inst'[h] = "connected" => h \in waiting /\ inst[h] = "connected"
    BY <1>0, <1>1, <1>2 DEF TypeOK
  <2> QED
    BY <2>1, <2>2 DEF ClientInv, FreshInv
<1>8. ActiveInv'
  BY <1>0, <1>1, <1>2, <1>3, <1>4 DEF ClientInv, ActiveInv, TypeOK
<1>9. DecideInv'
  BY <1>1 DEF DecideInv
<1> QED
  BY <1>5, <1>6, <1>7, <1>8, <1>9 DEF ClientInv

\* The third pass gives back the handles of finished connections only.
LEMMA ClientRecycled ==
  ASSUME IInv, ClientInv, CheckGood \/ \E h \in Handles : CheckExpired(h)
  PROVE  ClientInv'
<1>0. TypeOK /\ PassInv
  BY DEF IInv
<1>1. /\ pc \in {"verify", "lock"} /\ pc' \in {"verify", "lock"}
      /\ UNCHANGED <<conn, conns, pending, sock, passed, evals>>
  BY <1>0, VerifyEffect
<1>2. Undecided' = Undecided /\ \A h : Fresh(h)' = Fresh(h)
  BY <1>1 DEF Undecided, Fresh
<1>3. NoExpired' /\ NewConnectionsOnly' /\ DecideInv' /\ Held'
  BY <1>1 DEF ClientInv, NoExpired, NewConnectionsOnly, DecideInv, Held, InHand
<1>4. CASE UNCHANGED <<inst, active, waiting>>
  <2>1. Numbered' /\ FreshInv' /\ ActiveInv'
    BY <1>1, <1>2, <1>4 DEF ClientInv, Numbered, FreshInv, ActiveInv
  <2> QED
    BY <1>3, <2>1 DEF ClientInv
<1>5. ASSUME NEW g \in DOMAIN active, Expired(active[g]) \/ ~Good(active[g]),
             DOMAIN active' = DOMAIN active \ {g},
             \A k \in DOMAIN active' : active'[k] = active[k],
             \/ waiting' = waiting \cup {g} /\ inst' = inst
             \/ /\ waiting' = waiting /\ inst'[g] = "none"
                /\ \A k \in Handles \ {g} : inst'[k] = inst[k]
      PROVE  ClientInv'
  <2>1. g \in Handles /\ inst[g] = "disconnected"
    BY <1>0, <1>5 DEF ClientInv, ActiveInv, TypeOK, Expired, Good
  <2>2. \A k \in Handles : inst'[k] = inst[k] \/ (k = g /\ inst'[k] = "none")
    BY <1>5
  <2>3. Numbered'
    BY <1>1, <2>2 DEF ClientInv, Numbered
  <2>4. FreshInv'
    BY <1>0, <1>2, <1>5, <2>1, <2>2 DEF ClientInv, FreshInv, TypeOK
  <2>5. ActiveInv'
    BY <1>0, <1>1, <1>5, <2>2 DEF ClientInv, ActiveInv, TypeOK
  <2> QED
    BY <1>3, <2>3, <2>4, <2>5 DEF ClientInv
<1> QED
  BY <1>0, <1>4, <1>5, VerifyEffect

LEMMA ClientStep == ~MayDrop => (IInv /\ ClientInv /\ [Next]_vars => ClientInv')
<1> SUFFICES ASSUME ~MayDrop, IInv, ClientInv, [Next]_vars
             PROVE  ClientInv'
  OBVIOUS
<1> USE DEF pipeVars, listVars, ctlVars, watchVars, histVars
<1>0. TypeOK /\ IdleInv /\ PassInv /\ OpenInv
  BY DEF IInv
<1>1. CASE UNCHANGED vars
  BY <1>0, <1>1, ClientFrame DEF vars, Undecided
<1>2. CASE Top \/ EndPoll \/ EndAccept \/ EndVerify
  <2>1. CASE Top \/ EndAccept \/ EndVerify
    <3>1. Undecided' \subseteq Undecided
      BY <2>1 DEF Top, EndAccept, EndVerify, Undecided
    <3> QED
      BY <1>0, <2>1, <3>1, ClientFrame DEF Top, EndAccept, EndVerify
  <2>2. CASE EndPoll
    <3>1. Undecided' = Undecided /\ \A h : Fresh(h)' = Fresh(h)
      BY <2>2 DEF EndPoll, Undecided, Fresh
    <3>2. FreshInv'
      BY <2>2, <3>1 DEF EndPoll, ClientInv, FreshInv
    <3> QED
      BY <2>2, <3>2
      DEF EndPoll, ClientInv, NoExpired, Held, InHand, Numbered, ActiveInv, DecideInv, NewConnectionsOnly
  <2> QED
    BY <1>2, <2>1, <2>2
<1>3. ASSUME NEW h \in Handles, Poll(h)
      PROVE  ClientInv'
  <2>1. h \in waiting /\ h \notin DOMAIN active /\ pc = "poll" /\ pc' = pc
    BY <1>0, <1>3 DEF Poll, PassInv
  <2>2. CASE inst[h] = "connected"
    <3>1. Undecided' = Undecided \cup {h} /\ \A g : Fresh(g)' = Fresh(g)
      BY <1>3, <2>1, <2>2 DEF Poll, Undecided, Fresh
    <3>2. FreshInv'
      BY <1>3, <2>1, <2>2, <3>1 DEF Poll, ClientInv, FreshInv
    <3> QED
      BY <1>3, <2>1, <2>2, <3>2
      DEF Poll, ClientInv, NoExpired, Held, InHand, Numbered, ActiveInv, DecideInv, NewConnectionsOnly
  <2>3. CASE inst[h] # "connected"
    <3>1. Undecided' = Undecided
      BY <1>3, <2>1, <2>3 DEF Poll, Undecided
    <3>2. \A g \in Handles : inst'[g] # inst[g] => g = h /\ inst'[g] = "listening"
      BY <1>0, <1>3, <2>3 DEF Poll, TypeOK
    <3> QED
      BY <1>0, <1>3, <2>1, <2>3, <3>1, <3>2, ClientFrame DEF Poll
  <2> QED
    BY <2>2, <2>3
<1>4. ASSUME NEW h \in Handles, CallOnAccept(h)
      PROVE  ClientInv'
  BY <1>4, ClientPut
<1>5. ASSUME NEW kept \in BOOLEAN, Accept(kept) \/ Decline(kept)
      PROVE  ClientInv'
  BY <1>5, ClientAccepted, ClientDeclined
<1>6. CASE CheckGood \/ \E h \in Handles : CheckExpired(h)
  BY <1>6, ClientRecycled
<1>7. ASSUME NEW s \in Sockets, UseSocket(s)
      PROVE  ClientInv'
  BY <1>7, ClientClosed
<1>8. CASE Close \/ Destroy \/ CloseFromAccept \/ \E b \in BOOLEAN : Hook(b)
  <2>1. Undecided' = Undecided
    BY <1>8 DEF Close, Destroy, CloseFromAccept, Hook, Undecided
  <2> QED
    BY <1>0, <1>8, <2>1, ClientFrame DEF Close, Destroy, CloseFromAccept, Hook
<1>9. CASE Create
  <2>1. \A h \in Handles : inst'[h] # inst[h] => inst[h] = "none" /\ inst'[h] = "listening"
    BY <1>0, <1>9 DEF Create, TypeOK
  <2>2. /\ pending' = {} /\ DOMAIN active = {} /\ pc' = "top"
        /\ \A h \in waiting' : h \in Handles /\ inst'[h] = "listening"
        /\ UNCHANGED <<conn, conns, active, sock, passed, evals>>
    BY <1>0, <1>9 DEF Create, IdleInv, TypeOK
  <2>3. FreshInv'
    BY <2>2 DEF FreshInv, Undecided
  <2>4. Numbered'
    BY <2>1, <2>2 DEF ClientInv, Numbered
  <2> QED
    BY <2>2, <2>3, <2>4
    DEF ClientInv, NoExpired, Held, InHand, ActiveInv, DecideInv, NewConnectionsOnly
<1>10. CASE CloseJoined
  <2>1. \A h \in Handles : inst'[h] = inst[h] \/ inst'[h] = "none"
    BY <1>0, <1>10 DEF CloseJoined, TypeOK
  <2>2. /\ pending' = {} /\ waiting' = {} /\ DOMAIN active' = {} /\ pc' = "exited"
        /\ UNCHANGED <<conn, conns, sock, passed, evals>>
    BY <1>10 DEF CloseJoined
  <2>3. FreshInv' /\ ActiveInv'
    BY <2>2 DEF FreshInv, Undecided, ActiveInv
  <2>4. Numbered'
    BY <2>1, <2>2 DEF ClientInv, Numbered
  <2> QED
    BY <2>2, <2>3, <2>4
    DEF ClientInv, NoExpired, Held, InHand, DecideInv, NewConnectionsOnly
<1>11. ASSUME NEW h \in Handles, ClientConnect(h)
       PROVE  ClientInv'
  BY <1>0, <1>11, ClientArrives
<1>12. ASSUME NEW h \in Handles, ClientLeave(h)
       PROVE  ClientInv'
  <2>1. /\ inst[h] = "connected" /\ inst'[h] = "closing"
        /\ \A g \in Handles \ {h} : inst'[g] = inst[g]
        /\ UNCHANGED <<conn, conns, waiting, pending, active, pc, kill, cur, new, sock,
                       passed, evals>>
    BY <1>0, <1>12 DEF ClientLeave, TypeOK
  <2>2. Undecided' = Undecided /\ \A g : Fresh(g)' = Fresh(g)
    BY <2>1 DEF Undecided, Fresh
  <2>3. Numbered' /\ FreshInv' /\ ActiveInv'
    BY <1>0, <2>1, <2>2 DEF ClientInv, Numbered, FreshInv, ActiveInv, TypeOK
  <2> QED
    BY <2>1, <2>3 DEF ClientInv, NoExpired, Held, InHand, DecideInv, NewConnectionsOnly
<1> QED
  BY <1>1, <1>2, <1>3, <1>4, <1>5, <1>6, <1>7, <1>8, <1>9, <1>10, <1>11, <1>12
  DEF Next, Watcher, Application, Clients

----------------------------------------------------------------------------
(* The pipe under an active socket, until the server is created a second time *)

Up == {"connected", "closing"}

\* The instance h still has its client, or a late call of close() has cut it off.
Kept(h) == inst[h] \in Up \/ (h \in late /\ inst[h] = "disconnected")

\* The pipe instance h carries the connection that s was made for, if any.
UpOn(h, s) == Kept(h) /\ conn[h] = sock[s].c

\* The handles that are a socket's, or will be.
Taken == DOMAIN active \cup Undecided \cup (IF pc = "decide" THEN {cur} ELSE {})

\* An active socket owns its pipe: only late calls can disconnect it, because a socket whose
\* is_connected is set is the one in hand or is listed under its handle.  The pipes that will
\* be given to sockets are up, and a server that was not created yet has none.
OwnInv ==
  creates <= 1 =>
    /\ \A h \in DOMAIN active : sock[active[h]].life = "good" => UpOn(h, active[h])
    /\ pc = "decide" => UpOn(cur, new)
    /\ pc # "stuck" => \A h \in Undecided : Kept(h)
    /\ joinable => \A s \in Sockets : sock[s].life \in {"good", "closing"} =>
                     InHand(s) \/ \E h \in DOMAIN active : active[h] = s
    /\ creates = 0 => ~joinable /\ \A s \in Sockets : sock[s].life \notin {"good", "closing"}

\* Undecided handles are on no other list than pending.
LEMMA UndecidedApart ==
  ASSUME TypeOK, PassInv, pc # "stuck"
  PROVE  /\ Undecided \subseteq pending /\ Undecided \cap DOMAIN active = {}
         /\ pc = "decide" => cur \notin Undecided /\ cur \notin DOMAIN active
BY DEF PassInv, Undecided, TypeOK

\* Steps that leave the sockets alone and cut off no client.
LEMMA OwnFrame ==
  ASSUME TypeOK, OwnInv,
         UNCHANGED <<active, sock, cur, new, creates>>, joinable' => joinable,
         \A h \in Handles \cap Taken : Kept(h) => Kept(h)' /\ conn'[h] = conn[h],
         pc' = "decide" => pc = "decide", pc \in {"decide", "stuck"} => pc' \in {"decide", "stuck"},
         pc' # "stuck" => pc # "stuck" /\ \A h \in Undecided' : h \in Undecided \/ Kept(h)'
  PROVE  OwnInv'
<1> SUFFICES ASSUME creates <= 1
             PROVE  OwnInv'
  BY DEF OwnInv
<1>1. \A h \in DOMAIN active : sock[active[h]].life = "good" => UpOn(h, active[h])'
  BY DEF OwnInv, UpOn, Taken, TypeOK
<1>2. pc' = "decide" => UpOn(cur, new)'
  BY DEF OwnInv, UpOn, Taken, TypeOK
<1>3. pc' # "stuck" => \A h \in Undecided' : Kept(h)'
  <2>1. Undecided \subseteq Handles
    BY DEF Undecided, TypeOK
  <2> QED
    BY <2>1 DEF OwnInv, Taken
<1>4. joinable' => \A s \in Sockets : sock[s].life \in {"good", "closing"} =>
        InHand(s)' \/ \E h \in DOMAIN active : active[h] = s
  BY DEF OwnInv, InHand
<1>5. creates = 0 =>
        ~joinable' /\ \A s \in Sockets : sock[s].life \notin {"good", "closing"}
  BY DEF OwnInv
<1> QED
  BY <1>1, <1>2, <1>3, <1>4, <1>5 DEF OwnInv

\* A step of the application on the socket s cuts off its own pipe, or one that is then in
\* late: a socket whose is_connected is set is listed under its handle.
LEMMA CutEffect ==
  ASSUME IInv, ClientInv, OwnInv, ~MayDrop, creates <= 1, joinable,
         NEW s \in Sockets, UseSocket(s)
  PROVE  \A h \in Handles :
           \/ Kept(h) => Kept(h)'
           \/ h \in DOMAIN active /\ active[h] = s /\ sock'[s].life # "good"
<1>0. TypeOK
  BY DEF IInv
<1> SUFFICES ASSUME NEW h \in Handles, Kept(h), ~Kept(h)'
             PROVE  h \in DOMAIN active /\ active[h] = s /\ sock'[s].life # "good"
  OBVIOUS
<1>1. /\ Cuts(s) /\ passed[s] # 0
      /\ sock'[s].life = IF sock[s].life = "good" THEN "closing" ELSE sock[s].life
      /\ late' = IF sock[s].life = "closed" THEN late \cup {sock[s].h} ELSE late
  BY <1>0, SocketEffect DEF ClientInv, NoExpired, Kept
<1>2. h = sock[s].h /\ inst'[h] = "disconnected" /\ h \notin late' /\ inst[h] \in Up
  BY <1>0, <1>1 DEF Kept, Cuts, Up
<1>3. sock[s].life \in {"good", "closing"} /\ ~InHand(s)
  BY <1>1, <1>2 DEF ClientInv, Held
<1>4. PICK k \in DOMAIN active : active[k] = s
  BY <1>3 DEF OwnInv
<1>5. k = h /\ sock[s].life = "good"
  BY <1>2, <1>3, <1>4 DEF ClientInv, ActiveInv, Up
<1> QED
  BY <1>1, <1>4, <1>5

\* The application closes or drops a socket.
LEMMA OwnClosed ==
  ASSUME IInv, ClientInv, OwnInv, ~MayDrop, NEW s \in Sockets, UseSocket(s)
  PROVE  OwnInv'
<1> SUFFICES ASSUME creates <= 1
             PROVE  OwnInv'
  BY SocketEffect DEF OwnInv, IInv
<1>0. TypeOK /\ IdleInv /\ PassInv
  BY DEF IInv
<1>1. /\ UNCHANGED <<conn, waiting, pending, active, joinable, pc, kill, cur, new, creates>>
      /\ \A r \in Sockets \ {s} : sock'[r] = sock[r]
      /\ sock'[s].life \in {"good", "closing"} => sock[s].life \in {"good", "closing"}
      /\ sock'[s].life = "good" => sock' = sock
  BY <1>0, SocketEffect DEF ClientInv, NoExpired
<1>2. /\ creates = 0 =>
           ~joinable /\ \A r \in Sockets : sock'[r].life \notin {"good", "closing"}
      /\ joinable => \A r \in Sockets : sock'[r].life \in {"good", "closing"} =>
                       InHand(r)' \/ \E h \in DOMAIN active : active[h] = r
  BY <1>1 DEF OwnInv, InHand
<1>3. Undecided' = Undecided
  BY <1>1 DEF Undecided
<1>4. CASE ~joinable
  <2>1. DOMAIN active = {} /\ Undecided = {} /\ pc = "exited"
    BY <1>0, <1>4 DEF IdleInv, Undecided
  <2> QED
    BY <1>1, <1>2, <1>3, <2>1 DEF OwnInv
<1>5. CASE joinable
  <2>1. \A h \in Handles :
          \/ Kept(h) => Kept(h)'
          \/ h \in DOMAIN active /\ active[h] = s /\ sock'[s].life # "good"
    BY <1>5, CutEffect
  <2>2. \A h \in DOMAIN active : sock'[active[h]].life = "good" => UpOn(h, active[h])'
    <3> SUFFICES ASSUME NEW h \in DOMAIN active, sock'[active[h]].life = "good"
                 PROVE  UpOn(h, active[h])'
      BY <1>1
    <3>1. h \in Handles /\ active[h] \in Sockets
      BY <1>0 DEF TypeOK
    <3>2. sock'[active[h]] = sock[active[h]]
      BY <1>1, <3>1
    <3>3. UpOn(h, active[h])
      BY <3>2 DEF OwnInv
    <3>4. Kept(h)'
      BY <2>1, <3>1, <3>3 DEF UpOn
    <3> QED
      BY <1>1, <3>2, <3>3, <3>4 DEF UpOn
  <2>3. pc = "decide" => UpOn(cur, new)'
    <3> SUFFICES ASSUME pc = "decide" PROVE UpOn(cur, new)'
      OBVIOUS
    <3>1. new # s /\ new \in Sockets /\ cur \in Handles /\ cur \notin DOMAIN active
      BY <1>0, HeldUse, UndecidedApart DEF ClientInv, TypeOK
    <3>2. UpOn(cur, new)
      BY DEF OwnInv
    <3> QED
      BY <1>1, <2>1, <3>1, <3>2 DEF UpOn
  <2>4. pc # "stuck" => \A h \in Undecided : Kept(h)'
    BY <1>0, <2>1, UndecidedApart DEF OwnInv, TypeOK
  <2> QED
    BY <1>1, <1>2, <1>3, <2>2, <2>3, <2>4 DEF OwnInv
<1> QED
  BY <1>4, <1>5

\* on_accept is called with a socket for a pipe that is up.
LEMMA OwnPut ==
  ASSUME IInv, ClientInv, OwnInv, NEW h \in Handles, CallOnAccept(h)
  PROVE  OwnInv'
<1> USE DEF pipeVars, listVars, ctlVars, watchVars, histVars
<1>0. TypeOK /\ PassInv /\ IdleInv
  BY DEF IInv
<1>1. /\ pc = "accept" /\ pc' = "decide" /\ h \in todo /\ cur' = h
      /\ UNCHANGED <<inst, conn, pending, active, kill, joinable, creates, late>>
  BY DEF CallOnAccept
<1>2. PICK s \in Sockets :
        /\ sock[s].life \in {"none", "dead"} /\ \A g \in DOMAIN active : active[g] # s
        /\ sock' = [sock EXCEPT ![s] = [h |-> h, c |-> conn[h], life |-> "good"]]
        /\ new' = s
  BY DEF CallOnAccept
<1>3. /\ sock'[s].life = "good" /\ sock'[s].c = conn[h]
      /\ \A r \in Sockets \ {s} : sock'[r] = sock[r]
  BY <1>0, <1>2 DEF TypeOK
<1> SUFFICES ASSUME creates <= 1
             PROVE  OwnInv'
  BY <1>1 DEF OwnInv
<1>4. h \in Undecided /\ Undecided' \subseteq Undecided
  BY <1>0, <1>1 DEF Undecided, PassInv
<1>5. \A g \in DOMAIN active : sock'[active[g]].life = "good" => UpOn(g, active[g])'
  BY <1>0, <1>1, <1>2, <1>3 DEF OwnInv, UpOn, Kept, TypeOK
<1>6. UpOn(cur, new)'
  BY <1>1, <1>2, <1>3, <1>4 DEF OwnInv, UpOn, Kept
<1>7. \A r \in Sockets : sock'[r].life \in {"good", "closing"} =>
        InHand(r)' \/ \E g \in DOMAIN active : active[g] = r
  BY <1>0, <1>1, <1>2, <1>3 DEF OwnInv, InHand, IdleInv
<1>8. creates # 0
  BY <1>0, <1>1 DEF OwnInv, IdleInv
<1> QED
  BY <1>1, <1>4, <1>5, <1>6, <1>7, <1>8 DEF OwnInv, Kept

\* on_accept accepts: its socket is listed, or destroyed with its pipe.
LEMMA OwnAccepted ==
  ASSUME IInv, ClientInv, OwnInv, NEW kept \in BOOLEAN, Accept(kept)
  PROVE  OwnInv'
<1> USE DEF pipeVars, listVars, ctlVars, watchVars, histVars
<1>0. TypeOK /\ PassInv /\ OpenInv
  BY DEF IInv
<1>1. /\ pc = "decide" /\ pc' = "accept" /\ kill' = kill \cup {cur}
      /\ UNCHANGED <<conn, pending, joinable, creates, late>>
      /\ sock' = IF kept THEN sock ELSE [sock EXCEPT ![new] = Dead]
  BY DEF Accept
<1> SUFFICES ASSUME creates <= 1
             PROVE  OwnInv'
  BY <1>1 DEF OwnInv
<1>2. /\ cur \in pending /\ cur \notin DOMAIN active
      /\ cur \in Handles /\ new \in Sockets
      /\ DOMAIN active' = DOMAIN active \cup {cur} /\ active'[cur] = new
      /\ \A h \in DOMAIN active : active'[h] = active[h]
  BY <1>0, AcceptEffect
<1>3. PICK G \in SUBSET Handles :
        /\ \A g \in G : inst[g] = "none" /\ g # cur
        /\ \A h \in Handles :
             inst'[h] = IF h \in G THEN "listening"
                        ELSE IF h = cur /\ ~kept THEN "disconnected" ELSE inst[h]
  BY <1>0, AcceptEffect
<1>4. \A g \in DOMAIN active : active[g] # new
  BY <1>1 DEF ClientInv, DecideInv
<1>5. /\ \A r \in Sockets \ {new} : sock'[r] = sock[r]
      /\ IF kept THEN sock' = sock ELSE sock'[new].life = "dead"
  BY <1>0, <1>1, <1>2 DEF TypeOK, Dead, Free
<1>6. \A h \in Handles : inst[h] # "none" /\ (kept \/ h # cur) => inst'[h] = inst[h]
  BY <1>3
<1>7. \A h \in DOMAIN active' : sock'[active'[h]].life = "good" => UpOn(h, active[h])'
  <2> SUFFICES ASSUME NEW h \in DOMAIN active \cup {cur}, sock'[active'[h]].life = "good"
               PROVE  UpOn(h, active[h])'
    BY <1>2
  <2>1. CASE h = cur
    <3>1. kept /\ sock' = sock /\ UpOn(cur, new)
      BY <1>1, <1>2, <1>5, <2>1 DEF OwnInv
    <3>2. inst'[cur] = inst[cur]
      BY <1>2, <1>6, <3>1 DEF UpOn, Kept, Up
    <3> QED
      BY <1>1, <1>2, <2>1, <3>1, <3>2 DEF UpOn, Kept
  <2>2. CASE h \in DOMAIN active
    <3>1. h \in Handles /\ active[h] \in Sockets /\ inst[h] # "none" /\ h # cur
      BY <1>0, <1>2, <2>2 DEF TypeOK, OpenInv
    <3>2. sock'[active'[h]] = sock[active[h]] /\ inst'[h] = inst[h]
      BY <1>2, <1>4, <1>5, <1>6, <2>2, <3>1
    <3>3. UpOn(h, active[h])
      BY <2>2, <3>2 DEF OwnInv
    <3> QED
      BY <1>1, <1>2, <2>2, <3>2, <3>3 DEF UpOn, Kept
  <2> QED
    BY <2>1, <2>2
<1>8. \A h \in Undecided' : Kept(h)'
  <2>1. Undecided' = Undecided /\ \A h \in Undecided : h # cur /\ h \in Handles
    BY <1>0, <1>1 DEF Undecided, TypeOK
  <2>2. \A h \in Undecided : Kept(h)
    BY <1>1 DEF OwnInv
  <2> QED
    BY <1>1, <1>6, <2>1, <2>2 DEF Kept, Up
<1>9. joinable => \A r \in Sockets : sock'[r].life \in {"good", "closing"} =>
        \E g \in DOMAIN active' : active'[g] = r
  BY <1>2, <1>5 DEF OwnInv, InHand
<1>10. creates = 0 =>
         ~joinable /\ \A r \in Sockets : sock'[r].life \notin {"good", "closing"}
  BY <1>5 DEF OwnInv
<1> QED
  BY <1>1, <1>7, <1>8, <1>9, <1>10 DEF OwnInv

\* on_accept declines: its socket is closed.
LEMMA OwnDeclined ==
  ASSUME IInv, ClientInv, OwnInv, NEW kept \in BOOLEAN, Decline(kept)
  PROVE  OwnInv'
<1> USE DEF pipeVars, listVars, ctlVars, watchVars, histVars
<1>0. TypeOK /\ PassInv /\ OpenInv
  BY DEF IInv
<1>1. /\ pc = "decide" /\ pc' = "accept" /\ kill' = kill \cup {cur}
      /\ UNCHANGED <<conn, pending, active, joinable, creates, late>>
      /\ sock' = [sock EXCEPT ![new] = IF kept THEN [@ EXCEPT !.life = "closed"] ELSE Dead]
  BY DEF Decline
<1> SUFFICES ASSUME creates <= 1
             PROVE  OwnInv'
  BY <1>1 DEF OwnInv
<1>2. /\ cur \notin DOMAIN active /\ cur \in Handles /\ new \in Sockets
      /\ \A h \in Handles : inst'[h] = IF h = cur THEN "disconnected" ELSE inst[h]
  BY <1>0, DeclineEffect
<1>3. \A g \in DOMAIN active : active[g] # new
  BY <1>1 DEF ClientInv, DecideInv
<1>4. /\ \A r \in Sockets \ {new} : sock'[r] = sock[r]
      /\ sock'[new].life \in {"closed", "dead"}
  BY <1>0, <1>1, <1>2 DEF TypeOK, SocketState, Dead, Free
<1>5. \A h \in DOMAIN active : sock'[active[h]].life = "good" => UpOn(h, active[h])'
  BY <1>0, <1>1, <1>2, <1>3, <1>4 DEF OwnInv, UpOn, Kept, TypeOK
<1>6. \A h \in Undecided' : Kept(h)'
  BY <1>0, <1>1, <1>2 DEF OwnInv, Kept, Undecided, TypeOK
<1>7. joinable => \A r \in Sockets : sock'[r].life \in {"good", "closing"} =>
        \E g \in DOMAIN active : active[g] = r
  BY <1>4 DEF OwnInv, InHand
<1>8. creates = 0 =>
        ~joinable /\ \A r \in Sockets : sock'[r].life \notin {"good", "closing"}
  BY <1>4 DEF OwnInv
<1> QED
  BY <1>1, <1>5, <1>6, <1>7, <1>8 DEF OwnInv

\* The third pass takes no good socket off the list.
LEMMA OwnRecycled ==
  ASSUME IInv, ClientInv, OwnInv, CheckGood \/ \E h \in Handles : CheckExpired(h)
  PROVE  OwnInv'
<1>0. TypeOK /\ PassInv
  BY DEF IInv
<1>1. /\ pc \in {"verify", "lock"} /\ pc' \in {"verify", "lock"}
      /\ UNCHANGED <<conn, pending, sock, joinable, new, creates, late>>
  BY <1>0, VerifyEffect
<1> SUFFICES ASSUME creates <= 1
             PROVE  OwnInv'
  BY <1>1 DEF OwnInv
<1>2. Undecided' = Undecided /\ Undecided = pending
  BY <1>1 DEF Undecided
<1>3. CASE UNCHANGED <<inst, active, waiting>>
  BY <1>1, <1>2, <1>3 DEF OwnInv, InHand, UpOn, Kept
<1>4. ASSUME NEW g \in DOMAIN active, Expired(active[g]) \/ ~Good(active[g]),
             g \notin waiting \cup pending,
             DOMAIN active' = DOMAIN active \ {g},
             \A k \in DOMAIN active' : active'[k] = active[k],
             \A k \in Handles \ {g} : inst'[k] = inst[k]
      PROVE  OwnInv'
  <2>1. sock[active[g]].life \notin {"good", "closing"}
    BY <1>4 DEF Expired, Good
  <2>2. \A h \in DOMAIN active' : sock[active'[h]].life = "good" => UpOn(h, active[h])'
    BY <1>0, <1>1, <1>4 DEF OwnInv, UpOn, Kept, TypeOK
  <2>3. \A h \in pending : Kept(h)'
    BY <1>0, <1>1, <1>2, <1>4 DEF OwnInv, Kept, TypeOK
  <2>4. joinable => \A r \in Sockets : sock[r].life \in {"good", "closing"} =>
          \E k \in DOMAIN active' : active'[k] = r
    BY <1>1, <1>4, <2>1 DEF OwnInv, InHand
  <2> QED
    BY <1>1, <1>2, <2>2, <2>3, <2>4 DEF OwnInv
<1> QED
  BY <1>0, <1>3, <1>4, VerifyEffect

LEMMA OwnStep == ~MayDrop => (IInv /\ ClientInv /\ OwnInv /\ [Next]_vars => OwnInv')
<1> SUFFICES ASSUME ~MayDrop, IInv, ClientInv, OwnInv, [Next]_vars
             PROVE  OwnInv'
  OBVIOUS
<1> USE DEF pipeVars, listVars, ctlVars, watchVars, histVars
<1>0. TypeOK /\ IdleInv /\ PassInv /\ OpenInv
  BY DEF IInv
<1>1. CASE UNCHANGED vars
  BY <1>0, <1>1, OwnFrame DEF vars, Undecided, Kept
<1>2. CASE Top \/ EndPoll \/ EndAccept \/ EndVerify
  <2>1. Undecided' \subseteq Undecided
    BY <1>2 DEF Top, EndPoll, EndAccept, EndVerify, Undecided
  <2> QED
    BY <1>0, <1>2, <2>1, OwnFrame DEF Top, EndPoll, EndAccept, EndVerify, Kept
<1>3. ASSUME NEW h \in Handles, Poll(h)
      PROVE  OwnInv'
  <2>1. /\ pc = "poll" /\ UNCHANGED <<pc, active, sock, cur, new, creates, joinable, conn, late>>
    BY <1>3 DEF Poll
  <2>2. \A g \in Handles \cap Taken : Kept(g) => Kept(g)' /\ conn'[g] = conn[g]
    <3>1. h \notin Taken
      BY <1>0, <1>3, <2>1 DEF Poll, PassInv, Taken, Undecided
    <3>2. \A g \in Handles \ {h} : inst'[g] = inst[g]
      BY <1>0, <1>3 DEF Poll, TypeOK
    <3> QED
      BY <2>1, <3>1, <3>2 DEF Kept
  <2>3. \A g \in Undecided' : g \in Undecided \/ Kept(g)'
    BY <1>3, <2>1 DEF Poll, Undecided, Kept, Up
  <2> QED
    BY <1>0, <2>1, <2>2, <2>3, OwnFrame
<1>4. ASSUME NEW h \in Handles, CallOnAccept(h)
      PROVE  OwnInv'
  BY <1>4, OwnPut
<1>5. ASSUME NEW kept \in BOOLEAN, Accept(kept) \/ Decline(kept)
      PROVE  OwnInv'
  BY <1>5, OwnAccepted, OwnDeclined
<1>6. CASE CheckGood \/ \E h \in Handles : CheckExpired(h)
  BY <1>6, OwnRecycled
<1>7. ASSUME NEW s \in Sockets, UseSocket(s)
      PROVE  OwnInv'
  BY <1>7, OwnClosed
<1>8. CASE Close \/ Destroy \/ CloseFromAccept \/ \E b \in BOOLEAN : Hook(b)
  <2>1. Undecided' = Undecided
    BY <1>8 DEF Close, Destroy, CloseFromAccept, Hook, Undecided
  <2> QED
    BY <1>0, <1>8, <2>1, OwnFrame DEF Close, Destroy, CloseFromAccept, Hook, Kept
<1>9. CASE Create
  <2>1. CASE creates = 0
    <3>1. /\ creates' = 1 /\ DOMAIN active' = {} /\ pc' = "top" /\ pending' = {}
          /\ sock' = sock /\ \A s \in Sockets : sock[s].life \notin {"good", "closing"}
      BY <1>0, <1>9, <2>1 DEF Create, IdleInv, OwnInv
    <3> QED
      BY <3>1 DEF OwnInv, Undecided
  <2>2. CASE creates # 0
    <3>1. ~(creates' <= 1)
      BY <1>0, <1>9, <2>2 DEF Create, TypeOK
    <3> QED
      BY <3>1 DEF OwnInv
  <2> QED
    BY <2>1, <2>2
<1>10. CASE CloseJoined
  <2>1. /\ creates' = creates /\ DOMAIN active' = {} /\ pc' = "exited" /\ pending' = {}
        /\ ~joinable' /\ sock' = sock
    BY <1>10 DEF CloseJoined
  <2> QED
    BY <2>1 DEF OwnInv, Undecided
<1>11. CASE Clients
  <2>1. PICK h \in Handles : ClientConnect(h) \/ ClientLeave(h)
    BY <1>11 DEF Clients
  <2>2. /\ \A g \in Handles : Kept(g) => Kept(g)' /\ conn'[g] = conn[g]
        /\ UNCHANGED <<pending, active, sock, cur, new, creates, joinable, pc, kill>>
    BY <1>0, <2>1 DEF ClientConnect, ClientLeave, TypeOK, Kept, Up
  <2>3. Undecided' = Undecided
    BY <2>2 DEF Undecided
  <2> QED
    BY <1>0, <2>2, <2>3, OwnFrame
<1> QED
  BY <1>1, <1>2, <1>3, <1>4, <1>5, <1>6, <1>7, <1>8, <1>9, <1>10, <1>11
  DEF Next, Watcher, Application

----------------------------------------------------------------------------
(* The theorems *)

\* IInv holds in every reachable state.
THEOREM Invariance == Spec => []IInv
<1>1. Init => IInv
  <2> SUFFICES ASSUME Init PROVE IInv
    OBVIOUS
  <2>1. TypeOK
    <3>1. /\ hooked \in BOOLEAN /\ shutdown \in BOOLEAN /\ joinable \in BOOLEAN
          /\ closing \in BOOLEAN /\ crashed \in BOOLEAN
      BY Zenon DEF Init
    <3>2. sock \in [Sockets -> SocketState]
      BY SocketTypes DEF Init
    <3> QED
      BY <3>1, <3>2, ServerAssumption DEF Init, TypeOK, InstStates
  <2>2. IdleInv /\ PassInv /\ OpenInv /\ ListedInv
    BY DEF Init, IdleInv, PassInv, OpenInv, ListedInv
  <2>3. waiting \cup pending = {} /\ Cardinality({}) = 0
    BY FS_EmptySet DEF Init
  <2>4. CountInv
    BY <2>3, ServerAssumption DEF CountInv
  <2> QED
    BY <2>1, <2>2, <2>4 DEF IInv
<1>2. IInv /\ [Next]_vars => IInv'
  BY TypeStep, IdleStep, PassStep, OpenStep, CountStep, ListedStep DEF IInv
<1> QED
  BY <1>1, <1>2, PTL DEF Spec

\* Every reachable state of the server is well typed.
THEOREM TypeCorrect == Spec => []TypeOK
<1>1. IInv => TypeOK
  BY DEF IInv
<1> QED
  BY <1>1, Invariance, PTL

\* Between two rounds every open instance is on exactly one list, and no closed one on any,
\* for every number of instances, clients and sockets, and whatever the undefined
\* behaviour of the erased iterator makes of the last pass.
THEOREM ListsDisjoint == Spec => []EachInstanceOnce
<1>1. IInv => EachInstanceOnce
  <2> SUFFICES ASSUME IInv, pc = "top" PROVE EachInstanceOnce
    BY DEF EachInstanceOnce
  <2>1. waiting \cup pending \cup DOMAIN active = {h \in Handles : inst[h] # "none"}
    BY DEF IInv, TypeOK, OpenInv, ListedInv
  <2> QED
    BY <2>1 DEF IInv, PassInv, EachInstanceOnce
<1> QED
  BY <1>1, Invariance, PTL

\* Between two rounds no more than Backlog instances wait or are pending.
THEOREM BacklogEnforced == Spec => []BacklogBound
<1>1. IInv => BacklogBound
  <2> SUFFICES ASSUME IInv, pc = "top"
               PROVE  Cardinality(waiting) + Cardinality(pending) <= Backlog
    BY DEF BacklogBound
  <2>1. /\ waiting \in SUBSET Handles /\ pending \in SUBSET Handles
        /\ waiting \cap pending = {}
    BY DEF IInv, TypeOK, PassInv
  <2>2. Cardinality(waiting \cup pending) = Cardinality(waiting) + Cardinality(pending)
    BY <2>1, HandleSets
  <2> QED
    BY <2>2 DEF IInv, CountInv
<1> QED
  BY <1>1, Invariance, PTL

\* ClientInv holds as well where no socket is dropped that is good.
LEMMA ClientInvariance == ~MayDrop => (Spec => [](IInv /\ ClientInv))
<1> SUFFICES ASSUME ~MayDrop PROVE Spec => [](IInv /\ ClientInv)
  OBVIOUS
<1>1. Init => ClientInv
  <2> SUFFICES ASSUME Init PROVE ClientInv
    OBVIOUS
  <2>1. NoExpired /\ Held /\ FreshInv /\ ActiveInv /\ DecideInv
    BY DEF Init, NoExpired, Held, FreshInv, Undecided, ActiveInv, DecideInv, Free
  <2>2. Numbered /\ NewConnectionsOnly
    BY ServerAssumption DEF Init, Numbered, NewConnectionsOnly, Connections
  <2> QED
    BY <2>1, <2>2 DEF ClientInv
<1>2. IInv /\ ClientInv /\ [Next]_vars => ClientInv'
  BY ClientStep
<1> QED
  BY <1>1, <1>2, Invariance, PTL DEF Spec

\* on_accept is called once at most for each connection, for any number of instances and
\* clients, for clients that leave, and over any number of close() and create(), if the
\* application drops no socket that is still good: a destroyed socket closes its handle again
\* when somebody else may be connected to it (socket.cpp:165-168, server.cpp:197).
THEOREM EvaluatedOnce == ~MayDrop => (Spec => []NewConnectionsOnly)
<1>1. ClientInv => NewConnectionsOnly
  BY DEF ClientInv
<1> QED
  BY <1>1, ClientInvariance, PTL

\* The pipe under an active socket that is good carries the connection it was accepted for,
\* however many threads close each socket meanwhile, and only a second call of close() of a
\* socket that had the handle before cuts it off (socket.cpp:56, 177-178).  After close() and
\* create() a socket of the first server may hold the handle of a pipe of the second
\* (server.cpp:284-290), and then this fails: the theorem is about the time before.
THEOREM PipeIsOwn == ~MayDrop => (Spec => [](creates <= 1 => ActiveOwnsPipe))
<1> SUFFICES ASSUME ~MayDrop PROVE Spec => [](creates <= 1 => ActiveOwnsPipe)
  OBVIOUS
<1>1. Init => OwnInv
  BY DEF Init, OwnInv, Undecided, Free
<1>2. IInv /\ ClientInv /\ OwnInv /\ [Next]_vars => OwnInv'
  BY OwnStep
<1>3. OwnInv => (creates <= 1 => ActiveOwnsPipe)
  BY DEF OwnInv, ActiveOwnsPipe, UpOn, Kept, Up
<1> QED
  BY <1>1, <1>2, <1>3, ClientInvariance, PTL DEF Spec

\* The application closes each socket from one thread: a call that has passed its test finds
\* the socket good, and no call is late.
AloneInv ==
  /\ \A s \in Sockets : passed[s] # 0 => passed[s] = 1 /\ sock[s].life = "good"
  /\ late = {}

LEMMA AloneStep ==
  MaxClosers <= 1 => (IInv /\ ClientInv /\ AloneInv /\ [Next]_vars => AloneInv')
<1> SUFFICES ASSUME MaxClosers <= 1, IInv, ClientInv, AloneInv, [Next]_vars
             PROVE  AloneInv'
  OBVIOUS
<1> USE DEF AloneInv, pipeVars, listVars, ctlVars, watchVars, histVars
<1>0. TypeOK /\ Held /\ DecideInv
  BY DEF IInv, ClientInv
<1>1. CASE UNCHANGED <<sock, passed, late>>
  BY <1>1
<1>2. ASSUME NEW h \in Handles, CallOnAccept(h)
      PROVE  AloneInv'
  BY <1>0, <1>2 DEF CallOnAccept, TypeOK
<1>3. ASSUME NEW kept \in BOOLEAN, Accept(kept) \/ Decline(kept)
      PROVE  AloneInv'
  <2>1. new \in Sockets /\ passed[new] = 0
    BY <1>0, <1>3 DEF Accept, Decline, Held, InHand, TypeOK
  <2>2. \A s \in Sockets \ {new} : sock'[s] = sock[s]
    BY <1>0, <1>3, <2>1 DEF Accept, Decline, TypeOK
  <2> QED
    BY <1>3, <2>1, <2>2 DEF Accept, Decline
<1>4. ASSUME NEW s \in Sockets, UseSocket(s)
      PROVE  AloneInv'
  <2>1. /\ \A r \in Sockets \ {s} : sock'[r] = sock[r] /\ passed'[r] = passed[r]
        /\ passed[s] \in Nat /\ passed \in [Sockets -> Nat]
    BY <1>0, <1>4, SocketEffect DEF TypeOK
  <2>2. CASE CloseSocket(s)
    <3>1. sock[s].life = "good" /\ passed[s] = 0
      BY <2>1, <2>2, ServerAssumption DEF CloseSocket
    <3> QED
      BY <2>1, <2>2, <3>1 DEF CloseSocket
  <2>3. CASE DisconnectSocket(s)
    <3>1. passed[s] = 1 /\ sock[s].life = "good"
      BY <2>1, <2>3 DEF DisconnectSocket
    <3> QED
      BY <2>1, <2>3, <3>1 DEF DisconnectSocket
  <2>4. CASE SocketClosed(s) \/ DropSocket(s) \/ DestroySocket(s)
    <3>1. passed[s] = 0 /\ passed' = passed /\ late' = late
      BY <2>4 DEF SocketClosed, DropSocket, DestroySocket
    <3> QED
      BY <2>1, <3>1
  <2> QED
    BY <1>4, <2>2, <2>3, <2>4 DEF UseSocket
<1>5. ASSUME NEW h \in Handles, ClientConnect(h)
      PROVE  AloneInv'
  BY <1>5 DEF ClientConnect
<1>6. CASE Top \/ EndPoll \/ EndAccept \/ EndVerify \/ \E h \in Handles : Poll(h)
  BY <1>1, <1>6 DEF Top, EndPoll, EndAccept, EndVerify, Poll
<1>7. CASE CheckGood \/ \E h \in Handles : CheckExpired(h)
  BY <1>1, <1>7 DEF CheckGood, CheckExpired, VerifyFrame
<1>8. CASE \/ Create \/ Close \/ CloseJoined \/ CloseFromAccept \/ Destroy
           \/ (\E b \in BOOLEAN : Hook(b)) \/ \E h \in Handles : ClientLeave(h)
  BY <1>1, <1>8 DEF Create, Close, CloseJoined, CloseFromAccept, Destroy, Hook, ClientLeave
<1> QED
  BY <1>1, <1>2, <1>3, <1>4, <1>5, <1>6, <1>7, <1>8
  DEF Next, Watcher, Application, Clients, vars

\* The pipe under an active socket that is good is not cut off by anybody.
PipeIsUp ==
  \A h \in DOMAIN active : sock[active[h]].life = "good" => inst[h] \in {"connected", "closing"}

\* Where each socket is closed by one thread, an active socket that is good keeps its
\* connection until that thread, or the client, ends it.
THEOREM PipeStaysUp ==
  ~MayDrop /\ MaxClosers <= 1 => (Spec => [](creates <= 1 => ActiveOwnsPipe /\ PipeIsUp))
<1> SUFFICES ASSUME ~MayDrop, MaxClosers <= 1
             PROVE  Spec => [](creates <= 1 => ActiveOwnsPipe /\ PipeIsUp)
  OBVIOUS
<1>1. Init => AloneInv
  BY DEF Init, AloneInv
<1>2. IInv /\ ClientInv /\ AloneInv /\ [Next]_vars => AloneInv'
  BY AloneStep
<1>3. AloneInv /\ (creates <= 1 => ActiveOwnsPipe) => (creates <= 1 => ActiveOwnsPipe /\ PipeIsUp)
  BY DEF AloneInv, ActiveOwnsPipe, PipeIsUp
<1> QED
  BY <1>1, <1>2, <1>3, ClientInvariance, PipeIsOwn, PTL DEF Spec
=============================================================================
