-------------------------- MODULE WssClient_proofs --------------------------
(***************************************************************************)
(* Proofs about the WSS client: its types, that it implements the link the *)
(* rest of the node relies on, when it connects again without having       *)
(* closed a connection that is open, whose identity it has, when its tasks *)
(* end, and the order of its messages.                                     *)
(***************************************************************************)
EXTENDS WssClient, TLAPS

LEMMA MessageFacts ==
  ASSUME NEW msg \in Messages
  PROVE  /\ msg.maps \in MapChoices \union {NoMaps} /\ msg.n \in 0 .. MaxData
         /\ msg.kind = "ack" => msg.maps \in MapChoices
  BY WssAssumption DEF WssAssumption, Messages, Ack, Other, Data

LEMMA MessagesIn ==
  /\ \A m \in MapChoices : Ack(m) \in Messages
  /\ \A k \in {"bad", "junk", "badack"} : Other(k) \in Messages
  /\ \A n \in 1 .. MaxData, m \in MapChoices \union {NoMaps} : Data(n, m) \in Messages
  BY DEF Messages

\* Reading takes one message off the queue.
LEMMA ReadingFacts ==
  ASSUME TypeOK, NEW k \in {"ack", "data", "bad", "junk", "badack"}, Reading(k)
  PROVE  /\ Head(inbox) \in Messages /\ Head(inbox).kind = k
         /\ inbox' \in Seq(Messages)
  BY DEF TypeOK, Reading

LEMMA HandleFacts ==
  ASSUME TypeOK, NEW msg \in Messages, Handle(msg)
  PROVE  handled' \in Seq(1 .. MaxData) /\ maps' \in MapChoices \union {NoMaps}
<1>1. msg.n \in 0 .. MaxData /\ msg.maps \in MapChoices \union {NoMaps}
  BY MessageFacts
<1>2. CASE msg.n = 0
  BY <1>1, <1>2 DEF Handle, TypeOK
<1>3. CASE msg.n # 0
  <2>1. msg.n \in 1 .. MaxData
    BY <1>1, <1>3, WssAssumption DEF WssAssumption
  <2>. QED  BY <1>1, <1>3, <2>1 DEF Handle, TypeOK
<1>. QED  BY <1>2, <1>3

-----------------------------------------------------------------------------
LEMMA EmptyFacts ==
  /\ <<>> \in Seq(Messages) /\ <<>> \in Seq(1 .. MaxData)
  /\ 0 \in 0 .. MaxData /\ InitialBackoff \in InitialBackoff .. MaxBackoff
  BY WssAssumption DEF WssAssumption

LEMMA TypeInit == Init => TypeOK
<1>. SUFFICES ASSUME Init  PROVE TypeOK
  OBVIOUS
<1>1. /\ buffered \in Seq(Messages) /\ inbox \in Seq(Messages)
      /\ arrived \in 0 .. MaxData /\ handled \in Seq(1 .. MaxData)
      /\ backoff \in InitialBackoff .. MaxBackoff /\ rejected \in 0 .. 2
  BY EmptyFacts DEF Init
<1>. QED  BY <1>1 DEF Init, TypeOK

LEMMA ConnectingTypes == ASSUME TypeOK, Connecting  PROVE TypeOK'
<1>. USE DEF TypeOK, conn, tasks, log
<1>1. CASE ConnectOk
  BY <1>1, EmptyFacts DEF ConnectOk
<1>2. CASE ConnectFails \/ TokenFails
  BY <1>2 DEF ConnectFails, TokenFails
<1>3. CASE TokenSent
  BY <1>3 DEF TokenSent, Transmit, Usable
<1>4. CASE BackoffOver
  BY <1>4, WssAssumption DEF BackoffOver, WssAssumption
<1>. QED  BY <1>1, <1>2, <1>3, <1>4 DEF Connecting

LEMMA AuthenticatingTypes == ASSUME TypeOK, Authenticating  PROVE TypeOK'
<1>. USE DEF conn, tasks, log
<1>1. CASE AuthBad
  BY <1>1, ReadingFacts DEF AuthBad, TypeOK
<1>2. CASE AuthBuffer
  BY <1>2, ReadingFacts DEF AuthBuffer, TypeOK
<1>3. CASE AuthAck
  BY <1>3, ReadingFacts, MessageFacts DEF AuthAck, TypeOK
<1>4. CASE AuthJunk
  BY <1>4, ReadingFacts, EmptyFacts DEF AuthJunk, TypeOK
<1>5. CASE AuthBroken
  BY <1>5, ReadingFacts, EmptyFacts DEF AuthBroken, TypeOK
<1>6. CASE AuthFails
  <2>1. rejected' \in 0 .. 2 /\ buffered' \in Seq(Messages)
    BY <1>6, EmptyFacts DEF AuthFails, TypeOK
  <2>. QED  BY <1>6, <2>1 DEF AuthFails, Forget, TypeOK
<1>7. CASE Closed
  BY <1>7 DEF Closed, TypeOK
<1>. QED  BY <1>1, <1>2, <1>3, <1>4, <1>5, <1>6, <1>7 DEF Authenticating

LEMMA AfterAckTypes == ASSUME TypeOK, AfterAck  PROVE TypeOK'
<1>. USE DEF conn, tasks, log
<1>1. CASE HandleBuffered
  <2>1. Head(buffered) \in Messages /\ Tail(buffered) \in Seq(Messages)
    BY <1>1 DEF HandleBuffered, TypeOK
  <2>2. handled' \in Seq(1 .. MaxData) /\ maps' \in MapChoices \union {NoMaps}
    BY <1>1, <2>1, HandleFacts DEF HandleBuffered
  <2>. QED  BY <1>1, <2>1, <2>2 DEF HandleBuffered, TypeOK
<1>2. CASE CallbackBegins \/ CallbackEnds
  BY <1>2 DEF CallbackBegins, CallbackEnds, TypeOK
<1>. QED  BY <1>1, <1>2 DEF AfterAck

LEMMA ReceivingTypes == ASSUME TypeOK, Receiving  PROVE TypeOK'
<1>. USE DEF conn, tasks, log
<1>1. CASE RxBad
  BY <1>1, ReadingFacts DEF RxBad, TypeOK
<1>2. CASE RxHandle
  <2>1. Head(inbox) \in Messages /\ inbox' \in Seq(Messages)
    BY <1>2, ReadingFacts DEF RxHandle
  <2>2. handled' \in Seq(1 .. MaxData) /\ maps' \in MapChoices \union {NoMaps}
    BY <1>2, <2>1, HandleFacts DEF RxHandle
  <2>. QED  BY <1>2, <2>1, <2>2 DEF RxHandle, TypeOK
<1>3. CASE RxJunk
  BY <1>3, ReadingFacts DEF RxJunk, TypeOK
<1>4. CASE RxHandled \/ RxClosed
  BY <1>4 DEF RxHandled, RxClosed, TypeOK
<1>. QED  BY <1>1, <1>2, <1>3, <1>4 DEF Receiving

LEMMA OtherTypes ==
  ASSUME TypeOK, \/ Beating \/ SessionEnds \/ Stop \/ Stopped
                 \/ ServerSends \/ ServerLeaves \/ KernelGivesUp
  PROVE  TypeOK'
<1>. USE DEF conn, tasks, log
<1>1. CASE Beating
  BY <1>1 DEF Beating, HbWakes, HbSent, Transmit, Usable, TypeOK
<1>2. CASE SessionEnds \/ Stop
  BY <1>2, EmptyFacts DEF SessionEnds, Stop, Forget, TypeOK
<1>3. CASE ServerSends
  <2>1. inbox' \in Seq(Messages) /\ arrived' \in 0 .. MaxData
    <3>1. PICK msg \in Messages :
            inbox' = Append(inbox, msg) /\ arrived' \in {arrived, arrived + 1}
            /\ (arrived' # arrived => arrived < MaxData)
      <4>1. arrived < MaxData => arrived + 1 \in 1 .. MaxData
        BY WssAssumption DEF WssAssumption, TypeOK
      <4>. QED  BY <1>3, <4>1, MessagesIn DEF ServerSends
    <3>. QED  BY <3>1, WssAssumption DEF WssAssumption, TypeOK
  <2>. QED  BY <1>3, <2>1 DEF ServerSends, TypeOK
<1>4. CASE ServerLeaves \/ KernelGivesUp
  BY <1>4 DEF ServerLeaves, KernelGivesUp, TypeOK
<1>5. CASE Stopped
  BY <1>5 DEF Stopped, wssVars, TypeOK
<1>. QED  BY <1>1, <1>2, <1>3, <1>4, <1>5

(***************************************************************************)
(* Types: the two tasks of a session live and end together, the buffer     *)
(* holds only messages, the backoff stays between its bounds.              *)
(***************************************************************************)
THEOREM TypeCorrect == Spec => []TypeOK
<1>1. TypeOK /\ [Next]_wssVars => TypeOK'
  <2>1. ASSUME TypeOK, UNCHANGED wssVars  PROVE TypeOK'
    BY <2>1 DEF wssVars, conn, tasks, log, TypeOK
  <2>. QED  BY <2>1, ConnectingTypes, AuthenticatingTypes, AfterAckTypes, ReceivingTypes,
               OtherTypes DEF Next
<1>. QED  BY <1>1, TypeInit, PTL DEF Spec

-----------------------------------------------------------------------------
(***************************************************************************)
(* The refinement: each action is a step of LinkProtocol or a stutter.     *)
(***************************************************************************)
LEMMA LinkStep ==
  ASSUME TypeOK, [Next]_wssVars
  PROVE  [Protocol!Next]_(Protocol!linkSpecVars)
<1>. USE DEF Protocol!Next, Protocol!linkSpecVars, conn, tasks, log
<1>1. CASE Connecting
  <2>1. Link = "down" /\ Link' = "down" /\ maps' = maps
    BY <1>1 DEF Connecting, ConnectOk, ConnectFails, TokenSent, TokenFails, BackoffOver, Link
  <2>. QED  BY <2>1
<1>2. CASE AuthAck
  <2>1. maps' \in MapChoices
    BY <1>2, ReadingFacts, MessageFacts DEF AuthAck
  <2>. QED  BY <1>2, <2>1 DEF AuthAck, Link, Protocol!Acknowledge
<1>3. CASE AuthBad \/ AuthBuffer \/ AuthJunk \/ AuthBroken \/ AuthFails \/ Closed
  <2>1. Link = "down" /\ Link' = "down" /\ maps' \in MapChoices \union {NoMaps}
    BY <1>3 DEF AuthBad, AuthBuffer, AuthJunk, AuthBroken, AuthFails, Forget, Closed, Link, TypeOK
  <2>. QED  BY <2>1 DEF Protocol!AttemptFails
<1>4. CASE HandleBuffered
  <2>1. maps' \in MapChoices \union {NoMaps}
    BY <1>4, HandleFacts DEF HandleBuffered, TypeOK
  <2>. QED  BY <1>4, <2>1 DEF HandleBuffered, Link, Protocol!HandleMessage
<1>5. CASE CallbackBegins
  BY <1>5 DEF CallbackBegins, Link, Protocol!Callback
<1>6. CASE CallbackEnds
  BY <1>6 DEF CallbackEnds, Link, Protocol!CallbackDone
<1>7. CASE RxHandle
  <2>1. maps' \in MapChoices \union {NoMaps}
    BY <1>7, ReadingFacts, HandleFacts DEF RxHandle
  <2>. QED  BY <1>7, <2>1 DEF RxHandle, Link, TypeOK, Protocol!HandleMessage
<1>8. CASE RxJunk \/ SessionEnds
  BY <1>8 DEF RxJunk, SessionEnds, Link, TypeOK, Protocol!Lost
<1>9. CASE RxBad \/ RxHandled \/ RxClosed \/ Beating
  BY <1>9 DEF RxBad, RxHandled, RxClosed, Beating, HbWakes, HbSent, Link
<1>10. CASE Stop
  BY <1>10 DEF Stop, Forget, Link, Protocol!Stop
<1>11. CASE ServerSends \/ ServerLeaves \/ KernelGivesUp \/ Stopped \/ UNCHANGED wssVars
  BY <1>11 DEF ServerSends, ServerLeaves, KernelGivesUp, Stopped, wssVars, Link
<1>. QED  BY <1>1, <1>2, <1>3, <1>4, <1>5, <1>6, <1>7, <1>8, <1>9, <1>10, <1>11
          DEF Next, Authenticating, AfterAck, Receiving

(***************************************************************************)
(* The client implements LinkProtocol for any bounds and any maps; the     *)
(* node implements it too (MonitorNode_proofs), so the two modules agree   *)
(* on what the WSS task does to the rest of the node.                      *)
(***************************************************************************)
THEOREM ClientImplementsLink == Spec => ImplementsLink
<1>1. Init => Protocol!Init
  BY DEF Init, Link, Protocol!Init
<1>2. TypeOK /\ [Next]_wssVars => [Protocol!Next]_(Protocol!linkSpecVars)
  BY LinkStep
<1>. QED  BY <1>1, <1>2, TypeCorrect, PTL DEF Spec, ImplementsLink, Protocol!Spec

-----------------------------------------------------------------------------
(***************************************************************************)
(* Where the loop may connect again, the connection is gone unless a       *)
(* message raised; the receive loop ends only at a closed connection.      *)
(***************************************************************************)
GoneInv ==
  /\ at \in {"backoff", "connect"} => broken \/ ws \in {"none", "closed"}
  /\ rx = "done" => ws = "closed"

LEMMA GoneStep ==
  ASSUME TypeOK, GoneInv, [Next]_wssVars
  PROVE  GoneInv'
<1>. USE DEF GoneInv, TypeOK, conn, tasks, log
<1>1. CASE Connecting
  BY <1>1 DEF Connecting, ConnectOk, ConnectFails, TokenSent, TokenFails, BackoffOver,
              Transmit, Usable
<1>2. CASE Authenticating
  BY <1>2 DEF Authenticating, AuthBad, AuthBuffer, AuthAck, AuthJunk, AuthBroken, AuthFails,
              Closed
<1>3. CASE AfterAck
  BY <1>3 DEF AfterAck, HandleBuffered, CallbackBegins, CallbackEnds
<1>4. CASE Receiving \/ SessionEnds
  BY <1>4 DEF Receiving, RxBad, RxHandle, RxJunk, RxHandled, RxClosed, SessionEnds
<1>5. CASE Beating
  BY <1>5 DEF Beating, HbWakes, HbSent, Transmit
<1>6. CASE Stop \/ Stopped \/ UNCHANGED wssVars
  BY <1>6 DEF Stop, Stopped, wssVars
<1>7. CASE ServerSends \/ ServerLeaves \/ KernelGivesUp
  BY <1>7 DEF ServerSends, ServerLeaves, KernelGivesUp
<1>. QED  BY <1>1, <1>2, <1>3, <1>4, <1>5, <1>6, <1>7 DEF Next

(***************************************************************************)
(* Only a message that raised makes the client connect again with its      *)
(* connection still open.                                                  *)
(***************************************************************************)
THEOREM LeavesNoneOpenHolds == Spec => LeavesNoneOpen
<1>1. Init => GoneInv
  BY DEF Init, GoneInv
<1>2. TypeOK /\ GoneInv /\ [Next]_wssVars => GoneInv'
  BY GoneStep
<1>3. GoneInv => [ConnectOk => ws \in {"none", "closed"} \/ broken]_wssVars
  BY DEF GoneInv, ConnectOk
<1>. QED  BY <1>1, <1>2, <1>3, TypeCorrect, PTL DEF Spec, LeavesNoneOpen

-----------------------------------------------------------------------------
(***************************************************************************)
(* From connecting to the end of the session there is a socket, and        *)
(* _connected is cleared only by the receive loop at a closed one.         *)
(***************************************************************************)
SocketInv ==
  at \in {"token", "auth", "drain", "callback", "session"} =>
    ws # "none" /\ (connected \/ ws = "closed")

LEMMA SocketStep ==
  ASSUME TypeOK, SocketInv, OwnIdentity, TasksEndClosed, [Next]_wssVars
  PROVE  SocketInv' /\ OwnIdentity' /\ TasksEndClosed'
<1>. USE DEF SocketInv, OwnIdentity, TasksEndClosed, TypeOK, conn, tasks, log
<1>1. CASE Connecting
  BY <1>1 DEF Connecting, ConnectOk, ConnectFails, TokenSent, TokenFails, BackoffOver,
              Transmit, Usable
<1>2. CASE AuthAck
  BY <1>2, WssAssumption DEF WssAssumption, AuthAck, Token, EmptyToken
<1>3. CASE AuthBad \/ AuthBuffer \/ AuthJunk \/ AuthBroken \/ AuthFails \/ Closed
  BY <1>3 DEF AuthBad, AuthBuffer, AuthJunk, AuthBroken, AuthFails, Forget, Closed
<1>4. CASE AfterAck
  BY <1>4 DEF AfterAck, HandleBuffered, CallbackBegins, CallbackEnds
<1>5. CASE Receiving \/ SessionEnds
  BY <1>5 DEF Receiving, RxBad, RxHandle, RxJunk, RxHandled, RxClosed, SessionEnds
<1>6. CASE Beating
  BY <1>6 DEF Beating, HbWakes, HbSent, Transmit, Usable
<1>7. CASE Stop \/ Stopped \/ UNCHANGED wssVars
  BY <1>7 DEF Stop, Forget, Stopped, wssVars
<1>8. CASE ServerSends \/ ServerLeaves \/ KernelGivesUp
  BY <1>8 DEF ServerSends, ServerLeaves, KernelGivesUp
<1>. QED  BY <1>1, <1>2, <1>3, <1>4, <1>5, <1>6, <1>7, <1>8 DEF Next, Authenticating

LEMMA SocketCorrect == Spec => [](SocketInv /\ OwnIdentity /\ TasksEndClosed)
<1>1. Init => SocketInv /\ OwnIdentity /\ TasksEndClosed
  BY DEF Init, SocketInv, OwnIdentity, TasksEndClosed
<1>. QED  BY <1>1, SocketStep, TypeCorrect, PTL DEF Spec

(***************************************************************************)
(* No identity outlives its connection into the next, and none is missing  *)
(* while restart and heartbeats need it (wss_client.py:255, 312, 341).     *)
(***************************************************************************)
THEOREM OwnIdentityHolds == Spec => []OwnIdentity
<1>. QED  BY SocketCorrect, PTL

(***************************************************************************)
(* The heartbeat and the receive loop end only at a closed connection      *)
(* (wss_client.py:338-361, 373-396).                                       *)
(***************************************************************************)
THEOREM TasksEndClosedHolds == Spec => []TasksEndClosed
<1>. QED  BY SocketCorrect, PTL

-----------------------------------------------------------------------------
(***************************************************************************)
(* The order of the messages.  The numbered messages in the buffer and the *)
(* inbox are the run of numbers from the first not yet handled to the last *)
(* that arrived; a step appends to it, takes its first, or moves the head  *)
(* of the inbox to the end of the buffer, which leaves it as it is.        *)
(***************************************************************************)
Queue == buffered \o inbox

OrderInv ==
  /\ at \in {"token", "auth", "drain", "callback", "session"} =>
       /\ handled = [k \in 1 .. Len(handled) |-> k] /\ Len(handled) <= arrived
       /\ InSequence(Queue, Len(handled) + 1, arrived)
  /\ at \notin {"auth", "drain"} => buffered = <<>>

LEMMA QueueType == TypeOK => Queue \in Seq(Messages)
  BY DEF TypeOK, Queue

LEMMA Unnumbered ==
  ASSUME NEW q \in Seq(Messages), NEW r \in Seq(Messages), NEW p \in 1 .. Len(q),
         q[p].n = 0, Len(r) = Len(q) - 1,
         \A k \in 1 .. Len(r) : r[k] = q[IF k < p THEN k ELSE k + 1],
         NEW first \in Nat, NEW last \in Nat, InSequence(q, first, last)
  PROVE  InSequence(r, first, last)
<1>1. DOMAIN q = 1 .. Len(q) /\ DOMAIN r = 1 .. Len(r) /\ Len(q) \in Nat /\ Len(r) \in Nat
  OBVIOUS
<1>2. {r[k].n : k \in DOMAIN r} \ {0} = {q[k].n : k \in DOMAIN q} \ {0}
  <2>1. ASSUME NEW k \in DOMAIN r
        PROVE  \E j \in DOMAIN q : r[k].n = q[j].n
    BY <1>1
  <2>2. ASSUME NEW k \in DOMAIN q, q[k].n # 0
        PROVE  \E j \in DOMAIN r : r[j].n = q[k].n
    <3>1. CASE k < p
      <4>1. k \in 1 .. Len(r) /\ r[k] = q[k]
        BY <1>1, <3>1
      <4>. QED  BY <1>1, <4>1
    <3>2. CASE k > p
      <4>1. k - 1 \in 1 .. Len(r) /\ r[k - 1] = q[k]
        BY <1>1, <3>2
      <4>. QED  BY <1>1, <4>1
    <3>. QED  BY <1>1, <2>2, <3>1, <3>2
  <2>3. ASSUME NEW x, x # 0, \E k \in DOMAIN r : x = r[k].n
        PROVE  \E k \in DOMAIN q : x = q[k].n
    BY <2>1, <2>3, Zenon
  <2>4. ASSUME NEW x, x # 0, \E k \in DOMAIN q : x = q[k].n
        PROVE  \E k \in DOMAIN r : x = r[k].n
    <3>1. PICK k \in DOMAIN q : x = q[k].n
      BY <2>4
    <3>2. q[k].n # 0
      BY <2>4, <3>1
    <3>. QED  BY <2>2, <3>1, <3>2, Zenon
  <2>. DEFINE R == {r[k].n : k \in DOMAIN r}
              Q == {q[k].n : k \in DOMAIN q}
  <2>5. \A x : x # 0 => (x \in R <=> x \in Q)
    BY <2>3, <2>4, Zenon
  <2>. HIDE DEF R, Q
  <2>6. R \ {0} = Q \ {0}
    BY <2>5
  <2>. QED  BY <2>6 DEF R, Q
<1>3. ASSUME NEW j \in DOMAIN r, NEW k \in DOMAIN r, j < k, r[j].n # 0, r[k].n # 0
      PROVE  r[j].n < r[k].n
  <2>. DEFINE place(i) == IF i < p THEN i ELSE i + 1
  <2>1. place(j) \in DOMAIN q /\ place(k) \in DOMAIN q /\ place(j) < place(k)
    BY <1>1, <1>3
  <2>2. r[j] = q[place(j)] /\ r[k] = q[place(k)]
    BY <1>1
  <2>. HIDE DEF place
  <2>. QED  BY <1>3, <2>1, <2>2 DEF InSequence
<1>. QED  BY <1>2, <1>3 DEF InSequence

LEMMA First ==
  ASSUME NEW q \in Seq(Messages), NEW first \in Nat \ {0}, NEW last \in Nat,
         q # <<>>, q[1].n # 0, InSequence(q, first, last)
  PROVE  /\ q[1].n = first /\ first <= last
         /\ InSequence(Tail(q), first + 1, last)
<1>. DEFINE r == Tail(q)
<1>1. /\ DOMAIN q = 1 .. Len(q) /\ DOMAIN r = 1 .. Len(q) - 1 /\ Len(q) \in Nat \ {0}
      /\ \A k \in DOMAIN r : r[k] = q[k + 1] /\ k + 1 \in DOMAIN q
  OBVIOUS
<1>2. \A k \in DOMAIN q : q[k].n \in Nat
  BY <1>1, MessageFacts, WssAssumption DEF WssAssumption
<1>. HIDE DEF r
<1>3. \A k \in DOMAIN q : q[k].n # 0 => q[k].n \in first .. last
  BY DEF InSequence
<1>4. \A i \in first .. last : \E k \in DOMAIN q : q[k].n = i
  BY DEF InSequence
<1>5. \A k \in DOMAIN q : q[k].n # 0 /\ k # 1 => q[1].n < q[k].n
  BY <1>1 DEF InSequence
<1>6. q[1].n = first /\ first <= last
  <2>1. q[1].n \in first .. last
    BY <1>1, <1>3
  <2>2. PICK k \in DOMAIN q : q[k].n = first
    BY <1>4, <2>1
  <2>. QED  BY <1>1, <1>2, <1>5, <2>1, <2>2
<1>7. {r[k].n : k \in DOMAIN r} \ {0} = first + 1 .. last
  <2>1. ASSUME NEW k \in DOMAIN r, r[k].n # 0
        PROVE  r[k].n \in first + 1 .. last
    <3>1. k + 1 \in DOMAIN q /\ k + 1 # 1 /\ r[k] = q[k + 1]
      BY <1>1
    <3>. QED  BY <1>2, <1>3, <1>5, <1>6, <2>1, <3>1
  <2>2. ASSUME NEW i \in first + 1 .. last
        PROVE  i # 0 /\ \E k \in DOMAIN r : r[k].n = i
    <3>1. PICK k \in DOMAIN q : q[k].n = i
      BY <1>4
    <3>2. k # 1
      BY <1>6, <3>1
    <3>3. k - 1 \in DOMAIN r /\ r[k - 1] = q[k]
      BY <1>1, <3>2
    <3>. QED  BY <3>1, <3>3
  <2>. QED  BY <2>1, <2>2
<1>8. ASSUME NEW j \in DOMAIN r, NEW k \in DOMAIN r, j < k, r[j].n # 0, r[k].n # 0
      PROVE  r[j].n < r[k].n
  <2>1. j + 1 \in DOMAIN q /\ k + 1 \in DOMAIN q /\ j + 1 < k + 1
    BY <1>1, <1>8
  <2>. QED  BY <1>1, <1>8, <2>1 DEF InSequence
<1>. QED  BY <1>6, <1>7, <1>8 DEF InSequence, r

LEMMA Last ==
  ASSUME NEW q \in Seq(Messages), NEW msg \in Messages, NEW first \in Nat, NEW last \in Nat,
         InSequence(q, first, last), first <= last + 1
  PROVE  /\ msg.n = 0 => InSequence(Append(q, msg), first, last)
         /\ msg.n = last + 1 => InSequence(Append(q, msg), first, last + 1)
<1>. DEFINE r == Append(q, msg)
<1>1. /\ DOMAIN q = 1 .. Len(q) /\ DOMAIN r = DOMAIN q \union {Len(q) + 1} /\ Len(q) \in Nat
      /\ r[Len(q) + 1] = msg /\ \A k \in DOMAIN q : r[k] = q[k]
  OBVIOUS
<1>. HIDE DEF r
<1>2. {r[k].n : k \in DOMAIN r} = {q[k].n : k \in DOMAIN q} \union {msg.n}
  BY <1>1
<1>3. \A k \in DOMAIN q : q[k].n # 0 => q[k].n \in first .. last
  BY DEF InSequence
<1>4. \A j, k \in DOMAIN r : j < k => j \in DOMAIN q /\ (k \in DOMAIN q \/ k = Len(q) + 1)
  BY <1>1
<1>5. CASE msg.n = 0
  BY <1>1, <1>2, <1>4, <1>5 DEF InSequence, r
<1>6. CASE msg.n = last + 1
  <2>1. {r[k].n : k \in DOMAIN r} \ {0} = first .. last + 1
    <3>. DEFINE R == {r[k].n : k \in DOMAIN r}
                Q == {q[k].n : k \in DOMAIN q}
    <3>1. R = Q \union {last + 1} /\ Q \ {0} = first .. last
      BY <1>2, <1>6 DEF InSequence
    <3>2. first .. last + 1 = (first .. last) \union {last + 1} /\ last + 1 # 0
      OBVIOUS
    <3>. HIDE DEF R, Q
    <3>3. R \ {0} = first .. last + 1
      BY <3>1, <3>2
    <3>. QED  BY <3>3 DEF R
  <2>2. ASSUME NEW j \in DOMAIN r, NEW k \in DOMAIN r, j < k, r[j].n # 0, r[k].n # 0
        PROVE  r[j].n < r[k].n
    BY <1>1, <1>3, <1>4, <1>6, <2>2 DEF InSequence
  <2>. QED  BY <1>6, <2>1, <2>2 DEF InSequence, r
<1>. QED  BY <1>5, <1>6

\* The numbered part of the queue after the head of the inbox was dropped.
LEMMA DropHead ==
  ASSUME TypeOK, inbox # <<>>, inbox' = Tail(inbox), buffered' = buffered,
         Head(inbox).n = 0,
         NEW first \in Nat, NEW last \in Nat, InSequence(Queue, first, last)
  PROVE  InSequence(Queue', first, last)
<1>. DEFINE p == Len(buffered) + 1
<1>1. buffered \in Seq(Messages) /\ inbox \in Seq(Messages)
  BY DEF TypeOK
<1>2. Tail(inbox) \in Seq(Messages) /\ Queue' = buffered \o Tail(inbox)
  BY <1>1 DEF Queue
<1>3. Queue \in Seq(Messages) /\ Queue' \in Seq(Messages)
  BY <1>1, <1>2 DEF Queue
<1>4. /\ Len(Queue) = Len(buffered) + Len(inbox) /\ Len(Queue') = Len(Queue) - 1
      /\ p \in 1 .. Len(Queue) /\ Queue[p] = Head(inbox)
  BY <1>1, <1>2 DEF Queue
<1>5. ASSUME NEW k \in 1 .. Len(Queue')
      PROVE  Queue'[k] = Queue[IF k < p THEN k ELSE k + 1]
  BY <1>1, <1>2, <1>4 DEF Queue
<1>. HIDE DEF p
<1>. QED  BY <1>3, <1>4, <1>5, Unnumbered

\* Handling the first of the queue, numbered or not.
LEMMA HandleFirst ==
  ASSUME TypeOK, NEW q \in Seq(Messages), q # <<>>, Handle(Head(q)), arrived' = arrived,
         handled = [k \in 1 .. Len(handled) |-> k], Len(handled) <= arrived,
         InSequence(q, Len(handled) + 1, arrived)
  PROVE  /\ handled' = [k \in 1 .. Len(handled') |-> k] /\ Len(handled') <= arrived'
         /\ InSequence(Tail(q), Len(handled') + 1, arrived')
<1>1. handled \in Seq(1 .. MaxData) /\ Len(handled) \in Nat /\ arrived \in Nat
  BY WssAssumption DEF WssAssumption, TypeOK
<1>2. Head(q) = q[1] /\ 1 \in 1 .. Len(q) /\ Tail(q) \in Seq(Messages)
  OBVIOUS
<1>3. CASE q[1].n = 0
  <2>. DEFINE r == Tail(q)
              first == Len(handled) + 1
  <2>1. /\ r \in Seq(Messages) /\ Len(r) = Len(q) - 1 /\ first \in Nat
        /\ InSequence(q, first, arrived)
    BY <1>1
  <2>2. \A k \in 1 .. Len(r) : r[k] = q[IF k < 1 THEN k ELSE k + 1]
    OBVIOUS
  <2>. HIDE DEF r, first
  <2>3. InSequence(r, first, arrived)
    BY <1>1, <1>2, <1>3, <2>1, <2>2, Unnumbered
  <2>4. InSequence(Tail(q), Len(handled) + 1, arrived)
    BY <2>3 DEF r, first
  <2>5. handled' = handled
    BY <1>2, <1>3 DEF Handle
  <2>. QED  BY <2>4, <2>5
<1>4. CASE q[1].n # 0
  <2>1. /\ q[1].n = Len(handled) + 1 /\ Len(handled) + 1 <= arrived
        /\ InSequence(Tail(q), Len(handled) + 2, arrived)
    BY <1>1, <1>4, First
  <2>2. handled' = Append(handled, Len(handled) + 1)
    BY <1>2, <1>4, <2>1 DEF Handle
  <2>3. Len(handled') = Len(handled) + 1
    BY <1>1, <2>2
  <2>4. Append(handled, Len(handled) + 1) = [k \in 1 .. Len(handled) + 1 |-> k]
    <3>. DEFINE h == Append(handled, Len(handled) + 1)
    <3>1. \A k \in 1 .. Len(handled) : h[k] = k
      BY <1>1
    <3>2. h \in Seq(Nat) /\ Len(h) = Len(handled) + 1 /\ h[Len(handled) + 1] = Len(handled) + 1
      BY <1>1, WssAssumption DEF WssAssumption
    <3>3. h = [k \in 1 .. Len(h) |-> h[k]]
      BY <3>2
    <3>. HIDE DEF h
    <3>4. \A k \in 1 .. Len(h) : h[k] = k
      BY <1>1, <3>1, <3>2
    <3>5. h = [k \in 1 .. Len(handled) + 1 |-> k]
      BY <3>2, <3>3, <3>4
    <3>. QED  BY <3>5 DEF h
  <2>. QED  BY <1>1, <2>1, <2>2, <2>3, <2>4
<1>. QED  BY <1>3, <1>4

LEMMA ReadingNumber ==
  ASSUME TypeOK, NEW k \in {"bad", "ack", "junk", "badack"}, Reading(k)
  PROVE  Head(inbox).n = 0
<1>1. Head(inbox) \in Messages /\ Head(inbox).kind = k
  BY ReadingFacts
<1>. QED  BY <1>1 DEF Messages, Ack, Other, Data

LEMMA OrderAuth ==
  ASSUME TypeOK, OrderInv, Authenticating
  PROVE  OrderInv'
<1>. USE DEF conn, tasks, log
<1>0. Len(handled) \in Nat /\ arrived \in Nat
  BY WssAssumption DEF WssAssumption, TypeOK
<1>1. CASE AuthBad \/ AuthAck
  <2>1. /\ inbox # <<>> /\ inbox' = Tail(inbox) /\ buffered' = buffered /\ Head(inbox).n = 0
        /\ at = "auth" /\ at' \in {"auth", "drain"}
        /\ UNCHANGED <<handled, arrived>>
    BY <1>1, ReadingNumber DEF AuthBad, AuthAck, Reading
  <2>. QED  BY <1>0, <2>1, DropHead DEF OrderInv
<1>2. CASE AuthBuffer
  <2>1. /\ inbox \in Seq(Messages) /\ inbox # <<>> /\ buffered \in Seq(Messages)
        /\ buffered' = Append(buffered, Head(inbox)) /\ inbox' = Tail(inbox)
    BY <1>2 DEF AuthBuffer, Reading, TypeOK
  <2>2. Queue' = Queue
    BY <2>1 DEF Queue
  <2>. QED  BY <1>2, <2>2 DEF AuthBuffer, OrderInv
<1>3. CASE AuthJunk \/ AuthBroken \/ AuthFails \/ Closed
  BY <1>3 DEF AuthJunk, AuthBroken, AuthFails, Closed, OrderInv
<1>. QED  BY <1>1, <1>2, <1>3 DEF Authenticating

LEMMA OrderSession ==
  ASSUME TypeOK, OrderInv, AfterAck \/ Receiving
  PROVE  OrderInv'
<1>. USE DEF conn, tasks, log
<1>0. Len(handled) \in Nat /\ arrived \in Nat /\ buffered \in Seq(Messages)
      /\ inbox \in Seq(Messages) /\ Queue \in Seq(Messages)
  BY WssAssumption, QueueType DEF WssAssumption, TypeOK
<1>1. CASE HandleBuffered
  <2>1. /\ Queue # <<>> /\ Head(Queue) = Head(buffered)
        /\ Queue' = Tail(Queue)
    <3>1. buffered # <<>> /\ buffered' = Tail(buffered) /\ inbox' = inbox
      BY <1>1 DEF HandleBuffered
    <3>2. Tail(buffered \o inbox) = Tail(buffered) \o inbox
      BY <1>0, <3>1
    <3>. QED  BY <1>0, <3>1, <3>2 DEF Queue
  <2>2. Handle(Head(Queue)) /\ at = "drain" /\ at' = at /\ arrived' = arrived
    BY <1>1, <2>1 DEF HandleBuffered
  <2>. QED  BY <1>0, <2>1, <2>2, HandleFirst DEF OrderInv
<1>2. CASE CallbackBegins \/ CallbackEnds
  BY <1>2 DEF CallbackBegins, CallbackEnds, OrderInv, Queue
<1>3. CASE RxBad
  <2>1. /\ inbox # <<>> /\ inbox' = Tail(inbox) /\ buffered' = buffered /\ Head(inbox).n = 0
        /\ at = "session" /\ at' = at /\ UNCHANGED <<handled, arrived>>
    BY <1>3, ReadingNumber DEF RxBad, Reading, TypeOK
  <2>. QED  BY <1>0, <2>1, DropHead DEF OrderInv
<1>4. CASE RxHandle
  <2>1. /\ inbox # <<>> /\ inbox' = Tail(inbox) /\ Handle(Head(inbox))
        /\ at = "session" /\ at' = at /\ UNCHANGED <<buffered, arrived>>
    BY <1>4 DEF RxHandle, Reading, TypeOK
  <2>2. buffered = <<>> /\ Queue = inbox
    BY <1>0, <2>1 DEF OrderInv, Queue
  <2>3. Queue' = Tail(Queue)
    BY <1>0, <2>1, <2>2 DEF Queue
  <2>. QED  BY <1>0, <2>1, <2>2, <2>3, HandleFirst DEF OrderInv
<1>5. CASE RxJunk
  BY <1>5 DEF RxJunk, OrderInv, TypeOK
<1>6. CASE RxHandled \/ RxClosed
  BY <1>6 DEF RxHandled, RxClosed, OrderInv, Queue
<1>. QED  BY <1>1, <1>2, <1>3, <1>4, <1>5, <1>6 DEF AfterAck, Receiving

LEMMA OrderServer ==
  ASSUME TypeOK, OrderInv, ServerSends
  PROVE  OrderInv'
<1>. USE DEF conn, tasks
<1>0. Len(handled) \in Nat /\ arrived \in Nat /\ buffered \in Seq(Messages)
      /\ inbox \in Seq(Messages) /\ Queue \in Seq(Messages)
  BY WssAssumption, QueueType DEF WssAssumption, TypeOK
<1>1. PICK msg \in Messages :
        /\ inbox' = Append(inbox, msg)
        /\ \/ msg.n = 0 /\ arrived' = arrived
           \/ msg.n = arrived + 1 /\ arrived' = arrived + 1
  <2>1. arrived < MaxData => arrived + 1 \in 1 .. MaxData
    BY WssAssumption DEF WssAssumption, TypeOK
  <2>2. /\ \A m : Ack(m).n = 0 /\ Other(m).n = 0
        /\ \A m : Data(arrived + 1, m).n = arrived + 1
    BY DEF Ack, Other, Data
  <2>. QED  BY <2>1, <2>2, MessagesIn DEF ServerSends
<1>2. Queue' = Append(Queue, msg)
  <2>1. buffered \o Append(inbox, msg) = Append(buffered \o inbox, msg)
    BY <1>0
  <2>. QED  BY <1>1, <2>1 DEF Queue, ServerSends
<1>3. UNCHANGED <<at, buffered, handled>>
  BY DEF ServerSends
<1>. QED  BY <1>0, <1>1, <1>2, <1>3, Last DEF OrderInv

LEMMA OrderStep ==
  ASSUME TypeOK, OrderInv, [Next]_wssVars
  PROVE  OrderInv'
<1>. USE DEF conn, tasks, log
<1>1. CASE ConnectOk
  <2>1. /\ at' = "token" /\ inbox' = <<>> /\ handled' = <<>> /\ arrived' = 0
        /\ buffered' = <<>> /\ Queue' = <<>>
    BY <1>1 DEF ConnectOk, OrderInv, Queue
  <2>2. InSequence(<<>>, 1, 0)
    BY DEF InSequence
  <2>. QED  BY <2>1, <2>2 DEF OrderInv
<1>2. CASE ConnectFails \/ TokenSent \/ TokenFails \/ BackoffOver
  BY <1>2 DEF ConnectFails, TokenSent, TokenFails, BackoffOver, OrderInv, Queue
<1>3. CASE Beating \/ ServerLeaves \/ KernelGivesUp
  BY <1>3 DEF Beating, HbWakes, HbSent, ServerLeaves, KernelGivesUp, OrderInv, Queue
<1>4. CASE SessionEnds \/ Stop
  BY <1>4 DEF SessionEnds, Stop, Forget, OrderInv
<1>5. CASE Stopped \/ UNCHANGED wssVars
  BY <1>5 DEF Stopped, wssVars, OrderInv, Queue
<1>. QED  BY <1>1, <1>2, <1>3, <1>4, <1>5, OrderAuth, OrderSession, OrderServer
          DEF Next, Connecting

(***************************************************************************)
(* Every well-formed message of a connection is handled once and in the    *)
(* order of arrival, put aside or not (wss_client.py:283-325, 367-394).    *)
(***************************************************************************)
THEOREM InOrderHolds == Spec => []InOrder
<1>1. Init => OrderInv
  BY DEF Init, OrderInv
<1>2. OrderInv => InOrder
  BY DEF OrderInv, InOrder, Queue
<1>. QED  BY <1>1, <1>2, OrderStep, TypeCorrect, PTL DEF Spec
=============================================================================
