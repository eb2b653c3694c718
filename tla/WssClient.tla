------------------------------ MODULE WssClient ------------------------------
(***************************************************************************)
(* The WebSocket client, src/network/wss_client.py: the connect loop with  *)
(* its exponential backoff, authentication and its buffer, the session     *)
(* (a TaskGroup of a heartbeat and a receive loop) and stop().             *)
(*                                                                         *)
(* Each action is one stretch of code between two awaits.  A message is    *)
(* the acknowledgement, a message for the handler (numbered as it arrives  *)
(* on the connection; a device_map carries maps), invalid JSON, JSON that  *)
(* is no object ("junk"), or an acknowledgement whose token or lists are   *)
(* malformed ("badack"); the last two raise where nothing catches them.    *)
(* The peer may close the connection or vanish without a word.             *)
(***************************************************************************)
EXTENDS Naturals, Sequences

CONSTANTS
  MapChoices,       \* the maps the Server may send
  NoMaps,           \* empty maps
  NoToken,          \* no session token
  InitialBackoff,   \* _INITIAL_BACKOFF
  MaxBackoff,       \* _MAX_BACKOFF
  MaxData,          \* bound: messages for the handler per connection
  MaxInbox          \* bound: messages received and not yet read

ASSUME WssAssumption ==
  /\ NoMaps \notin MapChoices /\ NoToken \notin {"token", "empty"}
  /\ InitialBackoff \in Nat \ {0} /\ MaxBackoff \in Nat
  /\ InitialBackoff <= MaxBackoff
  /\ MaxData \in Nat /\ MaxInbox \in Nat

VARIABLES
  at,           \* where the connect loop is
  connected,    \* _connected
  ws,           \* _ws: none, or a connection that is open or closed, or whose
                \* peer has vanished ("half"; "unacked" once data was sent)
  auth,         \* _auth_status
  session,      \* _session_token
  maps,         \* the device maps of network/models.py
  backoff,      \* _backoff
  buffered,     \* messages put aside by _authenticate
  hb, rx,       \* the two tasks of the session
  inbox,        \* messages received on the connection and not yet read
  arrived,      \* how many messages for the handler have arrived on it
  handled,      \* history: their numbers in the order they were handled
  broken,       \* history: a malformed message ended the use of the connection
  rejected      \* history: rejections since the last success, at most 2

conn == <<connected, ws, auth, session>>
tasks == <<hb, rx>>
log == <<inbox, arrived, handled>>
wssVars == <<at, conn, maps, backoff, buffered, tasks, log, broken, rejected>>

Token == "token"
EmptyToken == "empty"
Data(n, m) == [kind |-> "data", n |-> n, maps |-> m]
Ack(m) == [kind |-> "ack", n |-> 0, maps |-> m]
Other(k) == [kind |-> k, n |-> 0, maps |-> NoMaps]

Usable == ws \in {"open", "half", "unacked"}

\* What a send does: a vanished peer acknowledges nothing.
Transmit == ws' = IF ws = "half" THEN "unacked" ELSE ws

Init ==
  /\ at = "connect" /\ connected = FALSE /\ ws = "none"
  /\ auth = "pending" /\ session = NoToken /\ maps = NoMaps
  /\ backoff = InitialBackoff /\ buffered = <<>>
  /\ hb = "off" /\ rx = "off"
  /\ inbox = <<>> /\ arrived = 0 /\ handled = <<>>
  /\ broken = FALSE /\ rejected = 0

-----------------------------------------------------------------------------
(***************************************************************************)
(* Connecting.  A success resets the backoff and goes on to send the       *)
(* token.  An exception, here or later, leaves every field as it is.       *)
(***************************************************************************)
\* Mutant of ConnectOk: the identity of the last connection is kept.
ConnectKeepsIdentity ==
  /\ at = "connect"
  /\ at' = "token"
  /\ ws' = "open" /\ connected' = TRUE
  /\ backoff' = InitialBackoff
  /\ inbox' = <<>> /\ arrived' = 0 /\ handled' = <<>> /\ broken' = FALSE
  /\ UNCHANGED <<auth, session, maps, buffered, tasks, rejected>>

ConnectOk ==
  /\ at = "connect"
  /\ at' = "token"
  /\ ws' = "open" /\ connected' = TRUE
  /\ backoff' = InitialBackoff
  /\ auth' = "pending" /\ session' = NoToken
  /\ inbox' = <<>> /\ arrived' = 0 /\ handled' = <<>> /\ broken' = FALSE
  /\ UNCHANGED <<maps, buffered, tasks, rejected>>

ConnectFails ==
  /\ at = "connect"
  /\ at' = "backoff"
  /\ UNCHANGED <<conn, maps, backoff, buffered, tasks, log, broken, rejected>>

TokenSent ==
  /\ at = "token" /\ Usable
  /\ at' = "auth"
  /\ Transmit
  /\ UNCHANGED <<connected, auth, session, maps, backoff, buffered, tasks, log, broken, rejected>>

TokenFails ==
  /\ at = "token" /\ ws = "closed"
  /\ at' = "backoff"
  /\ UNCHANGED <<conn, maps, backoff, buffered, tasks, log, broken, rejected>>

\* The sleep is over; the next one is longer.
BackoffOver ==
  /\ at = "backoff"
  /\ at' = "connect"
  /\ backoff' = IF 2 * backoff < MaxBackoff THEN 2 * backoff ELSE MaxBackoff
  /\ UNCHANGED <<conn, maps, buffered, tasks, log, broken, rejected>>

-----------------------------------------------------------------------------
(***************************************************************************)
(* Authentication: read until the acknowledgement, put other messages      *)
(* aside.  At a closed connection or after _AUTH_TIMEOUT (which may pass   *)
(* at any time) the client disconnects: it forgets session and maps and    *)
(* then awaits the close.                                                  *)
(***************************************************************************)
Reading(kind) == inbox # <<>> /\ Head(inbox).kind = kind /\ inbox' = Tail(inbox)

AuthBad ==
  /\ at = "auth"
  /\ Reading("bad")
  /\ UNCHANGED <<at, conn, maps, backoff, buffered, tasks, arrived, handled, broken, rejected>>

\* Mutant of AuthBuffer: the latest message is put first.
AuthBufferFirst ==
  /\ at = "auth"
  /\ Reading("data")
  /\ buffered' = <<Head(inbox)>> \o buffered
  /\ UNCHANGED <<at, conn, maps, backoff, tasks, arrived, handled, broken, rejected>>

AuthBuffer ==
  /\ at = "auth"
  /\ Reading("data")
  /\ buffered' = Append(buffered, Head(inbox))
  /\ UNCHANGED <<at, conn, maps, backoff, tasks, arrived, handled, broken, rejected>>

AuthAck ==
  /\ at = "auth"
  /\ Reading("ack")
  /\ at' = "drain"
  /\ session' \in {Token, EmptyToken} /\ auth' = "authenticated"
  /\ maps' = Head(inbox).maps
  /\ rejected' = 0
  /\ UNCHANGED <<connected, ws, backoff, buffered, tasks, arrived, handled, broken>>

(***************************************************************************)
(* A message that raises: the connection stays open, and _connected and    *)
(* what was read of the message stay as they are.  Malformed lists raise   *)
(* with the token set and none or some of the maps, a token that is null   *)
(* with all of them.                                                       *)
(***************************************************************************)
AuthJunk ==
  /\ at = "auth"
  /\ Reading("junk")
  /\ at' = "backoff" /\ buffered' = <<>> /\ broken' = TRUE
  /\ UNCHANGED <<conn, maps, backoff, tasks, arrived, handled, rejected>>

\* Mutant of AuthBroken: the malformed lists are skipped and the session begins.
BrokenAccepted ==
  /\ at = "auth"
  /\ Reading("badack")
  /\ at' = "drain" /\ session' = Token /\ auth' = "authenticated"
  /\ UNCHANGED <<connected, ws, maps, backoff, buffered, tasks, arrived, handled, broken, rejected>>

AuthBroken ==
  /\ at = "auth"
  /\ Reading("badack")
  /\ at' = "backoff" /\ buffered' = <<>> /\ broken' = TRUE
  /\ auth' = "authenticated"
  /\ \/ session' = Token /\ maps' \in MapChoices \union {maps}
     \/ session' = NoToken /\ maps' \in MapChoices
  /\ UNCHANGED <<connected, ws, backoff, tasks, arrived, handled, rejected>>

Forget == connected' = FALSE /\ auth' = "pending" /\ session' = NoToken /\ maps' = NoMaps

AuthFails ==
  /\ at = "auth"
  /\ at' = "closing"
  /\ Forget
  /\ buffered' = <<>>
  /\ rejected' = IF rejected < 2 THEN rejected + 1 ELSE 2
  /\ UNCHANGED <<ws, backoff, tasks, log, broken>>

\* Mutant of Closed: the connection is not closed.
NotClosed ==
  /\ at = "closing" /\ at' = "backoff"
  /\ UNCHANGED <<conn, maps, backoff, buffered, tasks, log, broken, rejected>>

Closed ==
  /\ at = "closing"
  /\ at' = "backoff" /\ ws' = "none"
  /\ UNCHANGED <<connected, auth, session, maps, backoff, buffered, tasks, log, broken, rejected>>

-----------------------------------------------------------------------------
(***************************************************************************)
(* After the acknowledgement: the buffered messages, then the callback,    *)
(* then the session.  A device_map replaces the maps when it is handled.   *)
(***************************************************************************)
Handle(msg) ==
  /\ handled' = IF msg.n = 0 THEN handled ELSE Append(handled, msg.n)
  /\ maps' = IF msg.kind = "data" /\ msg.maps # NoMaps THEN msg.maps ELSE maps

HandleBuffered ==
  /\ at = "drain" /\ buffered # <<>>
  /\ Handle(Head(buffered))
  /\ buffered' = Tail(buffered)
  /\ UNCHANGED <<at, conn, backoff, tasks, inbox, arrived, broken, rejected>>

CallbackBegins ==
  /\ at = "drain" /\ buffered = <<>> /\ session = Token
  /\ at' = "callback"
  /\ UNCHANGED <<conn, maps, backoff, buffered, tasks, log, broken, rejected>>

\* An empty token skips the callback.
CallbackEnds ==
  /\ at = "callback" \/ (at = "drain" /\ buffered = <<>> /\ session = EmptyToken)
  /\ at' = "session" /\ hb' = "sleep" /\ rx' = "recv"
  /\ UNCHANGED <<conn, maps, backoff, buffered, log, broken, rejected>>

-----------------------------------------------------------------------------
(***************************************************************************)
(* The session.  The receive loop ends with the connection and then clears *)
(* _connected only; the heartbeat loop notices that after its sleep, and   *)
(* the TaskGroup waits for both.                                           *)
(***************************************************************************)
RxBad ==
  /\ rx = "recv"
  /\ Reading("bad")
  /\ UNCHANGED <<at, conn, maps, backoff, buffered, tasks, arrived, handled, broken, rejected>>

RxHandle ==
  /\ rx = "recv"
  /\ Reading("ack") \/ Reading("data") \/ Reading("badack")
  /\ Handle(Head(inbox))
  /\ rx' = "handle"
  /\ UNCHANGED <<at, conn, backoff, buffered, hb, arrived, broken, rejected>>

\* Neither dict nor list: the TaskGroup cancels the heartbeat and raises.
RxJunk ==
  /\ rx = "recv"
  /\ Reading("junk")
  /\ at' = "backoff" /\ hb' = "off" /\ rx' = "off" /\ broken' = TRUE
  /\ UNCHANGED <<conn, maps, backoff, buffered, arrived, handled, rejected>>

RxHandled ==
  /\ rx = "handle"
  /\ rx' = "recv"
  /\ UNCHANGED <<at, conn, maps, backoff, buffered, hb, log, broken, rejected>>

RxClosed ==
  /\ rx = "recv" /\ ws = "closed" /\ inbox = <<>>
  /\ rx' = "done" /\ connected' = FALSE
  /\ UNCHANGED <<at, ws, auth, session, maps, backoff, buffered, hb, log, broken, rejected>>

HbWakes ==
  /\ hb = "sleep"
  /\ hb' = IF ~connected THEN "done"
           ELSE IF auth = "authenticated" THEN "send" ELSE "sleep"
  /\ UNCHANGED <<at, conn, maps, backoff, buffered, rx, log, broken, rejected>>

\* Mutants of HbSent: nothing is sent; a heartbeat that was sent is the last.
HbSilent ==
  /\ hb = "send"
  /\ hb' = IF Usable /\ connected THEN "sleep" ELSE "done"
  /\ UNCHANGED <<at, conn, maps, backoff, buffered, rx, log, broken, rejected>>

HbOnce ==
  /\ hb = "send" /\ hb' = "done"
  /\ Transmit
  /\ UNCHANGED <<at, connected, auth, session, maps, backoff, buffered, rx, log, broken, rejected>>

HbSent ==
  /\ hb = "send"
  /\ hb' = IF Usable /\ connected THEN "sleep" ELSE "done"
  /\ Transmit
  /\ UNCHANGED <<at, connected, auth, session, maps, backoff, buffered, rx, log, broken, rejected>>

\* Mutant of SessionEnds: the TaskGroup does not wait for the heartbeat.
SessionEndsEarly ==
  /\ at = "session" /\ rx = "done"
  /\ at' = "backoff" /\ rx' = "off"
  /\ UNCHANGED <<conn, maps, backoff, buffered, hb, log, broken, rejected>>

SessionEnds ==
  /\ at = "session" /\ hb = "done" /\ rx = "done"
  /\ at' = "backoff" /\ hb' = "off" /\ rx' = "off"
  /\ UNCHANGED <<conn, maps, backoff, buffered, log, broken, rejected>>

-----------------------------------------------------------------------------
(***************************************************************************)
(* stop(): every await of the task lets the cancellation through, so the   *)
(* task ends; then the client disconnects.                                 *)
(***************************************************************************)
Stop ==
  /\ at # "off"
  /\ at' = "off" /\ hb' = "off" /\ rx' = "off"
  /\ Forget /\ ws' = "none" /\ buffered' = <<>>
  /\ UNCHANGED <<backoff, log, broken, rejected>>

Stopped == at = "off" /\ UNCHANGED wssVars

-----------------------------------------------------------------------------
\* The Server and the network: it sends what it likes while the connection is
\* open, closes it or vanishes; the kernel gives up on data never acknowledged.
ServerSends ==
  /\ ws = "open" /\ Len(inbox) < MaxInbox
  /\ \/ \E m \in MapChoices : inbox' = Append(inbox, Ack(m)) /\ UNCHANGED arrived
     \/ \E k \in {"bad", "junk", "badack"} :
          inbox' = Append(inbox, Other(k)) /\ UNCHANGED arrived
     \/ /\ arrived < MaxData
        /\ arrived' = arrived + 1
        /\ \E m \in MapChoices \union {NoMaps} :
             inbox' = Append(inbox, Data(arrived + 1, m))
  /\ UNCHANGED <<at, conn, maps, backoff, buffered, tasks, handled, broken, rejected>>

ServerLeaves ==
  /\ ws = "open"
  /\ ws' \in {"closed", "half"}
  /\ UNCHANGED <<at, connected, auth, session, maps, backoff, buffered, tasks, log, broken, rejected>>

KernelGivesUp ==
  /\ ws = "unacked"
  /\ ws' = "closed"
  /\ UNCHANGED <<at, connected, auth, session, maps, backoff, buffered, tasks, log, broken, rejected>>

-----------------------------------------------------------------------------
Connecting == ConnectOk \/ ConnectFails \/ TokenSent \/ TokenFails \/ BackoffOver
Authenticating ==
  AuthBad \/ AuthBuffer \/ AuthAck \/ AuthJunk \/ AuthBroken \/ AuthFails \/ Closed
AfterAck == HandleBuffered \/ CallbackBegins \/ CallbackEnds
Receiving == RxBad \/ RxHandle \/ RxJunk \/ RxHandled \/ RxClosed
Beating == HbWakes \/ HbSent

Next ==
  \/ Connecting \/ Authenticating \/ AfterAck \/ Receiving \/ Beating
  \/ SessionEnds \/ Stop \/ Stopped \/ ServerSends \/ ServerLeaves \/ KernelGivesUp

Spec == Init /\ [][Next]_wssVars

(***************************************************************************)
(* A task that can run does run: calls return, sleeps and deadlines end,   *)
(* a closed connection is noticed, and the kernel does not retransmit for  *)
(* ever.  Nothing is assumed of the Server, nor that the callback returns, *)
(* which may wait for ever for a killed ffmpeg (FfmpegRunner).             *)
(***************************************************************************)
FairSpec ==
  /\ Spec
  /\ WF_wssVars(Connecting) /\ WF_wssVars(Authenticating)
  /\ WF_wssVars(at = "drain" /\ AfterAck)
  /\ WF_wssVars(AuthFails) /\ WF_wssVars(Receiving) /\ WF_wssVars(RxClosed)
  /\ WF_wssVars(Beating) /\ WF_wssVars(SessionEnds) /\ WF_wssVars(KernelGivesUp)

-----------------------------------------------------------------------------
Messages ==
  {Ack(m) : m \in MapChoices} \union {Other(k) : k \in {"bad", "junk", "badack"}}
    \union {Data(n, m) : n \in 1 .. MaxData, m \in MapChoices \union {NoMaps}}

TypeOK ==
  /\ at \in {"connect", "token", "auth", "closing", "drain", "callback",
             "session", "backoff", "off"}
  /\ connected \in BOOLEAN /\ broken \in BOOLEAN
  /\ ws \in {"none", "open", "half", "unacked", "closed"}
  /\ auth \in {"pending", "authenticated"}
  /\ session \in {Token, EmptyToken, NoToken}
  /\ maps \in MapChoices \union {NoMaps}
  /\ backoff \in InitialBackoff .. MaxBackoff
  /\ buffered \in Seq(Messages) /\ inbox \in Seq(Messages)
  /\ hb \in {"off", "sleep", "send", "done"}
  /\ rx \in {"off", "recv", "handle", "done"}
  /\ at = "session" <=> rx # "off"
  /\ hb # "off" <=> rx # "off"
  /\ arrived \in 0 .. MaxData /\ handled \in Seq(1 .. MaxData)
  /\ rejected \in 0 .. 2

(***************************************************************************)
(* Every well-formed message that arrived on the present connection has    *)
(* been handled, is put aside or waits to be read, once each and in the    *)
(* order of arrival: buffering during authentication loses, repeats and    *)
(* overtakes nothing (wss_client.py:283-325, 367-394).                     *)
(***************************************************************************)
InSequence(s, first, last) ==
  /\ {s[k].n : k \in DOMAIN s} \ {0} = first .. last
  /\ \A j, k \in DOMAIN s : j < k /\ s[j].n # 0 /\ s[k].n # 0 => s[j].n < s[k].n

InOrder ==
  at \in {"auth", "drain", "callback", "session"} =>
    /\ handled = [k \in 1 .. Len(handled) |-> k]
    /\ InSequence(buffered \o inbox, Len(handled) + 1, arrived)

(***************************************************************************)
(* The identity is that of the present connection: token and status of an  *)
(* earlier one, which outlive its loss, are gone before anything is read   *)
(* on the next, and from the acknowledgement until the connection is given *)
(* up the client is authenticated with the token it was sent, so that      *)
(* neither restart nor heartbeats are withheld (wss_client.py:255-256,     *)
(* 290-291, 312, 341, 396).                                                *)
(***************************************************************************)
OwnIdentity ==
  /\ at \in {"token", "auth"} => session = NoToken /\ auth = "pending"
  /\ at \in {"drain", "callback", "session"} => session # NoToken /\ auth = "authenticated"

(***************************************************************************)
(* Each task of a session ends only once the connection is closed: neither *)
(* waits for ever on a live connection for the other, and a peer that is   *)
(* there hears heartbeats (wss_client.py:338-361, 373-396).                *)
(***************************************************************************)
TasksEndClosed ==
  hb = "done" \/ rx = "done" => ws = "closed"

(***************************************************************************)
(* The client never gives up and never sits on a dead session: unless the  *)
(* callback never returns, it again and again either tries to connect or   *)
(* has a session whose connection is open.  When the peer has vanished     *)
(* only the heartbeats get it out of the session (wss_client.py:165-204,   *)
(* 223, 333-396).                                                          *)
(***************************************************************************)
KeepsTrying ==
  <>[](at # "off") =>
    \/ []<>(at = "connect" \/ (at = "session" /\ ws = "open"))
    \/ <>[](at = "callback")

(***************************************************************************)
(* A session on an open connection never stays without heartbeats, which   *)
(* one failed send would stop for good (wss_client.py:338-361).            *)
(***************************************************************************)
HeartbeatsGoOn ==
  <>[](at = "session" /\ ws = "open") => []<>(hb = "send")

(***************************************************************************)
(* The client connects again without having closed a connection that is    *)
(* still open only after a message that raised: every other way back to    *)
(* the loop has closed it or found it closed (wss_client.py:174-200, 220). *)
(***************************************************************************)
LeavesNoneOpen ==
  [][ConnectOk => ws \in {"none", "closed"} \/ broken]_wssVars

(***************************************************************************)
(* The client is a link as the rest of the node knows it (LinkProtocol):   *)
(* a session begins with the maps of a whole acknowledgement, no message   *)
(* is handled between sessions or while the callback runs, and the maps    *)
(* change only by messages and failed attempts (wss_client.py:172-188,     *)
(* 289-318).                                                               *)
(***************************************************************************)
Link ==
  CASE at = "drain" -> "acked"
    [] at = "callback" -> "restart"
    [] at = "session" -> "up"
    [] at = "off" -> "off"
    [] OTHER -> "down"

Protocol == INSTANCE LinkProtocol
  WITH link <- Link, AckMaps <- MapChoices, Maps <- MapChoices \union {NoMaps}

ImplementsLink == Protocol!Spec

-----------------------------------------------------------------------------
\* What the documents say of the client and the code does not do.

(***************************************************************************)
(* Between connections neither session token nor device maps remain        *)
(* (specs/node-identity/spec.md:40-45 of the change                        *)
(* 2026-07-09-align-wss-with-server-protocol).                             *)
(***************************************************************************)
SessionClearedOnDisconnect ==
  at \in {"backoff", "connect"} => session = NoToken /\ maps = NoMaps

(***************************************************************************)
(* Rejected authentications are retried with exponential backoff           *)
(* (specs/node-identity/spec.md:29 of the same change): after the second   *)
(* rejection in a row the wait is longer than the first.                   *)
(***************************************************************************)
RejectionsBackOff ==
  at = "backoff" /\ rejected = 2 => backoff > InitialBackoff
=============================================================================
