------------------------------ MODULE Session ------------------------------
(***************************************************************************)
(* The Engine.IO sessions of one server process: engineio::Server, its     *)
(* Socket objects and their transports, as driven by HTTP requests,        *)
(* websocket packets and disconnections.  Everything runs in the one       *)
(* EventLoop thread, so every handler is one atomic step.                  *)
(*                                                                         *)
(* Packets are abstracted to their creation order: the n-th packet that    *)
(* Socket::CreateAndSendPacket makes for a session is the number n.  The   *)
(* "pong probe" of an upgrade bypasses write_buffer_ and is not numbered.  *)
(*                                                                         *)
(* Socket::state_ is set to kStateOpening by the constructor and only      *)
(* changes inside ForceClose, which requires kStateOpen: it never changes, *)
(* so ForceClose does nothing and every "state_ != kStateClose" holds.     *)
(***************************************************************************)
EXTENDS Integers, Sequences, FiniteSets

CONSTANTS
  Sids,        \* session ids GenerateBase64ID can return
  Sockets,     \* Socket objects, each created at most once
  Trans,       \* transport objects, each created at most once
  Conns,       \* accepted TCP connections, each with its HTTPHandler
  MaxPackets,  \* bound: packets created per session
  Keeps,       \* does the application keep the SocketPtr it is handed?
  NoSid, NoSocket, NoTran, NoConn

ASSUME NoneAssumption ==
  /\ NoSid \notin Sids /\ NoSocket \notin Sockets
  /\ NoTran \notin Trans /\ NoConn \notin Conns
ASSUME BoundAssumption == MaxPackets \in Nat \ {0} /\ Keeps \in BOOLEAN

VARIABLES
  status,              \* "running", "terminated" (uncaught exception), "undefined"
  sidNow,              \* what GenerateBase64ID returns in the current second
  sockets,             \* Server::sockets_
  held,                \* SocketPtrs the application keeps
  sidOf,               \* Socket::sid_, NoSid before the object exists
  transport,           \* Socket::transport_
  upgradingTransport,  \* Socket::upgrading_transport_
  upgraded,            \* Socket::upgraded_
  made,                \* packets created so far
  buffer,              \* Socket::write_buffer_
  wire,                \* packets written to a connection that was open
  kind,                \* class of the transport object, "none" before it exists
  binary,              \* BaseTransport::is_support_binary_
  bound,               \* are its flush and close callbacks set (SetTransport)?
  onPacket,            \* which Socket method its packet callback is
  writable,            \* writable_
  parked,              \* PollingTransport::req_ != NULL
  resp,                \* the connection PollingTransport::resp_ answers on
  wsConn,              \* WebsocketHandler::conn_
  proto,               \* what the connection speaks; who its callbacks are
  pending              \* HTTP requests on the connection minus responses

serverVars == <<sidNow, sockets, held>>
identVars  == <<sidOf, transport, upgradingTransport, upgraded>>
queueVars  == <<made, buffer, wire>>
tranVars   == <<kind, binary, bound, onPacket>>
pollVars   == <<writable, parked, resp>>
connVars   == <<wsConn, proto, pending>>
vars == <<status, serverVars, identVars, queueVars, tranVars, pollVars, connVars>>

PollingKinds == {"xhr", "jsonp"}
Kinds == PollingKinds \cup {"websocket"}
\* BaseTransport::GetName
NameOf(k) == IF k \in PollingKinds THEN "polling" ELSE "websocket"

\* A Socket exists while sockets_ or the application has a pointer to it, and
\* a transport while such a Socket has one; nothing else owns either.
Live(s) == s \in held \/ \E i \in Sids : sockets[i] = s
Owns(s, t) == Live(s) /\ t \in {transport[s], upgradingTransport[s]}
TranLive(t) == \E s \in Sockets : Owns(s, t)

Fresh(s) == sidOf[s] = NoSid
FreshTran(t) == kind[t] = "none"

\* A client that does not pipeline sends a request only when it has had the
\* response to its previous one.
Ready(c) == status = "running" /\ proto[c] = "http" /\ pending[c] = 0

Init ==
  /\ status = "running"
  /\ sidNow \in Sids
  /\ sockets = [i \in Sids |-> NoSocket]
  /\ held = {}
  /\ sidOf = [s \in Sockets |-> NoSid]
  /\ transport = [s \in Sockets |-> NoTran]
  /\ upgradingTransport = [s \in Sockets |-> NoTran]
  /\ upgraded = [s \in Sockets |-> FALSE]
  /\ made = [s \in Sockets |-> 0]
  /\ buffer = [s \in Sockets |-> <<>>]
  /\ wire = [s \in Sockets |-> <<>>]
  /\ kind = [t \in Trans |-> "none"]
  /\ binary = [t \in Trans |-> FALSE]
  /\ bound = [t \in Trans |-> FALSE]
  /\ onPacket = [t \in Trans |-> "none"]
  /\ writable = [t \in Trans |-> FALSE]
  /\ parked = [t \in Trans |-> FALSE]
  /\ resp = [t \in Trans |-> NoConn]
  /\ wsConn = [t \in Trans |-> NoConn]
  /\ proto = [c \in Conns |-> "http"]
  /\ pending = [c \in Conns |-> 0]

---------------------------------------------------------------------------
(* Sending.                                                                *)

\* The connection a transport writes to.
Out(t) == IF kind[t] = "websocket" THEN wsConn[t] ELSE resp[t]

\* TcpConnection::send writes only while the connection is kConnected.
Sends(c) == c # NoConn /\ proto[c] \in {"http", "ws"}

\* Faults an encoder could have: it skips the first packet, or counts the
\* leading zero byte of the binary form as one.
SkipsFirst(k, bin, ps) == IF k = "jsonp" THEN <<>> ELSE Tail(ps)
LeadingZero(k, bin, ps) == IF k = "xhr" /\ bin THEN <<0>> \o ps ELSE ps

\* What SendPackets puts in the bytes for ps.  EncodePayloadAsBinary assigns
\* its result afresh for each packet, so a binary payload holds the last one
\* only; PollingJsonpTransport::DoWrite is empty.
Encoded(k, bin, ps) ==
  CASE k = "jsonp" -> <<>>
    [] k = "xhr" /\ bin -> <<ps[Len(ps)]>>
    [] OTHER -> ps

\* Faults a flush could have: it waits for a second packet, the buffer is not
\* cleared, the transport stays writable, the answered poll stays parked.
FlushesPairs(w, ps) == w /\ Len(ps) > 1
UnclearedBuffer(flushing, ps) == ps
AlwaysWritable(k) == TRUE
NeverCleanedUp(k) == TRUE

\* The condition of Flush; write_buffer_, writable_ and req_ after it.
CanFlush(w, ps) == w /\ ps # <<>>
Remaining(flushing, ps) == IF flushing THEN <<>> ELSE ps
WritableAfter(k) == k = "websocket"
ParkedAfter(k) == k = "jsonp"

\* Socket::Flush when write_buffer_ is ps, and transport_ writes to c with
\* writable_ = w and req_ set iff p.  `new` counts the HTTP requests that
\* this step received on c.
Flush(s, ps, c, w, p, new) ==
  LET t == transport[s]
      flushing == CanFlush(w, ps)
      answers == flushing /\ kind[t] = "xhr" /\ Sends(c)
  IN  /\ buffer' = [buffer EXCEPT ![s] = Remaining(flushing, ps)]
      /\ wire' = [wire EXCEPT ![s] =
           IF flushing /\ Sends(c) THEN @ \o Encoded(kind[t], binary[t], ps) ELSE @]
      /\ writable' = [writable EXCEPT ![t] = IF flushing THEN WritableAfter(kind[t]) ELSE w]
      /\ parked' = [parked EXCEPT ![t] = p /\ (flushing => ParkedAfter(kind[t]))]
      /\ pending' = [x \in Conns |->
           IF x = c THEN pending[x] + new - (IF answers THEN 1 ELSE 0) ELSE pending[x]]

\* Socket::CreateAndSendPacket: a pong, a noop or an application message.
CreateAndSendPacket(s) ==
  /\ made[s] < MaxPackets
  /\ made' = [made EXCEPT ![s] = @ + 1]
  /\ LET t == transport[s]
     IN  Flush(s, Append(buffer[s], made[s] + 1), Out(t), writable[t], parked[t], 0)

---------------------------------------------------------------------------
(* The handshake: a GET without a sid.                                     *)

\* A fault: only the packet callback is set, as MaybeUpgrade does.
SetPacketCallbackOnly(t) ==
  /\ bound' = bound
  /\ onPacket' = [onPacket EXCEPT ![t] = "OnPacket"]

\* Socket::SetTransport
SetTransport(t) ==
  /\ bound' = [bound EXCEPT ![t] = TRUE]
  /\ onPacket' = [onPacket EXCEPT ![t] = "OnPacket"]

\* The second counter advances: GenerateBase64ID seeds rand() with time(NULL)
\* for every byte, so the id depends on the second alone.
Tick ==
  /\ status = "running"
  /\ sidNow' \in Sids
  /\ UNCHANGED <<status, sockets, held, identVars, queueVars, tranVars, pollVars, connVars>>

\* Server::Handshake up to socket->HandleRequest: a transport of class k and
\* a Socket around it, entered in sockets_ under the id of this second.
CreateSocket(s, t) ==
  /\ sidOf' = [sidOf EXCEPT ![s] = sidNow]
  /\ transport' = [transport EXCEPT ![s] = t]
  /\ sockets' = [sockets EXCEPT ![sidNow] = s]
  /\ held' = IF Keeps THEN held \cup {s} ELSE held
  /\ made' = [made EXCEPT ![s] = 1]
  /\ UNCHANGED <<sidNow, upgraded>>

\* Handshake over polling: the request is parked and the open packet answers it.
HandshakePolling(c, s, t, k, b) ==
  /\ Ready(c) /\ Fresh(s) /\ FreshTran(t)
  /\ CreateSocket(s, t)
  /\ kind' = [kind EXCEPT ![t] = k]
  /\ binary' = [binary EXCEPT ![t] = b]
  /\ SetTransport(t)
  /\ resp' = [resp EXCEPT ![t] = c]
  /\ wire' = [wire EXCEPT ![s] = IF k = "xhr" THEN <<1>> ELSE <<>>]
  /\ writable' = [writable EXCEPT ![t] = WritableAfter(k)]
  /\ parked' = [parked EXCEPT ![t] = ParkedAfter(k)]
  /\ pending' = [pending EXCEPT ![c] = IF k = "xhr" THEN @ ELSE @ + 1]
  /\ UNCHANGED <<status, upgradingTransport, buffer, wsConn, proto>>

\* Handshake with transport=websocket that is not an upgrade: the transport
\* answers 400 and never becomes writable, yet the session is registered.
HandshakeWebsocket(c, s, t) ==
  /\ Ready(c) /\ Fresh(s) /\ FreshTran(t)
  /\ CreateSocket(s, t)
  /\ kind' = [kind EXCEPT ![t] = "websocket"]
  /\ binary' = [binary EXCEPT ![t] = TRUE]
  /\ SetTransport(t)
  /\ buffer' = [buffer EXCEPT ![s] = <<1>>]
  /\ UNCHANGED <<status, upgradingTransport, wire, pollVars, connVars>>

\* A fault: the transport forgets to become writable.
StaysUnwritable(accepted) == FALSE

\* writable_ of a websocket transport after HandleRequest.
WritableOnceAccepted(accepted) == accepted

\* The transport u that MaybeUpgrade creates takes the place of the previous
\* upgrading_transport_.  HandleUpgrade either accepts, and connection c now
\* belongs to u, or refuses (method, key or version) and the request is
\* answered 400; a request with transport=polling that is not a GET also ends
\* in an answer.  Only the packet callback of u is set.
Attach(c, s, u, accepted, k) ==
  /\ accepted => k = "websocket"
  /\ upgradingTransport' = [upgradingTransport EXCEPT ![s] = u]
  /\ writable' = [writable EXCEPT ![u] = WritableOnceAccepted(accepted)]
  /\ wsConn' = [wsConn EXCEPT ![u] = IF accepted THEN c ELSE NoConn]
  /\ resp' = [resp EXCEPT ![u] = IF k \in PollingKinds THEN c ELSE NoConn]
  /\ proto' = [proto EXCEPT ![c] = IF accepted THEN "ws" ELSE @]
  /\ UNCHANGED <<parked, pending>>

\* Handshake that is an upgrade to websocket: Socket::HandleRequest calls
\* MaybeUpgrade, so the connection goes to a second transport and the first
\* one, which is transport_, never becomes writable.
HandshakeUpgrade(c, s, t, u, accepted) ==
  /\ Ready(c) /\ Fresh(s) /\ FreshTran(t) /\ FreshTran(u) /\ t # u
  /\ CreateSocket(s, t)
  /\ kind' = [kind EXCEPT ![t] = "websocket", ![u] = "websocket"]
  /\ binary' = [binary EXCEPT ![t] = TRUE]
  /\ bound' = [bound EXCEPT ![t] = TRUE]
  /\ onPacket' = [onPacket EXCEPT ![t] = "OnPacket", ![u] = "OnPacketWhenUpgrading"]
  /\ buffer' = [buffer EXCEPT ![s] = <<1>>]
  /\ Attach(c, s, u, accepted, "websocket")
  /\ UNCHANGED <<status, wire>>

---------------------------------------------------------------------------
(* Requests that name a session.                                           *)

\* Server::VerifyRequest for a request with sid i.
Verified(i, name, upgrade) ==
  /\ sockets[i] # NoSocket
  /\ upgrade \/ NameOf(kind[transport[sockets[i]]]) = name

\* PollingTransport::HandlePollRequest, reached through VerifyRequest and
\* Socket::HandleRequest.
HandlePollRequest(c, i) ==
  LET s == sockets[i]
      t == transport[s]
  IN  /\ Ready(c) /\ Verified(i, "polling", FALSE) /\ ~parked[t]
      /\ resp' = [resp EXCEPT ![t] = c]
      /\ status' = IF bound[t] THEN "running" ELSE "terminated"
      /\ Flush(s, buffer[s], c, TRUE, TRUE, 1)
      /\ UNCHANGED <<serverVars, identVars, made, tranVars, wsConn, proto>>

\* Requests answered without a change of state, of which a connection can
\* always send one: those VerifyRequest refuses (unknown transport or sid,
\* handshake that is no GET, wrong transport), a poll or a POST that finds
\* req_ set (500), a method that is neither, a websocket transport asked
\* without an upgrade (400), and a POST that is accepted, as DecodePayload
\* turns its body into no packets (200).
AnswerAtOnce(c) == Ready(c) /\ UNCHANGED vars

\* A request for a path that no application serves, or that is not under the
\* server's prefix, is never answered: its connection waits for ever.
Unanswered(c) ==
  /\ Ready(c)
  /\ pending' = [pending EXCEPT ![c] = @ + 1]
  /\ UNCHANGED <<status, serverVars, identVars, queueVars, tranVars, pollVars, wsConn, proto>>

\* Socket::MaybeUpgrade for a session that exists.
MaybeUpgrade(c, i, u, accepted, k) ==
  /\ Ready(c) /\ FreshTran(u) /\ Verified(i, NameOf(k), TRUE)
  /\ Attach(c, sockets[i], u, accepted, k)
  /\ kind' = [kind EXCEPT ![u] = k]
  /\ onPacket' = [onPacket EXCEPT ![u] = "OnPacketWhenUpgrading"]
  /\ UNCHANGED <<status, serverVars, sidOf, transport, upgraded, queueVars, binary, bound>>

\* A GET with transport=polling that asks for an upgrade (to any protocol):
\* the new polling transport calls its flush callback, which nobody has set;
\* boost::function throws and nothing catches.
UpgradeToPolling(c) ==
  /\ Ready(c)
  /\ status' = "terminated"
  /\ UNCHANGED <<serverVars, identVars, queueVars, tranVars, pollVars, connVars>>

---------------------------------------------------------------------------
(* Websocket packets and closing.                                          *)

\* A packet arrives for transport t.  A text that DecodePacket rejects leaves
\* Packet::type_ uninitialised and OnPacket is called all the same, so it
\* acts as any of the packets below.
Receives(t) ==
  /\ status = "running" /\ wsConn[t] # NoConn
  /\ proto[wsConn[t]] \in {"ws", "closing"}

\* Socket::OnPacket: a ping makes a pong, a message goes to the application's
\* callback, which answers as the README's HandleMessage does.  The other
\* types change nothing, a close packet included (ForceClose is a no-op).
OnPacket(t) ==
  /\ Receives(t) /\ TranLive(t) /\ onPacket[t] = "OnPacket"
  /\ \E s \in Sockets : Owns(s, t) /\ CreateAndSendPacket(s)
  /\ UNCHANGED <<status, serverVars, identVars, tranVars, resp, wsConn, proto>>

\* Socket::OnPacketWhenUpgrading, ping "probe": the pong goes out on the
\* upgrading transport (which stays writable), a noop on the current one.
OnProbe(t) ==
  /\ Receives(t) /\ TranLive(t) /\ onPacket[t] = "OnPacketWhenUpgrading"
  /\ \E s \in Sockets : Owns(s, t) /\ CreateAndSendPacket(s)
  /\ UNCHANGED <<status, serverVars, identVars, tranVars, resp, wsConn, proto>>

\* Socket::OnPacketWhenUpgrading, upgrade: the session moves to the upgrading
\* transport; the old one is destroyed with whatever it has parked, and
\* write_buffer_ is left as it is.
OnUpgrade(t) ==
  /\ Receives(t) /\ onPacket[t] = "OnPacketWhenUpgrading"
  /\ \E s \in Sockets :
       LET u == upgradingTransport[s] IN
       /\ Owns(s, t)
       /\ upgraded' = [upgraded EXCEPT ![s] = TRUE]
       /\ transport' = [transport EXCEPT ![s] = u]
       /\ SetTransport(u)
  /\ UNCHANGED <<status, serverVars, sidOf, upgradingTransport, queueVars, kind, binary,
                 pollVars, connVars>>

\* Socket::OnPacketWhenUpgrading, anything else: the upgrading transport's
\* connection is told to close (TcpConnection::forceClose, queued).
OnUnexpected(t) ==
  /\ Receives(t) /\ onPacket[t] = "OnPacketWhenUpgrading"
  /\ \E s \in Sockets :
       /\ Owns(s, t)
       /\ proto' = [proto EXCEPT ![wsConn[upgradingTransport[s]]] = "closing"]
  /\ UNCHANGED <<status, serverVars, identVars, queueVars, tranVars, pollVars, wsConn, pending>>

\* WebsocketHandler::HandleError: bytes that are no frame have the connection
\* told to close; what arrives before it is closed still counts.
HandleError(t) ==
  /\ Receives(t) /\ TranLive(t)
  /\ proto' = [proto EXCEPT ![wsConn[t]] = "closing"]
  /\ UNCHANGED <<status, serverVars, identVars, queueVars, tranVars, pollVars, wsConn, pending>>

\* A packet or an event on a connection whose callbacks belong to a transport
\* that has been destroyed.
OnDangling(t) ==
  /\ Receives(t) /\ ~TranLive(t)
  /\ status' = "undefined"
  /\ UNCHANGED <<serverVars, identVars, queueVars, tranVars, pollVars, connVars>>

\* WebsocketTransport::OnClose -> Socket::OnClose -> Server::OnSocketClose.  A
\* transport that is still upgrading has no close callback: boost::function
\* throws.  Otherwise the session's sid is erased; if that destroys the
\* Socket, Socket::OnClose goes on to read its close_callback_.
OnClose(t) ==
  \E s \in Sockets :
    /\ Owns(s, t)
    /\ IF bound[t]
       THEN /\ sockets' = [sockets EXCEPT ![sidOf[s]] = NoSocket]
            /\ status' \in {"running"} \cup (IF s \in held THEN {} ELSE {"undefined"})
       ELSE status' = "terminated" /\ UNCHANGED sockets

\* A websocket close frame: the transport closes, the connection does not.
OnCloseMessage(t) ==
  /\ Receives(t) /\ OnClose(t)
  /\ UNCHANGED <<sidNow, held, identVars, queueVars, tranVars, pollVars, connVars>>

\* TcpConnection::handleClose on a connection that speaks websocket: peer
\* closed, or a queued forceClose.
OnDisconnect(t) ==
  /\ Receives(t) /\ OnClose(t)
  /\ proto' = [proto EXCEPT ![wsConn[t]] = "closed"]
  /\ UNCHANGED <<sidNow, held, identVars, queueVars, tranVars, pollVars, wsConn, pending>>

\* The same on a connection that speaks HTTP: HTTPHandler::OnClose has no
\* callback to call, and a poll parked on it stays parked.
OnHttpDisconnect(c) ==
  /\ status = "running" /\ proto[c] = "http"
  /\ proto' = [proto EXCEPT ![c] = "closed"]
  /\ UNCHANGED <<status, serverVars, identVars, queueVars, tranVars, pollVars, wsConn, pending>>

---------------------------------------------------------------------------
(* The application.                                                        *)

\* Socket::SendMessage from the application, in the loop thread.
SendMessage(s) ==
  /\ status = "running" /\ s \in held
  /\ CreateAndSendPacket(s)
  /\ UNCHANGED <<status, serverVars, identVars, tranVars, resp, wsConn, proto>>

\* The application drops its SocketPtr.
Release(s) ==
  /\ status = "running" /\ s \in held
  /\ held' = held \ {s}
  /\ UNCHANGED <<status, sidNow, sockets, identVars, queueVars, tranVars, pollVars, connVars>>

Next ==
  \/ Tick
  \/ \E c \in Conns, s \in Sockets, t \in Trans, k \in PollingKinds, b \in BOOLEAN :
       HandshakePolling(c, s, t, k, b)
  \/ \E c \in Conns, s \in Sockets, t \in Trans : HandshakeWebsocket(c, s, t)
  \/ \E c \in Conns, s \in Sockets, t, u \in Trans, ok \in BOOLEAN :
       HandshakeUpgrade(c, s, t, u, ok)
  \/ \E c \in Conns, i \in Sids : HandlePollRequest(c, i)
  \/ \E c \in Conns : AnswerAtOnce(c)
  \/ \E c \in Conns : Unanswered(c)
  \/ \E c \in Conns, i \in Sids, u \in Trans, ok \in BOOLEAN, k \in Kinds :
       MaybeUpgrade(c, i, u, ok, k)
  \/ \E c \in Conns : UpgradeToPolling(c)
  \/ \E c \in Conns : OnHttpDisconnect(c)
  \/ \E t \in Trans : OnPacket(t)
  \/ \E t \in Trans : OnProbe(t)
  \/ \E t \in Trans : OnUpgrade(t)
  \/ \E t \in Trans : OnUnexpected(t)
  \/ \E t \in Trans : HandleError(t)
  \/ \E t \in Trans : OnDangling(t)
  \/ \E t \in Trans : OnCloseMessage(t)
  \/ \E t \in Trans : OnDisconnect(t)
  \/ \E s \in Sockets : SendMessage(s)
  \/ \E s \in Sockets : Release(s)

Spec == Init /\ [][Next]_vars

---------------------------------------------------------------------------
(* Properties.                                                             *)

TypeOK ==
  /\ status \in {"running", "terminated", "undefined"}
  /\ sidNow \in Sids
  /\ sockets \in [Sids -> Sockets \cup {NoSocket}]
  /\ held \subseteq Sockets
  /\ sidOf \in [Sockets -> Sids \cup {NoSid}]
  /\ transport \in [Sockets -> Trans \cup {NoTran}]
  /\ upgradingTransport \in [Sockets -> Trans \cup {NoTran}]
  /\ upgraded \in [Sockets -> BOOLEAN]
  /\ made \in [Sockets -> 0..MaxPackets]
  /\ buffer \in [Sockets -> Seq(1..MaxPackets)]
  /\ wire \in [Sockets -> Seq(1..MaxPackets)]
  /\ kind \in [Trans -> Kinds \cup {"none"}]
  /\ binary \in [Trans -> BOOLEAN]
  /\ bound \in [Trans -> BOOLEAN]
  /\ onPacket \in [Trans -> {"none", "OnPacket", "OnPacketWhenUpgrading"}]
  /\ writable \in [Trans -> BOOLEAN]
  /\ parked \in [Trans -> BOOLEAN]
  /\ resp \in [Trans -> Conns \cup {NoConn}]
  /\ wsConn \in [Trans -> Conns \cup {NoConn}]
  /\ proto \in [Conns -> {"http", "ws", "closing", "closed"}]
  /\ pending \in [Conns -> Int]

\* Every HTTP request gets at most one response, and nothing but responses to
\* requests is written as HTTP: resp_ keeps its connection after CleanUp and
\* writable_ and req_ are reset in different functions, so a transport that
\* wrote once too often would answer a request nobody made.
AnsweredOnce == \A c \in Conns : pending[c] \in {0, 1}

\* A parked poll is a request the client still waits for, on a connection that
\* still speaks HTTP, and no two transports wait to answer the same one.
ParkedPollIsAwaited ==
  \A t \in Trans : parked[t] =>
    /\ resp[t] # NoConn
    /\ proto[resp[t]] \in {"http", "closed"}
    /\ pending[resp[t]] = 1
    /\ \A u \in Trans : parked[u] /\ resp[u] = resp[t] => u = t

\* An XHR transport is writable exactly while it has a poll to answer.
WritableHasPoll == \A t \in Trans : kind[t] = "xhr" => writable[t] = parked[t]

\* The transport a Socket sends through has all three callbacks set, so that
\* none of its events ends the process with bad_function_call.
CurrentIsBound ==
  \A s \in Sockets : ~Fresh(s) =>
    bound[transport[s]] /\ onPacket[transport[s]] = "OnPacket"

\* Packets are sent in the order they were created and at most once, and what
\* waits in write_buffer_ is exactly the latest ones.
Ordered(n, b, w) ==
  /\ \A k \in DOMAIN b : b[k] = n - Len(b) + k
  /\ \A k \in DOMAIN w : w[k] <= n - Len(b)
  /\ \A j, k \in DOMAIN w : j < k => w[j] < w[k]
InOrder == \A s \in Sockets : Ordered(made[s], buffer[s], wire[s])

\* Nothing is lost as long as connections stay up and no transport packs
\* payloads in the binary form or as JSONP.
Lossy(t) == kind[t] = "jsonp" \/ (kind[t] = "xhr" /\ binary[t])
NoLossWhileConnected ==
  (\A c \in Conns : proto[c] \in {"http", "ws"}) /\ (\A t \in Trans : ~Lossy(t))
    => \A s \in Sockets : Len(wire[s]) + Len(buffer[s]) = made[s]

\* Packets wait in write_buffer_ while the transport could take them only in
\* a session that an upgrade packet moved to its websocket: OnUpgrade does not
\* flush, every other change that makes a transport writable does.
StallsOnlyAfterUpgrade ==
  \A s \in Sockets :
    ~Fresh(s) /\ buffer[s] # <<>> /\ writable[transport[s]] => upgraded[s]

\* A session changes its transport only to a websocket whose handshake was
\* accepted, and never goes back to polling.
SwitchesToWebsocket ==
  [][\A s \in Sockets : ~Fresh(s) /\ transport'[s] # transport[s] =>
       /\ kind[transport'[s]] = "websocket"
       /\ wsConn[transport'[s]] # NoConn
       /\ writable[transport'[s]]]_vars

\* A session can be found by its sid until one of its transports closes.
\* (server.h calls sockets_ "{sid : socket}, for http request to find its
\* sockets".)  Two handshakes in one second share a sid.
FoundBySid ==
  [][\A i \in Sids : sockets[i] # NoSocket /\ sockets'[i] # sockets[i]
       => sockets'[i] = NoSocket]_vars

\* Whatever clients and connections do, every session is an ordered
\* at-most-once channel: no retry of a poll, change of transport or lost
\* connection repeats or reorders what write_buffer_ held.
Channel == INSTANCE Delivery WITH Sessions <- Sockets, out <- wire
ImplementsDelivery == Channel!Spec
=============================================================================
