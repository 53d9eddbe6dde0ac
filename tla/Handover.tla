------------------------------ MODULE Handover ------------------------------
(***************************************************************************)
(* One session together with its client, the engine.io.js that the chat    *)
(* example serves: it polls, probes the websocket, pauses polling and moves *)
(* to the websocket, while both sides send messages.                       *)
(*                                                                         *)
(* The server's steps are the actions of Session.  Between the two are a   *)
(* connection for polls, one for posts and one for the websocket: each is  *)
(* reliable and ordered, and nothing relates the order of two of them.     *)
(* Connections stay up, unless the client closes.                          *)
(***************************************************************************)
EXTENDS Session, SequencesExt

CONSTANTS
  S, I,         \* the session and its sid
  Poll, Web,    \* its polling and its websocket transport
  GetConn, PostConn, WebConn,
  MaxMessages,  \* bound: messages the client sends (a ping counts as one)
  MaxSends      \* bound: messages the server's application sends of itself

ASSUME HandoverAssumption ==
  /\ S \in Sockets /\ I \in Sids /\ {Poll, Web} \subseteq Trans /\ Poll # Web
  /\ {GetConn, PostConn, WebConn} \subseteq Conns
  /\ GetConn # PostConn /\ GetConn # WebConn /\ PostConn # WebConn
  /\ MaxMessages \in Nat /\ MaxSends \in Nat
  /\ MaxPackets >= MaxMessages + MaxSends + 2   \* the open packet and the noop

VARIABLES
  phase,        \* "opening", "open", "pausing", "paused" (moved), "closed"
  polling,      \* Polling.polling: has it a poll outstanding?
  posting,      \* messages in the POST that is outstanding
  unsent,       \* the rest of Socket.writeBuffer
  sent,         \* messages created so far
  received,     \* packets received
  transmitted,  \* messages put into a POST or a frame
  accepted,     \* messages whose POST was answered 200
  pingDue,      \* is pingIntervalTimer set?
  pings,        \* which messages are pings
  handled,      \* messages the server's application was given
  pongs,        \* which packets answer a ping
  sends,        \* messages the server's application sent of itself
  requests,     \* HTTP requests on their way: "get", "post", "upgrade"
  answer,       \* packets on their way as the answer to a poll
  postAnswer,   \* "none", or the answer to a POST on its way
  up, down      \* frames on their way over the websocket

clientVars == <<phase, polling, posting, unsent, sent, received, transmitted, accepted,
                pingDue, pings>>
serverSide == <<handled, pongs, sends>>
netVars    == <<requests, answer, postAnswer, up, down>>
handoverVars == <<vars, clientVars, serverSide, netVars>>

Frame(type, n) == [type |-> type, n |-> n]
Frames(type, ns) == [k \in DOMAIN ns |-> Frame(type, ns[k])]

HandoverInit ==
  /\ Init
  /\ phase = "opening" /\ polling = TRUE
  /\ posting = <<>> /\ unsent = <<>> /\ sent = 0
  /\ received = <<>> /\ transmitted = <<>> /\ accepted = {}
  /\ pingDue = FALSE /\ pings = {}
  /\ handled = <<>> /\ pongs = {} /\ sends = 0
  /\ requests = {"get"} /\ answer = <<>> /\ postAnswer = "none"
  /\ up = <<>> /\ down = <<>>

---------------------------------------------------------------------------
(* The client.                                                             *)

\* Faults of pause: it does not wait for the poll, or for the POST, or its
\* count of what it waits for never comes down to zero.
IgnoresPoll(p, w) == w = <<>>
IgnoresPost(p, w) == ~p
NeverDone(p, w) == FALSE

\* Polling.pause is done at once, or by the last of pollComplete and drain.
MayPause(p, w) == ~p /\ w = <<>>

\* Polling.pause with a poll outstanding iff p, w in a POST and u behind it:
\* once it is done the client moves to the websocket and sends the upgrade
\* packet and its write buffer.
Pause(p, w, u) ==
  /\ polling' = p
  /\ IF MayPause(p, w)
     THEN /\ phase' = "paused"
          /\ posting' = <<>> /\ unsent' = <<>>
          /\ transmitted' = transmitted \o w \o u
          /\ up' = up \o <<Frame("upgrade", 0)>> \o Frames("message", w \o u)
     ELSE /\ phase' = "pausing"
          /\ posting' = w /\ unsent' = u
          /\ UNCHANGED <<transmitted, up>>

\* Socket.flush over polling, when no POST is outstanding, beside the
\* requests in `more`.
Post(u, more) ==
  /\ requests' = requests \cup more \cup (IF u = <<>> THEN {} ELSE {"post"})
  /\ posting' = u /\ unsent' = <<>>
  /\ transmitted' = transmitted \o u

\* Socket.sendPacket: over the websocket, in a POST, or behind what waits.
SendPacket ==
  /\ sent < MaxMessages
  /\ sent' = sent + 1
  /\ \/ /\ phase = "paused"
        /\ up' = Append(up, Frame("message", sent + 1))
        /\ transmitted' = Append(transmitted, sent + 1)
        /\ UNCHANGED <<posting, unsent, requests>>
     \/ /\ phase = "open" /\ posting = <<>>
        /\ Post(Append(unsent, sent + 1), {})
        /\ UNCHANGED up
     \/ /\ phase \in {"opening", "pausing"} \/ (phase = "open" /\ posting # <<>>)
        /\ unsent' = Append(unsent, sent + 1)
        /\ UNCHANGED <<posting, transmitted, requests, up>>
  /\ UNCHANGED <<vars, phase, polling, received, accepted, serverSide,
                 answer, postAnswer, down>>

\* The application sends.
Write == SendPacket /\ UNCHANGED <<pingDue, pings>>

\* The timer of setPing fires.  Only the handshake and a pong set it again.
Ping ==
  /\ pingDue
  /\ SendPacket
  /\ pingDue' = FALSE /\ pings' = pings \cup {sent + 1}

\* Polling.onData: the open packet sets the ping timer, has what waits posted
\* and starts the probe; while open, poll again.
OnPollData ==
  /\ answer # <<>> /\ phase \in {"opening", "open", "pausing"}
  /\ received' = received \o answer
  /\ answer' = <<>>
  /\ pingDue' = (pingDue \/ phase = "opening" \/ ToSet(answer) \cap pongs # {})
  /\ \/ /\ phase = "pausing"
        /\ Pause(FALSE, posting, unsent)
        /\ UNCHANGED requests
     \/ /\ phase = "opening"
        /\ phase' = "open"
        /\ Post(unsent, {"get", "upgrade"})
        /\ UNCHANGED <<polling, up>>
     \/ /\ phase = "open"
        /\ requests' = requests \cup {"get"}
        /\ UNCHANGED <<phase, polling, posting, unsent, transmitted, up>>
  /\ UNCHANGED <<vars, sent, accepted, pings, serverSide, postAnswer, down>>

\* The POST is answered 200: drain, then flush or go on pausing.
OnPostOk ==
  /\ postAnswer = "ok" /\ phase \in {"open", "pausing"}
  /\ postAnswer' = "none"
  /\ accepted' = accepted \cup ToSet(posting)
  /\ \/ /\ phase = "pausing"
        /\ Pause(polling, <<>>, unsent)
        /\ UNCHANGED requests
     \/ /\ phase = "open"
        /\ Post(unsent, {})
        /\ UNCHANGED <<phase, polling, up>>
  /\ UNCHANGED <<vars, sent, received, pingDue, pings, serverSide, answer, down>>

\* Socket.onClose: the polling transport, while it is open, posts a close
\* packet; the websocket, also one that is being probed, is closed.
Close ==
  /\ phase' = "closed" /\ posting' = <<>> /\ unsent' = <<>> /\ pingDue' = FALSE
  /\ requests' = IF phase = "open" THEN requests \cup {"post"} ELSE requests
  /\ up' = Append(up, Frame("close", 0))
  /\ UNCHANGED <<vars, polling, sent, received, transmitted, accepted, pings, serverSide,
                 answer, down>>

\* The POST is answered 500: "transport error".
OnPostError ==
  /\ postAnswer = "error" /\ phase \in {"open", "pausing"}
  /\ postAnswer' = "none"
  /\ Close

\* The timer of onHeartbeat fires, in whatever phase: it is set by a ping and
\* by each packet that comes after the open packet.
PingTimeout ==
  /\ phase \in {"open", "pausing", "paused"}
  /\ pings # {} \/ Len(received) > 1
  /\ Close
  /\ UNCHANGED postAnswer

\* The websocket opens, a probe's pong arrives, or a packet.
OnFrame ==
  /\ down # <<>> /\ phase # "closed"
  /\ down' = Tail(down)
  /\ \/ /\ Head(down).type = "open"
        /\ up' = Append(up, Frame("probe", 0))
        /\ UNCHANGED <<phase, polling, posting, unsent, received, transmitted, pingDue>>
     \/ /\ Head(down).type = "pong"
        /\ Pause(polling, posting, unsent)
        /\ UNCHANGED <<received, pingDue>>
     \/ /\ Head(down).type = "packet"
        /\ received' = Append(received, Head(down).n)
        /\ pingDue' = (pingDue \/ Head(down).n \in pongs)
        /\ UNCHANGED <<phase, polling, posting, unsent, transmitted, up>>
  /\ UNCHANGED <<vars, sent, accepted, pings, serverSide, requests, answer, postAnswer>>

---------------------------------------------------------------------------
(* The server: the actions of Session, fed by the network.                 *)

\* What this step wrote goes back over the connection of the transport in
\* use, after the frames that bypass the write buffer.
Sent == SubSeq(wire'[S], Len(wire[S]) + 1, Len(wire'[S]))
Reply(first) ==
  /\ answer' = IF transport[S] = Web THEN answer ELSE answer \o Sent
  /\ down' = down \o first \o (IF transport[S] = Web THEN Frames("packet", Sent) ELSE <<>>)

\* The first GET.
HandshakeArrives(binaryOk) ==
  /\ "get" \in requests /\ Fresh(S)
  /\ HandshakePolling(GetConn, S, Poll, "xhr", binaryOk)
  /\ requests' = requests \ {"get"}
  /\ Reply(<<>>)
  /\ UNCHANGED <<clientVars, serverSide, postAnswer, up>>

PollArrives ==
  /\ "get" \in requests /\ ~Fresh(S)
  /\ HandlePollRequest(GetConn, I)
  /\ requests' = requests \ {"get"}
  /\ Reply(<<>>)
  /\ UNCHANGED <<clientVars, serverSide, postAnswer, up>>

\* PollingTransport::HandleDataRequest: refused while a poll is parked,
\* otherwise OnData, which decodes no packet, and 200.
PostArrives ==
  /\ "post" \in requests
  /\ AnswerAtOnce(PostConn)
  /\ requests' = requests \ {"post"}
  /\ postAnswer' = IF parked[Poll] THEN "error" ELSE "ok"
  /\ UNCHANGED <<clientVars, serverSide, answer, up, down>>

UpgradeArrives ==
  /\ "upgrade" \in requests
  /\ MaybeUpgrade(WebConn, I, Web, TRUE, "websocket")
  /\ requests' = requests \ {"upgrade"}
  /\ down' = Append(down, Frame("open", 0))
  /\ UNCHANGED <<clientVars, serverSide, answer, postAnswer, up>>

ProbeArrives ==
  /\ up # <<>> /\ Head(up).type = "probe"
  /\ OnProbe(Web)
  /\ up' = Tail(up)
  /\ Reply(<<Frame("pong", 0)>>)
  /\ UNCHANGED <<clientVars, serverSide, requests, postAnswer>>

UpgradePacketArrives ==
  /\ up # <<>> /\ Head(up).type = "upgrade"
  /\ OnUpgrade(Web)
  /\ up' = Tail(up)
  /\ UNCHANGED <<clientVars, serverSide, requests, answer, postAnswer, down>>

\* A message, which the application echoes, or a ping, which makes a pong.
MessageArrives ==
  /\ up # <<>> /\ Head(up).type = "message"
  /\ OnPacket(Web)
  /\ handled' = Append(handled, Head(up).n)
  /\ pongs' = IF Head(up).n \in pings THEN pongs \cup {made'[S]} ELSE pongs
  /\ up' = Tail(up)
  /\ Reply(<<>>)
  /\ UNCHANGED <<clientVars, sends, requests, postAnswer>>

CloseArrives ==
  /\ up # <<>> /\ Head(up).type = "close"
  /\ OnCloseMessage(Web)
  /\ up' = Tail(up)
  /\ UNCHANGED <<clientVars, serverSide, requests, answer, postAnswer, down>>

\* The server's application sends.
ServerSends ==
  /\ sends < MaxSends
  /\ SendMessage(S)
  /\ sends' = sends + 1
  /\ Reply(<<>>)
  /\ UNCHANGED <<clientVars, handled, pongs, requests, postAnswer, up>>

---------------------------------------------------------------------------
ClientNext ==
  Write \/ Ping \/ OnPollData \/ OnPostOk \/ OnPostError \/ PingTimeout \/ OnFrame
ServerNext ==
  \/ \E b \in BOOLEAN : HandshakeArrives(b)
  \/ PollArrives \/ PostArrives \/ UpgradeArrives
  \/ ProbeArrives \/ UpgradePacketArrives \/ MessageArrives \/ CloseArrives
  \/ ServerSends
HandoverNext == ClientNext \/ ServerNext

\* TCP delivers, both event loops run and a ping timer that is set fires.
\* Applications need not send, and no ping need time out.
Fairness ==
  /\ WF_handoverVars(\E b \in BOOLEAN : HandshakeArrives(b))
  /\ WF_handoverVars(PollArrives)
  /\ WF_handoverVars(PostArrives)
  /\ WF_handoverVars(UpgradeArrives)
  /\ WF_handoverVars(ProbeArrives \/ UpgradePacketArrives \/ MessageArrives \/ CloseArrives)
  /\ WF_handoverVars(OnPollData)
  /\ WF_handoverVars(OnPostOk \/ OnPostError)
  /\ WF_handoverVars(OnFrame)
  /\ WF_handoverVars(Ping)

HandoverSpec == HandoverInit /\ [][HandoverNext]_handoverVars /\ Fairness

---------------------------------------------------------------------------
(* Properties.                                                             *)

FrameTypes == {"open", "pong", "packet", "probe", "upgrade", "message", "close"}
HandoverTypeOK ==
  /\ phase \in {"opening", "open", "pausing", "paused", "closed"}
  /\ polling \in BOOLEAN
  /\ {ToSet(posting), ToSet(unsent), ToSet(transmitted), ToSet(handled), accepted}
       \subseteq SUBSET (1..MaxMessages)
  /\ sent \in 0..MaxMessages /\ sends \in 0..MaxSends
  /\ pingDue \in BOOLEAN /\ pings \subseteq 1..MaxMessages /\ pongs \subseteq 0..MaxPackets
  /\ ToSet(received \o answer) \subseteq 1..MaxPackets
  /\ requests \subseteq {"get", "post", "upgrade"}
  /\ postAnswer \in {"none", "ok", "error"}
  /\ ToSet(up \o down) \subseteq [type : FrameTypes, n : 0..MaxPackets]

\* The move from polling to the websocket loses, repeats and reorders nothing:
\* what the client has, what is on its way over either transport and what
\* waits in the server's write buffer are all packets in the order they were
\* made.  (Not for binary payloads, which hold only their last packet.)
Packets(fs) ==
  LET ps[k \in 0..Len(fs)] ==
        IF k = 0 THEN <<>>
        ELSE IF fs[k].type = "packet" THEN Append(ps[k - 1], fs[k].n) ELSE ps[k - 1]
  IN  ps[Len(fs)]
HandoverIsSeamless ==
  ~binary[Poll] /\ phase # "closed" =>
    received \o answer \o Packets(down) \o buffer[S] = [k \in 1..made[S] |-> k]

\* A message leaves the client once: what a POST carries when the client
\* pauses is not sent again over the websocket.
TransmittedOnce == \A j, k \in DOMAIN transmitted : j < k => transmitted[j] < transmitted[k]

\* When the server moves to the websocket the polling transport it destroys
\* has no poll to answer, none is on its way, and no answer either.
NoPollLeftBehind ==
  upgraded[S] => ~parked[Poll] /\ "get" \notin requests /\ answer = <<>>

\* As long as connections stay up only a client that closes can end the process.
TerminatesOnlyOnClose == status # "running" => phase = "closed"

\* The upgrade takes place, the client closes, or it goes on pausing for a poll
\* that the server has parked: it polled again between the noop and the pong,
\* and only a further packet (or PingTimeout) would end that.
OnlyParkedPollBlocks ==
  (phase = "open") ~> (\/ upgraded[S]
                       \/ phase = "closed"
                       \/ [](phase = "pausing" /\ parked[Poll]))

\* Packets that the upgrade left in the write buffer go out with the next pong,
\* or the client closes, or it waits for a pong that never comes: the ping went
\* into a POST, the server was never given it, and the ping timer is set again
\* only by the pong.
OnlyLostPingStalls ==
  (upgraded[S] /\ buffer[S] # <<>> /\ sent < MaxMessages)
    ~> (\/ buffer[S] = <<>>
        \/ phase = "closed"
        \/ [](~pingDue /\ ~(pings \subseteq ToSet(handled))))

\* Violated.  README.md shows HandleMessage as "Handle text message from
\* client.": what a POST brought, answered 200, is given to it.
AcceptedIsHandled == accepted \ pings \subseteq ToSet(handled)
=============================================================================
