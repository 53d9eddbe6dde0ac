----------------------------- MODULE Connection -----------------------------
(***************************************************************************)
(* One connection of the HTTP server, from accept to the end: muduo's      *)
(* TcpConnection and its Channel, as TcpServer and HTTPServer own it, in   *)
(* the EventLoop.  Its handlers, and user code in any callback, run in the *)
(* loop; other threads send.  connect, read, write and epoll are external. *)
(***************************************************************************)
EXTENDS EventLoop

CONSTANTS
  Socket,       \* the connection's channel
  Other,        \* any other channel: the acceptor's, another connection's
  LoopCaller,   \* the loop's thread as the sender of messages
  MaxSends,     \* bound on the calls of send
  MessageBytes  \* length of a message

VARIABLES
  state,        \* state_, "none" before the connection is accepted
  interest,     \* events_ of the channel
  polled,       \* the channel is in the poller's channels_
  revents,      \* what poll() returned for it
  step,         \* how far the callback or functor in progress is
  output,       \* outputBuffer_
  registered,   \* it is in TcpServer's connections_
  handled,      \* its HTTPHandler, which owns it, is in handler_map_
  upgraded,     \* a WebsocketHandler has replaced closeCallback_
  sending,      \* what threads that have read state_ in send() send
  calls,        \* calls of send
  peer,         \* the peer's side of the connection
  inbound,      \* there are bytes to read
  error,        \* SO_ERROR is set
  fin,          \* shutdown(SHUT_WR) was called
  wire,         \* history: bytes that were written
  sent,         \* history: messages that sendInLoop took
  failed        \* an assertion has failed

channel == <<interest, polled, revents>>
owners == <<registered, handled, upgraded>>
network == <<peer, inbound, error, fin>>
bytes == <<output, wire, sent>>
vars == <<loopVars, state, channel, step, owners, sending, calls, network, bytes, failed>>

Messages == (Threads \cup {LoopCaller}) \X (1..MaxSends)

ConnectionFunctors ==
  [op : {"sendInLoop"}, message : Messages] \cup [op : {"forceCloseInLoop", "connectDestroyed"}]

ASSUME ConnectionAssumption ==
  /\ Functors = ConnectionFunctors
  /\ Channels = {Socket, Other} /\ Socket # Other
  /\ LoopCaller \notin Threads
  /\ MessageBytes \in Nat \ {0}
  /\ MaxSends \in Nat

Init ==
  /\ LoopInit
  /\ state = "none"
  /\ interest = {} /\ polled = FALSE /\ revents = {}
  /\ step = "idle"
  /\ registered = FALSE /\ handled = FALSE /\ upgraded = FALSE
  /\ sending = [t \in Threads |-> {}]
  /\ calls = 0
  /\ peer = "open" /\ inbound = FALSE /\ error = FALSE /\ fin = FALSE
  /\ output = <<>> /\ wire = <<>> /\ sent = <<>>
  /\ failed = FALSE

Open == {"kConnected", "kDisconnecting"}

---------------------------------------------------------------------------
(* Writing.                                                                *)

\* A fault: the first byte is left out.
BytesFromSecond(m) == [i \in 1..MessageBytes |-> <<m, i + 1>>]

Bytes(m) == [i \in 1..MessageBytes |-> <<m, i>>]

\* A write fails with EPIPE or ECONNRESET.
Broken == fin \/ peer = "reset"

\* A fault: sendInLoop trusts the check that send() has made.
NeverGivesUp == FALSE

\* sendInLoop does nothing for a connection that is closed by now.
GivesUp == state = "kDisconnected"

\* A fault: what is still buffered is not looked at.
AlwaysWritesDirectly == TRUE

WritesDirectly == "out" \notin interest /\ output = <<>>

\* A fault: what could not be written is only buffered.
NotAwaited(remaining) == UNCHANGED interest

\* What remains is buffered, and written when the channel is writable.
Awaited(remaining) ==
  interest' = IF remaining # <<>> THEN interest \cup {"out"} ELSE interest

\* sendInLoop.  A direct write takes any part of the message.
SendInLoop(m) ==
  IF GivesUp \/ (WritesDirectly /\ Broken)
  THEN UNCHANGED <<interest, bytes>>
  ELSE \E n \in (IF WritesDirectly THEN 0..MessageBytes ELSE {0}) :
         LET remaining == SubSeq(Bytes(m), n + 1, MessageBytes) IN
         /\ wire' = wire \o SubSeq(Bytes(m), 1, n)
         /\ output' = output \o remaining
         /\ sent' = Append(sent, m)
         /\ Awaited(remaining)

\* A fault: handleWrite shuts down as soon as it has written something.
ShutsDownEarly == state = "kDisconnecting"

\* handleWrite shuts down once nothing is left to write.
ShutsDown == state = "kDisconnecting" /\ output' = <<>>

\* handleWrite.  An error is logged and the bytes are kept.
HandleWrite ==
  IF "out" \in interest /\ ~Broken
  THEN \E n \in 0..Len(output) :
         /\ wire' = wire \o SubSeq(output, 1, n)
         /\ output' = SubSeq(output, n + 1, Len(output))
         /\ interest' = IF output' = <<>> THEN interest \ {"out"} ELSE interest
         /\ fin' = (fin \/ ShutsDown)
  ELSE UNCHANGED <<wire, output, interest, fin>>

---------------------------------------------------------------------------
(* Closing.                                                                *)

\* A fault: the handler is erased when the connection closes.
HandlerErased == handled' = FALSE

\* HTTPHandler::OnClose, called through closeCallbackWithoutThis_.  Nothing
\* erases the handler: OnHandlerClose is not set as its close callback.
HandlerClosed == UNCHANGED handled

\* handleClose: the channel is disabled, and closeCallback_ is either
\* TcpServer's, which forgets the connection and queues connectDestroyed, or a
\* WebsocketHandler's, which does not.
HandleClose ==
  /\ failed' = (failed \/ state \notin Open \/ ~registered)
  /\ state' = "kDisconnected"
  /\ interest' = {}
  /\ HandlerClosed
  /\ IF upgraded
     THEN UNCHANGED <<loopVars, registered>>
     ELSE registered' = FALSE /\ QueueInLoop([op |-> "connectDestroyed"])
  /\ UNCHANGED <<polled, revents, upgraded, sending, calls, bytes>>

\* Two faults: forceCloseInLoop does not look at the state, or forgets that
\* forceClose has changed it.
AlwaysCloses == TRUE
ClosesConnected == state = "kConnected"

\* The connection may have been closed since forceClose was called.
StillOpen == state \in Open

---------------------------------------------------------------------------
(* The loop thread.                                                        *)

unchangedConnection ==
  <<state, channel, step, owners, sending, calls, network, bytes, failed>>

\* What epoll reports, level-triggered: after a reset or a FIN it is readable.
Readable == "in" \in interest /\ (inbound \/ peer # "open")
Ready == Readable \/ (interest # {} /\ error)

\* poll().  The socket may or may not have room for what waits to be written.
SocketPoll(ready) ==
  /\ Poll(ready)
  /\ revents' \in SUBSET {"err", "in", "out"}
  /\ "err" \in revents' <=> interest # {} /\ error
  /\ "in" \in revents' <=> Readable
  /\ "out" \in revents' => "out" \in interest
  /\ Socket \in ready <=> revents' # {}
  /\ UNCHANGED <<state, interest, polled, step, owners, sending, calls, network, bytes, failed>>

SocketPollTimeout == PollTimeout /\ ~Ready /\ UNCHANGED unchangedConnection

LoopOnly ==
  /\ \/ Loop
     \/ HandleRead
     \/ SwapFunctors
     \/ Iterate
  /\ UNCHANGED unchangedConnection

\* The callback of another channel begins.
HandleOther ==
  /\ HandleEvent(Other)
  /\ step' = "other"
  /\ UNCHANGED <<state, channel, owners, sending, calls, network, bytes, failed>>

\* handleEvent of the connection's channel: handleError fetches SO_ERROR, then
\* handleRead and handleWrite are called.
HandleSocket ==
  /\ HandleEvent(Socket)
  /\ step' = IF "in" \in revents THEN "handleRead" ELSE "handleWrite"
  /\ error' = (error /\ "err" \notin revents)
  /\ UNCHANGED <<state, channel, owners, sending, calls, peer, inbound, fin, bytes, failed>>

\* handleRead has read something: the message callback begins.
ReadMessage ==
  /\ step = "handleRead"
  /\ inbound /\ ~error
  /\ inbound' = FALSE
  /\ step' = "message"
  /\ UNCHANGED <<loopVars, state, channel, owners, sending, calls, peer, error, fin, bytes, failed>>

\* handleRead fails: the error is logged.
ReadError ==
  /\ step = "handleRead"
  /\ error
  /\ error' = FALSE
  /\ step' = "handleWrite"
  /\ UNCHANGED <<loopVars, state, channel, owners, sending, calls, peer, inbound, fin, bytes, failed>>

\* handleRead has read 0 bytes.
ReadEnd ==
  /\ step = "handleRead"
  /\ ~inbound /\ ~error
  /\ step' = "handleWrite"
  /\ HandleClose
  /\ UNCHANGED network

MessageReturns ==
  /\ step = "message"
  /\ step' = "handleWrite"
  /\ UNCHANGED <<loopVars, state, channel, owners, sending, calls, network, bytes, failed>>

\* handleEvent comes to handleWrite, and ends.
SocketReturns ==
  /\ step = "handleWrite"
  /\ Return
  /\ step' = "idle"
  /\ IF "out" \in revents
     THEN HandleWrite
     ELSE UNCHANGED <<wire, output, interest, fin>>
  /\ UNCHANGED <<state, polled, revents, owners, sending, calls, peer, inbound, error, sent, failed>>

OtherReturns ==
  /\ step \in {"other", "functor"}
  /\ Return
  /\ step' = "idle"
  /\ UNCHANGED <<state, channel, owners, sending, calls, network, bytes, failed>>

\* The functor of a send in another thread.
RunSend ==
  /\ RunFunctor
  /\ ~inCallback'
  /\ Head(functors)[2].op = "sendInLoop"
  /\ SendInLoop(Head(functors)[2].message)
  /\ UNCHANGED <<state, polled, revents, step, owners, sending, calls, network, failed>>

\* The functor of forceClose begins.
RunForceClose ==
  /\ RunFunctor
  /\ inCallback'
  /\ Head(functors)[2].op = "forceCloseInLoop"
  /\ step' = "forceCloseInLoop"
  /\ UNCHANGED <<state, channel, owners, sending, calls, network, bytes, failed>>

ForceCloseInLoop ==
  /\ step = "forceCloseInLoop"
  /\ step' = "functor"
  /\ IF StillOpen
     THEN HandleClose
     ELSE UNCHANGED <<loopVars, state, channel, owners, sending, calls, bytes, failed>>
  /\ UNCHANGED network

\* connectDestroyed: the channel leaves the poller.
RunDestroyed ==
  /\ RunFunctor
  /\ ~inCallback'
  /\ Head(functors)[2].op = "connectDestroyed"
  /\ state' = IF state = "kConnected" THEN "kDisconnected" ELSE state
  /\ interest' = IF state = "kConnected" THEN {} ELSE interest
  /\ failed' = (failed \/ interest' # {} \/ ~polled)
  /\ polled' = FALSE
  /\ UNCHANGED <<revents, step, owners, sending, calls, network, bytes>>

---------------------------------------------------------------------------
(* Calls.  MaxQueued leaves room for connectDestroyed.                     *)

UserCode == step \in {"message", "other"} /\ state # "none"

\* Acceptor::handleRead, newConnection and connectEstablished.
NewConnection ==
  /\ step = "other"
  /\ state = "none"
  /\ state' = "kConnected"
  /\ interest' = {"in"} /\ polled' = TRUE
  /\ registered' = TRUE /\ handled' = TRUE
  /\ UNCHANGED <<loopVars, revents, step, upgraded, sending, calls, network, bytes, failed>>

\* send in the loop thread.
Send ==
  /\ UserCode
  /\ state = "kConnected"
  /\ calls < MaxSends
  /\ calls' = calls + 1
  /\ SendInLoop(<<LoopCaller, calls'>>)
  /\ UNCHANGED <<loopVars, state, polled, revents, step, owners, sending, network, failed>>

\* send in another thread reads state_,
BeginSend(t) ==
  /\ state = "kConnected"
  /\ sending[t] = {}
  /\ calls < MaxSends
  /\ calls' = calls + 1
  /\ sending' = [sending EXCEPT ![t] = {<<t, calls'>>}]
  /\ UNCHANGED <<loopVars, state, channel, step, owners, network, bytes, failed>>

\* and queues sendInLoop, with a pointer that owns nothing.
QueueSend(t) ==
  /\ queued + 1 < MaxQueued
  /\ \E m \in sending[t] : Queue(t, [op |-> "sendInLoop", message |-> m])
  /\ sending' = [sending EXCEPT ![t] = {}]
  /\ UNCHANGED <<state, channel, step, owners, calls, network, bytes, failed>>

\* forceClose, which the handlers call in the loop thread.
ForceClose ==
  /\ UserCode
  /\ state \in Open
  /\ state' = "kDisconnecting"
  /\ queued + 1 < MaxQueued
  /\ QueueInLoop([op |-> "forceCloseInLoop"])
  /\ UNCHANGED <<channel, step, owners, sending, calls, network, bytes, failed>>

\* WebsocketHandler::SetCallback, when a request asks for the upgrade.
Upgrade ==
  /\ step = "message"
  /\ upgraded' = TRUE
  /\ UNCHANGED <<loopVars, state, channel, step, registered, handled, sending, calls, network,
                 bytes, failed>>

---------------------------------------------------------------------------
(* The peer.                                                               *)

unchangedButNetwork == <<loopVars, state, channel, step, owners, sending, calls, bytes, failed>>

PeerSends ==
  /\ state # "none" /\ peer = "open"
  /\ inbound' = TRUE
  /\ UNCHANGED <<unchangedButNetwork, peer, error, fin>>

PeerCloses ==
  /\ state # "none" /\ peer = "open"
  /\ peer' = "closed"
  /\ UNCHANGED <<unchangedButNetwork, inbound, error, fin>>

\* A reset discards what has not been read.
PeerResets ==
  /\ state # "none" /\ peer # "reset"
  /\ peer' = "reset"
  /\ inbound' = FALSE
  /\ error' = TRUE
  /\ UNCHANGED <<unchangedButNetwork, fin>>

---------------------------------------------------------------------------
Handlers ==
  \/ HandleOther \/ HandleSocket
  \/ ReadMessage \/ ReadError \/ ReadEnd
  \/ MessageReturns \/ SocketReturns \/ OtherReturns
  \/ RunSend \/ RunForceClose \/ ForceCloseInLoop \/ RunDestroyed

LoopSteps ==
  \/ \E ready \in SUBSET Channels : SocketPoll(ready)
  \/ LoopOnly
  \/ Handlers

UserCalls == NewConnection \/ Send \/ ForceClose \/ Upgrade

ThreadSteps(t) ==
  \/ BeginSend(t)
  \/ QueueSend(t)
  \/ Wakeup(t) /\ UNCHANGED unchangedConnection

Peer == PeerSends \/ PeerCloses \/ PeerResets

Next ==
  \/ LoopSteps
  \/ SocketPollTimeout
  \/ UserCalls
  \/ \E t \in Threads : ThreadSteps(t)
  \/ Peer

\* The loop's thread runs, except that poll() may block while nothing is known
\* to be ready, and a call of wakeup() is not put off for ever.
Fairness ==
  /\ WF_vars(~(phase = "poll" /\ ~signalled /\ ~Ready) /\ LoopSteps)
  /\ \A t \in Threads : WF_vars(Wakeup(t) /\ UNCHANGED unchangedConnection)

Spec == Init /\ [][Next]_vars /\ Fairness

---------------------------------------------------------------------------
(* Properties.                                                             *)

TypeOK ==
  /\ LoopTypeOK
  /\ state \in {"none", "kConnected", "kDisconnecting", "kDisconnected"}
  /\ interest \subseteq {"in", "out"} /\ polled \in BOOLEAN
  /\ revents \subseteq {"err", "in", "out"}
  /\ step \in {"idle", "other", "handleRead", "message", "handleWrite", "forceCloseInLoop", "functor"}
  /\ registered \in BOOLEAN /\ handled \in BOOLEAN /\ upgraded \in BOOLEAN
  /\ sending \in [Threads -> SUBSET Messages]
  /\ calls \in 0..MaxSends
  /\ peer \in {"open", "closed", "reset"}
  /\ inbound \in BOOLEAN /\ error \in BOOLEAN /\ fin \in BOOLEAN
  /\ output \in Seq(Messages \X (1..MessageBytes))
  /\ wire \in Seq(Messages \X (1..MessageBytes))
  /\ sent \in Seq(Messages)
  /\ failed \in BOOLEAN

\* However closing by the peer, by a reset and by forceClose come together, the
\* assertions hold: handleClose runs once (TcpConnection.cc:412), connections_
\* holds the connection then (TcpServer.cc:124), and connectDestroyed finds its
\* channel disabled and in the poller (Channel.cc:61, EPollPoller.cc:157).
AssertionsHold == ~failed

\* The bytes written and those still buffered are those of the messages that
\* sendInLoop took, one after the other, however writes are cut short; and the
\* messages of each thread keep the order of its calls (TcpConnection.cc:154).
SentInOrder ==
  LET stream == wire \o output
      order(s) == \A i, j \in 1..Len(s) : i < j /\ s[i][1] = s[j][1] => s[i][2] < s[j][2]
  IN  /\ Len(stream) = Len(sent) * MessageBytes
      /\ \A i \in 1..Len(sent), j \in 1..MessageBytes :
           stream[(i - 1) * MessageBytes + j] = <<sent[i], j>>
      /\ order(sent)

\* While the connection is open the poller is asked for writability just when
\* bytes are buffered, so that none stay behind, and a FIN follows the last of
\* them (TcpConnection.cc:186, 379).
BufferedIsAwaited ==
  /\ state \in Open => ("out" \in interest <=> output # <<>>)
  /\ fin => output = <<>>

\* A closed connection asks for no events, though sends may still be queued
\* that found it open (TcpConnection.cc:145).  One that has left the poller
\* does not come back.
ClosedStaysQuiet ==
  /\ state = "kDisconnected" => interest = {}
  /\ interest # {} => polled

\* A queued sendInLoop, bound to a bare pointer (TcpConnection.cc:106), finds
\* the connection alive: an owner other than functors still keeps it.
SendsFindConnection ==
  (\E i \in 1..Len(functors \o pending) : (functors \o pending)[i][2].op = "sendInLoop")
    => registered \/ handled

\* When the peer goes or forceClose is called, the connection is closed, and
\* leaves TcpServer and the poller unless it is a websocket.
CloseIsHandled ==
  (state = "kDisconnecting" \/ (state = "kConnected" /\ peer # "open"))
    ~> (state = "kDisconnected" /\ (upgraded \/ (~registered /\ ~polled)))

\* The destructor, to which handleClose leaves the descriptor
\* (TcpConnection.cc:413), comes once the connection is closed.
ClosedIsFreed == state = "kDisconnected" ~> ~registered /\ ~handled
=============================================================================
