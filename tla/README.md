# engineio_cpp in TLA+

A model-checked and partly proved specification of `engineio_cpp`, an
Engine.IO server in C++ on top of *woody* (HTTP and websocket handlers) and a
changed copy of *muduo* (TCP, event loop).

## The system

| part | state it keeps | operations |
|---|---|---|
| `engineio::Server` | `sockets_` (sid to Socket) | handshake, request verification, `OnSocketClose` |
| `engineio::Socket` | `transport_`, `upgrading_transport_`, `upgraded_`, `write_buffer_`, `state_` | `HandleRequest`, `OnPacket`, `OnPacketWhenUpgrading`, `MaybeUpgrade`, `SendMessage`, `Flush`, `OnClose` |
| transports | polling: `req_` (the parked poll), `resp_`, `writable_`; websocket: `handler_`, `writable_`; callbacks of both | `HandleRequest`, `SendPackets`, `OnData`, `OnClose` |
| `engineio::Parser`, `Packet` | none | packet and payload encoding and decoding |
| woody HTTP | per connection: codec, http_parser, partly read request; server: `handler_map_` | `OnData`, codec callbacks, `OnMessageComplete`, `Send`, `OnClose` |
| woody websocket | per connection: parser state, partly read frame, partly read message | `HandleUpgrade`, `OnData`, frame handlers, `SendWebsocketMessage`, `ForceClose`, `OnClose` |
| muduo `EventLoop` | `pendingFunctors_`, `wakeupFd_`, `quit_`, active channels | `loop`, `queueInLoop`, `runInLoop`, `wakeup`, `quit` |
| muduo `TimerQueue` | `timers_`, `activeTimers_`, `cancelingTimers_`, `timerfd_` | `addTimer`, `cancel`, `handleRead`, `reset` |
| muduo `TcpConnection`, `TcpServer` | `state_`, `outputBuffer_`, the channel's events; `connections_` | `newConnection`, `send`, `forceClose`, `handleRead`, `handleWrite`, `handleClose`, `connectDestroyed` |

How they interact.  A TCP connection starts with an `HTTPHandler`, whose codec
turns bytes into requests; `HTTPServer` hands each to `Server::HandleRequest`.
Without a sid the server makes a transport and a `Socket` and enters the Socket
in `sockets_`; with one, the Socket's transport handles the request.  A polling
GET is *parked* (`req_`, `resp_`) until `Socket::Flush` has packets to answer it
with.  A request that asks for an upgrade makes a second transport; once the
client has probed it (`2probe`/`3probe`) and sent the upgrade packet, it
replaces `transport_`.  The connection then belongs to a `WebsocketHandler`,
whose callbacks point into the transport.  All of this runs in one `EventLoop`
thread, so each handler is atomic; only `forceClose` is queued, and what other
threads ask of the loop: they send, add and cancel timers, and quit through its
pending functors.

What is hard here: the order of polls, probes, upgrades, sends and closes is up
to clients; several flags in different classes say whether a poll is waiting
(`req_`, `writable_`, what `resp_` refers to); callbacks are raw `this`
pointers and outlive transports; ids repeat within a second; connections end
between any two steps; the upgrade protocol needs the client's cooperation; TCP cuts
and joins requests and frames; threads queue work while the loop is about to block;
timers and connections are deleted while functors and callbacks still know them.

What makes each part correct: a request is answered at most once and a parked
poll is one somebody waits for (transports); packets leave in order, at most
once, and none stays behind while the transport could take it (Socket); a
session is found by its sid as long as it lives (Server); the transport in use
has its callbacks (Socket); frames and requests do not depend on how TCP cuts the
byte stream (woody); work that is queued or due is done, once and in order (event
loop, timers); every connection is closed once and removed when it ends (muduo,
woody).

## Modules

| module | what it is |
|---|---|
| `Session` | Server, Socket and transports as one state machine, an action per handler |
| `Delivery` | abstract specification: a session is an ordered at-most-once channel |
| `SessionProofs` | theorems about `Session`, and that it implements `Delivery` |
| `MCSession` | `Session` with symmetry, for TLC |
| `Handover` | one session of `Session` composed with the engine.io.js client and the connections between them |
| `HandoverProofs` | theorems about `Handover` |
| `WsStream` | the receiving side of a websocket connection: Buffer, parser and codec under a byte stream |
| `MCWsStream` | `WsStream` with the frames a client sends, for TLC |
| `HttpStream` | the receiving side of an HTTP connection: Buffer, http_parser, codec and request |
| `MCHttpStream` | `HttpStream` with the requests a client sends, for TLC |
| `WsStreamProofs`, `HttpStreamProofs` | theorems about the two |
| `EventLoop` | the loop's thread, and the threads that queue functors and quit |
| `TimerQueue` | extends `EventLoop` with its timers |
| `Connection` | extends `EventLoop` with one TCP connection of the HTTP server, from accept to its end |
| `EventLoopProofs`, `TimerQueueProofs`, `ConnectionProofs` | theorems about the three |
| `Induction` | induction and recursion over the naturals, in a form the provers can use |

### Session

The objects are drawn from sets: `Sockets` and `Trans` (transport objects) are
each created at most once, `Conns` are TCP connections, `Sids` the ids that can
be generated.  `sockets`, `transport`, `upgradingTransport`, `upgraded`, `buffer`,
`writable`, `parked` (`req_ != NULL`), `resp`, `wsConn` are the members of the same
names; `bound` and `onPacket` say which callbacks a transport has; `proto` is who
handles a connection; `pending` counts its requests less its responses.  `made`
and `wire` are history: packets created, and packets written to a connection that
was open.  A packet is its creation number in the session, since no handler
looks at what it carries.

Each action is one event with all it causes, in the order of the code:
a handshake is `Server::Handshake` with the poll it parks and the open packet
that answers it; `OnProbe` is the pong, the noop and the flush.

Three values of `status` tell how the program goes on: `running`; `terminated`, when
an empty `boost::function` is called (an event of a transport whose callbacks
`SetTransport` has not set throws `bad_function_call`, which nothing catches);
`undefined`, when a destroyed transport or Socket is used.  Nothing happens after
the last two.

Abstractions.  The client does not pipeline requests on one connection (as
browsers do not).  The application echoes each message, as README.md of the
repository does, may send at any time from the loop thread, and keeps the
`SocketPtr` it is handed or not (`Keeps`).  `GenerateBase64ID` depends on the second
only, so `Tick` chooses the next id from `Sids`, and may repeat one.  Undecodable
text leaves the packet's type uninitialised, so it acts as any packet.  A request that no
application matches, or with another path, is never answered (`Unanswered`).  A websocket
in use whose codec fails is closed by the queued `forceClose`; until that runs, packets still
arrive (`HandleError`).

### Handover

The client is `example/chat/static/engine.io.js` over XHR polling, moving to the
websocket.  Its state: `phase` stands for `readyState` of Socket and Polling and for
`upgrading` ("pausing" from the probe's pong on, "paused" once the websocket is its
transport), `polling` is `Polling.polling`, `posting` the part of `writeBuffer` that an
unanswered POST carries (`prevBufferLen` packets; empty iff `writable`), `unsent` the
rest, and `pingDue` says whether `pingIntervalTimer` is set.  `sent`, `received`,
`transmitted`, `accepted`, `handled` are history.  `Pause` is
`Polling.pause` together with what its callback does in `Socket.probe`.

The server's steps are the actions of `Session`, each with the message it consumes.
`requests`, `answer`, `postAnswer`, `up` and `down` are what is on its way.  Each of the
three connections is reliable and ordered, and two of them are not ordered with
respect to each other: this is where polls race with the probe's pong.  `Sent` is
what the server's step added to `wire`; `Reply` sends it over the transport in use.

A ping (`pings`) is a message that the server answers with a pong (`pongs`) where it echoes
others.  `Ping` is the timer of `setPing`, which only the handshake and a pong set: a ping in a
POST gets no pong, so the client never pings again.  Connections stay up unless the client
closes.  Time is abstracted: `PingTimeout` is allowed in any phase once `onHeartbeat` has
been called, by a ping or by a packet after the open packet.  A close posts a close packet
while polling is open, and closes the websocket.

### WsStream

A byte is the pair of its frame's number and its offset, so what the parser takes a
byte for and what it is can be compared.  `ws` is the `WebsocketHandler` with its
parser and codec, a field per member.  `Read` is `TcpConnection::handleRead` with the
whole loop of `WebsocketHandler::OnData`: each `Round` empties the buffer, parses one
frame or a part of one, and puts the rest back.  `out` lists the callbacks made.

`Events`, `Conforms` and `Unfinished` say what a sequence of frames means without
reference to reads: the definition that the incremental parser is checked against.

Once header bytes are lost (`status = "dropped"`) the bytes that follow are read as
something else; behaviours end there.  The 8-byte length form is treated as the
2-byte one, and `ShortLen` scales the payload length (125) from which either is
needed.  `CheapPrepend` has its real value.

### HttpStream

A step is one turn of the loop in `http_parser_execute`, which takes one byte; actions
are named for the parser's states (`state`), and those that only differ in the letters
they accept are one (`Url` for schema, path, query and fragment).  A byte is a record of
its class and of where it comes from: request, part, position.  A request is described
by its parts (`MCRequests`), and `bad` is the position of one byte that is spoiled.
What clients may send is assumed to be framed (`FramedAssumption`): a body is announced by its
length or as chunked, the lines of chunks end with CR LF, and a spoiled byte is one of the
request's.  Anything else a client gets wrong is a spoiled byte.
`mark` and `piece` are what `MARK` has set and the bytes since; `CallBack` hands the piece
to the codec; `codec` holds its `parseState_`, `cur_header_name_`, `cur_header_value_` and
`request_`.  What the parser does with a byte does not depend on those behind it, so
`EndOfRead` ends a read wherever it likes, with the callbacks for marks still set.

`Return` is the rest of `HTTPHandler::OnData`: all bytes taken, or an error or upgrade in
the middle of the read, after which what is left is put back and parsed again.  The
assertion of `Buffer::prepend` may end the process there.  A handler that has closed its
connection gets no more bytes.

`RequestsArrive` compares what was handed over with what was sent and names what the
code gets wrong, so that it says exactly how far a request can be relied on: a URL or
body that was cut keeps its last piece (`http_codec.cc:65`, 122), the first header of a
later request on a connection is added under a name with an earlier one in front
(`http_codec.cc:80`), and a request without body or headers shows those of an earlier one.

### EventLoop, TimerQueue, Connection

`EventLoop` has an action for each stretch of the code that no other thread can
interrupt: `queueInLoop` is `Queue`, the push under the lock, and `Wakeup`, the write that
may come later (`signalling`); `doPendingFunctors` is `SwapFunctors` and one `RunFunctor` for each.
While user code runs (`inCallback`) it may call anything, as often as the bounds allow.
Functors carry the number of their call, which is history, as are `queued` and `ran`.

`TimerQueue` and `Connection` extend it: they say what channels and functors there are
and what these do, and give each action of the loop its effect on their own state.  So
`timers_` and `activeTimers_` are sets of the same pairs, `heap` holds the Timer objects
and an address may be used again; the clock ticks at any time up to `MaxTime`.  Nothing
is queued by the loop's thread before `loop()`, and socket callbacks add no timers: only
timer callbacks and functors do.

In `Connection`, `interest` and `revents` are the channel's `events_` and `revents_`.  The peer
sends, closes or resets at any time; epoll is level-triggered; a write takes any part
of what it is given, or fails.  A message is its caller and number, `MessageBytes` bytes
long.  `send` from another thread reads `state_` (`BeginSend`) and queues later
(`QueueSend`).  `registered`, `handled` and functors are what owns the connection.

## Runs

| run | instance | what it shows |
|---|---|---|
| `session_upgrade` | 1 session, 3 transports, 3 connections, 4 packets | types; the current transport has its callbacks; a session moves to an accepted websocket only; nothing is lost while connections stay up and payloads are not binary or JSONP; packets stall only after an upgrade; `Delivery` is implemented |
| `session_registry` | 2 sessions, 2 sids, 3 transports, 2 connections, 2 packets | no request is answered twice, whichever session parked it; parked polls; order |
| `session_sid` | 1 sid, 2 sessions | violated: the second handshake of a second takes over the first one's sid |
| `handover` | 3 client messages (a ping is one), 2 server messages | the move to the websocket loses, repeats and reorders nothing; no poll is left behind; the process ends only if the client closes while probing; the upgrade takes place unless the client closes or pauses on a poll the server has parked; packets left by the upgrade go out with the next pong, unless the client closes or waits for the pong of a ping that was posted |
| `handover_post` | as `handover` | violated: a posted message is answered 200 and never handed to the application |
| `ws_stream` | all streams of 3 frames out of 13, all cuts | what a conforming client sends is handed over whatever the cuts; connections are closed for malformed frames and not for others |
| `ws_header` | as `ws_stream` | violated: bytes of a split header are lost without an error |
| `ws_prepend` | as `ws_stream` | violated: more than 8 unparsed bytes fail the assertion in `Buffer::prepend` |
| `http_stream` | all streams of 2 requests out of 18, all cuts | requests are handed over once, as sent but for the listed exceptions; connections are closed, and the process ends, for spoiled bytes and for what follows an upgrade in the same read, and for nothing else |
| `timer_queue` | another thread, 2 functors, 2 timers at 2 addresses, 2 ticks | functors run once, in order and in the end; no wakeup is lost; the two sets agree; timers run when due and not after they were cancelled; `quit` ends the loop |
| `connection` | another thread, 2 sends of 2 bytes, 4 functors, another channel | the assertions on closing hold; bytes leave whole and in order; what is buffered is waited for; a closed connection is quiet; queued sends find it alive; what ends it is handled |
| `connection_freed` | as `connection`, no sends, 2 functors | violated: nothing that keeps a closed connection lets go of it |

The bounds.  A session has at most three transports that matter at once: the
current one, the upgrading one and one that was replaced, hence 3.  With 4
packets the open packet, a noop and two more can meet in the buffer and on both
sides of an upgrade.  Two sessions and two connections are enough for one to
answer on the other's connection.  `CHECK_DEADLOCK FALSE`: the program may
terminate, and the bounds end every behaviour.

In `handover` three messages let one be posted while another waits behind it and a
third goes over the websocket, and let a ping be any of them; two
sends of the server let one go out as the poll's answer and another meet the noop or
the upgrade.  `MaxPackets` 7 is enough for the open packet, the noop, three echoes or
pongs and two sends (`HandoverAssumption`), so no step is cut off by it.  In
`ws_stream` three frames are a fragmented message with a control frame inside, or
three messages joined in one read.  Payloads of 0, 1 and 3 bytes give an empty body, one
that cannot be cut and one that is cut, the last with the longer header.  Frames of
6, 7 and 11 bytes left over fall on both sides of `CheapPrepend`.

In `http_stream` two requests show what one leaves behind for the next (stale name, body
and headers; an upgrade or error with another request behind it in the same read); a URL
of 2 bytes and bodies of 1 to 3 can be cut; requests are longer than `CheapPrepend`, which
has its real value, so what is put back falls on both sides of it.  In `timer_queue` two
timers are the one that is run and the one that it cancels or that takes its address, and
two functors are one being run and one pushed meanwhile.  In `connection` two
sends are one that leaves bytes behind and one that must queue up behind it, by the same
caller or another, and a 2-byte message can be cut; `MaxQueued` 4 leaves room for
both, a `forceClose` and the `connectDestroyed` (calls that need a place leave one free for
it).

Fairness in `timer_queue` and `connection`: the loop's thread runs, except that `poll()` may
block while nothing it knows of is ready; callbacks return; a thread that has pushed a
functor gets to its `wakeup()`; time passes.  No call is fair.

Fairness in `handover`: TCP delivers what was sent while a connection is up, and each
event loop handles what was delivered: weak fairness of each kind of arrival, and of the server's steps for the websocket as one, as its
frames come in order.  A ping timer that is set fires (`Ping`).  Nothing else is fair:
neither side's application need send, and `PingTimeout` need not happen, so that
`OnlyParkedPollBlocks` and `OnlyLostPingStalls` show what can go on until it does.

`session_sid` states what `engineio/server.h:89` says of `sockets_`.  Every byte of
an id is drawn after `srand(time(NULL))`, so ids of one second are equal.

`handover_post`: README.md of the repository says of `HandleMessage` that it handles
text messages from the client.  Over polling it never gets one:
`Parser::DecodePayload` returns no packets and `PollingTransport::OnData` ignores them
anyway, while the POST is answered 200.

`OnlyParkedPollBlocks` holds with its third alternative: after the noop has ended
the pending poll, the client polls once more if the probe's pong comes later, and the
server parks that poll with nothing to answer it.  The client then waits in
`Polling.pause` until something is sent to it or its ping timeout closes it.

`OnlyLostPingStalls` holds with its third alternative, too.  `OnUpgrade` does not flush, so what
the upgrade leaves in `write_buffer_` waits for the next packet; with silent applications
that is the pong of the client's next ping.  A client that pinged before it moved posted
that ping, gets no pong, and sets no other timer: the packets stay until one
of the applications sends or the ping timeout closes the client.  The property asks only for
behaviours with a message to spare (`sent < MaxMessages`), so that the bound is not what stops
the ping.

`ws_header`: the loop of `OnData` leaves "for more data" (`websocket_handler.cc:111`)
without putting the bytes back.  `ws_prepend`: the buffer has been emptied, so eight
bytes fit in front of it.  `CutsDoNotMatter` and `ErrorHasCause` therefore speak of
connections that neither has happened to.  `ErrorHasCause` also lists what a
conforming client is closed for: a masking key of zero and a third fragment.

`connection_freed`: `TcpConnection.cc:413` leaves the descriptor to the destructor.
`handler_map_` (`http_server.cc:62`) keeps the handler and the handler its connection;
`OnHandlerClose`, which would erase it, is not set as a callback anywhere.  A websocket
stays in `connections_` too, since `WebsocketHandler::SetCallback` replaces
`removeConnection`: hence the exception in `CloseIsHandled`.  `SendsFindConnection` holds
because of it: with the handler erased, a queued `send` would use a freed connection, as
its mutant shows.

`NoLossWhileConnected` excludes binary payloads and JSONP because the code loses
packets there: `EncodePayloadAsBinary` assigns its result afresh for each packet,
and the JSONP `DoWrite` is empty.

## Proofs

`SessionProofs` proves, for every choice of the constants,

- `TypeCorrect`: `Spec => []TypeOK`
- `AtMostOneAnswer`: `Spec => []AnsweredOnce`
- `ParkedPolls`: `Spec => []ParkedPollIsAwaited`
- `CurrentTransportBound`: `Spec => []CurrentIsBound`
- `OrderOfDelivery`: `Spec => []InOrder`

from `NoneAssumption` (the values that stand for nothing are not objects) and
`BoundAssumption` (at least one packet).

The first four follow from one inductive invariant, `IInv`.  `AnsweredOnce` is not
inductive: that a flush does not answer a second time needs `WritableHasPoll`
(writable only with a poll parked), that a parked poll is still owed an answer
(`ParkedPollIsAwaited`), that no other transport is parked on the same connection,
and that objects not yet created hold nothing (`Objects`), for a handshake starts
with them.  `FlushPolls` is the central lemma: it shows the discipline for a flush
with any outcome, and both senders and polls use it.

`InOrder` is proved with `FreshIsEmpty`: a Socket that does not exist yet has sent
nothing.  `FlushOrdered` says that a flush keeps the order when the buffer ends
with the newest packet; `EncodedOrdered` and `ConcatOrdered` carry it over the
encoder and the concatenation.

Its second part adds `SendInv` and proves the rest: `SendInvariant`, `WritablePolls`,
`StallsAfterUpgradeOnly`, `NothingIsLost`, `MovesToWebsocket`, and `SessionIsChannel`, that
`Session` implements `Delivery`.  `SendInv` is the inductive invariant of the order with
`Ownership` (a transport belongs to one Socket, and a Socket not yet created has none),
without which a packet of one session could reach the buffer or the wire of another, and
`Websockets` (a websocket transport is writable while its connection is).  `SessionSteps`
sorts the steps of `Session` by what they do to the packets of a session; the refinement and the
three other theorems each need only look at those few kinds.

`HandoverProofs` shows first that `Handover` is a behaviour of `Session`
(`HandoverUsesSession`), so that `IInv` holds of it, and proves `HandoverTypeOK`,
`TransmittedOnce`, `NoPollLeftBehind` and `TerminatesOnlyOnClose` from `HandoverAssumption`.
`Queue` says that what the client has transmitted and what waits are its messages in
order; `Net` that an upgrade packet is on its way only from a client with no poll
outstanding, and a close packet only from one that has closed.  `NoPollLeftBehind` rests on `OnePoll`: a poll is on its
way, parked or on its way back, one of these, and the client gives it up only with the
answer; that the server keeps it so uses `WritableHasPoll` of `Session`.  `MovesSeamlessly` is `HandoverIsSeamless`:
`Packets` is a recursive function, so that what it selects of two joined sequences is proved by
induction on their length; every step then only moves frames from one end of a queue to another.  `TerminatesOnlyOnClose`
uses `CurrentIsBound`: a poll finds the flush callback set.

`EventLoopProofs` proves one inductive invariant of the loop, `LoopInv`, from
`LoopSpec`: types; queued functors are the last `queued - ran` calls in order; in phase "poll"
with work pending, `wakeupFd_` is readable or a thread is about to write to it.  The last
is not inductive: `WakeupDue` adds that it already holds before the loop polls and while
functors run, so that only while channels are handled may a functor be pending with no
wakeup under way, and `Rounds` that a round's functors have all run before the next.  It holds for any threads, channels and
functors, so it carries over: `TimersUseTheLoop` and `ConnectionUsesTheLoop` show that the
extended specifications implement `LoopSpec` (each step is a step of the loop or leaves its
variables alone), and `FunctorsRunInOrder` and `LoopIsWoken` follow.

`ConnectionProofs` proves `ConnectionTypes`, `ClosesOnce`, `BufferedGetsWritten`, `ClosedIsQuiet`,
`SendsAreSafe` and `StreamIsInOrder` from `ConnectionAssumption` and the loop's invariant.  None is inductive
alone: a connection that `poll()` has reported must still be open when its handler runs
(`ReportedIsOpen`, from the order of channels and functors in an iteration, `Stages`); an
open one is registered and polled (`States`); and one `connectDestroyed` is queued at most,
after the close (`DestroyedOnce`, of `functors` and `pending` together).  `StreamIsInOrder`, that the socket, `outputBuffer_` and the
queued sends hold the bytes in the order of the sends, follows the queue call by call: `CallOrderStep` says what a
functor that runs takes from it, `BytesStep` what each step does to the bytes.

`TimerQueueProofs` proves `TimerTypes`, `SetsAgree`, `NoOversleeping` and `CancelledTimers`
from `TimerAssumption`, the loop's invariant and one of its own, `IInv`.  The properties speak
of the queue with `AddQueued`, a search of both queues; the proof uses the set `Adding` of timers
whose addition waits (`AddQueuedIs`), which a call extends by one and a functor that runs
reduces by one, because each is queued once (`AddedOnce`).  An address may be used again, so
that no `TimerId` is made twice rests on `Numbers` (all sequence numbers so far are at most as many as
the ids made); what is put back after a batch is not cancelled because `Dead` follows a
cancelled timer through the whole batch, not only while it has yet to run.  `Steps` sorts the
steps by what they do to timers, and each part of the invariant has a lemma over that list.

`HttpStreamProofs` proves `HttpTypes`, that `HttpTypeOK` holds: types, and that every mark points into the bytes of the
read; `NoMarkIsReplaced`, http_parser's assertion that at most one mark is set, over all its states and for
all requests; and `ClosesForCause`, that `ClosedForCause` holds, from `HttpAssumption` and `FramedAssumption`.  That the parser refuses no
byte a client means to send takes its place within the grammar of a request.  The invariant, `InPlace`, says that the bytes in flight are a
sequence g but for spoiled bytes (`Covers`), where g is the end of what was meant to be sent, from a place in request
`Len(out) + 1`, and that state, flags and `remaining` fit this place: `Located` has a clause for each of the 25 states.  The places are the
`...On` operators: what follows the method, i bytes of the URL, header h, j chunks.  `RequestLeads`, `HeaderLeads`, `IdentityLeads` and `ChunkLeads`
say which byte leads from which place to which; they are proved by unfolding the joined sequences of headers, chunks and requests one element
at a time (`OnwardNext`), by induction on their number.  Each action has a lemma `...Moves`, that it goes from a place to the next one;
`CompleteMoves` goes on to the next request, whose bytes only then count as refused if the last one closes the connection; and `RefusedForCause`,
that the byte meant at a place is one of those its state takes, so that `Fail` has met a spoiled byte or is behind the last request.  A
spoiled byte is never taken (`BadAhead`), hence no spoiled request handed over.

`WsStreamProofs` proves all four properties of `WsStream`, for any frames, reads and bounds: `StreamTypes`,
`CutsAreInvisible`, `ErrorsHaveCauses`, `MalformedFramesClose`.  They say what is so after n frames, but the state only has
the bytes that are left.  The invariant, `StreamInv`, connects the two.  `Run` says that these are the end of what was sent, without a
gap; `At(w, s, k)` that the parser has read the frames before the k-th, and of that one exactly the header and body bytes
missing in s; and `Told` that codec and callbacks are right for k - 1 frames: either there was a cause to close the
connection, or the fragments were in order (`Orderly`), `cur_message_type_` is that of the last one begun (`Tracks`), and what is
kept and was told is what the frames mean (`Gathered`, `Events`).  `FrameTold` shows that a frame keeps this, one case for each callback
and each refusal; `BodyStep` and `ParseStep` that `Parse` stops at a byte of the stream where `At` holds again, or gives up;
`RoundStep` that a round of the loop leaves less in the buffer; and `OnDataStep` by induction that the loop ends with it empty.  A
frame that is sent changes nothing about those before it (`SameOrder`, `SameEvents`), which is why the properties hold while more arrives.

`Induction` has what three of these modules need of the naturals: `UpTo` and `Iteration` state induction and recursion with a set and a
function in place of the library's operator parameter.

Only model-checked: `RequestsArrive` of `HttpStream`, which adds to the place of the parser what each field of the codec
and the bytes since the mark hold there.  Liveness (`Handover`, `FunctorsRun`, `DueTimersRun`,
`QuitStops`, `CloseIsHandled`) is out of the prover's reach.

## Plan

Done, in this order: `Session`, `Delivery`, `SessionProofs`; `Handover`, `HandoverProofs`; `WsStream`, `WsStreamProofs`; `EventLoop`,
`TimerQueue`, `Connection` and their proofs; `HttpStream` and `HttpStreamProofs`.

Left:

- `HttpStreamProofs`: `RequestsArrive`.  `InPlace` says where the parser is; a second layer would say, for each of its
   places, what it has read: the fields of `codec` and the bytes since the mark are those of request `k` up to there,
   or what `cut` says is missing.
- `Payload`: encoding and decoding of packets and of sent frames as functions against a
   reference.

## Not modelled

- rapidjson and bytree: a JSON library and string helpers, pure data.
- muduo's base, inspect, protobuf, protorpc and http: vendored, and not used by the
  server but for logging, threads and containers.  `Connector`, `TcpClient` and
  `EventLoopThreadPool`: the server connects to nobody and has one loop.
- Of `TcpConnection`: `shutdown`, `forceCloseWithDelay`, `startRead`, `stopRead` and the high-water mark,
  which the server does not use.
- Of http_parser: responses, CONNECT, HTTP/1.0 keep-alive, chunk parameters and trailers,
  the limit on the size of headers and `http_parser_parse_url`; letters of methods and header
  names, which only decide the class of a byte.
- `SendMessage` and `Flush` from two threads at once ("multiple threads unsafe?",
  `socket.cc:142`): no program of the repository does it, and a race on `write_buffer_` has no
  outcomes that a state could stand for.
- Files that no CMakeLists compiles (`base_server.cc`, `websocket_server.cc`).
- Ping timeouts do not exist in the code (`ping_timeout_` is only sent to the client).
