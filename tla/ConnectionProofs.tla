-------------------------- MODULE ConnectionProofs --------------------------
(***************************************************************************)
(* Theorems about Connection, for every number of threads, sends and bytes *)
(* of a message.  The invariant has the loop's own as its first part, for  *)
(* what it says of the order of functors.                                  *)
(***************************************************************************)
EXTENDS Connection, EventLoopProofs

\* Which step is taken in which phase of the loop.
Stages ==
  /\ active # {} => phase = "events"
  /\ step # "idle" <=> inCallback
  /\ step \in {"other", "handleRead", "message", "handleWrite"} => phase = "events"
  /\ step \in {"forceCloseInLoop", "functor"} => phase = "functors"
  /\ step \in {"handleRead", "message"} => Socket \notin active

\* A connection that poll() has reported is still open when its handler runs.
ReportedIsOpen ==
  Socket \in active \/ step \in {"handleRead", "message"} => state \in Open

\* What belongs to each state of the connection.
States ==
  /\ state = "none" => interest = {} /\ output = <<>> /\ Waiting = {} /\ \A t \in Threads : sending[t] = {}
  /\ state \in Open => "in" \in interest /\ polled /\ registered
  /\ state # "none" => handled
  /\ ClosedStaysQuiet

Destroys(w) == w[2].op = "connectDestroyed"

\* connectDestroyed is queued once, by the close.
DestroyedOnce ==
  /\ \A w \in Waiting : Destroys(w) => state = "kDisconnected" /\ polled
  /\ \A v, w \in Waiting : Destroys(v) /\ Destroys(w) => v = w

IInv ==
  /\ LoopInv /\ TypeOK
  /\ Stages /\ ReportedIsOpen /\ States /\ DestroyedOnce
  /\ BufferedIsAwaited /\ AssertionsHold

---------------------------------------------------------------------------
(* The loop.                                                               *)

LEMMA FunctorsAre ==
  /\ [op |-> "connectDestroyed"] \in Functors
  /\ [op |-> "forceCloseInLoop"] \in Functors
  /\ \A m \in Messages : [op |-> "sendInLoop", message |-> m] \in Functors
BY ConnectionAssumption DEF ConnectionFunctors

\* handleClose queues connectDestroyed, or leaves the loop alone.
LEMMA CloseInLoop ==
  ASSUME HandleClose
  PROVE  QueueInLoop([op |-> "connectDestroyed"]) \/ UNCHANGED loopVars
BY DEF HandleClose

LEMMA LoopStep ==
  ASSUME TypeOK, [Next]_vars
  PROVE  [LoopNext]_loopVars
<1> USE DEF LoopNext
<1>1. CASE \E ready \in SUBSET Channels : SocketPoll(ready)
  BY <1>1 DEF SocketPoll, LoopThread
<1>2. CASE LoopOnly \/ SocketPollTimeout
  BY <1>2 DEF LoopOnly, SocketPollTimeout, LoopThread
<1>3. CASE HandleOther \/ HandleSocket
  BY <1>3, ConnectionAssumption DEF HandleOther, HandleSocket, LoopThread
<1>4. CASE ReadMessage \/ ReadError \/ MessageReturns \/ NewConnection \/ Send \/ Upgrade \/ Peer
  BY <1>4 DEF ReadMessage, ReadError, MessageReturns, NewConnection, Send, Upgrade, Peer,
              PeerSends, PeerCloses, PeerResets, unchangedButNetwork
<1>5. CASE ReadEnd \/ ForceCloseInLoop
  BY <1>5, CloseInLoop, FunctorsAre DEF ReadEnd, ForceCloseInLoop, Calls
<1>6. CASE SocketReturns \/ OtherReturns \/ RunSend \/ RunForceClose \/ RunDestroyed
  BY <1>6 DEF SocketReturns, OtherReturns, RunSend, RunForceClose, RunDestroyed, LoopThread
<1>7. CASE ForceClose
  BY <1>7, FunctorsAre DEF ForceClose, Calls
<1>8. ASSUME NEW t \in Threads, ThreadSteps(t)
      PROVE  [LoopNext]_loopVars
  <2>1. CASE BeginSend(t)
    BY <2>1 DEF BeginSend
  <2>2. CASE QueueSend(t)
    <3>1. PICK m \in sending[t] : Queue(t, [op |-> "sendInLoop", message |-> m])
      BY <2>2 DEF QueueSend
    <3>2. m \in Messages
      BY DEF TypeOK
    <3> QED
      BY <3>1, <3>2, FunctorsAre DEF Calls
  <2>3. CASE Wakeup(t)
    BY <2>3 DEF Calls
  <2> QED
    BY <1>8, <2>1, <2>2, <2>3 DEF ThreadSteps
<1>9. CASE UNCHANGED vars
  BY <1>9 DEF vars
<1> QED
  BY <1>1, <1>2, <1>3, <1>4, <1>5, <1>6, <1>7, <1>8, <1>9 DEF Next, LoopSteps, Handlers, UserCalls

---------------------------------------------------------------------------
(* The initial state.                                                      *)

LEMMA InitInv == Init => IInv
<1> SUFFICES ASSUME Init PROVE IInv
  OBVIOUS
<1>1. LoopInit /\ LoopInv
  BY LoopInitInv DEF Init
<1>2. Waiting = {}
  BY DEF Init, LoopInit, Waiting
<1>3. TypeOK
  <2>1. /\ output \in Seq(Messages \X (1..MessageBytes)) /\ wire \in Seq(Messages \X (1..MessageBytes))
        /\ sent \in Seq(Messages)
    BY EmptySeq DEF Init
  <2>2. sending \in [Threads -> SUBSET Messages]
    BY DEF Init
  <2>3. calls \in 0..MaxSends
    BY ConnectionAssumption DEF Init
  <2>4. TypeOK!2 /\ TypeOK!3 /\ TypeOK!4 /\ TypeOK!5 /\ TypeOK!6
    BY DEF Init
  <2>5. TypeOK!9 /\ TypeOK!10 /\ TypeOK!14
    BY DEF Init
  <2> QED
    BY <1>1, <2>1, <2>2, <2>3, <2>4, <2>5 DEF TypeOK, LoopInv
<1>4. Stages /\ ReportedIsOpen
  BY <1>1 DEF Init, LoopInit, Stages, ReportedIsOpen
<1>5. States /\ DestroyedOnce
  BY <1>2 DEF Init, States, Open, ClosedStaysQuiet, DestroyedOnce
<1>6. BufferedIsAwaited /\ AssertionsHold
  BY DEF Init, BufferedIsAwaited, AssertionsHold, Open
<1> QED
  BY <1>1, <1>3, <1>4, <1>5, <1>6 DEF IInv

---------------------------------------------------------------------------
(* Each part of the invariant is preserved.                                *)

LEMMA StagesStep ==
  ASSUME IInv, [Next]_vars
  PROVE  Stages'
<1> USE DEF IInv, Stages, Rounds, LoopInv, control, queues
<1>1. CASE \E ready \in SUBSET Channels : SocketPoll(ready)
  BY <1>1 DEF SocketPoll, Poll
<1>2. CASE LoopOnly \/ SocketPollTimeout
  BY <1>2 DEF LoopOnly, SocketPollTimeout, unchangedConnection, Loop, HandleRead,
              SwapFunctors, Iterate, PollTimeout
<1>3. CASE HandleOther \/ HandleSocket
  BY <1>3 DEF HandleOther, HandleSocket, HandleEvent
<1>4. CASE ReadMessage \/ ReadError \/ MessageReturns \/ NewConnection \/ Send \/ Upgrade \/ Peer
  BY <1>4 DEF loopVars, ReadMessage, ReadError, MessageReturns, NewConnection, Send, Upgrade, Peer,
              PeerSends, PeerCloses, PeerResets, unchangedButNetwork
<1>5. CASE ReadEnd \/ ForceCloseInLoop
  BY <1>5, CloseInLoop DEF ReadEnd, ForceCloseInLoop, QueueInLoop, PushBack, loopVars
<1>6. CASE SocketReturns \/ OtherReturns
  BY <1>6 DEF SocketReturns, OtherReturns, Return
<1>7. CASE RunSend \/ RunForceClose \/ RunDestroyed
  BY <1>7 DEF RunSend, RunForceClose, RunDestroyed, RunFunctor
<1>8. CASE ForceClose
  BY <1>8 DEF ForceClose, QueueInLoop, PushBack
<1>9. CASE \E t \in Threads : ThreadSteps(t)
  <2>1. UNCHANGED <<phase, active, inCallback, step>>
    BY <1>9 DEF ThreadSteps, BeginSend, QueueSend, Queue, Wakeup, unchangedConnection, loopVars
  <2> QED
    BY <2>1
<1>10. CASE UNCHANGED vars
  BY <1>10 DEF vars, loopVars
<1> QED
  BY <1>1, <1>2, <1>3, <1>4, <1>5, <1>6, <1>7, <1>8, <1>9, <1>10
     DEF Next, LoopSteps, Handlers, UserCalls

LEMMA ReportedStep ==
  ASSUME IInv, [Next]_vars
  PROVE  ReportedIsOpen'
<1> USE DEF IInv, Stages, ReportedIsOpen, States, Open, LoopInv, control, queues
<1>1. CASE \E ready \in SUBSET Channels : SocketPoll(ready)
  BY <1>1 DEF SocketPoll, Poll, Readable, ClosedStaysQuiet, TypeOK
<1>2. CASE LoopOnly \/ SocketPollTimeout
  BY <1>2 DEF LoopOnly, SocketPollTimeout, unchangedConnection, Loop, HandleRead,
              SwapFunctors, Iterate, PollTimeout
<1>3. CASE HandleOther \/ HandleSocket
  BY <1>3 DEF HandleOther, HandleSocket, HandleEvent
<1>4. CASE ReadMessage \/ ReadError \/ MessageReturns \/ NewConnection \/ Send \/ Upgrade \/ Peer
  BY <1>4 DEF loopVars, ReadMessage, ReadError, MessageReturns, NewConnection, Send, Upgrade, Peer,
              PeerSends, PeerCloses, PeerResets, unchangedButNetwork
<1>5. CASE ReadEnd
  BY <1>5, CloseInLoop DEF ReadEnd, QueueInLoop, PushBack, loopVars
<1>6. CASE ForceCloseInLoop
  BY <1>6, CloseInLoop DEF ForceCloseInLoop, QueueInLoop, PushBack, loopVars
<1>7. CASE SocketReturns \/ OtherReturns
  BY <1>7 DEF SocketReturns, OtherReturns, Return
<1>8. CASE RunSend \/ RunForceClose \/ RunDestroyed
  BY <1>8 DEF RunSend, RunForceClose, RunDestroyed, RunFunctor
<1>9. CASE ForceClose
  BY <1>9 DEF ForceClose, QueueInLoop, PushBack
<1>10. CASE \E t \in Threads : ThreadSteps(t)
  BY <1>10 DEF ThreadSteps, BeginSend, QueueSend, Queue, Wakeup, PushBack, unchangedConnection, loopVars
<1>11. CASE UNCHANGED vars
  BY <1>11 DEF vars, loopVars
<1> QED
  BY <1>1, <1>2, <1>3, <1>4, <1>5, <1>6, <1>7, <1>8, <1>9, <1>10, <1>11
     DEF Next, LoopSteps, Handlers, UserCalls

LEMMA AssertionsStep ==
  ASSUME IInv, [Next]_vars
  PROVE  AssertionsHold'
<1> USE DEF IInv, AssertionsHold
<1>1. CASE ReadEnd
  BY <1>1 DEF ReadEnd, HandleClose, ReportedIsOpen, States
<1>2. CASE ForceCloseInLoop
  BY <1>2 DEF ForceCloseInLoop, HandleClose, StillOpen, States
<1>3. CASE RunDestroyed
  <2>1. Head(functors) \in Waiting /\ Destroys(Head(functors))
    BY <1>3, WaitingRun DEF RunDestroyed, Destroys, LoopInv
  <2> QED
    BY <1>3, <2>1 DEF RunDestroyed, DestroyedOnce, States, ClosedStaysQuiet
<1>4. CASE UNCHANGED failed
  BY <1>4
<1>5. CASE \E t \in Threads : ThreadSteps(t)
  BY <1>4, <1>5 DEF ThreadSteps, BeginSend, QueueSend, unchangedConnection
<1>6. CASE LoopSteps
  BY <1>1, <1>2, <1>3, <1>4, <1>6 DEF LoopSteps, Handlers, SocketPoll, LoopOnly, HandleOther, HandleSocket, ReadMessage,
     ReadError, MessageReturns, SocketReturns, OtherReturns, RunSend, RunForceClose, unchangedConnection
<1>7. CASE SocketPollTimeout \/ UserCalls \/ Peer
  BY <1>4, <1>7 DEF SocketPollTimeout, UserCalls, NewConnection, Send, ForceClose, Upgrade, Peer,
     PeerSends, PeerCloses, PeerResets, unchangedConnection, unchangedButNetwork
<1>8. CASE UNCHANGED vars
  BY <1>4, <1>8 DEF vars
<1> QED
  BY <1>5, <1>6, <1>7, <1>8 DEF Next

LEMMA WaitingKept ==
  ASSUME UNCHANGED <<functors, pending>>
  PROVE  Waiting' = Waiting
BY DEF Waiting

\* The steps that queue a functor, and those that run one, apart from the rest.
LEMMA WaitingSteps ==
  ASSUME IInv, [Next]_vars
  PROVE  \/ Waiting' = Waiting
         \/ RunSend \/ RunForceClose \/ RunDestroyed
         \/ ForceClose \/ ReadEnd \/ (ForceCloseInLoop /\ StillOpen) \/ \E t \in Threads : QueueSend(t)
<1> USE WaitingKept DEF queues, control
<1>1. CASE \E ready \in SUBSET Channels : SocketPoll(ready)
  BY <1>1 DEF SocketPoll, Poll
<1>2. CASE LoopOnly
  BY <1>2, WaitingSwap DEF LoopOnly, Loop, HandleRead, Iterate, IInv, LoopInv
<1>3. CASE SocketPollTimeout \/ HandleOther \/ HandleSocket
  BY <1>3 DEF SocketPollTimeout, PollTimeout, HandleOther, HandleSocket, HandleEvent
<1>4. CASE ReadMessage \/ ReadError \/ MessageReturns \/ NewConnection \/ Send \/ Upgrade \/ Peer
  BY <1>4 DEF loopVars, ReadMessage, ReadError, MessageReturns, NewConnection, Send, Upgrade, Peer,
              PeerSends, PeerCloses, PeerResets, unchangedButNetwork
<1>5. CASE ReadEnd \/ ForceCloseInLoop
  BY <1>5 DEF ReadEnd, ForceCloseInLoop, loopVars
<1>6. CASE SocketReturns \/ OtherReturns
  BY <1>6 DEF SocketReturns, OtherReturns, Return
<1>7. CASE RunSend \/ RunForceClose \/ RunDestroyed
  BY <1>7
<1>8. CASE \E t \in Threads : ThreadSteps(t)
  BY <1>8 DEF ThreadSteps, BeginSend, Wakeup, unchangedConnection, loopVars
<1>9. CASE UNCHANGED vars
  BY <1>9 DEF vars, loopVars
<1> QED
  BY <1>1, <1>2, <1>3, <1>4, <1>5, <1>6, <1>7, <1>8, <1>9 DEF Next, LoopSteps, Handlers, UserCalls

\* Only handleClose, which finds the connection open, and connectDestroyed,
\* which finds it closed, touch both polled and state.
LEMMA StateSteps ==
  ASSUME IInv, [Next]_vars
  PROVE  /\ state = "kDisconnected" => state' = "kDisconnected"
         /\ polled => polled' \/ RunDestroyed
         /\ state # "none" => state' # "none" /\ handled'
<1> USE DEF IInv, States, Open, ReportedIsOpen
<1>1. CASE LoopSteps
  BY <1>1 DEF LoopSteps, Handlers, SocketPoll, LoopOnly, HandleOther, HandleSocket, ReadMessage,
     ReadError, ReadEnd, MessageReturns, SocketReturns, OtherReturns, RunSend, RunForceClose,
     ForceCloseInLoop, HandleClose, HandlerClosed, StillOpen, RunDestroyed, unchangedConnection, channel, owners
<1>2. CASE SocketPollTimeout \/ UserCalls \/ Peer
  BY <1>2 DEF SocketPollTimeout, UserCalls, NewConnection, Send, ForceClose, UserCode, Upgrade, Peer,
     PeerSends, PeerCloses, PeerResets, unchangedConnection, unchangedButNetwork, channel, owners
<1>3. CASE \E t \in Threads : ThreadSteps(t)
  BY <1>3 DEF ThreadSteps, BeginSend, QueueSend, unchangedConnection, channel, owners
<1>4. CASE UNCHANGED vars
  BY <1>4 DEF vars, channel, owners
<1> QED
  BY <1>1, <1>2, <1>3, <1>4 DEF Next

LEMMA DestroyedStep ==
  ASSUME IInv, [Next]_vars
  PROVE  DestroyedOnce'
<1> USE DEF IInv, LoopInv, DestroyedOnce
<1>1. CASE Waiting' = Waiting /\ ~RunDestroyed
  BY <1>1, StateSteps DEF Destroys
<1>2. CASE RunFunctor
  <2>1. Head(functors) \in Waiting /\ Waiting' \subseteq Waiting \ {Head(functors)}
    BY <1>2, WaitingRun
  <2>2. CASE RunDestroyed
    <3>1. Destroys(Head(functors))
      BY <2>2 DEF RunDestroyed, Destroys
    <3> QED
      BY <2>1, <3>1 DEF Destroys
  <2>3. CASE ~RunDestroyed
    BY <2>1, <2>3, StateSteps DEF Destroys
  <2> QED
    BY <2>2, <2>3
<1>3. CASE ForceClose
  <2>1. Waiting' = Waiting \cup {<<queued + 1, [op |-> "forceCloseInLoop"]>>}
    BY <1>3, WaitingPush, FunctorsAre DEF ForceClose, QueueInLoop
  <2>2. state \in Open /\ state' \in Open
    BY <1>3 DEF ForceClose, Open
  <2> QED
    BY <2>1, <2>2 DEF Destroys, Open
<1>4. CASE ReadEnd \/ (ForceCloseInLoop /\ StillOpen)
  <2>1. state \in Open /\ state' = "kDisconnected" /\ polled /\ polled'
    <3>1. state \in Open
      BY <1>4 DEF ReadEnd, ReportedIsOpen, StillOpen
    <3>2. HandleClose
      BY <1>4 DEF ReadEnd, ForceCloseInLoop
    <3> QED
      BY <3>1, <3>2 DEF HandleClose, States
  <2>2. \A w \in Waiting : ~Destroys(w)
    BY <2>1 DEF Open
  <2>3. Waiting' = Waiting \/ Waiting' = Waiting \cup {<<queued + 1, [op |-> "connectDestroyed"]>>}
    <3>1. HandleClose
      BY <1>4 DEF ReadEnd, ForceCloseInLoop
    <3> QED
      BY <3>1, CloseInLoop, WaitingPush, WaitingKept, FunctorsAre DEF QueueInLoop, loopVars, queues
  <2> QED
    BY <2>1, <2>2, <2>3 DEF Destroys
<1>5. ASSUME NEW t \in Threads, QueueSend(t)
      PROVE  DestroyedOnce'
  <2>1. PICK m \in sending[t] : Queue(t, [op |-> "sendInLoop", message |-> m])
    BY <1>5 DEF QueueSend
  <2>2. m \in Messages
    BY DEF TypeOK
  <2>3. Waiting' = Waiting \cup {<<queued + 1, [op |-> "sendInLoop", message |-> m]>>}
    BY <2>1, <2>2, WaitingPush, FunctorsAre DEF Queue
  <2>4. UNCHANGED <<state, polled>>
    BY <1>5 DEF QueueSend, channel
  <2> QED
    BY <2>3, <2>4 DEF Destroys
<1> QED
  BY <1>1, <1>2, <1>3, <1>4, <1>5, WaitingSteps DEF RunSend, RunForceClose, RunDestroyed

\* What writing does to the interest in events.
LEMMA WritingInterest ==
  /\ \A m \in Messages : SendInLoop(m) => /\ interest' = interest \/ interest' = interest \cup {"out"}
                                          /\ GivesUp => interest' = interest
  /\ HandleWrite => interest' = interest \/ interest' = interest \ {"out"}
BY DEF SendInLoop, Awaited, HandleWrite

LEMMA StatesStep ==
  ASSUME IInv, [Next]_vars
  PROVE  States'
<1> USE DEF IInv, LoopInv
<1>1. (state = "none")' => /\ state = "none" /\ (interest = {})' /\ (output = <<>>)'
                           /\ (Waiting = {})' /\ \A t \in Threads : sending'[t] = {}
  <2>1. SUFFICES ASSUME state' = "none"
                 PROVE  (interest = {})' /\ (output = <<>>)' /\ (Waiting = {})' /\ \A t \in Threads : sending'[t] = {}
    BY StateSteps
  <2>2. state = "none" /\ interest = {} /\ output = <<>> /\ Waiting = {} /\ \A t \in Threads : sending[t] = {}
    BY <2>1, StateSteps DEF States
  <2>3. ~RunFunctor
    BY <2>2, WaitingRun
  <2>4. ~ForceClose /\ ~ReadEnd /\ ~(ForceCloseInLoop /\ StillOpen) /\ \A t \in Threads : ~QueueSend(t)
    BY <2>2 DEF ForceClose, ReadEnd, UserCode, ReportedIsOpen, Open, StillOpen, QueueSend
  <2>5. Waiting' = {}
    BY <2>2, <2>3, <2>4, WaitingSteps DEF RunSend, RunForceClose, RunDestroyed
  <2>6. UNCHANGED <<interest, output, sending>>
    <3>1. CASE LoopSteps
      <4>1. (~HandleSocket /\ ~SocketReturns) \/ UNCHANGED <<interest, output, sending>>
        BY <2>2 DEF HandleSocket, SocketReturns, HandleWrite, channel, bytes
      <4> QED
        BY <2>3, <2>4, <3>1, <4>1 DEF LoopSteps, Handlers, SocketPoll, LoopOnly, HandleOther, HandleSocket, ReadMessage,
           ReadError, MessageReturns, OtherReturns, RunSend, RunForceClose,
           ForceCloseInLoop, RunDestroyed, unchangedConnection, channel, bytes
    <3>2. CASE SocketPollTimeout \/ UserCalls \/ Peer
      BY <2>1, <2>2, <2>4, <3>2 DEF SocketPollTimeout, UserCalls, NewConnection, Send, UserCode, Upgrade, Peer,
         PeerSends, PeerCloses, PeerResets, unchangedConnection, unchangedButNetwork, channel, bytes
    <3>3. CASE \E t \in Threads : ThreadSteps(t)
      BY <2>2, <2>4, <3>3 DEF ThreadSteps, BeginSend, unchangedConnection, channel, bytes
    <3>4. CASE UNCHANGED vars
      BY <3>4 DEF vars, channel, bytes
    <3> QED
      BY <3>1, <3>2, <3>3, <3>4 DEF Next
  <2> QED
    BY <2>2, <2>5, <2>6
<1>2. (state # "none" => handled)'
  <2>1. CASE state = "none"
    <3>1. CASE NewConnection
      BY <3>1 DEF NewConnection
    <3>2. CASE ~NewConnection
      <4>1. UNCHANGED state
        <5>1. ~RunFunctor
          BY <2>1, WaitingRun DEF States
        <5> QED
          BY <2>1, <3>2, <5>1 DEF Next, LoopSteps, Handlers, SocketPoll, LoopOnly, HandleOther, HandleSocket, ReadMessage,
             ReadError, ReadEnd, ReportedIsOpen, Open, MessageReturns, SocketReturns, OtherReturns, RunSend, RunForceClose,
             ForceCloseInLoop, StillOpen, RunDestroyed, unchangedConnection, SocketPollTimeout, UserCalls,
             Send, ForceClose, Upgrade, Peer, PeerSends, PeerCloses, PeerResets,
             unchangedButNetwork, ThreadSteps, BeginSend, QueueSend, vars
      <4> QED
        BY <2>1, <4>1
    <3> QED
      BY <3>1, <3>2
  <2>2. CASE state # "none"
    BY <2>2, StateSteps
  <2> QED
    BY <2>1, <2>2
<1>3. (state \in Open => "in" \in interest /\ polled /\ registered)' /\ ClosedStaysQuiet'
  <2> USE DEF States, Open, ClosedStaysQuiet
  <2>1. CASE SocketReturns
    BY <2>1, WritingInterest DEF SocketReturns, owners
  <2>2. CASE RunSend
    <3>1. Head(functors) \in Waiting /\ Head(functors)[2].op = "sendInLoop"
      BY <2>2, WaitingRun DEF RunSend
    <3>2. state # "none"
      BY <3>1
    <3>3. /\ GivesUp => interest' = interest
          /\ interest' = interest \/ interest' = interest \cup {"out"}
      BY <2>2 DEF RunSend, SendInLoop, Awaited
    <3> QED
      BY <2>2, <3>2, <3>3 DEF RunSend, GivesUp, owners, TypeOK
  <2>3. CASE Send
    <3>1. interest' = interest \/ interest' = interest \cup {"out"}
      BY <2>3 DEF Send, SendInLoop, Awaited
    <3> QED
      BY <2>3, <3>1 DEF Send, owners
  <2>4. CASE RunDestroyed
    <3>1. Head(functors) \in Waiting /\ Destroys(Head(functors))
      BY <2>4, WaitingRun DEF RunDestroyed, Destroys
    <3> QED
      BY <2>4, <3>1 DEF RunDestroyed, DestroyedOnce, owners
  <2>5. CASE ReadEnd \/ ForceCloseInLoop
    BY <2>5 DEF ReadEnd, ForceCloseInLoop, HandleClose, channel, owners
  <2>6. CASE NewConnection \/ ForceClose
    BY <2>6 DEF NewConnection, ForceClose, channel, owners
  <2>7. CASE UNCHANGED <<state, interest, polled, registered>>
    BY <2>7
  <2>8. CASE LoopSteps
    BY <2>1, <2>2, <2>4, <2>5, <2>7, <2>8 DEF LoopSteps, Handlers, SocketPoll, LoopOnly, HandleOther, HandleSocket,
       ReadMessage, ReadError, MessageReturns, OtherReturns, RunForceClose, unchangedConnection, channel, owners
  <2>9. CASE SocketPollTimeout \/ UserCalls \/ Peer
    BY <2>3, <2>6, <2>7, <2>9 DEF SocketPollTimeout, UserCalls, Upgrade, Peer,
       PeerSends, PeerCloses, PeerResets, unchangedConnection, unchangedButNetwork, channel, owners
  <2>10. CASE \E t \in Threads : ThreadSteps(t)
    BY <2>7, <2>10 DEF ThreadSteps, BeginSend, QueueSend, unchangedConnection, channel, owners
  <2>11. CASE UNCHANGED vars
    BY <2>7, <2>11 DEF vars, channel, owners
  <2> QED
    BY <2>8, <2>9, <2>10, <2>11 DEF Next
<1> QED
  BY <1>1, <1>2, <1>3 DEF States

---------------------------------------------------------------------------
(* What is written and what is buffered.                                   *)

\* A sequence cut in two.
LEMMA Cut ==
  ASSUME NEW S, NEW s \in Seq(S), NEW n \in 0..Len(s)
  PROVE  /\ SubSeq(s, 1, n) \in Seq(S) /\ SubSeq(s, n + 1, Len(s)) \in Seq(S)
         /\ SubSeq(s, n + 1, Len(s)) = <<>> <=> n = Len(s)
<1>1. SubSeq(s, 1, n) \in Seq(S)
  BY SubSeqProperties
<1>2. SubSeq(s, n + 1, Len(s)) \in Seq(S) /\ Len(SubSeq(s, n + 1, Len(s))) = Len(s) - n
  BY SubSeqProperties
<1>3. \A t \in Seq(S) : t = <<>> <=> Len(t) = 0
  BY EmptySeq
<1>4. Len(s) - n = 0 <=> n = Len(s)
  OBVIOUS
<1> QED
  BY <1>1, <1>2, <1>3, <1>4

BytesOf == Messages \X (1..MessageBytes)

\* What is left of a message after n bytes of it, and those bytes.
LEMMA CutMessage ==
  ASSUME NEW m \in Messages, NEW n \in 0..MessageBytes
  PROVE  /\ SubSeq(Bytes(m), 1, n) \in Seq(BytesOf)
         /\ SubSeq(Bytes(m), n + 1, MessageBytes) \in Seq(BytesOf)
         /\ SubSeq(Bytes(m), n + 1, MessageBytes) = <<>> <=> n = MessageBytes
<1>1. Bytes(m) \in Seq(BytesOf) /\ Len(Bytes(m)) = MessageBytes
  BY ConnectionAssumption DEF Bytes, BytesOf
<1> HIDE DEF Bytes, BytesOf
<1> QED
  BY <1>1, Cut

\* sendInLoop and handleWrite keep the types, and buffer bytes just as they
\* wait for the channel to be writable.
LEMMA SendBuffers ==
  ASSUME TypeOK, NEW m \in Messages, SendInLoop(m)
  PROVE  /\ wire' \in Seq(BytesOf) /\ output' \in Seq(BytesOf) /\ sent' \in Seq(Messages)
         /\ interest' \subseteq {"in", "out"}
         /\ (state \in Open /\ ("out" \in interest <=> output # <<>>))
              => ("out" \in interest' <=> output' # <<>>)
         /\ (fin /\ output = <<>> /\ ((state \in Open /\ "out" \notin interest) \/ GivesUp)) => output' = <<>>
<1>1. wire \in Seq(BytesOf) /\ output \in Seq(BytesOf) /\ sent \in Seq(Messages) /\ interest \subseteq {"in", "out"}
  BY DEF TypeOK, BytesOf
<1>2. CASE GivesUp \/ (WritesDirectly /\ Broken)
  BY <1>1, <1>2 DEF SendInLoop, bytes, Open, GivesUp
<1>3. CASE ~(GivesUp \/ (WritesDirectly /\ Broken))
  <2>1. PICK n \in (IF WritesDirectly THEN 0..MessageBytes ELSE {0}) :
          LET remaining == SubSeq(Bytes(m), n + 1, MessageBytes) IN
          /\ wire' = wire \o SubSeq(Bytes(m), 1, n)
          /\ output' = output \o remaining
          /\ sent' = Append(sent, m)
          /\ Awaited(remaining)
    BY <1>3 DEF SendInLoop
  <2> DEFINE remaining == SubSeq(Bytes(m), n + 1, MessageBytes)
             written == SubSeq(Bytes(m), 1, n)
  <2>2. /\ n \in 0..MessageBytes
        /\ written \in Seq(BytesOf) /\ remaining \in Seq(BytesOf)
        /\ remaining = <<>> <=> n = MessageBytes
    BY CutMessage, ConnectionAssumption
  <2>3. /\ wire' = wire \o written /\ output' = output \o remaining /\ sent' = Append(sent, m)
        /\ interest' = IF remaining # <<>> THEN interest \cup {"out"} ELSE interest
    BY <2>1 DEF Awaited
  <2>4. remaining = <<>> => WritesDirectly
    BY <2>1, <2>2, ConnectionAssumption
  <2> HIDE DEF remaining, written
  <2>5. output' = <<>> <=> output = <<>> /\ remaining = <<>>
    BY <1>1, <2>2, <2>3, ConcatEqualIffEmpty
  <2>6. wire' \in Seq(BytesOf) /\ output' \in Seq(BytesOf) /\ sent' \in Seq(Messages)
    BY <1>1, <2>2, <2>3
  <2> QED
    BY <1>1, <1>3, <2>3, <2>4, <2>5, <2>6 DEF WritesDirectly, Broken
<1> QED
  BY <1>2, <1>3

LEMMA WriteBuffers ==
  ASSUME TypeOK, HandleWrite
  PROVE  /\ wire' \in Seq(BytesOf) /\ output' \in Seq(BytesOf)
         /\ interest' \subseteq {"in", "out"} /\ fin' \in BOOLEAN
         /\ ("out" \in interest <=> output # <<>>) => ("out" \in interest' <=> output' # <<>>)
         /\ (fin => output = <<>>) => (fin' => output' = <<>>)
<1>1. wire \in Seq(BytesOf) /\ output \in Seq(BytesOf) /\ interest \subseteq {"in", "out"} /\ fin \in BOOLEAN
  BY DEF TypeOK, BytesOf
<1>2. CASE ~("out" \in interest /\ ~Broken)
  BY <1>1, <1>2 DEF HandleWrite
<1>3. CASE "out" \in interest /\ ~Broken
  <2>1. PICK n \in 0..Len(output) :
          /\ wire' = wire \o SubSeq(output, 1, n)
          /\ output' = SubSeq(output, n + 1, Len(output))
          /\ interest' = IF output' = <<>> THEN interest \ {"out"} ELSE interest
          /\ fin' = (fin \/ ShutsDown)
    BY <1>3 DEF HandleWrite
  <2>2. SubSeq(output, 1, n) \in Seq(BytesOf) /\ SubSeq(output, n + 1, Len(output)) \in Seq(BytesOf)
    BY <1>1, <2>1, Cut
  <2>3. wire' \in Seq(BytesOf) /\ output' \in Seq(BytesOf)
    BY <1>1, <2>1, <2>2
  <2> QED
    BY <1>1, <1>3, <2>1, <2>3 DEF Broken, ShutsDown
<1> QED
  BY <1>2, <1>3

\* The functor of a send carries a message.
LEMMA QueuedMessage ==
  ASSUME TypeOK, RunSend
  PROVE  Head(functors)[2].message \in Messages
<1>1. Head(functors) \in Nat \X Functors
  <2>1. functors \in Seq(Nat \X Functors) /\ functors # <<>>
    BY DEF TypeOK, LoopTypeOK, RunSend, RunFunctor
  <2> QED
    BY <2>1, HeadTailProperties
<1>2. Head(functors)[2] \in ConnectionFunctors /\ Head(functors)[2].op = "sendInLoop"
  BY <1>1, ConnectionAssumption DEF RunSend
<1> QED
  BY <1>2 DEF ConnectionFunctors

LEMMA BufferedStep ==
  ASSUME IInv, [Next]_vars
  PROVE  BufferedIsAwaited'
<1> USE DEF IInv, LoopInv, BufferedIsAwaited
<1>1. CASE SocketReturns
  <2>1. /\ state' = state
        /\ HandleWrite \/ UNCHANGED <<output, interest, fin>>
    BY <1>1 DEF SocketReturns
  <2> QED
    BY <2>1, WriteBuffers
<1>2. CASE RunSend
  <2>1. PICK m \in Messages : SendInLoop(m)
    BY <1>2, QueuedMessage DEF RunSend
  <2>2. Head(functors) \in Waiting
    BY <1>2, WaitingRun DEF RunSend
  <2>3. state \in Open \/ GivesUp
    BY <2>2 DEF States, Open, GivesUp, TypeOK
  <2>4. UNCHANGED <<state, fin>>
    BY <1>2 DEF RunSend, network
  <2> QED
    BY <2>1, <2>3, <2>4, SendBuffers DEF Open, GivesUp
<1>3. CASE Send
  <2>1. <<LoopCaller, calls + 1>> \in Messages
    BY <1>3, ConnectionAssumption DEF Send, TypeOK, Messages
  <2>2. PICK m \in Messages : SendInLoop(m)
    BY <1>3, <2>1 DEF Send
  <2>3. UNCHANGED <<state, fin>> /\ state \in Open
    BY <1>3 DEF Send, network, Open
  <2> QED
    BY <2>2, <2>3, SendBuffers
<1>4. CASE ReadEnd \/ (ForceCloseInLoop /\ StillOpen)
  <2>1. state' = "kDisconnected" /\ UNCHANGED <<output, fin>>
    BY <1>4 DEF ReadEnd, ForceCloseInLoop, HandleClose, bytes, network
  <2> QED
    BY <2>1 DEF Open
<1>5. CASE RunDestroyed
  <2>1. Head(functors) \in Waiting /\ Destroys(Head(functors))
    BY <1>5, WaitingRun DEF RunDestroyed, Destroys
  <2> QED
    BY <1>5, <2>1 DEF RunDestroyed, DestroyedOnce, Open, bytes, network
<1>6. CASE NewConnection
  <2>1. "out" \notin interest' /\ output' = output /\ fin' = fin
    BY <1>6 DEF NewConnection, bytes, network
  <2>2. output = <<>>
    BY <1>6 DEF NewConnection, States
  <2> QED
    BY <2>1, <2>2
<1>7. CASE ForceClose
  BY <1>7 DEF ForceClose, Open, channel, network, bytes
<1>8. CASE UNCHANGED <<state, interest, output, fin>>
  BY <1>8
<1>9. CASE LoopSteps
  BY <1>1, <1>2, <1>4, <1>5, <1>8, <1>9 DEF LoopSteps, Handlers, SocketPoll, LoopOnly, HandleOther, HandleSocket,
     ReadMessage, ReadError, ForceCloseInLoop, MessageReturns, OtherReturns, RunForceClose, unchangedConnection,
     channel, network, bytes
<1>10. CASE SocketPollTimeout \/ UserCalls \/ Peer
  BY <1>3, <1>6, <1>7, <1>8, <1>10 DEF SocketPollTimeout, UserCalls, Upgrade, Peer,
     PeerSends, PeerCloses, PeerResets, unchangedConnection, unchangedButNetwork, channel, network, bytes
<1>11. CASE \E t \in Threads : ThreadSteps(t)
  BY <1>8, <1>11 DEF ThreadSteps, BeginSend, QueueSend, unchangedConnection, channel, network, bytes
<1>12. CASE UNCHANGED vars
  BY <1>8, <1>12 DEF vars, channel, network, bytes
<1> QED
  BY <1>9, <1>10, <1>11, <1>12 DEF Next

---------------------------------------------------------------------------
(* The types.                                                              *)

\* The other variables.
StateTypes ==
  /\ state \in {"none", "kConnected", "kDisconnecting", "kDisconnected"}
  /\ interest \subseteq {"in", "out"}
  /\ revents \subseteq {"err", "in", "out"}
  /\ step \in {"idle", "other", "handleRead", "message", "handleWrite", "forceCloseInLoop", "functor"}
  /\ peer \in {"open", "closed", "reset"}

FlagTypes ==
  /\ polled \in BOOLEAN
  /\ registered \in BOOLEAN /\ handled \in BOOLEAN /\ upgraded \in BOOLEAN
  /\ inbound \in BOOLEAN /\ error \in BOOLEAN /\ fin \in BOOLEAN
  /\ failed \in BOOLEAN

ByteTypes ==
  /\ wire \in Seq(BytesOf) /\ output \in Seq(BytesOf) /\ sent \in Seq(Messages)

CallTypes ==
  /\ sending \in [Threads -> SUBSET Messages]
  /\ calls \in 0..MaxSends

LEMMA TypeOKIs == TypeOK <=> LoopTypeOK /\ StateTypes /\ FlagTypes /\ ByteTypes /\ CallTypes
BY DEF TypeOK, StateTypes, FlagTypes, ByteTypes, CallTypes, BytesOf

LEMMA ByteTypesStep ==
  ASSUME TypeOK, ByteTypes, [Next]_vars
  PROVE  ByteTypes'
<1>1. CASE SocketReturns
  <2>1. HandleWrite \/ UNCHANGED <<wire, output>>
    BY <1>1 DEF SocketReturns
  <2>2. UNCHANGED sent
    BY <1>1 DEF SocketReturns
  <2> QED
    BY <2>1, <2>2, WriteBuffers DEF ByteTypes
<1>2. CASE RunSend
  BY <1>2, QueuedMessage, SendBuffers DEF RunSend, ByteTypes
<1>3. CASE Send
  <2>1. <<LoopCaller, calls + 1>> \in Messages
    BY <1>3, ConnectionAssumption DEF Send, Messages, TypeOK
  <2> QED
    BY <1>3, <2>1, SendBuffers DEF Send, ByteTypes
<1>4. CASE UNCHANGED bytes
  BY <1>4 DEF bytes, ByteTypes
<1>5. CASE LoopSteps
  BY <1>1, <1>2, <1>4, <1>5 DEF LoopSteps, Handlers, SocketPoll, LoopOnly, HandleOther, HandleSocket, ReadMessage,
     ReadError, ReadEnd, HandleClose, MessageReturns, OtherReturns, RunForceClose, ForceCloseInLoop, RunDestroyed,
     unchangedConnection
<1>6. CASE SocketPollTimeout \/ UserCalls \/ Peer
  BY <1>3, <1>4, <1>6 DEF SocketPollTimeout, UserCalls, NewConnection, ForceClose, Upgrade, Peer,
     PeerSends, PeerCloses, PeerResets, unchangedConnection, unchangedButNetwork
<1>7. CASE \E t \in Threads : ThreadSteps(t)
  BY <1>4, <1>7 DEF ThreadSteps, BeginSend, QueueSend, unchangedConnection
<1>8. CASE UNCHANGED vars
  BY <1>4, <1>8 DEF vars
<1> QED
  BY <1>5, <1>6, <1>7, <1>8 DEF Next

LEMMA CallTypesStep ==
  ASSUME CallTypes, [Next]_vars
  PROVE  CallTypes'
<1> USE DEF CallTypes
<1>1. CASE Send
  BY <1>1, ConnectionAssumption DEF Send
<1>2. ASSUME NEW t \in Threads, ThreadSteps(t)
      PROVE  CallTypes'
  <2>1. CASE BeginSend(t)
    <3>1. <<t, calls + 1>> \in Messages /\ calls' \in 0..MaxSends
      BY <2>1, ConnectionAssumption DEF BeginSend, Messages
    <3> QED
      BY <2>1, <3>1 DEF BeginSend
  <2>2. CASE QueueSend(t)
    BY <2>2 DEF QueueSend
  <2>3. CASE UNCHANGED unchangedConnection
    BY <2>3 DEF unchangedConnection
  <2> QED
    BY <1>2, <2>1, <2>2, <2>3 DEF ThreadSteps
<1>3. CASE LoopSteps
  <2>1. UNCHANGED <<sending, calls>>
    BY <1>3 DEF LoopSteps, Handlers, SocketPoll, LoopOnly, HandleOther, HandleSocket, ReadMessage,
       ReadError, ReadEnd, HandleClose, MessageReturns, SocketReturns, OtherReturns, RunSend, RunForceClose,
       ForceCloseInLoop, RunDestroyed, unchangedConnection
  <2> QED
    BY <2>1
<1>4. CASE SocketPollTimeout \/ NewConnection \/ ForceClose \/ Upgrade \/ Peer
  <2>1. UNCHANGED <<sending, calls>>
    BY <1>4 DEF SocketPollTimeout, NewConnection, ForceClose, Upgrade, Peer,
       PeerSends, PeerCloses, PeerResets, unchangedConnection, unchangedButNetwork
  <2> QED
    BY <2>1
<1>5. CASE UNCHANGED vars
  BY <1>5 DEF vars
<1> QED
  BY <1>1, <1>2, <1>3, <1>4, <1>5 DEF Next, UserCalls

LEMMA StateTypesStep ==
  ASSUME TypeOK, StateTypes, [Next]_vars
  PROVE  StateTypes'
<1> USE DEF StateTypes, channel, owners, network
<1>1. CASE SocketReturns
  <2>1. HandleWrite \/ UNCHANGED <<wire, output, interest, fin>>
    BY <1>1 DEF SocketReturns
  <2>2. interest' \subseteq {"in", "out"}
    BY <2>1, WriteBuffers
  <2> QED
    BY <1>1, <2>2 DEF SocketReturns
<1>2. CASE RunSend
  <2>1. interest' \subseteq {"in", "out"}
    BY <1>2, QueuedMessage, SendBuffers DEF RunSend
  <2> QED
    BY <1>2, <2>1 DEF RunSend
<1>3. CASE Send
  <2>1. <<LoopCaller, calls + 1>> \in Messages
    BY <1>3, ConnectionAssumption DEF Send, Messages, TypeOK
  <2>2. interest' \subseteq {"in", "out"}
    BY <1>3, <2>1, SendBuffers DEF Send
  <2> QED
    BY <1>3, <2>2 DEF Send
<1>4. CASE \E ready \in SUBSET Channels : SocketPoll(ready)
  BY <1>4 DEF SocketPoll
<1>5. CASE HandleOther \/ HandleSocket \/ ReadMessage \/ ReadError \/ MessageReturns \/ OtherReturns \/ RunForceClose
  BY <1>5 DEF HandleOther, HandleSocket, ReadMessage, ReadError, MessageReturns, OtherReturns, RunForceClose
<1>6. CASE ReadEnd \/ ForceCloseInLoop
  BY <1>6 DEF ReadEnd, ForceCloseInLoop, HandleClose, HandlerClosed
<1>7. CASE RunDestroyed
  BY <1>7 DEF RunDestroyed
<1>8. CASE NewConnection \/ ForceClose \/ Upgrade
  BY <1>8 DEF NewConnection, ForceClose, Upgrade
<1>9. CASE Peer
  BY <1>9 DEF Peer, PeerSends, PeerCloses, PeerResets, unchangedButNetwork
<1>10. CASE LoopOnly \/ SocketPollTimeout
  BY <1>10 DEF LoopOnly, SocketPollTimeout, unchangedConnection
<1>11. CASE \E t \in Threads : ThreadSteps(t)
  BY <1>11 DEF ThreadSteps, BeginSend, QueueSend, unchangedConnection
<1>12. CASE UNCHANGED vars
  BY <1>12 DEF vars
<1> QED
  BY <1>1, <1>2, <1>3, <1>4, <1>5, <1>6, <1>7, <1>8, <1>9, <1>10, <1>11, <1>12
     DEF Next, LoopSteps, Handlers, UserCalls

LEMMA FlagTypesStep ==
  ASSUME TypeOK, FlagTypes, [Next]_vars
  PROVE  FlagTypes'
<1> USE DEF FlagTypes, channel, owners, network
<1>1. CASE SocketReturns
  <2>1. HandleWrite \/ UNCHANGED <<wire, output, interest, fin>>
    BY <1>1 DEF SocketReturns
  <2>2. fin' \in BOOLEAN
    BY <2>1, WriteBuffers
  <2> QED
    BY <1>1, <2>2 DEF SocketReturns
<1>2. CASE RunSend \/ Send
  BY <1>2 DEF RunSend, Send
<1>4. CASE \E ready \in SUBSET Channels : SocketPoll(ready)
  BY <1>4 DEF SocketPoll
<1>5. CASE HandleOther \/ HandleSocket \/ ReadMessage \/ ReadError \/ MessageReturns \/ OtherReturns \/ RunForceClose
  BY <1>5, ZenonT(30) DEF HandleOther, HandleSocket, ReadMessage, ReadError, MessageReturns, OtherReturns, RunForceClose
<1>6. CASE ReadEnd \/ ForceCloseInLoop
  BY <1>6 DEF ReadEnd, ForceCloseInLoop, HandleClose, HandlerClosed
<1>7. CASE RunDestroyed
  BY <1>7 DEF RunDestroyed
<1>8. CASE NewConnection \/ ForceClose \/ Upgrade
  BY <1>8 DEF NewConnection, ForceClose, Upgrade
<1>9. CASE Peer
  BY <1>9 DEF Peer, PeerSends, PeerCloses, PeerResets, unchangedButNetwork
<1>10. CASE LoopOnly \/ SocketPollTimeout
  BY <1>10 DEF LoopOnly, SocketPollTimeout, unchangedConnection
<1>11. CASE \E t \in Threads : ThreadSteps(t)
  BY <1>11 DEF ThreadSteps, BeginSend, QueueSend, unchangedConnection
<1>12. CASE UNCHANGED vars
  BY <1>12 DEF vars
<1> QED
  BY <1>1, <1>2, <1>4, <1>5, <1>6, <1>7, <1>8, <1>9, <1>10, <1>11, <1>12
     DEF Next, LoopSteps, Handlers, UserCalls

---------------------------------------------------------------------------
(* The order of what is sent.                                              *)

IsSend(w) == w[2].op = "sendInLoop"

\* Of two messages of one thread, m is that of the earlier call.
Before(m, n) == m[1] = n[1] => m[2] < n[2]

\* A message that send() was called with is in sending, then in a functor, then
\* taken by sendInLoop, and on each of these ways it stays behind the earlier
\* ones of its thread.
CallOrder ==
  /\ \A i, j \in 1..Len(sent) : i < j => Before(sent[i], sent[j])
  /\ \A i \in 1..Len(sent) : sent[i][2] <= calls
  /\ \A w \in Waiting : IsSend(w) =>
       /\ w[2].message[1] \in Threads /\ w[2].message[2] <= calls
       /\ \A i \in 1..Len(sent) : Before(sent[i], w[2].message)
       /\ \A v \in Waiting : IsSend(v) /\ v[1] < w[1] => Before(v[2].message, w[2].message)
  /\ \A t \in Threads : \A m \in sending[t] :
       /\ m[1] = t /\ m[2] <= calls
       /\ \A i \in 1..Len(sent) : Before(sent[i], m)
       /\ \A w \in Waiting : IsSend(w) => Before(w[2].message, m)

\* The bytes of the messages s, one message after the other.
LaidOut(stream, s) ==
  /\ Len(stream) = Len(s) * MessageBytes
  /\ \A i \in 1..Len(s), j \in 1..MessageBytes : stream[(i - 1) * MessageBytes + j] = <<s[i], j>>

BytesInOrder == LaidOut(wire \o output, sent)

\* The i-th of n messages ends before they all do.
LEMMA EndsWithin ==
  ASSUME NEW n \in Nat, NEW i \in 1..n, NEW j \in 1..MessageBytes
  PROVE  /\ (i - 1) * MessageBytes + j \in 1..(n * MessageBytes)
         /\ (n + 1) * MessageBytes = n * MessageBytes + MessageBytes
<1>1. MessageBytes \in Nat
  BY ConnectionAssumption
<1>2. PICK d \in Nat : n = i + d
  <2>1. n - i \in Nat /\ n = i + (n - i)
    OBVIOUS
  <2> QED
    BY <2>1
<1>3. n * MessageBytes = (i - 1) * MessageBytes + MessageBytes + d * MessageBytes
  BY <1>1, <1>2
<1>4. d * MessageBytes \in Nat /\ (i - 1) * MessageBytes \in Nat /\ n * MessageBytes \in Nat
  BY <1>1, <1>2
<1>5. (n + 1) * MessageBytes = n * MessageBytes + MessageBytes
  BY <1>1
<1> QED
  BY <1>1, <1>3, <1>4, <1>5

\* Another message is laid out behind the others.
LEMMA LaidOutAppend ==
  ASSUME NEW stream \in Seq(BytesOf), NEW s \in Seq(Messages), LaidOut(stream, s), NEW m \in Messages
  PROVE  LaidOut(stream \o Bytes(m), Append(s, m))
<1> DEFINE n == Len(s)
           all == stream \o Bytes(m)
<1>1. MessageBytes \in Nat \ {0} /\ n \in Nat
  BY ConnectionAssumption
<1>2. /\ Bytes(m) \in Seq(BytesOf) /\ Len(Bytes(m)) = MessageBytes
      /\ \A j \in 1..MessageBytes : Bytes(m)[j] = <<m, j>>
  BY ConnectionAssumption DEF Bytes, BytesOf
<1>3. Len(stream) = n * MessageBytes
  BY DEF LaidOut
<1>4. Len(all) = (n + 1) * MessageBytes
  <2>1. Len(all) = Len(stream) + MessageBytes
    BY <1>2, ConcatProperties
  <2>2. (n + 1) * MessageBytes = n * MessageBytes + MessageBytes
    BY <1>1
  <2> QED
    BY <1>3, <2>1, <2>2
<1>5. Len(Append(s, m)) = n + 1
  OBVIOUS
<1>6. ASSUME NEW i \in 1..(n + 1), NEW j \in 1..MessageBytes
      PROVE  all[(i - 1) * MessageBytes + j] = <<Append(s, m)[i], j>>
  <2>1. CASE i \in 1..n
    <3>1. (i - 1) * MessageBytes + j \in 1..Len(stream)
      BY <1>1, <1>3, <2>1, EndsWithin
    <3>2. all[(i - 1) * MessageBytes + j] = stream[(i - 1) * MessageBytes + j]
      BY <1>2, <3>1, ConcatProperties
    <3>3. Append(s, m)[i] = s[i]
      BY <2>1
    <3> QED
      BY <2>1, <3>2, <3>3 DEF LaidOut
  <2>2. CASE i = n + 1
    <3>1. (i - 1) * MessageBytes + j = Len(stream) + j /\ Len(stream) \in Nat
      BY <1>3, <2>2
    <3>2. /\ Len(stream) + j \in 1..(Len(stream) + Len(Bytes(m)))
          /\ ~(Len(stream) + j <= Len(stream)) /\ Len(stream) + j - Len(stream) = j
      BY <1>1, <1>2, <3>1
    <3>3. all[Len(stream) + j] = Bytes(m)[j]
      BY <1>2, <3>2, ConcatProperties
    <3>4. Append(s, m)[i] = m
      BY <2>2
    <3> QED
      BY <1>2, <3>1, <3>3, <3>4
  <2>3. i \in 1..n \/ i = n + 1
    BY <1>1
  <2> QED
    BY <2>1, <2>2, <2>3
<1> HIDE DEF all
<1> QED
  BY <1>4, <1>5, <1>6 DEF LaidOut, all

\* A message that is cut is still whole.
LEMMA CutAndJoined ==
  ASSUME NEW T, NEW s \in Seq(T), NEW n \in 0..Len(s)
  PROVE  SubSeq(s, 1, n) \o SubSeq(s, n + 1, Len(s)) = s
<1>1. 1 \in 1..(Len(s) + 1) /\ n \in (1 - 1)..Len(s) /\ Len(s) \in n..Len(s)
  OBVIOUS
<1> QED
  BY <1>1, ConcatAdjacentSubSeq, SubSeqFull

\* sendInLoop, which writes only if nothing is buffered, puts the message behind
\* all others, whatever part of it is written, or does nothing.
LEMMA SendExtends ==
  ASSUME TypeOK, NEW m \in Messages, SendInLoop(m)
  PROVE  \/ UNCHANGED bytes
         \/ /\ sent' = Append(sent, m)
            /\ wire' \o output' = (wire \o output) \o Bytes(m)
<1>1. wire \in Seq(BytesOf) /\ output \in Seq(BytesOf)
  BY DEF TypeOK, BytesOf
<1>2. CASE GivesUp \/ (WritesDirectly /\ Broken)
  BY <1>2 DEF SendInLoop
<1>3. CASE ~(GivesUp \/ (WritesDirectly /\ Broken))
  <2>1. PICK n \in (IF WritesDirectly THEN 0..MessageBytes ELSE {0}) :
          /\ wire' = wire \o SubSeq(Bytes(m), 1, n)
          /\ output' = output \o SubSeq(Bytes(m), n + 1, MessageBytes)
          /\ sent' = Append(sent, m)
    BY <1>3 DEF SendInLoop
  <2> DEFINE remaining == SubSeq(Bytes(m), n + 1, MessageBytes)
             written == SubSeq(Bytes(m), 1, n)
  <2>2. /\ Bytes(m) \in Seq(BytesOf) /\ Len(Bytes(m)) = MessageBytes
        /\ n \in 0..MessageBytes
    BY ConnectionAssumption DEF Bytes, BytesOf
  <2>3. written \o remaining = Bytes(m)
    BY <2>2, CutAndJoined
  <2>4. written \in Seq(BytesOf) /\ remaining \in Seq(BytesOf)
    BY <2>2, CutMessage
  <2>5. output = <<>> \/ written = <<>>
    BY <2>1 DEF WritesDirectly
  <2>6. wire' = wire \o written /\ output' = output \o remaining
    BY <2>1
  <2> HIDE DEF remaining, written
  <2>7. CASE output = <<>>
    <3>1. wire \o output = wire /\ output' = remaining
      BY <1>1, <2>4, <2>6, <2>7
    <3>2. (wire \o written) \o remaining = wire \o (written \o remaining)
      BY <1>1, <2>4, ConcatAssociative
    <3> QED
      BY <2>1, <2>3, <2>6, <3>1, <3>2
  <2>8. CASE written = <<>>
    <3>1. wire' = wire /\ remaining = Bytes(m)
      <4>1. wire \o written = wire /\ written \o remaining = remaining
        BY <1>1, <2>4, <2>8, ConcatEqualIffEmpty
      <4> QED
        BY <2>3, <2>6, <4>1
    <3>2. (wire \o output) \o remaining = wire \o (output \o remaining)
      BY <1>1, <2>4, ConcatAssociative
    <3> QED
      BY <2>1, <2>6, <3>1, <3>2
  <2> QED
    BY <2>5, <2>7, <2>8
<1> QED
  BY <1>2, <1>3

\* handleWrite moves bytes from one part of the stream to the other.
LEMMA WriteKeepsStream ==
  ASSUME TypeOK, HandleWrite
  PROVE  wire' \o output' = wire \o output
<1>1. wire \in Seq(BytesOf) /\ output \in Seq(BytesOf)
  BY DEF TypeOK, BytesOf
<1>2. CASE UNCHANGED <<wire, output>>
  BY <1>2
<1>3. ASSUME NEW n \in 0..Len(output), wire' = wire \o SubSeq(output, 1, n),
             output' = SubSeq(output, n + 1, Len(output))
      PROVE  wire' \o output' = wire \o output
  <2>1. SubSeq(output, 1, n) \in Seq(BytesOf) /\ SubSeq(output, n + 1, Len(output)) \in Seq(BytesOf)
    BY <1>1, Cut
  <2>2. SubSeq(output, 1, n) \o SubSeq(output, n + 1, Len(output)) = output
    BY <1>1, CutAndJoined
  <2> DEFINE a == SubSeq(output, 1, n)
             b == SubSeq(output, n + 1, Len(output))
  <2>3. wire' = wire \o a /\ output' = b /\ a \o b = output
    BY <1>3, <2>2
  <2>4. a \in Seq(BytesOf) /\ b \in Seq(BytesOf)
    BY <2>1
  <2> HIDE DEF a, b
  <2>5. (wire \o a) \o b = wire \o (a \o b)
    BY <1>1, <2>4, ConcatAssociative, SMTT(30)
  <2> QED
    BY <2>3, <2>5
<1> QED
  BY <1>2, <1>3 DEF HandleWrite

LEMMA BytesStep ==
  ASSUME IInv, BytesInOrder, [Next]_vars
  PROVE  BytesInOrder'
<1>1. wire \o output \in Seq(BytesOf) /\ sent \in Seq(Messages)
  <2>1. wire \in Seq(BytesOf) /\ output \in Seq(BytesOf) /\ sent \in Seq(Messages)
    BY DEF IInv, TypeOK, BytesOf
  <2> QED
    BY <2>1
<1>2. ASSUME NEW m \in Messages, SendInLoop(m)
      PROVE  BytesInOrder'
  <2>1. CASE UNCHANGED bytes
    BY <2>1 DEF bytes, BytesInOrder
  <2>2. CASE sent' = Append(sent, m) /\ wire' \o output' = (wire \o output) \o Bytes(m)
    <3>1. LaidOut((wire \o output) \o Bytes(m), Append(sent, m))
      BY <1>1, LaidOutAppend DEF BytesInOrder
    <3> QED
      BY <2>2, <3>1 DEF BytesInOrder
  <2> QED
    BY <1>2, <2>1, <2>2, SendExtends DEF IInv
<1>3. CASE SocketReturns
  <2>1. sent' = sent /\ (HandleWrite \/ UNCHANGED <<wire, output>>)
    BY <1>3 DEF SocketReturns
  <2>2. wire' \o output' = wire \o output
    BY <2>1, WriteKeepsStream DEF IInv
  <2> QED
    BY <2>1, <2>2 DEF BytesInOrder
<1>4. CASE RunSend
  BY <1>2, <1>4, QueuedMessage DEF RunSend, IInv
<1>5. CASE Send
  <2>1. <<LoopCaller, calls + 1>> \in Messages
    BY <1>5, ConnectionAssumption DEF Send, Messages, IInv, TypeOK
  <2> QED
    BY <1>2, <1>5, <2>1 DEF Send
<1>6. CASE UNCHANGED bytes
  BY <1>6 DEF bytes, BytesInOrder
<1>7. CASE LoopSteps
  BY <1>3, <1>4, <1>6, <1>7 DEF LoopSteps, Handlers, SocketPoll, LoopOnly, HandleOther, HandleSocket, ReadMessage,
     ReadError, ReadEnd, HandleClose, MessageReturns, OtherReturns, RunForceClose, ForceCloseInLoop, RunDestroyed,
     unchangedConnection
<1>8. CASE SocketPollTimeout \/ UserCalls \/ Peer
  BY <1>5, <1>6, <1>8 DEF SocketPollTimeout, UserCalls, NewConnection, ForceClose, Upgrade, Peer,
     PeerSends, PeerCloses, PeerResets, unchangedConnection, unchangedButNetwork
<1>9. CASE \E t \in Threads : ThreadSteps(t)
  BY <1>6, <1>9 DEF ThreadSteps, BeginSend, QueueSend, unchangedConnection
<1>10. CASE UNCHANGED vars
  BY <1>6, <1>10 DEF vars
<1> QED
  BY <1>7, <1>8, <1>9, <1>10 DEF Next

\* Which steps touch the sends that wait, and what they do to the other ways.
LEMMA SendSteps ==
  ASSUME IInv, [Next]_vars
  PROVE  \/ /\ UNCHANGED <<sent, calls, sending>>
            /\ \A w \in Waiting' : IsSend(w) => w \in Waiting
         \/ RunSend \/ Send
         \/ \E t \in Threads : BeginSend(t) \/ QueueSend(t)
<1> USE DEF IInv, LoopInv
<1>1. CASE RunForceClose \/ RunDestroyed
  <2>1. Waiting' \subseteq Waiting
    BY <1>1, WaitingRun DEF RunForceClose, RunDestroyed
  <2> QED
    BY <1>1, <2>1 DEF RunForceClose, RunDestroyed, bytes
<1>2. CASE ForceClose
  <2>1. Waiting' = Waiting \cup {<<queued + 1, [op |-> "forceCloseInLoop"]>>}
    BY <1>2, WaitingPush, FunctorsAre DEF ForceClose, QueueInLoop
  <2> QED
    BY <1>2, <2>1 DEF ForceClose, bytes, IsSend
<1>3. CASE ReadEnd \/ (ForceCloseInLoop /\ StillOpen)
  <2>1. HandleClose
    BY <1>3 DEF ReadEnd, ForceCloseInLoop
  <2>2. Waiting' = Waiting \/ Waiting' = Waiting \cup {<<queued + 1, [op |-> "connectDestroyed"]>>}
    BY <2>1, CloseInLoop, WaitingPush, WaitingKept, FunctorsAre DEF QueueInLoop, loopVars, queues
  <2> QED
    BY <2>1, <2>2 DEF HandleClose, bytes, IsSend
<1>4. CASE UNCHANGED <<sent, calls, sending>> /\ Waiting' = Waiting
  BY <1>4
<1>5. CASE Waiting' = Waiting
  <2>0. CASE SocketReturns
    BY <1>4, <1>5, <2>0 DEF SocketReturns
  <2>1. CASE LoopSteps
    BY <1>1, <1>3, <1>4, <1>5, <2>0, <2>1 DEF LoopSteps, Handlers, SocketPoll, LoopOnly, HandleOther, HandleSocket,
       ReadMessage, ReadError, MessageReturns, OtherReturns, ForceCloseInLoop,
       unchangedConnection, bytes
  <2>2. CASE SocketPollTimeout \/ UserCalls \/ Peer
    BY <1>2, <1>4, <1>5, <2>2 DEF SocketPollTimeout, UserCalls, NewConnection, Upgrade, Peer,
       PeerSends, PeerCloses, PeerResets, unchangedConnection, unchangedButNetwork, bytes
  <2>3. CASE \E t \in Threads : ThreadSteps(t)
    BY <1>4, <1>5, <2>3 DEF ThreadSteps, unchangedConnection, bytes
  <2>4. CASE UNCHANGED vars
    BY <1>4, <1>5, <2>4 DEF vars, bytes
  <2> QED
    BY <2>1, <2>2, <2>3, <2>4 DEF Next
<1> QED
  BY <1>1, <1>2, <1>3, <1>5, WaitingSteps

\* The functor of a send that waits carries a message.
LEMMA WaitingMessages ==
  ASSUME LoopTypeOK
  PROVE  \A w \in Waiting : IsSend(w) => w[2].message \in Messages
<1>1. Waiting \subseteq Nat \X Functors
  BY DEF LoopTypeOK, Waiting
<1> QED
  BY <1>1, ConnectionAssumption DEF IsSend, ConnectionFunctors

LEMMA CallOrderStep ==
  ASSUME IInv, CallOrder, [Next]_vars
  PROVE  CallOrder'
<1> USE DEF IInv, LoopInv
<1>1. /\ sent \in Seq(Messages) /\ calls \in Nat /\ sending \in [Threads -> SUBSET Messages]
      /\ \A m \in Messages : m[2] \in Nat
  BY ConnectionAssumption DEF TypeOK, Messages
<1>2. ASSUME NEW m \in Messages, SendInLoop(m)
      PROVE  sent' = sent \/ (/\ Len(sent') = Len(sent) + 1 /\ sent'[Len(sent) + 1] = m
                              /\ \A i \in 1..Len(sent) : sent'[i] = sent[i])
  <2>1. sent' = sent \/ sent' = Append(sent, m)
    BY <1>2 DEF SendInLoop, bytes
  <2> QED
    BY <1>1, <2>1
<1>3. ASSUME UNCHANGED <<sent, calls, sending>>, \A w \in Waiting' : IsSend(w) => w \in Waiting
      PROVE  CallOrder'
  BY <1>3 DEF CallOrder
<1>4. CASE RunSend
  <2> DEFINE h == Head(functors)
             m == Head(functors)[2].message
  <2>1. /\ h \in Waiting /\ IsSend(h) /\ h[1] = ran + 1
        /\ Waiting' \subseteq Waiting /\ ran' = ran + 1
    BY <1>4, WaitingRun, WaitingNumbers DEF RunSend, RunFunctor, IsSend
  <2>2. \A w \in Waiting' : h[1] < w[1]
    <3>1. ran \in Nat /\ queued \in Nat /\ functors # <<>> /\ Waiting' \subseteq Waiting \ {h}
      BY <1>4, WaitingRun DEF LoopTypeOK, RunSend, RunFunctor
    <3>2. \A w \in Waiting : w[1] \in (ran + 1)..queued /\ (w[1] = ran + 1 => w = h)
      BY <3>1, WaitingNumbers
    <3> QED
      BY <2>1, <3>1, <3>2
  <2>3. m \in Messages /\ SendInLoop(m) /\ UNCHANGED <<calls, sending>>
    BY <1>4, QueuedMessage DEF RunSend
  <2>4. /\ m[2] <= calls /\ m[1] \in Threads
        /\ \A i \in 1..Len(sent) : Before(sent[i], m)
        /\ \A w \in Waiting' : IsSend(w) => Before(m, w[2].message)
        /\ \A t \in Threads : \A n \in sending[t] : Before(m, n)
    BY <2>1, <2>2 DEF CallOrder
  <2> HIDE DEF h, m
  <2>5. CASE sent' = sent
    BY <2>1, <2>3, <2>5, <1>3
  <2>6. CASE /\ Len(sent') = Len(sent) + 1 /\ sent'[Len(sent) + 1] = m
             /\ \A i \in 1..Len(sent) : sent'[i] = sent[i]
    <3>1. \A i \in 1..Len(sent') : i \in 1..Len(sent) \/ (i = Len(sent) + 1 /\ sent'[i] = m)
      BY <1>1, <2>6
    <3>2. \A i, j \in 1..Len(sent') : i < j => Before(sent'[i], sent'[j])
      BY <1>1, <2>4, <2>6, <3>1 DEF CallOrder
    <3> QED
      BY <1>1, <2>1, <2>3, <2>4, <2>6, <3>1, <3>2 DEF CallOrder
  <2> QED
    BY <1>2, <2>3, <2>5, <2>6
<1>5. CASE Send
  <2> DEFINE m == <<LoopCaller, calls + 1>>
  <2>1. /\ m \in Messages /\ m[1] \notin Threads /\ m[1] = LoopCaller /\ m[2] = calls + 1
        /\ SendInLoop(m) /\ calls' = calls + 1 /\ sending' = sending /\ Waiting' = Waiting
    <3>1. m \in Messages
      BY <1>5, ConnectionAssumption DEF Send, Messages, TypeOK
    <3> QED
      BY <1>5, <3>1, ConnectionAssumption, WaitingKept DEF Send, loopVars, queues
  <2>2. \A i \in 1..Len(sent) : Before(sent[i], m)
    BY <1>1, <2>1 DEF CallOrder, Before
  <2>3. /\ \A w \in Waiting : IsSend(w) => Before(m, w[2].message)
        /\ \A t \in Threads : \A n \in sending[t] : Before(m, n)
    BY <2>1 DEF CallOrder, Before
  <2>4. /\ \A i \in 1..Len(sent) : sent[i][2] <= calls + 1
        /\ \A w \in Waiting : IsSend(w) => w[2].message[2] <= calls + 1
        /\ \A t \in Threads : \A n \in sending[t] : n[2] <= calls + 1
    <3>1. \A i \in 1..Len(sent) : sent[i][2] \in Nat
      BY <1>1
    <3>2. \A w \in Waiting : IsSend(w) => w[2].message \in Messages
      BY WaitingMessages
    <3> QED
      BY <1>1, <3>1, <3>2 DEF CallOrder
  <2> HIDE DEF m
  <2>5. CASE sent' = sent
    BY <2>1, <2>4, <2>5 DEF CallOrder
  <2>6. CASE /\ Len(sent') = Len(sent) + 1 /\ sent'[Len(sent) + 1] = m
             /\ \A i \in 1..Len(sent) : sent'[i] = sent[i]
    <3>1. \A i \in 1..Len(sent') : i \in 1..Len(sent) \/ (i = Len(sent) + 1 /\ sent'[i] = m)
      BY <1>1, <2>6
    <3>2. \A i, j \in 1..Len(sent') : i < j => Before(sent'[i], sent'[j])
      BY <1>1, <2>2, <2>6, <3>1 DEF CallOrder
    <3>3. \A i \in 1..Len(sent') : sent'[i][2] <= calls'
      BY <1>1, <2>1, <2>4, <2>6, <3>1
    <3> QED
      BY <2>1, <2>3, <2>4, <2>6, <3>1, <3>2, <3>3 DEF CallOrder
  <2> QED
    BY <1>2, <2>1, <2>5, <2>6
<1>6. ASSUME NEW t \in Threads, BeginSend(t)
      PROVE  CallOrder'
  <2>1. UNCHANGED sent /\ Waiting' = Waiting /\ calls' = calls + 1
    BY <1>6, WaitingKept DEF BeginSend, loopVars, queues, bytes
  <2>2. \A u \in Threads : sending'[u] = IF u = t THEN {<<t, calls + 1>>} ELSE sending[u]
    BY <1>1, <1>6 DEF BeginSend
  <2>3. \A i \in 1..Len(sent) : sent[i][2] \in Nat
    BY <1>1
  <2>4. \A w \in Waiting : IsSend(w) => w[2].message \in Messages
    BY WaitingMessages
  <2>5. \A u \in Threads : \A m \in sending[u] : m[2] \in Nat
    BY <1>1
  <2> QED
    BY <1>1, <2>1, <2>2, <2>3, <2>4, <2>5 DEF CallOrder, Before
<1>7. ASSUME NEW t \in Threads, QueueSend(t)
      PROVE  CallOrder'
  <2>1. PICK m \in sending[t] : Queue(t, [op |-> "sendInLoop", message |-> m])
    BY <1>7 DEF QueueSend
  <2> DEFINE new == <<queued + 1, [op |-> "sendInLoop", message |-> m]>>
  <2>2. m \in Messages
    BY DEF TypeOK
  <2>3. Waiting' = Waiting \cup {new}
    BY <2>1, <2>2, WaitingPush, FunctorsAre DEF Queue
  <2>4. /\ UNCHANGED <<sent, calls>>
        /\ \A u \in Threads : sending'[u] = IF u = t THEN {} ELSE sending[u]
    BY <1>1, <1>7 DEF QueueSend, bytes
  <2>5. \A w \in Waiting : w[1] < queued + 1
    <3>1. ran \in Nat /\ queued \in Nat
      BY DEF LoopTypeOK
    <3> QED
      BY <3>1, WaitingNumbers
  <2>6. IsSend(new) /\ new[1] = queued + 1 /\ new[2].message = m
    BY DEF IsSend
  <2>7. queued \in Nat /\ \A w \in Waiting : ~(queued + 1 < w[1])
    <3>1. ran \in Nat /\ queued \in Nat
      BY DEF LoopTypeOK
    <3> QED
      BY <3>1, WaitingNumbers
  <2>8. /\ m[1] = t /\ m[2] <= calls
        /\ \A i \in 1..Len(sent) : Before(sent[i], m)
        /\ \A w \in Waiting : IsSend(w) => Before(w[2].message, m)
    BY DEF CallOrder
  <2>9. \A u \in Threads \ {t} : \A n \in sending[u] : Before(m, n)
    BY <2>8 DEF CallOrder, Before
  <2> HIDE DEF new
  <2>10. ASSUME NEW w \in Waiting', IsSend(w)
         PROVE  /\ w[2].message[1] \in Threads /\ w[2].message[2] <= calls
                /\ \A i \in 1..Len(sent) : Before(sent[i], w[2].message)
                /\ \A v \in Waiting' : IsSend(v) /\ v[1] < w[1] => Before(v[2].message, w[2].message)
    <3>1. CASE w = new
      BY <2>3, <2>6, <2>7, <2>8, <3>1
    <3>2. CASE w \in Waiting
      BY <2>3, <2>6, <2>7, <2>10, <3>2 DEF CallOrder
    <3> QED
      BY <2>3, <3>1, <3>2
  <2>11. ASSUME NEW u \in Threads, NEW n \in sending'[u]
         PROVE  /\ n[1] = u /\ n[2] <= calls
                /\ \A i \in 1..Len(sent) : Before(sent[i], n)
                /\ \A w \in Waiting' : IsSend(w) => Before(w[2].message, n)
    BY <2>3, <2>4, <2>6, <2>9 DEF CallOrder
  <2> QED
    BY <2>4, <2>10, <2>11 DEF CallOrder
<1> QED
  BY <1>3, <1>4, <1>5, <1>6, <1>7, SendSteps

---------------------------------------------------------------------------
(* Theorems.                                                               *)

LEMMA Invariance == Spec => []IInv
<1>1. IInv /\ [Next]_vars => IInv'
  <2> SUFFICES ASSUME IInv, [Next]_vars
               PROVE  IInv'
    OBVIOUS
  <2>1. [LoopNext]_loopVars
    BY LoopStep DEF IInv
  <2>2. LoopInv'
    BY <2>1, LoopTypeStep, RoundsStep, WakeupStep, OrderStep DEF IInv, LoopInv
  <2>3. TypeOK'
    <3>1. StateTypes /\ FlagTypes /\ ByteTypes /\ CallTypes
      BY TypeOKIs DEF IInv
    <3>2. StateTypes' /\ FlagTypes' /\ ByteTypes' /\ CallTypes' /\ LoopTypeOK'
      BY <2>2, <3>1, StateTypesStep, FlagTypesStep, ByteTypesStep, CallTypesStep DEF IInv, LoopInv
    <3> QED
      BY <3>2 DEF TypeOK, StateTypes, FlagTypes, ByteTypes, CallTypes, BytesOf
  <2> QED
    BY <2>2, <2>3, StagesStep, ReportedStep, StatesStep, DestroyedStep, BufferedStep, AssertionsStep DEF IInv
<1> QED
  BY InitInv, <1>1, PTL DEF Spec

\* Connection implements EventLoop: its handlers and the threads that send use
\* the loop only as EventLoop allows.
THEOREM ConnectionUsesTheLoop == Spec => LoopSpec
<1>1. IInv /\ [Next]_vars => [LoopNext]_loopVars
  BY LoopStep DEF IInv
<1>2. Init => LoopInit
  BY DEF Init
<1> QED
  BY <1>1, <1>2, Invariance, PTL DEF Spec, LoopSpec

THEOREM ConnectionTypes == Spec => []TypeOK
<1>1. IInv => TypeOK
  BY DEF IInv
<1> QED
  BY <1>1, Invariance, PTL

\* handleClose, removeConnection and connectDestroyed run once and in order,
\* whatever closes the connection.
THEOREM ClosesOnce == Spec => []AssertionsHold
<1>1. IInv => AssertionsHold
  BY DEF IInv
<1> QED
  BY <1>1, Invariance, PTL

\* Nothing stays in outputBuffer_ unless the poller watches for room, and a FIN
\* leaves nothing behind.
THEOREM BufferedGetsWritten == Spec => []BufferedIsAwaited
<1>1. IInv => BufferedIsAwaited
  BY DEF IInv
<1> QED
  BY <1>1, Invariance, PTL

\* A closed connection stays out of the poller.
THEOREM ClosedIsQuiet == Spec => []ClosedStaysQuiet
<1>1. IInv => ClosedStaysQuiet
  BY DEF IInv, States
<1> QED
  BY <1>1, Invariance, PTL

\* The bare pointer in a queued sendInLoop is good.
THEOREM SendsAreSafe == Spec => []SendsFindConnection
<1>1. IInv => SendsFindConnection
  <2> SUFFICES ASSUME IInv, NEW i \in 1..Len(functors \o pending)
               PROVE  registered \/ handled
    BY DEF SendsFindConnection
  <2>1. (functors \o pending)[i] \in Waiting
    BY WaitingIsAll DEF IInv, LoopInv
  <2>2. state # "none"
    BY <2>1 DEF IInv, States
  <2> QED
    BY <2>2 DEF IInv, States
<1> QED
  BY <1>1, Invariance, PTL

\* The messages' bytes, and the order of the messages.
LEMMA OrderInvariance == Spec => [](BytesInOrder /\ CallOrder)
<1>1. Init => BytesInOrder /\ CallOrder
  <2> SUFFICES ASSUME Init PROVE BytesInOrder /\ CallOrder
    OBVIOUS
  <2>1. sent = <<>> /\ wire = <<>> /\ output = <<>> /\ functors = <<>> /\ pending = <<>>
        /\ \A t \in Threads : sending[t] = {}
    BY DEF Init, LoopInit
  <2>2. Len(wire \o output) = 0 /\ Len(sent) = 0 /\ 0 * MessageBytes = 0
    BY <2>1, ConnectionAssumption
  <2>3. Waiting = {}
    BY <2>1 DEF Waiting
  <2> QED
    BY <2>1, <2>2, <2>3 DEF BytesInOrder, LaidOut, CallOrder
<1>2. IInv /\ BytesInOrder /\ CallOrder /\ [Next]_vars => BytesInOrder' /\ CallOrder'
  BY BytesStep, CallOrderStep
<1> QED
  BY <1>1, <1>2, Invariance, PTL DEF Spec

\* However writes are cut, closes and threads come in between, what was written
\* and what is buffered are whole messages in order, and no thread's messages
\* overtake each other on the way through its call, the loop and the buffer.
THEOREM StreamIsInOrder == Spec => []SentInOrder
<1>1. BytesInOrder /\ CallOrder => SentInOrder
  BY DEF BytesInOrder, CallOrder, LaidOut, Before, SentInOrder
<1> QED
  BY <1>1, OrderInvariance, PTL
=============================================================================
