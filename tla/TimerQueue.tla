----------------------------- MODULE TimerQueue -----------------------------
(***************************************************************************)
(* muduo's TimerQueue in its EventLoop.  Timers are added and cancelled in *)
(* the loop thread; other threads queue functors that do it.  timerfd_ is  *)
(* armed for the earliest expiration; its channel runs the timers that     *)
(* have expired, whose callbacks may add and cancel timers, and then puts  *)
(* the repeating ones back.                                                *)
(***************************************************************************)
EXTENDS EventLoop, FiniteSets

CONSTANTS
  TimerChannel,  \* timerfdChannel_
  Addrs,         \* addresses that new Timer can return
  Nothing,       \* no Timer at an address, no timer in a functor
  MaxTimers,     \* bound on the timers created
  MaxTime        \* bound on the clock

VARIABLES
  now,           \* the clock, in ticks
  ids,           \* TimerIds made, as many as Timer::s_numCreated_
  heap,          \* Timer objects by address
  timers,        \* timers_: pairs of expiration and address
  activeTimers,  \* activeTimers_: pairs of address and sequence
  armed,         \* when timerfd_ expires, 0 if it is disarmed
  calling,       \* callingExpiredTimers_
  canceling,     \* cancelingTimers_
  handledAt,     \* now of the handleRead in progress
  expired,       \* addresses in expired
  toRun,         \* those of them not yet run
  dead           \* history: timers cancelled after they were added

sets == <<timers, activeTimers, armed>>
batch == <<calling, canceling, handledAt, expired, toRun>>
vars == <<loopVars, now, ids, heap, sets, batch, dead>>

Ids == Addrs \X (1..MaxTimers)

\* What TimerQueue queues, and what anybody else does.
TimerFunctors ==
  [op : {"add", "cancel"}, timer : Ids] \cup [op : {"user"}, timer : {Nothing}]

Times == 1..MaxTime
Intervals == 0..1

\* Timer objects; one with an interval repeats.
Timers == [seq : 1..MaxTimers, expiration : 1..(MaxTime + 1), interval : Intervals]

ASSUME TimerAssumption ==
  /\ Functors = TimerFunctors
  /\ MaxTimers \in Nat /\ MaxTime \in Nat \ {0}
  /\ TimerChannel \in Channels
  /\ Nothing \notin Ids /\ Nothing \notin Timers

Init ==
  /\ LoopInit
  /\ now = 1
  /\ ids = {}
  /\ heap = [a \in Addrs |-> Nothing]
  /\ timers = {} /\ activeTimers = {} /\ armed = 0
  /\ calling = FALSE /\ canceling = {} /\ handledAt = 0
  /\ expired = {} /\ toRun = {}
  /\ dead = {}

---------------------------------------------------------------------------
(* The two sets and the timer file descriptor.                             *)

Id(a) == <<a, heap[a].seq>>
Entry(a) == <<heap[a].expiration, a>>

Earliest(ts) == CHOOSE e \in {t[1] : t \in ts} : \A t \in ts : e <= t[1]

\* resetTimerfd: an expiration in the past becomes one in 100 microseconds.
ResetTo(when) == IF when > now THEN when ELSE now

TimerReady == armed # 0 /\ now >= armed

\* A fault: timerfd_ is armed for the first timer only.
ArmsWhenEmpty(id, when) ==
  /\ timers' = timers \cup {<<when, id[1]>>}
  /\ activeTimers' = activeTimers \cup {id}
  /\ armed' = IF timers = {} THEN ResetTo(when) ELSE armed

\* addTimerInLoop, insert.
Insert(id, when) ==
  /\ timers' = timers \cup {<<when, id[1]>>}
  /\ activeTimers' = activeTimers \cup {id}
  /\ armed' = IF timers = {} \/ when < Earliest(timers) THEN ResetTo(when) ELSE armed

\* A fault: a timer is known by its address.
FoundByAddress(id) == \E other \in activeTimers : other[1] = id[1]

\* What activeTimers_ is searched for: address and sequence, as an address may
\* have been used again.
Found(id) == id \in activeTimers

\* A fault: what callbacks cancelled is not looked at.
ForgetsCancel(a) == heap[a].interval > 0

\* A repeating timer of the batch is put back unless its callback, or another
\* one of the batch, has cancelled it.
PutBack(a) == heap[a].interval > 0 /\ Id(a) \notin canceling

\* A fault: the interval is added to the time, not to the present.
AddsUp(a) == [heap[a] EXCEPT !.expiration = @ + handledAt + heap[a].interval]

\* Timer::restart.
Restarted(a) == [heap[a] EXCEPT !.expiration = handledAt + heap[a].interval]

\* The timers that have expired by time t.
ExpiredBy(t) == {e \in timers : e[1] <= t}

AddQueued(id) ==
  \E i \in 1..Len(functors \o pending) : (functors \o pending)[i][2] = [op |-> "add", timer |-> id]

\* cancelInLoop.  It does nothing for a timer that is gone, or whose addition
\* is still queued.
CancelInLoop(id) ==
  /\ IF Found(id)
     THEN /\ timers' = timers \ {<<heap[id[1]].expiration, id[1]>>}
          /\ activeTimers' = activeTimers \ {id}
          /\ heap' = [heap EXCEPT ![id[1]] = Nothing]
          /\ UNCHANGED canceling
     ELSE /\ canceling' = IF calling THEN canceling \cup {id} ELSE canceling
          /\ UNCHANGED <<timers, activeTimers, heap>>
  /\ dead' = IF AddQueued(id) THEN dead ELSE dead \cup {id}
  /\ UNCHANGED <<now, ids, armed, calling, handledAt, expired, toRun>>

---------------------------------------------------------------------------
(* The loop thread.                                                        *)

\* User code runs in the loop thread: not before the first timer of a batch.
\* Sockets' callbacks make no use of timers, as those of the server.
UserCode == inCallback /\ (calling => toRun # expired)
TimerCode == UserCode /\ (calling \/ phase = "functors")

unchangedTimers == <<now, ids, heap, sets, batch, dead>>

TimerPoll(ready) ==
  /\ Poll(ready)
  /\ TimerChannel \in ready <=> TimerReady
  /\ UNCHANGED unchangedTimers

TimerPollTimeout ==
  /\ PollTimeout
  /\ ~TimerReady
  /\ UNCHANGED unchangedTimers

\* Actions of the loop that do not concern timers.
LoopOnly ==
  /\ \/ Loop
     \/ HandleRead
     \/ \E c \in Channels \ {TimerChannel} : HandleEvent(c)
     \/ Return /\ ~calling
     \/ SwapFunctors
     \/ Iterate
  /\ UNCHANGED unchangedTimers

\* handleRead up to the first callback.  timerfd_ may have been armed anew
\* since poll() returned; then there is nothing to read.
HandleTimer ==
  /\ HandleEvent(TimerChannel)
  /\ armed' = IF TimerReady THEN 0 ELSE armed
  /\ handledAt' = now
  /\ timers' = timers \ ExpiredBy(now)
  /\ expired' = {e[2] : e \in ExpiredBy(now)}
  /\ toRun' = expired'
  /\ activeTimers' = activeTimers \ {Id(a) : a \in expired'}
  /\ calling' = TRUE
  /\ canceling' = {}
  /\ UNCHANGED <<now, ids, heap, dead>>

\* The next expired timer runs: earlier ones first.
RunTimer(a) ==
  /\ calling
  /\ a \in toRun
  /\ \A b \in toRun : heap[a].expiration <= heap[b].expiration
  /\ toRun' = toRun \ {a}
  /\ UNCHANGED <<loopVars, now, ids, heap, sets, calling, canceling, handledAt, expired, dead>>

\* reset: repeating timers start again, the others are deleted, and timerfd_ is
\* armed for what is then the earliest.
Reset ==
  LET back == {a \in expired : PutBack(a)} IN
  /\ calling
  /\ toRun = {}
  /\ Return
  /\ heap' = [a \in Addrs |-> IF a \in back THEN Restarted(a)
                              ELSE IF a \in expired THEN Nothing
                              ELSE heap[a]]
  /\ timers' = timers \cup {<<Restarted(a).expiration, a>> : a \in back}
  /\ activeTimers' = activeTimers \cup {Id(a) : a \in back}
  /\ armed' = IF timers' = {} THEN armed ELSE ResetTo(Earliest(timers'))
  /\ calling' = FALSE
  /\ expired' = {}
  /\ handledAt' = 0
  /\ UNCHANGED <<now, ids, canceling, toRun, dead>>

\* A functor that was queued runs.
RunQueued ==
  /\ RunFunctor
  /\ LET f == Head(functors)[2] IN
     CASE f.op = "user" ->
            /\ inCallback'
            /\ UNCHANGED unchangedTimers
       [] f.op = "add" ->
            /\ ~inCallback'
            /\ Insert(f.timer, heap[f.timer[1]].expiration)
            /\ UNCHANGED <<now, ids, heap, batch, dead>>
       [] f.op = "cancel" ->
            /\ ~inCallback'
            /\ CancelInLoop(f.timer)

---------------------------------------------------------------------------
(* Calls, in user code of the loop thread and in other threads.            *)

NewId(a) == <<a, Cardinality(ids) + 1>>

\* new Timer at a free address.
New(a, when, interval) ==
  /\ heap[a] = Nothing
  /\ NewId(a) \in Ids
  /\ ids' = ids \cup {NewId(a)}
  /\ heap' = [heap EXCEPT ![a] = [seq |-> NewId(a)[2], expiration |-> when, interval |-> interval]]

\* addTimer in the loop thread.
AddTimer(a, when, interval) ==
  /\ TimerCode
  /\ New(a, when, interval)
  /\ Insert(NewId(a), when)
  /\ UNCHANGED <<loopVars, now, batch, dead>>

\* addTimer in another thread.
QueueAddTimer(t, a, when, interval) ==
  /\ New(a, when, interval)
  /\ Queue(t, [op |-> "add", timer |-> NewId(a)])
  /\ UNCHANGED <<now, sets, batch, dead>>

\* cancel in the loop thread.
Cancel(id) ==
  /\ TimerCode
  /\ id \in ids
  /\ CancelInLoop(id)
  /\ UNCHANGED loopVars

\* cancel in another thread.
QueueCancel(t, id) ==
  /\ id \in ids
  /\ Queue(t, [op |-> "cancel", timer |-> id])
  /\ UNCHANGED unchangedTimers

\* Calls that do not concern timers.
OtherCalls ==
  /\ \/ UserCode /\ QueueInLoop([op |-> "user", timer |-> Nothing])
     \/ UserCode /\ QuitInLoop
     \/ \E t \in Threads :
          \/ Queue(t, [op |-> "user", timer |-> Nothing])
          \/ Quit(t)
          \/ Wakeup(t)
  /\ UNCHANGED unchangedTimers

\* Time passes.
Tick ==
  /\ now < MaxTime
  /\ now' = now + 1
  /\ UNCHANGED <<loopVars, ids, heap, sets, batch, dead>>
---------------------------------------------------------------------------
LoopSteps ==
  \/ \E ready \in SUBSET Channels : TimerPoll(ready)
  \/ LoopOnly
  \/ HandleTimer
  \/ \E a \in Addrs : RunTimer(a)
  \/ Reset
  \/ RunQueued

TimerCalls ==
  \/ \E a \in Addrs, when \in Times, interval \in Intervals :
       \/ AddTimer(a, when, interval)
       \/ \E t \in Threads : QueueAddTimer(t, a, when, interval)
  \/ \E id \in Ids :
       \/ Cancel(id)
       \/ \E t \in Threads : QueueCancel(t, id)

Next ==
  \/ LoopSteps
  \/ TimerPollTimeout
  \/ TimerCalls
  \/ OtherCalls
  \/ Tick

\* The loop's thread runs, except that poll() may block while only other
\* channels become ready; so does a thread that is about to call wakeup().
\* Callbacks return, and time passes.
WaitsForOthers == phase = "poll" /\ ~signalled /\ ~TimerReady

Fairness ==
  /\ WF_vars(~WaitsForOthers /\ LoopSteps)
  /\ \A t \in Threads : WF_vars(Wakeup(t) /\ UNCHANGED unchangedTimers)
  /\ WF_vars(Tick)

Spec == Init /\ [][Next]_vars /\ Fairness

---------------------------------------------------------------------------
(* Properties.                                                             *)

TypeOK ==
  /\ LoopTypeOK
  /\ now \in Times
  /\ ids \subseteq Ids
  /\ heap \in [Addrs -> {Nothing} \cup Timers]
  /\ timers \subseteq (1..(MaxTime + 1)) \X Addrs
  /\ activeTimers \subseteq ids
  /\ armed \in 0..(MaxTime + 1)
  /\ calling \in BOOLEAN
  /\ canceling \subseteq ids
  /\ handledAt \in 0..MaxTime
  /\ toRun \subseteq expired /\ expired \subseteq Addrs
  /\ dead \subseteq ids

\* The two sets and the Timer objects agree through additions, cancellations
\* and batches, as the assertions of TimerQueue.cc:160-274 say: no entry, no
\* expired timer and no queued addition refers to a Timer that was deleted,
\* even if its address was used again, and none is forgotten.
TimersAgree ==
  /\ \A a \in Addrs : heap[a] # Nothing =>
       Entry(a) \in timers \/ a \in expired \/ AddQueued(Id(a))
  /\ \A e \in timers : heap[e[2]] # Nothing /\ e = Entry(e[2])
  /\ activeTimers = {Id(e[2]) : e \in timers}
  /\ \A a \in expired : heap[a] # Nothing /\ Entry(a) \notin timers
  /\ \A id \in ids : AddQueued(id) =>
       /\ heap[id[1]] # Nothing /\ id = Id(id[1])
       /\ Entry(id[1]) \notin timers /\ id[1] \notin expired

\* timerfd_ never sleeps past a timer: between batches it is armed for the
\* earliest expiration or before it, or has expired (TimerQueue.cc:151 and
\* 246 arm it, cancelInLoop does not).
NeverOversleeps ==
  timers # {} /\ ~calling => armed # 0 /\ (armed <= Earliest(timers) \/ armed <= now)

\* A timer that was cancelled after its addition does not come back.  If it is
\* cancelled by a callback of the batch it is in, it may run that once, and is
\* then not put back although it repeats (cancelingTimers_).
CancelledStaysCancelled ==
  /\ dead \cap activeTimers = {}
  /\ \A a \in toRun : Id(a) \in dead => Id(a) \in canceling

\* Whatever is queued is run, unless the loop stops: no functor is left behind
\* in pendingFunctors_ while poll() blocks.
FunctorsRun == pending # <<>> ~> (phase = "stopped" \/ pending = <<>>)

\* Timers that are due are run, unless they are cancelled or the loop stops.
DueTimersRun ==
  (\E e \in timers : e[1] <= now) ~> (phase = "stopped" \/ \A e \in timers : e[1] > now)

\* quit() ends the loop, if it does not come before loop() (EventLoop.cc:107).
QuitStops == quit ~> (phase = "stopped" \/ ~quit)
=============================================================================
