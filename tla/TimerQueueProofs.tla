-------------------------- MODULE TimerQueueProofs --------------------------
(***************************************************************************)
(* TimerQueue is an EventLoop, whatever it does with its timers, and so    *)
(* what is proved about EventLoop holds of it.  Its two sets, its batches  *)
(* and timerfd_ agree for every number of timers, addresses and ticks.     *)
(***************************************************************************)
EXTENDS TimerQueue, EventLoopProofs, FiniteSetTheorems, WellFoundedInduction

\* A step of TimerQueue is one of EventLoop, or does not change the loop.
LEMMA LoopStep ==
  ASSUME [Next]_vars
  PROVE  [LoopNext]_loopVars
<1>1. CASE LoopSteps
  <2>1. CASE \E ready \in SUBSET Channels : TimerPoll(ready)
    BY <2>1 DEF TimerPoll, LoopNext, LoopThread
  <2>2. CASE LoopOnly
    BY <2>2 DEF LoopOnly, LoopNext, LoopThread
  <2>3. CASE HandleTimer
    BY <2>3, TimerAssumption DEF HandleTimer, LoopNext, LoopThread
  <2>4. CASE \E a \in Addrs : RunTimer(a)
    BY <2>4 DEF RunTimer
  <2>5. CASE Reset
    BY <2>5 DEF Reset, LoopNext, LoopThread
  <2>6. CASE RunQueued
    BY <2>6 DEF RunQueued, LoopNext, LoopThread
  <2> QED
    BY <1>1, <2>1, <2>2, <2>3, <2>4, <2>5, <2>6 DEF LoopSteps
<1>2. CASE TimerPollTimeout
  BY <1>2 DEF TimerPollTimeout, LoopNext, LoopThread
<1>3. CASE TimerCalls
  <2>1. ASSUME NEW t \in Threads, NEW f \in Functors, Queue(t, f)
        PROVE  LoopNext
    BY <2>1 DEF LoopNext, Calls
  <2>2. CASE \E a \in Addrs, when \in Times, interval \in Intervals : AddTimer(a, when, interval)
    BY <2>2 DEF AddTimer
  <2>3. CASE \E id \in Ids : Cancel(id)
    BY <2>3 DEF Cancel
  <2>4. ASSUME NEW a \in Addrs, NEW when \in Times, NEW interval \in Intervals,
               NEW t \in Threads, QueueAddTimer(t, a, when, interval)
        PROVE  LoopNext
    BY <2>1, <2>4, TimerAssumption DEF QueueAddTimer, New, TimerFunctors
  <2>5. ASSUME NEW id \in Ids, NEW t \in Threads, QueueCancel(t, id)
        PROVE  LoopNext
    BY <2>1, <2>5, TimerAssumption DEF QueueCancel, TimerFunctors
  <2> QED
    BY <1>3, <2>2, <2>3, <2>4, <2>5 DEF TimerCalls
<1>4. CASE OtherCalls
  <2>1. [op |-> "user", timer |-> Nothing] \in Functors
    BY TimerAssumption DEF TimerFunctors
  <2> QED
    BY <1>4, <2>1 DEF OtherCalls, LoopNext, Calls
<1>5. CASE Tick
  BY <1>5 DEF Tick
<1>6. CASE UNCHANGED vars
  BY <1>6 DEF vars
<1> QED
  BY <1>1, <1>2, <1>3, <1>4, <1>5, <1>6 DEF Next

\* TimerQueue implements EventLoop: whatever it does to its timers, it uses the
\* loop only as EventLoop allows.
THEOREM TimersUseTheLoop == Spec => LoopSpec
<1>1. Init => LoopInit
  BY DEF Init
<1>2. [Next]_vars => [LoopNext]_loopVars
  BY LoopStep
<1> QED
  BY <1>1, <1>2, PTL DEF Spec, LoopSpec

\* Every functor that is queued runs once, in the order of the calls.
THEOREM FunctorsRunInOrder == Spec => []FunctorsInOrder
BY LoopRunsInOrder, TimersUseTheLoop, PTL

\* The loop does not block in poll() while a functor or quit() waits for it.
THEOREM LoopIsWoken == Spec => []NoLostWakeup
BY LoopIsNotStuck, TimersUseTheLoop, PTL

---------------------------------------------------------------------------
(* The invariant.                                                          *)

\* Timers whose addition is queued.
Adding == {w[2].timer : w \in {v \in Waiting : v[2].op = "add"}}

\* An addition is queued once, and functors are about timers that were made.
AddedOnce ==
  \A v, w \in Waiting : v[2].op = "add" /\ w[2].op = "add" /\ v[2].timer = w[2].timer => v = w
Named == \A w \in Waiting : w[2].op # "user" => w[2].timer \in ids

\* Sequence numbers are not used twice.
Numbers == IsFiniteSet(ids) /\ \A id \in ids : id[2] <= Cardinality(ids)

\* A batch is run within the callback of timerfdChannel_.
Batch ==
  /\ calling => inCallback /\ phase = "events" /\ handledAt \in Times
  /\ ~calling => expired = {}

\* TimersAgree, with Adding for AddQueued.
Agree ==
  /\ \A a \in Addrs : heap[a] # Nothing =>
       Id(a) \in ids /\ (Entry(a) \in timers \/ a \in expired \/ Id(a) \in Adding)
  /\ \A e \in timers : heap[e[2]] # Nothing /\ e = Entry(e[2])
  /\ activeTimers = {Id(e[2]) : e \in timers}
  /\ \A a \in expired : heap[a] # Nothing /\ Entry(a) \notin timers
  /\ \A id \in Adding :
       /\ heap[id[1]] # Nothing /\ id = Id(id[1])
       /\ Entry(id[1]) \notin timers /\ id[1] \notin expired

\* CancelledStaysCancelled, for the whole batch: a timer that is to be added is
\* not dead, and one of the batch is known to have been cancelled.
Dead ==
  /\ dead \cap (activeTimers \cup Adding) = {}
  /\ \A a \in expired : Id(a) \in dead => Id(a) \in canceling

IInv ==
  /\ LoopInv /\ TypeOK
  /\ AddedOnce /\ Named /\ Numbers /\ Batch /\ Agree /\ Dead /\ NeverOversleeps

---------------------------------------------------------------------------
(* What a step does to the queued additions.                               *)

LEMMA AddQueuedIs ==
  ASSUME LoopTypeOK, NEW id
  PROVE  AddQueued(id) <=> id \in Adding
<1>1. ASSUME AddQueued(id) PROVE id \in Adding
  <2>1. PICK i \in 1..Len(functors \o pending) :
          (functors \o pending)[i][2] = [op |-> "add", timer |-> id]
    BY <1>1 DEF AddQueued
  <2>2. (functors \o pending)[i] \in Waiting
    BY WaitingIsAll
  <2> QED
    BY <2>1, <2>2 DEF Adding
<1>2. ASSUME id \in Adding PROVE AddQueued(id)
  <2>1. PICK w \in Waiting : w[2].op = "add" /\ w[2].timer = id
    BY <1>2 DEF Adding
  <2>2. PICK i \in 1..Len(functors \o pending) : (functors \o pending)[i] = w
    BY AllOfItWaits
  <2>3. w \in Nat \X Functors
    BY <2>1 DEF Waiting, LoopTypeOK
  <2>4. w[2] = [op |-> "add", timer |-> id]
    BY <2>1, <2>3, TimerAssumption DEF TimerFunctors
  <2> QED
    BY <2>2, <2>4 DEF AddQueued
<1> QED
  BY <1>1, <1>2

LEMMA WaitingTypes ==
  ASSUME LoopTypeOK
  PROVE  \A w \in Waiting : w \in Nat \X TimerFunctors
BY TimerAssumption DEF Waiting, LoopTypeOK

LEMMA PushAdding ==
  ASSUME LoopTypeOK, NEW f \in Functors, PushBack(f)
  PROVE  Adding' = Adding \cup (IF f.op = "add" THEN {f.timer} ELSE {})
<1> DEFINE new == <<queued + 1, f>>
<1>1. Waiting' = Waiting \cup {new} /\ new[2] = f
  BY WaitingPush
<1> HIDE DEF new
<1>2. ASSUME NEW id \in Adding'
      PROVE  id \in Adding \cup (IF f.op = "add" THEN {f.timer} ELSE {})
  BY <1>1 DEF Adding
<1>3. Adding \subseteq Adding'
  BY <1>1 DEF Adding
<1>4. f.op = "add" => f.timer \in Adding'
  BY <1>1 DEF Adding
<1> QED
  BY <1>2, <1>3, <1>4

LEMMA RunAdding ==
  ASSUME LoopInv, AddedOnce, RunFunctor
  PROVE  LET f == Head(functors)[2] IN
         /\ f \in TimerFunctors
         /\ Head(functors) \in Waiting
         /\ Waiting' \subseteq Waiting
         /\ f.op = "add" => f.timer \in Adding /\ Adding' = Adding \ {f.timer}
         /\ f.op # "add" => Adding' = Adding
<1> DEFINE h == Head(functors)
<1>1. h \in Waiting /\ Waiting' = Waiting \ {h}
  BY WaitingRun, OthersWait DEF LoopInv
<1>2. h[2] \in TimerFunctors
  BY <1>1, WaitingTypes DEF LoopInv
<1> HIDE DEF h
<1>3. Adding' \subseteq Adding
  BY <1>1 DEF Adding
<1>4. ASSUME NEW id \in Adding, h[2].op = "add" => id # h[2].timer
      PROVE  id \in Adding'
  BY <1>1, <1>4 DEF Adding
<1>5. ASSUME h[2].op = "add"
      PROVE  h[2].timer \in Adding \ Adding'
  BY <1>1, <1>5 DEF Adding, AddedOnce
<1>6. h[2].op # "add" => Adding' = Adding
  BY <1>3, <1>4
<1>7. h[2].op = "add" => h[2].timer \in Adding /\ Adding' = Adding \ {h[2].timer}
  BY <1>3, <1>4, <1>5
<1> QED
  BY <1>1, <1>2, <1>6, <1>7 DEF h

\* Steps of the loop, of batches and of the clock that concern no timer.
NoTimers ==
  /\ UNCHANGED <<heap, sets, expired, ids, Adding, dead, canceling, calling, handledAt>>
  /\ toRun' \subseteq toRun
  /\ now' = now \/ (now < MaxTime /\ now' = now + 1)

\* The steps, by what they do to timers and queued additions.
LEMMA Steps ==
  ASSUME LoopInv, AddedOnce, Named, Batch, [Next]_vars
  PROVE  \/ NoTimers
         \/ HandleTimer /\ UNCHANGED Adding
         \/ Reset /\ UNCHANGED Adding
         \/ UNCHANGED Adding /\ \E a \in Addrs, when \in Times, interval \in Intervals :
              AddTimer(a, when, interval)
         \/ \E t \in Threads, a \in Addrs, when \in Times, interval \in Intervals :
              QueueAddTimer(t, a, when, interval) /\ Adding' = Adding \cup {NewId(a)}
         \/ UNCHANGED Adding /\ \E id \in Ids : id \in ids /\ CancelInLoop(id)
         \/ \E id \in Adding :
              /\ Insert(id, heap[id[1]].expiration)
              /\ UNCHANGED <<now, ids, heap, batch, dead>>
              /\ Adding' = Adding \ {id}
<1> USE DEF NoTimers
<1>1. ASSUME UNCHANGED <<pending, functors>> PROVE UNCHANGED Adding
  BY <1>1 DEF Adding, Waiting
<1>2. ASSUME UNCHANGED loopVars PROVE UNCHANGED Adding
  BY <1>1, <1>2 DEF loopVars, queues
<1>3. CASE LoopSteps
  <2>1. CASE \E ready \in SUBSET Channels : TimerPoll(ready)
    BY <1>1, <2>1 DEF TimerPoll, Poll, queues, unchangedTimers, sets, batch
  <2>2. CASE LoopOnly
    <3>1. UNCHANGED Adding
      <4>1. CASE SwapFunctors
        BY <4>1, WaitingSwap DEF LoopInv, Adding
      <4> QED
        BY <1>1, <2>2, <4>1 DEF LoopOnly, Loop, HandleRead, HandleEvent, Return, Iterate, queues
    <3> QED
      BY <2>2, <3>1 DEF LoopOnly, unchangedTimers, sets, batch
  <2>3. CASE HandleTimer
    BY <1>1, <2>3 DEF HandleTimer, HandleEvent, queues
  <2>4. CASE \E a \in Addrs : RunTimer(a)
    BY <1>2, <2>4 DEF RunTimer, sets
  <2>5. CASE Reset
    BY <1>1, <2>5 DEF Reset, Return, queues
  <2>6. CASE RunQueued
    <3> DEFINE f == Head(functors)[2]
    <3>1. /\ f \in TimerFunctors
          /\ Head(functors) \in Waiting
          /\ f.op = "add" => f.timer \in Adding /\ Adding' = Adding \ {f.timer}
          /\ f.op # "add" => Adding' = Adding
      BY <2>6, RunAdding DEF RunQueued
    <3>2. f.op \in {"add", "cancel", "user"} /\ (f.op # "user" => f.timer \in Ids)
      BY <3>1 DEF TimerFunctors
    <3>3. f.op # "user" => f.timer \in ids
      BY <3>1 DEF Named
    <3>4. CASE f.op = "user"
      BY <2>6, <3>1, <3>4 DEF RunQueued, unchangedTimers, sets, batch
    <3>5. CASE f.op = "add"
      BY <2>6, <3>1, <3>5 DEF RunQueued
    <3>6. CASE f.op = "cancel"
      BY <2>6, <3>1, <3>2, <3>3, <3>6 DEF RunQueued
    <3> QED
      BY <3>2, <3>4, <3>5, <3>6
  <2> QED
    BY <1>3, <2>1, <2>2, <2>3, <2>4, <2>5, <2>6 DEF LoopSteps
<1>4. CASE TimerPollTimeout
  BY <1>1, <1>4 DEF TimerPollTimeout, PollTimeout, queues, unchangedTimers, sets, batch
<1>5. CASE TimerCalls
  <2>1. CASE \E a \in Addrs, when \in Times, interval \in Intervals : AddTimer(a, when, interval)
    BY <1>2, <2>1 DEF AddTimer
  <2>2. CASE \E a \in Addrs, when \in Times, interval \in Intervals, t \in Threads :
               QueueAddTimer(t, a, when, interval)
    <3>1. PICK a \in Addrs, when \in Times, interval \in Intervals, t \in Threads :
               QueueAddTimer(t, a, when, interval)
      BY <2>2
    <3> DEFINE f == [op |-> "add", timer |-> NewId(a)]
    <3>2. f \in Functors /\ PushBack(f)
      BY <3>1, TimerAssumption DEF QueueAddTimer, New, Queue, TimerFunctors
    <3>3. Adding' = Adding \cup {NewId(a)}
      BY <3>2, PushAdding DEF LoopInv
    <3> QED
      BY <3>1, <3>3
  <2>3. CASE \E id \in Ids : Cancel(id)
    BY <1>2, <2>3 DEF Cancel
  <2>4. CASE \E id \in Ids, t \in Threads : QueueCancel(t, id)
    <3>1. PICK id \in Ids, t \in Threads : QueueCancel(t, id)
      BY <2>4
    <3> DEFINE f == [op |-> "cancel", timer |-> id]
    <3>2. f \in Functors /\ PushBack(f)
      BY <3>1, TimerAssumption DEF QueueCancel, Queue, TimerFunctors
    <3>3. Adding' = Adding
      BY <3>2, PushAdding DEF LoopInv
    <3> QED
      BY <3>1, <3>3 DEF QueueCancel, unchangedTimers, sets, batch
  <2> QED
    BY <1>5, <2>1, <2>2, <2>3, <2>4 DEF TimerCalls
<1>6. CASE OtherCalls
  <2>1. UNCHANGED Adding
    <3> DEFINE f == [op |-> "user", timer |-> Nothing]
    <3>1. f \in Functors
      BY TimerAssumption DEF TimerFunctors
    <3>2. PushBack(f) => Adding' = Adding
      BY <3>1, PushAdding DEF LoopInv
    <3> QED
      BY <1>1, <1>6, <3>2 DEF OtherCalls, QueueInLoop, Queue, QuitInLoop, Quit, Wakeup, queues
  <2> QED
    BY <1>6, <2>1 DEF OtherCalls, unchangedTimers, sets, batch
<1>7. CASE Tick
  BY <1>2, <1>7 DEF Tick, sets, batch
<1>8. CASE UNCHANGED vars
  BY <1>2, <1>8 DEF vars, sets, batch
<1> QED
  BY <1>3, <1>4, <1>5, <1>6, <1>7, <1>8 DEF Next

---------------------------------------------------------------------------
(* One lemma for each part of the invariant.                               *)

\* A set of timers that is not empty has an earliest one.
LEMMA EarliestIs ==
  ASSUME NEW ts, ts \subseteq Nat \X Addrs, ts # {}
  PROVE  /\ Earliest(ts) \in {t[1] : t \in ts}
         /\ \A t \in ts : Earliest(ts) <= t[1]
<1> DEFINE firsts == {t[1] : t \in ts}
           R == OpToRel(<, Nat)
<1>1. firsts \subseteq Nat /\ firsts # {}
  OBVIOUS
<1>2. IsWellFoundedOn(R, Nat)
  BY NatLessThanWellFounded
<1>3. \A x, y \in Nat : <<x, y>> \in R <=> x < y
  BY DEF OpToRel
<1> HIDE DEF firsts, R
<1>4. PICK e \in firsts : \A d \in firsts : <<d, e>> \notin R
  BY <1>1, <1>2, WFMin
<1>5. ASSUME NEW d \in firsts PROVE e <= d
  <2>1. d \in Nat /\ e \in Nat
    BY <1>1
  <2>2. ~(d < e)
    BY <1>3, <1>4, <2>1
  <2> QED
    BY <2>1, <2>2
<1>6. \A t \in ts : e <= t[1]
  BY <1>5 DEF firsts
<1>7. Earliest(ts) = CHOOSE d \in firsts : \A t \in ts : d <= t[1]
  BY Zenon DEF Earliest, firsts
<1>8. Earliest(ts) \in firsts /\ \A t \in ts : Earliest(ts) <= t[1]
  BY <1>4, <1>6, <1>7, Zenon
<1> QED
  BY <1>8 DEF firsts

LEMMA NewTypes ==
  ASSUME TypeOK, Numbers,
         NEW a \in Addrs, NEW when \in Times, NEW interval \in Intervals, New(a, when, interval)
  PROVE  /\ NewId(a) \in Ids /\ NewId(a) \notin ids
         /\ IsFiniteSet(ids') /\ Cardinality(ids') = Cardinality(ids) + 1
         /\ Cardinality(ids) \in Nat
         /\ NewId(a)[1] = a /\ NewId(a)[2] = Cardinality(ids) + 1
         /\ heap' = [heap EXCEPT ![a] = [seq |-> NewId(a)[2], expiration |-> when, interval |-> interval]]
         /\ [seq |-> NewId(a)[2], expiration |-> when, interval |-> interval] \in Timers
<1>1. IsFiniteSet(ids) /\ Cardinality(ids) \in Nat
  BY FS_CardinalityType DEF Numbers
<1>2. NewId(a) = <<a, Cardinality(ids) + 1>> /\ NewId(a) \in Ids
  BY DEF New, NewId
<1>3. NewId(a) \notin ids
  BY <1>1, <1>2 DEF Numbers
<1>4. IsFiniteSet(ids') /\ Cardinality(ids') = Cardinality(ids) + 1
  BY <1>1, <1>3, FS_AddElement DEF New
<1>5. NewId(a)[2] \in 1..MaxTimers
  BY <1>2 DEF Ids
<1>6. when \in 1..(MaxTime + 1)
  BY TimerAssumption DEF Times
<1>7. [seq |-> NewId(a)[2], expiration |-> when, interval |-> interval] \in Timers
  BY <1>5, <1>6 DEF Timers
<1> QED
  BY <1>1, <1>2, <1>3, <1>4, <1>7 DEF New

\* A number less than the bound of the clock, for resetTimerfd.
LEMMA ResetTypes ==
  ASSUME TypeOK, NEW when \in 1..(MaxTime + 1)
  PROVE  ResetTo(when) \in 1..(MaxTime + 1) /\ (ResetTo(when) = when \/ ResetTo(when) = now)
BY TimerAssumption DEF TypeOK, ResetTo, Times

LEMMA InsertTypes ==
  ASSUME TypeOK, NEW id \in ids', NEW when \in 1..(MaxTime + 1), Insert(id, when), ids \subseteq ids', ids' \subseteq Ids
  PROVE  /\ timers' \subseteq (1..(MaxTime + 1)) \X Addrs
         /\ activeTimers' \subseteq ids'
         /\ armed' \in 0..(MaxTime + 1)
<1>1. id[1] \in Addrs
  BY DEF Ids
<1>2. ResetTo(when) \in 0..(MaxTime + 1)
  BY ResetTypes, TimerAssumption
<1> QED
  BY <1>1, <1>2 DEF Insert, TypeOK

LEMMA ResetTimers ==
  ASSUME LoopInv, TypeOK, Batch, Agree, Reset
  PROVE  LET back == {a \in expired : PutBack(a)} IN
         /\ \A a \in back :
              /\ a \in Addrs /\ heap[a] \in Timers /\ Id(a) \in ids
              /\ Restarted(a) \in Timers
              /\ Restarted(a).seq = heap[a].seq
         /\ timers' = timers \cup {<<Restarted(a).expiration, a>> : a \in back}
         /\ timers' \subseteq (1..(MaxTime + 1)) \X Addrs
         /\ timers' # {} => Earliest(timers') \in 1..(MaxTime + 1)
<1> DEFINE back == {a \in expired : PutBack(a)}
<1>1. \A a \in back : a \in Addrs /\ heap[a] \in Timers /\ heap[a].interval = 1 /\ Id(a) \in ids
  BY DEF TypeOK, PutBack, Agree, Timers, Intervals
<1>2. handledAt \in 1..MaxTime
  BY DEF Reset, Batch, Times
<1>3. handledAt + 1 \in 1..(MaxTime + 1)
  BY <1>2, TimerAssumption
<1>4. \A a \in back : Restarted(a) \in Timers /\ Restarted(a).seq = heap[a].seq
  BY <1>1, <1>3 DEF Restarted, Timers
<1>5. timers' = timers \cup {<<Restarted(a).expiration, a>> : a \in back}
  BY DEF Reset
<1>6. \A a \in back : Restarted(a).expiration \in 1..(MaxTime + 1)
  BY <1>4 DEF Timers
<1>7. timers' \subseteq (1..(MaxTime + 1)) \X Addrs
  BY <1>1, <1>5, <1>6 DEF TypeOK
<1>8. ASSUME timers' # {} PROVE Earliest(timers') \in 1..(MaxTime + 1)
  <2>1. timers' \subseteq Nat \X Addrs
    BY <1>7
  <2>2. Earliest(timers') \in {t[1] : t \in timers'}
    BY <1>8, <2>1, EarliestIs
  <2> QED
    BY <1>7, <2>2
<1> QED
  BY <1>1, <1>4, <1>5, <1>7, <1>8

LEMMA TypeStep ==
  ASSUME LoopInv, LoopInv', TypeOK, AddedOnce, Named, Numbers, Batch, Agree, [Next]_vars
  PROVE  TypeOK'
<1>1. LoopTypeOK'
  BY DEF LoopInv
<1>2. CASE NoTimers
  BY <1>1, <1>2, TimerAssumption DEF TypeOK, NoTimers, Times, sets
<1>3. CASE HandleTimer
  <2>1. expired' \subseteq Addrs
    BY <1>3 DEF TypeOK, HandleTimer, ExpiredBy
  <2>2. handledAt' \in 0..MaxTime /\ armed' \in 0..(MaxTime + 1)
    BY <1>3, TimerAssumption DEF TypeOK, HandleTimer, Times
  <2> QED
    BY <1>1, <1>3, <2>1, <2>2 DEF TypeOK, HandleTimer
<1>4. CASE Reset
  <2> DEFINE back == {a \in expired : PutBack(a)}
  <2>1. heap' \in [Addrs -> {Nothing} \cup Timers]
    BY <1>4, ResetTimers DEF TypeOK, Reset
  <2>2. timers' \subseteq (1..(MaxTime + 1)) \X Addrs
    BY <1>4, ResetTimers
  <2>3. activeTimers' \subseteq ids'
    BY <1>4, ResetTimers DEF TypeOK, Reset
  <2>4. armed' \in 0..(MaxTime + 1)
    <3>1. CASE timers' = {}
      BY <1>4, <3>1 DEF TypeOK, Reset
    <3>2. CASE timers' # {}
      <4>1. Earliest(timers') \in 1..(MaxTime + 1)
        BY <1>4, <3>2, ResetTimers
      <4>2. ResetTo(Earliest(timers')) \in 0..(MaxTime + 1)
        BY <4>1, ResetTypes, TimerAssumption
      <4> QED
        BY <1>4, <3>2, <4>2 DEF Reset
    <3> QED
      BY <3>1, <3>2
  <2>5. /\ UNCHANGED <<now, ids, canceling, dead>>
        /\ toRun' = {} /\ expired' = {} /\ calling' = FALSE /\ handledAt' = 0
    BY <1>4 DEF Reset
  <2>6. handledAt' \in 0..MaxTime
    BY <2>5, TimerAssumption
  <2>7. /\ calling' \in BOOLEAN /\ toRun' \subseteq expired' /\ expired' \subseteq Addrs
        /\ now' \in Times /\ ids' \subseteq Ids /\ canceling' \subseteq ids' /\ dead' \subseteq ids'
    BY <2>5, Zenon DEF TypeOK
  <2> QED
    BY <1>1, <2>1, <2>2, <2>3, <2>4, <2>6, <2>7 DEF TypeOK
<1>5. ASSUME NEW a \in Addrs, NEW when \in Times, NEW interval \in Intervals, AddTimer(a, when, interval)
      PROVE  TypeOK'
  <2>1. New(a, when, interval) /\ Insert(NewId(a), when) /\ ids' = ids \cup {NewId(a)}
    BY <1>5 DEF AddTimer, New
  <2>2. heap' \in [Addrs -> {Nothing} \cup Timers] /\ ids' \subseteq Ids /\ NewId(a) \in ids'
    BY <2>1, NewTypes, ZenonT(30) DEF TypeOK
  <2>3. when \in 1..(MaxTime + 1)
    BY TimerAssumption DEF Times
  <2>4. /\ timers' \subseteq (1..(MaxTime + 1)) \X Addrs
        /\ activeTimers' \subseteq ids'
        /\ armed' \in 0..(MaxTime + 1)
    BY <2>1, <2>2, <2>3, InsertTypes
  <2> QED
    BY <1>1, <1>5, <2>1, <2>2, <2>4 DEF TypeOK, AddTimer, batch
<1>6. ASSUME NEW t \in Threads, NEW a \in Addrs, NEW when \in Times, NEW interval \in Intervals,
             QueueAddTimer(t, a, when, interval)
      PROVE  TypeOK'
  <2>1. New(a, when, interval) /\ ids' = ids \cup {NewId(a)}
    BY <1>6 DEF QueueAddTimer, New
  <2>2. heap' \in [Addrs -> {Nothing} \cup Timers] /\ ids' \subseteq Ids
    BY <2>1, NewTypes, ZenonT(30) DEF TypeOK
  <2> QED
    BY <1>1, <1>6, <2>1, <2>2 DEF TypeOK, QueueAddTimer, sets, batch
<1>7. ASSUME NEW id \in Ids, id \in ids, CancelInLoop(id)
      PROVE  TypeOK'
  <2>1. heap' \in [Addrs -> {Nothing} \cup Timers]
    BY <1>7 DEF TypeOK, CancelInLoop
  <2>2. canceling' \subseteq ids' /\ dead' \subseteq ids'
    BY <1>7 DEF TypeOK, CancelInLoop
  <2>3. timers' \subseteq timers /\ activeTimers' \subseteq activeTimers
    BY <1>7 DEF CancelInLoop
  <2> QED
    BY <1>1, <1>7, <2>1, <2>2, <2>3 DEF TypeOK, CancelInLoop
<1>8. ASSUME NEW id \in Adding,
             Insert(id, heap[id[1]].expiration),
             UNCHANGED <<now, ids, heap, batch, dead>>
      PROVE  TypeOK'
  <2>1. heap[id[1]] # Nothing /\ id = Id(id[1])
    BY DEF Agree
  <2>2. PICK w \in Waiting : w[2].op = "add" /\ w[2].timer = id
    BY DEF Adding
  <2>3. id \in ids /\ id[1] \in Addrs
    BY <2>2 DEF Named, TypeOK, Ids
  <2>4. heap[id[1]].expiration \in 1..(MaxTime + 1)
    BY <2>1, <2>3 DEF TypeOK, Timers
  <2>5. /\ timers' \subseteq (1..(MaxTime + 1)) \X Addrs
        /\ activeTimers' \subseteq ids'
        /\ armed' \in 0..(MaxTime + 1)
    BY <1>8, <2>3, <2>4, InsertTypes DEF TypeOK
  <2> QED
    BY <1>1, <1>8, <2>5 DEF TypeOK, batch
<1> QED
  BY <1>2, <1>3, <1>4, <1>5, <1>6, <1>7, <1>8, Steps

LEMMA QueueStep ==
  ASSUME LoopInv, AddedOnce, Named, TypeOK, Numbers, Batch, Agree, [Next]_vars
  PROVE  AddedOnce' /\ Named'
<1>1. ASSUME UNCHANGED Waiting, ids \subseteq ids'
      PROVE  AddedOnce' /\ Named'
  BY <1>1 DEF AddedOnce, Named
<1>2. ASSUME UNCHANGED <<pending, functors>> PROVE UNCHANGED Waiting
  BY <1>2 DEF Waiting
<1>3. ASSUME UNCHANGED loopVars PROVE UNCHANGED Waiting
  BY <1>2, <1>3 DEF loopVars, queues
<1>4. ids \subseteq ids'
  BY Steps DEF NoTimers, HandleTimer, Reset, AddTimer, QueueAddTimer, New, CancelInLoop
<1>5. ASSUME NEW f \in Functors, PushBack(f),
             f.op # "user" => f.timer \in ids',
             f.op = "add" => f.timer \notin Adding
      PROVE  AddedOnce' /\ Named'
  <2> DEFINE new == <<queued + 1, f>>
  <2>1. Waiting' = Waiting \cup {new} /\ new[2] = f
    BY <1>5, WaitingPush DEF LoopInv
  <2> HIDE DEF new
  <2>2. \A w \in Waiting : w[2].op = "add" => w[2].timer \in Adding
    BY DEF Adding
  <2>3. Named'
    BY <1>4, <1>5, <2>1 DEF Named
  <2>4. AddedOnce'
    BY <1>5, <2>1, <2>2 DEF AddedOnce
  <2> QED
    BY <2>3, <2>4
<1>6. CASE LoopSteps
  <2>1. CASE SwapFunctors
    BY <1>1, <1>4, <2>1, WaitingSwap DEF LoopInv
  <2>2. CASE RunQueued
    <3>1. Waiting' \subseteq Waiting
      BY <2>2, RunAdding DEF RunQueued
    <3> QED
      BY <1>4, <3>1 DEF AddedOnce, Named
  <2>3. CASE ~SwapFunctors /\ ~RunQueued
    <3>1. UNCHANGED Waiting
      BY <1>2, <1>3, <1>6, <2>3 DEF LoopSteps, TimerPoll, Poll, LoopOnly, Loop, HandleRead, HandleEvent,
         Return, Iterate, HandleTimer, RunTimer, Reset, queues
    <3> QED
      BY <1>1, <1>4, <3>1
  <2> QED
    BY <2>1, <2>2, <2>3
<1>7. CASE TimerPollTimeout
  BY <1>1, <1>2, <1>4, <1>7 DEF TimerPollTimeout, PollTimeout, queues
<1>8. CASE TimerCalls
  <2>1. CASE \E a \in Addrs, when \in Times, interval \in Intervals : AddTimer(a, when, interval)
    BY <1>1, <1>3, <1>4, <2>1 DEF AddTimer
  <2>2. CASE \E a \in Addrs, when \in Times, interval \in Intervals, t \in Threads :
               QueueAddTimer(t, a, when, interval)
    <3>1. PICK a \in Addrs, when \in Times, interval \in Intervals, t \in Threads :
               QueueAddTimer(t, a, when, interval)
      BY <2>2
    <3> DEFINE f == [op |-> "add", timer |-> NewId(a)]
    <3>2. f \in Functors /\ PushBack(f) /\ NewId(a) \in ids'
      BY <3>1, TimerAssumption DEF QueueAddTimer, New, Queue, TimerFunctors
    <3>3. NewId(a) \notin ids
      BY <3>1, NewTypes DEF QueueAddTimer
    <3>4. Adding \subseteq ids
      BY DEF Adding, Named
    <3> QED
      BY <1>5, <3>2, <3>3, <3>4
  <2>3. CASE \E id \in Ids : Cancel(id)
    BY <1>1, <1>3, <1>4, <2>3 DEF Cancel
  <2>4. CASE \E id \in Ids, t \in Threads : QueueCancel(t, id)
    <3>1. PICK id \in Ids, t \in Threads : QueueCancel(t, id)
      BY <2>4
    <3> DEFINE f == [op |-> "cancel", timer |-> id]
    <3>2. f \in Functors /\ PushBack(f) /\ id \in ids
      BY <3>1, TimerAssumption DEF QueueCancel, Queue, TimerFunctors
    <3> QED
      BY <1>4, <1>5, <3>2
  <2> QED
    BY <1>8, <2>1, <2>2, <2>3, <2>4 DEF TimerCalls
<1>9. CASE OtherCalls
  <2> DEFINE f == [op |-> "user", timer |-> Nothing]
  <2>1. f \in Functors
    BY TimerAssumption DEF TimerFunctors
  <2>2. PushBack(f) => AddedOnce' /\ Named'
    BY <1>5, <2>1
  <2> QED
    BY <1>1, <1>2, <1>4, <1>9, <2>2 DEF OtherCalls, QueueInLoop, Queue, QuitInLoop, Quit, Wakeup, queues
<1>10. CASE Tick \/ UNCHANGED vars
  BY <1>1, <1>3, <1>4, <1>10 DEF Tick, vars
<1> QED
  BY <1>6, <1>7, <1>8, <1>9, <1>10 DEF Next

LEMMA NumbersStep ==
  ASSUME LoopInv, TypeOK, AddedOnce, Named, Numbers, Batch, Agree, [Next]_vars
  PROVE  Numbers'
<1>1. CASE UNCHANGED ids
  BY <1>1 DEF Numbers
<1>2. ASSUME NEW a \in Addrs, NEW when \in Times, NEW interval \in Intervals, New(a, when, interval)
      PROVE  Numbers'
  <2>1. /\ IsFiniteSet(ids') /\ Cardinality(ids') = Cardinality(ids) + 1 /\ Cardinality(ids) \in Nat
        /\ NewId(a)[2] = Cardinality(ids) + 1 /\ ids' = ids \cup {NewId(a)}
    BY <1>2, NewTypes DEF New
  <2>2. \A id \in ids : id[2] \in Nat
    BY DEF TypeOK, Ids
  <2> QED
    BY <2>1, <2>2 DEF Numbers
<1> QED
  BY <1>1, <1>2, Steps DEF NoTimers, HandleTimer, Reset, AddTimer, QueueAddTimer, CancelInLoop

LEMMA BatchStep ==
  ASSUME LoopInv, TypeOK, Batch, [Next]_vars
  PROVE  Batch'
<1> USE DEF Batch
<1>0. ASSUME UNCHANGED <<calling, expired, handledAt, inCallback, phase>>
      PROVE  Batch'
  BY <1>0
<1>1. CASE LoopSteps
  <2>1. CASE HandleTimer
    BY <2>1 DEF HandleTimer, HandleEvent, TypeOK
  <2>2. CASE RunQueued
    <3>1. ~calling /\ expired = {}
      BY <2>2 DEF RunQueued, RunFunctor
    <3>2. Head(functors)[2].op \in {"add", "cancel", "user"}
      BY <2>2, WaitingRun, WaitingTypes DEF RunQueued, LoopInv, TimerFunctors
    <3>3. UNCHANGED <<calling, expired>>
      BY <2>2, <3>2 DEF RunQueued, CancelInLoop, unchangedTimers, batch
    <3> QED
      BY <3>1, <3>3
  <2>3. CASE \E ready \in SUBSET Channels : TimerPoll(ready)
    BY <2>3 DEF TimerPoll, Poll, unchangedTimers, batch
  <2>4. CASE LoopOnly
    BY <2>4 DEF LoopOnly, Loop, HandleRead, HandleEvent, Return, SwapFunctors, Iterate, unchangedTimers, batch
  <2>5. CASE \E a \in Addrs : RunTimer(a)
    BY <1>0, <2>5 DEF RunTimer, loopVars, control
  <2>6. CASE Reset
    BY <2>6 DEF Reset
  <2> QED
    BY <1>1, <2>1, <2>2, <2>3, <2>4, <2>5, <2>6 DEF LoopSteps
<1>2. CASE TimerPollTimeout
  BY <1>2 DEF TimerPollTimeout, PollTimeout, unchangedTimers, batch, LoopInv, Rounds
<1>3. CASE TimerCalls
  <2>1. CASE \E a \in Addrs, when \in Times, interval \in Intervals : AddTimer(a, when, interval)
    BY <1>0, <2>1 DEF AddTimer, batch, loopVars, control
  <2>2. CASE \E a \in Addrs, when \in Times, interval \in Intervals, t \in Threads :
               QueueAddTimer(t, a, when, interval)
    BY <1>0, <2>2 DEF QueueAddTimer, Queue, batch, control
  <2>3. CASE \E id \in Ids : Cancel(id)
    BY <1>0, <2>3 DEF Cancel, CancelInLoop, loopVars, control
  <2>4. CASE \E id \in Ids, t \in Threads : QueueCancel(t, id)
    BY <1>0, <2>4 DEF QueueCancel, Queue, unchangedTimers, batch, control
  <2> QED
    BY <1>3, <2>1, <2>2, <2>3, <2>4 DEF TimerCalls
<1>4. CASE OtherCalls
  BY <1>0, <1>4 DEF OtherCalls, QueueInLoop, Queue, QuitInLoop, Quit, Wakeup, unchangedTimers, batch, control
<1>5. CASE Tick \/ UNCHANGED vars
  BY <1>0, <1>5 DEF Tick, vars, batch, loopVars, control
<1> QED
  BY <1>1, <1>2, <1>3, <1>4, <1>5 DEF Next

LEMMA AgreeStep ==
  ASSUME LoopInv, TypeOK, AddedOnce, Named, Numbers, Batch, Agree, [Next]_vars
  PROVE  Agree'
<1>0. /\ heap \in [Addrs -> {Nothing} \cup Timers] /\ expired \subseteq Addrs
      /\ timers \subseteq (1..(MaxTime + 1)) \X Addrs /\ ids \subseteq Ids /\ activeTimers \subseteq ids
      /\ Adding \subseteq ids
      /\ \A id \in ids : id = <<id[1], id[2]>> /\ id[1] \in Addrs
      /\ \A e \in timers : e = <<e[1], e[2]>> /\ e[2] \in Addrs
  BY DEF TypeOK, Ids, Adding, Named
<1>1. CASE NoTimers
  BY <1>1 DEF NoTimers, Agree, Id, Entry, sets
<1>2. CASE HandleTimer /\ UNCHANGED Adding
  <2> DEFINE gone == ExpiredBy(now)
  <2>1. /\ gone \subseteq timers /\ timers' = timers \ gone /\ expired' = {e[2] : e \in gone}
        /\ activeTimers' = activeTimers \ {Id(a) : a \in expired'}
        /\ heap' = heap /\ ids' = ids /\ Adding' = Adding
    BY <1>2 DEF HandleTimer, ExpiredBy
  <2>2. expired = {}
    BY <1>2 DEF HandleTimer, HandleEvent, Batch
  <2>3. \A a \in expired' : heap[a] # Nothing /\ Entry(a) \in gone /\ a \in Addrs
    BY <1>0, <2>1 DEF Agree
  <2> HIDE DEF gone
  <2>4. \A a \in Addrs : heap[a] # Nothing =>
          Id(a) \in ids /\ (Entry(a) \in timers' \/ a \in expired' \/ Id(a) \in Adding)
    <3>1. \A a \in Addrs : Entry(a) \in gone => Entry(a)[2] \in expired'
      BY <2>1
    <3>2. \A a \in Addrs : Entry(a)[2] = a
      BY DEF Entry
    <3> QED
      BY <2>1, <2>2, <3>1, <3>2 DEF Agree
  <2>5. \A e \in timers' : heap[e[2]] # Nothing /\ e = Entry(e[2])
    BY <2>1 DEF Agree
  <2>6. activeTimers' = {Id(e[2]) : e \in timers'}
    <3>1. \A e \in timers' : e[2] \notin expired'
      BY <2>3, <2>1, <2>5
    <3>2. \A a, b : Id(a) = Id(b) => a = b
      BY DEF Id
    <3>3. ASSUME NEW id \in activeTimers' PROVE \E e \in timers' : id = Id(e[2])
      <4>1. PICK e \in timers : id = Id(e[2])
        BY <2>1 DEF Agree
      <4>2. e \notin gone
        BY <2>1, <4>1
      <4> QED
        BY <2>1, <4>1, <4>2
    <3>4. ASSUME NEW e \in timers' PROVE Id(e[2]) \in activeTimers'
      BY <2>1, <3>1, <3>2 DEF Agree
    <3> QED
      BY <3>3, <3>4
  <2>7. \A a \in expired' : heap[a] # Nothing /\ Entry(a) \notin timers'
    BY <2>1, <2>3
  <2>8. \A id \in Adding :
          /\ heap[id[1]] # Nothing /\ id = Id(id[1])
          /\ Entry(id[1]) \notin timers' /\ id[1] \notin expired'
    BY <2>1, <2>3 DEF Agree
  <2> QED
    BY <2>1, <2>4, <2>5, <2>6, <2>7, <2>8 DEF Agree, Id, Entry
<1>3. CASE Reset /\ UNCHANGED Adding
  <2> DEFINE back == {a \in expired : PutBack(a)}
             put == {<<Restarted(a).expiration, a>> : a \in back}
  <2>1. /\ timers' = timers \cup put
        /\ activeTimers' = activeTimers \cup {Id(a) : a \in back}
        /\ \A a \in Addrs : heap'[a] = IF a \in back THEN Restarted(a)
                                       ELSE IF a \in expired THEN Nothing ELSE heap[a]
        /\ expired' = {} /\ ids' = ids /\ Adding' = Adding
    BY <1>3 DEF Reset
  <2>2. \A a \in back : /\ a \in expired /\ a \in Addrs /\ Id(a) \in ids /\ Restarted(a) # Nothing
                        /\ Restarted(a).seq = heap[a].seq
    BY <1>3, ResetTimers, TimerAssumption
  <2>3. \A e \in timers : e[2] \notin expired
    BY DEF Agree
  <2>4. \A id \in Adding : id[1] \notin expired
    BY DEF Agree
  <2> HIDE DEF back
  <2>5. \A a \in Addrs : heap'[a] # Nothing =>
          Id(a)' \in ids' /\ (Entry(a)' \in timers' \/ a \in expired' \/ Id(a)' \in Adding')
    <3> SUFFICES ASSUME NEW a \in Addrs, heap'[a] # Nothing
                 PROVE  Id(a)' \in ids' /\ (Entry(a)' \in timers' \/ a \in expired' \/ Id(a)' \in Adding')
      OBVIOUS
    <3>1. CASE a \in back
      BY <2>1, <2>2, <3>1 DEF Id, Entry
    <3>2. CASE a \notin back
      BY <2>1, <3>2 DEF Agree, Id, Entry
    <3> QED
      BY <3>1, <3>2
  <2>6. \A e \in timers' : heap'[e[2]] # Nothing /\ e = Entry(e[2])'
    <3>1. ASSUME NEW e \in timers PROVE heap'[e[2]] # Nothing /\ e = Entry(e[2])'
      BY <1>0, <2>1, <2>2, <2>3 DEF Agree, Entry
    <3>2. ASSUME NEW a \in back
          PROVE  heap'[a] # Nothing /\ <<Restarted(a).expiration, a>> = Entry(a)'
      BY <2>1, <2>2 DEF Entry
    <3> QED
      BY <2>1, <3>1, <3>2
  <2>7. activeTimers' = {Id(e[2])' : e \in timers'}
    <3>1. \A e \in timers : Id(e[2])' = Id(e[2])
      BY <1>0, <2>1, <2>2, <2>3 DEF Id
    <3>2. \A a \in back : Id(a)' = Id(a)
      BY <2>1, <2>2 DEF Id
    <3>3. activeTimers' = {Id(e[2]) : e \in timers} \cup {Id(a) : a \in back}
      BY <2>1 DEF Agree
    <3>4. ASSUME NEW id \in activeTimers' PROVE id \in {Id(e[2])' : e \in timers'}
      <4>1. CASE \E e \in timers : id = Id(e[2])
        BY <2>1, <3>1, <4>1
      <4>2. CASE \E a \in back : id = Id(a)
        <5>1. PICK a \in back : id = Id(a)
          BY <4>2
        <5>2. <<Restarted(a).expiration, a>> \in timers' /\ <<Restarted(a).expiration, a>>[2] = a
          BY <2>1, <5>1
        <5> QED
          BY <3>2, <5>1, <5>2
      <4> QED
        BY <3>3, <4>1, <4>2
    <3>5. ASSUME NEW e \in timers' PROVE Id(e[2])' \in activeTimers'
      <4>1. CASE e \in timers
        BY <3>1, <3>3, <4>1
      <4>2. CASE e \in put
        <5>1. PICK a \in back : e = <<Restarted(a).expiration, a>>
          BY <4>2
        <5>2. e[2] = a
          BY <5>1
        <5> QED
          BY <3>2, <3>3, <5>1, <5>2
      <4> QED
        BY <2>1, <4>1, <4>2
    <3> QED
      BY <3>4, <3>5
  <2>8. \A id \in Adding' :
          /\ heap'[id[1]] # Nothing /\ id = Id(id[1])'
          /\ Entry(id[1])' \notin timers' /\ id[1] \notin expired'
    <3> SUFFICES ASSUME NEW id \in Adding
                 PROVE  heap'[id[1]] # Nothing /\ id = Id(id[1])' /\ Entry(id[1])' \notin timers'
      BY <2>1
    <3>1. id[1] \in Addrs /\ id[1] \notin back /\ heap'[id[1]] = heap[id[1]]
      BY <1>0, <2>1, <2>2, <2>4
    <3>2. Entry(id[1])' = Entry(id[1]) /\ Id(id[1])' = Id(id[1]) /\ Entry(id[1])[2] = id[1]
      BY <3>1 DEF Entry, Id
    <3>3. Entry(id[1]) \notin put
      BY <3>1, <3>2
    <3> QED
      BY <2>1, <3>1, <3>2, <3>3 DEF Agree
  <2> QED
    BY <2>1, <2>5, <2>6, <2>7, <2>8 DEF Agree
<1>4. ASSUME NEW a \in Addrs, NEW when \in Times, NEW interval \in Intervals, New(a, when, interval),
             UNCHANGED expired
      PROVE  /\ \A b \in Addrs \ {a} : heap'[b] = heap[b] /\ Id(b)' = Id(b) /\ Entry(b)' = Entry(b)
             /\ heap'[a] # Nothing /\ Id(a)' = NewId(a) /\ Entry(a)' = <<when, a>> /\ NewId(a)[1] = a
             /\ ids' = ids \cup {NewId(a)}
             /\ a \notin expired
             /\ \A e \in timers : e[2] # a
             /\ \A id \in Adding : id[1] # a
  <2> DEFINE new == [seq |-> NewId(a)[2], expiration |-> when, interval |-> interval]
  <2>1. new \in Timers /\ new # Nothing /\ NewId(a) = <<a, NewId(a)[2]>> /\ NewId(a)[1] = a
    <3>1. new \in Timers
      BY <1>4, NewTypes
    <3>2. NewId(a) = <<a, NewId(a)[2]>> /\ NewId(a)[1] = a
      BY DEF NewId
    <3> QED
      BY <3>1, <3>2, TimerAssumption
  <2>2. heap' = [heap EXCEPT ![a] = new] /\ heap[a] = Nothing /\ ids' = ids \cup {NewId(a)}
    BY <1>4 DEF New
  <2>3. new.seq = NewId(a)[2] /\ new.expiration = when
    OBVIOUS
  <2> HIDE DEF new
  <2>4. heap'[a] = new /\ \A b \in Addrs \ {a} : heap'[b] = heap[b]
    BY <1>0, <2>2
  <2>5. \A b \in Addrs \ {a} : Id(b)' = Id(b) /\ Entry(b)' = Entry(b)
    BY <2>4 DEF Id, Entry
  <2>6. Id(a)' = NewId(a) /\ Entry(a)' = <<when, a>>
    BY <2>1, <2>3, <2>4 DEF Id, Entry
  <2>7. /\ a \notin expired
        /\ \A e \in timers : e[2] # a
        /\ \A id \in Adding : id[1] # a
    BY <2>2 DEF Agree
  <2> QED
    BY <2>1, <2>2, <2>4, <2>5, <2>6, <2>7
<1>5. ASSUME NEW a \in Addrs, NEW when \in Times, NEW interval \in Intervals, AddTimer(a, when, interval),
             UNCHANGED Adding
      PROVE  Agree'
  <2>1. /\ New(a, when, interval) /\ UNCHANGED expired
        /\ timers' = timers \cup {<<when, a>>} /\ activeTimers' = activeTimers \cup {NewId(a)}
    BY <1>5 DEF AddTimer, Insert, batch, NewId
  <2>2. Agree!1'
    BY <1>4, <1>5, <2>1 DEF Agree
  <2>3. Agree!2'
    BY <1>0, <1>4, <2>1 DEF Agree
  <2>4. activeTimers' = {Id(e[2])' : e \in timers'}
    <3>1. \A e \in timers : Id(e[2])' = Id(e[2])
      BY <1>0, <1>4, <2>1
    <3>2. Id(<<when, a>>[2])' = NewId(a)
      BY <1>4, <2>1
    <3>3. activeTimers = {Id(e[2]) : e \in timers}
      BY DEF Agree
    <3>4. \A id \in activeTimers' : \E e \in timers' : id = Id(e[2])'
      BY <2>1, <3>1, <3>2, <3>3
    <3>5. \A e \in timers' : Id(e[2])' \in activeTimers'
      BY <2>1, <3>1, <3>2, <3>3
    <3> QED
      BY <3>4, <3>5
  <2>5. Agree!4'
    BY <1>0, <1>4, <2>1 DEF Agree, Entry
  <2>6. Agree!5'
    BY <1>0, <1>4, <1>5, <2>1 DEF Agree, Entry
  <2> QED
    BY <2>2, <2>3, <2>4, <2>5, <2>6 DEF Agree
<1>6. ASSUME NEW t \in Threads, NEW a \in Addrs, NEW when \in Times, NEW interval \in Intervals,
             QueueAddTimer(t, a, when, interval), Adding' = Adding \cup {NewId(a)}
      PROVE  Agree'
  <2>1. New(a, when, interval) /\ UNCHANGED <<expired, timers, activeTimers>>
    BY <1>6 DEF QueueAddTimer, sets, batch
  <2>2. Agree!1'
    BY <1>4, <1>6, <2>1 DEF Agree
  <2>3. Agree!2'
    BY <1>0, <1>4, <2>1 DEF Agree
  <2>4. activeTimers' = {Id(e[2])' : e \in timers'}
    <3>1. \A e \in timers : Id(e[2])' = Id(e[2])
      BY <1>0, <1>4, <2>1
    <3> QED
      BY <2>1, <3>1 DEF Agree
  <2>5. Agree!4'
    BY <1>0, <1>4, <2>1 DEF Agree
  <2>6. ASSUME NEW id \in Adding'
        PROVE  /\ heap'[id[1]] # Nothing /\ id = Id(id[1])'
               /\ Entry(id[1])' \notin timers' /\ id[1] \notin expired'
    <3>1. CASE id \in Adding
      BY <1>0, <1>4, <2>1, <3>1 DEF Agree
    <3>2. CASE id = NewId(a)
      BY <1>4, <2>1, <3>2
    <3> QED
      BY <1>6, <3>1, <3>2
  <2> QED
    BY <2>2, <2>3, <2>4, <2>5, <2>6 DEF Agree
<1>7. ASSUME NEW id \in Ids, id \in ids, CancelInLoop(id), UNCHANGED Adding
      PROVE  Agree'
  <2> DEFINE a == id[1]
  <2>1. UNCHANGED <<expired, ids, Adding>>
    BY <1>7 DEF CancelInLoop
  <2>2. CASE ~Found(id)
    <3>1. UNCHANGED <<heap, timers, activeTimers>>
      BY <1>7, <2>2 DEF CancelInLoop
    <3> QED
      BY <2>1, <3>1 DEF Agree, Id, Entry
  <2>3. CASE Found(id)
    <3>1. /\ timers' = timers \ {<<heap[a].expiration, a>>} /\ activeTimers' = activeTimers \ {id}
          /\ heap' = [heap EXCEPT ![a] = Nothing] /\ a \in Addrs
      BY <1>7, <2>3 DEF CancelInLoop, Ids
    <3>2. PICK e \in timers : id = Id(e[2])
      BY <2>3 DEF Found, Agree
    <3>3. e[2] = a /\ e = Entry(a) /\ id = Id(a) /\ Entry(a) \in timers /\ heap[a] # Nothing
      BY <3>2 DEF Agree, Id
    <3>4. timers' = timers \ {Entry(a)} /\ heap'[a] = Nothing
      BY <1>0, <3>1 DEF Entry
    <3>5. \A b \in Addrs \ {a} : heap'[b] = heap[b] /\ Id(b)' = Id(b) /\ Entry(b)' = Entry(b)
      BY <1>0, <3>1 DEF Id, Entry
    <3>6. \A d \in timers' : d[2] # a
      BY <3>4 DEF Agree
    <3>7. a \notin expired
      BY <3>3 DEF Agree
    <3>8. \A i \in Adding : i[1] # a
      BY <3>3 DEF Agree
    <3> HIDE DEF a
    <3>9. Agree!1'
      <4> SUFFICES ASSUME NEW b \in Addrs, heap'[b] # Nothing
                   PROVE  Id(b)' \in ids' /\ (Entry(b)' \in timers' \/ b \in expired' \/ Id(b)' \in Adding')
        OBVIOUS
      <4>1. b # a /\ Entry(b) # Entry(a)
        BY <3>4 DEF Entry
      <4> QED
        BY <2>1, <3>4, <3>5, <4>1 DEF Agree
    <3>10. Agree!2'
      BY <1>0, <3>4, <3>5, <3>6 DEF Agree
    <3>11. activeTimers' = {Id(d[2])' : d \in timers'}
      <4>1. \A d \in timers' : Id(d[2])' = Id(d[2]) /\ Id(d[2]) # id
        <5>1. \A b \in Addrs \ {a} : Id(b) # Id(a)
          BY DEF Id
        <5> QED
          BY <1>0, <3>3, <3>4, <3>5, <3>6, <5>1
      <4>2. \A d \in timers' : Id(d[2])' \in activeTimers'
        BY <3>1, <3>4, <4>1 DEF Agree
      <4>3. ASSUME NEW i \in activeTimers' PROVE \E d \in timers' : i = Id(d[2])'
        <5>1. PICK d \in timers : i = Id(d[2]) /\ i # id
          BY <3>1 DEF Agree
        <5>2. d # Entry(a)
          BY <3>2, <3>3, <5>1
        <5> QED
          BY <3>4, <4>1, <5>1, <5>2
      <4> QED
        BY <4>2, <4>3
    <3>12. Agree!4'
      BY <1>0, <2>1, <3>4, <3>5, <3>7 DEF Agree
    <3>13. Agree!5'
      BY <1>0, <2>1, <3>4, <3>5, <3>8 DEF Agree
    <3> QED
      BY <3>9, <3>10, <3>11, <3>12, <3>13 DEF Agree
  <2> QED
    BY <2>2, <2>3
<1>8. ASSUME NEW id \in Adding,
             Insert(id, heap[id[1]].expiration),
             UNCHANGED <<now, ids, heap, batch, dead>>,
             Adding' = Adding \ {id}
      PROVE  Agree'
  <2> DEFINE a == id[1]
  <2>1. a \in Addrs /\ heap[a] # Nothing /\ id = Id(a) /\ Entry(a) \notin timers /\ a \notin expired
    BY <1>0 DEF Agree
  <2>2. /\ timers' = timers \cup {Entry(a)} /\ activeTimers' = activeTimers \cup {Id(a)}
        /\ UNCHANGED <<ids, heap, expired>>
    BY <1>8, <2>1 DEF Insert, Entry, batch
  <2>3. \A b : Id(b)' = Id(b) /\ Entry(b)' = Entry(b)
    BY <2>2 DEF Id, Entry
  <2>4. Entry(a)[2] = a
    BY DEF Entry
  <2>5. \A b : b # a => Entry(b) # Entry(a) /\ Id(b) # Id(a)
    BY DEF Entry, Id
  <2> HIDE DEF a
  <2>6. Agree!1'
    <3> SUFFICES ASSUME NEW b \in Addrs, heap[b] # Nothing
                 PROVE  Id(b) \in ids /\ (Entry(b) \in timers' \/ b \in expired \/ Id(b) \in Adding')
      BY <2>2, <2>3
    <3>1. CASE b = a
      BY <2>2, <3>1 DEF Agree
    <3>2. CASE b # a
      BY <1>8, <2>1, <2>2, <2>5, <3>2 DEF Agree
    <3> QED
      BY <3>1, <3>2
  <2>7. Agree!2'
    BY <2>1, <2>2, <2>3, <2>4 DEF Agree
  <2>8. activeTimers' = {Id(e[2])' : e \in timers'}
    <3>1. activeTimers = {Id(e[2]) : e \in timers}
      BY DEF Agree
    <3>2. \A e \in timers' : Id(e[2])' \in activeTimers'
      BY <2>2, <2>3, <2>4, <3>1
    <3>3. \A i \in activeTimers' : \E e \in timers' : i = Id(e[2])'
      BY <2>2, <2>3, <2>4, <3>1
    <3> QED
      BY <3>2, <3>3
  <2>9. Agree!4'
    BY <2>1, <2>2, <2>3, <2>5 DEF Agree
  <2>10. Agree!5'
    <3> SUFFICES ASSUME NEW i \in Adding, i # id
                 PROVE  /\ heap[i[1]] # Nothing /\ i = Id(i[1])
                        /\ Entry(i[1]) \notin timers' /\ i[1] \notin expired
      BY <1>8, <2>2, <2>3
    <3>1. i = Id(i[1]) /\ i[1] # a
      BY <2>1 DEF Agree
    <3> QED
      BY <2>2, <2>5, <3>1 DEF Agree
  <2> QED
    BY <2>6, <2>7, <2>8, <2>9, <2>10 DEF Agree
<1> QED
  BY <1>1, <1>2, <1>3, <1>5, <1>6, <1>7, <1>8, Steps

LEMMA DeadStep ==
  ASSUME LoopInv, TypeOK, AddedOnce, Named, Numbers, Batch, Agree, Dead, [Next]_vars
  PROVE  Dead'
<1>0. /\ heap \in [Addrs -> {Nothing} \cup Timers] /\ expired \subseteq Addrs /\ dead \subseteq ids
      /\ \A id \in ids : id = <<id[1], id[2]>> /\ id[1] \in Addrs
  BY DEF TypeOK, Ids
<1>1. CASE NoTimers
  BY <1>1 DEF NoTimers, Dead, Id, sets
<1>2. CASE HandleTimer /\ UNCHANGED Adding
  <2>1. /\ expired' = {e[2] : e \in ExpiredBy(now)} /\ activeTimers' \subseteq activeTimers
        /\ UNCHANGED <<heap, dead, Adding>>
    BY <1>2 DEF HandleTimer
  <2>2. \A a \in expired' : Id(a) \in activeTimers
    BY <2>1 DEF ExpiredBy, Agree
  <2> QED
    BY <2>1, <2>2 DEF Dead, Id
<1>3. CASE Reset /\ UNCHANGED Adding
  <2>1. /\ activeTimers' = activeTimers \cup {Id(a) : a \in {b \in expired : PutBack(b)}}
        /\ expired' = {} /\ dead' = dead
    BY <1>3 DEF Reset
  <2>2. \A a \in expired : PutBack(a) => Id(a) \notin dead
    BY DEF PutBack, Dead
  <2> QED
    BY <1>3, <2>1, <2>2 DEF Dead
<1>4. ASSUME NEW a \in Addrs, NEW when \in Times, NEW interval \in Intervals, New(a, when, interval),
             UNCHANGED <<dead, expired, canceling>>,
             activeTimers' \cup Adding' \subseteq activeTimers \cup Adding \cup {NewId(a)}
      PROVE  Dead'
  <2>1. NewId(a) \notin dead
    BY <1>0, <1>4, NewTypes
  <2>2. \A b \in expired : b # a /\ Id(b)' = Id(b)
    BY <1>0, <1>4 DEF Agree, New, Id
  <2> QED
    BY <1>4, <2>1, <2>2 DEF Dead
<1>5. ASSUME NEW a \in Addrs, NEW when \in Times, NEW interval \in Intervals, AddTimer(a, when, interval),
             UNCHANGED Adding
      PROVE  Dead'
  BY <1>4, <1>5 DEF AddTimer, Insert, batch
<1>6. ASSUME NEW t \in Threads, NEW a \in Addrs, NEW when \in Times, NEW interval \in Intervals,
             QueueAddTimer(t, a, when, interval), Adding' = Adding \cup {NewId(a)}
      PROVE  Dead'
  BY <1>4, <1>6 DEF QueueAddTimer, sets, batch
<1>7. ASSUME NEW id \in Ids, id \in ids, CancelInLoop(id), UNCHANGED Adding
      PROVE  Dead'
  <2> DEFINE a == id[1]
  <2>1. dead' = IF id \in Adding THEN dead ELSE dead \cup {id}
    BY <1>7, AddQueuedIs DEF CancelInLoop, LoopInv
  <2>2. CASE Found(id)
    <3>1. /\ activeTimers' = activeTimers \ {id} /\ heap' = [heap EXCEPT ![a] = Nothing]
          /\ UNCHANGED <<canceling, expired>>
      BY <1>7, <2>2 DEF CancelInLoop
    <3>2. a \notin expired
      <4>1. PICK e \in timers : id = Id(e[2])
        BY <2>2 DEF Found, Agree
      <4>2. e = Entry(a) /\ Entry(a) \in timers
        BY <4>1 DEF Agree, Id
      <4> QED
        BY <4>2 DEF Agree
    <3>3. \A b \in expired : Id(b)' = Id(b) /\ Id(b) # id
      BY <1>0, <3>1, <3>2 DEF Id
    <3> QED
      BY <1>7, <2>1, <3>1, <3>3 DEF Dead
  <2>3. CASE ~Found(id)
    <3>1. /\ canceling' = IF calling THEN canceling \cup {id} ELSE canceling
          /\ UNCHANGED <<activeTimers, heap, expired>> /\ id \notin activeTimers
      BY <1>7, <2>3 DEF CancelInLoop, Found
    <3>2. \A b \in expired : Id(b)' = Id(b) /\ calling
      BY <3>1 DEF Id, Batch
    <3> QED
      BY <1>7, <2>1, <3>1, <3>2 DEF Dead
  <2> QED
    BY <2>2, <2>3
<1>8. ASSUME NEW id \in Adding,
             Insert(id, heap[id[1]].expiration),
             UNCHANGED <<now, ids, heap, batch, dead>>,
             Adding' = Adding \ {id}
      PROVE  Dead'
  BY <1>8 DEF Insert, batch, Dead, Id
<1> QED
  BY <1>1, <1>2, <1>3, <1>5, <1>6, <1>7, <1>8, Steps


LEMMA OversleepStep ==
  ASSUME LoopInv, TypeOK, AddedOnce, Named, Numbers, Batch, Agree, NeverOversleeps, [Next]_vars
  PROVE  NeverOversleeps'
<1>0. /\ timers \subseteq (1..(MaxTime + 1)) \X Addrs /\ timers \subseteq Nat \X Addrs
      /\ armed \in Nat /\ now \in Nat \ {0} /\ now \in 1..MaxTime /\ MaxTime \in Nat
      /\ calling \in BOOLEAN
  BY TimerAssumption DEF TypeOK, Times
<1>1. timers # {} => Earliest(timers) \in Nat /\ Earliest(timers) \in 1..(MaxTime + 1)
  BY <1>0, EarliestIs
<1>2. CASE NoTimers
  <2>1. /\ UNCHANGED <<timers, armed, calling>>
        /\ now' \in Nat /\ now <= now'
    BY <1>0, <1>2 DEF NoTimers, sets
  <2>2. Earliest(timers)' = Earliest(timers)
    BY <2>1 DEF Earliest
  <2>3. armed <= now => armed <= now'
    BY <1>0, <2>1
  <2> QED
    BY <2>1, <2>2, <2>3 DEF NeverOversleeps
<1>3. CASE HandleTimer
  BY <1>3 DEF HandleTimer, NeverOversleeps
<1>4. ASSUME NEW when \in 1..(MaxTime + 1), armed' = ResetTo(when), UNCHANGED now
      PROVE  armed' # 0 /\ (armed' <= when \/ armed' <= now')
  BY <1>0, <1>4 DEF ResetTo
<1>5. CASE Reset
  <2>1. now' = now /\ armed' = IF timers' = {} THEN armed ELSE ResetTo(Earliest(timers'))
    BY <1>5 DEF Reset
  <2>2. timers' # {} => Earliest(timers') \in 1..(MaxTime + 1)
    BY <1>5, ResetTimers
  <2>3. Earliest(timers)' = Earliest(timers')
    BY DEF Earliest
  <2> QED
    BY <1>4, <2>1, <2>2, <2>3 DEF NeverOversleeps
<1>6. ASSUME NEW id, NEW when \in 1..(MaxTime + 1), id[1] \in Addrs, Insert(id, when),
             UNCHANGED <<now, calling>>
      PROVE  NeverOversleeps'
  <2> DEFINE new == <<when, id[1]>>
  <2>1. /\ timers' = timers \cup {new} /\ new[1] = when
        /\ armed' = IF timers = {} \/ when < Earliest(timers) THEN ResetTo(when) ELSE armed
    BY <1>6 DEF Insert
  <2>2. timers' \subseteq Nat \X Addrs /\ timers' # {} /\ new \in timers'
    <3>1. when \in Nat
      BY <1>0
    <3>2. new \in Nat \X Addrs
      BY <1>6, <3>1
    <3> HIDE DEF new
    <3> QED
      BY <1>0, <2>1, <3>2
  <2> HIDE DEF new
  <2>3. /\ Earliest(timers') \in {t[1] : t \in timers'} /\ Earliest(timers') <= when
        /\ Earliest(timers') \in Nat
    BY <2>1, <2>2, EarliestIs
  <2>4. CASE timers = {}
    <3>1. Earliest(timers') = when
      BY <2>1, <2>3, <2>4
    <3> QED
      BY <1>4, <1>6, <2>1, <2>4, <3>1 DEF NeverOversleeps, Earliest
  <2>5. CASE timers # {}
    <3>1. \A t \in timers : Earliest(timers) <= t[1]
      BY <1>0, <2>5, EarliestIs
    <3>2. Earliest(timers') = when \/ \E t \in timers : Earliest(timers') = t[1]
      BY <2>1, <2>3
    <3>3. CASE when < Earliest(timers)
      <4>1. Earliest(timers') = when
        BY <1>1, <2>3, <2>5, <3>1, <3>2, <3>3
      <4> QED
        BY <1>4, <1>6, <2>1, <3>3, <4>1 DEF NeverOversleeps, Earliest
    <3>4. CASE ~(when < Earliest(timers))
      <4>1. Earliest(timers) <= Earliest(timers')
        BY <1>1, <2>5, <3>1, <3>2, <3>4
      <4>2. armed' = armed
        BY <2>1, <2>5, <3>4
      <4>3. armed <= Earliest(timers) => armed <= Earliest(timers')
        BY <1>0, <1>1, <2>3, <2>5, <4>1
      <4> QED
        BY <1>6, <2>5, <4>2, <4>3 DEF NeverOversleeps, Earliest
    <3> QED
      BY <3>3, <3>4
  <2> QED
    BY <2>4, <2>5
<1>7. ASSUME NEW a \in Addrs, NEW when \in Times, NEW interval \in Intervals, AddTimer(a, when, interval)
      PROVE  NeverOversleeps'
  <2>1. Insert(NewId(a), when) /\ UNCHANGED <<now, calling>> /\ NewId(a)[1] = a
    BY <1>7 DEF AddTimer, batch, NewId
  <2>2. when \in 1..(MaxTime + 1)
    BY <1>0 DEF Times
  <2> QED
    BY <1>6, <2>1, <2>2
<1>8. ASSUME NEW t \in Threads, NEW a \in Addrs, NEW when \in Times, NEW interval \in Intervals,
             QueueAddTimer(t, a, when, interval)
      PROVE  NeverOversleeps'
  BY <1>8 DEF QueueAddTimer, sets, batch, NeverOversleeps, Earliest
<1>9. ASSUME NEW id \in Ids, id \in ids, CancelInLoop(id)
      PROVE  NeverOversleeps'
  <2>1. timers' \subseteq timers /\ UNCHANGED <<now, armed, calling>>
    BY <1>9 DEF CancelInLoop
  <2>2. CASE timers' # {}
    <3>1. Earliest(timers') \in {t[1] : t \in timers'} /\ Earliest(timers') \in Nat
      BY <1>0, <2>1, <2>2, EarliestIs
    <3>2. timers # {} /\ \A t \in timers : Earliest(timers) <= t[1]
      BY <1>0, <2>1, <2>2, EarliestIs
    <3>3. Earliest(timers) <= Earliest(timers')
      BY <2>1, <3>1, <3>2
    <3>4. armed <= Earliest(timers) => armed <= Earliest(timers')
      BY <1>0, <1>1, <3>1, <3>2, <3>3
    <3> QED
      BY <2>1, <3>2, <3>4 DEF NeverOversleeps, Earliest
  <2> QED
    BY <2>1, <2>2 DEF NeverOversleeps
<1>10. ASSUME NEW id \in Adding,
             Insert(id, heap[id[1]].expiration),
             UNCHANGED <<now, ids, heap, batch, dead>>
      PROVE  NeverOversleeps'
  <2>1. heap[id[1]] # Nothing /\ id \in ids
    BY DEF Agree, Adding, Named
  <2>2. id[1] \in Addrs
    BY <2>1 DEF TypeOK, Ids
  <2>3. heap[id[1]].expiration \in 1..(MaxTime + 1)
    BY <2>1, <2>2 DEF TypeOK, Timers
  <2> QED
    BY <1>6, <1>10, <2>2, <2>3 DEF batch
<1> QED
  BY <1>2, <1>3, <1>5, <1>7, <1>8, <1>9, <1>10, Steps

LEMMA InitInv == Init => IInv
<1> SUFFICES ASSUME Init PROVE IInv
  OBVIOUS
<1> USE DEF Init
<1>1. LoopInv
  BY LoopInitInv
<1>2. Waiting = {} /\ Adding = {}
  <2>1. functors = <<>> /\ pending = <<>>
    BY DEF LoopInit
  <2>2. Waiting = {}
    BY <2>1 DEF Waiting
  <2> QED
    BY <2>2 DEF Adding
<1>3. TypeOK
  <2>1. 1 \in Times /\ 0 \in 0..MaxTime /\ 0 \in 0..(MaxTime + 1)
    BY TimerAssumption DEF Times
  <2> QED
    BY <1>1, <2>1 DEF TypeOK, LoopInv
<1>4. AddedOnce /\ Named
  BY <1>2 DEF AddedOnce, Named
<1>5. Numbers
  BY FS_EmptySet DEF Numbers
<1>6. Batch /\ Dead /\ NeverOversleeps
  BY DEF Batch, Dead, NeverOversleeps
<1>7. Agree
  BY <1>2 DEF Agree
<1> QED
  BY <1>1, <1>3, <1>4, <1>5, <1>6, <1>7 DEF IInv

\* The inductive invariant of the timers.
THEOREM TimerInvariant == Spec => []IInv
<1>1. IInv /\ [Next]_vars => IInv'
  <2> SUFFICES ASSUME IInv, [Next]_vars PROVE IInv'
    OBVIOUS
  <2> USE DEF IInv
  <2>1. LoopInv'
    BY LoopStep, LoopTypeStep, RoundsStep, WakeupStep, OrderStep DEF LoopInv
  <2>2. TypeOK'
    BY <2>1, TypeStep
  <2>3. AddedOnce' /\ Named'
    BY QueueStep
  <2>4. Numbers' /\ Batch' /\ Agree'
    BY NumbersStep, BatchStep, AgreeStep
  <2>5. Dead' /\ NeverOversleeps'
    BY DeadStep, OversleepStep
  <2> QED
    BY <2>1, <2>2, <2>3, <2>4, <2>5
<1> QED
  BY InitInv, <1>1, PTL DEF Spec

\* timers_, activeTimers_, the Timer objects, the batch in progress and the
\* queued additions agree: no timer is forgotten, and none that was deleted is
\* referred to.
THEOREM SetsAgree == Spec => []TimersAgree
<1>1. IInv => TimersAgree
  <2> SUFFICES ASSUME IInv PROVE TimersAgree
    OBVIOUS
  <2>1. \A id : AddQueued(id) <=> id \in Adding
    BY AddQueuedIs DEF IInv, LoopInv
  <2> QED
    BY <2>1 DEF IInv, Agree, TimersAgree
<1> QED
  BY <1>1, TimerInvariant, PTL

\* The timer file descriptor is never armed for a time after the earliest
\* timer's, whatever is added or cancelled, and when.
THEOREM NoOversleeping == Spec => []NeverOversleeps
<1>1. IInv => NeverOversleeps
  BY DEF IInv
<1> QED
  BY <1>1, TimerInvariant, PTL

\* A timer that was cancelled after it was added is not put back, even when the
\* batch it has expired in is running and its address has been used again.
THEOREM CancelledTimers == Spec => []CancelledStaysCancelled
<1>1. IInv => CancelledStaysCancelled
  BY DEF IInv, TypeOK, Dead, CancelledStaysCancelled
<1> QED
  BY <1>1, TimerInvariant, PTL

\* The types, with the bounds of clock and sequence numbers.
THEOREM TimerTypes == Spec => []TypeOK
<1>1. IInv => TypeOK
  BY DEF IInv
<1> QED
  BY <1>1, TimerInvariant, PTL
=============================================================================
