-------------------------- MODULE EventLoopProofs --------------------------
(***************************************************************************)
(* Theorems about EventLoop, for every number of threads, channels and     *)
(* functors: its functors run in order, and it is woken when it has work.  *)
(***************************************************************************)
EXTENDS EventLoop, SequenceTheorems, TLAPS

\* The functors of one round have all run before the next round begins, and user
\* code runs while channels are handled or functors run.
Rounds ==
  /\ phase # "functors" => functors = <<>>
  /\ inCallback => phase \in {"events", "functors"}

\* NoLostWakeup, with what it owes to the phases before poll(): only while
\* channels are handled may a functor be pending with no wakeup under way.
Woken == signalled \/ signalling # {}
WakeupDue ==
  /\ phase \in {"constructed", "poll", "functors"} /\ pending # <<>> => Woken
  /\ phase = "poll" /\ quit => Woken

LoopInv == LoopTypeOK /\ Rounds /\ FunctorsInOrder /\ WakeupDue

---------------------------------------------------------------------------
(* Sequences of functors.                                                  *)

\* s holds the functors of calls n + 1, n + 2, ... up to m.
Numbered(s, n, m) ==
  /\ n + Len(s) = m
  /\ \A i \in 1..Len(s) : s[i][1] = n + i

\* The next call's functor may be appended.
LEMMA NumberedAppend ==
  ASSUME NEW S, NEW s \in Seq(Nat \X S), NEW n \in Nat, NEW m \in Nat,
         Numbered(s, n, m), NEW f \in S
  PROVE  Numbered(Append(s, <<m + 1, f>>), n, m + 1)
BY DEF Numbered

\* The first functor may be taken away.
LEMMA NumberedTail ==
  ASSUME NEW S, NEW s \in Seq(Nat \X S), NEW n \in Nat, NEW m \in Nat,
         Numbered(s, n, m), s # <<>>
  PROVE  Numbered(Tail(s), n + 1, m)
<1>1. Len(Tail(s)) = Len(s) - 1 /\ Len(s) > 0 /\ \A i \in 1..Len(Tail(s)) : Tail(s)[i] = s[i + 1]
  OBVIOUS
<1>2. n + 1 + Len(Tail(s)) = m
  BY <1>1 DEF Numbered
<1>3. ASSUME NEW i \in 1..Len(Tail(s))
      PROVE  Tail(s)[i][1] = n + 1 + i
  <2>1. i + 1 \in 1..Len(s) /\ n + (i + 1) = n + 1 + i
    BY <1>1
  <2>2. s[i + 1][1] = n + (i + 1)
    BY <2>1 DEF Numbered
  <2> QED
    BY <1>1, <2>1, <2>2
<1> QED
  BY <1>2, <1>3 DEF Numbered

---------------------------------------------------------------------------
(* EventLoop: one lemma for each part of the invariant.                    *)

LEMMA LoopInitInv == LoopInit => LoopInv
<1> SUFFICES ASSUME LoopInit PROVE LoopInv
  OBVIOUS
<1>1. LoopTypeOK
  BY EmptySeq DEF LoopInit, LoopTypeOK
<1>2. Rounds /\ WakeupDue
  BY DEF LoopInit, Rounds, WakeupDue, Woken
<1>3. FunctorsInOrder
  <2>1. Len(<<>> \o <<>>) = 0
    OBVIOUS
  <2> QED
    BY <2>1 DEF LoopInit, FunctorsInOrder
<1> QED
  BY <1>1, <1>2, <1>3 DEF LoopInv

USE DEF SignalledAfter, CallingPendingFunctors

LEMMA LoopTypeStep ==
  ASSUME LoopTypeOK, [LoopNext]_loopVars
  PROVE  LoopTypeOK'
<1> USE DEF LoopTypeOK, control, queues
<1>1. CASE LoopThread
  <2>1. CASE \E ready \in SUBSET Channels : Poll(ready)
    BY <2>1 DEF Poll
  <2>2. CASE SwapFunctors
    BY <2>2 DEF SwapFunctors
  <2>3. CASE RunFunctor
    <3>1. Tail(functors) \in Seq(Nat \X Functors)
      BY <2>3 DEF RunFunctor
    <3> QED
      BY <2>3, <3>1 DEF RunFunctor
  <2>4. CASE Loop \/ PollTimeout \/ HandleRead \/ Return \/ Iterate
    BY <2>4 DEF Loop, PollTimeout, HandleRead, Return, Iterate
  <2>5. CASE \E c \in Channels : HandleEvent(c)
    BY <2>5 DEF HandleEvent
  <2> QED
    BY <1>1, <2>1, <2>2, <2>3, <2>4, <2>5 DEF LoopThread
<1>2. CASE Calls
  <2>1. ASSUME NEW f \in Functors, PushBack(f)
        PROVE  /\ pending' \in Seq(Nat \X Functors) /\ functors' \in Seq(Nat \X Functors)
               /\ queued' \in Nat /\ ran' \in Nat
    BY <2>1 DEF PushBack
  <2>2. CASE \E f \in Functors : QueueInLoop(f)
    BY <2>1, <2>2 DEF QueueInLoop
  <2>3. CASE QuitInLoop
    BY <2>3 DEF QuitInLoop
  <2>4. CASE \E t \in Threads, f \in Functors : Queue(t, f)
    BY <2>1, <2>4 DEF Queue
  <2>5. CASE \E t \in Threads : Quit(t) \/ Wakeup(t)
    BY <2>5 DEF Quit, Wakeup
  <2> QED
    BY <1>2, <2>2, <2>3, <2>4, <2>5 DEF Calls
<1>3. CASE UNCHANGED loopVars
  BY <1>3 DEF loopVars
<1> QED
  BY <1>1, <1>2, <1>3 DEF LoopNext

LEMMA RoundsStep ==
  ASSUME LoopTypeOK, Rounds, [LoopNext]_loopVars
  PROVE  Rounds'
<1> USE DEF Rounds, control, queues
<1>1. CASE LoopThread
  BY <1>1 DEF LoopThread, Loop, Poll, PollTimeout, HandleRead, HandleEvent, Return,
              SwapFunctors, RunFunctor, Iterate
<1>2. CASE Calls
  BY <1>2 DEF Calls, PushBack, QueueInLoop, QuitInLoop, Queue, Quit, Wakeup
<1>3. CASE UNCHANGED loopVars
  BY <1>3 DEF loopVars
<1> QED
  BY <1>1, <1>2, <1>3 DEF LoopNext

LEMMA WakeupStep ==
  ASSUME LoopTypeOK, Rounds, WakeupDue, [LoopNext]_loopVars
  PROVE  WakeupDue'
<1> USE DEF WakeupDue, Woken, control, queues
<1>1. CASE LoopThread
  BY <1>1 DEF LoopThread, Loop, Poll, PollTimeout, HandleRead, HandleEvent, Return,
              SwapFunctors, RunFunctor, Iterate
<1>2. CASE Calls
  BY <1>2 DEF Calls, Rounds, PushBack, QueueInLoop, QuitInLoop, Queue, Quit, Wakeup
<1>3. CASE UNCHANGED loopVars
  BY <1>3 DEF loopVars
<1> QED
  BY <1>1, <1>2, <1>3 DEF LoopNext

LEMMA OrderStep ==
  ASSUME LoopTypeOK, Rounds, FunctorsInOrder, [LoopNext]_loopVars
  PROVE  FunctorsInOrder'
<1> DEFINE waiting == functors \o pending
<1> USE DEF LoopTypeOK
<1>1. Numbered(waiting, ran, queued)
  BY DEF FunctorsInOrder, Numbered
<1>2. waiting \in Seq(Nat \X Functors)
  OBVIOUS
<1>3. SUFFICES Numbered(waiting', ran', queued')
  BY DEF FunctorsInOrder, Numbered
<1>4. ASSUME NEW f \in Functors, PushBack(f)
      PROVE  Numbered(waiting', ran', queued')
  <2>1. waiting' = Append(waiting, <<queued + 1, f>>)
    BY <1>4, SMTT(30) DEF PushBack
  <2> QED
    BY <1>1, <1>2, <1>4, <2>1, NumberedAppend DEF PushBack
<1>5. CASE SwapFunctors
  <2>1. functors = <<>> /\ waiting' = waiting
    BY <1>5 DEF SwapFunctors, Rounds
  <2> QED
    BY <1>1, <1>5, <2>1 DEF SwapFunctors
<1>6. CASE RunFunctor
  <2>1. waiting' = Tail(waiting) /\ waiting # <<>>
    BY <1>6, SMTT(30) DEF RunFunctor
  <2> HIDE DEF waiting
  <2> QED
    BY <1>1, <1>2, <1>6, <2>1, NumberedTail DEF RunFunctor
<1>7. CASE UNCHANGED <<functors, pending, ran, queued>>
  BY <1>1, <1>7
<1>8. CASE LoopThread
  BY <1>5, <1>6, <1>7, <1>8 DEF LoopThread, queues, Loop, Poll, PollTimeout, HandleRead,
     HandleEvent, Return, Iterate
<1>9. CASE Calls
  BY <1>4, <1>7, <1>9 DEF Calls, control, queues, QueueInLoop, QuitInLoop, Queue, Quit, Wakeup
<1>10. CASE UNCHANGED loopVars
  BY <1>7, <1>10 DEF loopVars, queues
<1> QED
  BY <1>8, <1>9, <1>10 DEF LoopNext

\* The inductive invariant of the event loop.
THEOREM LoopInvariant == LoopSpec => []LoopInv
<1>1. LoopInv /\ [LoopNext]_loopVars => LoopInv'
  BY LoopTypeStep, RoundsStep, WakeupStep, OrderStep DEF LoopInv
<1> QED
  BY LoopInitInv, <1>1, PTL DEF LoopSpec

---------------------------------------------------------------------------
(* The functors that wait, each with the number of its call, as a set.     *)

Waiting == {functors[i] : i \in 1..Len(functors)} \cup {pending[i] : i \in 1..Len(pending)}

\* Every waiting functor is one of that set.
LEMMA WaitingIsAll ==
  ASSUME LoopTypeOK
  PROVE  \A i \in 1..Len(functors \o pending) : (functors \o pending)[i] \in Waiting
<1>1. SUFFICES ASSUME NEW i \in 1..Len(functors \o pending)
               PROVE  (functors \o pending)[i] \in Waiting
  OBVIOUS
<1>2. functors \in Seq(Nat \X Functors) /\ pending \in Seq(Nat \X Functors)
  BY DEF LoopTypeOK
<1>3. Len(functors \o pending) = Len(functors) + Len(pending)
  BY <1>2
<1>4. CASE i <= Len(functors)
  <2>1. (functors \o pending)[i] = functors[i] /\ i \in 1..Len(functors)
    BY <1>2, <1>3, <1>4
  <2> QED
    BY <2>1 DEF Waiting
<1>5. CASE i > Len(functors)
  <2>1. /\ (functors \o pending)[i] = pending[i - Len(functors)]
        /\ i - Len(functors) \in 1..Len(pending)
    BY <1>2, <1>3, <1>5
  <2> QED
    BY <2>1 DEF Waiting
<1> QED
  BY <1>2, <1>4, <1>5

\* A call adds one.
LEMMA WaitingPush ==
  ASSUME LoopTypeOK, NEW f \in Functors, PushBack(f)
  PROVE  Waiting' = Waiting \cup {<<queued + 1, f>>}
<1> USE DEF LoopTypeOK, PushBack
<1>1. pending \in Seq(Nat \X Functors) /\ pending' = Append(pending, <<queued + 1, f>>)
      /\ Len(pending') = Len(pending) + 1 /\ functors' = functors
  OBVIOUS
<1>2. \A i \in 1..Len(pending) : pending'[i] = pending[i]
  BY <1>1
<1>3. pending'[Len(pending) + 1] = <<queued + 1, f>>
  BY <1>1
<1>4. 1..Len(pending') = (1..Len(pending)) \cup {Len(pending) + 1}
  BY <1>1
<1>5. {pending'[i] : i \in 1..Len(pending')} = {pending[i] : i \in 1..Len(pending)} \cup {<<queued + 1, f>>}
  <2> DEFINE p == pending
             q == pending'
             n == 1..Len(pending)
             last == Len(pending) + 1
  <2>1. (\A i \in n : q[i] = p[i]) /\ q[last] = <<queued + 1, f>> /\ 1..Len(pending') = n \cup {last}
    BY <1>2, <1>3, <1>4
  <2> HIDE DEF p, q, n, last
  <2>2. {q[i] : i \in n \cup {last}} = {p[i] : i \in n} \cup {q[last]}
    BY <2>1
  <2> QED
    BY <2>1, <2>2 DEF p, q, n
<1> QED
  BY <1>1, <1>5, Zenon DEF Waiting

\* The swap changes nothing.
LEMMA WaitingSwap ==
  ASSUME LoopTypeOK, Rounds, SwapFunctors
  PROVE  Waiting' = Waiting
<1>1. functors = <<>> /\ functors' = pending /\ pending' = <<>>
  BY DEF SwapFunctors, Rounds
<1> QED
  BY <1>1 DEF Waiting

\* They bear the numbers of the calls that have not begun to run, and the next
\* one to run bears the first.
LEMMA WaitingNumbers ==
  ASSUME LoopTypeOK, FunctorsInOrder
  PROVE  /\ \A w \in Waiting : w[1] \in (ran + 1)..queued
         /\ functors # <<>> => /\ Head(functors)[1] = ran + 1
                               /\ \A w \in Waiting : w[1] = ran + 1 => w = Head(functors)
<1> DEFINE waiting == functors \o pending
<1>1. /\ functors \in Seq(Nat \X Functors) /\ pending \in Seq(Nat \X Functors)
      /\ ran \in Nat /\ queued \in Nat
      /\ Len(waiting) = Len(functors) + Len(pending)
  BY DEF LoopTypeOK
<1>2. ran + Len(waiting) = queued /\ \A i \in 1..Len(waiting) : waiting[i][1] = ran + i
  BY DEF FunctorsInOrder
<1>3. \A i \in 1..Len(functors) : i \in 1..Len(waiting) /\ waiting[i] = functors[i]
  BY <1>1
<1>4. ASSUME NEW i \in 1..Len(pending)
      PROVE  Len(functors) + i \in 1..Len(waiting) /\ waiting[Len(functors) + i] = pending[i]
  <2>1. Len(functors) + i \in 1..Len(waiting) /\ ~(Len(functors) + i <= Len(functors))
        /\ Len(functors) + i - Len(functors) = i
    BY <1>1
  <2>2. waiting[Len(functors) + i] = pending[Len(functors) + i - Len(functors)]
    BY <1>1, <2>1, ConcatProperties
  <2> QED
    BY <2>1, <2>2
<1>5. functors # <<>> => Head(functors) = functors[1] /\ 1 \in 1..Len(functors)
  BY <1>1
<1>6. \A w \in Waiting : \E i \in 1..Len(waiting) : w = waiting[i]
  BY <1>3, <1>4 DEF Waiting
<1> HIDE DEF waiting
<1>7. Len(waiting) \in Nat /\ \A i \in 1..Len(waiting) : waiting[i][1] \in (ran + 1)..queued
  BY <1>1, <1>2
<1>8. \A i \in 1..Len(waiting) : waiting[i][1] = ran + 1 => i = 1
  BY <1>1, <1>2
<1> QED
  BY <1>2, <1>3, <1>5, <1>6, <1>7, <1>8

\* The functor that runs was waiting, and is not any more.
LEMMA WaitingRun ==
  ASSUME LoopTypeOK, FunctorsInOrder, RunFunctor
  PROVE  /\ Head(functors) \in Waiting
         /\ Waiting' \subseteq Waiting \ {Head(functors)}
<1> DEFINE waiting == functors \o pending
<1>1. /\ functors \in Seq(Nat \X Functors) /\ pending \in Seq(Nat \X Functors) /\ ran \in Nat
      /\ functors # <<>> /\ functors' = Tail(functors) /\ pending' = pending
  BY DEF LoopTypeOK, RunFunctor
<1>2. /\ Len(functors) \in Nat \ {0} /\ Len(Tail(functors)) = Len(functors) - 1
      /\ Head(functors) = functors[1]
      /\ \A i \in 1..Len(Tail(functors)) : Tail(functors)[i] = functors[i + 1]
  BY <1>1
<1>3. \A i \in 1..Len(functors) : functors[i][1] = ran + i
  <2>1. ASSUME NEW i \in 1..Len(functors)
        PROVE  functors[i] = waiting[i] /\ i \in 1..Len(waiting)
    BY <1>1
  <2>2. \A i \in 1..Len(waiting) : waiting[i][1] = ran + i
    BY DEF FunctorsInOrder
  <2> HIDE DEF waiting
  <2> QED
    BY <2>1, <2>2
<1>4. \A i \in 1..Len(pending) : pending[i][1] = ran + Len(functors) + i
  <2>1. ASSUME NEW i \in 1..Len(pending)
        PROVE  /\ pending[i] = waiting[Len(functors) + i]
               /\ Len(functors) + i \in 1..Len(waiting)
               /\ ran + (Len(functors) + i) = ran + Len(functors) + i
    <3>1. i \in Nat \ {0} /\ Len(functors) \in Nat /\ Len(pending) \in Nat /\ i <= Len(pending)
      BY <1>1
    <3>2. Len(waiting) = Len(functors) + Len(pending)
      BY <1>1
    <3>3. Len(functors) + i \in 1..Len(waiting) /\ ~(Len(functors) + i <= Len(functors))
      BY <3>1, <3>2
    <3>4. waiting[Len(functors) + i] = pending[Len(functors) + i - Len(functors)]
      BY <1>1, <3>2, <3>3, ConcatProperties
    <3> QED
      BY <1>1, <3>1, <3>3, <3>4
  <2>2. \A i \in 1..Len(waiting) : waiting[i][1] = ran + i
    BY DEF FunctorsInOrder
  <2> HIDE DEF waiting
  <2> QED
    BY <2>1, <2>2
<1>5. ASSUME NEW w \in Waiting'
      PROVE  w \in Waiting /\ w # Head(functors)
  <2>1. CASE w \in {functors'[i] : i \in 1..Len(functors')}
    <3>1. PICK i \in 1..Len(Tail(functors)) : w = functors[i + 1]
      BY <1>1, <1>2, <2>1
    <3>2. i + 1 \in 1..Len(functors) /\ i + 1 # 1 /\ 1 \in 1..Len(functors)
      BY <1>2
    <3>3. w[1] = ran + (i + 1) /\ Head(functors)[1] = ran + 1 /\ ran + (i + 1) # ran + 1
      BY <1>1, <1>2, <1>3, <3>1, <3>2
    <3> QED
      BY <3>1, <3>2, <3>3 DEF Waiting
  <2>2. CASE w \in {pending'[i] : i \in 1..Len(pending')}
    <3>1. PICK i \in 1..Len(pending) : w = pending[i]
      BY <1>1, <2>2
    <3>2. 1 \in 1..Len(functors) /\ Len(functors) + i # 1
      BY <1>2
    <3>3. w[1] = ran + Len(functors) + i /\ Head(functors)[1] = ran + 1
      BY <1>2, <1>3, <1>4, <3>1, <3>2
    <3>4. ran + Len(functors) + i # ran + 1
      BY <1>1, <1>2
    <3> QED
      BY <3>1, <3>3, <3>4 DEF Waiting
  <2> QED
    BY <2>1, <2>2 DEF Waiting
<1>6. Head(functors) \in Waiting
  <2>1. 1 \in 1..Len(functors)
    BY <1>2
  <2> QED
    BY <1>2, <2>1 DEF Waiting
<1> QED
  BY <1>5, <1>6
\* No other functor goes with it.
LEMMA OthersWait ==
  ASSUME LoopTypeOK, RunFunctor
  PROVE  Waiting \ {Head(functors)} \subseteq Waiting'
<1>1. /\ functors \in Seq(Nat \X Functors) /\ functors # <<>>
      /\ functors' = Tail(functors) /\ pending' = pending
  BY DEF LoopTypeOK, RunFunctor
<1>2. /\ Len(functors) \in Nat \ {0} /\ Len(Tail(functors)) = Len(functors) - 1
      /\ Head(functors) = functors[1]
      /\ \A i \in 1..Len(Tail(functors)) : Tail(functors)[i] = functors[i + 1]
  BY <1>1
<1>3. ASSUME NEW i \in 1..Len(functors), i # 1
      PROVE  \E j \in 1..Len(functors') : functors[i] = functors'[j]
  <2>1. i - 1 \in 1..Len(Tail(functors)) /\ (i - 1) + 1 = i
    BY <1>2, <1>3
  <2> QED
    BY <1>1, <1>2, <2>1
<1>4. ASSUME NEW w \in Waiting, w # Head(functors)
      PROVE  w \in Waiting'
  <2>1. CASE w \in {functors[i] : i \in 1..Len(functors)}
    BY <1>2, <1>3, <1>4, <2>1 DEF Waiting
  <2>2. CASE w \in {pending[i] : i \in 1..Len(pending)}
    BY <1>1, <2>2 DEF Waiting
  <2> QED
    BY <1>4, <2>1, <2>2 DEF Waiting
<1> QED
  BY <1>4

\* Every member of that set waits in one of the queues.
LEMMA AllOfItWaits ==
  ASSUME LoopTypeOK, NEW w \in Waiting
  PROVE  \E i \in 1..Len(functors \o pending) : (functors \o pending)[i] = w
<1>1. functors \in Seq(Nat \X Functors) /\ pending \in Seq(Nat \X Functors)
  BY DEF LoopTypeOK
<1>2. /\ Len(functors \o pending) = Len(functors) + Len(pending)
      /\ Len(functors) \in Nat /\ Len(pending) \in Nat
  BY <1>1
<1>3. CASE w \in {functors[i] : i \in 1..Len(functors)}
  <2>1. PICK i \in 1..Len(functors) : w = functors[i]
    BY <1>3
  <2>2. i \in 1..Len(functors \o pending) /\ (functors \o pending)[i] = w
    BY <1>1, <1>2, <2>1
  <2> QED
    BY <2>2
<1>4. CASE w \in {pending[i] : i \in 1..Len(pending)}
  <2>1. PICK i \in 1..Len(pending) : w = pending[i]
    BY <1>4
  <2>2. Len(functors) + i \in 1..Len(functors \o pending) /\ (Len(functors) + i) - Len(functors) = i
    BY <1>2, <2>1
  <2>3. (functors \o pending)[Len(functors) + i] = pending[i]
    BY <1>1, <1>2, <2>2, ConcatProperties
  <2> QED
    BY <2>1, <2>2, <2>3
<1> QED
  BY <1>3, <1>4 DEF Waiting
---------------------------------------------------------------------------
THEOREM LoopRunsInOrder == LoopSpec => []FunctorsInOrder
<1>1. LoopInv => FunctorsInOrder
  BY DEF LoopInv
<1> QED
  BY <1>1, LoopInvariant, PTL

THEOREM LoopIsNotStuck == LoopSpec => []NoLostWakeup
<1>1. LoopInv => NoLostWakeup
  BY DEF LoopInv, WakeupDue, Woken, NoLostWakeup
<1> QED
  BY <1>1, LoopInvariant, PTL
=============================================================================
