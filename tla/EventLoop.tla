----------------------------- MODULE EventLoop -----------------------------
(***************************************************************************)
(* muduo's EventLoop: one thread polls, handles the channels that are      *)
(* ready and then runs the functors that itself and other threads queued.  *)
(* What user code (callbacks and functors) calls while it runs, and what   *)
(* the other threads call at any time, are actions of their own.           *)
(***************************************************************************)
EXTENDS Naturals, Sequences

CONSTANTS
  Threads,    \* threads other than the loop's
  Channels,   \* registered channels, without the wakeup channel
  Functors,   \* what can be queued
  MaxQueued   \* bound on the calls of queueInLoop

VARIABLES
  phase,       \* where loop() is
  inCallback,  \* the loop thread is in user code
  quit,        \* quit_
  active,      \* activeChannels_ still to be handled
  woken,       \* wakeupChannel_ is one of them
  signalled,   \* the counter of wakeupFd_ is not 0
  pending,     \* pendingFunctors_, each with the number of its call
  functors,    \* the local functors of doPendingFunctors, not yet run
  signalling,  \* threads about to call wakeup()
  queued,      \* history: how many functors were queued
  ran          \* history: how many have begun to run

control == <<phase, inCallback, quit, active, woken>>
queues == <<pending, functors, queued, ran>>
loopVars == <<control, signalled, queues, signalling>>

LoopInit ==
  /\ phase = "constructed"
  /\ inCallback = FALSE
  /\ quit = FALSE
  /\ active = {}
  /\ woken = FALSE
  /\ signalled = FALSE
  /\ pending = <<>>
  /\ functors = <<>>
  /\ signalling = {}
  /\ queued = 0 /\ ran = 0

\* Set before the functors are swapped out, reset after the last one has run.
CallingPendingFunctors == phase = "functors"

---------------------------------------------------------------------------
(* The loop thread.                                                        *)

\* loop() begins, and forgets a quit() that came before it.
Loop ==
  /\ phase = "constructed"
  /\ phase' = "poll"
  /\ quit' = FALSE
  /\ UNCHANGED <<inCallback, active, woken, signalled, queues, signalling>>

\* poll() returns with the channels that are ready; it blocks while none is.
Poll(ready) ==
  /\ phase = "poll"
  /\ ready # {} \/ signalled
  /\ phase' = "events"
  /\ active' = ready
  /\ woken' = signalled
  /\ UNCHANGED <<inCallback, quit, signalled, queues, signalling>>

\* poll() gives up after kPollTimeMs.
PollTimeout ==
  /\ phase = "poll"
  /\ ~signalled
  /\ phase' = "events"
  /\ UNCHANGED <<inCallback, quit, active, woken, signalled, queues, signalling>>

\* The wakeup channel's read callback.
HandleRead ==
  /\ phase = "events"
  /\ ~inCallback
  /\ woken
  /\ woken' = FALSE
  /\ signalled' = FALSE
  /\ UNCHANGED <<phase, inCallback, quit, active, queues, signalling>>

\* Another channel's callback begins.
HandleEvent(c) ==
  /\ phase = "events"
  /\ ~inCallback
  /\ c \in active
  /\ active' = active \ {c}
  /\ inCallback' = TRUE
  /\ UNCHANGED <<phase, quit, woken, signalled, queues, signalling>>

\* A callback or functor returns.
Return ==
  /\ inCallback
  /\ inCallback' = FALSE
  /\ UNCHANGED <<phase, quit, active, woken, signalled, queues, signalling>>

\* A fault: the functors are copied instead of swapped.
CopyFunctors ==
  /\ phase = "events"
  /\ ~inCallback /\ active = {} /\ ~woken
  /\ phase' = "functors"
  /\ functors' = pending
  /\ UNCHANGED <<inCallback, quit, active, woken, signalled, pending, signalling, queued, ran>>

\* All channels are handled: doPendingFunctors sets callingPendingFunctors_ and
\* swaps pendingFunctors_ out under the mutex.
SwapFunctors ==
  /\ phase = "events"
  /\ ~inCallback /\ active = {} /\ ~woken
  /\ phase' = "functors"
  /\ functors' = pending
  /\ pending' = <<>>
  /\ UNCHANGED <<inCallback, quit, active, woken, signalled, signalling, queued, ran>>

\* A functor begins: user code, or a function of the library.
RunFunctor ==
  /\ phase = "functors"
  /\ ~inCallback
  /\ functors # <<>>
  /\ functors' = Tail(functors)
  /\ ran' = ran + 1
  /\ inCallback' \in BOOLEAN
  /\ UNCHANGED <<phase, quit, active, woken, signalled, pending, signalling, queued>>

\* Every functor has run: the loop tests quit_.
Iterate ==
  /\ phase = "functors"
  /\ ~inCallback
  /\ functors = <<>>
  /\ phase' = IF quit THEN "stopped" ELSE "poll"
  /\ UNCHANGED <<inCallback, quit, active, woken, signalled, queues, signalling>>

---------------------------------------------------------------------------
(* Calls.                                                                  *)

\* A fault: it never wakes the loop up.
NeverSignals == signalled

\* In the loop thread queueInLoop wakes the loop up only if it is running
\* functors, since otherwise it comes to them before it polls again.
SignalledAfter == signalled \/ CallingPendingFunctors

\* The critical section of queueInLoop.
PushBack(f) ==
  /\ queued < MaxQueued
  /\ queued' = queued + 1
  /\ pending' = Append(pending, <<queued', f>>)
  /\ UNCHANGED <<functors, ran>>

\* queueInLoop in the loop thread.
QueueInLoop(f) ==
  /\ inCallback
  /\ PushBack(f)
  /\ signalled' = SignalledAfter
  /\ UNCHANGED <<control, signalling>>

\* queueInLoop in another thread, up to the end of the critical section.
Queue(t, f) ==
  /\ t \notin signalling
  /\ phase # "stopped"
  /\ PushBack(f)
  /\ signalling' = signalling \cup {t}
  /\ UNCHANGED <<control, signalled>>

\* quit() in the loop thread.
QuitInLoop ==
  /\ inCallback
  /\ quit' = TRUE
  /\ UNCHANGED <<phase, inCallback, active, woken, signalled, queues, signalling>>

\* A fault: quit() in another thread does not wake the loop up.
QuitWithoutWakeup(t) ==
  /\ phase # "stopped"
  /\ quit' = TRUE
  /\ UNCHANGED <<phase, inCallback, active, woken, signalled, queues, signalling>>

\* quit() in another thread, up to the assignment.
Quit(t) ==
  /\ t \notin signalling
  /\ phase # "stopped"
  /\ ~quit
  /\ quit' = TRUE
  /\ signalling' = signalling \cup {t}
  /\ UNCHANGED <<phase, inCallback, active, woken, signalled, queues>>

\* wakeup() in another thread, after queueInLoop or quit.
Wakeup(t) ==
  /\ t \in signalling
  /\ signalling' = signalling \ {t}
  /\ signalled' = TRUE
  /\ UNCHANGED <<control, queues>>

---------------------------------------------------------------------------
LoopThread ==
  \/ Loop
  \/ \E ready \in SUBSET Channels : Poll(ready)
  \/ PollTimeout
  \/ HandleRead
  \/ \E c \in Channels : HandleEvent(c)
  \/ Return
  \/ SwapFunctors
  \/ RunFunctor
  \/ Iterate

Calls ==
  \/ \E f \in Functors : QueueInLoop(f)
  \/ QuitInLoop
  \/ \E t \in Threads :
       \/ \E f \in Functors : Queue(t, f)
       \/ Quit(t)
       \/ Wakeup(t)

LoopNext == LoopThread \/ Calls

LoopSpec == LoopInit /\ [][LoopNext]_loopVars

---------------------------------------------------------------------------
(* Properties.                                                             *)

LoopTypeOK ==
  /\ phase \in {"constructed", "poll", "events", "functors", "stopped"}
  /\ inCallback \in BOOLEAN
  /\ quit \in BOOLEAN
  /\ active \subseteq Channels
  /\ woken \in BOOLEAN
  /\ signalled \in BOOLEAN
  /\ pending \in Seq(Nat \X Functors)
  /\ functors \in Seq(Nat \X Functors)
  /\ signalling \subseteq Threads
  /\ queued \in Nat /\ ran \in Nat

\* The loop never blocks in poll() on work it has: when a functor is pending or
\* quit() was called, wakeupFd_ is readable or some thread is about to write to
\* it.  EventLoop.cc:167 leaves out the write where it thinks it superfluous.
NoLostWakeup ==
  phase = "poll" /\ (pending # <<>> \/ quit) => signalled \/ signalling # {}

\* Whatever threads queue functors and whatever the loop is doing then, each is
\* run once and in the order of the calls: what is still queued are the last
\* ones, and the next to run is the first that has not (EventLoop.cc:300 swaps
\* the queue while others push).
FunctorsInOrder ==
  LET waiting == functors \o pending IN
  /\ ran + Len(waiting) = queued
  /\ \A i \in 1..Len(waiting) : waiting[i][1] = ran + i
=============================================================================
