----------------------------- MODULE Delivery -----------------------------
(***************************************************************************)
(* What an Engine.IO session promises about the packets it sends: each one *)
(* gets to the client's connection at most once and in the order in which  *)
(* the packets were created.  A packet that was passed over never comes    *)
(* later.  Packets are named by their position in the order of creation.   *)
(***************************************************************************)
EXTENDS Naturals, Sequences

CONSTANTS Sessions, MaxPackets

VARIABLES
  made,  \* packets created, per session
  out    \* packets delivered, per session

Init ==
  /\ made = [s \in Sessions |-> 0]
  /\ out = [s \in Sessions |-> <<>>]

\* Packets in the order in which n of them were created, none twice.
Increasing(q, n) ==
  /\ \A i \in DOMAIN q : q[i] \in 1..n
  /\ \A i, j \in DOMAIN q : i < j => q[i] < q[j]

\* Nothing that was delivered is taken back.
Extends(q, p) == Len(p) <= Len(q) /\ \A i \in DOMAIN p : q[i] = p[i]

\* One step of a session: it may create a packet, and some that come after the
\* last one delivered are delivered.
Step(s) ==
  /\ \E n \in {made[s], made[s] + 1} :
       /\ n <= MaxPackets
       /\ made' = [made EXCEPT ![s] = n]
       /\ Increasing(out'[s], n)
  /\ Extends(out'[s], out[s])
  /\ \A r \in Sessions \ {s} : out'[r] = out[r]

Next == \E s \in Sessions : Step(s)

Spec == Init /\ [][Next]_<<made, out>>
=============================================================================
