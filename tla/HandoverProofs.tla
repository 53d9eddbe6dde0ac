--------------------------- MODULE HandoverProofs ---------------------------
(***************************************************************************)
(* Theorems about Handover, for every choice of its constants: it is one   *)
(* of the behaviours of Session; the client transmits a message once; the  *)
(* upgrade leaves no poll behind; the process ends only when a client      *)
(* closes; the move to the websocket loses, repeats and reorders nothing.  *)
(***************************************************************************)
EXTENDS Handover, SessionProofs, Induction, SequenceTheorems

---------------------------------------------------------------------------
(* Handover uses Session.                                                  *)

\* What the client does leaves the server alone, what arrives is an action of
\* Session.
LEMMA ClientLeavesServer == ClientNext => UNCHANGED <<vars, serverSide>>
BY DEF ClientNext, Write, Ping, SendPacket, OnPollData, OnPostOk, OnPostError, PingTimeout, OnFrame,
       Close

\* Each step of Handover is one of Session or leaves the server alone.
LEMMA IsSessionStep == [HandoverNext]_handoverVars => [Next]_vars
<1> SUFFICES ASSUME [HandoverNext]_handoverVars PROVE [Next]_vars
  OBVIOUS
<1>0. /\ S \in Sockets /\ I \in Sids /\ Poll \in Trans /\ Web \in Trans
      /\ GetConn \in Conns /\ PostConn \in Conns /\ WebConn \in Conns
      /\ "xhr" \in PollingKinds /\ "websocket" \in Kinds
  BY HandoverAssumption DEF PollingKinds, Kinds
<1>1. CASE UNCHANGED handoverVars
  BY <1>1 DEF handoverVars
<1>2. CASE ClientNext
  BY <1>2, ClientLeavesServer
<1>3. ASSUME NEW b \in BOOLEAN, HandshakeArrives(b) PROVE Next
  BY <1>0, <1>3 DEF HandshakeArrives, Next
<1>4. CASE PollArrives
  BY <1>0, <1>4 DEF PollArrives, Next
<1>5. CASE PostArrives
  BY <1>5 DEF PostArrives, AnswerAtOnce
<1>6. CASE UpgradeArrives
  BY <1>0, <1>6 DEF UpgradeArrives, Next
<1>7. CASE ProbeArrives \/ UpgradePacketArrives \/ MessageArrives \/ CloseArrives
  BY <1>0, <1>7 DEF ProbeArrives, UpgradePacketArrives, MessageArrives, CloseArrives, Next
<1>8. CASE ServerSends
  BY <1>0, <1>8 DEF ServerSends, Next
<1> QED
  BY <1>1, <1>2, <1>3, <1>4, <1>5, <1>6, <1>7, <1>8 DEF HandoverNext, ServerNext

\* Whatever the client and the network do, the server is the one that Session
\* specifies: each theorem about Session is one about Handover.
THEOREM HandoverUsesSession == HandoverSpec => Spec
<1>1. HandoverInit => Init
  BY DEF HandoverInit
<1> QED
  BY <1>1, IsSessionStep, PTL DEF HandoverSpec, Spec

---------------------------------------------------------------------------
(* The client.                                                             *)

Upto(n) == [k \in 1..n |-> k]

\* What the client has transmitted and what waits are its messages in the
\* order they were written, until it closes and drops what waits.
Queue ==
  /\ phase \in {"opening", "open", "pausing", "paused", "closed"}
  /\ posting \in Seq(1..MaxMessages) /\ unsent \in Seq(1..MaxMessages)
  /\ transmitted \in Seq(1..MaxMessages) /\ sent \in 0..MaxMessages
  /\ \A k \in DOMAIN transmitted : transmitted[k] = k
  /\ phase # "closed" => transmitted \o unsent = Upto(sent)
  /\ phase = "paused" => unsent = <<>> /\ posting = <<>>

\* The end of a sequence can be taken off.
LEMMA FirstOnes ==
  ASSUME NEW a \in Seq(Nat), NEW b \in Seq(Nat), NEW n \in Nat, a \o b = Upto(n)
  PROVE  \A k \in DOMAIN a : a[k] = k
<1>1. /\ Len(a) \in Nat /\ Len(b) \in Nat /\ DOMAIN a = 1..Len(a)
      /\ \A k \in 1..Len(a) : (a \o b)[k] = a[k]
      /\ DOMAIN (a \o b) = 1..(Len(a) + Len(b))
  OBVIOUS
<1>2. ASSUME NEW k \in 1..Len(a) PROVE a[k] = k
  <2>1. k \in DOMAIN (a \o b) /\ (a \o b)[k] = a[k]
    BY <1>1
  <2>2. k \in 1..n
    BY <2>1 DEF Upto
  <2> QED
    BY <2>1, <2>2 DEF Upto
<1> QED
  BY <1>1, <1>2

\* A further message goes to the end.
LEMMA OneMore ==
  ASSUME NEW a \in Seq(Nat), NEW b \in Seq(Nat), NEW n \in Nat, a \o b = Upto(n)
  PROVE  /\ a \o Append(b, n + 1) = Upto(n + 1)
         /\ b = <<>> => Append(a, n + 1) = Upto(n + 1)
<1>1. /\ Len(a) \in Nat /\ Len(b) \in Nat /\ DOMAIN a = 1..Len(a)
      /\ DOMAIN (a \o b) = 1..(Len(a) + Len(b))
      /\ DOMAIN Upto(n) = 1..n
  BY DEF Upto
<1>2. Len(a) + Len(b) = n
  <2> DEFINE m == Len(a) + Len(b)
  <2>1. 1..m = 1..n /\ m \in Nat
    BY <1>1
  <2> HIDE DEF m
  <2>2. m <= n
    <3>1. m >= 1 => m \in 1..n
      BY <2>1
    <3> QED
      BY <2>1, <3>1
  <2>3. n <= m
    <3>1. n >= 1 => n \in 1..m
      BY <2>1
    <3> QED
      BY <2>1, <3>1
  <2>4. m = n
    BY <2>1, <2>2, <2>3
  <2> QED
    BY <2>4 DEF m
<1>3. a \o Append(b, n + 1) = Append(a \o b, n + 1)
  BY SMTT(30)
<1>4. Append(Upto(n), n + 1) = Upto(n + 1)
  BY DEF Upto
<1>5. b = <<>> => a \o b = a
  OBVIOUS
<1> QED
  BY <1>3, <1>4, <1>5

\* Moving to the websocket transmits what waits, and pausing nothing.
LEMMA PauseQueue ==
  ASSUME Queue, NEW p, NEW w \in Seq(1..MaxMessages), NEW u \in Seq(1..MaxMessages),
         transmitted \o u = Upto(sent), Pause(p, w, u), sent' = sent
  PROVE  Queue'
<1>0. transmitted \in Seq(1..MaxMessages) /\ sent \in 0..MaxMessages /\ MaxMessages \in Nat
  BY HandoverAssumption DEF Queue
<1>1. CASE MayPause(p, w)
  <2>1. /\ w = <<>> /\ phase' = "paused" /\ posting' = <<>> /\ unsent' = <<>>
        /\ transmitted' = transmitted \o w \o u
    BY <1>1 DEF Pause, MayPause
  <2>2. transmitted' = transmitted \o u
    BY <1>0, <2>1
  <2>3. transmitted' \in Seq(1..MaxMessages)
    BY <1>0, <2>2, SeqTypes
  <2>4. transmitted' \o unsent' = Upto(sent)
    BY <2>1, <2>2, <2>3
  <2>5. transmitted' \in Seq(Nat) /\ sent \in Nat /\ unsent' \in Seq(Nat)
    BY <1>0, <2>1, <2>3
  <2>6. \A k \in DOMAIN transmitted' : transmitted'[k] = k
    BY <2>4, <2>5, FirstOnes
  <2> QED
    BY <1>0, <2>1, <2>3, <2>4, <2>6 DEF Queue
<1>2. CASE ~MayPause(p, w)
  BY <1>2 DEF Pause, Queue
<1> QED
  BY <1>1, <1>2

\* A POST carries all that waits.
LEMMA PostQueue ==
  ASSUME Queue, NEW u \in Seq(1..MaxMessages), NEW more, NEW n \in 0..MaxMessages,
         transmitted \o u = Upto(n), Post(u, more), sent' = n, phase' = "open"
  PROVE  Queue'
<1>0. transmitted \in Seq(1..MaxMessages) /\ MaxMessages \in Nat
  BY HandoverAssumption DEF Queue
<1>1. posting' = u /\ unsent' = <<>> /\ transmitted' = transmitted \o u
  BY DEF Post
<1>2. transmitted' \in Seq(1..MaxMessages)
  BY <1>0, <1>1, SeqTypes
<1>3. transmitted' \o unsent' = Upto(n)
  BY <1>1, <1>2
<1>4. transmitted' \in Seq(Nat) /\ n \in Nat /\ unsent' \in Seq(Nat)
  BY <1>0, <1>1, <1>2
<1>5. \A k \in DOMAIN transmitted' : transmitted'[k] = k
  BY <1>3, <1>4, FirstOnes
<1> QED
  BY <1>0, <1>1, <1>2, <1>3, <1>5 DEF Queue

\* A message is transmitted at once, put in a POST, or waits.
LEMMA SendQueue == ASSUME Queue, SendPacket PROVE Queue'
<1>0. /\ transmitted \in Seq(1..MaxMessages) /\ unsent \in Seq(1..MaxMessages)
      /\ sent \in 0..MaxMessages /\ MaxMessages \in Nat
      /\ sent < MaxMessages /\ sent' = sent + 1 /\ phase' = phase /\ phase # "closed"
      /\ transmitted \o unsent = Upto(sent)
  BY HandoverAssumption DEF Queue, SendPacket
<1>1. /\ transmitted \in Seq(Nat) /\ unsent \in Seq(Nat) /\ sent \in Nat
      /\ sent + 1 \in 1..MaxMessages /\ sent + 1 \in 0..MaxMessages
  BY <1>0
<1>2. /\ transmitted \o Append(unsent, sent + 1) = Upto(sent + 1)
      /\ unsent = <<>> => Append(transmitted, sent + 1) = Upto(sent + 1)
  BY <1>0, <1>1, OneMore
<1>3. Append(unsent, sent + 1) \in Seq(1..MaxMessages)
  BY <1>0, <1>1
<1>4. CASE phase = "paused" /\ transmitted' = Append(transmitted, sent + 1)
           /\ UNCHANGED <<posting, unsent>>
  <2>1. unsent = <<>> /\ posting = <<>>
    BY <1>4 DEF Queue
  <2>2. transmitted' = Upto(sent + 1) /\ transmitted' \in Seq(1..MaxMessages)
    BY <1>0, <1>1, <1>2, <1>4, <2>1
  <2>3. transmitted' \o unsent' = Upto(sent + 1)
    BY <1>4, <2>1, <2>2
  <2>4. \A k \in DOMAIN transmitted' : transmitted'[k] = k
    BY <1>1, <2>2 DEF Upto
  <2> QED
    BY <1>0, <1>1, <1>4, <2>1, <2>2, <2>3, <2>4 DEF Queue
<1>5. CASE phase = "open" /\ Post(Append(unsent, sent + 1), {})
  BY <1>0, <1>1, <1>2, <1>3, <1>5, PostQueue
<1>6. CASE /\ phase # "paused" /\ unsent' = Append(unsent, sent + 1)
           /\ UNCHANGED <<posting, transmitted>>
  BY <1>0, <1>1, <1>2, <1>3, <1>6 DEF Queue
<1> QED
  BY <1>4, <1>5, <1>6 DEF SendPacket

\* Closing drops what waits and transmits nothing.
LEMMA CloseQueue == ASSUME Queue, Close PROVE Queue'
<1>1. <<>> \in Seq(1..MaxMessages)
  OBVIOUS
<1> QED
  BY <1>1 DEF Queue, Close

\* Every step keeps the client's messages in order.
LEMMA QueueStep == Queue /\ [HandoverNext]_handoverVars => Queue'
<1> SUFFICES ASSUME Queue, [HandoverNext]_handoverVars PROVE Queue'
  OBVIOUS
<1>0. /\ posting \in Seq(1..MaxMessages) /\ unsent \in Seq(1..MaxMessages)
      /\ <<>> \in Seq(1..MaxMessages) /\ sent \in 0..MaxMessages
      /\ phase # "closed" => transmitted \o unsent = Upto(sent)
  BY SeqTypes DEF Queue
<1>1. CASE UNCHANGED clientVars
  BY <1>1 DEF Queue, clientVars
<1>2. CASE Write \/ Ping
  BY <1>2, SendQueue DEF Write, Ping
<1>3. CASE OnPollData
  <2>1. CASE Pause(FALSE, posting, unsent)
    BY <1>0, <1>3, <2>1, PauseQueue DEF OnPollData
  <2>2. CASE UNCHANGED <<phase, posting, unsent, transmitted>>
    BY <1>3, <2>2 DEF OnPollData, Queue
  <2>3. CASE phase' = "open" /\ Post(unsent, {"get", "upgrade"})
    BY <1>0, <1>3, <2>3, PostQueue DEF OnPollData
  <2> QED
    BY <1>3, <2>1, <2>2, <2>3 DEF OnPollData
<1>4. CASE OnPostOk
  <2>1. CASE Pause(polling, <<>>, unsent)
    BY <1>0, <1>4, <2>1, PauseQueue DEF OnPostOk
  <2>2. CASE phase = "open" /\ phase' = phase /\ Post(unsent, {})
    BY <1>0, <1>4, <2>2, PostQueue DEF OnPostOk
  <2> QED
    BY <1>4, <2>1, <2>2 DEF OnPostOk
<1>5. CASE OnPostError \/ PingTimeout
  BY <1>5, CloseQueue DEF OnPostError, PingTimeout
<1>6. CASE OnFrame
  <2>1. CASE Pause(polling, posting, unsent)
    BY <1>0, <1>6, <2>1, PauseQueue DEF OnFrame
  <2>2. CASE UNCHANGED <<phase, posting, unsent, transmitted>>
    BY <1>6, <2>2 DEF OnFrame, Queue
  <2> QED
    BY <1>6, <2>1, <2>2 DEF OnFrame
<1>7. CASE ServerNext
  <2>1. UNCHANGED clientVars
    BY <1>7 DEF ServerNext, HandshakeArrives, PollArrives, PostArrives, UpgradeArrives,
                ProbeArrives, UpgradePacketArrives, MessageArrives, CloseArrives, ServerSends
  <2> QED
    BY <1>1, <2>1
<1> QED
  BY <1>1, <1>2, <1>3, <1>4, <1>5, <1>6, <1>7 DEF HandoverNext, ClientNext, handoverVars

\* However polling and the websocket overlap, a message leaves the client once
\* and in its turn.
THEOREM TransmitsOnce == HandoverSpec => []TransmittedOnce
<1>1. HandoverInit => Queue
  BY HandoverAssumption, SeqTypes DEF HandoverInit, Queue, Upto
<1>2. Queue => TransmittedOnce
  BY DEF Queue, TransmittedOnce
<1> QED
  BY <1>1, <1>2, QueueStep, PTL DEF HandoverSpec

---------------------------------------------------------------------------
(* What is on its way.                                                     *)

\* The frames a client sends: the upgrade packet once it has no poll
\* outstanding, the close packet once it has closed.
Up ==
  {f \in [type : {"probe", "upgrade", "message", "close"}, n : 0..MaxMessages] :
     /\ f.type = "message" => f.n # 0
     /\ f.type = "upgrade" => ~polling
     /\ f.type = "close" => phase = "closed"}

\* The frames a server sends.
Down == {f \in [type : {"open", "pong", "packet"}, n : 0..MaxPackets] :
           f.type = "packet" => f.n # 0}

Net ==
  /\ polling \in BOOLEAN /\ pingDue \in BOOLEAN
  /\ pings \subseteq 1..MaxMessages /\ pongs \subseteq 0..MaxPackets
  /\ accepted \subseteq 1..MaxMessages /\ handled \in Seq(1..MaxMessages)
  /\ sends \in 0..MaxSends
  /\ received \in Seq(1..MaxPackets) /\ answer \in Seq(1..MaxPackets)
  /\ requests \subseteq {"get", "post", "upgrade"}
  /\ postAnswer \in {"none", "ok", "error"}
  /\ up \in Seq(Up) /\ down \in Seq(Down)

\* A sequence over a set is one over any larger set.
LEMMA SeqMonotone ==
  ASSUME NEW A, NEW B, A \subseteq B, NEW q \in Seq(A)
  PROVE  q \in Seq(B)
OBVIOUS

\* The values of a sequence, and what its end holds.
LEMMA SeqParts ==
  ASSUME NEW A, NEW q \in Seq(A)
  PROVE  /\ ToSet(q) \subseteq A
         /\ q # <<>> => Head(q) \in A /\ Tail(q) \in Seq(A)
         /\ \A x \in A : Append(q, x) \in Seq(A) /\ <<x>> \in Seq(A)
BY DEF ToSet

\* The end of a sequence holds what the sequence holds.
LEMMA SuffixType ==
  ASSUME NEW A, NEW q \in Seq(A), NEW m \in Nat
  PROVE  SubSeq(q, m + 1, Len(q)) \in Seq(A)
<1>1. Len(q) \in Int /\ m + 1 \in Int /\ \A k \in (m + 1)..Len(q) : q[k] \in A
  OBVIOUS
<1> QED
  BY <1>1, SubSeqProperties

\* What a step of the server writes are packets.
LEMMA SentType ==
  ASSUME TypeOK, TypeOK'
  PROVE  Sent \in Seq(1..MaxPackets)
<1>1. wire[S] \in Seq(1..MaxPackets) /\ wire'[S] \in Seq(1..MaxPackets)
  BY HandoverAssumption DEF TypeOK
<1>2. Len(wire[S]) \in Nat
  BY <1>1
<1> QED
  BY <1>1, <1>2, SuffixType DEF Sent

\* Packets and messages make frames that their side may send.
LEMMA FramesTypes ==
  /\ \A q \in Seq(1..MaxPackets) : Frames("packet", q) \in Seq(Down)
  /\ \A q \in Seq(1..MaxMessages) : Frames("message", q) \in Seq(Up) \cap Seq(Up')
<1>0. MaxPackets \in Nat /\ MaxMessages \in Nat
  BY HandoverAssumption, BoundAssumption
<1>1. ASSUME NEW q \in Seq(1..MaxPackets) PROVE Frames("packet", q) \in Seq(Down)
  <2>1. \A k \in 1..Len(q) : Frame("packet", q[k]) \in Down
    BY <1>0 DEF Frame, Down
  <2>2. Frames("packet", q) = [k \in 1..Len(q) |-> Frame("packet", q[k])] /\ Len(q) \in Nat
    BY DEF Frames
  <2> QED
    BY <2>1, <2>2
<1>2. ASSUME NEW q \in Seq(1..MaxMessages)
      PROVE  Frames("message", q) \in Seq(Up) \cap Seq(Up')
  <2>1. \A k \in 1..Len(q) : Frame("message", q[k]) \in Up \cap Up'
    BY <1>0 DEF Frame, Up
  <2>2. Frames("message", q) = [k \in 1..Len(q) |-> Frame("message", q[k])] /\ Len(q) \in Nat
    BY DEF Frames
  <2> QED
    BY <2>1, <2>2
<1> QED
  BY <1>1, <1>2

\* A reply puts packets into the answer or frames on the websocket.
LEMMA ReplyTypes ==
  ASSUME TypeOK, TypeOK', Net, NEW first \in Seq(Down), Reply(first)
  PROVE  answer' \in Seq(1..MaxPackets) /\ down' \in Seq(Down)
<1>1. Sent \in Seq(1..MaxPackets)
  BY SentType
<1>2. Frames("packet", Sent) \in Seq(Down)
  BY <1>1, FramesTypes
<1>3. answer \in Seq(1..MaxPackets) /\ down \in Seq(Down)
  BY DEF Net
<1> QED
  BY <1>1, <1>2, <1>3, SeqTypes DEF Reply

\* Frames on their way stay allowed: the client does not poll again once it has
\* no poll outstanding, and stays closed.
LEMMA UpGrows ==
  ASSUME Net, ~polling => ~polling', phase = "closed" => phase' = "closed"
  PROVE  Up \subseteq Up' /\ up \in Seq(Up')
<1>1. Up \subseteq Up'
  BY DEF Up
<1> QED
  BY <1>1, SeqMonotone DEF Net

\* Pausing sends the upgrade packet only with no poll outstanding.
LEMMA PauseNet ==
  ASSUME Net, NEW p \in BOOLEAN, NEW w \in Seq(1..MaxMessages), NEW u \in Seq(1..MaxMessages),
         phase # "closed", ~polling => ~p, Pause(p, w, u)
  PROVE  polling' = p /\ up' \in Seq(Up')
<1>1. ~polling => ~polling'
  BY DEF Pause
<1>2. up \in Seq(Up')
  BY <1>1, UpGrows
<1>3. CASE MayPause(p, w)
  <2>1. /\ ~polling'
        /\ up' = up \o <<Frame("upgrade", 0)>> \o Frames("message", w \o u)
    BY <1>3 DEF Pause, MayPause
  <2>2. Frame("upgrade", 0) \in Up'
    BY <2>1, HandoverAssumption DEF Up, Frame
  <2>3. <<Frame("upgrade", 0)>> \in Seq(Up')
    BY <2>2
  <2>4. Frames("message", w \o u) \in Seq(Up')
    BY SeqTypes, FramesTypes
  <2>5. up' \in Seq(Up')
    BY <1>2, <2>1, <2>3, <2>4, SeqTypes
  <2> QED
    BY <1>3, <2>1, <2>5 DEF Pause, MayPause
<1>4. CASE ~MayPause(p, w)
  BY <1>2, <1>4 DEF Pause
<1> QED
  BY <1>3, <1>4

\* What the client does.
LEMMA ClientNet ==
  ASSUME TypeOK, Queue, Queue', Net, ClientNext
  PROVE  Net'
<1>0. /\ posting \in Seq(1..MaxMessages) /\ unsent \in Seq(1..MaxMessages)
      /\ <<>> \in Seq(1..MaxMessages)
      /\ polling \in BOOLEAN /\ pingDue \in BOOLEAN /\ pings \subseteq 1..MaxMessages
  BY SeqTypes DEF Queue, Net
<1>1. UNCHANGED serverSide
  BY ClientLeavesServer
<1>2. CASE Write \/ Ping
  <2>0. SendPacket /\ pingDue' \in BOOLEAN /\ pings' \subseteq pings \cup {sent + 1}
    BY <1>0, <1>2 DEF Write, Ping
  <2>1. phase' = phase /\ Up' = Up /\ UNCHANGED <<polling, received, accepted, answer, postAnswer, down>>
    BY <2>0 DEF SendPacket, Up
  <2>2. Frame("message", sent + 1) \in Up /\ sent + 1 \in 1..MaxMessages
    BY <2>0, HandoverAssumption, SMTT(30) DEF SendPacket, Up, Frame, Queue
  <2>3. up' \in Seq(Up)
    <3>1. up' = up \/ up' = Append(up, Frame("message", sent + 1))
      BY <2>0 DEF SendPacket
    <3>2. up \in Seq(Up)
      BY DEF Net
    <3> QED
      BY <2>2, <3>1, <3>2, SeqParts
  <2>4. requests' \subseteq {"get", "post", "upgrade"}
    BY <2>0 DEF SendPacket, Post, Net
  <2>5. pings' \subseteq 1..MaxMessages
    BY <1>0, <2>0, <2>2
  <2> QED
    BY <1>1, <2>0, <2>1, <2>3, <2>4, <2>5 DEF Net, serverSide
<1>3. CASE OnPollData
  <2>1. received' \in Seq(1..MaxPackets) /\ answer' \in Seq(1..MaxPackets)
    BY <1>3, SeqTypes DEF OnPollData, Net
  <2>2. requests' \subseteq {"get", "post", "upgrade"}
    BY <1>3 DEF OnPollData, Post, Net
  <2>3. /\ UNCHANGED <<accepted, pings, postAnswer, down>> /\ phase # "closed"
        /\ pingDue' \in BOOLEAN
    BY <1>0, <1>3 DEF OnPollData
  <2>4. polling' \in BOOLEAN /\ up' \in Seq(Up')
    <3>1. CASE Pause(FALSE, posting, unsent)
      BY <1>0, <2>3, <3>1, PauseNet
    <3>2. CASE UNCHANGED <<polling, up>>
      BY <2>3, <3>2, UpGrows DEF Net
    <3> QED
      BY <1>3, <3>1, <3>2 DEF OnPollData
  <2> QED
    BY <1>1, <2>1, <2>2, <2>3, <2>4 DEF Net, serverSide
<1>4. CASE OnPostOk
  <2>1. ToSet(posting) \subseteq 1..MaxMessages
    BY <1>0, SeqParts
  <2>2. accepted' \subseteq 1..MaxMessages
    BY <1>4, <2>1 DEF OnPostOk, Net
  <2>3. requests' \subseteq {"get", "post", "upgrade"} /\ postAnswer' = "none"
    BY <1>4 DEF OnPostOk, Post, Net
  <2>4. UNCHANGED <<received, pingDue, pings, answer, down>> /\ phase \in {"open", "pausing"}
    BY <1>4 DEF OnPostOk
  <2>5. polling' \in BOOLEAN /\ up' \in Seq(Up')
    <3>1. CASE Pause(polling, <<>>, unsent)
      <4>1. PICK w \in Seq(1..MaxMessages) : w = <<>>
        <5>1. <<>> \in Seq(1..MaxMessages)
          BY SeqTypes
        <5> WITNESS <<>> \in Seq(1..MaxMessages)
        <5> QED
          OBVIOUS
      <4>2. phase # "closed" /\ Pause(polling, w, unsent)
        BY <2>4, <3>1, <4>1
      <4> QED
        BY <1>0, <4>2, PauseNet
    <3>2. CASE UNCHANGED <<phase, polling, up>>
      BY <3>2, UpGrows DEF Net
    <3> QED
      BY <1>4, <3>1, <3>2 DEF OnPostOk
  <2> QED
    BY <1>1, <2>2, <2>3, <2>4, <2>5 DEF Net, serverSide
<1>5. CASE OnPostError \/ PingTimeout
  <2>1. Close /\ postAnswer' \in {"none", postAnswer}
    BY <1>5 DEF OnPostError, PingTimeout
  <2>2. /\ phase' = "closed" /\ up' = Append(up, Frame("close", 0)) /\ pingDue' = FALSE
        /\ requests' \subseteq {"get", "post", "upgrade"}
        /\ UNCHANGED <<polling, received, accepted, pings, answer, down>>
    BY <2>1 DEF Close, Net
  <2>3. Frame("close", 0) \in Up' /\ up \in Seq(Up')
    BY <2>2, UpGrows, HandoverAssumption DEF Up, Frame
  <2>4. up' \in Seq(Up')
    BY <2>2, <2>3, SeqParts
  <2> QED
    BY <1>1, <2>1, <2>2, <2>4 DEF Net, serverSide
<1>6. CASE OnFrame
  <2>1. /\ Head(down) \in Down /\ down' \in Seq(Down) /\ phase # "closed"
        /\ UNCHANGED <<accepted, pings, requests, answer, postAnswer>> /\ pingDue' \in BOOLEAN
    BY <1>0, <1>6, SeqParts DEF OnFrame, Net
  <2>2. CASE Head(down).type = "open" /\ up' = Append(up, Frame("probe", 0))
             /\ UNCHANGED <<phase, polling, received>>
    <3>1. Frame("probe", 0) \in Up' /\ up \in Seq(Up')
      BY <2>2, UpGrows, HandoverAssumption DEF Up, Frame
    <3>2. up' \in Seq(Up')
      BY <2>2, <3>1, SeqParts
    <3> QED
      BY <1>1, <2>1, <2>2, <3>2 DEF Net, serverSide
  <2>3. CASE Pause(polling, posting, unsent) /\ UNCHANGED received
    <3>1. polling' \in BOOLEAN /\ up' \in Seq(Up')
      BY <1>0, <2>1, <2>3, PauseNet
    <3> QED
      BY <1>1, <2>1, <2>3, <3>1 DEF Net, serverSide
  <2>4. CASE /\ Head(down).type = "packet" /\ received' = Append(received, Head(down).n)
             /\ UNCHANGED <<phase, polling, up>>
    <3>1. Head(down).n \in 1..MaxPackets
      BY <2>1, <2>4, BoundAssumption DEF Down
    <3>2. received' \in Seq(1..MaxPackets)
      BY <2>4, <3>1, SeqParts DEF Net
    <3>3. up' \in Seq(Up')
      BY <2>4, UpGrows
    <3> QED
      BY <1>1, <2>1, <2>4, <3>2, <3>3 DEF Net, serverSide
  <2> QED
    BY <1>6, <2>2, <2>3, <2>4 DEF OnFrame
<1> QED
  BY <1>2, <1>3, <1>4, <1>5, <1>6 DEF ClientNext

\* What arrives at the server, and what it answers.
LEMMA ServerNet ==
  ASSUME TypeOK, TypeOK', Net, ServerNext
  PROVE  Net'
<1>0. UNCHANGED clientVars
  BY DEF ServerNext, HandshakeArrives, PollArrives, PostArrives, UpgradeArrives,
         ProbeArrives, UpgradePacketArrives, MessageArrives, CloseArrives, ServerSends
<1>1. /\ Up' = Up /\ phase' = phase /\ UNCHANGED <<polling, received, accepted, pingDue, pings>>
      /\ polling \in BOOLEAN /\ pingDue \in BOOLEAN /\ pings \subseteq 1..MaxMessages
      /\ accepted \subseteq 1..MaxMessages /\ received \in Seq(1..MaxPackets)
  BY <1>0 DEF clientVars, Up, Net
<1>2. /\ up \in Seq(Up) /\ down \in Seq(Down) /\ <<>> \in Seq(Down)
      /\ answer \in Seq(1..MaxPackets) /\ handled \in Seq(1..MaxMessages)
  BY SeqTypes DEF Net
<1>3. /\ requests' \subseteq {"get", "post", "upgrade"}
      /\ postAnswer' \in {"none", "ok", "error"}
  BY DEF ServerNext, HandshakeArrives, PollArrives, PostArrives, UpgradeArrives, ProbeArrives,
         UpgradePacketArrives, MessageArrives, CloseArrives, ServerSends, Net
<1>4. sends' \in 0..MaxSends
  <2>1. CASE ServerSends
    BY <2>1, HandoverAssumption DEF ServerSends, Net
  <2>2. CASE UNCHANGED sends
    BY <2>2 DEF Net
  <2> QED
    BY <2>1, <2>2 DEF ServerNext, HandshakeArrives, PollArrives, PostArrives, UpgradeArrives,
         ProbeArrives, UpgradePacketArrives, MessageArrives, CloseArrives, serverSide
<1>5. up' \in Seq(Up)
  <2>1. up' = up \/ (up # <<>> /\ up' = Tail(up))
    BY DEF ServerNext, HandshakeArrives, PollArrives, PostArrives, UpgradeArrives, ProbeArrives,
           UpgradePacketArrives, MessageArrives, CloseArrives, ServerSends
  <2> QED
    BY <1>2, <2>1, SeqParts, ZenonT(30)
<1>6. handled' \in Seq(1..MaxMessages)
  <2>1. CASE MessageArrives
    <3>1. up # <<>> /\ Head(up).type = "message" /\ handled' = Append(handled, Head(up).n)
      BY <2>1 DEF MessageArrives
    <3>2. Head(up) \in Up
      BY <1>2, <3>1, SeqParts
    <3>3. Head(up).n \in 1..MaxMessages
      BY <3>1, <3>2, HandoverAssumption DEF Up
    <3> QED
      BY <1>2, <3>1, <3>3, SeqParts
  <2>2. CASE UNCHANGED handled
    BY <1>2, <2>2
  <2> QED
    BY <2>1, <2>2 DEF ServerNext, HandshakeArrives, PollArrives, PostArrives, UpgradeArrives,
         ProbeArrives, UpgradePacketArrives, CloseArrives, ServerSends, serverSide
<1>7. answer' \in Seq(1..MaxPackets) /\ down' \in Seq(Down)
  <2>1. CASE ProbeArrives
    <3>1. Frame("pong", 0) \in Down
      BY BoundAssumption DEF Frame, Down
    <3>2. <<Frame("pong", 0)>> \in Seq(Down) /\ Reply(<<Frame("pong", 0)>>)
      BY <2>1, <3>1 DEF ProbeArrives
    <3> QED
      BY <3>2, ReplyTypes
  <2>2. CASE UpgradeArrives
    <3>1. Frame("open", 0) \in Down
      BY BoundAssumption DEF Frame, Down
    <3> QED
      BY <1>2, <2>2, <3>1, SeqParts DEF UpgradeArrives
  <2>3. CASE Reply(<<>>)
    BY <1>2, <2>3, ReplyTypes
  <2>4. CASE UNCHANGED <<answer, down>>
    BY <1>2, <2>4
  <2> QED
    BY <2>1, <2>2, <2>3, <2>4 DEF ServerNext, HandshakeArrives, PollArrives, PostArrives,
         UpgradePacketArrives, MessageArrives, CloseArrives, ServerSends
<1>8. pongs' \subseteq 0..MaxPackets
  <2>1. pongs' \in {pongs, pongs \cup {made'[S]}}
    BY DEF ServerNext, HandshakeArrives, PollArrives, PostArrives, UpgradeArrives, ProbeArrives,
           UpgradePacketArrives, MessageArrives, CloseArrives, ServerSends, serverSide
  <2>2. made'[S] \in 0..MaxPackets
    BY HandoverAssumption DEF TypeOK
  <2> QED
    BY <2>1, <2>2 DEF Net
<1> QED
  BY <1>1, <1>3, <1>4, <1>5, <1>6, <1>7, <1>8 DEF Net

\* The invariant of the client, the network and the server together.
Joint == IInv /\ Queue /\ Net

\* It holds at first ...
LEMMA InitJoint == HandoverInit => Joint
<1> SUFFICES ASSUME HandoverInit PROVE Joint
  OBVIOUS
<1>1. IInv
  BY InitIInv DEF HandoverInit
<1>2. Queue
  BY HandoverAssumption, SeqTypes DEF HandoverInit, Queue, Upto
<1>3. Net
  <2>1. /\ received = <<>> /\ answer = <<>> /\ up = <<>> /\ down = <<>> /\ handled = <<>>
        /\ polling = TRUE /\ pingDue = FALSE /\ pings = {} /\ pongs = {} /\ accepted = {}
        /\ sends = 0 /\ requests = {"get"} /\ postAnswer = "none"
    BY DEF HandoverInit
  <2>2. <<>> \in Seq(1..MaxPackets) /\ <<>> \in Seq(1..MaxMessages)
        /\ <<>> \in Seq(Up) /\ <<>> \in Seq(Down)
    OBVIOUS
  <2>3. /\ received \in Seq(1..MaxPackets) /\ answer \in Seq(1..MaxPackets)
        /\ handled \in Seq(1..MaxMessages) /\ up \in Seq(Up) /\ down \in Seq(Down)
    BY <2>1, <2>2, Zenon
  <2>4. /\ polling \in BOOLEAN /\ pingDue \in BOOLEAN
        /\ pings \subseteq 1..MaxMessages /\ pongs \subseteq 0..MaxPackets
        /\ accepted \subseteq 1..MaxMessages
    BY <2>1
  <2>5. /\ sends \in 0..MaxSends /\ requests \subseteq {"get", "post", "upgrade"}
        /\ postAnswer \in {"none", "ok", "error"}
    BY <2>1, HandoverAssumption
  <2> QED
    BY <2>3, <2>4, <2>5, Zenon DEF Net
<1> QED
  BY <1>1, <1>2, <1>3 DEF Joint

\* ... and every step keeps it.
LEMMA JointStep == Joint /\ [HandoverNext]_handoverVars => Joint'
<1> SUFFICES ASSUME Joint, [HandoverNext]_handoverVars PROVE Joint'
  OBVIOUS
<1>1. IInv'
  BY IsSessionStep, NextIInv DEF Joint
<1>2. Queue'
  BY QueueStep DEF Joint
<1>3. TypeOK /\ TypeOK' /\ Queue /\ Net
  BY <1>1 DEF Joint, IInv
<1>4. CASE ClientNext
  BY <1>1, <1>2, <1>3, <1>4, ClientNet DEF Joint
<1>5. CASE ServerNext
  BY <1>1, <1>2, <1>3, <1>5, ServerNet DEF Joint
<1>6. CASE UNCHANGED handoverVars
  <2>1. Net'
    BY <1>3, <1>6 DEF Net, Up, handoverVars, clientVars, serverSide, netVars
  <2> QED
    BY <1>1, <1>2, <2>1 DEF Joint
<1> QED
  BY <1>4, <1>5, <1>6 DEF HandoverNext

\* What client, network and server rely on of each other, at all times.
THEOREM JointInvariant == HandoverSpec => []Joint
BY InitJoint, JointStep, PTL DEF HandoverSpec

\* The variables of client and network keep their types.
THEOREM HandoverTypes == HandoverSpec => []HandoverTypeOK
<1>1. Joint => HandoverTypeOK
  <2> SUFFICES ASSUME Joint PROVE HandoverTypeOK
    OBVIOUS
  <2>0. Queue /\ Net /\ MaxMessages \in Nat /\ MaxPackets \in Nat /\ MaxMessages <= MaxPackets
    BY HandoverAssumption, BoundAssumption DEF Joint
  <2>1. /\ ToSet(posting) \subseteq 1..MaxMessages /\ ToSet(unsent) \subseteq 1..MaxMessages
        /\ ToSet(transmitted) \subseteq 1..MaxMessages /\ ToSet(handled) \subseteq 1..MaxMessages
        /\ accepted \subseteq 1..MaxMessages
    BY <2>0, SeqParts DEF Queue, Net
  <2>2. ToSet(received \o answer) \subseteq 1..MaxPackets
    <3>1. received \o answer \in Seq(1..MaxPackets)
      BY <2>0, SeqTypes DEF Net
    <3> QED
      BY <3>1, SeqParts
  <2>3. ToSet(up \o down) \subseteq [type : FrameTypes, n : 0..MaxPackets]
    <3>1. /\ Up \subseteq [type : FrameTypes, n : 0..MaxPackets]
          /\ Down \subseteq [type : FrameTypes, n : 0..MaxPackets]
      BY <2>0 DEF Up, Down, FrameTypes
    <3>2. /\ up \in Seq([type : FrameTypes, n : 0..MaxPackets])
          /\ down \in Seq([type : FrameTypes, n : 0..MaxPackets])
      BY <2>0, <3>1, SeqMonotone DEF Net
    <3>3. up \o down \in Seq([type : FrameTypes, n : 0..MaxPackets])
      BY <3>2, SeqTypes
    <3> QED
      BY <3>3, SeqParts
  <2> QED
    BY <2>0, <2>1, <2>2, <2>3 DEF HandoverTypeOK, Queue, Net
<1> QED
  BY <1>1, JointInvariant, PTL

---------------------------------------------------------------------------
(* How the process ends.                                                   *)

\* Of the actions a client can cause only those of a close frame end the process.
LEMMA EndStep ==
  ASSUME Joint, TerminatesOnlyOnClose, [HandoverNext]_handoverVars
  PROVE  TerminatesOnlyOnClose'
<1>0. /\ phase = "closed" => phase' = "closed"
      /\ UNCHANGED status => TerminatesOnlyOnClose'
  <2>1. phase = "closed" => phase' = "closed"
    BY DEF HandoverNext, ClientNext, ServerNext, Write, Ping, SendPacket, OnPollData, OnPostOk, OnPostError,
           PingTimeout, OnFrame, Close, HandshakeArrives, PollArrives, PostArrives,
           UpgradeArrives, ProbeArrives, UpgradePacketArrives, MessageArrives, CloseArrives,
           ServerSends, clientVars, handoverVars
  <2> QED
    BY <2>1 DEF TerminatesOnlyOnClose
<1>1. CASE ClientNext \/ UNCHANGED handoverVars
  BY <1>0, <1>1, ClientLeavesServer DEF handoverVars, vars
<1>2. ASSUME NEW b \in BOOLEAN, HandshakeArrives(b) PROVE UNCHANGED status
  BY <1>2 DEF HandshakeArrives, HandshakePolling
<1>3. CASE PollArrives
  <2>1. HandlePollRequest(GetConn, I) /\ IInv /\ GetConn \in Conns /\ I \in Sids
    BY <1>3, HandoverAssumption DEF PollArrives, Joint
  <2>2. sockets[I] # NoSocket /\ status = "running"
    BY <2>1 DEF HandlePollRequest, Verified, Ready
  <2>3. bound[transport[sockets[I]]]
    BY <2>1, <2>2, Found DEF IInv, CurrentIsBound
  <2> QED
    BY <1>0, <2>1, <2>2, <2>3 DEF HandlePollRequest
<1>4. CASE PostArrives
  BY <1>0, <1>4 DEF PostArrives, AnswerAtOnce, vars
<1>5. CASE UpgradeArrives \/ ProbeArrives \/ UpgradePacketArrives \/ MessageArrives \/ ServerSends
  BY <1>0, <1>5 DEF UpgradeArrives, ProbeArrives, UpgradePacketArrives, MessageArrives, ServerSends,
                    MaybeUpgrade, OnProbe, OnUpgrade, OnPacket, SendMessage
<1>6. CASE CloseArrives
  <2>1. up # <<>> /\ Head(up).type = "close" /\ UNCHANGED phase
    BY <1>6 DEF CloseArrives, clientVars
  <2>2. Head(up) \in Up
    BY <2>1, SeqParts DEF Joint, Net
  <2>3. phase = "closed"
    BY <2>1, <2>2 DEF Up
  <2> QED
    BY <2>1, <2>3 DEF TerminatesOnlyOnClose
<1> QED
  BY <1>0, <1>1, <1>2, <1>3, <1>4, <1>5, <1>6 DEF HandoverNext, ServerNext

\* As long as connections stay up no upgrade ends the process: only a client
\* that closes can.
THEOREM EndsOnlyOnClose == HandoverSpec => []TerminatesOnlyOnClose
<1>1. HandoverInit => TerminatesOnlyOnClose
  BY DEF HandoverInit, Init, TerminatesOnlyOnClose
<1> QED
  BY <1>1, EndStep, JointInvariant, PTL DEF HandoverSpec

---------------------------------------------------------------------------
(* The poll.                                                               *)

\* The one session has its polling transport until it is upgraded.
Setup ==
  /\ held \subseteq {S} /\ \A i \in Sids : sockets[i] \in {NoSocket, S}
  /\ Fresh(S) => ~upgraded[S]
  /\ ~Fresh(S) => transport[S] = IF upgraded[S] THEN Web ELSE Poll
  /\ kind[Poll] \in {"none", "xhr"}

\* A poll is at one place: on its way, parked, or on its way back; and nowhere
\* once the client has none outstanding.  A session is upgraded only when there
\* is none.
OnePoll ==
  /\ ~polling => "get" \notin requests /\ answer = <<>> /\ ~parked[Poll]
  /\ "get" \in requests => answer = <<>> /\ ~parked[Poll]
  /\ answer # <<>> => ~parked[Poll]
  /\ upgraded[S] => ~polling

\* What is written answers the poll that was parked.
LEMMA FlushAnswers ==
  ASSUME TypeOK, transport[S] = Poll, kind[Poll] = "xhr",
         NEW ps, NEW c, NEW w, NEW p \in BOOLEAN, NEW new, Flush(S, ps, c, w, p, new)
  PROVE  /\ CanFlush(w, ps) => ~parked'[Poll]
         /\ ~CanFlush(w, ps) => parked'[Poll] = p /\ Sent = <<>>
<1>0. S \in Sockets /\ Poll \in Trans
  BY HandoverAssumption
<1>1. parked'[Poll] = (p /\ (CanFlush(w, ps) => ParkedAfter("xhr")))
  BY <1>0 DEF Flush, TypeOK
<1>2. CASE CanFlush(w, ps)
  BY <1>1, <1>2 DEF ParkedAfter
<1>3. CASE ~CanFlush(w, ps)
  <2>1. wire'[S] = wire[S]
    BY <1>0, <1>3 DEF Flush, TypeOK
  <2>2. Len(wire[S]) \in Nat
    <3>1. wire[S] \in Seq(1..MaxPackets)
      BY <1>0 DEF TypeOK
    <3> QED
      BY <3>1
  <2>3. Len(wire[S]) + 1 \in Int /\ Len(wire[S]) \in Int /\ Len(wire[S]) < Len(wire[S]) + 1
    BY <2>2
  <2>4. Sent = <<>>
    BY <2>1, <2>3, SubSeqEmpty DEF Sent
  <2> QED
    BY <1>1, <1>3, <2>4
<1> QED
  BY <1>2, <1>3

\* The server sends: over the websocket once upgraded, otherwise as an answer.
LEMMA SendOnePoll ==
  ASSUME Joint, Setup, OnePoll, NEW s \in Sockets, Live(s), CreateAndSendPacket(s),
         NEW first, Reply(first),
         UNCHANGED <<serverVars, identVars, tranVars, polling, requests>>
  PROVE  s = S /\ Setup' /\ OnePoll'
<1>0. /\ S \in Sockets /\ Poll \in Trans /\ Web \in Trans /\ Poll # Web
      /\ TypeOK /\ Objects /\ Polls /\ parked[Poll] \in BOOLEAN
      /\ answer \in Seq(1..MaxPackets)
  BY HandoverAssumption DEF Joint, IInv, TypeOK, Net
<1>1. s = S
  BY <1>0, NoneAssumption DEF Setup, Live
<1>2. ~Fresh(S) /\ transport[S] \in Trans /\ kind[transport[S]] # "none"
  BY <1>0, <1>1, LiveIsCreated
<1>3. Setup'
  BY DEF Setup, Fresh, serverVars, identVars, tranVars
<1>4. CASE upgraded[S]
  <2>1. transport[S] = Web
    BY <1>2, <1>4 DEF Setup
  <2>2. parked'[Poll] = parked[Poll]
    BY <1>0, <1>1, <2>1 DEF CreateAndSendPacket, Flush, TypeOK
  <2>3. answer' = answer
    BY <2>1 DEF Reply
  <2> QED
    BY <1>1, <1>3, <2>2, <2>3 DEF OnePoll, identVars
<1>5. CASE ~upgraded[S]
  <2> DEFINE ps == Append(buffer[S], made[S] + 1)
  <2>1. transport[S] = Poll /\ kind[Poll] = "xhr"
    BY <1>2, <1>5 DEF Setup
  <2>2. Flush(S, ps, Out(Poll), writable[Poll], parked[Poll], 0)
    BY <1>1, <2>1 DEF CreateAndSendPacket
  <2>3. writable[Poll] = parked[Poll]
    BY <1>0, <2>1 DEF Polls, WritableHasPoll
  <2>4. answer' = answer \o Sent
    BY <1>0, <2>1 DEF Reply
  <2> HIDE DEF ps
  <2>5. /\ CanFlush(writable[Poll], ps) => ~parked'[Poll]
        /\ ~CanFlush(writable[Poll], ps) => parked'[Poll] = parked[Poll] /\ Sent = <<>>
    BY <1>0, <2>1, <2>2, FlushAnswers
  <2>6. CASE CanFlush(writable[Poll], ps)
    <3>1. parked[Poll]
      BY <2>3, <2>6 DEF CanFlush
    <3>2. polling /\ "get" \notin requests
      BY <3>1 DEF OnePoll
    <3> QED
      BY <1>1, <1>3, <1>5, <2>5, <2>6, <3>2 DEF OnePoll, identVars
  <2>7. CASE ~CanFlush(writable[Poll], ps)
    <3>1. answer' = answer
      BY <1>0, <2>4, <2>5, <2>7
    <3> QED
      BY <1>1, <1>3, <2>5, <2>7, <3>1 DEF OnePoll, identVars
  <2> QED
    BY <2>6, <2>7
<1> QED
  BY <1>1, <1>4, <1>5

\* The client gives up its poll only when it has the answer.
LEMMA ClientOnePoll ==
  ASSUME Joint, Setup, OnePoll, ClientNext
  PROVE  Setup' /\ OnePoll'
<1>0. UNCHANGED <<vars, serverSide>> /\ polling \in BOOLEAN
  BY ClientLeavesServer DEF Joint, Net
<1>1. /\ Setup' /\ UNCHANGED <<upgraded, parked>>
  BY <1>0 DEF vars, serverVars, identVars, tranVars, pollVars, Setup, Fresh
<1>2. CASE OnPollData
  <2>1. answer # <<>> /\ answer' = <<>>
    BY <1>2 DEF OnPollData
  <2>2. polling /\ "get" \notin requests /\ ~parked[Poll] /\ ~upgraded[S]
    BY <2>1 DEF OnePoll
  <2>3. CASE Pause(FALSE, posting, unsent) /\ UNCHANGED requests
    BY <1>1, <2>1, <2>2, <2>3 DEF OnePoll
  <2>4. CASE UNCHANGED polling
    BY <1>1, <2>1, <2>2, <2>4 DEF OnePoll
  <2> QED
    BY <1>2, <2>3, <2>4 DEF OnPollData
<1>3. ASSUME UNCHANGED <<polling, answer>>, "get" \in requests' => "get" \in requests
      PROVE  OnePoll'
  BY <1>1, <1>3 DEF OnePoll
<1>4. CASE Write \/ Ping
  BY <1>1, <1>3, <1>4 DEF Write, Ping, SendPacket, Post
<1>5. CASE OnPostOk
  BY <1>1, <1>3, <1>5 DEF OnPostOk, Post, Pause
<1>6. CASE OnPostError \/ PingTimeout
  BY <1>1, <1>3, <1>6 DEF OnPostError, PingTimeout, Close
<1>7. CASE OnFrame
  BY <1>0, <1>1, <1>3, <1>7 DEF OnFrame, Pause, MayPause
<1> QED
  BY <1>1, <1>2, <1>4, <1>5, <1>6, <1>7 DEF ClientNext

\* The server answers a poll where it is, and moves only after the client.
LEMMA ServerOnePoll ==
  ASSUME Joint, Setup, OnePoll, ServerNext
  PROVE  Setup' /\ OnePoll'
<1>0. /\ S \in Sockets /\ I \in Sids /\ Poll \in Trans /\ Web \in Trans /\ Poll # Web
      /\ GetConn \in Conns /\ WebConn \in Conns /\ IInv /\ TypeOK
      /\ answer \in Seq(1..MaxPackets)
  BY HandoverAssumption DEF Joint, IInv, Net
<1>1. UNCHANGED polling
  BY DEF ServerNext, HandshakeArrives, PollArrives, PostArrives, UpgradeArrives,
         ProbeArrives, UpgradePacketArrives, MessageArrives, CloseArrives, ServerSends, clientVars
<1>2. ASSUME NEW b \in BOOLEAN, HandshakeArrives(b) PROVE Setup' /\ OnePoll'
  <2>1. /\ "get" \in requests /\ requests' = requests \ {"get"} /\ Fresh(S)
        /\ CreateSocket(S, Poll) /\ UNCHANGED upgraded
        /\ kind' = [kind EXCEPT ![Poll] = "xhr"]
        /\ parked' = [parked EXCEPT ![Poll] = ParkedAfter("xhr")]
    BY <1>2 DEF HandshakeArrives, HandshakePolling, CreateSocket
  <2>2. polling /\ ~upgraded[S]
    BY <2>1 DEF OnePoll, Setup
  <2>3. ~parked'[Poll] /\ kind'[Poll] = "xhr"
    BY <1>0, <2>1 DEF ParkedAfter, TypeOK
  <2>4. OnePoll'
    BY <1>1, <2>1, <2>2, <2>3 DEF OnePoll
  <2>5. /\ transport'[S] = Poll /\ upgraded' = upgraded
        /\ held' \subseteq {S} /\ \A i \in Sids : sockets'[i] \in {NoSocket, S}
    BY <1>0, <2>1 DEF CreateSocket, TypeOK, Setup
  <2> QED
    BY <2>2, <2>3, <2>4, <2>5 DEF Setup
<1>3. CASE PollArrives
  <2>1. /\ "get" \in requests /\ requests' = requests \ {"get"} /\ ~Fresh(S)
        /\ HandlePollRequest(GetConn, I) /\ Reply(<<>>)
    BY <1>3 DEF PollArrives
  <2>2. sockets[I] = S
    BY <1>0, <2>1 DEF HandlePollRequest, Verified, Setup
  <2>3. polling /\ answer = <<>> /\ ~upgraded[S]
    BY <1>0, <2>1 DEF OnePoll
  <2>4. transport[S] = Poll
    BY <2>1, <2>3 DEF Setup
  <2>5. kind[Poll] = "xhr"
    BY <1>0, <2>1, <2>4 DEF Setup, IInv, Objects
  <2>6. /\ Flush(S, buffer[S], GetConn, TRUE, TRUE, 1)
        /\ UNCHANGED <<serverVars, identVars, tranVars>>
    BY <2>1, <2>2 DEF HandlePollRequest
  <2>7. /\ CanFlush(TRUE, buffer[S]) => ~parked'[Poll]
        /\ ~CanFlush(TRUE, buffer[S]) => Sent = <<>>
    BY <1>0, <2>4, <2>5, <2>6, FlushAnswers
  <2>8. answer' = <<>> \o Sent
    BY <1>0, <2>1, <2>3, <2>4 DEF Reply
  <2>9. answer' # <<>> => ~parked'[Poll]
    <3>1. <<>> \o <<>> = <<>>
      OBVIOUS
    <3>2. ~CanFlush(TRUE, buffer[S]) => answer' = <<>>
      BY <2>7, <2>8, <3>1
    <3> QED
      BY <2>7, <3>2
  <2>10. OnePoll'
    BY <1>1, <2>1, <2>3, <2>6, <2>9 DEF OnePoll, identVars
  <2>11. Setup'
    BY <2>6 DEF Setup, Fresh, serverVars, identVars, tranVars
  <2> QED
    BY <2>10, <2>11
<1>4. CASE PostArrives
  BY <1>1, <1>4 DEF PostArrives, AnswerAtOnce, vars, serverVars, identVars, tranVars, pollVars,
                    Setup, Fresh, OnePoll
<1>5. CASE UpgradeArrives
  <2>1. /\ MaybeUpgrade(WebConn, I, Web, TRUE, "websocket")
        /\ requests' = requests \ {"upgrade"} /\ UNCHANGED answer
    BY <1>5 DEF UpgradeArrives
  <2>2. UNCHANGED <<serverVars, sidOf, transport, upgraded, parked>>
    BY <2>1 DEF MaybeUpgrade, Attach
  <2>3. kind'[Poll] = kind[Poll]
    BY <1>0, <2>1 DEF MaybeUpgrade, TypeOK
  <2> QED
    BY <1>1, <2>1, <2>2, <2>3 DEF Setup, Fresh, OnePoll, serverVars
<1>6. CASE ProbeArrives
  <2>1. PICK s \in Sockets : Owns(s, Web) /\ CreateAndSendPacket(s)
    BY <1>6 DEF ProbeArrives, OnProbe
  <2>2. /\ UNCHANGED <<serverVars, identVars, tranVars, polling, requests>>
        /\ Reply(<<Frame("pong", 0)>>)
    BY <1>1, <1>6 DEF ProbeArrives, OnProbe
  <2> QED
    BY <2>1, <2>2, SendOnePoll DEF Owns
<1>7. CASE MessageArrives
  <2>1. PICK s \in Sockets : Owns(s, Web) /\ CreateAndSendPacket(s)
    BY <1>7 DEF MessageArrives, OnPacket
  <2>2. /\ UNCHANGED <<serverVars, identVars, tranVars, polling, requests>> /\ Reply(<<>>)
    BY <1>1, <1>7 DEF MessageArrives, OnPacket
  <2> QED
    BY <2>1, <2>2, SendOnePoll DEF Owns
<1>8. CASE ServerSends
  <2>1. /\ Live(S) /\ CreateAndSendPacket(S) /\ Reply(<<>>)
        /\ UNCHANGED <<serverVars, identVars, tranVars, polling, requests>>
    BY <1>1, <1>8 DEF ServerSends, SendMessage, Live
  <2> QED
    BY <1>0, <2>1, SendOnePoll
<1>9. CASE UpgradePacketArrives
  <2>1. /\ up # <<>> /\ Head(up).type = "upgrade" /\ OnUpgrade(Web)
        /\ UNCHANGED <<requests, answer>>
    BY <1>9 DEF UpgradePacketArrives
  <2>2. ~polling
    <3>1. Head(up) \in Up
      BY <2>1, SeqParts DEF Joint, Net
    <3> QED
      BY <2>1, <3>1 DEF Up
  <2>3. PICK s \in Sockets :
          /\ Owns(s, Web)
          /\ upgraded' = [upgraded EXCEPT ![s] = TRUE]
          /\ transport' = [transport EXCEPT ![s] = upgradingTransport[s]]
    BY <2>1 DEF OnUpgrade
  <2>4. upgradingTransport[s] = Web
    BY <1>0, <2>1, <2>3, UpgradingIsOwned DEF OnUpgrade
  <2>5. s = S
    BY <2>3, NoneAssumption DEF Setup, Owns, Live
  <2>6. UNCHANGED <<serverVars, sidOf, kind, parked>>
    BY <2>1 DEF OnUpgrade, pollVars
  <2>7. upgraded'[S] /\ transport'[S] = Web
    BY <1>0, <2>3, <2>4, <2>5 DEF TypeOK
  <2>8. ~Fresh(S)
    BY <1>0, <2>3, <2>5, LiveIsCreated DEF Owns, IInv
  <2> QED
    BY <1>1, <2>1, <2>2, <2>6, <2>7, <2>8 DEF Setup, Fresh, OnePoll, serverVars
<1>10. CASE CloseArrives
  <2>1. /\ OnClose(Web) /\ UNCHANGED <<sidNow, held, identVars, tranVars, pollVars, requests, answer>>
    BY <1>10 DEF CloseArrives, OnCloseMessage
  <2>2. \A i \in Sids : sockets'[i] \in {NoSocket, S}
    BY <1>0, <2>1 DEF OnClose, TypeOK, Setup
  <2> QED
    BY <1>1, <2>1, <2>2 DEF Setup, Fresh, OnePoll, identVars, tranVars, pollVars
<1> QED
  BY <1>2, <1>3, <1>4, <1>5, <1>6, <1>7, <1>8, <1>9, <1>10 DEF ServerNext

\* An upgrade destroys a polling transport that nobody waits for: there is one
\* poll at most, and the client moves only when it has the answer to it.
THEOREM LeavesNoPollBehind == HandoverSpec => []NoPollLeftBehind
<1>1. HandoverInit => Setup /\ OnePoll
  <2> SUFFICES ASSUME HandoverInit PROVE Setup /\ OnePoll
    OBVIOUS
  <2> QED
    BY HandoverAssumption DEF HandoverInit, Init, Setup, OnePoll, Fresh
<1>2. Joint /\ (Setup /\ OnePoll) /\ [HandoverNext]_handoverVars => (Setup /\ OnePoll)'
  <2> SUFFICES ASSUME Joint, Setup, OnePoll, [HandoverNext]_handoverVars
               PROVE  Setup' /\ OnePoll'
    OBVIOUS
  <2>1. CASE UNCHANGED handoverVars
    BY <2>1 DEF Setup, Fresh, OnePoll, handoverVars, vars, serverVars, identVars, tranVars,
                pollVars, clientVars, netVars
  <2> QED
    BY <2>1, ClientOnePoll, ServerOnePoll DEF HandoverNext
<1>3. Joint /\ OnePoll => NoPollLeftBehind
  BY DEF Joint, Net, OnePoll, NoPollLeftBehind
<1> QED
  BY <1>1, <1>2, <1>3, JointInvariant, PTL DEF HandoverSpec
---------------------------------------------------------------------------
(* The packets of frames.                                                  *)

\* What a frame adds to the packets before it.
Taken(f, q) == IF f.type = "packet" THEN Append(q, f.n) ELSE q

\* That is a packet at their end, if any.
LEMMA TakenProps ==
  ASSUME NEW f \in Down, NEW a \in Seq(1..MaxPackets), NEW b \in Seq(1..MaxPackets)
  PROVE  /\ Taken(f, a) \in Seq(1..MaxPackets)
         /\ Taken(f, a \o b) = a \o Taken(f, b)
<1>1. CASE f.type = "packet"
  <2>1. f.n \in 1..MaxPackets
    BY <1>1, BoundAssumption DEF Down
  <2>2. Append(a, f.n) \in Seq(1..MaxPackets) /\ Append(a \o b, f.n) = a \o Append(b, f.n)
    BY <2>1
  <2> QED
    BY <1>1, <2>2 DEF Taken
<1>2. CASE f.type # "packet"
  BY <1>2 DEF Taken
<1> QED
  BY <1>1, <1>2

\* Packets goes through the frames one by one.
LEMMA PacketsRecur ==
  ASSUME NEW fs \in Seq(Down)
  PROVE  \E ps \in [0..Len(fs) -> Seq(1..MaxPackets)] :
           /\ ps[0] = <<>> /\ \A k \in 1..Len(fs) : ps[k] = Taken(fs[k], ps[k - 1])
           /\ Packets(fs) = ps[Len(fs)]
<1> DEFINE h == [x \in Nat \X Seq(1..MaxPackets) |-> IF x[1] \in 1..Len(fs) THEN Taken(fs[x[1]], x[2]) ELSE x[2]]
           ps[k \in 0..Len(fs)] ==
             IF k = 0 THEN <<>>
             ELSE IF fs[k].type = "packet" THEN Append(ps[k - 1], fs[k].n) ELSE ps[k - 1]
<1>0. Len(fs) \in Nat /\ <<>> \in Seq(1..MaxPackets)
  OBVIOUS
<1>1. StepFunction(Seq(1..MaxPackets), h)
  <2>1. ASSUME NEW x \in Nat \X Seq(1..MaxPackets) PROVE h[x] \in Seq(1..MaxPackets)
    <3>1. x[2] \in Seq(1..MaxPackets)
      OBVIOUS
    <3>2. CASE x[1] \in 1..Len(fs)
      <4>1. fs[x[1]] \in Down /\ h[x] = Taken(fs[x[1]], x[2])
        BY <3>2
      <4> QED
        BY <3>1, <4>1, TakenProps
    <3> QED
      BY <3>1, <3>2
  <2> QED
    BY <2>1 DEF StepFunction
<1>2. \E f : Iterates(f, Seq(1..MaxPackets), <<>>, h, Len(fs))
  <2> HIDE DEF h, ps
  <2> QED
    BY <1>0, <1>1, Iteration
<1>20. PICK f : Iterates(f, Seq(1..MaxPackets), <<>>, h, Len(fs))
  BY <1>2
<1>21. f \in [0..Len(fs) -> Seq(1..MaxPackets)] /\ f[0] = <<>>
  BY <1>20 DEF Iterates
<1>3. ASSUME NEW i \in 1..Len(fs) PROVE f[i] = Taken(fs[i], f[i - 1])
  <2> HIDE DEF ps
  <2>2. i \in Nat /\ i - 1 \in 0..Len(fs)
    BY <1>0
  <2>3. f[i - 1] \in Seq(1..MaxPackets)
    BY <1>21, <2>2
  <2>1. <<i, f[i - 1]>> \in Nat \X Seq(1..MaxPackets)
    BY <2>2, <2>3
  <2> QED
    BY <1>20, <2>1 DEF Iterates
<1> HIDE DEF h
<1>4. f = [k \in 0..Len(fs) |-> IF k = 0 THEN <<>>
             ELSE IF fs[k].type = "packet" THEN Append(f[k - 1], fs[k].n) ELSE f[k - 1]]
  <2> HIDE DEF ps
  <2> DEFINE g == [k \in 0..Len(fs) |-> IF k = 0 THEN <<>>
             ELSE IF fs[k].type = "packet" THEN Append(f[k - 1], fs[k].n) ELSE f[k - 1]]
  <2>1. ASSUME NEW k \in 0..Len(fs) PROVE f[k] = g[k]
    <3>1. CASE k = 0
      BY <3>1, <1>21
    <3>2. CASE k # 0
      <4>1. k \in 1..Len(fs)
        BY <3>2, <1>0
      <4>2. g[k] = Taken(fs[k], f[k - 1])
        BY <3>2 DEF Taken
      <4> QED
        BY <4>1, <4>2, <1>3
    <3> QED
      BY <3>1, <3>2
  <2>2. f = [k \in 0..Len(fs) |-> f[k]] /\ g = [k \in 0..Len(fs) |-> g[k]]
    BY <1>21
  <2> HIDE DEF g
  <2>3. f = g
    BY <2>1, <2>2
  <2> QED
    BY <2>3 DEF g
<1>5. ps = [k \in 0..Len(fs) |-> IF k = 0 THEN <<>>
             ELSE IF fs[k].type = "packet" THEN Append(ps[k - 1], fs[k].n) ELSE ps[k - 1]]
  BY <1>4, Zenon
<1>6. ps[0] = <<>> /\ \A k \in 1..Len(fs) : ps[k] = Taken(fs[k], ps[k - 1])
  <2> HIDE DEF ps
  <2>1. ps[0] = <<>>
    BY <1>5, <1>0
  <2>2. ASSUME NEW k \in 1..Len(fs) PROVE ps[k] = Taken(fs[k], ps[k - 1])
    <3>1. k \in 0..Len(fs) /\ k # 0
      BY <1>0
    <3>2. ps[k] = IF k = 0 THEN <<>> ELSE IF fs[k].type = "packet" THEN Append(ps[k - 1], fs[k].n) ELSE ps[k - 1]
      BY <1>5, <3>1, Zenon
    <3> QED
      BY <3>1, <3>2 DEF Taken
  <2> QED
    BY <2>1, <2>2
<1>9. Packets(fs) = ps[Len(fs)]
  BY DEF Packets
<1> HIDE DEF ps
<1>8. ps \in [0..Len(fs) -> Seq(1..MaxPackets)]
  <2> DEFINE n == Len(fs)
             T == {k \in 0..n : ps[k] \in Seq(1..MaxPackets)}
  <2>1. ASSUME NEW k \in 1..n, k - 1 \in T PROVE k \in T
    <3>1. k \in 1..Len(fs) /\ k \in 0..n /\ ps[k - 1] \in Seq(1..MaxPackets)
      BY <1>0, <2>1
    <3>2. ps[k] = Taken(fs[k], ps[k - 1]) /\ fs[k] \in Down
      BY <1>6, <3>1
    <3>3. ps[k] \in Seq(1..MaxPackets)
      BY <3>1, <3>2, TakenProps
    <3> QED
      BY <3>1, <3>3
  <2>2. 0 \in T /\ n \in Nat
    <3>1. ps[0] \in Seq(1..MaxPackets)
      BY <1>0, <1>6
    <3> QED
      BY <1>0, <3>1
  <2> HIDE DEF n, T
  <2>3. 0..n \subseteq T
    BY <2>1, <2>2, UpTo, Zenon
  <2> QED
    BY <1>5, <2>3 DEF n, T
<1> QED
  BY <1>6, <1>8, <1>9

\* The packets of two sequences of frames are those of the one, then those of
\* the other.
LEMMA PacketsConcat ==
  ASSUME NEW s \in Seq(Down), NEW t \in Seq(Down)
  PROVE  /\ Packets(s \o t) = Packets(s) \o Packets(t)
         /\ Packets(s) \in Seq(1..MaxPackets)
<1> DEFINE m == Len(s)
           n == Len(t)
           Q == Seq(1..MaxPackets)
<1>1. /\ m \in Nat /\ n \in Nat /\ s \o t \in Seq(Down) /\ Len(s \o t) = m + n
      /\ \A k \in 1..m : (s \o t)[k] = s[k]
      /\ \A k \in 1..n : (s \o t)[m + k] = t[k]
  OBVIOUS
<1>2. PICK a \in [0..m -> Q] :
        /\ a[0] = <<>> /\ \A k \in 1..m : a[k] = Taken(s[k], a[k - 1])
        /\ Packets(s) = a[m]
  BY PacketsRecur
<1>3. PICK b \in [0..n -> Q] :
        /\ b[0] = <<>> /\ \A k \in 1..n : b[k] = Taken(t[k], b[k - 1])
        /\ Packets(t) = b[n]
  BY PacketsRecur
<1>4. PICK c \in [0..Len(s \o t) -> Q] :
        /\ c[0] = <<>> /\ \A k \in 1..Len(s \o t) : c[k] = Taken((s \o t)[k], c[k - 1])
        /\ Packets(s \o t) = c[Len(s \o t)]
  BY <1>1, PacketsRecur
<1> HIDE DEF m, n
<1>5. c[m] = a[m]
  <2> DEFINE T == {k \in 0..m : c[k] = a[k]}
  <2>1. ASSUME NEW k \in 1..m, k - 1 \in T PROVE k \in T
    <3>1. k \in 1..Len(s \o t) /\ k \in 0..m
      BY <1>1
    <3>2. c[k] = Taken(s[k], c[k - 1])
      BY <1>1, <1>4, <3>1
    <3>3. c[k - 1] = a[k - 1]
      BY <2>1
    <3> QED
      BY <1>2, <3>1, <3>2, <3>3
  <2>2. 0 \in T /\ m \in Nat /\ m \in 0..m
    BY <1>1, <1>2, <1>4
  <2> HIDE DEF T
  <2>3. 0..m \subseteq T
    BY <2>1, <2>2, UpTo, Zenon
  <2> QED
    BY <2>2, <2>3 DEF T
<1>6. c[m + n] = a[m] \o b[n]
  <2> DEFINE T == {k \in 0..n : c[m + k] = a[m] \o b[k]}
  <2>1. ASSUME NEW k \in 1..n, k - 1 \in T PROVE k \in T
    <3>1. m + k \in 1..Len(s \o t) /\ k \in 0..n /\ k - 1 \in 0..n
      BY <1>1
    <3>2. (m + k) - 1 = m + (k - 1) /\ (s \o t)[m + k] = t[k]
      BY <1>1, SMTT(30)
    <3>3. c[m + k] = Taken(t[k], c[m + (k - 1)])
      BY <1>4, <3>1, <3>2
    <3>4. c[m + (k - 1)] = a[m] \o b[k - 1]
      BY <2>1
    <3>5. a[m] \in Q /\ b[k - 1] \in Q /\ t[k] \in Down
      <4>1. a[m] \in Q /\ b[k - 1] \in Q
        BY <1>1, <1>2, <1>3, <3>1
      <4>2. t[k] \in Down
        BY <1>1 DEF n
      <4> QED
        BY <4>1, <4>2
    <3>6. Taken(t[k], a[m] \o b[k - 1]) = a[m] \o Taken(t[k], b[k - 1])
      BY <3>5, TakenProps
    <3> QED
      BY <1>3, <3>1, <3>3, <3>4, <3>6
  <2>2. 0 \in T /\ n \in Nat /\ n \in 0..n
    <3>1. c[m + 0] = a[m] /\ a[m] \in Q
      BY <1>1, <1>2, <1>5
    <3>2. a[m] \o <<>> = a[m]
      BY <3>1
    <3>3. n \in Nat /\ n \in 0..n /\ 0 \in 0..n
      BY <1>1
    <3>4. c[m + 0] = a[m] \o b[0]
      BY <1>3, <3>1, <3>2, ZenonT(30)
    <3> QED
      BY <3>3, <3>4, ZenonT(30)
  <2> HIDE DEF T
  <2>3. 0..n \subseteq T
    BY <2>1, <2>2, UpTo, Zenon
  <2> QED
    BY <2>2, <2>3 DEF T
<1> QED
  BY <1>1, <1>2, <1>3, <1>4, <1>6

\* Packets that go out as frames are the packets of these frames.
LEMMA PacketsOfFrames ==
  ASSUME NEW q \in Seq(1..MaxPackets)
  PROVE  Packets(Frames("packet", q)) = q
<1> DEFINE fs == Frames("packet", q)
           n == Len(q)
<1>1. n \in Nat /\ fs \in Seq(Down) /\ Len(fs) = n
      /\ \A k \in 1..n : fs[k] = Frame("packet", q[k])
  BY FramesTypes DEF Frames
<1> HIDE DEF fs
<1>2. PICK a \in [0..Len(fs) -> Seq(1..MaxPackets)] :
        /\ a[0] = <<>> /\ \A k \in 1..Len(fs) : a[k] = Taken(fs[k], a[k - 1])
        /\ Packets(fs) = a[Len(fs)]
  BY <1>1, PacketsRecur
<1> DEFINE T == {k \in 0..n : a[k] = SubSeq(q, 1, k)}
<1>3. ASSUME NEW k \in 1..n, k - 1 \in T PROVE k \in T
  <2>1. a[k] = Append(a[k - 1], q[k])
    <3>1. k \in 1..Len(fs) /\ fs[k] = Frame("packet", q[k])
      BY <1>1
    <3>2. a[k] = Taken(fs[k], a[k - 1])
      BY <1>2, <3>1
    <3> QED
      BY <3>1, <3>2 DEF Taken, Frame
  <2>2. a[k - 1] = SubSeq(q, 1, k - 1)
    BY <1>3
  <2>3. Append(SubSeq(q, 1, k - 1), q[k]) = SubSeq(q, 1, k)
    OBVIOUS
  <2>4. k \in 0..n
    BY <1>1
  <2> QED
    BY <2>1, <2>2, <2>3, <2>4
<1>4. 0 \in T /\ n \in Nat /\ n \in 0..n
  <2>1. SubSeq(q, 1, 0) = <<>>
    BY SubSeqEmpty
  <2> QED
    BY <1>1, <1>2, <2>1
<1>5. SubSeq(q, 1, n) = q
  BY SubSeqFull
<1> HIDE DEF T, n
<1>6. 0..n \subseteq T
  BY <1>3, <1>4, UpTo, Zenon
<1>7. a[n] = SubSeq(q, 1, n)
  BY <1>4, <1>6 DEF T
<1> QED
  BY <1>1, <1>2, <1>5, <1>7 DEF fs

\* The packets of no frame and of one.
LEMMA PacketsOfOne ==
  /\ Packets(<<>>) = <<>>
  /\ \A f \in Down : Packets(<< f >>) = IF f.type = "packet" THEN << f.n >> ELSE <<>>
<1>1. Packets(<<>>) = <<>>
  <2>1. <<>> \in Seq(1..MaxPackets) /\ Frames("packet", <<>>) = <<>>
    BY DEF Frames
  <2> QED
    BY <2>1, PacketsOfFrames
<1>2. ASSUME NEW f \in Down
      PROVE  Packets(<< f >>) = IF f.type = "packet" THEN << f.n >> ELSE <<>>
  <2> DEFINE fs == << f >>
  <2>1. fs \in Seq(Down) /\ Len(fs) = 1 /\ fs[1] = f
    OBVIOUS
  <2> HIDE DEF fs
  <2>2. PICK a \in [0..Len(fs) -> Seq(1..MaxPackets)] :
          /\ a[0] = <<>> /\ \A k \in 1..Len(fs) : a[k] = Taken(fs[k], a[k - 1])
          /\ Packets(fs) = a[Len(fs)]
    BY <2>1, PacketsRecur
  <2>3. Packets(fs) = Taken(f, <<>>)
    BY <2>1, <2>2
  <2> QED
    BY <2>3 DEF Taken, fs
<1> QED
  BY <1>1, <1>2

\* The frames that bypass the write buffer hold no packet.
LEMMA ServerFrames ==
  ASSUME NEW type \in {"open", "pong"}
  PROVE  << Frame(type, 0) >> \in Seq(Down) /\ Packets(<< Frame(type, 0) >>) = <<>>
<1> DEFINE f == Frame(type, 0)
<1>1. f \in Down /\ f.type # "packet"
  BY BoundAssumption DEF Frame, Down
<1> HIDE DEF f
<1>2. << f >> \in Seq(Down)
  BY <1>1
<1>3. Packets(<< f >>) = <<>>
  BY <1>1, PacketsOfOne
<1> QED
  BY <1>2, <1>3 DEF f

\* The first of the frames and the rest.
LEMMA PacketsHead ==
  ASSUME NEW fs \in Seq(Down), fs # <<>>
  PROVE  Packets(fs) = IF Head(fs).type = "packet" THEN << Head(fs).n >> \o Packets(Tail(fs))
                       ELSE Packets(Tail(fs))
<1>1. Head(fs) \in Down /\ Tail(fs) \in Seq(Down) /\ fs = << Head(fs) >> \o Tail(fs)
  OBVIOUS
<1>2. << Head(fs) >> \in Seq(Down)
  BY <1>1
<1>3. Packets(fs) = Packets(<< Head(fs) >>) \o Packets(Tail(fs)) /\ Packets(Tail(fs)) \in Seq(1..MaxPackets)
  BY <1>1, <1>2, PacketsConcat
<1>4. CASE Head(fs).type = "packet"
  BY <1>1, <1>3, <1>4, PacketsOfOne
<1>5. CASE Head(fs).type # "packet"
  <2>1. Packets(<< Head(fs) >>) = <<>>
    BY <1>1, <1>5, PacketsOfOne
  <2> QED
    BY <1>3, <1>5, <2>1
<1> QED
  BY <1>4, <1>5

---------------------------------------------------------------------------
(* The order of packets over both transports.                              *)

\* Where the transports write: polling answers on the connection for polls,
\* the websocket is the one that the upgrade request opened.
Ways ==
  /\ proto[GetConn] = "http"
  /\ parked[Poll] => resp[Poll] = GetConn
  /\ kind[Web] # "none" =>
       kind[Web] = "websocket" /\ wsConn[Web] = WebConn /\ proto[WebConn] = "ws"
  /\ upgraded[S] => kind[Web] # "none"

\* Every packet made is with the client, on its way or in the write buffer, in
\* order: over the websocket only once the session has moved to it.
InTurn == received \o answer \o Packets(down) \o buffer[S] = Upto(made[S])
Seamless ==
  /\ Fresh(S) =>
       /\ transport[S] = NoTran /\ made[S] = 0
       /\ buffer[S] = <<>> /\ wire[S] = <<>> /\ received = <<>> /\ answer = <<>>
  /\ ~upgraded[S] => Packets(down) = <<>>
  /\ ~binary[Poll] => InTurn

\* What is written behind w is the end of what has been written.
LEMMA WrittenBehind ==
  ASSUME NEW A, NEW a \in Seq(A), NEW b \in Seq(A)
  PROVE  SubSeq(a \o b, Len(a) + 1, Len(a \o b)) = b
<1> DEFINE r == SubSeq(a \o b, Len(a) + 1, Len(a \o b))
<1>1. /\ a \o b \in Seq(A) /\ Len(a \o b) = Len(a) + Len(b)
      /\ Len(a) \in Nat /\ Len(b) \in Nat
      /\ \A k \in 1..Len(b) : (a \o b)[Len(a) + k] = b[k]
  OBVIOUS
<1>2. /\ \A k \in (Len(a) + 1)..Len(a \o b) : (a \o b)[k] \in A
      /\ Len(a) + 1 \in Int /\ Len(a \o b) \in Int
  OBVIOUS
<1>3. /\ r \in Seq(A) /\ Len(r) = Len(b)
      /\ \A k \in 1..Len(b) : r[k] = (a \o b)[Len(a) + k]
  <2>1. /\ r \in Seq(A)
        /\ Len(r) = IF Len(a) + 1 <= Len(a \o b) THEN Len(a \o b) - (Len(a) + 1) + 1 ELSE 0
        /\ \A k \in 1..(Len(a \o b) - (Len(a) + 1) + 1) : r[k] = (a \o b)[Len(a) + 1 + k - 1]
    BY <1>2, SubSeqProperties
  <2>2. Len(r) = Len(b) /\ Len(a \o b) - (Len(a) + 1) + 1 = Len(b)
    BY <1>1, <2>1
  <2>3. \A k \in 1..Len(b) : Len(a) + 1 + k - 1 = Len(a) + k
    BY <1>1
  <2> HIDE DEF r
  <2> QED
    BY <2>1, <2>2, <2>3
<1> HIDE DEF r
<1>4. r = b
  BY <1>1, <1>3, SeqEqual
<1> QED
  BY <1>4 DEF r

\* A flush writes all of ps, or leaves it in the write buffer.
LEMMA FlushWrites ==
  ASSUME TypeOK, NEW ps \in Seq(1..MaxPackets), NEW c, NEW w, NEW p, NEW new,
         Flush(S, ps, c, w, p, new),
         CanFlush(w, ps) =>
           Sends(c) /\ Encoded(kind[transport[S]], binary[transport[S]], ps) = ps
  PROVE  \/ Sent = ps /\ buffer'[S] = <<>>
         \/ Sent = <<>> /\ buffer'[S] = ps
<1>0. /\ S \in Sockets /\ wire[S] \in Seq(1..MaxPackets) /\ buffer \in [Sockets -> Seq(1..MaxPackets)]
      /\ wire \in [Sockets -> Seq(1..MaxPackets)]
  BY HandoverAssumption DEF TypeOK
<1>1. CASE CanFlush(w, ps)
  <2>1. wire'[S] = wire[S] \o ps /\ buffer'[S] = <<>>
    BY <1>0, <1>1 DEF Flush, Remaining
  <2>2. Sent = ps
    BY <1>0, <2>1, WrittenBehind DEF Sent
  <2> QED
    BY <2>1, <2>2
<1>2. CASE ~CanFlush(w, ps)
  <2>1. wire'[S] = wire[S] /\ buffer'[S] = ps
    BY <1>0, <1>2 DEF Flush, Remaining
  <2>2. wire[S] \o <<>> = wire[S]
    BY <1>0
  <2>3. PICK e \in Seq(1..MaxPackets) : e = <<>>
    BY SeqTypes
  <2>4. SubSeq(wire[S] \o e, Len(wire[S]) + 1, Len(wire[S] \o e)) = e
    BY <1>0, WrittenBehind
  <2>5. Sent = <<>>
    BY <2>1, <2>2, <2>3, <2>4 DEF Sent
  <2> QED
    BY <2>1, <2>5
<1> QED
  BY <1>1, <1>2

\* A reply puts what is written behind the packets on their way.
LEMMA ReplyTail ==
  ASSUME TypeOK, TypeOK', Net, OnePoll, NEW first \in Seq(Down), Packets(first) = <<>>,
         Reply(first), transport[S] # Web => ~upgraded[S], ~upgraded[S] => Packets(down) = <<>>
  PROVE  /\ answer' \in Seq(1..MaxPackets) /\ Packets(down') \in Seq(1..MaxPackets)
         /\ transport[S] # Web => answer' = answer \o Sent /\ Packets(down') = <<>>
         /\ transport[S] = Web => answer' = answer /\ Packets(down') = Packets(down) \o Sent
<1>1. Sent \in Seq(1..MaxPackets) /\ answer \in Seq(1..MaxPackets) /\ down \in Seq(Down)
  BY SentType DEF Net
<1>2. down \o first \in Seq(Down) /\ Packets(down \o first) = Packets(down)
  <2>1. down \o first \in Seq(Down)
    BY <1>1, SeqTypes
  <2>2. Packets(down \o first) = Packets(down) \o Packets(first) /\ Packets(down) \in Seq(1..MaxPackets)
    BY <1>1, PacketsConcat
  <2> QED
    BY <2>1, <2>2
<1>3. CASE transport[S] = Web
  <2>1. down' = down \o first \o Frames("packet", Sent) /\ answer' = answer
    BY <1>3 DEF Reply
  <2>2. Frames("packet", Sent) \in Seq(Down) /\ Packets(Frames("packet", Sent)) = Sent
    BY <1>1, FramesTypes, PacketsOfFrames
  <2>3. Packets(down') = Packets(down) \o Sent /\ down' \in Seq(Down)
    BY <1>2, <2>1, <2>2, PacketsConcat, SeqTypes
  <2>4. Packets(down) \o Sent \in Seq(1..MaxPackets)
    BY <1>1, PacketsConcat, SeqTypes
  <2> QED
    BY <1>1, <1>3, <2>1, <2>3, <2>4
<1>4. CASE transport[S] # Web
  <2>1. down' = down \o first \o <<>> /\ answer' = answer \o Sent
    BY <1>4 DEF Reply
  <2>2. down' = down \o first
    BY <1>2, <2>1
  <2>3. Packets(down') = Packets(down)
    BY <1>2, <2>2
  <2>4. answer \o Sent \in Seq(1..MaxPackets)
    BY <1>1, SeqTypes
  <2>5. Packets(down) = <<>> /\ <<>> \in Seq(1..MaxPackets)
    BY <1>4, SeqTypes
  <2> QED
    BY <1>4, <2>1, <2>3, <2>4, <2>5
<1> QED
  BY <1>3, <1>4

\* Once the session has moved no answer is on its way.
LEMMA MovedNoAnswer == Joint /\ OnePoll /\ upgraded[S] => answer = <<>>
BY DEF Joint, Net, OnePoll

\* So what was on its way and in the buffer is followed by what was added.
LEMMA FlushInTurn ==
  ASSUME Joint, TypeOK', OnePoll, Setup, Seamless, ~Fresh(S),
         NEW first \in Seq(Down), Packets(first) = <<>>, Reply(first),
         NEW ps \in Seq(1..MaxPackets),
         \/ Sent = ps /\ buffer'[S] = <<>>
         \/ Sent = <<>> /\ buffer'[S] = ps
  PROVE  received \o answer' \o Packets(down') \o buffer'[S]
           = received \o answer \o Packets(down) \o ps
<1> DEFINE r == received
           a == answer
           d == Packets(down)
<1>0. TypeOK /\ Net /\ Poll # Web
  BY HandoverAssumption DEF Joint, IInv
<1>1. /\ r \in Seq(1..MaxPackets) /\ a \in Seq(1..MaxPackets) /\ d \in Seq(1..MaxPackets)
  BY <1>0, PacketsConcat DEF Net
<1>2. transport[S] = (IF upgraded[S] THEN Web ELSE Poll) /\ (~upgraded[S] => d = <<>>)
      /\ (upgraded[S] => a = <<>>)
  BY MovedNoAnswer DEF Setup, Seamless
<1>3. /\ transport[S] # Web => answer' = a \o Sent /\ Packets(down') = <<>>
      /\ transport[S] = Web => answer' = a /\ Packets(down') = d \o Sent
  BY <1>0, <1>2, ReplyTail
<1> HIDE DEF r, a, d
<1>4. /\ r \o a \in Seq(1..MaxPackets) /\ r \o a \o d \in Seq(1..MaxPackets)
      /\ a \o <<>> = a /\ d \o <<>> = d /\ ps \o <<>> = ps
  BY <1>1, SeqTypes
<1>5. CASE Sent = ps /\ buffer'[S] = <<>>
  <2>1. CASE upgraded[S]
    <3>1. r \o answer' \o Packets(down') \o buffer'[S] = r \o a \o (d \o ps) \o <<>>
      BY <1>2, <1>3, <1>5, <2>1
    <3>2. (r \o a) \o (d \o ps) = r \o a \o d \o ps
      BY <1>1, <1>4, SMTT(30)
    <3>3. r \o a \o d \o ps \in Seq(1..MaxPackets)
      BY <1>4, SeqTypes
    <3>4. (r \o a \o d \o ps) \o <<>> = r \o a \o d \o ps
      BY <3>3
    <3> QED
      BY <3>1, <3>2, <3>4 DEF r, a, d
  <2>2. CASE ~upgraded[S]
    <3>1. r \o answer' \o Packets(down') \o buffer'[S] = r \o (a \o ps) \o <<>> \o <<>>
      BY <1>0, <1>2, <1>3, <1>5, <2>2
    <3>2. r \o (a \o ps) = (r \o a) \o ps /\ (r \o a) \o ps \in Seq(1..MaxPackets)
      BY <1>1, <1>4, SeqTypes, SMTT(30)
    <3>3. r \o (a \o ps) \o <<>> \o <<>> = (r \o a) \o ps
      BY <3>2
    <3>4. r \o a \o d \o ps = (r \o a) \o ps
      <4>1. (r \o a) \o <<>> = r \o a
        BY <1>4
      <4> QED
        BY <1>2, <2>2, <4>1
    <3> QED
      BY <3>1, <3>3, <3>4 DEF r, a, d
  <2> QED
    BY <2>1, <2>2
<1>6. CASE Sent = <<>> /\ buffer'[S] = ps
  <2>1. answer' = a /\ Packets(down') = d
    BY <1>0, <1>2, <1>3, <1>4, <1>6
  <2> QED
    BY <1>6, <2>1 DEF r, a, d
<1> QED
  BY <1>5, <1>6

\* Sending, the packet goes behind those made before it.
LEMMA SendSeamless ==
  ASSUME Joint, TypeOK', OnePoll, Setup, Ways, Seamless,
         NEW s \in Sockets, Live(s), CreateAndSendPacket(s),
         NEW first \in Seq(Down), Packets(first) = <<>>, Reply(first),
         UNCHANGED <<identVars, tranVars, resp, wsConn, proto, received>>
  PROVE  Ways' /\ Seamless'
<1>0. /\ S \in Sockets /\ Poll \in Trans /\ Web \in Trans /\ Poll # Web /\ GetConn \in Conns
      /\ WebConn \in Conns /\ TypeOK /\ Objects /\ Polls /\ Net /\ MaxPackets \in Nat
      /\ made[S] \in 0..MaxPackets /\ buffer[S] \in Seq(1..MaxPackets)
  BY HandoverAssumption, BoundAssumption DEF Joint, IInv, TypeOK
<1>1. s = S
  BY <1>0, NoneAssumption DEF Setup, Live
<1>2. ~Fresh(S) /\ transport[S] \in Trans /\ kind[transport[S]] # "none"
  BY <1>0, <1>1, LiveIsCreated
<1> DEFINE t == transport[S]
           ps == Append(buffer[S], made[S] + 1)
<1>3. /\ made[S] < MaxPackets /\ made'[S] = made[S] + 1
      /\ Flush(S, ps, Out(t), writable[t], parked[t], 0)
  BY <1>0, <1>1 DEF CreateAndSendPacket, TypeOK
<1>4. ps \in Seq(1..MaxPackets)
  BY <1>0, <1>3
<1>5. t = (IF upgraded[S] THEN Web ELSE Poll) /\ (~upgraded[S] => kind[Poll] = "xhr")
  BY <1>2 DEF Setup
<1>6. parked'[Poll] => parked[Poll]
  BY <1>0, <1>3, <1>5 DEF Flush, TypeOK
<1>7. Ways'
  BY <1>6 DEF Ways, tranVars, identVars
<1>8. ASSUME ~binary[Poll] PROVE InTurn'
  <2>1. ASSUME CanFlush(writable[t], ps)
        PROVE  Sends(Out(t)) /\ Encoded(kind[t], binary[t], ps) = ps
    <3>1. CASE upgraded[S]
      <4>1. t = Web /\ kind[Web] = "websocket" /\ wsConn[Web] = WebConn /\ proto[WebConn] = "ws"
        BY <1>5, <3>1 DEF Ways
      <4>2. WebConn # NoConn
        BY <1>0, NoneAssumption
      <4> HIDE DEF t, ps
      <4> QED
        BY <4>1, <4>2 DEF Out, Sends, Encoded
    <3>2. CASE ~upgraded[S]
      <4>1. t = Poll /\ kind[Poll] = "xhr"
        BY <1>5, <3>2
      <4>2. parked[Poll]
        BY <1>0, <2>1, <4>1 DEF CanFlush, Polls, WritableHasPoll
      <4>3. resp[Poll] = GetConn /\ proto[GetConn] = "http" /\ GetConn # NoConn
        BY <1>0, <4>2, NoneAssumption DEF Ways
      <4> HIDE DEF t, ps
      <4> QED
        BY <1>8, <4>1, <4>3 DEF Out, Sends, Encoded
    <3> QED
      BY <3>1, <3>2
  <2>2. \/ Sent = ps /\ buffer'[S] = <<>>
        \/ Sent = <<>> /\ buffer'[S] = ps
    <3> HIDE DEF ps
    <3> QED
      BY <1>0, <1>3, <1>4, <2>1, FlushWrites
  <2>3. received \o answer' \o Packets(down') \o buffer'[S]
          = received \o answer \o Packets(down) \o ps
    <3> HIDE DEF ps, t
    <3> QED
      BY <1>2, <1>4, <2>2, FlushInTurn
  <2>4. received \o answer \o Packets(down) \o ps = Upto(made[S] + 1)
    <3> DEFINE q == received \o answer \o Packets(down)
    <3>1. received \in Seq(1..MaxPackets) /\ answer \in Seq(1..MaxPackets)
          /\ Packets(down) \in Seq(1..MaxPackets)
      BY <1>0, PacketsConcat DEF Net
    <3>2. q \in Seq(1..MaxPackets)
      BY <3>1, SeqTypes
    <3>3. q \o buffer[S] = Upto(made[S])
      BY <1>8 DEF Seamless, InTurn
    <3>4. q \in Seq(Nat) /\ buffer[S] \in Seq(Nat) /\ made[S] \in Nat
      BY <1>0, <3>2
    <3> HIDE DEF q
    <3>5. q \o Append(buffer[S], made[S] + 1) = Upto(made[S] + 1)
      BY <3>3, <3>4, OneMore
    <3> QED
      BY <3>5 DEF q
  <2> HIDE DEF ps
  <2> QED
    BY <1>3, <2>3, <2>4 DEF InTurn
<1>9. ~upgraded[S] => Packets(down') = <<>>
  <2>1. transport[S] # Web => ~upgraded[S]
    BY <1>5
  <2> QED
    BY <1>0, <1>5, <2>1, ReplyTail DEF Seamless
<1> QED
  BY <1>2, <1>7, <1>8, <1>9 DEF Seamless, Fresh, identVars, tranVars

\* A poll takes what waits in the buffer with it.
LEMMA PollSeamless ==
  ASSUME Joint, TypeOK', OnePoll, Setup, Ways, Seamless, PollArrives
  PROVE  Ways' /\ Seamless'
<1>0. /\ S \in Sockets /\ I \in Sids /\ Poll \in Trans /\ Web \in Trans /\ Poll # Web
      /\ GetConn \in Conns /\ TypeOK /\ Net /\ IInv /\ buffer[S] \in Seq(1..MaxPackets)
  BY HandoverAssumption DEF Joint, IInv, TypeOK
<1>1. /\ "get" \in requests /\ ~Fresh(S) /\ HandlePollRequest(GetConn, I) /\ Reply(<<>>)
      /\ UNCHANGED received
  BY DEF PollArrives, clientVars
<1>2. sockets[I] = S
  BY <1>0, <1>1 DEF HandlePollRequest, Verified, Setup
<1>3. ~upgraded[S]
  BY <1>1 DEF OnePoll, Joint, Net
<1>4. transport[S] = Poll /\ kind[Poll] = "xhr"
  <2>1. transport[S] = Poll
    BY <1>1, <1>3 DEF Setup
  <2> QED
    BY <1>0, <1>1, <2>1 DEF Setup, IInv, Objects
<1>5. /\ Flush(S, buffer[S], GetConn, TRUE, TRUE, 1)
      /\ resp' = [resp EXCEPT ![Poll] = GetConn]
      /\ UNCHANGED <<identVars, made, tranVars, wsConn, proto>>
  BY <1>1, <1>2, <1>4 DEF HandlePollRequest
<1>6. Ways'
  <2>1. resp'[Poll] = GetConn
    BY <1>0, <1>5 DEF TypeOK
  <2> QED
    BY <1>5, <2>1 DEF Ways, identVars, tranVars
<1>7. <<>> \in Seq(Down) /\ Packets(<<>>) = <<>>
  BY SeqTypes, PacketsOfOne
<1>8. PICK e \in Seq(Down) : e = <<>> /\ Packets(e) = <<>> /\ Reply(e)
  BY <1>1, <1>7
<1>9. ASSUME ~binary[Poll] PROVE InTurn'
  <2>1. Sends(GetConn) /\ Encoded(kind[transport[S]], binary[transport[S]], buffer[S]) = buffer[S]
    BY <1>0, <1>4, <1>9, NoneAssumption DEF Sends, Encoded, Ways
  <2>2. \/ Sent = buffer[S] /\ buffer'[S] = <<>>
        \/ Sent = <<>> /\ buffer'[S] = buffer[S]
    BY <1>0, <1>5, <2>1, FlushWrites
  <2>3. received \o answer' \o Packets(down') \o buffer'[S]
          = received \o answer \o Packets(down) \o buffer[S]
    BY <1>0, <1>1, <1>8, <2>2, FlushInTurn
  <2> QED
    BY <1>1, <1>5, <1>9, <2>3 DEF InTurn, Seamless
<1>10. Packets(down') = <<>>
  BY <1>0, <1>3, <1>4, <1>8, ReplyTail DEF Seamless
<1> QED
  BY <1>1, <1>5, <1>6, <1>9, <1>10 DEF Seamless, Fresh, identVars, tranVars

\* The handshake sends the open packet.
LEMMA HandshakeSeamless ==
  ASSUME Joint, TypeOK', OnePoll, Setup, Ways, Seamless,
         NEW b \in BOOLEAN, HandshakeArrives(b)
  PROVE  Ways' /\ Seamless'
<1>0. /\ S \in Sockets /\ Poll \in Trans /\ Web \in Trans /\ Poll # Web
      /\ GetConn \in Conns /\ TypeOK /\ Net
  BY HandoverAssumption DEF Joint, IInv
<1>1. /\ Fresh(S) /\ HandshakePolling(GetConn, S, Poll, "xhr", b) /\ Reply(<<>>)
      /\ UNCHANGED received
  BY DEF HandshakeArrives, clientVars
<1>2. /\ transport[S] = NoTran /\ made[S] = 0 /\ buffer[S] = <<>> /\ wire[S] = <<>>
      /\ received = <<>> /\ answer = <<>> /\ ~upgraded[S] /\ Packets(down) = <<>>
  BY <1>1 DEF Seamless, Setup
<1>3. /\ made'[S] = 1 /\ buffer' = buffer /\ upgraded' = upgraded /\ wire'[S] = << 1 >>
      /\ sidOf'[S] = sidNow
      /\ resp'[Poll] = GetConn /\ kind'[Web] = kind[Web] /\ UNCHANGED <<wsConn, proto>>
  BY <1>0, <1>1 DEF HandshakePolling, CreateSocket, TypeOK
<1>4. Ways'
  BY <1>3 DEF Ways
<1>5. Sent = << 1 >>
  <2>1. SubSeq(<<>> \o << 1 >>, Len(<<>>) + 1, Len(<<>> \o << 1 >>)) = << 1 >>
    <3>1. PICK e \in Seq(Nat) : e = <<>>
      BY SeqTypes
    <3>2. << 1 >> \in Seq(Nat)
      OBVIOUS
    <3>3. PICK f \in Seq(Nat) : f = << 1 >>
      BY <3>2
    <3>4. SubSeq(e \o f, Len(e) + 1, Len(e \o f)) = f
      BY WrittenBehind
    <3> QED
      BY <3>1, <3>3, <3>4
  <2>2. <<>> \o << 1 >> = << 1 >>
    OBVIOUS
  <2> QED
    BY <1>2, <1>3, <2>1, <2>2 DEF Sent
<1>6. PICK e \in Seq(Down) : e = <<>> /\ Packets(e) = <<>> /\ Reply(e)
  BY <1>1, SeqTypes, PacketsOfOne
<1>7. NoTran # Web
  BY <1>0, NoneAssumption
<1>8. answer' = answer \o Sent /\ Packets(down') = <<>>
  BY <1>0, <1>2, <1>6, <1>7, ReplyTail
<1>9. InTurn'
  <2>1. <<>> \o (<<>> \o << 1 >>) \o <<>> \o <<>> = << 1 >>
    OBVIOUS
  <2>2. Upto(1) = << 1 >>
    BY DEF Upto
  <2> QED
    BY <1>1, <1>2, <1>3, <1>5, <1>8, <2>1, <2>2 DEF InTurn
<1>10. ~Fresh(S)'
  BY <1>0, <1>3, NoneAssumption DEF Fresh, TypeOK
<1> QED
  BY <1>2, <1>3, <1>4, <1>8, <1>9, <1>10 DEF Seamless

\* What the client takes off the network it has received.
LEMMA ClientSeamless ==
  ASSUME Joint, OnePoll, Setup, Ways, Seamless, ClientNext
  PROVE  Ways' /\ Seamless'
<1>0. /\ UNCHANGED vars /\ received \in Seq(1..MaxPackets) /\ answer \in Seq(1..MaxPackets)
      /\ down \in Seq(Down) /\ Packets(down) \in Seq(1..MaxPackets)
  BY ClientLeavesServer, PacketsConcat DEF Joint, Net
<1>1. Ways' /\ (Fresh(S)' <=> Fresh(S))
      /\ UNCHANGED <<transport, made, buffer, wire, upgraded, binary>>
  BY <1>0 DEF Ways, Fresh, vars, identVars, queueVars, tranVars, pollVars, connVars
<1>2. CASE UNCHANGED <<received, answer, down>>
  BY <1>1, <1>2 DEF Seamless, InTurn
<1>3. CASE OnPollData
  <2>1. answer # <<>> /\ received' = received \o answer /\ answer' = <<>> /\ UNCHANGED down
    BY <1>3 DEF OnPollData
  <2>2. received \o answer \in Seq(1..MaxPackets)
    BY <1>0, SeqTypes
  <2>3. (received \o answer) \o <<>> = received \o answer
    BY <2>2
  <2>4. received' \o answer' \o Packets(down') = received \o answer \o Packets(down)
    BY <2>1, <2>3
  <2>5. ~Fresh(S)
    BY <2>1 DEF Seamless
  <2> QED
    BY <1>1, <2>1, <2>4, <2>5 DEF Seamless, InTurn
<1>4. CASE OnFrame
  <2>1. down # <<>> /\ down' = Tail(down) /\ UNCHANGED answer
    BY <1>4 DEF OnFrame
  <2>2. CASE Head(down).type = "packet"
    <3>1. received' = Append(received, Head(down).n)
      BY <1>4, <2>2 DEF OnFrame
    <3>2. Packets(down) = << Head(down).n >> \o Packets(down')
      BY <1>0, <2>1, <2>2, PacketsHead
    <3>3. /\ down' \in Seq(Down) /\ Packets(down') \in Seq(1..MaxPackets)
          /\ Head(down) \in Down
      BY <1>0, <2>1, SeqParts, PacketsConcat
    <3>4. Head(down).n \in 1..MaxPackets
      BY <2>2, <3>3, BoundAssumption DEF Down
    <3>5. Packets(down) # <<>>
      BY <3>2, <3>3, <3>4
    <3>6. upgraded[S] /\ ~Fresh(S) /\ answer = <<>>
      BY <3>5, MovedNoAnswer DEF Seamless, Setup
    <3>7. received' \o answer' \o Packets(down') = received \o answer \o Packets(down)
      <4>1. received \o answer = received
        BY <1>0, <3>6
      <4>2. received' \o answer' = received'
        BY <1>0, <2>1, <3>1, <3>4, <3>6
      <4>3. Append(received, Head(down).n) \o Packets(down')
              = received \o (<< Head(down).n >> \o Packets(down'))
        BY <1>0, <3>3, <3>4, SMTT(30)
      <4> QED
        BY <3>1, <3>2, <4>1, <4>2, <4>3
    <3> QED
      BY <1>1, <3>6, <3>7 DEF Seamless, InTurn
  <2>3. CASE Head(down).type # "packet"
    <3>1. received' = received
      BY <1>4, <2>3 DEF OnFrame
    <3>2. Packets(down') = Packets(down)
      BY <1>0, <2>1, <2>3, PacketsHead
    <3> QED
      BY <1>1, <2>1, <3>1, <3>2 DEF Seamless, InTurn
  <2> QED
    BY <2>2, <2>3
<1>5. CASE Write \/ Ping \/ OnPostOk \/ OnPostError \/ PingTimeout
  BY <1>2, <1>5 DEF Write, Ping, SendPacket, OnPostOk, OnPostError, PingTimeout, Close
<1> QED
  BY <1>3, <1>4, <1>5 DEF ClientNext

\* The other steps of the server neither make packets nor move any.
LEMMA QuietSeamless ==
  ASSUME Joint, OnePoll, Setup, Ways, Seamless,
         UNCHANGED <<sidOf, queueVars, binary, received, answer>>,
         ~Fresh(S) \/ UNCHANGED transport,
         upgraded[S] => upgraded'[S],
         Packets(down') = Packets(down), Ways'
  PROVE  Seamless'
BY DEF Seamless, InTurn, Fresh, queueVars

\* What arrives at the server keeps the order.
LEMMA ServerSeamless ==
  ASSUME Joint, TypeOK', OnePoll, Setup, Ways, Seamless, ServerNext
  PROVE  Ways' /\ Seamless'
<1>0. /\ S \in Sockets /\ I \in Sids /\ Poll \in Trans /\ Web \in Trans /\ Poll # Web
      /\ GetConn \in Conns /\ WebConn \in Conns /\ GetConn # WebConn /\ IInv /\ TypeOK
      /\ down \in Seq(Down)
  BY HandoverAssumption DEF Joint, IInv, Net
<1>1. UNCHANGED received
  BY DEF ServerNext, HandshakeArrives, PollArrives, PostArrives, UpgradeArrives,
         ProbeArrives, UpgradePacketArrives, MessageArrives, CloseArrives, ServerSends, clientVars
<1>2. PICK none \in Seq(Down) : none = <<>> /\ Packets(none) = <<>>
  BY SeqTypes, PacketsOfOne
<1>3. ASSUME NEW b \in BOOLEAN, HandshakeArrives(b) PROVE Ways' /\ Seamless'
  BY <1>3, HandshakeSeamless
<1>4. CASE PollArrives
  BY <1>4, PollSeamless
<1>5. CASE PostArrives
  <2>1. UNCHANGED <<vars, answer, down>>
    BY <1>5 DEF PostArrives, AnswerAtOnce
  <2>2. Ways'
    BY <2>1 DEF Ways, vars, identVars, tranVars, pollVars, connVars
  <2> QED
    BY <1>1, <2>1, <2>2, QuietSeamless DEF vars, identVars, tranVars
<1>6. CASE UpgradeArrives
  <2>1. /\ MaybeUpgrade(WebConn, I, Web, TRUE, "websocket")
        /\ down' = Append(down, Frame("open", 0)) /\ UNCHANGED answer
    BY <1>6 DEF UpgradeArrives
  <2>2. UNCHANGED <<sidOf, transport, upgraded, queueVars, binary, parked>>
    BY <2>1 DEF MaybeUpgrade, Attach
  <2>3. /\ kind' = [kind EXCEPT ![Web] = "websocket"]
        /\ wsConn' = [wsConn EXCEPT ![Web] = WebConn]
        /\ proto' = [proto EXCEPT ![WebConn] = "ws"]
        /\ resp' = [resp EXCEPT ![Web] = NoConn]
    BY <2>1 DEF MaybeUpgrade, Attach, PollingKinds
  <2>4. Ways'
    BY <1>0, <2>2, <2>3 DEF Ways, TypeOK
  <2>5. Packets(down') = Packets(down)
    <3>1. Packets(<< Frame("open", 0) >>) = <<>> /\ << Frame("open", 0) >> \in Seq(Down)
      BY ServerFrames
    <3>3. down' = down \o << Frame("open", 0) >>
      BY <1>0, <2>1
    <3>4. Packets(down') = Packets(down) \o <<>> /\ Packets(down) \in Seq(1..MaxPackets)
      BY <1>0, <3>1, <3>3, PacketsConcat
    <3> QED
      BY <3>4
  <2> QED
    BY <1>1, <2>1, <2>2, <2>4, <2>5, QuietSeamless
<1>7. CASE ProbeArrives
  <2>1. PICK s \in Sockets : Owns(s, Web) /\ CreateAndSendPacket(s)
    BY <1>7 DEF ProbeArrives, OnProbe
  <2>2. /\ UNCHANGED <<identVars, tranVars, resp, wsConn, proto, received>>
        /\ Reply(<< Frame("pong", 0) >>)
    BY <1>1, <1>7 DEF ProbeArrives, OnProbe
  <2>3. << Frame("pong", 0) >> \in Seq(Down) /\ Packets(<< Frame("pong", 0) >>) = <<>>
    BY ServerFrames
  <2> QED
    BY <2>1, <2>2, <2>3, SendSeamless DEF Owns
<1>8. CASE MessageArrives
  <2>1. PICK s \in Sockets : Owns(s, Web) /\ CreateAndSendPacket(s)
    BY <1>8 DEF MessageArrives, OnPacket
  <2>2. UNCHANGED <<identVars, tranVars, resp, wsConn, proto, received>> /\ Reply(none)
    BY <1>1, <1>2, <1>8 DEF MessageArrives, OnPacket
  <2> QED
    BY <1>2, <2>1, <2>2, SendSeamless DEF Owns
<1>9. CASE ServerSends
  <2>1. /\ Live(S) /\ CreateAndSendPacket(S) /\ Reply(none)
        /\ UNCHANGED <<identVars, tranVars, resp, wsConn, proto, received>>
    BY <1>1, <1>2, <1>9 DEF ServerSends, SendMessage, Live
  <2> QED
    BY <1>0, <1>2, <2>1, SendSeamless
<1>10. CASE UpgradePacketArrives
  <2>1. OnUpgrade(Web) /\ UNCHANGED <<answer, down>>
    BY <1>10 DEF UpgradePacketArrives
  <2>2. UNCHANGED <<sidOf, queueVars, kind, binary, pollVars, connVars>>
    BY <2>1 DEF OnUpgrade
  <2>3. PICK s \in Sockets : Owns(s, Web) /\ upgraded' = [upgraded EXCEPT ![s] = TRUE]
    BY <2>1 DEF OnUpgrade
  <2>4. s = S /\ ~Fresh(S) /\ upgraded'[S]
    <3>1. s = S
      BY <2>3, NoneAssumption DEF Setup, Owns, Live
    <3> QED
      BY <1>0, <2>3, <3>1, LiveIsCreated DEF Owns, IInv, TypeOK
  <2>5. kind[Web] # "none"
    BY <1>0, <2>1 DEF OnUpgrade, IInv, Objects
  <2>6. Ways'
    BY <2>2, <2>5 DEF Ways, pollVars, connVars
  <2> QED
    BY <1>1, <2>1, <2>2, <2>4, <2>6, QuietSeamless
<1>11. CASE CloseArrives
  <2>1. UNCHANGED <<identVars, queueVars, tranVars, pollVars, connVars, answer, down>>
    BY <1>11 DEF CloseArrives, OnCloseMessage
  <2>2. Ways'
    BY <2>1 DEF Ways, identVars, tranVars, pollVars, connVars
  <2> QED
    BY <1>1, <2>1, <2>2, QuietSeamless DEF identVars, tranVars
<1> QED
  BY <1>3, <1>4, <1>5, <1>6, <1>7, <1>8, <1>9, <1>10, <1>11 DEF ServerNext

\* The upgrade neither loses nor repeats nor reorders a packet, whenever it
\* takes place: until it does nothing goes over the websocket, and when it
\* does no answer to a poll is on its way.
THEOREM MovesSeamlessly == HandoverSpec => []HandoverIsSeamless
<1> DEFINE Inv == Setup /\ OnePoll /\ Ways /\ Seamless
<1>1. HandoverInit => Inv
  <2> SUFFICES ASSUME HandoverInit PROVE Inv
    OBVIOUS
  <2>1. Setup /\ OnePoll /\ Fresh(S) /\ ~upgraded[S]
    BY HandoverAssumption DEF HandoverInit, Init, Setup, OnePoll, Fresh
  <2>2. Ways
    BY HandoverAssumption DEF HandoverInit, Init, Ways
  <2>3. /\ transport[S] = NoTran /\ made[S] = 0 /\ buffer[S] = <<>> /\ wire[S] = <<>>
        /\ received = <<>> /\ answer = <<>> /\ down = <<>>
    BY HandoverAssumption DEF HandoverInit, Init
  <2>4. Packets(down) = <<>>
    BY <2>3, PacketsOfOne
  <2>5. InTurn
    <3>1. <<>> \o <<>> \o <<>> \o <<>> = <<>> /\ Upto(0) = <<>>
      BY DEF Upto
    <3> QED
      BY <2>3, <2>4, <3>1 DEF InTurn
  <2> QED
    BY <2>1, <2>2, <2>3, <2>4, <2>5 DEF Seamless
<1>2. Joint /\ Joint' /\ Inv /\ [HandoverNext]_handoverVars => Inv'
  <2> SUFFICES ASSUME Joint, Joint', Setup, OnePoll, Ways, Seamless, [HandoverNext]_handoverVars
               PROVE  Inv'
    OBVIOUS
  <2>1. TypeOK'
    BY DEF Joint, IInv
  <2>2. CASE UNCHANGED handoverVars
    BY <2>2 DEF Setup, Fresh, OnePoll, Ways, Seamless, InTurn, handoverVars, vars, serverVars,
                identVars, queueVars, tranVars, pollVars, connVars, clientVars, netVars
  <2>3. CASE ClientNext
    BY <2>3, ClientOnePoll, ClientSeamless
  <2>4. CASE ServerNext
    BY <2>1, <2>4, ServerOnePoll, ServerSeamless
  <2> QED
    BY <2>2, <2>3, <2>4 DEF HandoverNext
<1>3. Inv => HandoverIsSeamless
  BY DEF Seamless, InTurn, HandoverIsSeamless, Upto
<1> QED
  BY <1>1, <1>2, <1>3, JointInvariant, PTL DEF HandoverSpec
=============================================================================
