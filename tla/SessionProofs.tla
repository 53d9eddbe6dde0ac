--------------------------- MODULE SessionProofs ---------------------------
(***************************************************************************)
(* Theorems about Session, for every choice of its constants: its types,   *)
(* the polling discipline (every request answered at most once), that the  *)
(* transport in use has its callbacks, and what is delivered: Session      *)
(* implements Delivery, and loses nothing while connections stay up.       *)
(***************************************************************************)
EXTENDS Session, TLAPS

\* What exists: a Socket that was created has a transport object, sockets_ and
\* the application point to created Sockets only, an object not yet created
\* holds nothing, and a websocket never has a poll.
Objects ==
  /\ \A s \in Sockets : ~Fresh(s) => transport[s] \in Trans /\ kind[transport[s]] # "none"
  /\ \A i \in Sids : sockets[i] # NoSocket => ~Fresh(sockets[i])
  /\ \A s \in held : ~Fresh(s)
  /\ \A t \in Trans : kind[t] = "none" => ~parked[t] /\ ~writable[t] /\ onPacket[t] = "none"
  /\ \A t \in Trans : kind[t] = "websocket" => ~parked[t]

\* The inductive invariant behind AnsweredOnce and CurrentIsBound.
Polls == AnsweredOnce /\ ParkedPollIsAwaited /\ WritableHasPoll
IInv == TypeOK /\ Objects /\ Polls /\ CurrentIsBound

---------------------------------------------------------------------------
(* Facts about single operators.                                           *)

\* Updating a function at one point keeps its type.
LEMMA ExceptType ==
  ASSUME NEW D, NEW S, NEW f \in [D -> S], NEW d \in D, NEW v \in S
  PROVE  [f EXCEPT ![d] = v] \in [D -> S]
  OBVIOUS

\* The empty sequence and a concatenation are sequences.
LEMMA SeqTypes ==
  ASSUME NEW S
  PROVE  <<>> \in Seq(S) /\ \A a, b \in Seq(S) : a \o b \in Seq(S)
  OBVIOUS

\* The application and sockets_ hold created Sockets only.
LEMMA LiveIsCreated ==
  ASSUME TypeOK, Objects, NEW s \in Sockets, Live(s)
  PROVE  ~Fresh(s) /\ transport[s] \in Trans /\ kind[transport[s]] # "none"
<1>1. ~Fresh(s)
  BY NoneAssumption DEF TypeOK, Objects, Live
<1> QED
  BY <1>1 DEF Objects

\* What an encoder returns is a sequence of the packets it was given.
LEMMA EncodedType ==
  ASSUME NEW k, NEW bin, NEW S, NEW ps \in Seq(S), ps # <<>>
  PROVE  Encoded(k, bin, ps) \in Seq(S)
<1>1. ps[Len(ps)] \in S
  OBVIOUS
<1> QED
  BY <1>1 DEF Encoded

\* Flush keeps the types of everything it writes.
LEMMA FlushType ==
  ASSUME TypeOK,
         NEW s \in Sockets, transport[s] \in Trans,
         NEW ps \in Seq(1..MaxPackets),
         NEW c \in Conns \cup {NoConn}, NEW w \in BOOLEAN, NEW p \in BOOLEAN,
         NEW new \in {0, 1},
         Flush(s, ps, c, w, p, new)
  PROVE  /\ buffer' \in [Sockets -> Seq(1..MaxPackets)]
         /\ wire' \in [Sockets -> Seq(1..MaxPackets)]
         /\ writable' \in [Trans -> BOOLEAN]
         /\ parked' \in [Trans -> BOOLEAN]
         /\ pending' \in [Conns -> Int]
<1> DEFINE t == transport[s]
           flushing == CanFlush(w, ps)
<1>1. buffer' \in [Sockets -> Seq(1..MaxPackets)]
  <2>1. buffer \in [Sockets -> Seq(1..MaxPackets)]
    BY DEF TypeOK
  <2>2. buffer' = [buffer EXCEPT ![s] = Remaining(flushing, ps)]
    BY DEF Flush
  <2>3. Remaining(flushing, ps) \in Seq(1..MaxPackets)
    BY SeqTypes DEF Remaining
  <2> QED
    BY <2>1, <2>2, <2>3, ExceptType
<1>2. wire' \in [Sockets -> Seq(1..MaxPackets)]
  <2>1. flushing => Encoded(kind[t], binary[t], ps) \in Seq(1..MaxPackets)
    BY EncodedType DEF CanFlush
  <2>2. wire[s] \in Seq(1..MaxPackets)
    BY DEF TypeOK
  <2>3. wire' = [wire EXCEPT ![s] =
          IF flushing /\ Sends(c) THEN @ \o Encoded(kind[t], binary[t], ps) ELSE @]
    BY DEF Flush
  <2>4. (IF flushing /\ Sends(c) THEN wire[s] \o Encoded(kind[t], binary[t], ps)
         ELSE wire[s]) \in Seq(1..MaxPackets)
    BY <2>1, <2>2, SeqTypes
  <2>5. wire \in [Sockets -> Seq(1..MaxPackets)]
    BY DEF TypeOK
  <2> QED
    BY <2>3, <2>4, <2>5, ExceptType
<1>3. writable' \in [Trans -> BOOLEAN]
  BY DEF TypeOK, Flush, WritableAfter, CanFlush
<1>4. parked' \in [Trans -> BOOLEAN]
  BY DEF TypeOK, Flush, ParkedAfter, CanFlush
<1>5. pending' \in [Conns -> Int]
  BY DEF TypeOK, Flush
<1> QED
  BY <1>1, <1>2, <1>3, <1>4, <1>5

\* Flush keeps the polling discipline, when the transport of s writes to c and
\* has a poll (p) only if c awaits exactly one response, from nobody else.
LEMMA FlushPolls ==
  ASSUME TypeOK, Polls, Objects,
         NEW s \in Sockets, transport[s] \in Trans,
         NEW ps \in Seq(1..MaxPackets),
         NEW c \in Conns \cup {NoConn}, NEW w \in BOOLEAN, NEW p \in BOOLEAN,
         NEW new \in {0, 1},
         Flush(s, ps, c, w, p, new),
         UNCHANGED <<kind, proto>>,
         resp' \in [Trans -> Conns \cup {NoConn}],
         \A u \in Trans : u # transport[s] => resp'[u] = resp[u],
         p => resp'[transport[s]] = c,
         p => /\ c # NoConn /\ proto[c] \in {"http", "closed"}
              /\ pending[c] + new = 1
              /\ \A u \in Trans : u # transport[s] /\ parked[u] => resp[u] # c,
         kind[transport[s]] = "xhr" => w = p,
         kind[transport[s]] = "none" => ~w /\ ~p,
         kind[transport[s]] = "websocket" => ~p,
         ~p => new = 0
  PROVE  /\ Polls'
         /\ kind[transport[s]] = "websocket" => ~parked'[transport[s]]
         /\ \A u \in Trans : u # transport[s] =>
              parked'[u] = parked[u] /\ writable'[u] = writable[u]
<1> DEFINE t == transport[s]
           flushing == CanFlush(w, ps)
           answers == flushing /\ kind[t] = "xhr" /\ Sends(c)
<1>1. /\ writable' = [writable EXCEPT ![t] =
                        IF flushing THEN WritableAfter(kind[t]) ELSE w]
      /\ parked' = [parked EXCEPT ![t] = p /\ (flushing => ParkedAfter(kind[t]))]
      /\ \A x \in Conns : pending'[x] =
           IF x = c THEN pending[x] + new - (IF answers THEN 1 ELSE 0) ELSE pending[x]
  BY DEF Flush
<1>2. \A u \in Trans : u # t => parked'[u] = parked[u] /\ writable'[u] = writable[u]
  BY <1>1 DEF TypeOK
<1>3. parked'[t] = (p /\ (flushing => ParkedAfter(kind[t])))
  BY <1>1 DEF TypeOK
<1>4. writable'[t] = IF flushing THEN WritableAfter(kind[t]) ELSE w
  BY <1>1 DEF TypeOK
<1>5. parked'[t] => p /\ ~answers
  BY <1>3 DEF ParkedAfter
<1>6. answers => p
  BY DEF CanFlush
<1>7. AnsweredOnce'
  BY <1>1, <1>6 DEF Polls, AnsweredOnce
<1>8. WritableHasPoll'
  <2>1. ASSUME NEW u \in Trans, kind[u] = "xhr" PROVE writable'[u] = parked'[u]
    <3>1. CASE u = t
      BY <1>3, <1>4, <2>1, <3>1 DEF WritableAfter, ParkedAfter
    <3>2. CASE u # t
      BY <1>2, <2>1, <3>2 DEF Polls, WritableHasPoll
    <3> QED
      BY <3>1, <3>2
  <2> QED
    BY <2>1 DEF WritableHasPoll
<1>9. ParkedPollIsAwaited'
  <2> SUFFICES ASSUME NEW u \in Trans, parked'[u]
               PROVE  /\ resp'[u] # NoConn
                      /\ proto[resp'[u]] \in {"http", "closed"}
                      /\ pending'[resp'[u]] = 1
                      /\ \A v \in Trans : parked'[v] /\ resp'[v] = resp'[u] => v = u
    BY DEF ParkedPollIsAwaited
  <2>1. CASE u = t
    <3>1. p /\ ~answers /\ resp'[u] = c /\ c \in Conns
      BY <1>5, <2>1
    <3>2. pending'[c] = 1
      BY <1>1, <3>1
    <3>3. \A v \in Trans : v # t /\ parked'[v] => resp'[v] # c
      BY <1>2, <3>1
    <3> QED
      BY <2>1, <3>1, <3>2, <3>3
  <2>2. CASE u # t
    <3>1. parked[u] /\ resp'[u] = resp[u]
      BY <1>2, <2>2
    <3>2. /\ resp[u] \in Conns
          /\ proto[resp[u]] \in {"http", "closed"}
          /\ pending[resp[u]] = 1
          /\ \A v \in Trans : parked[v] /\ resp[v] = resp[u] => v = u
      BY <3>1 DEF Polls, ParkedPollIsAwaited, TypeOK
    <3>3. p => resp[u] # c
      BY <2>2, <3>1
    <3>4. pending'[resp[u]] = 1
      BY <1>1, <1>6, <3>2, <3>3
    <3>5. \A v \in Trans : parked'[v] /\ resp'[v] = resp[u] => v = u
      <4>1. ASSUME NEW v \in Trans, parked'[v], resp'[v] = resp[u], v # u PROVE FALSE
        <5>1. CASE v = t
          BY <1>5, <3>3, <4>1, <5>1
        <5>2. CASE v # t
          BY <1>2, <3>2, <4>1, <5>2
        <5> QED
          BY <5>1, <5>2
      <4> QED
        BY <4>1
    <3> QED
      BY <3>1, <3>2, <3>4, <3>5, NoneAssumption
  <2> QED
    BY <2>1, <2>2
<1> QED
  BY <1>2, <1>3, <1>7, <1>8, <1>9 DEF Polls

---------------------------------------------------------------------------
(* Each action keeps the invariant.                                        *)

LEMMA InitIInv == Init => IInv
<1> SUFFICES ASSUME Init PROVE IInv
  OBVIOUS
<1>1. TypeOK
  BY BoundAssumption, SeqTypes DEF Init, TypeOK
<1>2. Objects
  BY DEF Init, Objects, Fresh
<1>3. Polls
  BY DEF Init, Polls, AnsweredOnce, ParkedPollIsAwaited, WritableHasPoll
<1>4. CurrentIsBound
  BY DEF Init, CurrentIsBound, Fresh
<1> QED
  BY <1>1, <1>2, <1>3, <1>4 DEF IInv

LEMMA StutterIInv == IInv /\ UNCHANGED vars => IInv'
  BY DEF IInv, TypeOK, Objects, Polls, AnsweredOnce, ParkedPollIsAwaited, WritableHasPoll,
         CurrentIsBound, Fresh, vars, serverVars, identVars, queueVars, tranVars, pollVars,
         connVars

\* A request that is never answered is one more that its connection waits
\* for; no poll is parked on a connection that waited for nothing.
LEMMA UnansweredIInv ==
  ASSUME IInv, NEW c \in Conns, Unanswered(c)
  PROVE  IInv'
<1>1. /\ pending[c] = 0 /\ pending' = [pending EXCEPT ![c] = @ + 1]
      /\ UNCHANGED <<status, serverVars, identVars, queueVars, tranVars, pollVars, wsConn, proto>>
  BY DEF Unanswered, Ready
<1>2. /\ pending' \in [Conns -> Int] /\ pending'[c] = 1
      /\ \A x \in Conns : x # c => pending'[x] = pending[x]
  BY <1>1 DEF IInv, TypeOK
<1>3. TypeOK'
  BY <1>1, <1>2 DEF IInv, TypeOK, serverVars, identVars, queueVars, tranVars, pollVars
<1>4. Objects'
  BY <1>1 DEF IInv, Objects, Fresh, serverVars, identVars, tranVars, pollVars
<1>5. AnsweredOnce' /\ WritableHasPoll' /\ CurrentIsBound'
  BY <1>1, <1>2 DEF IInv, Polls, AnsweredOnce, WritableHasPoll, CurrentIsBound, Fresh,
                    identVars, tranVars, pollVars
<1>6. ParkedPollIsAwaited'
  <2>1. \A t \in Trans : parked[t] => resp[t] \in Conns /\ resp[t] # c
    BY <1>1 DEF IInv, TypeOK, Polls, ParkedPollIsAwaited
  <2> QED
    BY <1>1, <1>2, <2>1 DEF IInv, Polls, ParkedPollIsAwaited, pollVars
<1> QED
  BY <1>3, <1>4, <1>5, <1>6 DEF IInv, Polls

\* Steps that only end the process, move the clock or drop a SocketPtr.
LEMMA ServerIInv ==
  ASSUME IInv,
         \/ Tick
         \/ \E c \in Conns : UpgradeToPolling(c)
         \/ \E t \in Trans : OnDangling(t)
         \/ \E s \in Sockets : Release(s)
  PROVE  IInv'
<1>1. /\ status' \in {"running", "terminated", "undefined"}
      /\ sidNow' \in Sids
      /\ held' \subseteq held
  BY DEF IInv, TypeOK, Tick, UpgradeToPolling, OnDangling, Release, serverVars
<1>2. UNCHANGED <<sockets, identVars, queueVars, tranVars, pollVars, connVars>>
  BY DEF Tick, UpgradeToPolling, OnDangling, Release, serverVars
<1>3. TypeOK'
  BY <1>1, <1>2 DEF IInv, TypeOK, identVars, queueVars, tranVars, pollVars, connVars
<1>4. Objects'
  BY <1>1, <1>2 DEF IInv, Objects, Fresh, identVars, tranVars, pollVars
<1>5. Polls' /\ CurrentIsBound'
  BY <1>2 DEF IInv, Polls, AnsweredOnce, ParkedPollIsAwaited, WritableHasPoll, CurrentIsBound,
              Fresh, identVars, tranVars, pollVars, connVars
<1> QED
  BY <1>3, <1>4, <1>5 DEF IInv

\* CreateAndSendPacket and the handlers that end in it.
LEMMA SendIInv ==
  ASSUME IInv,
         NEW s \in Sockets, Live(s), CreateAndSendPacket(s),
         UNCHANGED <<status, serverVars, identVars, tranVars, resp, wsConn, proto>>
  PROVE  IInv'
<1> DEFINE t == transport[s]
           ps == Append(buffer[s], made[s] + 1)
<1>1. ~Fresh(s) /\ t \in Trans /\ kind[t] # "none"
  BY LiveIsCreated DEF IInv
<1>2. /\ made[s] < MaxPackets
      /\ made' = [made EXCEPT ![s] = @ + 1]
      /\ Flush(s, ps, Out(t), writable[t], parked[t], 0)
  BY DEF CreateAndSendPacket
<1>3. made[s] + 1 \in 1..MaxPackets
  BY <1>2, BoundAssumption DEF IInv, TypeOK
<1>4. ps \in Seq(1..MaxPackets)
  BY <1>3 DEF IInv, TypeOK
<1>5. Out(t) \in Conns \cup {NoConn} /\ writable[t] \in BOOLEAN /\ parked[t] \in BOOLEAN
  BY <1>1 DEF IInv, TypeOK, Out
<1>6. TypeOK'
  <2>1. made' \in [Sockets -> 0..MaxPackets]
    BY <1>2, <1>3, BoundAssumption DEF IInv, TypeOK
  <2>2. /\ buffer' \in [Sockets -> Seq(1..MaxPackets)]
        /\ wire' \in [Sockets -> Seq(1..MaxPackets)]
        /\ writable' \in [Trans -> BOOLEAN]
        /\ parked' \in [Trans -> BOOLEAN]
        /\ pending' \in [Conns -> Int]
    <3> HIDE DEF ps
    <3> QED
      BY <1>1, <1>2, <1>4, <1>5, FlushType DEF IInv
  <2> QED
    BY <2>1, <2>2 DEF IInv, TypeOK, serverVars, identVars, tranVars
<1>7. /\ Polls'
      /\ kind[t] = "websocket" => ~parked'[t]
      /\ \A u \in Trans : u # t => parked'[u] = parked[u] /\ writable'[u] = writable[u]
  <2>1. kind[t] = "none" => ~writable[t] /\ ~parked[t]
    BY <1>1
  <2>2. kind[t] = "websocket" => ~parked[t]
    BY <1>1 DEF IInv, Objects
  <2>3. kind[t] = "xhr" => writable[t] = parked[t]
    BY <1>1 DEF IInv, Polls, WritableHasPoll
  <2>4. parked[t] => kind[t] # "websocket" /\ Out(t) = resp[t]
    BY <2>2 DEF Out
  <2>5. parked[t] =>
          /\ Out(t) # NoConn /\ proto[Out(t)] \in {"http", "closed"}
          /\ pending[Out(t)] + 0 = 1
          /\ \A u \in Trans : u # t /\ parked[u] => resp[u] # Out(t)
    BY <1>1, <2>4 DEF IInv, Polls, ParkedPollIsAwaited
  <2>6. resp' = resp /\ resp \in [Trans -> Conns \cup {NoConn}]
    BY DEF IInv, TypeOK
  <2>7. UNCHANGED <<kind, proto>>
    BY DEF tranVars
  <2> HIDE DEF ps
  <2> QED
    BY <1>1, <1>2, <1>4, <1>5, <2>1, <2>2, <2>3, <2>4, <2>5, <2>6, <2>7, FlushPolls DEF IInv
<1>8. Objects'
  BY <1>1, <1>7 DEF IInv, Objects, Fresh, serverVars, identVars, tranVars
<1>9. CurrentIsBound'
  BY DEF IInv, CurrentIsBound, Fresh, identVars, tranVars
<1> QED
  BY <1>6, <1>7, <1>8, <1>9 DEF IInv

\* A poll is parked on a connection that awaited nothing, or answered at once.
LEMMA PollIInv ==
  ASSUME IInv, NEW c \in Conns, NEW i \in Sids, HandlePollRequest(c, i)
  PROVE  IInv'
<1> DEFINE s == sockets[i]
           t == transport[s]
<1>1. /\ Ready(c) /\ sockets[i] # NoSocket /\ NameOf(kind[t]) = "polling" /\ ~parked[t]
      /\ resp' = [resp EXCEPT ![t] = c]
      /\ status' = IF bound[t] THEN "running" ELSE "terminated"
      /\ Flush(s, buffer[s], c, TRUE, TRUE, 1)
      /\ UNCHANGED <<serverVars, identVars, made, tranVars, wsConn, proto>>
  BY DEF HandlePollRequest, Verified
<1>2. s \in Sockets /\ ~Fresh(s) /\ t \in Trans /\ kind[t] # "none"
  BY <1>1 DEF IInv, TypeOK, Objects
<1>3. buffer[s] \in Seq(1..MaxPackets)
  BY <1>2 DEF IInv, TypeOK
<1>4. TypeOK'
  <2>1. /\ buffer' \in [Sockets -> Seq(1..MaxPackets)]
        /\ wire' \in [Sockets -> Seq(1..MaxPackets)]
        /\ writable' \in [Trans -> BOOLEAN]
        /\ parked' \in [Trans -> BOOLEAN]
        /\ pending' \in [Conns -> Int]
    BY <1>1, <1>2, <1>3, FlushType DEF IInv
  <2>2. resp' \in [Trans -> Conns \cup {NoConn}]
    BY <1>1, <1>2 DEF IInv, TypeOK
  <2> QED
    BY <1>1, <2>1, <2>2 DEF IInv, TypeOK, serverVars, identVars, tranVars
<1>5. /\ Polls'
      /\ kind[t] = "websocket" => ~parked'[t]
      /\ \A u \in Trans : u # t => parked'[u] = parked[u] /\ writable'[u] = writable[u]
  <2>1. kind[t] \notin {"none", "websocket"}
    BY <1>1, <1>2 DEF NameOf, PollingKinds
  <2>2. /\ resp'[t] = c /\ resp' \in [Trans -> Conns \cup {NoConn}]
        /\ \A u \in Trans : u # t => resp'[u] = resp[u]
    BY <1>1, <1>2 DEF IInv, TypeOK
  <2>3. c # NoConn /\ proto[c] = "http" /\ pending[c] = 0
    BY <1>1, NoneAssumption DEF Ready
  <2>4. \A u \in Trans : u # t /\ parked[u] => resp[u] # c
    BY <2>3 DEF IInv, Polls, ParkedPollIsAwaited
  <2>5. UNCHANGED <<kind, proto>>
    BY <1>1 DEF tranVars
  <2>6. /\ c \in Conns \cup {NoConn}
        /\ proto[c] \in {"http", "closed"}
        /\ pending[c] + 1 = 1
    BY <2>3
  <2>7. TypeOK /\ Polls /\ Objects
    BY DEF IInv
  <2>8. Flush(s, buffer[s], c, TRUE, TRUE, 1)
    BY <1>1
  <2> HIDE DEF s
  <2> QED
    BY <1>2, <1>3, <2>1, <2>2, <2>3, <2>4, <2>5, <2>6, <2>7, <2>8, FlushPolls
<1>6. Objects'
  BY <1>1, <1>2, <1>5 DEF IInv, Objects, Fresh, serverVars, identVars, tranVars
<1>7. CurrentIsBound'
  BY <1>1 DEF IInv, CurrentIsBound, Fresh, identVars, tranVars
<1> QED
  BY <1>4, <1>5, <1>6, <1>7 DEF IInv

\* The three handshakes put a new Socket around a new transport.
LEMMA HandshakePollingIInv ==
  ASSUME IInv, NEW c \in Conns, NEW s \in Sockets, NEW t \in Trans,
         NEW k \in PollingKinds, NEW b \in BOOLEAN, HandshakePolling(c, s, t, k, b)
  PROVE  IInv'
<1>1. /\ pending[c] = 0 /\ proto[c] = "http" /\ Fresh(s) /\ kind[t] = "none"
      /\ ~parked[t] /\ ~writable[t]
  BY DEF HandshakePolling, Ready, FreshTran, IInv, Objects
<1>2. TypeOK'
  <2>1. <<1>> \in Seq(1..MaxPackets) /\ <<>> \in Seq(1..MaxPackets) /\ 1 \in 0..MaxPackets
    BY BoundAssumption, SeqTypes
  <2>2. wire' \in [Sockets -> Seq(1..MaxPackets)]
    <3>1. /\ wire' = [wire EXCEPT ![s] = IF k = "xhr" THEN <<1>> ELSE <<>>]
          /\ wire \in [Sockets -> Seq(1..MaxPackets)]
      BY DEF HandshakePolling, IInv, TypeOK
    <3>2. (IF k = "xhr" THEN <<1>> ELSE <<>>) \in Seq(1..MaxPackets)
      BY <2>1
    <3> QED
      BY <3>1, <3>2, ExceptType
  <2>3. pending' \in [Conns -> Int]
    BY DEF HandshakePolling, IInv, TypeOK
  <2>4. /\ kind' \in [Trans -> Kinds \cup {"none"}]
        /\ binary' \in [Trans -> BOOLEAN]
        /\ bound' \in [Trans -> BOOLEAN]
        /\ onPacket' \in [Trans -> {"none", "OnPacket", "OnPacketWhenUpgrading"}]
        /\ resp' \in [Trans -> Conns \cup {NoConn}]
        /\ parked' \in [Trans -> BOOLEAN]
        /\ writable' \in [Trans -> BOOLEAN]
    BY DEF HandshakePolling, WritableAfter, ParkedAfter, SetTransport, Kinds, PollingKinds,
       IInv, TypeOK
  <2>5. /\ sockets' \in [Sids -> Sockets \cup {NoSocket}]
        /\ held' \subseteq Sockets
        /\ sidOf' \in [Sockets -> Sids \cup {NoSid}]
        /\ transport' \in [Sockets -> Trans \cup {NoTran}]
        /\ made' \in [Sockets -> 0..MaxPackets]
    BY <2>1 DEF HandshakePolling, CreateSocket, IInv, TypeOK
  <2> QED
    BY <2>2, <2>3, <2>4, <2>5 DEF HandshakePolling, CreateSocket, IInv, TypeOK
<1>3. Objects'
  BY <1>1, NoneAssumption DEF HandshakePolling, WritableAfter, ParkedAfter, CreateSocket,
     SetTransport, Objects, IInv, TypeOK, Fresh, PollingKinds
<1>4. Polls'
  BY <1>1, NoneAssumption DEF HandshakePolling, WritableAfter, ParkedAfter, CreateSocket,
     Polls, AnsweredOnce, ParkedPollIsAwaited, WritableHasPoll, IInv, TypeOK, PollingKinds
<1>5. CurrentIsBound'
  BY <1>1 DEF HandshakePolling, CreateSocket, SetTransport, CurrentIsBound, IInv, TypeOK, Fresh,
       Objects
<1> QED
  BY <1>2, <1>3, <1>4, <1>5 DEF IInv

LEMMA HandshakeWebsocketIInv ==
  ASSUME IInv, NEW c \in Conns, NEW s \in Sockets, NEW t \in Trans,
         HandshakeWebsocket(c, s, t)
  PROVE  IInv'
<1>1. Fresh(s) /\ kind[t] = "none" /\ ~parked[t] /\ ~writable[t]
  BY DEF HandshakeWebsocket, FreshTran, IInv, Objects
<1>2. TypeOK'
  <2>1. <<1>> \in Seq(1..MaxPackets) /\ 1 \in 0..MaxPackets
    BY BoundAssumption
  <2> QED
    BY <2>1 DEF HandshakeWebsocket, CreateSocket, SetTransport, Kinds, IInv, TypeOK, pollVars,
         connVars
<1>3. Objects'
  BY <1>1, NoneAssumption DEF HandshakeWebsocket, CreateSocket, SetTransport, Objects, IInv, TypeOK, Fresh,
       pollVars
<1>4. Polls'
  BY <1>1 DEF HandshakeWebsocket, CreateSocket, Polls, AnsweredOnce, ParkedPollIsAwaited,
       WritableHasPoll, IInv, TypeOK, pollVars, connVars
<1>5. CurrentIsBound'
  BY <1>1 DEF HandshakeWebsocket, CreateSocket, SetTransport, CurrentIsBound, IInv, TypeOK, Fresh,
       Objects
<1> QED
  BY <1>2, <1>3, <1>4, <1>5 DEF IInv

LEMMA HandshakeUpgradeIInv ==
  ASSUME IInv, NEW c \in Conns, NEW s \in Sockets, NEW t \in Trans, NEW u \in Trans,
         NEW ok \in BOOLEAN, HandshakeUpgrade(c, s, t, u, ok)
  PROVE  IInv'
<1>1. /\ pending[c] = 0 /\ Fresh(s) /\ kind[t] = "none" /\ kind[u] = "none" /\ t # u
      /\ ~parked[t] /\ ~writable[t] /\ ~parked[u]
  BY DEF HandshakeUpgrade, Ready, FreshTran, IInv, Objects
<1>2. TypeOK'
  <2>1. <<1>> \in Seq(1..MaxPackets) /\ 1 \in 0..MaxPackets
    BY BoundAssumption
  <2> QED
    BY <2>1 DEF HandshakeUpgrade, CreateSocket, Attach, WritableOnceAccepted, Kinds, IInv, TypeOK
<1>3. Objects'
  BY <1>1, NoneAssumption DEF HandshakeUpgrade, CreateSocket, Attach, Objects, IInv, TypeOK, Fresh
<1>4. Polls'
  BY <1>1, NoneAssumption DEF HandshakeUpgrade, CreateSocket, Attach, Polls, AnsweredOnce,
       ParkedPollIsAwaited, WritableHasPoll, IInv, TypeOK
<1>5. CurrentIsBound'
  BY <1>1 DEF HandshakeUpgrade, CreateSocket, Attach, CurrentIsBound, IInv, TypeOK, Fresh, Objects
<1> QED
  BY <1>2, <1>3, <1>4, <1>5 DEF IInv

\* An upgrade request gives the connection to a new transport, unless refused.
LEMMA MaybeUpgradeIInv ==
  ASSUME IInv, NEW c \in Conns, NEW i \in Sids, NEW u \in Trans, NEW ok \in BOOLEAN,
         NEW k \in Kinds, MaybeUpgrade(c, i, u, ok, k)
  PROVE  IInv'
<1>1. /\ pending[c] = 0 /\ kind[u] = "none" /\ ~parked[u] /\ k # "none"
      /\ sockets[i] \in Sockets
      /\ k = "xhr" => ~ok
  BY DEF MaybeUpgrade, Verified, Attach, Ready, FreshTran, Kinds, PollingKinds, IInv, Objects,
         TypeOK
<1>2. TypeOK'
  BY <1>1 DEF MaybeUpgrade, Attach, WritableOnceAccepted, serverVars, queueVars, IInv, TypeOK
<1>3. Objects'
  BY <1>1 DEF MaybeUpgrade, Attach, Objects, IInv, TypeOK, Fresh, serverVars
<1>4. Polls'
  BY <1>1 DEF MaybeUpgrade, Attach, WritableOnceAccepted, Polls, AnsweredOnce,
       ParkedPollIsAwaited, WritableHasPoll, IInv, TypeOK
<1>5. CurrentIsBound'
  BY <1>1 DEF MaybeUpgrade, Attach, CurrentIsBound, IInv, TypeOK, Fresh, Objects
<1> QED
  BY <1>2, <1>3, <1>4, <1>5 DEF IInv

\* The transport that OnPacketWhenUpgrading belongs to is the upgrading one.
LEMMA UpgradingIsOwned ==
  ASSUME IInv, NEW t \in Trans, onPacket[t] = "OnPacketWhenUpgrading",
         NEW s \in Sockets, Owns(s, t)
  PROVE  ~Fresh(s) /\ upgradingTransport[s] = t
<1>1. ~Fresh(s)
  BY LiveIsCreated DEF IInv, Owns
<1>2. transport[s] # t
  BY <1>1 DEF IInv, CurrentIsBound
<1> QED
  BY <1>1, <1>2 DEF Owns

\* An upgrade packet makes the upgrading transport the current one.
LEMMA OnUpgradeIInv ==
  ASSUME IInv, NEW t \in Trans, OnUpgrade(t)
  PROVE  IInv'
<1>1. PICK s \in Sockets :
        /\ Owns(s, t)
        /\ upgraded' = [upgraded EXCEPT ![s] = TRUE]
        /\ transport' = [transport EXCEPT ![s] = upgradingTransport[s]]
        /\ SetTransport(upgradingTransport[s])
  BY DEF OnUpgrade
<1>2. /\ onPacket[t] = "OnPacketWhenUpgrading" /\ wsConn[t] # NoConn
      /\ UNCHANGED <<status, serverVars, sidOf, upgradingTransport, queueVars, kind, binary,
                     pollVars, connVars>>
  BY DEF OnUpgrade, Receives
<1>3. upgradingTransport[s] = t /\ ~Fresh(s)
  BY <1>1, <1>2, UpgradingIsOwned
<1>4. kind[t] # "none"
  BY <1>2 DEF IInv, Objects
<1>5. TypeOK'
  BY <1>1, <1>2, <1>3 DEF SetTransport, IInv, TypeOK, serverVars, queueVars, pollVars, connVars
<1>6. Objects'
  BY <1>1, <1>2, <1>3, <1>4 DEF IInv, Objects, TypeOK, Fresh, SetTransport, serverVars, pollVars
<1>7. Polls'
  BY <1>2 DEF IInv, Polls, AnsweredOnce, ParkedPollIsAwaited, WritableHasPoll, pollVars, connVars
<1>8. CurrentIsBound'
  BY <1>1, <1>2, <1>3 DEF SetTransport, IInv, CurrentIsBound, TypeOK, Fresh
<1> QED
  BY <1>5, <1>6, <1>7, <1>8 DEF IInv

\* Closing: a connection changes its state, a session leaves sockets_.
LEMMA CloseIInv ==
  ASSUME IInv,
         \/ \E t \in Trans : OnUnexpected(t) \/ HandleError(t)
         \/ \E t \in Trans : OnCloseMessage(t) \/ OnDisconnect(t)
         \/ \E c \in Conns : OnHttpDisconnect(c)
  PROVE  IInv'
<1>1. UNCHANGED <<sidNow, held, identVars, queueVars, tranVars, pollVars, wsConn, pending>>
  BY DEF OnUnexpected, HandleError, OnCloseMessage, OnDisconnect, OnHttpDisconnect, serverVars,
         connVars
<1>2. /\ status' \in {"running", "terminated", "undefined"}
      /\ sockets' \in [Sids -> Sockets \cup {NoSocket}]
      /\ \A i \in Sids : sockets'[i] \in {sockets[i], NoSocket}
  BY ZenonT(30) DEF OnUnexpected, HandleError, OnCloseMessage, OnDisconnect, OnHttpDisconnect,
         OnClose, serverVars, IInv, TypeOK
<1>3. /\ proto' \in [Conns -> {"http", "ws", "closing", "closed"}]
      /\ \A c \in Conns : proto[c] \in {"http", "closed"} => proto'[c] \in {"http", "closed"}
  <2>1. CASE \E t \in Trans : OnUnexpected(t)
    <3>1. PICK t \in Trans, s \in Sockets :
            /\ Receives(t) /\ onPacket[t] = "OnPacketWhenUpgrading"
            /\ Owns(s, t)
            /\ proto' = [proto EXCEPT ![wsConn[upgradingTransport[s]]] = "closing"]
      BY <2>1 DEF OnUnexpected
    <3>2. upgradingTransport[s] = t
      BY <3>1, UpgradingIsOwned
    <3> QED
      BY <3>1, <3>2 DEF Receives, IInv, TypeOK
  <2>2. CASE \E t \in Trans : OnCloseMessage(t) \/ OnDisconnect(t)
    BY <2>2 DEF OnCloseMessage, OnDisconnect, connVars, IInv, TypeOK
  <2>3. CASE \E c \in Conns : OnHttpDisconnect(c)
    BY <2>3 DEF OnHttpDisconnect, IInv, TypeOK
  <2>4. CASE \E t \in Trans : HandleError(t)
    BY <2>4 DEF HandleError, Receives, IInv, TypeOK
  <2> QED
    BY <2>1, <2>2, <2>3, <2>4
<1>4. TypeOK'
  BY <1>1, <1>2, <1>3 DEF IInv, TypeOK, identVars, queueVars, tranVars, pollVars
<1>5. Objects'
  BY <1>1, <1>2 DEF IInv, Objects, Fresh, identVars, tranVars, pollVars
<1>6. Polls'
  <2>1. AnsweredOnce' /\ WritableHasPoll'
    BY <1>1 DEF IInv, Polls, AnsweredOnce, WritableHasPoll, tranVars, pollVars
  <2>2. ParkedPollIsAwaited'
    BY <1>1, <1>3 DEF IInv, TypeOK, Polls, ParkedPollIsAwaited, pollVars
  <2> QED
    BY <2>1, <2>2 DEF Polls
<1>7. CurrentIsBound'
  BY <1>1 DEF IInv, CurrentIsBound, Fresh, identVars, tranVars
<1> QED
  BY <1>4, <1>5, <1>6, <1>7 DEF IInv

---------------------------------------------------------------------------
(* The theorems.                                                           *)

LEMMA NextIInv == IInv /\ [Next]_vars => IInv'
<1> SUFFICES ASSUME IInv, [Next]_vars PROVE IInv'
  OBVIOUS
<1>1. CASE UNCHANGED vars
  BY <1>1, StutterIInv
<1>2. ASSUME NEW c \in Conns, NEW s \in Sockets, NEW t \in Trans, NEW k \in PollingKinds,
             NEW b \in BOOLEAN, HandshakePolling(c, s, t, k, b)
      PROVE  IInv'
  BY <1>2, HandshakePollingIInv
<1>3. ASSUME NEW c \in Conns, NEW s \in Sockets, NEW t \in Trans, HandshakeWebsocket(c, s, t)
      PROVE  IInv'
  BY <1>3, HandshakeWebsocketIInv
<1>4. ASSUME NEW c \in Conns, NEW s \in Sockets, NEW t \in Trans, NEW u \in Trans,
             NEW ok \in BOOLEAN, HandshakeUpgrade(c, s, t, u, ok)
      PROVE  IInv'
  BY <1>4, HandshakeUpgradeIInv
<1>5. ASSUME NEW c \in Conns, NEW i \in Sids, HandlePollRequest(c, i)
      PROVE  IInv'
  BY <1>5, PollIInv
<1>6. ASSUME NEW c \in Conns, AnswerAtOnce(c)
      PROVE  IInv'
  BY <1>6, StutterIInv DEF AnswerAtOnce
<1>7. ASSUME NEW c \in Conns, NEW i \in Sids, NEW u \in Trans, NEW ok \in BOOLEAN,
             NEW k \in Kinds, MaybeUpgrade(c, i, u, ok, k)
      PROVE  IInv'
  BY <1>7, MaybeUpgradeIInv
<1>8. CASE \/ Tick
           \/ \E c \in Conns : UpgradeToPolling(c)
           \/ \E t \in Trans : OnDangling(t)
           \/ \E s \in Sockets : Release(s)
  BY <1>8, ServerIInv
<1>9. ASSUME NEW t \in Trans, OnPacket(t) \/ OnProbe(t)
      PROVE  IInv'
  <2>1. PICK s \in Sockets : Owns(s, t) /\ CreateAndSendPacket(s)
    BY <1>9 DEF OnPacket, OnProbe
  <2>2. UNCHANGED <<status, serverVars, identVars, tranVars, resp, wsConn, proto>>
    BY <1>9 DEF OnPacket, OnProbe
  <2> QED
    BY <2>1, <2>2, SendIInv DEF Owns
<1>10. ASSUME NEW s \in Sockets, SendMessage(s)
       PROVE  IInv'
  <2>1. Live(s) /\ CreateAndSendPacket(s)
    BY <1>10 DEF SendMessage, Live
  <2>2. UNCHANGED <<status, serverVars, identVars, tranVars, resp, wsConn, proto>>
    BY <1>10 DEF SendMessage
  <2> QED
    BY <2>1, <2>2, SendIInv
<1>11. ASSUME NEW t \in Trans, OnUpgrade(t)
       PROVE  IInv'
  BY <1>11, OnUpgradeIInv
<1>12. CASE \/ \E t \in Trans : OnUnexpected(t) \/ HandleError(t)
            \/ \E t \in Trans : OnCloseMessage(t) \/ OnDisconnect(t)
            \/ \E c \in Conns : OnHttpDisconnect(c)
  BY <1>12, CloseIInv
<1>13. ASSUME NEW c \in Conns, Unanswered(c)
       PROVE  IInv'
  BY <1>13, UnansweredIInv
<1> QED
  BY <1>1, <1>2, <1>3, <1>4, <1>5, <1>6, <1>7, <1>8, <1>9, <1>10, <1>11, <1>12, <1>13 DEF Next

\* The inductive invariant holds in every reachable state.
THEOREM Invariance == Spec => []IInv
  BY InitIInv, NextIInv, PTL DEF Spec

\* The model's variables keep their types.
THEOREM TypeCorrect == Spec => []TypeOK
<1>1. IInv => TypeOK
  BY DEF IInv
<1> QED
  BY <1>1, Invariance, PTL

\* Every HTTP request is answered at most once, whatever polls, posts,
\* upgrades, transports and lost connections come together.
THEOREM AtMostOneAnswer == Spec => []AnsweredOnce
<1>1. IInv => AnsweredOnce
  BY DEF IInv, Polls
<1> QED
  BY <1>1, Invariance, PTL

\* A parked poll is one the client still waits for, and only one transport has
\* it.
THEOREM ParkedPolls == Spec => []ParkedPollIsAwaited
<1>1. IInv => ParkedPollIsAwaited
  BY DEF IInv, Polls
<1> QED
  BY <1>1, Invariance, PTL

\* The transport in use never throws for want of a callback.
THEOREM CurrentTransportBound == Spec => []CurrentIsBound
<1>1. IInv => CurrentIsBound
  BY DEF IInv
<1> QED
  BY <1>1, Invariance, PTL

---------------------------------------------------------------------------
(* Order of delivery.                                                      *)

\* Appending an increasing sequence of larger numbers keeps a sequence
\* increasing.
LEMMA ConcatOrdered ==
  ASSUME NEW w \in Seq(Nat), NEW e \in Seq(Nat), NEW m \in Int, NEW n \in Int, m <= n,
         \A k \in DOMAIN w : w[k] <= m,
         \A j, k \in DOMAIN w : j < k => w[j] < w[k],
         \A k \in DOMAIN e : m < e[k] /\ e[k] <= n,
         \A j, k \in DOMAIN e : j < k => e[j] < e[k]
  PROVE  /\ \A k \in DOMAIN (w \o e) : (w \o e)[k] <= n
         /\ \A j, k \in DOMAIN (w \o e) : j < k => (w \o e)[j] < (w \o e)[k]
<1>1. /\ Len(w) \in Nat /\ Len(e) \in Nat
      /\ DOMAIN w = 1..Len(w) /\ DOMAIN e = 1..Len(e)
      /\ DOMAIN (w \o e) = 1..(Len(w) + Len(e))
  OBVIOUS
<1>2. \A k \in 1..(Len(w) + Len(e)) :
        (w \o e)[k] = IF k <= Len(w) THEN w[k] ELSE e[k - Len(w)]
  BY <1>1
<1>3. /\ \A k \in 1..Len(w) : w[k] \in Nat
      /\ \A k \in 1..Len(e) : e[k] \in Nat
  BY <1>1
<1> DEFINE c == w \o e
<1>4. DOMAIN c = 1..(Len(w) + Len(e))
  BY <1>1
<1>5. \A k \in 1..Len(w) : c[k] = w[k] /\ c[k] <= m
  BY <1>1, <1>2, SMTT(30)
<1>6. \A k \in DOMAIN c : k > Len(w) =>
        k - Len(w) \in 1..Len(e) /\ c[k] = e[k - Len(w)] /\ m < c[k] /\ c[k] <= n
  BY <1>1, <1>2, <1>4
<1>7. \A k \in DOMAIN c : c[k] \in Int
  BY <1>1, <1>2, <1>3, <1>4, <1>6
<1> HIDE DEF c
<1>8. ASSUME NEW k \in DOMAIN c
      PROVE  c[k] <= n
  <2>1. CASE k <= Len(w)
    <3>1. k \in 1..Len(w)
      BY <1>1, <1>4, <2>1
    <3>2. c[k] \in Int /\ c[k] <= m
      BY <1>5, <1>7, <3>1
    <3> QED
      BY <3>2
  <2>2. CASE k > Len(w)
    BY <1>6, <2>2
  <2> QED
    BY <1>1, <1>4, <2>1, <2>2
<1>9. ASSUME NEW j \in DOMAIN c, NEW k \in DOMAIN c, j < k
      PROVE  c[j] < c[k]
  <2>1. CASE k <= Len(w)
    <3>1. j \in 1..Len(w) /\ k \in 1..Len(w)
      BY <1>1, <1>4, <1>9, <2>1
    <3> QED
      BY <1>1, <1>5, <1>9, <3>1
  <2>2. CASE k > Len(w) /\ j <= Len(w)
    <3>1. j \in 1..Len(w)
      BY <1>1, <1>4, <2>2
    <3> QED
      BY <1>5, <1>6, <1>7, <2>2, <3>1
  <2>3. CASE k > Len(w) /\ j > Len(w)
    <3>1. j - Len(w) < k - Len(w)
      BY <1>1, <1>4, <1>9
    <3> QED
      BY <1>1, <1>6, <2>3, <3>1
  <2> QED
    BY <1>1, <1>4, <2>1, <2>2, <2>3
<1> QED
  BY <1>8, <1>9 DEF c

\* The packets an encoder keeps are among the latest ones, in order.
LEMMA EncodedOrdered ==
  ASSUME NEW k, NEW bin, NEW ps \in Seq(Nat), ps # <<>>, NEW n \in Nat,
         \A x \in DOMAIN ps : ps[x] = n - Len(ps) + x
  PROVE  LET e == Encoded(k, bin, ps) IN
         /\ e \in Seq(Nat)
         /\ \A x \in DOMAIN e : n - Len(ps) < e[x] /\ e[x] <= n
         /\ \A x, y \in DOMAIN e : x < y => e[x] < e[y]
<1>1. /\ Len(ps) \in Nat /\ Len(ps) > 0 /\ DOMAIN ps = 1..Len(ps)
      /\ ps[Len(ps)] = n
  OBVIOUS
<1>2. CASE k = "jsonp"
  <2>1. Encoded(k, bin, ps) = <<>>
    BY <1>2 DEF Encoded
  <2> QED
    BY <2>1
<1>3. CASE k # "jsonp" /\ k = "xhr" /\ bin
  <2>1. Encoded(k, bin, ps) = <<n>>
    BY <1>1, <1>3 DEF Encoded
  <2> QED
    BY <1>1, <2>1
<1>4. CASE k # "jsonp" /\ ~(k = "xhr" /\ bin)
  <2>1. Encoded(k, bin, ps) = ps
    BY <1>4 DEF Encoded
  <2> QED
    BY <1>1, <2>1
<1> QED
  BY <1>2, <1>3, <1>4

\* Flush keeps the order when write_buffer_ holds the latest packets up to n.
LEMMA FlushOrdered ==
  ASSUME TypeOK,
         NEW s \in Sockets, transport[s] \in Trans,
         NEW ps \in Seq(1..MaxPackets), NEW n \in Nat, Ordered(n, ps, wire[s]),
         NEW c, NEW w, NEW p, NEW new, Flush(s, ps, c, w, p, new)
  PROVE  Ordered(n, buffer'[s], wire'[s])
<1> DEFINE t == transport[s]
           flushing == CanFlush(w, ps)
           e == Encoded(kind[t], binary[t], ps)
<1>1. /\ buffer'[s] = Remaining(flushing, ps)
      /\ wire'[s] = IF flushing /\ Sends(c) THEN wire[s] \o e ELSE wire[s]
  BY DEF Flush, TypeOK
<1>2. ps \in Seq(Nat) /\ wire[s] \in Seq(Nat)
  BY BoundAssumption DEF TypeOK
<1>3. CASE ~flushing
  BY <1>1, <1>3 DEF Remaining
<1>4. CASE flushing
  <2>1. buffer'[s] = <<>> /\ ps # <<>> /\ Len(ps) \in Nat
    BY <1>1, <1>2, <1>4 DEF Remaining, CanFlush
  <2>2. /\ e \in Seq(Nat)
        /\ \A x \in DOMAIN e : n - Len(ps) < e[x] /\ e[x] <= n
        /\ \A x, y \in DOMAIN e : x < y => e[x] < e[y]
    BY <1>2, <2>1, EncodedOrdered DEF Ordered
  <2>3. /\ \A k \in DOMAIN wire[s] : wire[s][k] <= n - Len(ps)
        /\ \A j, k \in DOMAIN wire[s] : j < k => wire[s][j] < wire[s][k]
        /\ n - Len(ps) <= n /\ n - Len(ps) \in Int
    BY <2>1 DEF Ordered
  <2>4. /\ \A k \in DOMAIN wire'[s] : wire'[s][k] <= n
        /\ \A j, k \in DOMAIN wire'[s] : j < k => wire'[s][j] < wire'[s][k]
    <3>1. CASE Sends(c)
      <4>1. wire'[s] = wire[s] \o e
        BY <1>1, <1>4, <3>1
      <4> DEFINE m == n - Len(ps)
      <4>2. m \in Int /\ m <= n /\ \A k \in DOMAIN wire[s] : wire[s][k] <= m
        BY <2>3
      <4>3. \A k \in DOMAIN e : m < e[k] /\ e[k] <= n
        BY <2>2
      <4>4. n \in Int /\ wire[s] \in Seq(Nat) /\ e \in Seq(Nat)
        BY <1>2, <2>2
      <4> HIDE DEF e, m
      <4>5. /\ \A k \in DOMAIN (wire[s] \o e) : (wire[s] \o e)[k] <= n
            /\ \A j, k \in DOMAIN (wire[s] \o e) :
                 j < k => (wire[s] \o e)[j] < (wire[s] \o e)[k]
        BY <2>2, <2>3, <4>2, <4>3, <4>4, ConcatOrdered
      <4> QED
        BY <4>1, <4>5
    <3>2. CASE ~Sends(c)
      <4>1. wire'[s] = wire[s] /\ \A k \in DOMAIN wire[s] : wire[s][k] \in Nat
        BY <1>1, <1>2, <3>2
      <4>2. \A k \in DOMAIN wire[s] : wire[s][k] <= n
        <5> DEFINE m == n - Len(ps)
        <5>1. m \in Int /\ m <= n /\ \A k \in DOMAIN wire[s] : wire[s][k] <= m
          BY <2>3
        <5> HIDE DEF m
        <5> QED
          BY <4>1, <5>1
      <4> QED
        BY <2>3, <4>1, <4>2
    <3> QED
      BY <3>1, <3>2
  <2> QED
    BY <2>1, <2>4 DEF Ordered
<1> QED
  BY <1>3, <1>4

\* Only s sends when s flushes.
LEMMA FlushFrame ==
  ASSUME TypeOK, NEW s \in Sockets, NEW ps, NEW c, NEW w, NEW p, NEW new,
         Flush(s, ps, c, w, p, new)
  PROVE  \A z \in Sockets : z # s => buffer'[z] = buffer[z] /\ wire'[z] = wire[z]
  BY DEF Flush, TypeOK

\* A new packet is appended and perhaps flushed.
LEMMA SendInOrder ==
  ASSUME IInv, InOrder, NEW s \in Sockets, Live(s), CreateAndSendPacket(s)
  PROVE  InOrder'
<1> DEFINE t == transport[s]
           n == made[s] + 1
           ps == Append(buffer[s], n)
<1>1. t \in Trans
  BY LiveIsCreated DEF IInv
<1>2. /\ made[s] < MaxPackets
      /\ made' = [made EXCEPT ![s] = @ + 1]
      /\ Flush(s, ps, Out(t), writable[t], parked[t], 0)
  BY DEF CreateAndSendPacket
<1>3. made[s] \in Nat /\ n \in 1..MaxPackets /\ n \in Nat /\ made'[s] = n
  BY <1>2, BoundAssumption DEF IInv, TypeOK
<1>4. buffer[s] \in Seq(1..MaxPackets) /\ ps \in Seq(1..MaxPackets)
  BY <1>3 DEF IInv, TypeOK
<1>5. Ordered(n, ps, wire[s])
  <2>1. Ordered(made[s], buffer[s], wire[s])
    BY DEF InOrder
  <2>2. /\ Len(ps) = Len(buffer[s]) + 1 /\ Len(buffer[s]) \in Nat
        /\ DOMAIN ps = 1..Len(ps) /\ DOMAIN buffer[s] = 1..Len(buffer[s])
        /\ \A k \in 1..Len(ps) : ps[k] = IF k <= Len(buffer[s]) THEN buffer[s][k] ELSE n
    BY <1>3, <1>4
  <2>3. n - Len(ps) = made[s] - Len(buffer[s])
    BY <1>3, <2>2, SMTT(30)
  <2>4. ASSUME NEW k \in DOMAIN ps
        PROVE  ps[k] = n - Len(ps) + k
    <3> HIDE DEF ps
    <3>1. CASE k <= Len(buffer[s])
      <4>1. k \in DOMAIN buffer[s] /\ ps[k] = buffer[s][k]
        BY <2>2, <2>4, <3>1
      <4>2. buffer[s][k] = made[s] - Len(buffer[s]) + k
        BY <2>1, <4>1 DEF Ordered
      <4> QED
        BY <2>3, <4>1, <4>2
    <3>2. CASE k > Len(buffer[s])
      <4>1. k = Len(ps) /\ ps[k] = n
        BY <2>2, <2>4, <3>2
      <4> QED
        BY <1>3, <2>2, <4>1
    <3> QED
      BY <2>2, <2>4, <3>1, <3>2
  <2> QED
    BY <2>1, <2>3, <2>4 DEF Ordered
<1>6. Ordered(n, buffer'[s], wire'[s])
  <2> HIDE DEF n, ps
  <2> QED
    BY <1>1, <1>2, <1>3, <1>4, <1>5, FlushOrdered DEF IInv
<1>7. \A z \in Sockets : z # s =>
        made'[z] = made[z] /\ buffer'[z] = buffer[z] /\ wire'[z] = wire[z]
  <2> HIDE DEF ps
  <2> QED
    BY <1>2, FlushFrame DEF IInv, TypeOK
<1> QED
  BY <1>3, <1>6, <1>7 DEF InOrder

\* A poll flushes what waited for it.
LEMMA PollInOrder ==
  ASSUME IInv, InOrder, NEW c \in Conns, NEW i \in Sids, HandlePollRequest(c, i)
  PROVE  InOrder'
<1> DEFINE s == sockets[i]
           t == transport[s]
<1>1. /\ sockets[i] # NoSocket
      /\ Flush(s, buffer[s], c, TRUE, TRUE, 1)
      /\ made' = made
  BY DEF HandlePollRequest, Verified
<1>2. s \in Sockets /\ t \in Trans
  BY <1>1 DEF IInv, TypeOK, Objects
<1>3. buffer[s] \in Seq(1..MaxPackets) /\ made[s] \in Nat
  BY <1>2, BoundAssumption DEF IInv, TypeOK
<1>4. Ordered(made[s], buffer'[s], wire'[s])
  BY <1>1, <1>2, <1>3, FlushOrdered DEF IInv, InOrder
<1>5. \A z \in Sockets : z # s => buffer'[z] = buffer[z] /\ wire'[z] = wire[z]
  BY <1>1, <1>2, FlushFrame DEF IInv
<1> QED
  BY <1>1, <1>4, <1>5 DEF InOrder

\* A handshake's open packet is the first packet of its session.
LEMMA HandshakeInOrder ==
  ASSUME IInv, InOrder, NEW s \in Sockets,
         made' = [made EXCEPT ![s] = 1],
         \/ buffer' = buffer /\ wire' = [wire EXCEPT ![s] = << 1 >>] /\ buffer[s] = <<>>
         \/ buffer' = buffer /\ wire' = [wire EXCEPT ![s] = <<>>] /\ buffer[s] = <<>>
         \/ buffer' = [buffer EXCEPT ![s] = << 1 >>] /\ wire' = wire /\ wire[s] = <<>>
  PROVE  InOrder'
<1>1. Ordered(made'[s], buffer'[s], wire'[s])
  <2>1. made'[s] = 1
    BY DEF IInv, TypeOK
  <2>2. CASE buffer' = buffer /\ wire' = [wire EXCEPT ![s] = << 1 >>] /\ buffer[s] = <<>>
    <3>1. buffer'[s] = <<>> /\ wire'[s] = << 1 >>
      BY <2>2 DEF IInv, TypeOK
    <3> QED
      BY <2>1, <3>1 DEF Ordered
  <2>3. CASE buffer' = buffer /\ wire' = [wire EXCEPT ![s] = <<>>] /\ buffer[s] = <<>>
    <3>1. buffer'[s] = <<>> /\ wire'[s] = <<>>
      BY <2>3 DEF IInv, TypeOK
    <3> QED
      BY <2>1, <3>1 DEF Ordered
  <2>4. CASE buffer' = [buffer EXCEPT ![s] = << 1 >>] /\ wire' = wire /\ wire[s] = <<>>
    <3>1. buffer'[s] = << 1 >> /\ wire'[s] = <<>>
      BY <2>4 DEF IInv, TypeOK
    <3> QED
      BY <2>1, <3>1 DEF Ordered
  <2> QED
    BY <2>2, <2>3, <2>4
<1>2. \A z \in Sockets : z # s =>
        made'[z] = made[z] /\ buffer'[z] = buffer[z] /\ wire'[z] = wire[z]
  BY DEF IInv, TypeOK
<1> QED
  BY <1>1, <1>2 DEF InOrder

\* A Socket not yet created has queued and sent nothing.
FreshIsEmpty == \A s \in Sockets : Fresh(s) => buffer[s] = <<>> /\ wire[s] = <<>>
OrderInv == IInv /\ FreshIsEmpty /\ InOrder

\* Handshakes create a Socket, and so keep the others' emptiness.
LEMMA HandshakeKeepsFresh ==
  ASSUME OrderInv, NEW s \in Sockets, Fresh(s),
         sidOf' = [sidOf EXCEPT ![s] = sidNow],
         made' = [made EXCEPT ![s] = 1],
         \/ buffer' = buffer /\ wire' = [wire EXCEPT ![s] = << 1 >>]
         \/ buffer' = buffer /\ wire' = [wire EXCEPT ![s] = <<>>]
         \/ buffer' = [buffer EXCEPT ![s] = << 1 >>] /\ wire' = wire
  PROVE  FreshIsEmpty' /\ InOrder'
<1>1. buffer[s] = <<>> /\ wire[s] = <<>>
  BY DEF OrderInv, FreshIsEmpty
<1>2. InOrder'
  BY <1>1, HandshakeInOrder DEF OrderInv
<1>3. sidOf'[s] # NoSid
  BY NoneAssumption DEF OrderInv, IInv, TypeOK
<1>4. \A z \in Sockets : z # s =>
        sidOf'[z] = sidOf[z] /\ buffer'[z] = buffer[z] /\ wire'[z] = wire[z]
  BY DEF OrderInv, IInv, TypeOK
<1> QED
  BY <1>2, <1>3, <1>4 DEF OrderInv, FreshIsEmpty, Fresh

\* A created Socket may flush: the others stay as they are.
LEMMA FlushKeepsFresh ==
  ASSUME OrderInv, NEW s \in Sockets, ~Fresh(s), sidOf' = sidOf,
         \A z \in Sockets : z # s => buffer'[z] = buffer[z] /\ wire'[z] = wire[z]
  PROVE  FreshIsEmpty'
  BY DEF OrderInv, FreshIsEmpty, Fresh

\* A Socket that sends.
LEMMA SendOrderInv ==
  ASSUME OrderInv, NEW s \in Sockets, Live(s), CreateAndSendPacket(s), sidOf' = sidOf
  PROVE  FreshIsEmpty' /\ InOrder'
<1>1. InOrder'
  BY SendInOrder DEF OrderInv
<1>2. ~Fresh(s)
  BY LiveIsCreated DEF OrderInv, IInv
<1>3. \A z \in Sockets : z # s => buffer'[z] = buffer[z] /\ wire'[z] = wire[z]
  BY FlushFrame DEF CreateAndSendPacket, OrderInv, IInv
<1> QED
  BY <1>1, <1>2, <1>3, FlushKeepsFresh

\* A step that touches no queue and creates no Socket.
LEMMA QuietOrderInv ==
  ASSUME OrderInv, UNCHANGED <<sidOf, queueVars>>
  PROVE  FreshIsEmpty' /\ InOrder'
  BY DEF OrderInv, FreshIsEmpty, Fresh, InOrder, queueVars

\* Every step keeps the order.
LEMMA NextOrderInv == OrderInv /\ [Next]_vars => OrderInv'
<1> SUFFICES ASSUME OrderInv, [Next]_vars
             PROVE  FreshIsEmpty' /\ InOrder'
  BY NextIInv DEF OrderInv
<1>1. CASE UNCHANGED vars
  BY <1>1, QuietOrderInv DEF vars, identVars
<1>2. ASSUME NEW c \in Conns, NEW s \in Sockets, NEW t \in Trans, NEW k \in PollingKinds,
             NEW b \in BOOLEAN, HandshakePolling(c, s, t, k, b)
      PROVE  FreshIsEmpty' /\ InOrder'
  BY <1>2, HandshakeKeepsFresh DEF HandshakePolling, CreateSocket
<1>3. ASSUME NEW c \in Conns, NEW s \in Sockets, NEW t \in Trans,
             HandshakeWebsocket(c, s, t)
      PROVE  FreshIsEmpty' /\ InOrder'
  BY <1>3, HandshakeKeepsFresh DEF HandshakeWebsocket, CreateSocket
<1>4. ASSUME NEW c \in Conns, NEW s \in Sockets, NEW t \in Trans, NEW u \in Trans,
             NEW ok \in BOOLEAN, HandshakeUpgrade(c, s, t, u, ok)
      PROVE  FreshIsEmpty' /\ InOrder'
  BY <1>4, HandshakeKeepsFresh DEF HandshakeUpgrade, CreateSocket
<1>5. ASSUME NEW c \in Conns, NEW i \in Sids, HandlePollRequest(c, i)
      PROVE  FreshIsEmpty' /\ InOrder'
  <2> DEFINE s == sockets[i]
  <2>1. InOrder'
    BY <1>5, PollInOrder DEF OrderInv
  <2>2. s \in Sockets /\ ~Fresh(s)
    BY <1>5 DEF HandlePollRequest, Verified, OrderInv, IInv, TypeOK, Objects
  <2>3. \A z \in Sockets : z # s => buffer'[z] = buffer[z] /\ wire'[z] = wire[z]
    BY <1>5, <2>2, FlushFrame DEF HandlePollRequest, OrderInv, IInv
  <2>4. sidOf' = sidOf
    BY <1>5 DEF HandlePollRequest, identVars
  <2> QED
    BY <2>1, <2>2, <2>3, <2>4, FlushKeepsFresh
<1>6. ASSUME NEW t \in Trans, OnPacket(t) \/ OnProbe(t)
      PROVE  FreshIsEmpty' /\ InOrder'
  <2>1. PICK s \in Sockets : Owns(s, t) /\ CreateAndSendPacket(s)
    BY <1>6 DEF OnPacket, OnProbe
  <2>2. sidOf' = sidOf
    BY <1>6 DEF OnPacket, OnProbe, identVars
  <2> QED
    BY <2>1, <2>2, SendOrderInv DEF Owns
<1>7. ASSUME NEW s \in Sockets, SendMessage(s)
      PROVE  FreshIsEmpty' /\ InOrder'
  BY <1>7, SendOrderInv DEF SendMessage, Live, identVars
<1>8. CASE \/ Tick
           \/ \E c \in Conns : AnswerAtOnce(c)
           \/ \E c \in Conns : Unanswered(c)
           \/ \E c \in Conns : UpgradeToPolling(c)
           \/ \E c \in Conns : OnHttpDisconnect(c)
           \/ \E s \in Sockets : Release(s)
  BY <1>8, QuietOrderInv DEF Tick, AnswerAtOnce, Unanswered, UpgradeToPolling, OnHttpDisconnect,
     Release, vars, identVars
<1>9. CASE \/ \E c \in Conns, i \in Sids, u \in Trans, ok \in BOOLEAN, k \in Kinds :
                MaybeUpgrade(c, i, u, ok, k)
           \/ \E t \in Trans : OnUpgrade(t)
           \/ \E t \in Trans : OnUnexpected(t)
           \/ \E t \in Trans : HandleError(t)
           \/ \E t \in Trans : OnDangling(t)
           \/ \E t \in Trans : OnCloseMessage(t)
           \/ \E t \in Trans : OnDisconnect(t)
  BY <1>9, QuietOrderInv DEF MaybeUpgrade, OnUpgrade, OnUnexpected, HandleError, OnDangling,
     OnCloseMessage, OnDisconnect, identVars
<1> QED
  BY <1>1, <1>2, <1>3, <1>4, <1>5, <1>6, <1>7, <1>8, <1>9 DEF Next

\* Packets leave in the order they were created and none leaves twice, over
\* any sequence of polls, upgrades and lost connections.
THEOREM OrderOfDelivery == Spec => []InOrder
<1>1. Init => OrderInv
  <2>1. Init => FreshIsEmpty
    BY DEF Init, FreshIsEmpty
  <2>2. Init => InOrder
    BY DEF Init, InOrder, Ordered
  <2> QED
    BY <2>1, <2>2, InitIInv DEF OrderInv
<1>2. OrderInv => InOrder
  BY DEF OrderInv
<1> QED
  BY <1>1, <1>2, NextOrderInv, PTL DEF Spec

---------------------------------------------------------------------------
(* What Session delivers: it implements Delivery, loses nothing while      *)
(* connections stay up, stalls after an upgrade only, and moves to usable  *)
(* websockets only.                                                        *)

\* The transports of a Socket.
Owned(s) == {transport[s], upgradingTransport[s]} \ {NoTran}

\* A transport belongs to one Socket, and a Socket not yet created has none.
Ownership ==
  /\ \A s \in Sockets : Fresh(s) => Owned(s) = {} /\ made[s] = 0
  /\ \A s \in Sockets : \A t \in Owned(s) : kind[t] # "none"
  /\ \A r, s \in Sockets : r # s => Owned(r) \cap Owned(s) = {}

\* A websocket is writable as soon as it has a connection.
Websockets ==
  \A t \in Trans :
    /\ wsConn[t] # NoConn => kind[t] = "websocket"
    /\ kind[t] = "websocket" => (writable[t] <=> wsConn[t] # NoConn)

\* The inductive invariant.
SendInv == OrderInv /\ Ownership /\ Websockets /\ StallsOnlyAfterUpgrade /\ NoLossWhileConnected

---------------------------------------------------------------------------
(* The steps, by what they do to the queues and the transports.            *)

\* Nothing is sent, no transport changes, and connections only go down.
Quiet ==
  /\ UNCHANGED <<identVars, queueVars, tranVars, pollVars, wsConn>>
  /\ \A c \in Conns : proto'[c] \in {proto[c], "closing", "closed"}

\* A Socket sends a packet on its own transport.
Sending(s) ==
  /\ Live(s) /\ CreateAndSendPacket(s)
  /\ UNCHANGED <<identVars, tranVars, wsConn, proto>>

\* Every step is of one of these kinds.
LEMMA SessionSteps ==
  ASSUME IInv, [Next]_vars
  PROVE  \/ Quiet
         \/ \E s \in Sockets : Sending(s)
         \/ \E c \in Conns, s \in Sockets, t \in Trans, k \in PollingKinds, b \in BOOLEAN :
              HandshakePolling(c, s, t, k, b)
         \/ \E c \in Conns, s \in Sockets, t \in Trans : HandshakeWebsocket(c, s, t)
         \/ \E c \in Conns, s \in Sockets, t, u \in Trans, ok \in BOOLEAN :
              HandshakeUpgrade(c, s, t, u, ok)
         \/ \E c \in Conns, i \in Sids : HandlePollRequest(c, i)
         \/ \E c \in Conns, i \in Sids, u \in Trans, ok \in BOOLEAN, k \in Kinds :
              MaybeUpgrade(c, i, u, ok, k)
         \/ \E t \in Trans : OnUpgrade(t)
<1>0. proto \in [Conns -> {"http", "ws", "closing", "closed"}]
  BY DEF IInv, TypeOK
<1>1. CASE UNCHANGED vars
  BY <1>1 DEF vars, Quiet, connVars
<1>2. CASE \/ Tick
           \/ \E c \in Conns : AnswerAtOnce(c) \/ Unanswered(c) \/ UpgradeToPolling(c)
           \/ \E t \in Trans : OnDangling(t)
           \/ \E s \in Sockets : Release(s)
  BY <1>2 DEF Tick, AnswerAtOnce, Unanswered, UpgradeToPolling, OnDangling, Release, vars,
              connVars, Quiet
<1>3. CASE \E c \in Conns : OnHttpDisconnect(c)
  BY <1>0, <1>3 DEF OnHttpDisconnect, Quiet
<1>4. CASE \E t \in Trans : OnUnexpected(t) \/ HandleError(t)
  BY <1>0, <1>4 DEF OnUnexpected, HandleError, Quiet
<1>5. CASE \E t \in Trans : OnCloseMessage(t) \/ OnDisconnect(t)
  BY <1>0, <1>5 DEF OnCloseMessage, OnDisconnect, connVars, Quiet
<1>6. CASE \E t \in Trans : OnPacket(t) \/ OnProbe(t)
  BY <1>6 DEF OnPacket, OnProbe, Owns, Sending
<1>7. CASE \E s \in Sockets : SendMessage(s)
  BY <1>7 DEF SendMessage, Live, Sending
<1> QED
  BY <1>1, <1>2, <1>3, <1>4, <1>5, <1>6, <1>7 DEF Next

---------------------------------------------------------------------------
(* Flushing.                                                               *)

\* What Flush leaves in the queues and in the transport.
LEMMA FlushEffect ==
  ASSUME TypeOK, NEW s \in Sockets, transport[s] \in Trans,
         NEW ps \in Seq(1..MaxPackets), NEW c \in Conns \cup {NoConn}, NEW w \in BOOLEAN,
         NEW p, NEW new, Flush(s, ps, c, w, p, new)
  PROVE  LET t == transport[s] IN
         /\ \A u \in Trans : u # t => writable'[u] = writable[u]
         /\ writable'[t] = IF CanFlush(w, ps) THEN WritableAfter(kind[t]) ELSE w
         /\ buffer'[s] = Remaining(CanFlush(w, ps), ps)
         /\ wire'[s] = IF CanFlush(w, ps) /\ Sends(c)
                       THEN wire[s] \o Encoded(kind[t], binary[t], ps) ELSE wire[s]
         /\ \A r \in Sockets : r # s => buffer'[r] = buffer[r] /\ wire'[r] = wire[r]
BY DEF Flush, TypeOK

\* What is written and what remains are what there was.
LEMMA FlushLosesNothing ==
  ASSUME TypeOK, NEW s \in Sockets, transport[s] \in Trans, ~Lossy(transport[s]),
         NEW ps \in Seq(1..MaxPackets), NEW c \in Conns \cup {NoConn}, NEW w \in BOOLEAN,
         NEW p, NEW new, Flush(s, ps, c, w, p, new),
         w => Sends(c)
  PROVE  Len(wire'[s]) + Len(buffer'[s]) = Len(wire[s]) + Len(ps)
<1>1. wire[s] \in Seq(1..MaxPackets)
  BY DEF TypeOK
<1>0. /\ buffer'[s] = Remaining(CanFlush(w, ps), ps)
      /\ wire'[s] = IF CanFlush(w, ps) /\ Sends(c)
                    THEN wire[s] \o Encoded(kind[transport[s]], binary[transport[s]], ps) ELSE wire[s]
  BY FlushEffect
<1>2. CASE CanFlush(w, ps)
  <2>0. Sends(c)
    BY <1>2 DEF CanFlush
  <2>1. Encoded(kind[transport[s]], binary[transport[s]], ps) = ps
    BY DEF Lossy, Encoded
  <2>2. wire'[s] = wire[s] \o ps /\ buffer'[s] = <<>>
    BY <1>0, <1>2, <2>0, <2>1 DEF Remaining
  <2>3. Len(wire[s] \o ps) = Len(wire[s]) + Len(ps) /\ Len(<<>>) = 0
    BY <1>1
  <2>4. Len(wire[s]) \in Nat /\ Len(ps) \in Nat
    BY <1>1
  <2> QED
    BY <2>2, <2>3, <2>4
<1>3. CASE ~CanFlush(w, ps)
  BY <1>0, <1>3 DEF Remaining
<1> QED
  BY <1>2, <1>3

\* A packet that remains waits for the transport to become writable.
LEMMA FlushStallsNot ==
  ASSUME IInv, Ownership, StallsOnlyAfterUpgrade,
         NEW s \in Sockets, ~Fresh(s),
         NEW ps \in Seq(1..MaxPackets), NEW c \in Conns \cup {NoConn}, NEW w \in BOOLEAN,
         NEW p, NEW new, Flush(s, ps, c, w, p, new), UNCHANGED identVars
  PROVE  StallsOnlyAfterUpgrade'
<1>1. \A r \in Sockets : ~Fresh(r) => transport[r] \in Trans /\ transport[r] \in Owned(r)
  BY NoneAssumption DEF IInv, Objects, Owned
<1>2. /\ \A u \in Trans : u # transport[s] => writable'[u] = writable[u]
      /\ writable'[transport[s]] = IF CanFlush(w, ps) THEN WritableAfter(kind[transport[s]]) ELSE w
      /\ buffer'[s] = Remaining(CanFlush(w, ps), ps)
      /\ \A r \in Sockets : r # s => buffer'[r] = buffer[r]
  BY <1>1, FlushEffect DEF IInv
<1>3. buffer'[s] # <<>> => ~writable'[transport[s]]
  BY <1>2 DEF CanFlush, Remaining
<1>4. \A r \in Sockets : r # s /\ ~Fresh(r) => transport[r] # transport[s]
  BY <1>1 DEF Ownership
<1>5. \A r \in Sockets : r # s /\ ~Fresh(r) =>
        buffer'[r] = buffer[r] /\ writable'[transport[r]] = writable[transport[r]]
  BY <1>1, <1>2, <1>4
<1> QED
  BY <1>3, <1>5 DEF StallsOnlyAfterUpgrade, identVars, Fresh
---------------------------------------------------------------------------
(* One lemma for each part of the invariant.                               *)

\* A request with a sid finds a created Socket.
LEMMA Found ==
  ASSUME IInv, NEW i \in Sids, sockets[i] # NoSocket
  PROVE  /\ sockets[i] \in Sockets /\ ~Fresh(sockets[i])
         /\ transport[sockets[i]] \in Trans /\ kind[transport[sockets[i]]] # "none"
BY DEF IInv, TypeOK, Objects

\* Transports are not shared, as only fresh ones are handed out.
LEMMA OwnershipStep ==
  ASSUME IInv, Ownership, [Next]_vars
  PROVE  Ownership'
<1>0. /\ transport \in [Sockets -> Trans \cup {NoTran}] /\ NoTran \notin Trans
      /\ upgradingTransport \in [Sockets -> Trans \cup {NoTran}]
      /\ kind \in [Trans -> Kinds \cup {"none"}] /\ "none" \notin Kinds
      /\ made \in [Sockets -> 0..MaxPackets] /\ sidOf \in [Sockets -> Sids \cup {NoSid}]
      /\ sidNow \in Sids /\ NoSid \notin Sids
  BY NoneAssumption DEF IInv, TypeOK, Kinds, PollingKinds
<1>1. CASE Quiet
  BY <1>1 DEF Quiet, Ownership, Owned, Fresh, identVars, queueVars, tranVars
<1>2. ASSUME NEW s \in Sockets, Sending(s) PROVE Ownership'
  <2>1. ~Fresh(s)
    BY <1>2, LiveIsCreated DEF Sending, IInv
  <2>2. \A r \in Sockets : r # s => made'[r] = made[r]
    BY <1>0, <1>2 DEF Sending, CreateAndSendPacket
  <2> QED
    BY <1>2, <2>1, <2>2 DEF Sending, Ownership, Owned, Fresh, identVars, tranVars
<1>3. ASSUME NEW s \in Sockets, NEW t \in Trans, Fresh(s), FreshTran(t), CreateSocket(s, t),
             \/ UNCHANGED upgradingTransport
             \/ \E u \in Trans \ {t} : /\ FreshTran(u) /\ kind'[u] # "none"
                                 /\ upgradingTransport' = [upgradingTransport EXCEPT ![s] = u],
             kind'[t] # "none", \A v \in Trans : kind[v] # "none" => kind'[v] # "none"
      PROVE  Ownership'
  <2>1. \A r \in Sockets : r # s =>
          Owned(r)' = Owned(r) /\ Fresh(r)' = Fresh(r) /\ made'[r] = made[r]
    BY <1>0, <1>3 DEF CreateSocket, Owned, Fresh
  <2>2. ~Fresh(s)'
    BY <1>0, <1>3 DEF CreateSocket, Fresh
  <2>3. \A v \in Owned(s)' : v \in Trans /\ FreshTran(v) /\ kind'[v] # "none"
    BY <1>0, <1>3, SMTT(30) DEF CreateSocket, Owned, Ownership
  <2>4. \A r \in Sockets : \A v \in Owned(r) : v \in Trans /\ ~FreshTran(v)
    BY <1>0 DEF Ownership, Owned, FreshTran
  <2>5. \A r \in Sockets : r # s => Owned(r)' \cap Owned(s)' = {}
    BY <2>1, <2>3, <2>4
  <2>6. \A r \in Sockets : \A v \in Owned(r)' : kind'[v] # "none"
    BY <1>3, <2>1, <2>3, <2>4 DEF FreshTran
  <2>7. \A r, z \in Sockets : r # z => Owned(r)' \cap Owned(z)' = {}
    BY <2>1, <2>5 DEF Ownership
  <2>8. \A r \in Sockets : Fresh(r)' => Owned(r)' = {} /\ made'[r] = 0
    BY <2>1, <2>2 DEF Ownership
  <2> QED
    BY <2>6, <2>7, <2>8 DEF Ownership
<1>4. CASE \E c \in Conns, s \in Sockets, t \in Trans, k \in PollingKinds, b \in BOOLEAN :
             HandshakePolling(c, s, t, k, b)
  <2>0. PICK c \in Conns, s \in Sockets, t \in Trans, k \in PollingKinds, b \in BOOLEAN :
             HandshakePolling(c, s, t, k, b)
    BY <1>4
  <2>1. /\ Fresh(s) /\ FreshTran(t) /\ CreateSocket(s, t)
        /\ kind' = [kind EXCEPT ![t] = k] /\ UNCHANGED upgradingTransport
    BY <2>0 DEF HandshakePolling
  <2>2. kind'[t] # "none" /\ \A v \in Trans : kind[v] # "none" => kind'[v] # "none"
    BY <1>0, <2>1 DEF PollingKinds
  <2> QED
    BY <1>3, <2>1, <2>2
<1>5. CASE \E c \in Conns, s \in Sockets, t \in Trans : HandshakeWebsocket(c, s, t)
  BY <1>0, <1>3, <1>5 DEF HandshakeWebsocket
<1>6. ASSUME NEW c \in Conns, NEW s \in Sockets, NEW t \in Trans, NEW u \in Trans,
             NEW ok \in BOOLEAN, HandshakeUpgrade(c, s, t, u, ok)
      PROVE  Ownership'
  <2>1. /\ Fresh(s) /\ FreshTran(t) /\ FreshTran(u) /\ t # u /\ CreateSocket(s, t)
        /\ kind' = [kind EXCEPT ![t] = "websocket", ![u] = "websocket"]
        /\ upgradingTransport' = [upgradingTransport EXCEPT ![s] = u]
    BY <1>6 DEF HandshakeUpgrade, Attach
  <2>2. kind'[t] = "websocket" /\ kind'[u] = "websocket"
    BY <1>0, <2>1
  <2>3. \A v \in Trans : kind[v] # "none" => kind'[v] # "none"
    BY <1>0, <2>1
  <2> QED
    BY <1>3, <2>1, <2>2, <2>3
<1>7. CASE \E c \in Conns, i \in Sids : HandlePollRequest(c, i)
  BY <1>7 DEF HandlePollRequest, Ownership, Owned, Fresh, identVars, tranVars
<1>8. ASSUME NEW c \in Conns, NEW i \in Sids, NEW u \in Trans, NEW ok \in BOOLEAN, NEW k \in Kinds,
             MaybeUpgrade(c, i, u, ok, k)
      PROVE  Ownership'
  <2>0. PICK s \in Sockets : s = sockets[i] /\ ~Fresh(s)
    BY <1>8, Found DEF MaybeUpgrade, Verified
  <2>1. ~Fresh(s) /\ FreshTran(u)
    BY <1>8, <2>0 DEF MaybeUpgrade
  <2>2. /\ upgradingTransport' = [upgradingTransport EXCEPT ![s] = u]
        /\ kind' = [kind EXCEPT ![u] = k] /\ UNCHANGED <<sidOf, transport, made>>
    BY <1>8, <2>0 DEF MaybeUpgrade, Attach, queueVars
  <2>3. \A r \in Sockets : r # s => Owned(r)' = Owned(r)
    BY <1>0, <2>2 DEF Owned
  <2>4. Owned(s)' \subseteq Owned(s) \cup {u}
    BY <1>0, <2>1, <2>2 DEF Owned
  <2>5. \A r \in Sockets : u \notin Owned(r)
    BY <2>1 DEF Ownership, FreshTran
  <2>6. \A r, z \in Sockets : r # z => Owned(r)' \cap Owned(z)' = {}
    BY <2>3, <2>4, <2>5 DEF Ownership
  <2>7. \A v \in Trans : kind[v] # "none" => kind'[v] # "none"
    BY <1>0, <2>2
  <2>8. kind'[u] # "none" /\ \A r \in Sockets : Owned(r) \subseteq Trans
    BY <1>0, <2>2 DEF Owned
  <2>9. \A r \in Sockets : \A v \in Owned(r)' : kind'[v] # "none"
    BY <2>3, <2>4, <2>7, <2>8 DEF Ownership
  <2>10. \A r \in Sockets : Fresh(r)' => Owned(r)' = {} /\ made'[r] = 0
    BY <2>1, <2>2, <2>3 DEF Ownership, Fresh
  <2> QED
    BY <2>6, <2>9, <2>10 DEF Ownership
<1>9. ASSUME NEW t \in Trans, OnUpgrade(t) PROVE Ownership'
  <2>1. PICK s \in Sockets :
          /\ Owns(s, t)
          /\ transport' = [transport EXCEPT ![s] = upgradingTransport[s]]
    BY <1>9 DEF OnUpgrade
  <2>2. UNCHANGED <<sidOf, upgradingTransport, made, kind>>
    BY <1>9 DEF OnUpgrade, queueVars
  <2>3. ~Fresh(s)
    BY <2>1, LiveIsCreated DEF IInv, Owns
  <2>4. \A r \in Sockets : Owned(r)' \subseteq Owned(r)
    BY <1>0, <2>1, <2>2 DEF Owned
  <2> QED
    BY <2>2, <2>4 DEF Ownership, Fresh
<1> QED
  BY <1>1, <1>2, <1>4, <1>5, <1>6, <1>7, <1>8, <1>9, SessionSteps

\* A websocket gets its connection and becomes writable in one step.
LEMMA WebsocketsStep ==
  ASSUME IInv, Websockets, [Next]_vars
  PROVE  Websockets'
<1>0. /\ kind \in [Trans -> Kinds \cup {"none"}] /\ wsConn \in [Trans -> Conns \cup {NoConn}]
      /\ writable \in [Trans -> BOOLEAN] /\ NoConn \notin Conns
      /\ \A t \in Trans : kind[t] = "none" => ~writable[t] /\ wsConn[t] = NoConn
  BY NoneAssumption DEF IInv, TypeOK, Objects, Websockets
<1>1. CASE Quiet
  BY <1>1 DEF Quiet, Websockets, tranVars, pollVars
<1>2. ASSUME NEW s \in Sockets, NEW ps \in Seq(1..MaxPackets), NEW c \in Conns \cup {NoConn},
             NEW w \in BOOLEAN, NEW p, NEW new, Flush(s, ps, c, w, p, new), transport[s] \in Trans,
             kind[transport[s]] = "websocket" => w = writable[transport[s]],
             UNCHANGED <<kind, wsConn>>
      PROVE  Websockets'
  <2>1. /\ \A u \in Trans : u # transport[s] => writable'[u] = writable[u]
        /\ writable'[transport[s]] = IF CanFlush(w, ps) THEN WritableAfter(kind[transport[s]]) ELSE w
    BY <1>2, FlushEffect DEF IInv
  <2>2. \A u \in Trans : kind[u] = "websocket" => writable'[u] = writable[u]
    BY <1>0, <1>2, <2>1 DEF CanFlush, WritableAfter
  <2> QED
    BY <1>2, <2>2 DEF Websockets
<1>3. ASSUME NEW s \in Sockets, Sending(s) PROVE Websockets'
  <2> DEFINE ps == Append(buffer[s], made[s] + 1)
  <2>1. transport[s] \in Trans /\ UNCHANGED <<kind, wsConn>>
    BY <1>3, LiveIsCreated DEF Sending, tranVars, IInv
  <2>2. ps \in Seq(1..MaxPackets)
    <3>1. made[s] \in 0..MaxPackets /\ made[s] < MaxPackets /\ buffer[s] \in Seq(1..MaxPackets)
      BY <1>3 DEF Sending, CreateAndSendPacket, IInv, TypeOK
    <3>2. made[s] + 1 \in 1..MaxPackets
      BY <3>1, BoundAssumption
    <3> QED
      BY <3>1, <3>2
  <2>4. Flush(s, ps, Out(transport[s]), writable[transport[s]], parked[transport[s]], 0)
    BY <1>3 DEF Sending, CreateAndSendPacket
  <2>3. Out(transport[s]) \in Conns \cup {NoConn} /\ writable[transport[s]] \in BOOLEAN
    BY <2>1 DEF Out, IInv, TypeOK
  <2> HIDE DEF ps
  <2> QED
    BY <1>2, <2>1, <2>2, <2>3, <2>4
<1>4. CASE \E c \in Conns, s \in Sockets, t \in Trans, k \in PollingKinds, b \in BOOLEAN :
             HandshakePolling(c, s, t, k, b)
  BY <1>0, <1>4 DEF HandshakePolling, PollingKinds, FreshTran, Websockets
<1>5. CASE \E c \in Conns, s \in Sockets, t \in Trans : HandshakeWebsocket(c, s, t)
  BY <1>0, <1>5 DEF HandshakeWebsocket, FreshTran, Websockets, pollVars, connVars
<1>6. CASE \E c \in Conns, s \in Sockets, t, u \in Trans, ok \in BOOLEAN :
             HandshakeUpgrade(c, s, t, u, ok)
  BY <1>0, <1>6 DEF HandshakeUpgrade, Attach, WritableOnceAccepted, FreshTran, Websockets
<1>7. CASE \E c \in Conns, i \in Sids : HandlePollRequest(c, i)
  <2>1. PICK c \in Conns, i \in Sids : HandlePollRequest(c, i)
    BY <1>7
  <2> DEFINE s == sockets[i]
  <2>2. /\ s \in Sockets /\ transport[s] \in Trans /\ Flush(s, buffer[s], c, TRUE, TRUE, 1)
        /\ kind[transport[s]] # "websocket" /\ UNCHANGED <<kind, wsConn>>
    BY <2>1, Found DEF HandlePollRequest, Verified, NameOf, PollingKinds, tranVars
  <2>3. buffer[s] \in Seq(1..MaxPackets)
    BY <2>2 DEF IInv, TypeOK
  <2> HIDE DEF s
  <2> QED
    BY <1>2, <2>2, <2>3
<1>8. CASE \E c \in Conns, i \in Sids, u \in Trans, ok \in BOOLEAN, k \in Kinds :
             MaybeUpgrade(c, i, u, ok, k)
  BY <1>0, <1>8 DEF MaybeUpgrade, Attach, WritableOnceAccepted, FreshTran, Websockets
<1>9. CASE \E t \in Trans : OnUpgrade(t)
  BY <1>9 DEF OnUpgrade, Websockets, pollVars, connVars
<1> QED
  BY <1>1, <1>3, <1>4, <1>5, <1>6, <1>7, <1>8, <1>9, SessionSteps

\* What a Socket sends on: the packets and the connection of its flush.
LEMMA SendingFlushes ==
  ASSUME IInv, Websockets, NEW s \in Sockets, Sending(s)
  PROVE  LET t == transport[s]
             ps == Append(buffer[s], made[s] + 1) IN
         /\ ~Fresh(s) /\ t \in Trans /\ kind[t] # "none"
         /\ ps \in Seq(1..MaxPackets) /\ Len(ps) = Len(buffer[s]) + 1
         /\ Out(t) \in Conns \cup {NoConn} /\ writable[t] \in BOOLEAN
         /\ Flush(s, ps, Out(t), writable[t], parked[t], 0)
         /\ writable[t] /\ kind[t] # "jsonp" => Out(t) # NoConn
         /\ made[s] + 1 \in 1..MaxPackets
         /\ made' = [made EXCEPT ![s] = made[s] + 1]
         /\ UNCHANGED <<identVars, kind, binary, proto>>
<1> DEFINE t == transport[s]
           ps == Append(buffer[s], made[s] + 1)
<1>1. ~Fresh(s) /\ t \in Trans /\ kind[t] # "none"
  BY LiveIsCreated DEF Sending, IInv
<1>2. made[s] \in 0..MaxPackets /\ made[s] < MaxPackets /\ buffer[s] \in Seq(1..MaxPackets)
  BY DEF Sending, CreateAndSendPacket, IInv, TypeOK
<1>3. made[s] + 1 \in 1..MaxPackets
  BY <1>2, BoundAssumption
<1>4. ps \in Seq(1..MaxPackets) /\ Len(ps) = Len(buffer[s]) + 1
  BY <1>2, <1>3
<1>5. Out(t) \in Conns \cup {NoConn} /\ writable[t] \in BOOLEAN
  BY <1>1 DEF Out, IInv, TypeOK
<1>6. /\ Flush(s, ps, Out(t), writable[t], parked[t], 0)
      /\ made' = [made EXCEPT ![s] = made[s] + 1]
      /\ UNCHANGED <<identVars, kind, binary, proto>>
  BY DEF Sending, CreateAndSendPacket, tranVars
<1>7. ASSUME writable[t], kind[t] # "jsonp" PROVE Out(t) # NoConn
  <2>1. CASE kind[t] = "websocket"
    BY <1>1, <1>7, <2>1 DEF Out, Websockets
  <2>2. CASE kind[t] = "xhr"
    <3>1. parked[t]
      BY <1>1, <1>7, <2>2 DEF IInv, Polls, WritableHasPoll
    <3> QED
      BY <1>1, <2>2, <3>1 DEF Out, IInv, Polls, ParkedPollIsAwaited
  <2>3. kind[t] \in {"xhr", "jsonp", "websocket", "none"}
    BY <1>1 DEF IInv, TypeOK, Kinds, PollingKinds
  <2> QED
    BY <1>1, <1>7, <2>1, <2>2, <2>3
<1> HIDE DEF t, ps
<1>8. writable[t] /\ kind[t] # "jsonp" => Out(t) # NoConn
  BY <1>7
<1> QED
  BY <1>1, <1>3, <1>4, <1>5, <1>6, <1>8 DEF t, ps

\* What a poll flushes.
LEMMA PollFlushes ==
  ASSUME IInv, NEW c \in Conns, NEW i \in Sids, HandlePollRequest(c, i)
  PROVE  \E s \in Sockets :
           /\ ~Fresh(s) /\ transport[s] \in Trans
           /\ buffer[s] \in Seq(1..MaxPackets)
           /\ Flush(s, buffer[s], c, TRUE, TRUE, 1)
           /\ UNCHANGED <<identVars, made, kind, binary, proto>>
<1>1. sockets[i] \in Sockets /\ ~Fresh(sockets[i]) /\ transport[sockets[i]] \in Trans
  BY Found DEF HandlePollRequest, Verified
<1>2. buffer[sockets[i]] \in Seq(1..MaxPackets)
  BY <1>1 DEF IInv, TypeOK
<1>3. /\ Flush(sockets[i], buffer[sockets[i]], c, TRUE, TRUE, 1)
      /\ UNCHANGED <<identVars, made, kind, binary, proto>>
  BY DEF HandlePollRequest, tranVars
<1> QED
  BY <1>1, <1>2, <1>3

\* Only OnUpgrade makes a transport writable without a flush.
LEMMA StallStep ==
  ASSUME OrderInv, Ownership, Websockets, StallsOnlyAfterUpgrade, [Next]_vars
  PROVE  StallsOnlyAfterUpgrade'
<1>0. /\ IInv /\ FreshIsEmpty
      /\ transport \in [Sockets -> Trans \cup {NoTran}] /\ sidOf \in [Sockets -> Sids \cup {NoSid}]
      /\ upgraded \in [Sockets -> BOOLEAN] /\ buffer \in [Sockets -> Seq(1..MaxPackets)]
      /\ writable \in [Trans -> BOOLEAN]
      /\ \A t \in Trans : kind[t] = "none" => ~writable[t]
      /\ \A r \in Sockets : ~Fresh(r) => transport[r] \in Trans /\ kind[transport[r]] # "none"
  BY DEF OrderInv, IInv, TypeOK, Objects
<1>1. CASE Quiet
  BY <1>1 DEF Quiet, StallsOnlyAfterUpgrade, Fresh, identVars, queueVars, pollVars
<1>2. ASSUME NEW s \in Sockets, Sending(s) PROVE StallsOnlyAfterUpgrade'
  <2> DEFINE t == transport[s]
             ps == Append(buffer[s], made[s] + 1)
  <2>1. /\ ~Fresh(s) /\ ps \in Seq(1..MaxPackets)
        /\ Out(t) \in Conns \cup {NoConn} /\ writable[t] \in BOOLEAN
        /\ Flush(s, ps, Out(t), writable[t], parked[t], 0)
        /\ UNCHANGED identVars
    BY <1>0, <1>2, SendingFlushes
  <2> HIDE DEF t, ps
  <2> QED
    BY <1>0, <2>1, FlushStallsNot
<1>3. ASSUME NEW s \in Sockets, NEW t \in Trans, Fresh(s), CreateSocket(s, t),
             \A r \in Sockets : r # s => buffer'[r] = buffer[r],
             \A v \in Trans : kind[v] # "none" => writable'[v] = writable[v],
             buffer'[s] = <<>> \/ ~writable'[t]
      PROVE  StallsOnlyAfterUpgrade'
  <2>1. /\ transport'[s] = t
        /\ \A r \in Sockets : r # s =>
             transport'[r] = transport[r] /\ Fresh(r)' = Fresh(r) /\ upgraded'[r] = upgraded[r]
    BY <1>0, <1>3 DEF CreateSocket, Fresh
  <2>2. \A r \in Sockets : r # s /\ ~Fresh(r) => writable'[transport'[r]] = writable[transport[r]]
    BY <1>0, <1>3, <2>1
  <2>3. \A r \in Sockets : r # s /\ ~Fresh(r)' /\ buffer'[r] # <<>> /\ writable'[transport'[r]] => upgraded'[r]
    BY <1>3, <2>1, <2>2 DEF StallsOnlyAfterUpgrade
  <2>4. ~(buffer'[s] # <<>> /\ writable'[transport'[s]])
    BY <1>3, <2>1
  <2> QED
    BY <2>3, <2>4 DEF StallsOnlyAfterUpgrade
<1>4. ASSUME NEW c \in Conns, NEW s \in Sockets, NEW t \in Trans, NEW k \in PollingKinds,
             NEW b \in BOOLEAN, HandshakePolling(c, s, t, k, b)
      PROVE  StallsOnlyAfterUpgrade'
  <2>1. /\ Fresh(s) /\ FreshTran(t) /\ CreateSocket(s, t) /\ buffer' = buffer
        /\ writable' = [writable EXCEPT ![t] = WritableAfter(k)]
    BY <1>4 DEF HandshakePolling
  <2>2. buffer'[s] = <<>>
    BY <1>0, <2>1 DEF FreshIsEmpty
  <2>3. \A v \in Trans : kind[v] # "none" => writable'[v] = writable[v]
    BY <1>0, <2>1 DEF FreshTran
  <2> QED
    BY <1>3, <2>1, <2>2, <2>3
<1>5. ASSUME NEW c \in Conns, NEW s \in Sockets, NEW t \in Trans, HandshakeWebsocket(c, s, t)
      PROVE  StallsOnlyAfterUpgrade'
  <2>1. /\ Fresh(s) /\ FreshTran(t) /\ CreateSocket(s, t) /\ buffer' = [buffer EXCEPT ![s] = << 1 >>]
        /\ writable' = writable
    BY <1>5 DEF HandshakeWebsocket, pollVars
  <2>2. ~writable'[t] /\ \A r \in Sockets : r # s => buffer'[r] = buffer[r]
    BY <1>0, <2>1 DEF FreshTran
  <2> QED
    BY <1>3, <2>1, <2>2
<1>6. ASSUME NEW c \in Conns, NEW s \in Sockets, NEW t \in Trans, NEW u \in Trans,
             NEW ok \in BOOLEAN, HandshakeUpgrade(c, s, t, u, ok)
      PROVE  StallsOnlyAfterUpgrade'
  <2>1. /\ Fresh(s) /\ FreshTran(t) /\ FreshTran(u) /\ t # u /\ CreateSocket(s, t)
        /\ buffer' = [buffer EXCEPT ![s] = << 1 >>]
        /\ writable' = [writable EXCEPT ![u] = WritableOnceAccepted(ok)]
    BY <1>6 DEF HandshakeUpgrade, Attach
  <2>2. /\ ~writable'[t] /\ \A r \in Sockets : r # s => buffer'[r] = buffer[r]
        /\ \A v \in Trans : kind[v] # "none" => writable'[v] = writable[v]
    BY <1>0, <2>1 DEF FreshTran
  <2> QED
    BY <1>3, <2>1, <2>2
<1>7. CASE \E c \in Conns, i \in Sids : HandlePollRequest(c, i)
  <2>1. PICK c \in Conns, s \in Sockets :
          /\ ~Fresh(s) /\ buffer[s] \in Seq(1..MaxPackets)
          /\ Flush(s, buffer[s], c, TRUE, TRUE, 1)
          /\ UNCHANGED identVars
    BY <1>0, <1>7, PollFlushes
  <2> QED
    BY <1>0, <2>1, FlushStallsNot
<1>8. ASSUME NEW c \in Conns, NEW i \in Sids, NEW u \in Trans, NEW ok \in BOOLEAN, NEW k \in Kinds,
             MaybeUpgrade(c, i, u, ok, k)
      PROVE  StallsOnlyAfterUpgrade'
  <2>1. /\ FreshTran(u) /\ UNCHANGED <<sidOf, transport, upgraded, buffer>>
        /\ writable' = [writable EXCEPT ![u] = WritableOnceAccepted(ok)]
    BY <1>8 DEF MaybeUpgrade, Attach, queueVars
  <2>2. \A r \in Sockets : ~Fresh(r) => writable'[transport[r]] = writable[transport[r]]
    BY <1>0, <2>1 DEF FreshTran
  <2> QED
    BY <2>1, <2>2 DEF StallsOnlyAfterUpgrade, Fresh
<1>9. ASSUME NEW t \in Trans, OnUpgrade(t) PROVE StallsOnlyAfterUpgrade'
  <2>1. PICK s \in Sockets :
          /\ upgraded' = [upgraded EXCEPT ![s] = TRUE]
          /\ transport' = [transport EXCEPT ![s] = upgradingTransport[s]]
    BY <1>9 DEF OnUpgrade
  <2>2. UNCHANGED <<sidOf, buffer, writable>>
    BY <1>9 DEF OnUpgrade, queueVars, pollVars
  <2>3. upgraded'[s] /\ \A r \in Sockets : r # s => upgraded'[r] = upgraded[r] /\ transport'[r] = transport[r]
    BY <1>0, <2>1
  <2> QED
    BY <2>2, <2>3 DEF StallsOnlyAfterUpgrade, Fresh
<1> QED
  BY <1>0, <1>1, <1>2, <1>4, <1>5, <1>6, <1>7, <1>8, <1>9, SessionSteps

\* All connections are up, and every transport packs all packets.
Lossless ==
  /\ \A c \in Conns : proto[c] \in {"http", "ws"}
  /\ \A t \in Trans : ~Lossy(t)

\* The packets of s are all sent or waiting.
Kept(s) == Len(wire[s]) + Len(buffer[s]) = made[s]

\* What leaves the write buffer is written, while connections are up.
LEMMA LossStep ==
  ASSUME OrderInv, Ownership, Websockets, NoLossWhileConnected, [Next]_vars
  PROVE  NoLossWhileConnected'
<1>0. /\ IInv /\ TypeOK /\ FreshIsEmpty
      /\ kind \in [Trans -> Kinds \cup {"none"}] /\ binary \in [Trans -> BOOLEAN]
      /\ proto \in [Conns -> {"http", "ws", "closing", "closed"}]
      /\ made \in [Sockets -> 0..MaxPackets] /\ buffer \in [Sockets -> Seq(1..MaxPackets)]
      /\ wire \in [Sockets -> Seq(1..MaxPackets)]
  BY DEF OrderInv, IInv, TypeOK
<1>00. NoLossWhileConnected <=> (Lossless => \A s \in Sockets : Kept(s))
  BY DEF NoLossWhileConnected, Lossless, Kept
<1> SUFFICES ASSUME Lossless' PROVE \A s \in Sockets : Kept(s)'
  BY DEF NoLossWhileConnected, Lossless, Kept
<1>1. CASE Quiet
  <2>1. Lossless
    BY <1>0, <1>1 DEF Quiet, Lossless, Lossy, tranVars
  <2> QED
    BY <1>00, <1>1, <2>1 DEF Quiet, queueVars, Kept
<1>2. ASSUME Lossless, NEW s \in Sockets, transport[s] \in Trans,
             NEW ps \in Seq(1..MaxPackets), NEW c \in Conns \cup {NoConn}, NEW w \in BOOLEAN,
             NEW p, NEW new, Flush(s, ps, c, w, p, new), w => c # NoConn,
             made'[s] = made[s] + (Len(ps) - Len(buffer[s])),
             \A r \in Sockets : r # s => made'[r] = made[r]
      PROVE  \A r \in Sockets : Kept(r)'
  <2>1. w => Sends(c)
    BY <1>2 DEF Lossless, Sends
  <2>2. Len(wire'[s]) + Len(buffer'[s]) = Len(wire[s]) + Len(ps)
    BY <1>0, <1>2, <2>1, FlushLosesNothing DEF Lossless
  <2>3. \A r \in Sockets : r # s => buffer'[r] = buffer[r] /\ wire'[r] = wire[r]
    BY <1>0, <1>2, FlushFrame
  <2>4. \A r \in Sockets : Kept(r)
    BY <1>00, <1>2
  <2>5. /\ Len(wire[s]) \in Nat /\ Len(buffer[s]) \in Nat /\ Len(ps) \in Nat /\ made[s] \in Int
        /\ Len(wire[s]) + Len(buffer[s]) = made[s]
    BY <1>0, <2>4 DEF Kept
  <2>6. Kept(s)'
    <3> DEFINE n == Len(ps)
               b == Len(buffer[s])
               x == Len(wire[s])
    <3>1. n \in Nat /\ b \in Nat /\ x \in Nat /\ made[s] = x + b /\ made'[s] = made[s] + (n - b)
      BY <1>2, <2>5
    <3>2. made'[s] = x + n
      <4> HIDE DEF n, b, x
      <4> QED
        BY <3>1
    <3> QED
      BY <2>2, <3>2, Zenon DEF Kept
  <2>7. \A r \in Sockets : r # s => Kept(r)'
    BY <1>2, <2>3, <2>4 DEF Kept
  <2> QED
    BY <2>6, <2>7
<1>3. ASSUME NEW s \in Sockets, Sending(s) PROVE \A r \in Sockets : Kept(r)'
  <2> DEFINE t == transport[s]
             ps == Append(buffer[s], made[s] + 1)
  <2>1. /\ t \in Trans /\ kind[t] # "none"
        /\ ps \in Seq(1..MaxPackets) /\ Len(ps) = Len(buffer[s]) + 1
        /\ Out(t) \in Conns \cup {NoConn} /\ writable[t] \in BOOLEAN
        /\ Flush(s, ps, Out(t), writable[t], parked[t], 0)
        /\ writable[t] /\ kind[t] # "jsonp" => Out(t) # NoConn
        /\ made' = [made EXCEPT ![s] = made[s] + 1]
        /\ UNCHANGED <<kind, binary, proto>>
    BY <1>0, <1>3, SendingFlushes
  <2>2. Lossless
    BY <2>1 DEF Lossless, Lossy
  <2>3. writable[t] => Out(t) # NoConn
    BY <2>1, <2>2 DEF Lossless, Lossy
  <2>4. Len(ps) - Len(buffer[s]) = 1
    <3>1. Len(buffer[s]) \in Nat
      BY <1>0
    <3> HIDE DEF ps
    <3> QED
      BY <2>1, <3>1
  <2>5. /\ made'[s] = made[s] + (Len(ps) - Len(buffer[s]))
        /\ \A r \in Sockets : r # s => made'[r] = made[r]
    BY <1>0, <2>1, <2>4
  <2> HIDE DEF t, ps
  <2>6. transport[s] \in Trans
    BY <2>1 DEF t
  <2> QED
    BY <1>2, <2>1, <2>2, <2>3, <2>5, <2>6
<1>4. CASE \E c \in Conns, i \in Sids : HandlePollRequest(c, i)
  <2>1. PICK c \in Conns, s \in Sockets :
           /\ transport[s] \in Trans
           /\ buffer[s] \in Seq(1..MaxPackets)
           /\ Flush(s, buffer[s], c, TRUE, TRUE, 1)
           /\ UNCHANGED <<made, kind, binary, proto>>
    BY <1>0, <1>4, PollFlushes
  <2>2. Lossless
    BY <2>1 DEF Lossless, Lossy
  <2>3. made'[s] = made[s] + (Len(buffer[s]) - Len(buffer[s]))
    <3>1. Len(buffer[s]) \in Nat /\ made[s] \in Int
      BY <1>0
    <3> QED
      BY <2>1, <3>1
  <2>4. c \in Conns \cup {NoConn} /\ c # NoConn
    BY NoneAssumption
  <2> QED
    BY <1>2, <2>1, <2>2, <2>3, <2>4
<1>5. ASSUME NEW s \in Sockets, Fresh(s), CreateSocket(s, transport'[s]), Lossless,
             \A r \in Sockets : r # s => buffer'[r] = buffer[r] /\ wire'[r] = wire[r],
             \/ buffer'[s] = <<>> /\ wire'[s] = << 1 >>
             \/ buffer'[s] = << 1 >> /\ wire'[s] = <<>>
      PROVE  \A r \in Sockets : Kept(r)'
  <2>1. made'[s] = 1 /\ \A r \in Sockets : r # s => made'[r] = made[r]
    BY <1>0, <1>5 DEF CreateSocket
  <2>2. Len(<<>>) = 0 /\ Len(<< 1 >>) = 1
    OBVIOUS
  <2>3. Kept(s)'
    <3>1. Len(wire'[s]) + Len(buffer'[s]) = 1
      <4>1. CASE buffer'[s] = <<>> /\ wire'[s] = << 1 >>
        <5>1. Len(buffer'[s]) = 0 /\ Len(wire'[s]) = 1
          BY <2>2, <4>1, Zenon
        <5> QED
          BY <5>1
      <4>2. CASE buffer'[s] = << 1 >> /\ wire'[s] = <<>>
        <5>1. Len(buffer'[s]) = 1 /\ Len(wire'[s]) = 0
          BY <2>2, <4>2, Zenon
        <5> QED
          BY <5>1
      <4> QED
        BY <1>5, <4>1, <4>2
    <3> QED
      BY <2>1, <3>1 DEF Kept
  <2>4. \A r \in Sockets : r # s => Kept(r)'
    BY <1>00, <1>5, <2>1 DEF Kept
  <2> QED
    BY <2>3, <2>4
<1>6. ASSUME NEW c \in Conns, NEW s \in Sockets, NEW t \in Trans, NEW k \in PollingKinds,
             NEW b \in BOOLEAN, HandshakePolling(c, s, t, k, b)
      PROVE  \A r \in Sockets : Kept(r)'
  <2>1. /\ Fresh(s) /\ kind[t] = "none" /\ CreateSocket(s, t) /\ UNCHANGED <<buffer, proto>>
        /\ kind' = [kind EXCEPT ![t] = k] /\ binary' = [binary EXCEPT ![t] = b]
        /\ wire' = [wire EXCEPT ![s] = IF k = "xhr" THEN << 1 >> ELSE <<>>]
    BY <1>6 DEF HandshakePolling, FreshTran
  <2>2. transport'[s] = t
    BY <1>0, <2>1 DEF CreateSocket, TypeOK
  <2>3. k = "xhr"
    BY <1>0, <2>1 DEF Lossless, Lossy, PollingKinds
  <2>4. Lossless
    BY <1>0, <2>1 DEF Lossless, Lossy
  <2>5. buffer'[s] = <<>> /\ wire'[s] = << 1 >>
    BY <1>0, <2>1, <2>3 DEF FreshIsEmpty
  <2>6. \A r \in Sockets : r # s => buffer'[r] = buffer[r] /\ wire'[r] = wire[r]
    BY <1>0, <2>1
  <2> QED
    BY <1>5, <2>1, <2>2, <2>4, <2>5, <2>6
<1>7. ASSUME NEW s \in Sockets, NEW t \in Trans, Fresh(s), CreateSocket(s, t), Lossless,
             buffer' = [buffer EXCEPT ![s] = << 1 >>], wire' = wire
      PROVE  \A r \in Sockets : Kept(r)'
  <2>1. transport'[s] = t
    BY <1>0, <1>7 DEF CreateSocket, TypeOK
  <2>2. buffer'[s] = << 1 >> /\ wire'[s] = <<>>
    BY <1>0, <1>7 DEF FreshIsEmpty
  <2>3. \A r \in Sockets : r # s => buffer'[r] = buffer[r] /\ wire'[r] = wire[r]
    BY <1>0, <1>7
  <2> QED
    BY <1>5, <1>7, <2>1, <2>2, <2>3
<1>8. ASSUME NEW c \in Conns, NEW s \in Sockets, NEW t \in Trans, HandshakeWebsocket(c, s, t)
      PROVE  \A r \in Sockets : Kept(r)'
  <2>1. /\ Fresh(s) /\ kind[t] = "none" /\ CreateSocket(s, t) /\ UNCHANGED <<wire, proto>>
        /\ kind' = [kind EXCEPT ![t] = "websocket"] /\ binary' = [binary EXCEPT ![t] = TRUE]
        /\ buffer' = [buffer EXCEPT ![s] = << 1 >>]
    BY <1>8 DEF HandshakeWebsocket, FreshTran, connVars
  <2>2. Lossless
    BY <1>0, <2>1 DEF Lossless, Lossy
  <2> QED
    BY <1>7, <2>1, <2>2
<1>9. ASSUME NEW c \in Conns, NEW s \in Sockets, NEW t \in Trans, NEW u \in Trans,
             NEW ok \in BOOLEAN, HandshakeUpgrade(c, s, t, u, ok)
      PROVE  \A r \in Sockets : Kept(r)'
  <2>1. /\ Fresh(s) /\ kind[t] = "none" /\ kind[u] = "none" /\ CreateSocket(s, t) /\ UNCHANGED wire
        /\ kind' = [kind EXCEPT ![t] = "websocket", ![u] = "websocket"]
        /\ binary' = [binary EXCEPT ![t] = TRUE]
        /\ buffer' = [buffer EXCEPT ![s] = << 1 >>]
        /\ proto[c] = "http" /\ proto' = [proto EXCEPT ![c] = IF ok THEN "ws" ELSE @]
    BY <1>9 DEF HandshakeUpgrade, FreshTran, Attach, Ready
  <2>2. \A v \in Trans : ~Lossy(v)
    BY <1>0, <2>1 DEF Lossless, Lossy
  <2>3. \A d \in Conns : proto[d] \in {"http", "ws"}
    BY <1>0, <2>1 DEF Lossless
  <2> QED
    BY <1>7, <2>1, <2>2, <2>3 DEF Lossless
<1>10. ASSUME NEW c \in Conns, NEW i \in Sids, NEW u \in Trans, NEW ok \in BOOLEAN, NEW k \in Kinds,
              MaybeUpgrade(c, i, u, ok, k)
       PROVE  \A r \in Sockets : Kept(r)'
  <2>1. /\ kind[u] = "none" /\ kind' = [kind EXCEPT ![u] = k] /\ UNCHANGED <<binary, made, buffer, wire>>
        /\ proto[c] = "http" /\ proto' = [proto EXCEPT ![c] = IF ok THEN "ws" ELSE @]
    BY <1>10 DEF MaybeUpgrade, FreshTran, Attach, Ready, queueVars
  <2>2. \A v \in Trans : ~Lossy(v)
    BY <1>0, <2>1 DEF Lossless, Lossy
  <2>3. \A d \in Conns : proto[d] \in {"http", "ws"}
    BY <1>0, <2>1 DEF Lossless
  <2> QED
    BY <1>00, <2>1, <2>2, <2>3 DEF Lossless, Kept
<1>11. ASSUME NEW t \in Trans, OnUpgrade(t) PROVE \A r \in Sockets : Kept(r)'
  <2>1. UNCHANGED <<kind, binary, made, buffer, wire, proto>>
    BY <1>11 DEF OnUpgrade, queueVars, connVars
  <2> QED
    BY <1>00, <2>1 DEF Lossless, Lossy, Kept
<1> QED
  BY <1>0, <1>1, <1>3, <1>4, <1>6, <1>8, <1>9, <1>10, <1>11, SessionSteps

---------------------------------------------------------------------------
(* The theorems.                                                           *)

\* The invariant holds at first ...
LEMMA InitSendInv == Init => SendInv
<1> SUFFICES ASSUME Init PROVE SendInv
  OBVIOUS
<1>1. OrderInv
  <2>1. FreshIsEmpty /\ InOrder
    BY DEF Init, FreshIsEmpty, InOrder, Ordered
  <2> QED
    BY <2>1, InitIInv DEF OrderInv
<1>2. Ownership
  BY DEF Init, Ownership, Owned
<1>3. Websockets /\ StallsOnlyAfterUpgrade
  BY DEF Init, Websockets, StallsOnlyAfterUpgrade, Fresh
<1>4. NoLossWhileConnected
  <2>1. \A s \in Sockets : buffer[s] = <<>> /\ wire[s] = <<>> /\ made[s] = 0
    BY DEF Init
  <2>2. Len(<<>>) = 0
    OBVIOUS
  <2>3. \A s \in Sockets : Len(wire[s]) = 0 /\ Len(buffer[s]) = 0
    BY <2>1, <2>2, Zenon
  <2> QED
    <3>1. ASSUME NEW s \in Sockets PROVE Len(wire[s]) + Len(buffer[s]) = made[s]
      <4>1. Len(wire[s]) = 0 /\ Len(buffer[s]) = 0 /\ made[s] = 0
        BY <2>1, <2>3
      <4> QED
        BY <4>1
    <3> QED
      BY <3>1, Zenon DEF NoLossWhileConnected
<1> QED
  BY <1>1, <1>2, <1>3, <1>4 DEF SendInv

\* ... and every step keeps it.
LEMMA NextSendInv == SendInv /\ [Next]_vars => SendInv'
<1> SUFFICES ASSUME SendInv, [Next]_vars PROVE SendInv'
  OBVIOUS
<1> QED
  BY NextOrderInv, OwnershipStep, WebsocketsStep, StallStep, LossStep DEF SendInv, OrderInv

\* The inductive invariant of what is sent.
THEOREM SendInvariant == Spec => []SendInv
BY InitSendInv, NextSendInv, PTL DEF Spec

\* An XHR transport is writable exactly while it has a poll to answer.
THEOREM WritablePolls == Spec => []WritableHasPoll
<1>1. IInv => WritableHasPoll
  BY DEF IInv, Polls
<1> QED
  BY <1>1, Invariance, PTL

\* Packets wait although their transport is writable only in a session that
\* an upgrade packet moved to its websocket.
THEOREM StallsAfterUpgradeOnly == Spec => []StallsOnlyAfterUpgrade
<1>1. SendInv => StallsOnlyAfterUpgrade
  BY DEF SendInv
<1> QED
  BY <1>1, SendInvariant, PTL

\* While connections are up and payloads hold all packets, none is lost.
THEOREM NothingIsLost == Spec => []NoLossWhileConnected
<1>1. SendInv => NoLossWhileConnected
  BY DEF SendInv
<1> QED
  BY <1>1, SendInvariant, PTL

\* An upgrade moves a session to a websocket that can take its packets, and
\* nothing moves it anywhere else.
THEOREM MovesToWebsocket == Spec => SwitchesToWebsocket
<1> DEFINE Moves == \A s \in Sockets : ~Fresh(s) /\ transport'[s] # transport[s] =>
                      /\ kind[transport'[s]] = "websocket"
                      /\ wsConn[transport'[s]] # NoConn
                      /\ writable[transport'[s]]
<1>1. SendInv /\ [Next]_vars => [Moves]_vars
  <2> SUFFICES ASSUME SendInv, [Next]_vars PROVE Moves
    OBVIOUS
  <2>0. IInv /\ Websockets /\ transport \in [Sockets -> Trans \cup {NoTran}]
    BY DEF SendInv, OrderInv, IInv, TypeOK
  <2>1. ASSUME UNCHANGED transport PROVE Moves
    BY <2>1
  <2>2. ASSUME NEW s \in Sockets, Fresh(s), NEW t, transport' = [transport EXCEPT ![s] = t]
        PROVE  Moves
    BY <2>0, <2>2
  <2>3. ASSUME NEW t \in Trans, OnUpgrade(t) PROVE Moves
    <3>1. PICK s \in Sockets :
            /\ Owns(s, t)
            /\ transport' = [transport EXCEPT ![s] = upgradingTransport[s]]
      BY <2>3 DEF OnUpgrade
    <3>2. wsConn[t] # NoConn /\ onPacket[t] = "OnPacketWhenUpgrading"
      BY <2>3 DEF OnUpgrade, Receives
    <3>3. upgradingTransport[s] = t
      BY <2>0, <3>1, <3>2, UpgradingIsOwned
    <3>4. kind[t] = "websocket" /\ writable[t]
      BY <2>0, <3>2 DEF Websockets
    <3> QED
      BY <2>0, <3>1, <3>2, <3>3, <3>4
  <2> HIDE DEF Moves
  <2>4. ASSUME NEW s \in Sockets, NEW t \in Trans, Fresh(s), CreateSocket(s, t)
        PROVE  Moves
    BY <2>2, <2>4 DEF CreateSocket
  <2>5. CASE Quiet \/ \E s \in Sockets : Sending(s)
    BY <2>1, <2>5 DEF Quiet, Sending, identVars
  <2>6. CASE \E c \in Conns, s \in Sockets, t \in Trans, k \in PollingKinds, b \in BOOLEAN :
               HandshakePolling(c, s, t, k, b)
    BY <2>4, <2>6 DEF HandshakePolling
  <2>7. CASE \/ \E c \in Conns, s \in Sockets, t \in Trans : HandshakeWebsocket(c, s, t)
             \/ \E c \in Conns, s \in Sockets, t, u \in Trans, ok \in BOOLEAN :
                  HandshakeUpgrade(c, s, t, u, ok)
    BY <2>4, <2>7 DEF HandshakeWebsocket, HandshakeUpgrade
  <2>8. CASE \/ \E c \in Conns, i \in Sids : HandlePollRequest(c, i)
             \/ \E c \in Conns, i \in Sids, u \in Trans, ok \in BOOLEAN, k \in Kinds :
                  MaybeUpgrade(c, i, u, ok, k)
    BY <2>1, <2>8 DEF HandlePollRequest, MaybeUpgrade, identVars
  <2> QED
    BY <2>0, <2>3, <2>5, <2>6, <2>7, <2>8, SessionSteps
<1> QED
  BY <1>1, SendInvariant, PTL DEF Spec, SwitchesToWebsocket

---------------------------------------------------------------------------
(* Session implements Delivery.                                            *)

\* Sequences of packets only grow.
LEMMA ExtendsConcat ==
  ASSUME NEW S, NEW p \in Seq(S), NEW e \in Seq(S)
  PROVE  Channel!Extends(p, p) /\ Channel!Extends(p \o e, p)
<1>1. Len(p \o e) = Len(p) + Len(e) /\ Len(p) \in Nat /\ Len(e) \in Nat /\ DOMAIN p = 1..Len(p)
  OBVIOUS
<1>2. \A i \in 1..Len(p) : (p \o e)[i] = p[i]
  BY <1>1
<1>3. Len(p) <= Len(p \o e) /\ Len(p) <= Len(p)
  BY <1>1
<1> QED
  BY <1>1, <1>2, <1>3 DEF Channel!Extends

\* What a flush writes comes after what was written.
LEMMA FlushExtends ==
  ASSUME TypeOK, NEW s \in Sockets, transport[s] \in Trans,
         NEW ps \in Seq(1..MaxPackets), NEW c \in Conns \cup {NoConn}, NEW w \in BOOLEAN,
         NEW p, NEW new, Flush(s, ps, c, w, p, new)
  PROVE  Channel!Extends(wire'[s], wire[s])
<1> DEFINE e == Encoded(kind[transport[s]], binary[transport[s]], ps)
<1>1. wire'[s] = IF CanFlush(w, ps) /\ Sends(c) THEN wire[s] \o e ELSE wire[s]
  BY FlushEffect
<1>2. CanFlush(w, ps) => e \in Seq(1..MaxPackets)
  BY EncodedType DEF CanFlush
<1>3. wire[s] \in Seq(1..MaxPackets)
  BY DEF TypeOK
<1> HIDE DEF e
<1> QED
  BY <1>1, <1>2, <1>3, ExtendsConcat

\* A step of one Socket is one of its channel.
LEMMA ChannelStep ==
  ASSUME TypeOK, TypeOK', InOrder', NEW s \in Sockets,
         made'[s] \in {made[s], made[s] + 1},
         \A r \in Sockets : r # s => made'[r] = made[r] /\ wire'[r] = wire[r],
         Channel!Extends(wire'[s], wire[s])
  PROVE  Channel!Step(s)
<1>1. /\ made \in [Sockets -> 0..MaxPackets] /\ made' \in [Sockets -> 0..MaxPackets]
      /\ wire'[s] \in Seq(1..MaxPackets) /\ buffer'[s] \in Seq(1..MaxPackets)
      /\ MaxPackets \in Nat
  BY BoundAssumption DEF TypeOK
<1>2. made' = [made EXCEPT ![s] = made'[s]] /\ made'[s] <= MaxPackets
  BY <1>1
<1>3. Channel!Increasing(wire'[s], made'[s])
  <2>1. Ordered(made'[s], buffer'[s], wire'[s])
    BY DEF InOrder
  <2>2. ASSUME NEW i \in DOMAIN wire'[s] PROVE wire'[s][i] \in 1..made'[s]
    <3>1. wire'[s][i] \in 1..MaxPackets /\ Len(buffer'[s]) \in Nat /\ made'[s] \in Nat
      BY <1>1
    <3>2. wire'[s][i] <= made'[s] - Len(buffer'[s])
      BY <2>1 DEF Ordered
    <3> QED
      BY <3>1, <3>2
  <2>3. \A i, j \in DOMAIN wire'[s] : i < j => wire'[s][i] < wire'[s][j]
    BY <2>1 DEF Ordered
  <2> QED
    BY <2>2, <2>3 DEF Channel!Increasing
<1> QED
  BY <1>2, <1>3 DEF Channel!Step

\* Every step is a step of the channel or leaves it alone.
LEMMA NextIsChannel ==
  ASSUME SendInv, SendInv', [Next]_vars
  PROVE  [Channel!Next]_<<made, wire>>
<1>0. /\ IInv /\ TypeOK /\ TypeOK' /\ InOrder' /\ FreshIsEmpty /\ Ownership /\ Websockets
      /\ made \in [Sockets -> 0..MaxPackets] /\ wire \in [Sockets -> Seq(1..MaxPackets)]
  BY DEF SendInv, OrderInv, IInv, TypeOK
<1>1. ASSUME UNCHANGED <<made, wire>> PROVE [Channel!Next]_<<made, wire>>
  BY <1>1
<1>2. ASSUME NEW s \in Sockets, Channel!Step(s) PROVE [Channel!Next]_<<made, wire>>
  BY <1>2 DEF Channel!Next
<1>3. ASSUME NEW s \in Sockets, Sending(s) PROVE [Channel!Next]_<<made, wire>>
  <2> DEFINE t == transport[s]
             ps == Append(buffer[s], made[s] + 1)
  <2>1. /\ t \in Trans /\ ps \in Seq(1..MaxPackets)
        /\ Out(t) \in Conns \cup {NoConn} /\ writable[t] \in BOOLEAN
        /\ Flush(s, ps, Out(t), writable[t], parked[t], 0)
        /\ made' = [made EXCEPT ![s] = made[s] + 1]
    BY <1>0, <1>3, SendingFlushes
  <2>2. transport[s] \in Trans
    BY <2>1
  <2> HIDE DEF t, ps
  <2>3. Channel!Extends(wire'[s], wire[s])
    BY <1>0, <2>1, <2>2, FlushExtends
  <2>4. \A r \in Sockets : r # s => made'[r] = made[r] /\ wire'[r] = wire[r]
    BY <1>0, <2>1, FlushFrame
  <2>5. made'[s] = made[s] + 1
    BY <1>0, <2>1
  <2> QED
    BY <1>0, <1>2, <2>3, <2>4, <2>5, ChannelStep
<1>4. CASE \E c \in Conns, i \in Sids : HandlePollRequest(c, i)
  <2>1. PICK c \in Conns, s \in Sockets :
           /\ transport[s] \in Trans
           /\ buffer[s] \in Seq(1..MaxPackets)
           /\ Flush(s, buffer[s], c, TRUE, TRUE, 1)
           /\ made' = made
    BY <1>0, <1>4, PollFlushes
  <2>2. Channel!Extends(wire'[s], wire[s])
    BY <1>0, <2>1, FlushExtends
  <2>3. \A r \in Sockets : r # s => wire'[r] = wire[r]
    BY <1>0, <2>1, FlushFrame
  <2> QED
    BY <1>0, <1>2, <2>1, <2>2, <2>3, ChannelStep
<1>5. ASSUME NEW s \in Sockets, NEW t \in Trans, Fresh(s), CreateSocket(s, t),
             \A r \in Sockets : r # s => wire'[r] = wire[r]
      PROVE  [Channel!Next]_<<made, wire>>
  <2>1. /\ made[s] = 0 /\ wire[s] = <<>> /\ made'[s] = 1
        /\ \A r \in Sockets : r # s => made'[r] = made[r]
    BY <1>0, <1>5 DEF FreshIsEmpty, Ownership, CreateSocket
  <2>2. made'[s] = made[s] + 1
    BY <2>1
  <2>3. wire'[s] \in Seq(1..MaxPackets)
    BY <1>0 DEF TypeOK
  <2>4. wire'[s] = <<>> \o wire'[s] /\ <<>> \in Seq(1..MaxPackets)
    BY <2>3
  <2>5. Channel!Extends(wire'[s], <<>>)
    BY <2>3, <2>4, ExtendsConcat
  <2> QED
    BY <1>0, <1>2, <1>5, <2>1, <2>2, <2>5, ChannelStep
<1>6. CASE \E c \in Conns, s \in Sockets, t \in Trans, k \in PollingKinds, b \in BOOLEAN :
             HandshakePolling(c, s, t, k, b)
  BY <1>0, <1>5, <1>6 DEF HandshakePolling
<1>7. CASE \/ \E c \in Conns, s \in Sockets, t \in Trans : HandshakeWebsocket(c, s, t)
           \/ \E c \in Conns, s \in Sockets, t, u \in Trans, ok \in BOOLEAN :
                HandshakeUpgrade(c, s, t, u, ok)
  BY <1>5, <1>7 DEF HandshakeWebsocket, HandshakeUpgrade
<1>8. CASE \/ Quiet
           \/ \E c \in Conns, i \in Sids, u \in Trans, ok \in BOOLEAN, k \in Kinds :
                MaybeUpgrade(c, i, u, ok, k)
           \/ \E t \in Trans : OnUpgrade(t)
  BY <1>1, <1>8 DEF Quiet, MaybeUpgrade, OnUpgrade, queueVars
<1> QED
  BY <1>0, <1>3, <1>4, <1>6, <1>7, <1>8, SessionSteps

\* Whatever clients and connections do, a session is an ordered channel that
\* delivers each packet at most once.
THEOREM SessionIsChannel == Spec => ImplementsDelivery
<1>1. Init => Channel!Init
  BY DEF Init, Channel!Init
<1>2. SendInv /\ SendInv' /\ [Next]_vars => [Channel!Next]_<<made, wire>>
  BY NextIsChannel
<1> QED
  BY <1>1, <1>2, SendInvariant, PTL DEF Spec, ImplementsDelivery, Channel!Spec
=============================================================================
