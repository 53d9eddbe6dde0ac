--------------------------- MODULE WsStreamProofs ---------------------------
(***************************************************************************)
(* WebsocketHandler::OnData, whatever the frames, the reads and the bounds *)
(* are: what the parser has of a frame, what the codec remembers of the    *)
(* fragments before it and what the application was told are those of the  *)
(* bytes read, after each round of its loop.                               *)
(***************************************************************************)
EXTENDS WsStream, Induction, SequenceTheorems

---------------------------------------------------------------------------
(* The bytes of the stream.                                                *)

Framed == frames \in Seq(FrameSet) /\ Len(frames) <= MaxFrames
Positions == Nat \X Nat
Size(k) == HeaderSize(frames[k]) + frames[k].len

\* The byte behind b.
Following(b) ==
  IF b[2] < Size(b[1]) THEN << b[1], b[2] + 1 >> ELSE << b[1] + 1, 1 >>

\* s is the end of what was sent: its bytes, in order and without a gap.
Run(s) ==
  /\ s \in Seq(Positions)
  /\ \A i \in 1..Len(s) : s[i][1] \in 1..Len(frames) /\ s[i][2] \in 1..Size(s[i][1])
  /\ \A i \in 1..(Len(s) - 1) : s[i + 1] = Following(s[i])
  /\ s # <<>> => s[Len(s)] = << Len(frames), Size(Len(frames)) >>

\* The frame of the next byte of s, the last one if there is none.
Seen(s) == IF s = <<>> THEN Len(frames) ELSE s[1][1]

\* Frames have the sizes of frames.
LEMMA SizeType ==
  ASSUME Framed, NEW k \in DOMAIN frames
  PROVE  /\ IsFrame(frames[k]) /\ frames[k].len \in Nat
         /\ HeaderSize(frames[k]) \in Nat /\ HeaderSize(frames[k]) >= 2
         /\ Size(k) \in Nat
<1>1. frames[k] \in FrameSet
  BY DEF Framed
<1>2. IsFrame(frames[k])
  BY <1>1, StreamAssumption
<1>3. frames[k].len \in Nat
  BY <1>2 DEF IsFrame
<1>4. HeaderSize(frames[k]) \in Nat /\ HeaderSize(frames[k]) >= 2
  BY DEF HeaderSize
<1> QED
  BY <1>2, <1>3, <1>4 DEF Size

\* s begins with the o-th byte of the k-th frame ...
Begins(s, k, o) == Run(s) /\ s # <<>> /\ s[1] = << k, o >>

\* ... and goes on with the m bytes that frame has left, and the next one.
Ahead(s, k, o, m) ==
  /\ k \in DOMAIN frames /\ o \in 1..Size(k) /\ m \in 1..Len(s)
  /\ \A i \in 1..m : s[i] = << k, o + i - 1 >>
  /\ IF Len(s) = m THEN k = Len(frames) ELSE s[m + 1] = << k + 1, 1 >>

\* From any byte of it on, the rest of a frame follows.
LEMMA RunAhead ==
  ASSUME Framed, NEW s, NEW k, NEW o, Begins(s, k, o)
  PROVE  Ahead(s, k, o, Size(k) - o + 1)
<1> DEFINE m == Size(k) - o + 1
<1>0. Run(s) /\ s # <<>> /\ s[1] = << k, o >>
  BY DEF Begins
<1>1. /\ s \in Seq(Positions) /\ Len(s) \in Nat /\ Len(s) >= 1
      /\ DOMAIN frames = 1..Len(frames) /\ Len(frames) \in Nat
  BY <1>0 DEF Run, Framed
<1>2. k \in DOMAIN frames /\ o \in 1..Size(k) /\ Size(k) \in Nat
  <2>1. s[1][1] \in 1..Len(frames) /\ s[1][2] \in 1..Size(s[1][1])
    BY <1>0, <1>1 DEF Run
  <2>2. k \in DOMAIN frames /\ o \in 1..Size(k)
    BY <1>0, <1>1, <2>1
  <2> QED
    BY <2>2, SizeType
<1>3. m \in Nat /\ m >= 1 /\ k \in Nat /\ o \in Nat
  BY <1>1, <1>2
<1> DEFINE T == {i \in 0..Len(s) : i \in 1..m => s[i] = << k, o + i - 1 >>}
<1>4. ASSUME NEW i \in 1..Len(s), i - 1 \in T PROVE i \in T
  <2> SUFFICES ASSUME i \in 1..m PROVE s[i] = << k, o + i - 1 >>
    BY <1>1
  <2>1. CASE i = 1
    BY <1>0, <1>3, <2>1
  <2>2. CASE i # 1
    <3>1. i - 1 \in 1..m /\ i - 1 \in 1..(Len(s) - 1) /\ (i - 1) + 1 = i
      BY <1>1, <1>3, <2>2
    <3>2. s[i - 1] = << k, o + (i - 1) - 1 >>
      BY <1>4, <3>1
    <3>3. s[i] = Following(s[i - 1])
      BY <1>0, <3>1 DEF Run
    <3>4. o + (i - 1) - 1 < Size(k)
      BY <1>2, <1>3, <3>1
    <3>5. s[i] = << k, o + (i - 1) - 1 + 1 >>
      BY <3>2, <3>3, <3>4 DEF Following
    <3> QED
      BY <1>3, <3>1, <3>5
  <2> QED
    BY <2>1, <2>2
<1>5. ASSUME NEW i \in 1..m, i <= Len(s) PROVE s[i] = << k, o + i - 1 >>
  <2>1. 0 \in T
    BY <1>1
  <2>2. i \in 0..Len(s)
    BY <1>3, <1>5
  <2> HIDE DEF T
  <2>3. 0..Len(s) \subseteq T
    BY <1>1, <1>4, <2>1, UpTo, Zenon
  <2>4. i \in T
    BY <2>2, <2>3
  <2> QED
    BY <2>4 DEF T
<1>6. s[Len(s)] = << Len(frames), Size(Len(frames)) >>
  BY <1>0 DEF Run
<1>7. m <= Len(s)
  <2> SUFFICES ASSUME Len(s) < m PROVE FALSE
    BY <1>1, <1>3
  <2>1. Len(s) \in 1..m
    BY <1>1, <1>3
  <2>2. s[Len(s)] = << k, o + Len(s) - 1 >>
    BY <1>1, <1>5, <2>1
  <2>3. k = Len(frames) /\ o + Len(s) - 1 = Size(k)
    BY <1>6, <2>2
  <2> QED
    BY <1>1, <1>2, <1>3, <2>3
<1>8. s[m] = << k, Size(k) >>
  <2>1. s[m] = << k, o + m - 1 >>
    BY <1>3, <1>5, <1>7
  <2> QED
    BY <1>2, <1>3, <2>1
<1>9. CASE Len(s) = m
  BY <1>2, <1>3, <1>5, <1>6, <1>7, <1>8, <1>9 DEF Ahead
<1>10. CASE Len(s) # m
  <2>1. m \in 1..(Len(s) - 1)
    BY <1>1, <1>3, <1>7, <1>10
  <2>2. s[m + 1] = Following(s[m])
    BY <1>0, <2>1 DEF Run
  <2>3. s[m + 1] = << k + 1, 1 >>
    BY <1>2, <1>8, <2>2 DEF Following
  <2> QED
    BY <1>2, <1>3, <1>5, <1>7, <1>10, <2>3 DEF Ahead
<1> QED
  BY <1>9, <1>10

\* The frames of the bytes grow.
LEMMA RunGrows ==
  ASSUME Framed, NEW s, Run(s), NEW j \in 1..Len(s)
  PROVE  s[1][1] <= s[j][1]
<1>1. s \in Seq(Positions) /\ Len(s) \in Nat
  BY DEF Run
<1>2. \A i \in 1..Len(s) : s[i][1] \in Nat /\ s[i][2] \in Nat
  BY <1>1 DEF Positions
<1> DEFINE T == {i \in 0..Len(s) : i # 0 => s[1][1] <= s[i][1]}
<1>3. ASSUME NEW i \in 1..Len(s), i - 1 \in T PROVE i \in T
  <2>1. CASE i = 1
    BY <1>1, <1>2, <2>1
  <2>2. CASE i # 1
    <3>1. i - 1 \in 1..(Len(s) - 1) /\ (i - 1) + 1 = i /\ i - 1 \in 1..Len(s) /\ 1 \in 1..Len(s)
      BY <1>1, <2>2
    <3>2. s[1][1] <= s[i - 1][1]
      BY <1>3, <3>1
    <3>3. s[i] = Following(s[i - 1])
      BY <3>1 DEF Run
    <3>4. s[i][1] = s[i - 1][1] \/ s[i][1] = s[i - 1][1] + 1
      BY <3>3 DEF Following
    <3>5. s[1][1] \in Nat /\ s[i - 1][1] \in Nat
      BY <1>2, <3>1
    <3> QED
      BY <1>1, <3>2, <3>4, <3>5
  <2> QED
    BY <2>1, <2>2
<1>4. 0 \in T /\ j \in 0..Len(s) /\ j # 0
  BY <1>1
<1> HIDE DEF T
<1>5. 0..Len(s) \subseteq T
  BY <1>1, <1>3, <1>4, UpTo, Zenon
<1>6. j \in T
  BY <1>4, <1>5
<1> QED
  BY <1>4, <1>6 DEF T

\* What is left when n bytes were taken.
Left(s, n, t) == Run(s) /\ n \in 0..Len(s) /\ t = SubSeq(s, n + 1, Len(s))

\* It is the end of what was sent as well, and no earlier frame is seen in it.
LEMMA RunRest ==
  ASSUME Framed, NEW s, NEW n, NEW t, Left(s, n, t)
  PROVE  /\ Run(t) /\ Len(t) = Len(s) - n /\ \A i \in 1..Len(t) : t[i] = s[n + i]
         /\ Seen(s) \in 0..Len(frames) /\ Seen(t) \in Seen(s)..Len(frames)
<1> SUFFICES ASSUME Run(s), n \in 0..Len(s), t = SubSeq(s, n + 1, Len(s))
             PROVE  /\ Run(t) /\ Len(t) = Len(s) - n /\ \A i \in 1..Len(t) : t[i] = s[n + i]
                    /\ Seen(s) \in 0..Len(frames) /\ Seen(t) \in Seen(s)..Len(frames)
  BY DEF Left
<1>1. s \in Seq(Positions) /\ Len(s) \in Nat /\ Len(frames) \in Nat
  BY DEF Run, Framed
<1>2. /\ t \in Seq(Positions) /\ Len(t) = Len(s) - n /\ Len(t) \in Nat
      /\ \A i \in 1..Len(t) : t[i] = s[n + i]
  BY <1>1
<1>3. Run(t)
  <2>1. ASSUME NEW i \in 1..Len(t)
        PROVE  t[i][1] \in 1..Len(frames) /\ t[i][2] \in 1..Size(t[i][1])
    <3>1. n + i \in 1..Len(s) /\ t[i] = s[n + i]
      BY <1>1, <1>2
    <3> QED
      BY <3>1 DEF Run
  <2>2. ASSUME NEW i \in 1..(Len(t) - 1)
        PROVE  t[i + 1] = Following(t[i])
    <3>1. /\ n + i \in 1..(Len(s) - 1) /\ t[i] = s[n + i] /\ t[i + 1] = s[n + (i + 1)]
          /\ n + (i + 1) = (n + i) + 1
      BY <1>1, <1>2
    <3>2. s[(n + i) + 1] = Following(s[n + i])
      BY <3>1 DEF Run
    <3> QED
      BY <3>1, <3>2
  <2>3. ASSUME t # <<>>
        PROVE  t[Len(t)] = << Len(frames), Size(Len(frames)) >>
    <3>1. Len(t) >= 1
      BY <1>2, <2>3
    <3>2. Len(t) \in 1..Len(t) /\ n + Len(t) = Len(s) /\ Len(s) >= 1
      BY <1>1, <1>2, <3>1
    <3>3. t[Len(t)] = s[Len(s)]
      <4>1. t[Len(t)] = s[n + Len(t)]
        BY <1>2, <3>2
      <4> QED
        BY <3>2, <4>1
    <3>4. s # <<>>
      BY <3>2
    <3> QED
      BY <3>3, <3>4 DEF Run
  <2> QED
    BY <1>2, <2>1, <2>2, <2>3 DEF Run
<1>4. Seen(s) \in 0..Len(frames)
  <2>1. CASE s = <<>>
    BY <1>1, <2>1 DEF Seen
  <2>2. CASE s # <<>>
    <3>1. 1 \in 1..Len(s)
      BY <1>1, <2>2
    <3>2. s[1][1] \in 1..Len(frames)
      BY <3>1 DEF Run
    <3> QED
      BY <1>1, <2>2, <3>2 DEF Seen
  <2> QED
    BY <2>1, <2>2
<1>5. Seen(t) \in Seen(s)..Len(frames)
  <2>1. CASE t = <<>>
    BY <1>1, <1>4, <2>1 DEF Seen
  <2>2. CASE t # <<>>
    <3>1. 1 \in 1..Len(t) /\ t[1] = s[n + 1] /\ n + 1 \in 1..Len(s) /\ s # <<>>
      BY <1>1, <1>2, <2>2
    <3>2. s[1][1] <= s[n + 1][1]
      BY <3>1, RunGrows
    <3>3. t[1][1] \in 1..Len(frames)
      BY <1>3, <3>1 DEF Run
    <3> QED
      <4>1. Seen(t) = t[1][1] /\ Seen(s) = s[1][1]
        BY <2>2, <3>1 DEF Seen
      <4>2. Seen(s) <= Seen(t) /\ Seen(t) \in 1..Len(frames)
        BY <3>1, <3>2, <3>3, <4>1
      <4> QED
        BY <1>1, <1>4, <4>2
  <2> QED
    BY <2>1, <2>2
<1> QED
  BY <1>2, <1>3, <1>4, <1>5

---------------------------------------------------------------------------
(* Ascending, Event and Events.                                            *)

\* f enumerates S: after k it has the members up to k.
Ascends(f, S, n) ==
  /\ f \in [0..n -> Seq(Nat)] /\ f[0] = <<>>
  /\ \A k \in 1..n : f[k] = IF k \in S THEN Append(f[k - 1], k) ELSE f[k - 1]

\* Ascending is the last step of such an enumeration.
LEMMA AscendingRecur ==
  ASSUME NEW S, NEW n \in Nat
  PROVE  \E f : Ascends(f, S, n) /\ f[n] = Ascending(S, n)
<1> DEFINE Q == Seq(Nat)
           h == [x \in Nat \X Q |-> IF x[1] \in S THEN Append(x[2], x[1]) ELSE x[2]]
           f[k \in 0..n] ==
             IF k = 0 THEN <<>> ELSE IF k \in S THEN Append(f[k - 1], k) ELSE f[k - 1]
<1>1. <<>> \in Q /\ \A q \in Q, i \in Nat : Append(q, i) \in Q
  OBVIOUS
<1>2. StepFunction(Q, h)
  <2> HIDE DEF f
  <2>1. ASSUME NEW x \in Nat \X Q PROVE h[x] \in Q
    <3>1. x[1] \in Nat /\ x[2] \in Q
      OBVIOUS
    <3> HIDE DEF Q
    <3> QED
      BY <1>1, <3>1
  <2> QED
    BY <2>1 DEF StepFunction
<1>3. PICK g : Iterates(g, Q, <<>>, h, n)
  <2> HIDE DEF f, h, Q
  <2> QED
    BY <1>1, <1>2, Iteration
<1>4. g \in [0..n -> Q] /\ g[0] = <<>> /\ \A k \in 1..n : g[k] = h[<<k, g[k - 1]>>]
  BY <1>3 DEF Iterates
<1>5. \A k \in 1..n : g[k] = IF k \in S THEN Append(g[k - 1], k) ELSE g[k - 1]
  <2> SUFFICES ASSUME NEW k \in 1..n
               PROVE  g[k] = IF k \in S THEN Append(g[k - 1], k) ELSE g[k - 1]
    OBVIOUS
  <2> HIDE DEF f, Q
  <2>1. k \in Nat /\ k - 1 \in 0..n
    OBVIOUS
  <2>2. g[k - 1] \in Q
    BY <1>4, <2>1
  <2>3. <<k, g[k - 1]>> \in Nat \X Q
    BY <2>1, <2>2
  <2> QED
    BY <1>4, <2>3
<1> HIDE DEF h
<1>6. g = [k \in 0..n |->
             IF k = 0 THEN <<>> ELSE IF k \in S THEN Append(g[k - 1], k) ELSE g[k - 1]]
  <2> HIDE DEF f, Q
  <2> DEFINE e == [k \in 0..n |->
                     IF k = 0 THEN <<>> ELSE IF k \in S THEN Append(g[k - 1], k) ELSE g[k - 1]]
  <2>1. ASSUME NEW k \in 0..n PROVE g[k] = e[k]
    <3>1. CASE k = 0
      BY <1>4, <3>1
    <3>2. CASE k # 0
      <4>1. k \in 1..n
        BY <3>2
      <4> QED
        BY <1>5, <3>2, <4>1
    <3> QED
      BY <3>1, <3>2
  <2>2. g = [k \in 0..n |-> g[k]] /\ e = [k \in 0..n |-> e[k]]
    BY <1>4
  <2> HIDE DEF e
  <2>3. g = e
    BY <2>1, <2>2
  <2> QED
    BY <2>3 DEF e
<1>7. f = [k \in 0..n |->
             IF k = 0 THEN <<>> ELSE IF k \in S THEN Append(f[k - 1], k) ELSE f[k - 1]]
  BY <1>6, Zenon
<1>8. Ascending(S, n) = f[n]
  BY DEF Ascending
<1> HIDE DEF f
<1>9. f[0] = <<>> /\ \A k \in 1..n : f[k] = IF k \in S THEN Append(f[k - 1], k) ELSE f[k - 1]
  <2>1. f[0] = <<>>
    BY <1>7
  <2>2. ASSUME NEW k \in 1..n PROVE f[k] = IF k \in S THEN Append(f[k - 1], k) ELSE f[k - 1]
    <3>1. k \in 0..n /\ k # 0
      OBVIOUS
    <3> QED
      BY <1>7, <3>1
  <2> QED
    BY <2>1, <2>2
<1>10. \A k \in 0..n : f[k] \in Q
  <2> DEFINE T == {k \in 0..n : f[k] \in Q}
  <2> HIDE DEF Q
  <2>1. ASSUME NEW k \in 1..n, k - 1 \in T PROVE k \in T
    <3>1. k \in 0..n /\ k \in Nat /\ f[k - 1] \in Q
      BY <2>1
    <3> QED
      BY <1>1, <1>9, <3>1
  <2>2. 0 \in T
    BY <1>1, <1>9
  <2> HIDE DEF T
  <2>3. 0..n \subseteq T
    BY <2>1, <2>2, UpTo, Zenon
  <2> QED
    BY <2>3 DEF T
<1>11. Ascends(f, S, n)
  <2>1. f \in [0..n -> Q]
    BY <1>7, <1>10
  <2> QED
    BY <1>9, <2>1 DEF Ascends
<1> QED
  BY <1>8, <1>11

\* How many there are does not matter to what comes first.
LEMMA AscendsAlike ==
  ASSUME NEW S, NEW R, NEW n \in Nat, NEW m \in Nat, n <= m, NEW f, NEW g,
         Ascends(f, S, n), Ascends(g, R, m), \A k \in 1..n : k \in S <=> k \in R
  PROVE  f[n] = g[n]
<1> DEFINE T == {k \in 0..n : f[k] = g[k]}
<1>1. ASSUME NEW k \in 1..n, k - 1 \in T PROVE k \in T
  <2>1. f[k] = IF k \in S THEN Append(f[k - 1], k) ELSE f[k - 1]
    BY DEF Ascends
  <2>2. g[k] = IF k \in R THEN Append(g[k - 1], k) ELSE g[k - 1]
    BY DEF Ascends
  <2>3. k \in 0..n /\ f[k - 1] = g[k - 1]
    BY <1>1
  <2> QED
    BY <2>1, <2>2, <2>3
<1>2. 0 \in T /\ n \in 0..n
  BY DEF Ascends
<1> HIDE DEF T
<1>3. 0..n \subseteq T
  BY <1>1, <1>2, UpTo, Zenon
<1> QED
  BY <1>2, <1>3 DEF T

\* Sets that agree up to n are enumerated alike up to n.
LEMMA AscendingSame ==
  ASSUME NEW S, NEW R, NEW n \in Nat, \A k \in 1..n : k \in S <=> k \in R
  PROVE  Ascending(S, n) = Ascending(R, n)
<1>1. PICK f : Ascends(f, S, n) /\ f[n] = Ascending(S, n)
  BY AscendingRecur
<1>2. PICK g : Ascends(g, R, n) /\ g[n] = Ascending(R, n)
  BY AscendingRecur
<1> QED
  BY <1>1, <1>2, AscendsAlike

\* One more number adds at most itself.
LEMMA AscendingStep ==
  ASSUME NEW S, NEW n \in Nat \ {0}
  PROVE  /\ Ascending(S, 0) = <<>>
         /\ Ascending(S, n) = IF n \in S THEN Append(Ascending(S, n - 1), n)
                              ELSE Ascending(S, n - 1)
<1>1. PICK f : Ascends(f, S, n) /\ f[n] = Ascending(S, n)
  BY AscendingRecur
<1>2. PICK g : Ascends(g, S, n - 1) /\ g[n - 1] = Ascending(S, n - 1)
  BY AscendingRecur
<1>3. g[n - 1] = f[n - 1]
  <2>1. n - 1 \in Nat /\ n \in Nat /\ n - 1 <= n
    OBVIOUS
  <2> QED
    BY <1>1, <1>2, <2>1, AscendsAlike
<1>4. PICK e : Ascends(e, S, 0) /\ e[0] = Ascending(S, 0)
  BY AscendingRecur
<1>5. n \in 1..n
  OBVIOUS
<1> QED
  BY <1>1, <1>2, <1>3, <1>4, <1>5 DEF Ascends

\* It has members of S only ...
LEMMA AscendingMembers ==
  ASSUME NEW S, NEW n \in Nat
  PROVE  /\ Ascending(S, n) \in Seq(Nat)
         /\ \A e \in 1..Len(Ascending(S, n)) : Ascending(S, n)[e] \in S \cap (1..n)
<1>1. PICK f : Ascends(f, S, n) /\ f[n] = Ascending(S, n)
  BY AscendingRecur
<1>2. f \in [0..n -> Seq(Nat)]
  BY <1>1 DEF Ascends
<1> DEFINE T == {k \in 0..n : \A e \in 1..Len(f[k]) : f[k][e] \in S \cap (1..k)}
<1>3. ASSUME NEW k \in 1..n, k - 1 \in T PROVE k \in T
  <2> DEFINE q == f[k - 1]
  <2>1. k \in 0..n /\ k - 1 \in 0..n /\ k \in Nat
    OBVIOUS
  <2>2. q \in Seq(Nat)
    BY <1>2, <2>1
  <2>3. \A e \in 1..Len(q) : q[e] \in S \cap (1..(k - 1))
    BY <1>3
  <2>4. f[k] = IF k \in S THEN Append(q, k) ELSE q
    BY <1>1 DEF Ascends
  <2> HIDE DEF q
  <2>5. CASE k \in S
    <3>1. f[k] = Append(q, k)
      BY <2>4, <2>5
    <3>2. ASSUME NEW e \in 1..Len(f[k]) PROVE f[k][e] \in S \cap (1..k)
      <4>1. e \in 1..Len(q) \/ e = Len(q) + 1
        BY <2>2, <3>1
      <4>2. CASE e \in 1..Len(q)
        <5>1. f[k][e] = q[e] /\ q[e] \in S /\ q[e] \in 1..(k - 1)
          BY <2>2, <2>3, <3>1, <4>2
        <5> QED
          BY <2>1, <5>1
      <4>3. CASE e = Len(q) + 1
        <5>1. f[k][e] = k
          BY <2>2, <3>1, <4>3
        <5> QED
          BY <2>1, <2>5, <5>1
      <4> QED
        BY <4>1, <4>2, <4>3
    <3> QED
      BY <2>1, <3>2
  <2>6. CASE k \notin S
    <3>1. f[k] = q
      BY <2>4, <2>6
    <3> QED
      BY <2>1, <2>3, <3>1
  <2> QED
    BY <2>5, <2>6
<1>4. 0 \in T /\ n \in 0..n
  BY <1>1 DEF Ascends
<1> HIDE DEF T
<1>5. 0..n \subseteq T
  BY <1>3, <1>4, UpTo, Zenon
<1>6. n \in T
  BY <1>4, <1>5
<1> QED
  BY <1>1, <1>2, <1>4, <1>6 DEF T

\* ... and is just j if that is the only one.
LEMMA AscendingOne ==
  ASSUME NEW S, NEW n \in Nat, NEW j \in 1..n, \A k \in 1..n : k \in S <=> k = j
  PROVE  Ascending(S, n) = << j >>
<1> DEFINE T == {k \in 0..n : Ascending(S, k) = IF k < j THEN <<>> ELSE << j >>}
<1>1. ASSUME NEW k \in 1..n, k - 1 \in T PROVE k \in T
  <2>1. k \in Nat \ {0} /\ k \in 0..n
    OBVIOUS
  <2>2. Ascending(S, k) = IF k \in S THEN Append(Ascending(S, k - 1), k)
                          ELSE Ascending(S, k - 1)
    BY <2>1, AscendingStep
  <2>3. Ascending(S, k - 1) = IF k - 1 < j THEN <<>> ELSE << j >>
    BY <1>1
  <2>4. CASE k = j
    <3>1. k \in S /\ k - 1 < j
      BY <2>1, <2>4
    <3>2. Ascending(S, k) = Append(<<>>, k)
      BY <2>2, <2>3, <3>1
    <3> QED
      BY <2>1, <2>4, <3>2
  <2>5. CASE k # j
    <3>1. k \notin S /\ (k - 1 < j <=> k < j)
      BY <2>5
    <3> QED
      BY <2>1, <2>2, <2>3, <3>1
  <2> QED
    BY <2>4, <2>5
<1>2. 0 \in T /\ n \in 0..n
  BY AscendingStep, 1 \in Nat \ {0}
<1> HIDE DEF T
<1>3. 0..n \subseteq T
  BY <1>1, <1>2, UpTo, Zenon
<1>4. n \in T /\ ~(n < j)
  BY <1>2, <1>3
<1> QED
  BY <1>4 DEF T

\* What was meant grows with each frame that completes something.
LEMMA EventsStep ==
  ASSUME NEW n \in Nat
  PROVE  /\ Events(0) = <<>>
         /\ Events(n + 1) = IF Completes(n + 1) THEN Append(Events(n), Event(n + 1)) ELSE Events(n)
<1> DEFINE S(m) == {k \in 1..m : Completes(k)}
           a(m) == Ascending(S(m), m)
<1>1. \A m \in Nat : Events(m) = [e \in DOMAIN a(m) |-> Event(a(m)[e])]
  BY DEF Events
<1>2. a(0) = <<>>
  BY AscendingStep, 1 \in Nat \ {0}
<1>3. a(n + 1) = IF Completes(n + 1) THEN Append(a(n), n + 1) ELSE a(n)
  <2>1. n + 1 \in Nat \ {0} /\ (n + 1) - 1 = n
    OBVIOUS
  <2>2. a(n + 1) = IF n + 1 \in S(n + 1) THEN Append(Ascending(S(n + 1), n), n + 1)
                   ELSE Ascending(S(n + 1), n)
    <3> HIDE DEF S
    <3>1. PICK R : R = S(n + 1)
      OBVIOUS
    <3>2. PICK m \in Nat \ {0} : m = n + 1
      BY <2>1
    <3>3. Ascending(R, m) = IF m \in R THEN Append(Ascending(R, m - 1), m)
                            ELSE Ascending(R, m - 1)
      BY AscendingStep
    <3>4. m - 1 = n
      BY <3>2
    <3> QED
      BY <3>1, <3>2, <3>3, <3>4
  <2>3. n + 1 \in S(n + 1) <=> Completes(n + 1)
    OBVIOUS
  <2>4. Ascending(S(n + 1), n) = a(n)
    <3>1. \A k \in 1..n : k \in S(n + 1) <=> k \in S(n)
      OBVIOUS
    <3> HIDE DEF S
    <3> QED
      BY <3>1, AscendingSame
  <2> QED
    BY <2>2, <2>3, <2>4
<1>4. a(n) \in Seq(Nat)
  <2> HIDE DEF S
  <2> QED
    BY AscendingMembers
<1> HIDE DEF a
<1>5. Events(0) = <<>>
  BY <1>1, <1>2
<1>6. Events(n + 1) = IF Completes(n + 1) THEN Append(Events(n), Event(n + 1)) ELSE Events(n)
  <2> DEFINE q == a(n)
  <2>1. Events(n) = [e \in 1..Len(q) |-> Event(q[e])]
    BY <1>1, <1>4
  <2>2. CASE Completes(n + 1)
    <3>1. a(n + 1) = Append(q, n + 1)
      BY <1>3, <2>2
    <3>2. Events(n + 1) = [e \in 1..(Len(q) + 1) |-> Event(Append(q, n + 1)[e])]
      <4>1. n + 1 \in Nat /\ DOMAIN Append(q, n + 1) = 1..(Len(q) + 1)
        BY <1>4
      <4> HIDE DEF q
      <4> QED
        BY <1>1, <3>1, <4>1
    <3>3. Events(n + 1) = Append(Events(n), Event(n + 1))
      <4> HIDE DEF q
      <4> DEFINE ev == [e \in 1..Len(q) |-> Event(q[e])]
                 x == Event(n + 1)
                 er == [e \in 1..(Len(q) + 1) |-> Event(Append(q, n + 1)[e])]
      <4>0. q \in Seq(Nat) /\ Len(q) \in Nat
        BY <1>4 DEF q
      <4>1. ASSUME NEW e \in 1..(Len(q) + 1)
            PROVE  er[e] = IF e <= Len(q) THEN ev[e] ELSE x
        BY <4>0
      <4>2. Append(ev, x) = [e \in 1..(Len(q) + 1) |-> IF e <= Len(q) THEN ev[e] ELSE x]
        BY <4>0
      <4> HIDE DEF ev, x
      <4>3. er = Append(ev, x)
        BY <4>1, <4>2
      <4> QED
        BY <2>1, <3>2, <4>3 DEF ev, x
    <3> QED
      BY <2>2, <3>3
  <2>3. CASE ~Completes(n + 1)
    BY <1>1, <1>3, <1>4, <2>3
  <2> QED
    BY <2>2, <2>3
<1> QED
  BY <1>5, <1>6

---------------------------------------------------------------------------
(* What the codec knows after n frames.                                    *)

\* What a connection may be closed for.
Cause(n) ==
  \/ ~Conforms(n)
  \/ \E k \in 1..n : frames[k].key = "zero" /\ frames[k].len > 0
  \/ \E k \in 1..n : frames[k].op = "continuation" /\ ~frames[k].fin

\* The j-th frame begins a message, and no fragment of it has followed.
Opens(j, n) ==
  /\ frames[j].op \in Data /\ ~frames[j].fin
  /\ \A i \in (j + 1)..n : ~IsData(i)

Orderly(n) ==
  \A k \in 1..n :
    /\ ~Refused(frames[k])
    /\ frames[k].op = "continuation" => Unfinished(k)
    /\ frames[k].op \in Data => ~\E j \in 1..(k - 1) : Opens(j, k - 1)

\* cur_message_type_ is that of the message whose first fragment came last.
Tracks(w, n) ==
  \/ w.current = "none" /\ ~\E j \in 1..n : Opens(j, n)
  \/ \E j \in 1..n : Opens(j, n) /\ w.current = frames[j].op

\* That fragment is all that is kept.
Gathered(w, n) ==
  /\ ~Unfinished(n + 1) => \A d \in Data : w.partial[d] = <<>>
  /\ \A j \in 1..n : Opens(j, n) =>
       \A d \in Data : w.partial[d] = IF d = frames[j].op THEN << j >> ELSE <<>>

\* Either there was a cause to close the connection, or what was told is right.
Told(w, n) ==
  /\ w.error => Cause(n)
  /\ ~w.error =>
       /\ Orderly(n) /\ Tracks(w, n)
       /\ Conforms(n) => w.out = Events(n) /\ Gathered(w, n)

Handlers ==
  [buf : Seq(Positions), state : {"header", "body"}, frame : 0..MaxFrames,
   key : 0..(MaxFrames + 1), body : Seq(Positions), current : Data \cup {"none"},
   partial : [Data -> Seq(Nat)], out : Seq([type : Ops, parts : Seq(Nat)]),
   error : BOOLEAN, status : {"open", "dropped", "terminated"}]

\* The key of a frame, as far as it has one.
KeyIsSet(w, k) ==
  /\ frames[k].key = "zero" => w.key = 0
  /\ frames[k].key = "random" => w.key = k

\* A data frame ends what earlier ones began; a control frame does not.
LEMMA OpensStep ==
  ASSUME NEW k \in Nat \ {0}, NEW j \in 1..k
  PROVE  Opens(j, k) <=> IF IsData(k) THEN j = k /\ frames[k].op \in Data /\ ~frames[k].fin
                         ELSE j # k /\ Opens(j, k - 1)
<1>1. CASE j = k
  <2>1. \A i \in (j + 1)..k : FALSE
    BY <1>1
  <2> QED
    BY <1>1, <2>1 DEF Opens, IsData
<1>2. CASE j # k
  <2>1. k \in (j + 1)..k /\ \A i \in (j + 1)..k : i = k \/ i \in (j + 1)..(k - 1)
    BY <1>2
  <2>2. \A i \in (j + 1)..(k - 1) : i \in (j + 1)..k
    OBVIOUS
  <2> QED
    BY <1>2, <2>1, <2>2 DEF Opens
<1> QED
  BY <1>1, <1>2

\* A message is unfinished after a data frame that is not the last of it.
LEMMA UnfinishedStep ==
  ASSUME NEW k \in Nat \ {0}
  PROVE  Unfinished(k + 1) <=> IF IsData(k) THEN ~frames[k].fin ELSE Unfinished(k)
<1>1. (k + 1) - 1 = k /\ k \in 1..k /\ \A i \in (k + 1)..k : FALSE
  OBVIOUS
<1>2. CASE IsData(k)
  <2>1. ASSUME Unfinished(k + 1) PROVE ~frames[k].fin
    <3>1. PICK j \in 1..k : /\ IsData(j) /\ ~frames[j].fin
                            /\ \A i \in (j + 1)..k : ~IsData(i)
      BY <1>1, <2>1 DEF Unfinished
    <3>2. j = k
      <4> SUFFICES ASSUME j # k PROVE FALSE
        OBVIOUS
      <4>1. k \in (j + 1)..k
        OBVIOUS
      <4> QED
        BY <1>2, <3>1, <4>1
    <3> QED
      BY <3>1, <3>2
  <2>2. ASSUME ~frames[k].fin PROVE Unfinished(k + 1)
    BY <1>1, <1>2, <2>2 DEF Unfinished
  <2> QED
    BY <1>2, <2>1, <2>2
<1>3. CASE ~IsData(k)
  <2>1. ASSUME Unfinished(k + 1) PROVE Unfinished(k)
    <3>1. PICK j \in 1..k : /\ IsData(j) /\ ~frames[j].fin
                            /\ \A i \in (j + 1)..k : ~IsData(i)
      BY <1>1, <2>1 DEF Unfinished
    <3>2. j \in 1..(k - 1) /\ \A i \in (j + 1)..(k - 1) : i \in (j + 1)..k
      BY <1>3, <3>1
    <3> QED
      BY <3>1, <3>2 DEF Unfinished
  <2>2. ASSUME Unfinished(k) PROVE Unfinished(k + 1)
    <3>1. PICK j \in 1..(k - 1) : /\ IsData(j) /\ ~frames[j].fin
                                  /\ \A i \in (j + 1)..(k - 1) : ~IsData(i)
      BY <2>2 DEF Unfinished
    <3>2. j \in 1..k /\ \A i \in (j + 1)..k : i = k \/ i \in (j + 1)..(k - 1)
      OBVIOUS
    <3> QED
      BY <1>1, <1>3, <3>1, <3>2 DEF Unfinished
  <2> QED
    BY <1>3, <2>1, <2>2
<1> QED
  BY <1>2, <1>3

\* A message begun is one unfinished.
LEMMA OpensUnfinished ==
  ASSUME NEW k \in Nat \ {0}, NEW j \in 1..(k - 1), Opens(j, k - 1)
  PROVE  Unfinished(k)
BY DEF Opens, Unfinished, IsData

\* Conforming, and having a cause, hold on.
LEMMA CauseGrows ==
  ASSUME NEW n \in Nat, NEW m \in Nat, n <= m
  PROVE  (Conforms(m) => Conforms(n)) /\ (Cause(n) => Cause(m))
<1>1. \A k \in 1..n : k \in 1..m
  OBVIOUS
<1>2. Conforms(m) => Conforms(n)
  BY <1>1 DEF Conforms
<1> QED
  BY <1>1, <1>2 DEF Cause

\* An event has one fragment, or two.
LEMMA EventOfOne ==
  ASSUME NEW k \in Nat \ {0}, frames[k].op \in Data
  PROVE  Event(k) = [type |-> frames[k].op, parts |-> << k >>]
<1> DEFINE first == CHOOSE j \in Starts(k) : \A i \in Starts(k) : i <= j
           S == {i \in first..k : IsData(i)}
<1>1. IsData(k) /\ k \in Starts(k) /\ \A i \in Starts(k) : i \in 1..k
  BY DEF IsData, Starts
<1>2. first \in Starts(k) /\ \A i \in Starts(k) : i <= first
  <2>1. \E j \in Starts(k) : \A i \in Starts(k) : i <= j
    BY <1>1
  <2> QED
    BY <2>1
<1>3. first = k
  BY <1>1, <1>2
<1>4. \A i \in 1..k : i \in S <=> i = k
  BY <1>1, <1>3
<1>5. Event(k) = [type |-> frames[first].op, parts |-> Ascending(S, k)]
  BY <1>1 DEF Event
<1> HIDE DEF first, S
<1>6. k \in Nat /\ k \in 1..k
  OBVIOUS
<1>7. Ascending(S, k) = << k >>
  BY <1>4, <1>6, AscendingOne
<1> QED
  BY <1>3, <1>5, <1>7

\* A continuation right after the first fragment makes two.
LEMMA EventOfTwo ==
  ASSUME NEW k \in Nat \ {0}, frames[k].op = "continuation", NEW j \in 1..(k - 1), Opens(j, k - 1)
  PROVE  Event(k) = [type |-> frames[j].op, parts |-> << j, k >>]
<1> DEFINE first == CHOOSE i \in Starts(k) : \A h \in Starts(k) : h <= i
           S == {i \in first..k : IsData(i)}
<1>1. IsData(k) /\ IsData(j) /\ k - 1 \in Nat /\ j \in 1..k
  BY DEF IsData, Opens
<1>2. j \in Starts(k)
  BY <1>1 DEF Starts, Opens
<1>3. \A i \in Starts(k) : i <= j
  <2> SUFFICES ASSUME NEW i \in Starts(k), ~(i <= j) PROVE FALSE
    BY DEF Starts
  <2>1. i \in 1..k /\ frames[i].op \in Data
    BY DEF Starts
  <2>2. i # k
    BY <2>1 DEF Data
  <2>3. i \in (j + 1)..(k - 1)
    BY <2>1, <2>2
  <2> QED
    BY <2>1, <2>3 DEF Opens, IsData
<1>4. first \in Starts(k) /\ \A i \in Starts(k) : i <= first
  <2>1. \E i \in Starts(k) : \A h \in Starts(k) : h <= i
    BY <1>2, <1>3
  <2> QED
    BY <2>1
<1>5. first = j
  <2>1. first \in 1..k
    BY <1>4 DEF Starts
  <2> QED
    BY <1>2, <1>3, <1>4, <2>1
<1>6. k \in S /\ \A i \in 1..(k - 1) : i \in S <=> i = j
  <2>1. k \in S
    <3>1. k \in j..k /\ first = j
      BY <1>5
    <3> HIDE DEF first
    <3> QED
      BY <1>1, <3>1
  <2>2. ASSUME NEW i \in 1..(k - 1) PROVE i \in S <=> i = j
    <3>1. i \in S <=> i \in j..k /\ IsData(i)
      BY <1>5
    <3>2. i > j => i \in (j + 1)..(k - 1)
      OBVIOUS
    <3>3. i > j => ~IsData(i)
      BY <3>2 DEF Opens
    <3> HIDE DEF S
    <3> QED
      BY <1>1, <3>1, <3>3
  <2> QED
    BY <2>1, <2>2
<1>7. Event(k) = [type |-> frames[first].op, parts |-> Ascending(S, k)]
  BY <1>1 DEF Event
<1> HIDE DEF first, S
<1>8. Ascending(S, k - 1) = << j >>
  BY <1>1, <1>6, AscendingOne
<1>9. Ascending(S, k) = Append(<< j >>, k)
  BY <1>6, <1>8, AscendingStep
<1> QED
  BY <1>5, <1>7, <1>9

---------------------------------------------------------------------------
(* A frame that has been read.                                             *)

\* A body without a key has a cause.
LEMMA NoKeyStep ==
  ASSUME Framed, NEW w \in Handlers, NEW k \in DOMAIN frames, w.frame = k, KeyIsSet(w, k),
         w.body = Body(k), ~HasKey(w)
  PROVE  Cause(k)
<1>1. w.body # <<>> /\ w.key = 0
  BY DEF HasKey
<1>2. IsFrame(frames[k]) /\ frames[k].len \in Nat /\ k \in 1..k /\ k # 0
  BY SizeType DEF Framed
<1>3. frames[k].len > 0
  <2> SUFFICES ASSUME frames[k].len = 0 PROVE FALSE
    BY <1>2
  <2>1. Body(k) = <<>>
    BY DEF Body
  <2> QED
    BY <1>1, <2>1
<1>4. CASE frames[k].key = "zero"
  BY <1>2, <1>3, <1>4 DEF Cause
<1>5. CASE frames[k].key = "none"
  BY <1>2, <1>5 DEF Cause, Conforms
<1>6. CASE frames[k].key = "random"
  BY <1>1, <1>2, <1>6 DEF KeyIsSet
<1> QED
  BY <1>2, <1>4, <1>5, <1>6 DEF IsFrame

\* A body is unmasked with the key that came with it.
LEMMA PartStep ==
  ASSUME Framed, NEW w \in Handlers, NEW k \in DOMAIN frames, w.frame = k, KeyIsSet(w, k),
         w.body = Body(k), HasKey(w)
  PROVE  Part(w) \in Nat /\ (Conforms(k) => Part(w) = k)
<1>1. IsFrame(frames[k]) /\ k \in Nat /\ k \in 1..k
  BY SizeType DEF Framed
<1>2. Part(w) \in {k, 0}
  BY DEF Part, Garbled
<1>3. ASSUME Conforms(k) PROVE w.body = <<>> \/ w.key = k
  <2>1. frames[k].key # "none"
    BY <1>1, <1>3 DEF Conforms
  <2>2. frames[k].key \in {"zero", "random"}
    BY <1>1, <2>1 DEF IsFrame
  <2> QED
    BY <2>2 DEF KeyIsSet, HasKey
<1> QED
  BY <1>1, <1>2, <1>3 DEF Part

\* What stays as it is.
Kept(v, w) ==
  /\ v.buf = w.buf /\ v.state = w.state /\ v.frame = w.frame /\ v.key = w.key
  /\ v.body = w.body /\ v.status = w.status

\* The callback for a frame leaves the parser alone, and takes no error back.
LEMMA FrameKept ==
  ASSUME Framed, NEW w \in Handlers, NEW k \in DOMAIN frames, w.frame = k, KeyIsSet(w, k),
         w.body = Body(k), NEW v, v = OnParsedFrame(w)
  PROVE  v \in Handlers /\ Kept(v, w) /\ (w.error => v.error)
<1>0. IsFrame(frames[k]) /\ frames[k].op \in Ops /\ frames[k].fin \in BOOLEAN
  BY SizeType DEF IsFrame
<1> DEFINE e == Error(w)
<1>1. e \in Handlers /\ Kept(e, w) /\ (w.error => e.error)
  BY DEF Error, Handlers, Kept
<1>2. ASSUME NEW type \in Ops, NEW parts \in Seq(Nat), NEW u \in Handlers, Kept(u, w),
             w.error => u.error
      PROVE  /\ Deliver(u, type, parts) \in Handlers /\ Kept(Deliver(u, type, parts), w)
             /\ w.error => Deliver(u, type, parts).error
  <2>1. Append(u.out, [type |-> type, parts |-> parts]) \in Seq([type : Ops, parts : Seq(Nat)])
    <3> DEFINE E == [type : Ops, parts : Seq(Nat)]
               x == [type |-> type, parts |-> parts]
    <3>1. x \in E /\ u.out \in Seq(E)
      BY <1>2 DEF Handlers
    <3> HIDE DEF E, x
    <3>2. Append(u.out, x) \in Seq(E)
      BY <3>1
    <3> QED
      BY <3>2 DEF E, x
  <2>2. Deliver(u, type, parts) = [u EXCEPT !.out = Append(u.out, [type |-> type, parts |-> parts])]
    BY DEF Deliver
  <2> DEFINE o == Append(u.out, [type |-> type, parts |-> parts])
  <2> HIDE DEF o
  <2>3. [u EXCEPT !.out = o] \in Handlers /\ Kept([u EXCEPT !.out = o], w)
        /\ (w.error => [u EXCEPT !.out = o].error)
    BY <1>2, <2>1 DEF Handlers, Kept, o
  <2> QED
    BY <2>2, <2>3 DEF o
<1>3. ASSUME NEW type \in Data, HasKey(w)
      PROVE  /\ Collect(w, type) \in Handlers /\ Kept(Collect(w, type), w)
             /\ w.error => Collect(w, type).error
  <2> DEFINE parts == Append(w.partial[type], Part(w))
             u == [w EXCEPT !.partial[type] = <<>>]
             q == [w EXCEPT !.partial[type] = parts]
  <2>1. Part(w) \in Nat /\ w.partial[type] \in Seq(Nat)
    BY <1>3, PartStep DEF Handlers
  <2>2. parts \in Seq(Nat) /\ <<>> \in Seq(Nat)
    BY <2>1
  <2>3. Collect(w, type) = IF frames[w.frame].fin THEN Deliver(u, type, parts) ELSE q
    BY DEF Collect
  <2> HIDE DEF parts
  <2>4. u \in Handlers /\ Kept(u, w) /\ (w.error => u.error)
    BY <2>2 DEF Handlers, Kept
  <2>5. q \in Handlers /\ Kept(q, w) /\ (w.error => q.error)
    BY <2>2 DEF Handlers, Kept
  <2> HIDE DEF u, q
  <2>6. type \in Ops
    BY DEF Ops
  <2> QED
    BY <1>2, <2>2, <2>3, <2>4, <2>5, <2>6
<1>4. CASE frames[k].op = "continuation"
  <2>1. v = OnContinuationFrame(w)
    BY <1>4 DEF OnParsedFrame, Data
  <2>2. CASE ~HasKey(w) \/ w.current = "none"
    BY <1>1, <2>1, <2>2 DEF OnContinuationFrame
  <2>3. CASE HasKey(w) /\ w.current # "none"
    <3> DEFINE c == Collect(w, w.current)
    <3>1. v = [c EXCEPT !.current = "none"]
      BY <2>1, <2>3 DEF OnContinuationFrame
    <3>2. w.current \in Data
      BY <2>3 DEF Handlers
    <3>3. c \in Handlers /\ Kept(c, w) /\ (w.error => c.error)
      BY <1>3, <2>3, <3>2
    <3> HIDE DEF c
    <3>4. v \in Handlers
      BY <3>1, <3>3 DEF Handlers
    <3>5. Kept(v, c) /\ v.error = c.error
      BY <3>1, <3>3 DEF Handlers, Kept
    <3> QED
      BY <3>3, <3>4, <3>5 DEF Kept
  <2> QED
    BY <2>2, <2>3
<1>5. CASE frames[k].op \in Data
  <2>1. v = OnDataFrame(w)
    BY <1>5 DEF OnParsedFrame, Data
  <2>2. CASE ~HasKey(w) \/ w.current # "none"
    BY <1>1, <2>1, <2>2 DEF OnDataFrame
  <2>3. CASE HasKey(w) /\ w.current = "none"
    <3> DEFINE c == Collect(w, frames[k].op)
               t == TypeAfter(w)
    <3>1. v = [c EXCEPT !.current = t]
      BY <2>1, <2>3 DEF OnDataFrame
    <3>2. t \in Data \cup {"none"}
      BY <1>5 DEF TypeAfter
    <3>3. c \in Handlers /\ Kept(c, w) /\ (w.error => c.error)
      BY <1>3, <1>5, <2>3
    <3> HIDE DEF c, t
    <3>4. v \in Handlers
      BY <3>1, <3>2, <3>3 DEF Handlers
    <3>5. Kept(v, c) /\ v.error = c.error
      BY <3>1, <3>3 DEF Handlers, Kept
    <3> QED
      BY <3>3, <3>4, <3>5 DEF Kept
  <2> QED
    BY <2>2, <2>3
<1>6. CASE frames[k].op # "continuation" /\ frames[k].op \notin Data
  <2>1. v = OnControlFrame(w)
    BY <1>6 DEF OnParsedFrame
  <2>2. CASE ~HasKey(w)
    BY <1>1, <2>1, <2>2 DEF OnControlFrame
  <2>3. CASE HasKey(w)
    <3> DEFINE parts == IF frames[k].op = "close" THEN << Part(w) >> ELSE <<>>
    <3>1. v = Deliver(w, frames[k].op, parts)
      BY <2>1, <2>3 DEF OnControlFrame
    <3>2. parts \in Seq(Nat)
      <4>1. PICK p \in Nat : p = Part(w)
        BY <2>3, PartStep
      <4>2. << p >> \in Seq(Nat)
        OBVIOUS
      <4> QED
        BY <4>1, <4>2
    <3>3. Kept(w, w)
      BY DEF Kept
    <3> HIDE DEF parts
    <3> QED
      BY <1>0, <1>2, <3>1, <3>2, <3>3
  <2> QED
    BY <2>2, <2>3
<1> QED
  BY <1>4, <1>5, <1>6

\* Two in a row.
LEMMA PairOf ==
  ASSUME NEW i \in Nat, NEW k \in Nat
  PROVE  Append(<< i >>, k) = << i, k >>
<1>1. << i >> \in Seq(Nat) /\ Len(<< i >>) = 1 /\ << i >>[1] = i
  OBVIOUS
<1>2. Append(<< i >>, k) \in Seq(Nat) /\ << i, k >> \in Seq(Nat)
  BY <1>1
<1>3. Len(Append(<< i >>, k)) = 2 /\ Len(<< i, k >>) = 2
  BY <1>1
<1>4. \A h \in 1..2 : Append(<< i >>, k)[h] = << i, k >>[h]
  BY <1>1
<1> QED
  BY <1>2, <1>3, <1>4, SeqEqual

\* The frame keeps what was told right, or is a cause to close the connection.
LEMMA FrameTold ==
  ASSUME Framed, NEW w \in Handlers, NEW k \in DOMAIN frames, w.frame = k, KeyIsSet(w, k),
         w.body = Body(k), ~Refused(frames[k]), Told(w, k - 1), NEW v, v = OnParsedFrame(w)
  PROVE  Told(v, k)
<1>1. /\ IsFrame(frames[k]) /\ frames[k].op \in Ops /\ frames[k].fin \in BOOLEAN
      /\ k \in Nat \ {0} /\ k - 1 \in Nat /\ k - 1 <= k /\ k \in 1..k
  BY SizeType DEF IsFrame, Framed
<1>2. v \in Handlers /\ (w.error => v.error)
  BY FrameKept
<1>3. CASE w.error
  <2>1. Cause(k - 1)
    BY <1>3 DEF Told
  <2>2. Cause(k)
    BY <1>1, <2>1, CauseGrows
  <2> QED
    BY <1>2, <1>3, <2>2 DEF Told
<1>4. CASE ~w.error
  <2>1. Orderly(k - 1) /\ Tracks(w, k - 1)
    BY <1>4 DEF Told
  <2>2. Conforms(k) => Conforms(k - 1) /\ w.out = Events(k - 1) /\ Gathered(w, k - 1)
    <3>1. Conforms(k) => Conforms(k - 1)
      BY <1>1, CauseGrows
    <3> QED
      BY <1>4, <3>1 DEF Told
  <2>3. Events(k) = IF Completes(k) THEN Append(Events(k - 1), Event(k)) ELSE Events(k - 1)
    <3>1. PICK n \in Nat : n = k - 1
      BY <1>1
    <3>2. n + 1 = k
      BY <1>1, <3>1
    <3>3. Events(n + 1) = IF Completes(n + 1) THEN Append(Events(n), Event(n + 1)) ELSE Events(n)
      BY EventsStep
    <3> QED
      BY <3>1, <3>2, <3>3
  <2>4. \A i \in 1..k : i = k \/ i \in 1..(k - 1)
    BY <1>1
  <2>5. CASE ~HasKey(w)
    <3>1. Cause(k)
      BY <2>5, NoKeyStep
    <3>2. v = Error(w)
      BY <2>5 DEF OnParsedFrame, OnContinuationFrame, OnDataFrame, OnControlFrame
    <3>3. v.error
      BY <3>2 DEF Error, Handlers
    <3> QED
      BY <3>1, <3>3 DEF Told
  <2>6. CASE HasKey(w) /\ frames[k].op = "continuation" /\ w.current = "none"
    <3>1. v = Error(w)
      BY <2>6 DEF OnParsedFrame, OnContinuationFrame, Data
    <3>2. v.error
      BY <3>1 DEF Error, Handlers
    <3>3. ~\E j \in 1..(k - 1) : Opens(j, k - 1)
      BY <2>1, <2>6 DEF Tracks, Opens, Data
    <3>4. ASSUME Conforms(k) PROVE Cause(k)
      <4>1. Unfinished(k)
        BY <1>1, <2>6, <3>4 DEF Conforms, IsData
      <4>2. PICK j \in 1..(k - 1) : /\ IsData(j) /\ ~frames[j].fin
                                    /\ \A i \in (j + 1)..(k - 1) : ~IsData(i)
        BY <4>1 DEF Unfinished
      <4>3. frames[j].op = "continuation" /\ j \in 1..k
        <5>1. frames[j].op \in Data => Opens(j, k - 1)
          BY <4>2 DEF Opens
        <5>2. j \in 1..k
          BY <1>1
        <5> QED
          BY <3>3, <4>2, <5>1, <5>2 DEF IsData
      <4> QED
        BY <4>2, <4>3 DEF Cause
    <3>5. Cause(k)
      BY <3>4 DEF Cause
    <3> QED
      BY <3>2, <3>5 DEF Told
  <2>7. CASE HasKey(w) /\ frames[k].op = "continuation" /\ w.current # "none"
    <3>1. PICK j \in 1..(k - 1) : Opens(j, k - 1) /\ w.current = frames[j].op
      BY <2>1, <2>7 DEF Tracks
    <3>2. IsData(k) /\ frames[k].op \notin Data /\ w.current \in Data
      BY <2>7, <3>1 DEF IsData, Data, Opens
    <3>3. \A i \in 1..k : ~Opens(i, k)
      BY <1>1, <3>2, OpensStep
    <3>4. Orderly(k)
      <4>1. Unfinished(k)
        BY <1>1, <3>1, OpensUnfinished
      <4> QED
        BY <2>1, <2>4, <3>2, <4>1 DEF Orderly
    <3> DEFINE c == Collect(w, w.current)
    <3>5. v = [c EXCEPT !.current = "none"]
      BY <2>7 DEF OnParsedFrame, OnContinuationFrame, Data
    <3>6. v.current = "none"
      <4>1. "current" \in DOMAIN c
        BY DEF Collect, Deliver, Handlers
      <4> HIDE DEF c
      <4> QED
        BY <3>5, <4>1
    <3>7. Tracks(v, k)
      BY <3>3, <3>6 DEF Tracks
    <3>8. ASSUME Conforms(k) PROVE v.out = Events(k) /\ Gathered(v, k)
      <4> DEFINE t == w.current
                 parts == Append(w.partial[t], Part(w))
      <4>1. Part(w) = k /\ w.out = Events(k - 1) /\ Gathered(w, k - 1)
        BY <2>2, <2>7, <3>8, PartStep
      <4>2. \A d \in Data : w.partial[d] = IF d = t THEN << j >> ELSE <<>>
        BY <3>1, <4>1 DEF Gathered
      <4>3. parts = << j, k >>
        <5>1. w.partial[t] = << j >> /\ Part(w) = k
          BY <3>2, <4>1, <4>2
        <5>2. Append(<< j >>, k) = << j, k >>
          <6>1. j \in Nat /\ k \in Nat
            BY <1>1
          <6> QED
            BY <6>1, PairOf
        <5> QED
          BY <5>1, <5>2
      <4>4. Event(k) = [type |-> t, parts |-> parts]
        BY <1>1, <2>7, <3>1, <4>3, EventOfTwo
      <4>5. Unfinished(k + 1) <=> ~frames[k].fin
        BY <1>1, <3>2, UnfinishedStep
      <4>6. CASE frames[k].fin
        <5> DEFINE p == [w.partial EXCEPT ![t] = <<>>]
                   o == Append(w.out, [type |-> t, parts |-> parts])
        <5>1. c = [[w EXCEPT !.partial = p] EXCEPT !.out = o]
          BY <4>6 DEF Collect, Deliver, Handlers
        <5>2. v.out = o /\ v.partial = p
          <6> HIDE DEF p, o, c
          <6> QED
            BY <3>5, <5>1 DEF Handlers
        <5>3. v.out = Events(k)
          BY <2>3, <3>2, <4>1, <4>4, <4>6, <5>2 DEF Completes
        <5>4. \A d \in Data : p[d] = <<>>
          BY <3>2, <4>2 DEF Handlers
        <5>5. Gathered(v, k)
          BY <3>3, <5>2, <5>4 DEF Gathered
        <5> QED
          BY <5>3, <5>5
      <4>7. CASE ~frames[k].fin
        <5>1. c = [w EXCEPT !.partial[t] = parts]
          BY <4>7 DEF Collect
        <5>2. v.out = w.out
          <6> HIDE DEF parts
          <6> QED
            BY <3>5, <5>1 DEF Handlers
        <5>3. v.out = Events(k)
          BY <2>3, <3>2, <4>1, <4>7, <5>2 DEF Completes
        <5>4. Gathered(v, k)
          BY <3>3, <4>5, <4>7 DEF Gathered
        <5> QED
          BY <5>3, <5>4
      <4> QED
        BY <4>6, <4>7
    <3>9. v.error => Cause(k)
      <4>1. ~v.error
        <5>1. v.error = w.error
          BY <3>5 DEF Collect, Deliver, Handlers
        <5> QED
          BY <1>4, <5>1
      <4> QED
        BY <4>1
    <3> QED
      BY <3>4, <3>7, <3>8, <3>9 DEF Told
  <2>8. CASE HasKey(w) /\ frames[k].op \in Data /\ w.current # "none"
    <3>1. v = Error(w)
      BY <2>8 DEF OnParsedFrame, OnDataFrame, Data
    <3>2. v.error
      BY <3>1 DEF Error, Handlers
    <3>3. PICK j \in 1..(k - 1) : Opens(j, k - 1)
      BY <2>1, <2>8 DEF Tracks
    <3>4. Unfinished(k)
      BY <1>1, <3>3, OpensUnfinished
    <3>5. ~Conforms(k)
      BY <1>1, <2>8, <3>4 DEF Conforms, IsData, Data
    <3> QED
      BY <3>2, <3>5 DEF Told, Cause
  <2>9. CASE HasKey(w) /\ frames[k].op \in Data /\ w.current = "none"
    <3> DEFINE d0 == frames[k].op
               c == Collect(w, d0)
               parts == Append(w.partial[d0], Part(w))
    <3>1. ~\E j \in 1..(k - 1) : Opens(j, k - 1)
      BY <2>1, <2>9 DEF Tracks, Opens, Data
    <3>2. IsData(k) /\ d0 # "continuation"
      BY <2>9 DEF IsData, Data
    <3>3. \A i \in 1..k : Opens(i, k) <=> i = k /\ ~frames[k].fin
      BY <1>1, <2>9, <3>2, OpensStep
    <3>4. Orderly(k)
      BY <2>1, <2>4, <3>1, <3>2 DEF Orderly
    <3>5. v = [c EXCEPT !.current = TypeAfter(w)]
      BY <2>9 DEF OnParsedFrame, OnDataFrame, Data
    <3>6. v.current = IF frames[k].fin THEN "none" ELSE d0
      <4>1. "current" \in DOMAIN c
        BY DEF Collect, Deliver, Handlers
      <4> HIDE DEF c
      <4> QED
        BY <3>5, <4>1 DEF TypeAfter
    <3>7. Tracks(v, k)
      BY <1>1, <3>3, <3>6 DEF Tracks
    <3>8. ASSUME Conforms(k) PROVE v.out = Events(k) /\ Gathered(v, k)
      <4>1. Part(w) = k /\ w.out = Events(k - 1) /\ Gathered(w, k - 1)
        BY <2>2, <2>9, <3>8, PartStep
      <4>2. ~Unfinished(k)
        BY <1>1, <3>2, <3>8 DEF Conforms
      <4>3. \A d \in Data : w.partial[d] = <<>>
        <5>1. (k - 1) + 1 = k
          BY <1>1
        <5> QED
          BY <4>1, <4>2, <5>1 DEF Gathered
      <4>4. parts = << k >>
        <5>1. w.partial[d0] = <<>> /\ Part(w) = k
          BY <2>9, <4>1, <4>3
        <5>2. Append(<<>>, k) = << k >>
          OBVIOUS
        <5> QED
          BY <5>1, <5>2
      <4>5. Event(k) = [type |-> d0, parts |-> parts]
        BY <1>1, <2>9, <4>4, EventOfOne
      <4>6. Unfinished(k + 1) <=> ~frames[k].fin
        BY <1>1, <3>2, UnfinishedStep
      <4>7. CASE frames[k].fin
        <5> DEFINE p == [w.partial EXCEPT ![d0] = <<>>]
                   o == Append(w.out, [type |-> d0, parts |-> parts])
        <5>1. c = [[w EXCEPT !.partial = p] EXCEPT !.out = o]
          BY <4>7 DEF Collect, Deliver, Handlers
        <5>2. v.out = o /\ v.partial = p
          <6> HIDE DEF p, o, c
          <6> QED
            BY <3>5, <5>1 DEF Handlers
        <5>3. v.out = Events(k)
          BY <2>3, <4>1, <4>5, <4>7, <5>2 DEF Completes
        <5>4. \A d \in Data : p[d] = <<>>
          BY <2>9, <4>3 DEF Handlers
        <5>5. Gathered(v, k)
          BY <3>3, <4>7, <5>2, <5>4 DEF Gathered
        <5> QED
          BY <5>3, <5>5
      <4>8. CASE ~frames[k].fin
        <5> DEFINE p == [w.partial EXCEPT ![d0] = parts]
        <5>1. c = [w EXCEPT !.partial = p]
          BY <4>8 DEF Collect, Handlers
        <5>2. v.out = w.out /\ v.partial = p
          <6> HIDE DEF p, c
          <6> QED
            BY <3>5, <5>1 DEF Handlers
        <5>3. v.out = Events(k)
          BY <2>3, <3>2, <4>1, <4>8, <5>2 DEF Completes
        <5>4. \A d \in Data : p[d] = IF d = d0 THEN << k >> ELSE <<>>
          BY <2>9, <4>3, <4>4 DEF Handlers
        <5>5. Gathered(v, k)
          BY <3>3, <4>6, <4>8, <5>2, <5>4 DEF Gathered
        <5> QED
          BY <5>3, <5>5
      <4> QED
        BY <4>7, <4>8
    <3>9. ~v.error
      <4>1. v.error = w.error
        BY <3>5 DEF Collect, Deliver, Handlers
      <4> QED
        BY <1>4, <4>1
    <3> QED
      BY <3>4, <3>7, <3>8, <3>9 DEF Told
  <2>10. CASE HasKey(w) /\ frames[k].op # "continuation" /\ frames[k].op \notin Data
    <3> DEFINE parts == IF frames[k].op = "close" THEN << Part(w) >> ELSE <<>>
               o == Append(w.out, [type |-> frames[k].op, parts |-> parts])
    <3>1. v = [w EXCEPT !.out = o]
      BY <2>10 DEF OnParsedFrame, OnControlFrame, Deliver
    <3>2. v.out = o /\ v.error = w.error /\ v.current = w.current /\ v.partial = w.partial
      <4> HIDE DEF o
      <4> QED
        BY <3>1 DEF Handlers
    <3>3. ~IsData(k)
      BY <2>10 DEF IsData
    <3>4. \A i \in 1..k : Opens(i, k) <=> i # k /\ Opens(i, k - 1)
      BY <1>1, <3>3, OpensStep
    <3>5. Orderly(k)
      BY <2>1, <2>4, <2>10 DEF Orderly
    <3>6. Tracks(v, k)
      <4>1. CASE w.current = "none" /\ ~\E j \in 1..(k - 1) : Opens(j, k - 1)
        BY <2>4, <3>2, <3>4, <4>1 DEF Tracks
      <4>2. CASE \E j \in 1..(k - 1) : Opens(j, k - 1) /\ w.current = frames[j].op
        <5>1. PICK j \in 1..(k - 1) : Opens(j, k - 1) /\ w.current = frames[j].op
          BY <4>2
        <5>2. j \in 1..k /\ j # k
          BY <1>1
        <5> QED
          BY <3>2, <3>4, <5>1, <5>2 DEF Tracks
      <4> QED
        BY <2>1, <4>1, <4>2 DEF Tracks
    <3>7. ASSUME Conforms(k) PROVE v.out = Events(k) /\ Gathered(v, k)
      <4>1. Part(w) = k /\ w.out = Events(k - 1) /\ Gathered(w, k - 1)
        BY <2>2, <2>10, <3>7, PartStep
      <4>2. Event(k) = [type |-> frames[k].op, parts |-> parts]
        BY <3>3, <4>1 DEF Event
      <4>3. v.out = Events(k)
        BY <2>3, <3>2, <3>3, <4>1, <4>2 DEF Completes
      <4>4. Unfinished(k + 1) <=> Unfinished(k)
        BY <1>1, <3>3, UnfinishedStep
      <4>5. (k - 1) + 1 = k
        BY <1>1
      <4>6. ASSUME ~Unfinished(k + 1) PROVE \A d \in Data : v.partial[d] = <<>>
        BY <3>2, <4>1, <4>4, <4>5, <4>6 DEF Gathered
      <4>7. ASSUME NEW j \in 1..k, Opens(j, k)
            PROVE  \A d \in Data : v.partial[d] = IF d = frames[j].op THEN << j >> ELSE <<>>
        <5>1. j \in 1..(k - 1) /\ Opens(j, k - 1)
          BY <2>4, <3>4, <4>7
        <5> QED
          BY <3>2, <4>1, <5>1 DEF Gathered
      <4> QED
        BY <4>3, <4>6, <4>7 DEF Gathered
    <3> QED
      BY <1>4, <3>2, <3>5, <3>6, <3>7 DEF Told
  <2> QED
    BY <2>5, <2>6, <2>7, <2>8, <2>9, <2>10
<1> QED
  BY <1>3, <1>4

---------------------------------------------------------------------------
(* The parser and the loop of OnData.                                      *)

\* The parser has the header of the k-th frame and the first bytes of its body.
Inside(w, k) ==
  /\ k \in DOMAIN frames /\ w.state = "body" /\ w.frame = k
  /\ ~Refused(frames[k]) /\ KeyIsSet(w, k)
  /\ Len(w.body) <= frames[k].len
  /\ \A i \in 1..Len(w.body) : w.body[i] = << k, HeaderSize(frames[k]) + i >>

\* The parser is at s: the frames before the k-th have been read, and of that one
\* what is missing in s.
At(w, s, k) ==
  /\ k \in 1..(Len(frames) + 1) /\ Told(w, k - 1)
  /\ \/ /\ w.state = "header" /\ w.body = <<>>
        /\ IF s = <<>> THEN k = Len(frames) + 1 ELSE s[1] = << k, 1 >>
     \/ /\ Inside(w, k) /\ Len(w.body) < frames[k].len
        /\ s # <<>> /\ s[1] = << k, HeaderSize(frames[k]) + Len(w.body) + 1 >>

\* The connection is closed, or what follows in s is not understood any more.
Ended(w, s) ==
  /\ w.buf = <<>> /\ (w.status # "open" \/ w.error)
  /\ w.state = "header" => w.body = <<>>
  /\ w.error => w.status = "dropped" \/ Cause(Seen(s))

\* s has not been read yet.
Parsing(w, s) ==
  /\ w \in Handlers /\ Run(s)
  /\ \/ /\ w.status = "open" /\ Run(w.buf \o s)
        /\ \E k \in 1..(Len(frames) + 1) : At(w, w.buf \o s, k)
     \/ Ended(w, s)

\* The parser's fields do not matter to what was told.
LEMMA ToldSame ==
  ASSUME NEW v, NEW w, NEW n, Told(w, n), v.error = w.error, v.current = w.current,
         v.partial = w.partial, v.out = w.out
  PROVE  Told(v, n)
BY DEF Told, Tracks, Gathered

\* A body of full length is the body of the frame.
LEMMA BodyFull ==
  ASSUME Framed, NEW w \in Handlers, NEW k \in DOMAIN frames, Inside(w, k),
         Len(w.body) = frames[k].len
  PROVE  w.body = Body(k)
<1>1. w.body \in Seq(Positions) /\ frames[k].len \in Nat
  BY SizeType DEF Handlers
<1>2. w.body = [i \in 1..Len(w.body) |-> w.body[i]]
  BY <1>1
<1>3. Body(k) = [i \in 1..frames[k].len |-> << k, HeaderSize(frames[k]) + i >>]
  BY DEF Body
<1> QED
  BY <1>2, <1>3 DEF Inside

\* More of the body comes in x.
Continues(w, k, x) ==
  /\ w \in Handlers /\ k \in DOMAIN frames /\ Inside(w, k)
  /\ x \in Seq(Positions) /\ Len(w.body) + Len(x) <= frames[k].len
  /\ \A j \in 1..Len(x) : x[j] = << k, HeaderSize(frames[k]) + Len(w.body) + j >>

Longer(w, x) == [w EXCEPT !.body = w.body \o x]

\* The parser is then further in the same body.
LEMMA BodyMore ==
  ASSUME Framed, NEW w, NEW k, NEW x, Continues(w, k, x)
  PROVE  /\ Longer(w, x) \in Handlers /\ Inside(Longer(w, x), k)
         /\ Len(Longer(w, x).body) = Len(w.body) + Len(x)
         /\ Longer(w, x).buf = w.buf /\ Longer(w, x).status = w.status
         /\ \A n : Told(w, n) => Told(Longer(w, x), n)
<1> USE DEF Continues
<1> DEFINE v == Longer(w, x)
           b == w.body
           c == b \o x
<1>1. /\ b \in Seq(Positions) /\ frames[k].len \in Nat /\ HeaderSize(frames[k]) \in Nat
      /\ Len(b) \in Nat /\ Len(x) \in Nat
  BY SizeType DEF Handlers
<1>2. c \in Seq(Positions) /\ Len(c) = Len(b) + Len(x)
  <2> HIDE DEF b
  <2> QED
    BY <1>1, ConcatProperties
<1>3. ASSUME NEW i \in 1..Len(c) PROVE c[i] = << k, HeaderSize(frames[k]) + i >>
  <2>1. c[i] = IF i <= Len(b) THEN b[i] ELSE x[i - Len(b)]
    <3> HIDE DEF b
    <3> QED
      BY <1>1, <1>2, ConcatProperties
  <2>2. CASE i <= Len(b)
    <3>1. i \in 1..Len(b)
      BY <1>1, <1>2, <2>2
    <3> QED
      BY <2>1, <2>2, <3>1 DEF Inside
  <2>3. CASE ~(i <= Len(b))
    <3>1. i - Len(b) \in 1..Len(x)
      BY <1>1, <1>2, <2>3
    <3>2. x[i - Len(b)] = << k, HeaderSize(frames[k]) + Len(b) + (i - Len(b)) >>
      BY <3>1
    <3>3. HeaderSize(frames[k]) + Len(b) + (i - Len(b)) = HeaderSize(frames[k]) + i
      BY <1>1, <1>2
    <3> QED
      BY <2>1, <2>3, <3>2, <3>3
  <2> QED
    BY <2>2, <2>3
<1>4. v = [w EXCEPT !.body = c]
  BY DEF Longer
<1> HIDE DEF c, v
<1>5. /\ v \in Handlers /\ v.body = c /\ v.state = w.state /\ v.frame = w.frame
      /\ v.key = w.key /\ v.buf = w.buf /\ v.status = w.status
      /\ v.error = w.error /\ v.current = w.current /\ v.partial = w.partial /\ v.out = w.out
  BY <1>2, <1>4 DEF Handlers
<1>6. Inside(v, k)
  BY <1>1, <1>2, <1>3, <1>5 DEF Inside, KeyIsSet
<1>7. \A n : Told(w, n) => Told(v, n)
  BY <1>5, ToldSame
<1> QED
  BY <1>2, <1>5, <1>6, <1>7 DEF v

\* The parser is in the body of the k-th frame once it has passed the first h bytes
\* of data, with which s begins.
BodyAhead(w, k, data, s, h) ==
  /\ w \in Handlers /\ w.buf = <<>> /\ w.status = "open" /\ Inside(w, k) /\ Told(w, k - 1)
  /\ data \in Seq(Positions) /\ data # <<>> /\ h \in 0..Len(data)
  /\ Run(s) /\ Len(data) <= Len(s) /\ \A i \in 1..Len(data) : s[i] = data[i]
  /\ \/ h = 0 /\ Len(w.body) < frames[k].len
     \/ h = HeaderSize(frames[k]) /\ w.body = <<>>
  /\ s[1] = << k, HeaderSize(frames[k]) + Len(w.body) - h + 1 >>

\* The parser goes on with s.
Resumes(w, s) ==
  /\ w \in Handlers /\ w.buf = <<>> /\ w.status = "open"
  /\ \E k \in 1..(Len(frames) + 1) : At(w, s, k)

\* What ParseBody leaves behind is again the rest of the stream.
LEMMA BodyStep ==
  ASSUME Framed, NEW w, NEW k, NEW data, NEW s, NEW h, BodyAhead(w, k, data, s, h),
         NEW p, p = ParseBody(w, data, h)
  PROVE  /\ p.ok /\ p.n \in 1..Len(data)
         /\ Resumes(p.w, SubSeq(s, p.n + 1, Len(s)))
<1> DEFINE len == frames[k].len
           b == Len(w.body)
           size == HeaderSize(frames[k])
           o == size + b - h + 1
           m == Size(k) - o + 1
           need == len - b
           left == Len(data) - h
           taken == IF need <= left THEN need ELSE left
           x == SubSeq(data, h + 1, h + taken)
           more == [w EXCEPT !.body = w.body \o x]
<1>1. k \in DOMAIN frames /\ k \in Nat \ {0} /\ Len(frames) \in Nat /\ k <= Len(frames)
  <2>1. k \in DOMAIN frames
    BY DEF Inside, BodyAhead
  <2>2. Len(frames) \in Nat /\ DOMAIN frames = 1..Len(frames)
    BY DEF Framed
  <2> QED
    BY <2>1, <2>2
<1>2. /\ len \in Nat /\ size \in Nat /\ size >= 2 /\ Size(k) = size + len
      /\ b \in Nat /\ b <= len
  <2>1. len \in Nat /\ size \in Nat /\ size >= 2
    BY <1>1, SizeType
  <2>2. Size(k) = size + len
    BY DEF Size
  <2>3. w.body \in Seq(Positions)
    BY DEF Handlers, BodyAhead
  <2>4. b \in Nat
    BY <2>3
  <2>5. b <= len
    BY DEF Inside, BodyAhead
  <2> QED
    BY <2>1, <2>2, <2>4, <2>5
<1>3. /\ Len(data) \in Nat /\ Len(data) >= 1 /\ h \in Nat /\ h <= Len(data)
      /\ s \in Seq(Positions) /\ Len(s) \in Nat /\ Len(data) <= Len(s)
      /\ \A i \in 1..Len(data) : s[i] = data[i]
  <2> HIDE DEF x, more, taken, o, m, left, need, size, b, len
  <2>1. /\ data \in Seq(Positions) /\ data # <<>> /\ h \in 0..Len(data) /\ s \in Seq(Positions)
        /\ Len(data) <= Len(s) /\ \A i \in 1..Len(data) : s[i] = data[i]
    BY DEF BodyAhead, Run
  <2>2. Len(data) \in Nat /\ Len(data) >= 1 /\ Len(s) \in Nat
    BY <2>1, EmptySeq
  <2> QED
    BY <2>1, <2>2
<1>4. /\ o = size + b - h + 1 /\ m = Size(k) - o + 1 /\ need = len - b /\ left = Len(data) - h
      /\ taken = (IF need <= left THEN need ELSE left)
      /\ (h = 0 /\ b < len) \/ (h = size /\ b = 0)
  <2>1. w.body = <<>> => b = 0
    OBVIOUS
  <2>2. (h = 0 /\ b < len) \/ (h = size /\ b = 0)
    BY <2>1 DEF BodyAhead
  <2> QED
    BY <2>2
<1>5. p = Parsed(IF need <= left THEN CleanUp(OnParsedFrame(more)) ELSE more, TRUE, h + taken)
  <2>1. w.frame = k
    BY DEF Inside, BodyAhead
  <2> QED
    BY <2>1 DEF ParseBody
<1>6. s[1] = << k, o >> /\ len = frames[k].len /\ size = HeaderSize(frames[k]) /\ b = Len(w.body)
  BY DEF BodyAhead
<1>7. x = SubSeq(data, h + 1, h + taken) /\ more = [w EXCEPT !.body = w.body \o x]
  OBVIOUS
<1> HIDE DEF more, x, taken, left, need, m, o, size, b, len
<1>8. m = need + h /\ need \in Nat /\ left \in Nat /\ taken \in 0..need /\ taken \in 0..left
  BY <1>2, <1>3, <1>4
<1>9. /\ m \in 1..Len(s) /\ \A i \in 1..m : s[i] = << k, o + i - 1 >>
      /\ IF Len(s) = m THEN k = Len(frames) ELSE s[m + 1] = << k + 1, 1 >>
  <2>1. s # <<>> /\ Run(s)
    BY <1>3 DEF BodyAhead
  <2>2. Begins(s, k, o)
    BY <1>6, <2>1 DEF Begins
  <2>3. Ahead(s, k, o, m)
    BY <1>4, <2>2, RunAhead
  <2> QED
    BY <2>3 DEF Ahead
<1>10. /\ x \in Seq(Positions) /\ Len(x) = taken
       /\ \A j \in 1..taken : x[j] = << k, size + b + j >>
  <2>1. h + 1 \in 1..(Len(data) + 1) /\ h + taken \in h..Len(data) /\ h + taken <= m
    <3>1. h \in Nat /\ Len(data) \in Nat /\ h <= Len(data)
      BY <1>3, <1>4, SMTT(30)
    <3>2. taken <= need /\ taken <= Len(data) - h /\ m = need + h /\ taken \in Nat /\ need \in Nat
      BY <1>4, <1>8, SMTT(30)
    <3> QED
      BY <3>1, <3>2, SMTT(30)
  <2>2. x \in Seq(Positions) /\ Len(x) = taken /\ \A j \in 1..taken : x[j] = data[h + j]
    <3>1. data \in Seq(Positions)
      BY DEF BodyAhead
    <3>2. PICK i \in 1..(Len(data) + 1), e \in 0..Len(data) : i = h + 1 /\ e = h + taken
      BY <1>3, <1>8, <2>1
    <3>3. x = SubSeq(data, i, e)
      BY <1>7, <3>2
    <3>5. e - i + 1 = taken /\ i - 1 <= e
      BY <1>3, <1>8, <3>2
    <3>4. x \in Seq(Positions) /\ Len(x) = taken /\ \A j \in 1..taken : x[j] = data[i + j - 1]
      BY <1>3, <1>8, <3>1, <3>2, <3>3, <3>5, SubSeqProperties
    <3> QED
      BY <1>3, <1>8, <3>2, <3>4
  <2>3. ASSUME NEW j \in 1..taken PROVE x[j] = << k, size + b + j >>
    <3>1. h + j \in 1..m /\ h + j \in 1..Len(data)
      BY <1>3, <1>8, <2>1
    <3>2. s[h + j] = << k, o + (h + j) - 1 >> /\ s[h + j] = data[h + j]
      BY <1>3, <1>9, <3>1
    <3>3. o + (h + j) - 1 = size + b + j
      BY <1>2, <1>3, <1>4
    <3> QED
      BY <2>2, <3>2, <3>3
  <2> QED
    BY <2>2, <2>3
<1>11. /\ more \in Handlers /\ Inside(more, k) /\ Len(more.body) = b + taken
       /\ more.buf = <<>> /\ more.status = "open" /\ Told(more, k - 1)
  <2>1. ASSUME NEW j \in 1..Len(x)
        PROVE  x[j] = << k, HeaderSize(frames[k]) + Len(w.body) + j >>
    <3>1. Len(x) = taken
      BY <1>10
    <3>2. x[j] = << k, size + b + j >>
      BY <1>10, <3>1, Zenon
    <3>3. HeaderSize(frames[k]) + Len(w.body) + j = size + b + j
      BY <1>6
    <3> QED
      BY <3>2, <3>3, Zenon
  <2>2. Len(w.body) + Len(x) <= frames[k].len
    <3>1. Len(x) = taken
      BY <1>10
    <3>2. b + taken <= len
      BY <1>2, <1>4, <1>8
    <3>3. Len(w.body) = b /\ frames[k].len = len
      BY <1>6
    <3> QED
      BY <3>1, <3>2, <3>3
  <2>3. /\ more \in Handlers /\ Inside(more, k) /\ Len(more.body) = Len(w.body) + Len(x)
        /\ more.buf = w.buf /\ more.status = w.status
        /\ \A n : Told(w, n) => Told(more, n)
    <3>1. w \in Handlers /\ Inside(w, k)
      BY DEF BodyAhead
    <3>2. Continues(w, k, x)
      BY <1>1, <1>10, <2>1, <2>2, <3>1 DEF Continues
    <3>3. more = Longer(w, x)
      BY <1>7 DEF Longer
    <3> QED
      BY <3>2, <3>3, BodyMore
  <2> QED
    BY <1>6, <1>10, <2>3 DEF BodyAhead
<1>12. p.ok /\ p.n = h + taken /\ p.w = IF need <= left THEN CleanUp(OnParsedFrame(more)) ELSE more
  BY <1>5 DEF Parsed
<1>13. p.n \in 1..Len(data) /\ p.n \in Nat /\ p.n <= Len(s)
  <2>1. h + taken >= 1
    BY <1>2, <1>3, <1>4, <1>8
  <2> QED
    BY <1>3, <1>4, <1>8, <1>12, <2>1
<1> DEFINE t == SubSeq(s, p.n + 1, Len(s))
<1>14. t \in Seq(Positions) /\ Len(t) = Len(s) - p.n /\ (p.n < Len(s) => t[1] = s[p.n + 1])
  <2>1. Run(s) /\ p.n \in 0..Len(s)
    BY <1>3, <1>13 DEF BodyAhead
  <2>2. PICK n \in 0..Len(s) : n = p.n
    BY <2>1
  <2>3. Left(s, n, t)
    BY <2>1, <2>2 DEF Left
  <2> HIDE DEF t
  <2>4. Run(t) /\ Len(t) = Len(s) - n /\ \A i \in 1..Len(t) : t[i] = s[n + i]
    BY <2>3, RunRest
  <2>5. t \in Seq(Positions)
    BY <2>4 DEF Run
  <2>6. ASSUME n < Len(s) PROVE 1 \in 1..Len(t)
    BY <1>3, <2>4, <2>6
  <2> QED
    BY <2>2, <2>4, <2>5, <2>6
<1>15. p.n < Len(s) => t # <<>>
  <2> HIDE DEF t
  <2> SUFFICES ASSUME p.n < Len(s), t = <<>> PROVE FALSE
    OBVIOUS
  <2>1. Len(t) = 0
    OBVIOUS
  <2> QED
    BY <1>3, <1>13, <1>14, <2>1
<1>16. CASE need <= left
  <2> DEFINE v == OnParsedFrame(more)
             u == CleanUp(v)
  <2>1. more.body = Body(k) /\ more.frame = k /\ ~Refused(frames[k]) /\ KeyIsSet(more, k)
    <3>1. Len(more.body) = frames[k].len
      <4>1. taken = need
        BY <1>4, <1>16
      <4>2. b + taken = len
        BY <1>2, <1>4, <4>1
      <4>3. Len(more.body) = b + taken
        BY <1>11
      <4>4. frames[k].len = len
        BY <1>6
      <4> QED
        BY <4>2, <4>3, <4>4
    <3> QED
      BY <1>1, <1>11, <3>1, BodyFull DEF Inside
  <2>2. v \in Handlers /\ Kept(v, more) /\ Told(v, k)
    BY <1>1, <1>11, <2>1, FrameKept, FrameTold
  <2> HIDE DEF v
  <2>3. /\ u \in Handlers /\ u.state = "header" /\ u.body = <<>>
        /\ u.buf = <<>> /\ u.status = "open"
        /\ u.error = v.error /\ u.current = v.current /\ u.partial = v.partial /\ u.out = v.out
    BY <1>11, <2>2 DEF CleanUp, Handlers, Kept
  <2> HIDE DEF u
  <2>4. Told(u, k)
    BY <2>2, <2>3, ToldSame
  <2>5. p.w = u /\ p.n = m
    <3>1. p.w = u
      BY <1>12, <1>16 DEF u, v
    <3>2. taken = need
      BY <1>4, <1>16
    <3>3. p.n = h + need
      BY <1>12, <3>2
    <3> QED
      BY <1>3, <1>8, <3>1, <3>3
  <2>6. k + 1 \in 1..(Len(frames) + 1) /\ (k + 1) - 1 = k
    BY <1>1
  <2>7. IF t = <<>> THEN k + 1 = Len(frames) + 1 ELSE t[1] = << k + 1, 1 >>
    <3>1. CASE Len(s) = m
      <4>1. k = Len(frames) /\ Len(t) = 0
        BY <1>3, <1>9, <1>14, <2>5, <3>1
      <4>2. t = <<>>
        BY <1>14, <4>1
      <4> QED
        BY <4>1, <4>2
    <3>2. CASE Len(s) # m
      <4>1. p.n < Len(s)
        BY <1>3, <1>13, <2>5, <3>2
      <4>2. s[m + 1] = << k + 1, 1 >>
        BY <1>9, <3>2
      <4> QED
        BY <1>14, <1>15, <2>5, <4>1, <4>2
    <3> QED
      BY <3>1, <3>2
  <2> HIDE DEF t
  <2>8. At(u, t, k + 1)
    BY <2>3, <2>4, <2>6, <2>7 DEF At
  <2> QED
    BY <1>12, <1>13, <2>3, <2>5, <2>6, <2>8 DEF t, Resumes
<1>17. CASE ~(need <= left)
  <2>1. p.w = more /\ taken = left
    BY <1>4, <1>12, <1>17
  <2>2. p.n = Len(data) /\ left < need
    BY <1>3, <1>4, <1>8, <1>12, <1>17, <2>1
  <2>3. p.n < Len(s) /\ p.n + 1 \in 1..m
    <3>1. p.n < m
      BY <1>3, <1>4, <1>8, <2>2
    <3>2. m <= Len(s) /\ m \in Nat
      BY <1>3, <1>9
    <3> QED
      BY <1>3, <1>13, <3>1, <3>2
  <2>4. t # <<>> /\ t[1] = << k, o + (p.n + 1) - 1 >>
    BY <1>9, <1>14, <1>15, <2>3
  <2>5. o + (p.n + 1) - 1 = size + (b + taken) + 1
    BY <1>2, <1>3, <1>4, <2>1, <2>2
  <2>6. b + taken < len
    BY <1>2, <1>4, <1>8, <2>1, <2>2
  <2>7. k \in 1..(Len(frames) + 1)
    BY <1>1
  <2> HIDE DEF t
  <2>8. At(more, t, k)
    BY <1>6, <1>11, <2>4, <2>5, <2>6, <2>7 DEF At
  <2> QED
    BY <1>11, <1>12, <1>13, <2>1, <2>7, <2>8 DEF t, Resumes
<1> QED
  BY <1>16, <1>17

\* data is what comes next in s, and the parser has been there before.
Reads(w, k, data, s) ==
  /\ w \in Handlers /\ w.buf = <<>> /\ w.status = "open" /\ At(w, s, k)
  /\ data \in Seq(Positions) /\ data # <<>>
  /\ Run(s) /\ Len(data) <= Len(s) /\ \A i \in 1..Len(data) : s[i] = data[i]

\* Parse gives up: there is a cause for it, or bytes were dropped.
GivesUp(p, k) ==
  /\ p.n = 0 /\ p.w \in Handlers /\ p.w.buf = <<>>
  /\ p.w.state = "header" /\ p.w.body = <<>>
  /\ p.w.status = "dropped" \/ (~p.ok /\ Cause(k))

\* Parse goes on with the rest of the stream, or gives up.
LEMMA ParseStep ==
  ASSUME Framed, NEW w, NEW k, NEW data, NEW s, Reads(w, k, data, s), NEW p, p = Parse(w, data)
  PROVE  \/ p.ok /\ p.n \in 1..Len(data) /\ Resumes(p.w, SubSeq(s, p.n + 1, Len(s)))
         \/ GivesUp(p, k) /\ Seen(s) = k /\ k \in Nat
<1> DEFINE f == frames[k]
           key == CASE f.key = "none" -> w.key [] f.key = "zero" -> 0 [] OTHER -> k
           u == [w EXCEPT !.state = "body", !.frame = k, !.key = key]
           gone == [w EXCEPT !.status = "dropped"]
<1>1. w \in Handlers /\ data \in Seq(Positions) /\ data # <<>> /\ Run(s) /\ Len(data) <= Len(s)
  BY DEF Reads
<1>2. Len(data) \in Nat /\ Len(data) >= 1 /\ s \in Seq(Positions) /\ s # <<>> /\ s[1] = data[1]
  <2>1. Len(data) \in Nat /\ Len(data) >= 1 /\ s \in Seq(Positions) /\ Len(s) \in Nat
    BY <1>1, EmptySeq DEF Run
  <2>2. s # <<>>
    BY <1>1, <2>1
  <2>3. 1 \in 1..Len(data)
    BY <2>1
  <2> QED
    BY <2>1, <2>2, <2>3 DEF Reads
<1>3. CASE w.state = "body"
  <2>1. Inside(w, k) /\ Len(w.body) < frames[k].len
        /\ s[1] = << k, HeaderSize(frames[k]) + Len(w.body) + 1 >> /\ Told(w, k - 1)
    BY <1>3 DEF Reads, At
  <2>2. k \in DOMAIN frames
    BY <2>1 DEF Inside
  <2>3. HeaderSize(frames[k]) + Len(w.body) - 0 + 1 = HeaderSize(frames[k]) + Len(w.body) + 1
    <3>1. HeaderSize(frames[k]) \in Nat /\ w.body \in Seq(Positions)
      BY <1>1, <2>2, SizeType DEF Handlers
    <3>2. Len(w.body) \in Nat
      BY <3>1
    <3> QED
      BY <3>1, <3>2
  <2>4. BodyAhead(w, k, data, s, 0)
    BY <1>2, <2>1, <2>3 DEF Reads, BodyAhead
  <2>5. p = ParseBody(w, data, 0)
    BY <1>3 DEF Parse
  <2> QED
    BY <2>4, <2>5, BodyStep
<1>4. CASE w.state # "body"
  <2>1. w.state = "header" /\ w.body = <<>> /\ s[1] = << k, 1 >> /\ Told(w, k - 1)
    BY <1>2, <1>4 DEF Reads, At, Inside
  <2>2. k \in DOMAIN frames /\ k \in Nat \ {0} /\ k <= Len(frames) /\ Len(frames) \in Nat
    <3>1. Begins(s, k, 1)
      BY <1>1, <1>2, <2>1 DEF Begins
    <3>2. k \in DOMAIN frames
      BY <3>1, RunAhead DEF Ahead
    <3> QED
      BY <3>2 DEF Framed
  <2>3. data[1][1] = k /\ Seen(s) = k
    BY <1>2, <2>1 DEF Seen
  <2>4. /\ Refused(f) => p = Parsed(w, FALSE, 0)
        /\ ~Refused(f) /\ Len(data) < HeaderSize(f) => p = Parsed(gone, Len(data) >= 2, 0)
        /\ ~Refused(f) /\ ~(Len(data) < HeaderSize(f)) => p = ParseBody(u, data, HeaderSize(f))
    BY <1>4, <2>3 DEF Parse
  <2>5. CASE Refused(f)
    <3>1. p.n = 0 /\ p.ok = FALSE /\ p.w = w
      BY <2>4, <2>5 DEF Parsed
    <3>2. Cause(k)
      <4>1. k \in 1..k
        BY <2>2
      <4> QED
        BY <2>5, <4>1 DEF Cause, Conforms
    <3>3. GivesUp(p, k)
      BY <2>1, <3>1, <3>2 DEF GivesUp, Reads
    <3> QED
      BY <2>2, <2>3, <3>3
  <2>6. CASE ~Refused(f) /\ Len(data) < HeaderSize(f)
    <3>1. p.n = 0 /\ p.w = gone
      BY <2>4, <2>6 DEF Parsed
    <3>2. gone \in Handlers /\ gone.buf = w.buf /\ gone.state = w.state /\ gone.body = w.body
          /\ gone.status = "dropped"
      BY <1>1 DEF Handlers
    <3>3. GivesUp(p, k)
      BY <2>1, <3>1, <3>2 DEF GivesUp, Reads
    <3> QED
      BY <2>2, <2>3, <3>3
  <2>7. CASE ~Refused(f) /\ ~(Len(data) < HeaderSize(f))
    <3>1. HeaderSize(f) \in Nat /\ IsFrame(f) /\ f.len \in Nat
      BY <2>2, SizeType
    <3>2. MaxFrames \in Nat /\ k \in 0..MaxFrames
      BY <2>2, StreamAssumption DEF Framed
    <3>3. key \in 0..(MaxFrames + 1)
      BY <1>1, <3>2 DEF Handlers
    <3>4. (f.key = "zero" => key = 0) /\ (f.key = "random" => key = k)
      OBVIOUS
    <3> HIDE DEF key
    <3>5. /\ u \in Handlers /\ u.state = "body" /\ u.frame = k /\ u.key = key /\ u.body = w.body
          /\ u.buf = w.buf /\ u.status = w.status /\ u.error = w.error
          /\ u.current = w.current /\ u.partial = w.partial /\ u.out = w.out
      BY <1>1, <3>2, <3>3 DEF Handlers
    <3> HIDE DEF u
    <3>6. Told(u, k - 1)
      BY <2>1, <3>5, ToldSame
    <3>7. u.body = <<>> /\ Len(u.body) = 0
      BY <2>1, <3>5
    <3>8. Inside(u, k)
      <4>1. KeyIsSet(u, k)
        BY <3>4, <3>5 DEF KeyIsSet
      <4>2. \A i \in 1..Len(u.body) : FALSE
        BY <3>7
      <4>3. Len(u.body) <= frames[k].len
        BY <3>1, <3>7
      <4> QED
        BY <2>2, <2>7, <3>5, <4>1, <4>2, <4>3 DEF Inside
    <3>9. HeaderSize(f) \in 0..Len(data) /\ HeaderSize(f) + Len(u.body) - HeaderSize(f) + 1 = 1
      BY <1>2, <2>7, <3>1, <3>7
    <3>10. BodyAhead(u, k, data, s, HeaderSize(f))
      BY <2>1, <3>5, <3>6, <3>7, <3>8, <3>9 DEF Reads, BodyAhead
    <3>11. p = ParseBody(u, data, HeaderSize(f))
      BY <2>4, <2>7
    <3> QED
      BY <3>10, <3>11, BodyStep
  <2> QED
    BY <2>5, <2>6, <2>7
<1> QED
  BY <1>3, <1>4

\* The parser is not ahead of the frames that have been seen.
LEMMA AtSeen ==
  ASSUME Framed, NEW w, NEW s, NEW k, Run(s), At(w, s, k)
  PROVE  k - 1 \in Nat /\ k - 1 <= Seen(s) /\ Seen(s) \in 0..Len(frames)
<1>1. Len(frames) \in Nat /\ k \in 1..(Len(frames) + 1)
  BY DEF Framed, At
<1>2. CASE s = <<>>
  BY <1>1, <1>2 DEF At, Seen
<1>3. CASE s # <<>>
  <2>1. Seen(s) = k
    BY <1>3 DEF At, Seen
  <2>2. s[1][1] \in 1..Len(frames)
    <3>1. 1 \in 1..Len(s)
      BY <1>3 DEF Run
    <3> QED
      BY <3>1 DEF Run
  <2> QED
    BY <1>1, <1>3, <2>1, <2>2 DEF Seen
<1> QED
  BY <1>2, <1>3

\* A cause found in the frames of s is one in those of what is left of s.
LEMMA CauseStays ==
  ASSUME Framed, NEW s, NEW n, NEW t, Left(s, n, t), NEW k \in Nat, k <= Seen(s), Cause(k)
  PROVE  Cause(Seen(t))
<1>1. Seen(s) \in 0..Len(frames) /\ Seen(t) \in Seen(s)..Len(frames) /\ Len(frames) \in Nat
  BY RunRest DEF Framed
<1>2. Seen(t) \in Nat /\ k <= Seen(t)
  BY <1>1
<1> QED
  BY <1>2, CauseGrows

\* What is left of data and of what comes after it.
LEMMA RestOfBoth ==
  ASSUME NEW d \in Seq(Positions), NEW r \in Seq(Positions), NEW n \in 0..Len(d)
  PROVE  /\ SubSeq(d, n + 1, Len(d)) \o r = SubSeq(d \o r, n + 1, Len(d \o r))
         /\ SubSeq(d, n + 1, Len(d)) \in Seq(Positions)
         /\ Len(SubSeq(d, n + 1, Len(d))) = Len(d) - n
<1> DEFINE a == SubSeq(d, n + 1, Len(d))
           c == d \o r
           e == SubSeq(c, n + 1, Len(c))
<1>1. Len(d) \in Nat /\ Len(r) \in Nat /\ n \in Nat /\ n <= Len(d)
  OBVIOUS
<1>2. c \in Seq(Positions) /\ Len(c) = Len(d) + Len(r)
      /\ \A i \in 1..Len(c) : c[i] = IF i <= Len(d) THEN d[i] ELSE r[i - Len(d)]
  <2> HIDE DEF Positions
  <2> QED
    BY <1>1, ConcatProperties
<1>3. a \in Seq(Positions) /\ Len(a) = Len(d) - n /\ \A i \in 1..Len(a) : a[i] = d[n + i]
  BY <1>1
<1> HIDE DEF c
<1>4. e \in Seq(Positions) /\ Len(e) = Len(c) - n /\ \A i \in 1..Len(e) : e[i] = c[n + i]
  BY <1>1, <1>2
<1> HIDE DEF a, e
<1>5. a \o r \in Seq(Positions) /\ Len(a \o r) = Len(a) + Len(r)
      /\ \A i \in 1..Len(a \o r) : (a \o r)[i] = IF i <= Len(a) THEN a[i] ELSE r[i - Len(a)]
  <2>1. PICK q \in Seq(Positions) : q = a
    BY <1>3
  <2> QED
    BY <2>1, ConcatProperties
<1>6. Len(a \o r) = Len(e)
  BY <1>1, <1>2, <1>3, <1>4, <1>5
<1>7. ASSUME NEW i \in 1..Len(e) PROVE (a \o r)[i] = e[i]
  <2>1. (a \o r)[i] = IF i <= Len(a) THEN a[i] ELSE r[i - Len(a)]
    BY <1>5, <1>6
  <2>2. e[i] = c[n + i] /\ n + i \in 1..Len(c) /\ i \in Nat
    BY <1>1, <1>2, <1>4
  <2>3. c[n + i] = IF n + i <= Len(d) THEN d[n + i] ELSE r[n + i - Len(d)]
    BY <1>2, <2>2
  <2>4. CASE i <= Len(a)
    <3>1. i \in 1..Len(a) /\ n + i <= Len(d)
      BY <1>1, <1>3, <2>2, <2>4
    <3> QED
      BY <1>3, <2>1, <2>2, <2>3, <2>4, <3>1
  <2>5. CASE ~(i <= Len(a))
    <3>1. ~(n + i <= Len(d)) /\ i - Len(a) = n + i - Len(d)
      BY <1>1, <1>3, <2>2, <2>5
    <3> QED
      BY <2>1, <2>2, <2>3, <2>5, <3>1
  <2> QED
    BY <2>4, <2>5
<1>8. a \o r = e
  BY <1>4, <1>5, <1>6, <1>7, SeqEqual
<1> QED
  BY <1>3, <1>8 DEF a, e, c

\* A round keeps the place in the stream, or ends the connection; it leaves less in
\* the buffer, or nothing.
Rounded(w, v, s) ==
  v \in Handlers /\ Parsing(v, s) /\ (v.buf = <<>> \/ Len(v.buf) <= Len(w.buf) - 1)

\* Each round does so.
LEMMA RoundStep ==
  ASSUME Framed, NEW w, NEW r, Parsing(w, r)
  PROVE  Rounded(w, Round(w), r)
<1> DEFINE data == w.buf
           s == data \o r
           e == [w EXCEPT !.buf = <<>>]
           p == Parse(e, data)
           t == SubSeq(s, p.n + 1, Len(s))
           v == Round(w)
<1>1. w \in Handlers /\ Run(r) /\ data \in Seq(Positions) /\ r \in Seq(Positions)
  BY DEF Parsing, Handlers, Run
<1>2. CASE data = <<>>
  BY <1>1, <1>2 DEF Round, Rounded
<1>3. CASE data # <<>>
  <2>1. w.status = "open" /\ Run(s) /\ \E k \in 1..(Len(frames) + 1) : At(w, s, k)
    BY <1>3 DEF Parsing, Ended
  <2>2. PICK k \in 1..(Len(frames) + 1) : At(w, s, k)
    BY <2>1
  <2>3. v = CASE ~p.ok            -> Error(p.w)
              [] p.ok /\ p.n = 0  -> p.w
              [] p.ok /\ p.n # 0  -> Prepend(p.w, data, p.n)
    BY <1>3 DEF Round
  <2>4. /\ Len(data) \in Nat /\ Len(r) \in Nat /\ s \in Seq(Positions)
        /\ Len(s) = Len(data) + Len(r) /\ \A i \in 1..Len(data) : s[i] = data[i]
    <3> HIDE DEF data
    <3>1. Len(data) \in Nat /\ Len(r) \in Nat
      BY <1>1
    <3>2. s \in Seq(Positions) /\ Len(s) = Len(data) + Len(r)
          /\ \A i \in 1..Len(s) : s[i] = IF i <= Len(data) THEN data[i] ELSE r[i - Len(data)]
      BY <1>1, ConcatProperties
    <3> HIDE DEF s
    <3> QED
      BY <3>1, <3>2
  <2>5. /\ e \in Handlers /\ e.buf = <<>> /\ e.status = w.status /\ e.state = w.state
        /\ e.frame = w.frame /\ e.key = w.key /\ e.body = w.body
        /\ e.error = w.error /\ e.current = w.current /\ e.partial = w.partial /\ e.out = w.out
    <3>1. w \in Handlers /\ <<>> \in Seq(Positions)
      BY <1>1
    <3> QED
      BY <3>1 DEF Handlers
  <2> HIDE DEF e
  <2>6. At(e, s, k)
    <3>1. Told(w, k - 1)
      BY <2>2 DEF At
    <3>2. Told(e, k - 1)
      BY <2>5, <3>1, ToldSame
    <3> HIDE DEF s
    <3> QED
      BY <2>2, <2>5, <3>2 DEF At, Inside, KeyIsSet
  <2> HIDE DEF s, data
  <2>7. Reads(e, k, data, s)
    <3>1. Len(data) <= Len(s)
      BY <2>4
    <3> QED
      BY <1>1, <1>3, <2>1, <2>4, <2>5, <2>6, <3>1 DEF Reads
  <2>8. \/ p.ok /\ p.n \in 1..Len(data) /\ Resumes(p.w, t)
        \/ GivesUp(p, k) /\ Seen(s) = k /\ k \in Nat
    BY <2>7, ParseStep
  <2> HIDE DEF p, v
  <2>9. Left(s, Len(data), r)
    <3>1. r = SubSeq(s, Len(data) + 1, Len(s))
      <4>1. PICK n \in 0..Len(data) : n = Len(data)
        BY <2>4
      <4>2. SubSeq(data, n + 1, Len(data)) \o r = SubSeq(s, n + 1, Len(s))
        BY <1>1, RestOfBoth DEF s
      <4>3. SubSeq(data, n + 1, Len(data)) = <<>>
        BY <1>1, <4>1
      <4>4. <<>> \o r = r
        BY <1>1, ConcatEmptySeq
      <4> QED
        BY <4>1, <4>2, <4>3, <4>4
    <3>2. Len(data) \in 0..Len(s)
      BY <2>4
    <3> QED
      BY <2>1, <3>1, <3>2 DEF Left
  <2>10. CASE GivesUp(p, k) /\ Seen(s) = k /\ k \in Nat
    <3>1. /\ v \in Handlers /\ v.buf = <<>> /\ v.body = <<>>
          /\ v.status = "dropped" \/ (v.error /\ Cause(k))
      BY <2>3, <2>10 DEF GivesUp, Error, Handlers
    <3>2. v.status # "dropped" => Cause(Seen(r))
      <4>1. k <= Seen(s)
        BY <2>10
      <4> QED
        BY <2>9, <2>10, <3>1, <4>1, CauseStays
    <3>3. Ended(v, r)
      BY <3>1, <3>2 DEF Ended
    <3> QED
      BY <1>1, <3>1, <3>3 DEF Rounded, Parsing, v
  <2>11. CASE p.ok /\ p.n \in 1..Len(data) /\ Resumes(p.w, t)
    <3> DEFINE u == p.w
               rest == SubSeq(data, p.n + 1, Len(data))
    <3>1. v = Prepend(u, data, p.n)
      <4>1. p.n # 0
        BY <2>4, <2>11
      <4> QED
        BY <2>3, <2>11, <4>1
    <3>2. p.n \in Nat /\ p.n >= 1 /\ p.n <= Len(data)
      BY <2>4, <2>11
    <3>3. u \in Handlers /\ u.buf = <<>> /\ u.status = "open"
      BY <2>11 DEF Resumes
    <3>4. PICK j \in 1..(Len(frames) + 1) : At(u, t, j)
      BY <2>11 DEF Resumes
    <3>5. rest \o r = t /\ rest \in Seq(Positions) /\ Len(rest) = Len(data) - p.n
      <4>1. PICK n \in 0..Len(data) : n = p.n
        BY <3>2
      <4>2. /\ SubSeq(data, n + 1, Len(data)) \o r = SubSeq(s, n + 1, Len(s))
            /\ SubSeq(data, n + 1, Len(data)) \in Seq(Positions)
            /\ Len(SubSeq(data, n + 1, Len(data))) = Len(data) - n
        BY <1>1, RestOfBoth DEF s
      <4> QED
        BY <4>1, <4>2
    <3>6. Left(s, p.n, t)
      <4>1. p.n \in 0..Len(s)
        BY <2>4, <3>2
      <4> QED
        BY <2>1, <4>1 DEF Left
    <3>7. Run(t) /\ Len(t) = Len(s) - p.n /\ Seen(t) \in Nat
      <4>1. PICK n : n = p.n
        OBVIOUS
      <4>2. Left(s, n, t)
        BY <3>6, <4>1
      <4> HIDE DEF t
      <4>3. Run(t) /\ Len(t) = Len(s) - n /\ Seen(s) \in 0..Len(frames) /\ Seen(t) \in Seen(s)..Len(frames)
        BY <4>2, RunRest
      <4>4. Len(frames) \in Nat
        BY DEF Framed
      <4> QED
        BY <4>1, <4>3, <4>4
    <3> HIDE DEF t, u, rest
    <3>8. CASE Len(data) - p.n > CheapPrepend
      <4>1. v = [u EXCEPT !.status = "terminated"]
        BY <3>1, <3>8 DEF Prepend
      <4>2. /\ v \in Handlers /\ v.buf = <<>> /\ v.status = "terminated"
            /\ v.state = u.state /\ v.body = u.body /\ v.error = u.error
        BY <3>3, <4>1 DEF Handlers
      <4>3. v.state = "header" => v.body = <<>>
        BY <3>4, <4>2 DEF At, Inside
      <4>4. ASSUME v.error PROVE Cause(Seen(r))
        <5>1. Cause(j - 1)
          BY <3>4, <4>2, <4>4 DEF At, Told
        <5>2. j - 1 \in Nat /\ j - 1 <= Seen(t)
          BY <3>4, <3>7, AtSeen
        <5>3. Left(t, Len(rest), r)
          <6>1. Len(rest) \in Nat /\ Len(r) \in Nat /\ t \in Seq(Positions) /\ Len(rest) + Len(r) = Len(t)
            <7>1. t \in Seq(Positions)
              BY <3>7 DEF Run
            <7>2. Len(rest) = Len(data) - p.n /\ Len(t) = Len(s) - p.n
              BY <3>5, <3>7
            <7> QED
              BY <2>4, <3>2, <7>1, <7>2
          <6>2. r = SubSeq(t, Len(rest) + 1, Len(t))
            <7>1. PICK n \in 0..Len(rest) : n = Len(rest)
              BY <6>1
            <7>2. SubSeq(rest, n + 1, Len(rest)) \o r = SubSeq(t, n + 1, Len(t))
              BY <1>1, <3>5, RestOfBoth
            <7>3. SubSeq(rest, n + 1, Len(rest)) = <<>>
              BY <3>5, <7>1
            <7>4. <<>> \o r = r
              BY <1>1, ConcatEmptySeq
            <7> QED
              BY <7>1, <7>2, <7>3, <7>4
          <6>3. Len(rest) \in 0..Len(t)
            BY <6>1
          <6> QED
            BY <3>7, <6>2, <6>3 DEF Left
        <5> QED
          BY <5>1, <5>2, <5>3, CauseStays
      <4>5. Ended(v, r)
        BY <4>2, <4>3, <4>4 DEF Ended
      <4> QED
        BY <1>1, <4>2, <4>5 DEF Rounded, Parsing, v
    <3>9. CASE ~(Len(data) - p.n > CheapPrepend)
      <4>1. v = [u EXCEPT !.buf = rest]
        BY <3>1, <3>9 DEF Prepend, rest
      <4>2. /\ v \in Handlers /\ v.buf = rest /\ v.status = "open"
            /\ v.state = u.state /\ v.frame = u.frame /\ v.key = u.key /\ v.body = u.body
            /\ v.error = u.error /\ v.current = u.current /\ v.partial = u.partial /\ v.out = u.out
        BY <3>3, <3>5, <4>1 DEF Handlers
      <4> HIDE DEF v
      <4>3. Told(v, j - 1)
        <5>1. Told(u, j - 1)
          BY <3>4 DEF At
        <5> QED
          BY <4>2, <5>1, ToldSame
      <4>4. At(v, t, j)
        BY <3>4, <4>2, <4>3 DEF At, Inside, KeyIsSet
      <4>5. Parsing(v, r)
        BY <1>1, <3>5, <3>7, <4>2, <4>4 DEF Parsing
      <4>6. Len(v.buf) <= Len(data) - 1
        BY <2>4, <3>2, <3>5, <4>2
      <4>7. Len(v.buf) <= Len(w.buf) - 1
        BY <4>6 DEF data
      <4> QED
        BY <4>2, <4>5, <4>7 DEF Rounded, v
    <3> QED
      BY <3>8, <3>9 DEF v
  <2> QED
    BY <2>8, <2>10, <2>11 DEF v
<1> QED
  BY <1>2, <1>3

\* OnData empties the buffer, and keeps the place in the stream or ends the connection.
LEMMA OnDataStep ==
  ASSUME Framed, NEW w, NEW s, Parsing(w, s)
  PROVE  OnData(w) \in Handlers /\ Parsing(OnData(w), s) /\ OnData(w).buf = <<>>
<1> DEFINE Q == {v \in Handlers : Parsing(v, s)}
           n == Len(w.buf)
           h == [x \in Nat \X Q |-> Round(x[2])]
           f[i \in 0..n] == IF i = 0 THEN w ELSE Round(f[i - 1])
<1>1. w \in Q /\ n \in Nat
  <2>1. w \in Handlers
    BY DEF Parsing
  <2> QED
    BY <2>1 DEF Handlers
<1>2. ASSUME NEW v \in Q
      PROVE  /\ Round(v) \in Q
             /\ Round(v).buf = <<>> \/ Len(Round(v).buf) <= Len(v.buf) - 1
  BY RoundStep DEF Rounded
<1>3. StepFunction(Q, h)
  <2> HIDE DEF f
  <2>1. ASSUME NEW x \in Nat \X Q PROVE h[x] \in Q
    <3>1. x[2] \in Q
      OBVIOUS
    <3> HIDE DEF Q
    <3> QED
      BY <1>2, <3>1
  <2> HIDE DEF Q
  <2> QED
    BY <2>1 DEF StepFunction
<1>4. PICK g : Iterates(g, Q, w, h, n)
  <2> HIDE DEF f, h, Q, n
  <2> QED
    BY <1>1, <1>3, Iteration
<1>5. g \in [0..n -> Q] /\ g[0] = w /\ \A i \in 1..n : g[i] = h[<<i, g[i - 1]>>]
  BY <1>4 DEF Iterates
<1> HIDE DEF n
<1>6. \A i \in 1..n : g[i] = Round(g[i - 1])
  <2> SUFFICES ASSUME NEW i \in 1..n PROVE g[i] = Round(g[i - 1])
    OBVIOUS
  <2> HIDE DEF f, Q
  <2>1. i \in Nat /\ i - 1 \in 0..n
    BY <1>1
  <2>2. g[i - 1] \in Q
    BY <1>5, <2>1
  <2>3. <<i, g[i - 1]>> \in Nat \X Q
    BY <2>1, <2>2
  <2> QED
    BY <1>5, <2>3
<1> HIDE DEF h, Q
<1>7. g = [i \in 0..n |-> IF i = 0 THEN w ELSE Round(g[i - 1])]
  <2> HIDE DEF f
  <2> DEFINE k == [i \in 0..n |-> IF i = 0 THEN w ELSE Round(g[i - 1])]
  <2>1. ASSUME NEW i \in 0..n PROVE g[i] = k[i]
    <3>1. CASE i = 0
      BY <1>5, <3>1
    <3>2. CASE i # 0
      <4>1. i \in 1..n
        BY <1>1, <3>2
      <4> QED
        BY <1>6, <3>2, <4>1
    <3> QED
      BY <3>1, <3>2
  <2>2. g = [i \in 0..n |-> g[i]] /\ k = [i \in 0..n |-> k[i]]
    BY <1>5
  <2> HIDE DEF k
  <2>3. g = k
    BY <2>1, <2>2
  <2> QED
    BY <2>3 DEF k
<1>8. f = [i \in 0..n |-> IF i = 0 THEN w ELSE Round(f[i - 1])]
  BY <1>7, Zenon
<1>9. OnData(w) = f[n]
  BY DEF OnData, n
<1> HIDE DEF f
<1> DEFINE T == {i \in 0..n : f[i] \in Q /\ (f[i].buf = <<>> \/ Len(f[i].buf) <= n - i)}
<1>10. 0..n \subseteq T
  <2>1. ASSUME NEW i \in 1..n, i - 1 \in T PROVE i \in T
    <3> DEFINE v == f[i - 1]
    <3>1. i \in 0..n /\ i # 0 /\ i \in Nat /\ v \in Q /\ (v.buf = <<>> \/ Len(v.buf) <= n - (i - 1))
      BY <1>1, <2>1
    <3>2. f[i] = Round(v)
      BY <1>8, <3>1
    <3> HIDE DEF v
    <3>3. Round(v) \in Q /\ (Round(v).buf = <<>> \/ Len(Round(v).buf) <= Len(v.buf) - 1)
      BY <1>2, <3>1
    <3>4. v.buf = <<>> => Round(v) = v
      BY DEF Round
    <3>5. Round(v).buf = <<>> \/ Len(Round(v).buf) <= n - i
      <4>1. CASE v.buf = <<>>
        BY <3>4, <4>1
      <4>2. CASE v.buf # <<>>
        <5>1. Len(v.buf) \in Nat /\ Len(Round(v).buf) \in Nat
          <6>1. v \in Handlers /\ Round(v) \in Handlers
            BY <3>1, <3>3 DEF Q
          <6>2. v.buf \in Seq(Positions) /\ Round(v).buf \in Seq(Positions)
            BY <6>1 DEF Handlers
          <6> QED
            BY <6>2
        <5> QED
          BY <1>1, <3>1, <3>3, <4>2, <5>1
      <4> QED
        BY <4>1, <4>2
    <3> QED
      BY <3>1, <3>2, <3>3, <3>5
  <2>2. 0 \in T
    <3>1. f[0] = w /\ 0 \in 0..n /\ n - 0 = n /\ n <= n
      BY <1>1, <1>8
    <3> QED
      BY <1>1, <3>1 DEF n
  <2> HIDE DEF T
  <2> QED
    BY <1>1, <2>1, <2>2, UpTo, Zenon
<1>11. n \in 0..n
  BY <1>1
<1>12. f[n] \in Q /\ (f[n].buf = <<>> \/ Len(f[n].buf) <= n - n)
  BY <1>10, <1>11
<1>13. f[n] \in Handlers /\ Parsing(f[n], s)
  BY <1>12 DEF Q
<1>14. f[n].buf = <<>>
  <2>1. f[n].buf \in Seq(Positions)
    BY <1>13 DEF Handlers
  <2>2. Len(f[n].buf) <= 0 => Len(f[n].buf) = 0
    BY <2>1
  <2>3. n - n = 0
    BY <1>1
  <2> QED
    BY <1>12, <2>1, <2>2, <2>3, EmptySeq
<1> QED
  BY <1>9, <1>13, <1>14

---------------------------------------------------------------------------
(* The frames grow, and what the earlier ones mean stays.                  *)

\* A data frame that is in order has a first fragment before it, and a last one of
\* those.
LEMMA FirstFragment ==
  ASSUME NEW n \in Nat, Conforms(n), NEW k \in 1..n, IsData(k)
  PROVE  \E j \in Starts(k) : \A i \in Starts(k) : i <= j
<1> DEFINE D == {j \in 1..k : IsData(j)}
           T == {x \in 0..k : k - x \in Starts(k)}
<1>1. PICK m \in D : \A i \in D : m <= i
  <2>1. D \subseteq Nat /\ k \in D
    OBVIOUS
  <2> HIDE DEF D
  <2> QED
    BY <2>1, LeastNat
<1>2. ~Unfinished(m)
  <2> SUFFICES ASSUME Unfinished(m) PROVE FALSE
    OBVIOUS
  <2>1. PICK j \in 1..(m - 1) : IsData(j)
    BY DEF Unfinished
  <2> QED
    BY <1>1, <2>1
<1>3. frames[m].op \in Data
  <2>1. m \in 1..n
    BY <1>1
  <2> QED
    BY <1>1, <1>2, <2>1 DEF Conforms, IsData
<1>4. m \in Starts(k) /\ k - m \in T
  BY <1>1, <1>3 DEF Starts
<1>5. PICK x \in T : \A y \in T : x <= y
  <2>0. T \subseteq Nat
    OBVIOUS
  <2>1. T \subseteq Nat /\ T # {}
    BY <1>4, <2>0, Zenon
  <2> HIDE DEF T
  <2> QED
    BY <2>1, LeastNat
<1>6. ASSUME NEW i \in Starts(k) PROVE i <= k - x
  <2>1. i \in 1..k
    BY DEF Starts
  <2>2. k - i \in T
    <3>1. k - (k - i) = i /\ k - i \in 0..k
      BY <2>1
    <3> QED
      BY <3>1
  <2>3. x <= k - i /\ x \in Nat
    BY <1>5, <2>2
  <2> QED
    BY <2>1, <2>3
<1>7. k - x \in Starts(k)
  BY <1>5
<1> QED
  BY <1>6, <1>7

\* The first n frames are what they were.
Agree(n) == n \in Nat /\ \A k \in 1..n : frames'[k] = frames[k]

\* So is what they are to each other ...
LEMMA SameOrder ==
  ASSUME NEW n, Agree(n)
  PROVE  /\ \A k \in 1..n : (IsData(k)' <=> IsData(k)) /\ Size(k)' = Size(k)
         /\ \A k \in 1..(n + 1) : Unfinished(k)' <=> Unfinished(k)
         /\ \A k \in 0..n : Conforms(k)' <=> Conforms(k)
         /\ \A k \in 0..n : \A j \in 1..k : Opens(j, k)' <=> Opens(j, k)
         /\ \A k \in 0..n : Orderly(k)' <=> Orderly(k)
         /\ \A k \in 0..n : Cause(k)' <=> Cause(k)
<1>0. n \in Nat /\ \A k \in 1..n : frames'[k] = frames[k]
  BY DEF Agree
<1>1. \A k \in 1..n : (IsData(k)' <=> IsData(k)) /\ Size(k)' = Size(k)
  BY <1>0 DEF IsData, Size, HeaderSize
<1>2. ASSUME NEW k \in 1..(n + 1) PROVE Unfinished(k)' <=> Unfinished(k)
  <2>1. /\ \A j \in 1..(k - 1) : j \in 1..n
        /\ \A j \in 1..(k - 1) : \A i \in (j + 1)..(k - 1) : i \in 1..n
    BY <1>0
  <2> QED
    BY <1>0, <1>1, <2>1 DEF Unfinished
<1>3. ASSUME NEW k \in 0..n PROVE Conforms(k)' <=> Conforms(k)
  <2>1. \A j \in 1..k : j \in 1..n /\ j \in 1..(n + 1)
    BY <1>0
  <2>2. \A j \in 1..k : Unfinished(j)' <=> Unfinished(j)
    BY <1>2, <2>1
  <2> QED
    BY <1>0, <1>1, <2>1, <2>2 DEF Conforms, Refused
<1>4. ASSUME NEW k \in 0..n, NEW j \in 1..k PROVE Opens(j, k)' <=> Opens(j, k)
  <2>1. j \in 1..n /\ \A i \in (j + 1)..k : i \in 1..n
    BY <1>0
  <2> QED
    BY <1>0, <1>1, <2>1 DEF Opens
<1>5. ASSUME NEW k \in 0..n PROVE Orderly(k)' <=> Orderly(k)
  <2>1. \A i \in 1..k : i \in 1..n /\ i \in 1..(n + 1) /\ i - 1 \in 0..n
    BY <1>0
  <2>2. \A i \in 1..k : Unfinished(i)' <=> Unfinished(i)
    BY <1>2, <2>1
  <2>3. \A i \in 1..k : \A j \in 1..(i - 1) : Opens(j, i - 1)' <=> Opens(j, i - 1)
    BY <1>4, <2>1
  <2> QED
    BY <1>0, <2>1, <2>2, <2>3 DEF Orderly, Refused
<1>6. ASSUME NEW k \in 0..n PROVE Cause(k)' <=> Cause(k)
  <2>1. \A i \in 1..k : i \in 1..n
    BY <1>0
  <2> QED
    BY <1>0, <1>3, <2>1 DEF Cause
<1> QED
  BY <1>1, <1>2, <1>3, <1>4, <1>5, <1>6

\* ... and what those that conform mean.
LEMMA SameEvents ==
  ASSUME NEW n, Agree(n), NEW m \in 0..n, Conforms(m)
  PROVE  Events(m)' = Events(m)
<1>0. n \in Nat /\ m \in Nat /\ \A k \in 1..m : k \in 1..n /\ frames'[k] = frames[k]
  BY DEF Agree
<1>1. \A k \in 1..m : IsData(k)' <=> IsData(k)
  BY <1>0, SameOrder
<1>2. ASSUME NEW k \in 1..m PROVE Event(k)' = Event(k)
  <2>1. k \in Nat /\ \A j \in 1..k : j \in 1..m
    BY <1>0
  <2>2. CASE ~IsData(k)
    BY <1>0, <1>1, <2>2 DEF Event
  <2>3. CASE IsData(k)
    <3> DEFINE first == CHOOSE j \in Starts(k) : \A i \in Starts(k) : i <= j
               S == {i \in first..k : IsData(i)}
    <3>1. Starts(k)' = Starts(k)
      BY <1>0, <2>1 DEF Starts
    <3>2. first \in Starts(k)
      <4>1. \E j \in Starts(k) : \A i \in Starts(k) : i <= j
        BY <1>0, <2>3, FirstFragment
      <4> QED
        BY <4>1
    <3>3. first \in 1..m
      BY <2>1, <3>2 DEF Starts
    <3>4. Event(k) = [type |-> frames[first].op, parts |-> Ascending(S, k)]
      BY <2>3 DEF Event
    <3>5. first' = first
      BY <3>1
    <3>6. Event(k)' = [type |-> frames'[first].op, parts |-> Ascending(S', k)]
      BY <1>1, <2>3, <3>5 DEF Event
    <3>7. S' = S
      <4>1. \A i \in first..k : i \in 1..m
        BY <1>0, <3>3
      <4> QED
        BY <1>1, <3>5, <4>1
    <3> QED
      BY <1>0, <3>3, <3>4, <3>6, <3>7
  <2> QED
    BY <2>2, <2>3
<1> DEFINE C == {k \in 1..m : Completes(k)}
           ends == Ascending(C, m)
<1>3. C' = C
  BY <1>0, <1>1 DEF Completes
<1>4. ends \in Seq(Nat) /\ \A e \in 1..Len(ends) : ends[e] \in 1..m
  <2> HIDE DEF C
  <2> QED
    BY <1>0, AscendingMembers
<1>5. PICK q \in Seq(Nat) : q = ends
  BY <1>4
<1>6. Events(m) = [e \in DOMAIN q |-> Event(q[e])]
  BY <1>5 DEF Events
<1>7. Events(m)' = [e \in DOMAIN q |-> Event(q[e])']
  <2>1. Ascending(C', m) = q
    BY <1>3, <1>5
  <2> QED
    BY <2>1 DEF Events
<1>8. \A e \in DOMAIN q : Event(q[e])' = Event(q[e])
  BY <1>2, <1>4, <1>5
<1> QED
  BY <1>6, <1>7, <1>8

\* What the codec has told stays right: without an error, or with all the frames there
\* already were.
LEMMA SameTold ==
  ASSUME NEW n, Agree(n), NEW m \in 0..n, NEW w, Told(w, m), ws' = w
  PROVE  Told(ws, m)'
<1>0. n \in Nat /\ m \in Nat /\ \A k \in 1..m : k \in 1..n /\ frames'[k] = frames[k]
  BY DEF Agree
<1>1. /\ Conforms(m)' <=> Conforms(m)
      /\ \A j \in 1..m : Opens(j, m)' <=> Opens(j, m)
      /\ Orderly(m)' <=> Orderly(m)
      /\ Cause(m)' <=> Cause(m)
      /\ Unfinished(m + 1)' <=> Unfinished(m + 1)
  BY <1>0, SameOrder
<1>2. Conforms(m) => Events(m)' = Events(m)
  BY SameEvents
<1>3. Tracks(w, m) => Tracks(ws, m)'
  BY <1>0, <1>1 DEF Tracks
<1>4. Gathered(w, m) => Gathered(ws, m)'
  BY <1>0, <1>1 DEF Gathered
<1> QED
  BY <1>1, <1>2, <1>3, <1>4 DEF Told

\* What is in flight now begins as s does, or with a new frame.
Continued(s) ==
  /\ Len(frames') \in Nat /\ Len(frames) <= Len(frames')
  /\ s # <<>> => inFlight' # <<>> /\ inFlight'[1] = s[1]
  /\ s = <<>> => IF inFlight' = <<>> THEN Len(frames') = Len(frames)
                 ELSE inFlight'[1] = << Len(frames) + 1, 1 >>

\* The parser's place in the stream stays what it is when frames are added.
LEMMA SameAt ==
  ASSUME Framed, Framed', Agree(Len(frames)), NEW w, NEW s, NEW k, At(w, s, k), ws' = w, Continued(s)
  PROVE  k \in 1..(Len(frames') + 1) /\ At(ws, inFlight, k)'
<1>1. /\ Len(frames) \in Nat /\ Len(frames') \in Nat /\ Len(frames) <= Len(frames')
      /\ k \in 1..(Len(frames) + 1) /\ k - 1 \in 0..Len(frames)
      /\ DOMAIN frames = 1..Len(frames) /\ DOMAIN frames' = 1..Len(frames')
  BY DEF Framed, At, Continued
<1>2. k \in 1..(Len(frames') + 1)
  BY <1>1
<1>3. Told(ws, k - 1)'
  <2>1. PICK n : n = Len(frames)
    OBVIOUS
  <2>2. PICK m \in 0..n : m = k - 1
    BY <1>1, <2>1
  <2>3. Told(w, m)
    BY <2>2 DEF At
  <2>4. Told(ws, m)'
    BY <2>1, <2>3, SameTold
  <2> QED
    BY <2>2, <2>4
<1>4. CASE w.state = "header" /\ w.body = <<>>
           /\ IF s = <<>> THEN k = Len(frames) + 1 ELSE s[1] = << k, 1 >>
  <2>1. IF inFlight' = <<>> THEN k = Len(frames') + 1 ELSE inFlight'[1] = << k, 1 >>
    BY <1>4 DEF Continued
  <2> QED
    BY <1>2, <1>3, <1>4, <2>1 DEF At
<1>5. CASE /\ Inside(w, k) /\ Len(w.body) < frames[k].len
           /\ s # <<>> /\ s[1] = << k, HeaderSize(frames[k]) + Len(w.body) + 1 >>
  <2>1. k \in 1..Len(frames) /\ k \in DOMAIN frames'
    BY <1>1, <1>5 DEF Inside
  <2>2. frames'[k] = frames[k]
    BY <2>1 DEF Agree
  <2>3. Inside(ws, k)'
    BY <1>5, <2>1, <2>2 DEF Inside, KeyIsSet, Refused, HeaderSize
  <2>4. inFlight' # <<>> /\ inFlight'[1] = s[1]
    BY <1>5 DEF Continued
  <2>5. HeaderSize(frames[k])' = HeaderSize(frames[k])
    BY <2>2 DEF HeaderSize
  <2> QED
    BY <1>2, <1>3, <1>5, <2>2, <2>3, <2>4, <2>5 DEF At
<1> QED
  BY <1>4, <1>5 DEF At

---------------------------------------------------------------------------
(* The invariant.                                                          *)

StreamInv == Framed /\ Parsing(ws, inFlight) /\ ws.buf = <<>>

\* What the invariant says of a connection that is not closed.
LEMMA OpenAt ==
  ASSUME StreamInv, ws.status = "open", ~ws.error
  PROVE  /\ ws \in Handlers /\ Run(inFlight) /\ inFlight \in Seq(Positions)
         /\ \E k \in 1..(Len(frames) + 1) : At(ws, inFlight, k)
<1>1. Parsing(ws, inFlight) /\ ws.buf = <<>>
  BY DEF StreamInv
<1>2. inFlight \in Seq(Positions)
  BY <1>1 DEF Parsing, Run
<1>3. ws.buf \o inFlight = inFlight
  BY <1>1, <1>2, ConcatEmptySeq
<1> QED
  BY <1>1, <1>2, <1>3 DEF Parsing, Ended

\* At the start nothing was sent.
LEMMA StreamInvInit == StreamInit => StreamInv
<1> SUFFICES ASSUME StreamInit PROVE StreamInv
  OBVIOUS
<1>1. /\ frames = <<>> /\ inFlight = <<>> /\ Len(frames) = 0 /\ Len(inFlight) = 0
      /\ <<>> \in Seq(Positions) /\ <<>> \in Seq(FrameSet) /\ <<>> \in Seq(Nat)
  BY DEF StreamInit
<1>2. PICK key \in {0, MaxFrames + 1} :
        ws = [buf |-> <<>>, state |-> "header", frame |-> 0, key |-> key, body |-> <<>>,
              current |-> "none", partial |-> [d \in Data |-> <<>>], out |-> <<>>,
              error |-> FALSE, status |-> "open"]
  BY DEF StreamInit
<1>3. MaxFrames \in Nat
  BY StreamAssumption
<1>4. ws \in Handlers
  <2>1. [d \in Data |-> <<>>] \in [Data -> Seq(Nat)]
    BY <1>1
  <2>2. <<>> \in Seq([type : Ops, parts : Seq(Nat)])
    OBVIOUS
  <2>3. key \in 0..(MaxFrames + 1) /\ 0 \in 0..MaxFrames
    BY <1>3
  <2> QED
    BY <1>1, <1>2, <2>1, <2>2, <2>3 DEF Handlers
<1>5. Framed
  BY <1>1, <1>3 DEF Framed
<1>6. Run(inFlight)
  BY <1>1 DEF Run
<1>7. Told(ws, 0)
  <2>1. Orderly(0)
    BY DEF Orderly
  <2>2. Tracks(ws, 0)
    BY <1>2 DEF Tracks
  <2>3. ws.out = Events(0)
    BY <1>2, EventsStep, 0 \in Nat
  <2>4. Gathered(ws, 0)
    BY <1>2 DEF Gathered
  <2> QED
    BY <1>2, <2>1, <2>2, <2>3, <2>4 DEF Told
<1>8. At(ws, inFlight, 1)
  <2>1. 1 \in 1..(Len(frames) + 1) /\ 1 = Len(frames) + 1 /\ 1 - 1 = 0
    BY <1>1
  <2> QED
    BY <1>1, <1>2, <1>7, <2>1 DEF At
<1>9. ws.buf = <<>> /\ ws.status = "open" /\ ws.buf \o inFlight = inFlight /\ 1 \in 1..(Len(frames) + 1)
  <2>1. ws.buf = <<>> /\ ws.status = "open" /\ 1 \in 1..(Len(frames) + 1)
    BY <1>1, <1>2
  <2>2. <<>> \o inFlight = inFlight
    BY <1>1, ConcatEmptySeq
  <2> QED
    BY <2>1, <2>2
<1> QED
  BY <1>4, <1>5, <1>6, <1>8, <1>9 DEF StreamInv, Parsing

\* A frame that is sent continues the stream.
LEMMA SendRun ==
  ASSUME Framed, Run(inFlight), NEW f \in FrameSet, Send(f)
  PROVE  Run(inFlight)'
<1>a. PICK n \in Nat : n = Len(frames)
  BY DEF Framed
<1> DEFINE size == HeaderSize(f) + f.len
           add == Bytes(n + 1, f)
<1>b. PICK s : s = inFlight \o add
  OBVIOUS
<1>1. /\ frames \in Seq(FrameSet) /\ n \in Nat /\ n = Len(frames) /\ frames' = Append(frames, f)
      /\ inFlight' = s /\ inFlight \in Seq(Positions) /\ Len(inFlight) \in Nat
  BY <1>a, <1>b DEF Framed, Send, Run
<1>2. Len(frames') = n + 1 /\ frames'[n + 1] = f /\ \A k \in 1..n : frames'[k] = frames[k]
  BY <1>1
<1>3. size \in Nat /\ size >= 2 /\ Size(n + 1)' = size
  <2>1. IsFrame(f) /\ f.len \in Nat
    BY StreamAssumption DEF IsFrame
  <2>2. size \in Nat /\ size >= 2
    BY <2>1 DEF HeaderSize
  <2>3. Size(n + 1)' = size
    BY <1>2 DEF Size, HeaderSize
  <2> QED
    BY <2>2, <2>3
<1>4. \A k \in 1..n : Size(k)' = Size(k)
  <2>1. Agree(n)
    BY <1>1, <1>2 DEF Agree
  <2> QED
    BY <2>1, SameOrder
<1>5. /\ add \in Seq(Positions) /\ Len(add) = size
      /\ \A i \in 1..size : add[i] = << n + 1, i >>
  <2>1. add = [i \in 1..size |-> << n + 1, i >>]
    BY DEF Bytes
  <2> HIDE DEF add, size
  <2>2. \A i \in 1..size : << n + 1, i >> \in Positions
    BY <1>1, <1>3 DEF Positions
  <2> QED
    BY <1>3, <2>1, <2>2
<1>6. /\ s \in Seq(Positions) /\ Len(s) = Len(inFlight) + size
      /\ \A i \in 1..Len(s) : s[i] = IF i <= Len(inFlight) THEN inFlight[i]
                                     ELSE << n + 1, i - Len(inFlight) >>
  <2> HIDE DEF add, size
  <2>1. PICK q \in Seq(Positions) : q = add
    BY <1>5
  <2>2. /\ s \in Seq(Positions) /\ Len(s) = Len(inFlight) + Len(q)
        /\ \A i \in 1..Len(s) : s[i] = IF i <= Len(inFlight) THEN inFlight[i]
                                       ELSE q[i - Len(inFlight)]
    BY <1>1, <1>b, <2>1, ConcatProperties
  <2>3. ASSUME NEW i \in 1..Len(s), ~(i <= Len(inFlight))
        PROVE  q[i - Len(inFlight)] = << n + 1, i - Len(inFlight) >>
    <3>1. i - Len(inFlight) \in 1..size
      BY <1>1, <1>3, <1>5, <2>1, <2>2, <2>3
    <3> QED
      BY <1>5, <2>1, <3>1
  <2> QED
    BY <1>5, <2>1, <2>2, <2>3
<1> HIDE DEF add, size
<1>7. Len(s) \in Nat /\ Len(s) >= 2
  BY <1>1, <1>3, <1>6
<1>8. ASSUME NEW i \in 1..Len(s)
      PROVE  s[i][1] \in 1..(n + 1) /\ s[i][2] \in 1..Size(s[i][1])'
  <2>1. CASE i <= Len(inFlight)
    <3>1. s[i] = inFlight[i] /\ i \in 1..Len(inFlight)
      BY <1>6, <2>1
    <3>2. PICK b \in Positions : b = inFlight[i]
      BY <1>1, <3>1
    <3>3. b[1] \in 1..n /\ b[2] \in 1..Size(b[1])
      BY <1>1, <3>1, <3>2 DEF Run
    <3>4. Size(b[1])' = Size(b[1])
      BY <1>4, <3>3
    <3>5. b[2] \in 1..Size(b[1])'
      BY <3>3, <3>4
    <3> QED
      BY <1>1, <3>1, <3>2, <3>3, <3>5
  <2>2. CASE ~(i <= Len(inFlight))
    <3>1. s[i] = << n + 1, i - Len(inFlight) >> /\ i - Len(inFlight) \in 1..size
      BY <1>1, <1>3, <1>6, <2>2
    <3> QED
      BY <1>1, <1>3, <3>1
  <2> QED
    BY <2>1, <2>2
<1>9. ASSUME NEW i \in 1..(Len(s) - 1)
      PROVE  s[i + 1] = Following(s[i])'
  <2>1. i \in 1..Len(s) /\ i + 1 \in 1..Len(s) /\ i \in Nat
    BY <1>7
  <2>2. CASE i + 1 <= Len(inFlight)
    <3>1. s[i] = inFlight[i] /\ s[i + 1] = inFlight[i + 1] /\ i \in 1..Len(inFlight)
          /\ i \in 1..(Len(inFlight) - 1)
      BY <1>1, <1>6, <2>1, <2>2
    <3>2. s[i + 1] = Following(s[i])
      BY <3>1 DEF Run
    <3>3. s[i][1] \in 1..n
      BY <1>1, <3>1 DEF Run
    <3>4. Size(s[i][1])' = Size(s[i][1])
      BY <1>4, <3>3
    <3> QED
      BY <1>1, <3>2, <3>4 DEF Following
  <2>3. CASE i = Len(inFlight)
    <3>1. s[i] = inFlight[i] /\ s[i + 1] = << n + 1, 1 >> /\ inFlight # <<>>
      <4>1. i <= Len(inFlight) /\ ~(i + 1 <= Len(inFlight)) /\ (i + 1) - Len(inFlight) = 1
        BY <1>1, <2>1, <2>3
      <4>2. Len(inFlight) # 0
        BY <2>1, <2>3
      <4> QED
        BY <1>6, <2>1, <4>1, <4>2
    <3>2. s[i] = << n, Size(n) >> /\ n \in 1..n
      <4>1. s[i] = << n, Size(n) >>
        BY <1>1, <2>3, <3>1 DEF Run
      <4>2. s[i][1] \in 1..n
        BY <1>1, <2>1, <2>3, <3>1 DEF Run
      <4> QED
        BY <4>1, <4>2
    <3>3. Size(n)' = Size(n) /\ Size(n) \in Nat
      <4>1. n \in DOMAIN frames
        BY <1>1, <3>2
      <4> QED
        BY <1>4, <3>2, <4>1, SizeType
    <3> QED
      BY <1>1, <3>1, <3>2, <3>3 DEF Following
  <2>4. CASE ~(i <= Len(inFlight))
    <3>1. s[i] = << n + 1, i - Len(inFlight) >> /\ s[i + 1] = << n + 1, (i + 1) - Len(inFlight) >>
          /\ i - Len(inFlight) < size /\ (i + 1) - Len(inFlight) = (i - Len(inFlight)) + 1
      BY <1>1, <1>3, <1>6, <2>1, <2>4
    <3> QED
      BY <1>3, <3>1 DEF Following
  <2> QED
    BY <1>1, <2>1, <2>2, <2>3, <2>4
<1>10. s[Len(s)] = << n + 1, Size(n + 1)' >>
  <2>1. Len(s) \in 1..Len(s) /\ ~(Len(s) <= Len(inFlight)) /\ Len(s) - Len(inFlight) = size
    BY <1>1, <1>3, <1>6, <1>7
  <2> QED
    BY <1>3, <1>6, <2>1
<1> QED
  BY <1>1, <1>2, <1>6, <1>8, <1>9, <1>10 DEF Run

\* Send: the parser stays where it is, and the stream goes on with the new frame.
LEMMA SendStep ==
  ASSUME StreamInv, NEW f \in FrameSet, Send(f)
  PROVE  StreamInv'
<1>1. /\ Framed /\ ws.buf = <<>> /\ ws \in Handlers /\ Run(inFlight) /\ inFlight \in Seq(Positions)
      /\ \E k \in 1..(Len(frames) + 1) : At(ws, inFlight, k)
  BY OpenAt DEF StreamInv, Send
<1>2. PICK k \in 1..(Len(frames) + 1) : At(ws, inFlight, k)
  BY <1>1
<1>3. PICK n \in Nat : n = Len(frames)
  BY <1>1 DEF Framed
<1>4. Framed' /\ Len(frames') = n + 1 /\ Agree(Len(frames))
  <2>1. frames \in Seq(FrameSet) /\ frames' = Append(frames, f) /\ n < MaxFrames /\ MaxFrames \in Nat
    BY <1>1, <1>3, StreamAssumption DEF Framed, Send
  <2>2. /\ frames' \in Seq(FrameSet) /\ Len(frames') = n + 1
        /\ \A i \in 1..n : frames'[i] = frames[i]
    BY <1>3, <2>1
  <2>3. n + 1 <= MaxFrames
    BY <1>3, <2>1
  <2> QED
    BY <1>3, <2>2, <2>3 DEF Framed, Agree
<1>5. Run(inFlight)' /\ inFlight' \in Seq(Positions)
  <2>1. Run(inFlight)'
    BY <1>1, SendRun
  <2> QED
    BY <2>1 DEF Run
<1>6. ws' = ws
  BY DEF Send
<1>7. Continued(inFlight)
  <2> DEFINE add == Bytes(n + 1, f)
  <2>1. add \in Seq(Positions) /\ Len(add) >= 1 /\ add[1] = << n + 1, 1 >>
    <3>1. IsFrame(f) /\ f.len \in Nat
      BY StreamAssumption DEF IsFrame
    <3>2. PICK size \in Nat : size = HeaderSize(f) + f.len /\ size >= 2
      BY <3>1 DEF HeaderSize
    <3>3. add = [i \in 1..size |-> << n + 1, i >>]
      BY <3>2 DEF Bytes
    <3> HIDE DEF add
    <3>4. \A i \in 1..size : << n + 1, i >> \in Positions
      BY <1>3, <3>2 DEF Positions
    <3> QED
      BY <3>2, <3>3, <3>4
  <2> HIDE DEF add
  <2>2. inFlight' = inFlight \o add
    BY <1>3 DEF Send, add
  <2>3. /\ inFlight' \in Seq(Positions) /\ Len(inFlight') = Len(inFlight) + Len(add)
        /\ \A i \in 1..Len(inFlight') :
             inFlight'[i] = IF i <= Len(inFlight) THEN inFlight[i] ELSE add[i - Len(inFlight)]
    <3>1. PICK a \in Seq(Positions), b \in Seq(Positions) : a = inFlight /\ b = add
      BY <1>1, <2>1
    <3>2. /\ a \o b \in Seq(Positions) /\ Len(a \o b) = Len(a) + Len(b)
          /\ \A i \in 1..Len(a \o b) : (a \o b)[i] = IF i <= Len(a) THEN a[i] ELSE b[i - Len(a)]
      BY ConcatProperties
    <3> QED
      BY <2>2, <3>1, <3>2
  <2>4. Len(inFlight) \in Nat /\ Len(add) \in Nat
    BY <1>1, <2>1
  <2>5. 1 \in 1..Len(inFlight') /\ inFlight' # <<>>
    BY <2>1, <2>3, <2>4
  <2>6. inFlight # <<>> => inFlight'[1] = inFlight[1]
    <3>1. inFlight # <<>> => 1 <= Len(inFlight)
      BY <1>1, <2>4, EmptySeq
    <3> QED
      BY <2>3, <2>5, <3>1
  <2>7. inFlight = <<>> => inFlight'[1] = << n + 1, 1 >>
    <3>1. inFlight = <<>> => Len(inFlight) = 0
      OBVIOUS
    <3>2. inFlight = <<>> => ~(1 <= Len(inFlight)) /\ 1 - Len(inFlight) = 1
      BY <3>1
    <3> QED
      BY <2>1, <2>3, <2>5, <3>2
  <2> QED
    BY <1>3, <1>4, <2>5, <2>6, <2>7 DEF Continued
<1>8. k \in 1..(Len(frames') + 1) /\ At(ws, inFlight, k)'
  <2>1. PICK s, w : s = inFlight /\ w = ws
    OBVIOUS
  <2>2. At(w, s, k) /\ Continued(s) /\ ws' = w
    BY <1>2, <1>6, <1>7, <2>1
  <2> QED
    BY <1>1, <1>4, <2>2, SameAt
<1>9. (ws \in Handlers)' /\ (ws.buf = <<>>)' /\ (ws.status = "open")'
  BY <1>1, <1>6 DEF Send, Handlers
<1>10. (ws.buf \o inFlight = inFlight)'
  BY <1>5, <1>9, ConcatEmptySeq
<1> QED
  BY <1>4, <1>5, <1>8, <1>9, <1>10 DEF StreamInv, Parsing

\* Read: OnData goes on from its place in the stream.
LEMMA ReadStep ==
  ASSUME StreamInv, NEW n \in 1..Len(inFlight), Read(n)
  PROVE  StreamInv'
<1> DEFINE d == SubSeq(inFlight, 1, n)
           w == [ws EXCEPT !.buf = d]
<1>1. /\ Framed /\ ws.buf = <<>> /\ ws \in Handlers /\ Run(inFlight) /\ inFlight \in Seq(Positions)
      /\ \E k \in 1..(Len(frames) + 1) : At(ws, inFlight, k)
      /\ ws.status = "open"
  BY OpenAt DEF StreamInv, Read
<1>2. PICK k \in 1..(Len(frames) + 1) : At(ws, inFlight, k)
  BY <1>1
<1>3. PICK t : t = SubSeq(inFlight, n + 1, Len(inFlight)) /\ inFlight' = t
  BY DEF Read
<1>4. Run(t) /\ t \in Seq(Positions)
  <2>1. PICK s, m : s = inFlight /\ m = n
    OBVIOUS
  <2>2. Left(s, m, t)
    BY <1>1, <1>3, <2>1 DEF Left
  <2>3. Run(t)
    BY <1>1, <2>2, RunRest
  <2> QED
    BY <2>3 DEF Run
<1>5. d \in Seq(Positions) /\ d \o t = inFlight
  <2>1. PICK s \in Seq(Positions) : s = inFlight
    BY <1>1
  <2>2. n \in 1..Len(s) /\ d = SubSeq(s, 1, n) /\ t = SubSeq(s, n + 1, Len(s))
    BY <1>3, <2>1
  <2> HIDE DEF d
  <2>3. d \in Seq(Positions) /\ Len(d) = n /\ \A i \in 1..n : d[i] = s[i]
    BY <2>2
  <2>4. t \in Seq(Positions) /\ Len(t) = Len(s) - n /\ \A i \in 1..(Len(s) - n) : t[i] = s[n + i]
    BY <2>2
  <2>5. d \o t \in Seq(Positions) /\ Len(d \o t) = Len(d) + Len(t)
        /\ \A i \in 1..Len(d \o t) : (d \o t)[i] = IF i <= Len(d) THEN d[i] ELSE t[i - Len(d)]
    <3>1. PICK b \in Seq(Positions) : b = t
      BY <2>4
    <3>2. PICK a \in Seq(Positions) : a = d
      BY <2>3
    <3>3. a \o b \in Seq(Positions) /\ Len(a \o b) = Len(a) + Len(b)
          /\ \A i \in 1..Len(a \o b) : (a \o b)[i] = IF i <= Len(a) THEN a[i] ELSE b[i - Len(a)]
      BY ConcatProperties
    <3> QED
      BY <3>1, <3>2, <3>3
  <2>6. Len(d \o t) = Len(s)
    BY <2>2, <2>3, <2>4, <2>5
  <2>7. ASSUME NEW i \in 1..Len(s) PROVE (d \o t)[i] = s[i]
    <3>1. (d \o t)[i] = IF i <= n THEN d[i] ELSE t[i - n]
      BY <2>3, <2>5, <2>6
    <3>2. CASE i <= n
      <4>1. i \in 1..n
        BY <3>2
      <4> QED
        BY <2>3, <3>1, <3>2, <4>1
    <3>3. CASE ~(i <= n)
      <4>1. i - n \in 1..(Len(s) - n) /\ n + (i - n) = i
        BY <2>2, <3>3
      <4>2. t[i - n] = s[n + (i - n)]
        BY <2>4, <4>1
      <4> QED
        BY <3>1, <3>3, <4>1, <4>2
    <3> QED
      BY <3>2, <3>3
  <2>8. d \o t = s
    BY <2>5, <2>6, <2>7, SeqEqual
  <2> QED
    BY <2>1, <2>3, <2>8
<1> HIDE DEF d
<1>6. /\ w \in Handlers /\ w.buf = d /\ w.status = "open" /\ w.state = ws.state
      /\ w.frame = ws.frame /\ w.key = ws.key /\ w.body = ws.body
      /\ w.error = ws.error /\ w.current = ws.current /\ w.partial = ws.partial /\ w.out = ws.out
  BY <1>1, <1>5 DEF Handlers
<1>7. ws' = OnData(w)
  <2>1. ws.buf \o d = d
    BY <1>1, <1>5, ConcatEmptySeq
  <2> QED
    BY <2>1 DEF Read, d
<1> HIDE DEF w
<1>8. Parsing(w, t)
  <2>1. Told(w, k - 1)
    <3>1. Told(ws, k - 1)
      BY <1>2 DEF At
    <3> QED
      BY <1>6, <3>1, ToldSame
  <2>2. At(w, inFlight, k)
    BY <1>2, <1>6, <2>1 DEF At, Inside, KeyIsSet
  <2> QED
    BY <1>1, <1>4, <1>5, <1>6, <2>2 DEF Parsing
<1>9. PICK u : u = OnData(w)
  OBVIOUS
<1>10. u \in Handlers /\ Parsing(u, t) /\ u.buf = <<>> /\ ws' = u
  <2>1. PICK v, s : v = w /\ s = t
    OBVIOUS
  <2>2. OnData(v) \in Handlers /\ Parsing(OnData(v), s) /\ OnData(v).buf = <<>>
    BY <1>1, <1>8, <2>1, OnDataStep
  <2> QED
    BY <1>7, <1>9, <2>1, <2>2
<1>11. frames' = frames
  BY DEF Read
<1>12. Framed' /\ Len(frames) \in Nat /\ Agree(Len(frames))
  BY <1>1, <1>11 DEF Framed, Agree
<1>13. Run(inFlight)'
  <2>1. \A i \in 1..Len(t) : t[i][1] \in 1..Len(frames) /\ t[i][2] \in 1..Size(t[i][1])'
    <3> SUFFICES ASSUME NEW i \in 1..Len(t)
                 PROVE  t[i][1] \in 1..Len(frames) /\ t[i][2] \in 1..Size(t[i][1])'
      OBVIOUS
    <3>1. t[i][1] \in 1..Len(frames) /\ t[i][2] \in 1..Size(t[i][1])
      BY <1>4 DEF Run
    <3>2. Size(t[i][1])' = Size(t[i][1])
      BY <1>11 DEF Size, HeaderSize
    <3> QED
      BY <3>1, <3>2
  <2>2. \A i \in 1..(Len(t) - 1) : t[i + 1] = Following(t[i])'
    <3> SUFFICES ASSUME NEW i \in 1..(Len(t) - 1) PROVE t[i + 1] = Following(t[i])'
      OBVIOUS
    <3>1. t[i + 1] = Following(t[i])
      BY <1>4 DEF Run
    <3>2. Size(t[i][1])' = Size(t[i][1])
      BY <1>11 DEF Size, HeaderSize
    <3> QED
      BY <3>1, <3>2 DEF Following
  <2>3. t # <<>> => t[Len(t)] = << Len(frames'), Size(Len(frames))' >>
    <3>1. Size(Len(frames))' = Size(Len(frames))
      BY <1>11 DEF Size, HeaderSize
    <3> QED
      BY <1>4, <1>11, <3>1 DEF Run
  <2> QED
    BY <1>3, <1>4, <1>11, <2>1, <2>2, <2>3 DEF Run
<1>14. (ws \in Handlers)' /\ (ws.buf = <<>>)'
  BY <1>10 DEF Handlers
<1>15. (ws.buf \o inFlight = inFlight)'
  BY <1>3, <1>4, <1>14, ConcatEmptySeq
<1>16. u.buf \o t = t
  BY <1>4, <1>10, ConcatEmptySeq
<1>17. CASE u.status = "open" /\ \E j \in 1..(Len(frames) + 1) : At(u, t, j)
  <2>1. PICK j \in 1..(Len(frames) + 1) : At(u, t, j)
    BY <1>17
  <2>2. Continued(t)
    BY <1>3, <1>11, <1>12 DEF Continued
  <2>3. j \in 1..(Len(frames') + 1) /\ At(ws, inFlight, j)'
    BY <1>1, <1>10, <1>12, <2>1, <2>2, SameAt
  <2>4. (ws.status = "open")'
    BY <1>10, <1>17
  <2> QED
    BY <1>12, <1>13, <1>14, <1>15, <2>3, <2>4 DEF StreamInv, Parsing
<1>18. CASE Ended(u, t)
  <2>1. Cause(Seen(t)) => Cause(Seen(inFlight))'
    <3>1. Seen(t) \in 0..Len(frames)
      <4>1. Left(t, 0, t)
        BY <1>4 DEF Left
      <4> QED
        BY <1>1, <4>1, RunRest
    <3>2. PICK m \in 0..Len(frames) : m = Seen(t)
      BY <3>1
    <3>3. Seen(inFlight)' = m
      BY <1>3, <1>11, <3>2 DEF Seen
    <3>4. PICK l : l = Len(frames)
      OBVIOUS
    <3>5. Cause(m)' <=> Cause(m)
      BY <1>12, <3>2, <3>4, SameOrder
    <3> QED
      BY <3>2, <3>3, <3>5
  <2>2. Ended(ws, inFlight)'
    BY <1>10, <1>18, <2>1 DEF Ended
  <2> QED
    BY <1>12, <1>13, <1>14, <2>2 DEF StreamInv, Parsing
<1> QED
  BY <1>10, <1>16, <1>17, <1>18 DEF Parsing

---------------------------------------------------------------------------
(* The theorems.                                                           *)

\* The invariant holds in every state.
LEMMA StreamInvariant == StreamSpec => []StreamInv
<1>1. StreamInv /\ [StreamNext]_streamVars => StreamInv'
  <2> SUFFICES ASSUME StreamInv, [StreamNext]_streamVars PROVE StreamInv'
    OBVIOUS
  <2>1. CASE \E f \in FrameSet : Send(f)
    BY <2>1, SendStep
  <2>2. CASE \E n \in 1..Len(inFlight) : Read(n)
    BY <2>2, ReadStep
  <2>3. CASE UNCHANGED streamVars
    <3>1. frames' = frames /\ inFlight' = inFlight /\ ws' = ws
      BY <2>3 DEF streamVars
    <3>2. Framed /\ Framed' /\ Parsing(ws, inFlight) /\ ws.buf = <<>> /\ (ws.buf = <<>>)'
      BY <3>1 DEF StreamInv, Framed
    <3>3. Run(inFlight) /\ inFlight \in Seq(Positions)
      BY <3>2 DEF Parsing, Run
    <3>4. Run(inFlight)'
      <4>1. \A k : Size(k)' = Size(k)
        BY <3>1 DEF Size, HeaderSize
      <4> QED
        BY <3>1, <3>3, <4>1 DEF Run, Following
    <3>5. (ws \in Handlers)'
      BY <3>1, <3>2 DEF Parsing, Handlers
    <3>6. Len(frames) \in Nat /\ Agree(Len(frames))
      BY <3>1, <3>2 DEF Framed, Agree
    <3>7. ws.buf \o inFlight = inFlight /\ (ws.buf \o inFlight = inFlight)'
      BY <3>1, <3>2, <3>3, ConcatEmptySeq
    <3>8. CASE ws.status = "open" /\ \E k \in 1..(Len(frames) + 1) : At(ws, inFlight, k)
      <4>1. PICK k \in 1..(Len(frames) + 1) : At(ws, inFlight, k)
        BY <3>8
      <4>2. PICK w, s : w = ws /\ s = inFlight
        OBVIOUS
      <4>3. At(w, s, k) /\ ws' = w /\ Continued(s)
        BY <3>1, <3>6, <4>1, <4>2 DEF Continued
      <4>4. k \in 1..(Len(frames') + 1) /\ At(ws, inFlight, k)'
        BY <3>2, <3>6, <4>3, SameAt
      <4> QED
        BY <3>1, <3>2, <3>4, <3>5, <3>7, <3>8, <4>4 DEF StreamInv, Parsing
    <3>9. CASE Ended(ws, inFlight)
      <4>1. Cause(Seen(inFlight)) => Cause(Seen(inFlight))'
        <5>1. PICK s : s = inFlight
          OBVIOUS
        <5>2. Left(s, 0, s)
          BY <3>3, <5>1 DEF Left
        <5>3. Seen(s) \in 0..Len(frames)
          BY <3>2, <5>2, RunRest
        <5>4. PICK m \in 0..Len(frames) : m = Seen(s)
          BY <5>3
        <5>5. Seen(inFlight)' = m
          BY <3>1, <5>1, <5>4 DEF Seen
        <5>6. PICK l : l = Len(frames)
          OBVIOUS
        <5>7. Cause(m)' <=> Cause(m)
          BY <3>6, <5>4, <5>6, SameOrder
        <5> QED
          BY <5>1, <5>4, <5>5, <5>7
      <4>2. Ended(ws, inFlight)'
        BY <3>1, <3>9, <4>1 DEF Ended
      <4> QED
        BY <3>2, <3>4, <3>5, <4>2 DEF StreamInv, Parsing
    <3> QED
      BY <3>2, <3>7, <3>8, <3>9 DEF Parsing
  <2> QED
    BY <2>1, <2>2, <2>3 DEF StreamNext
<1> QED
  BY <1>1, StreamInvInit, PTL DEF StreamSpec

\* The codec of a connection that is not closed knows the frames wholly read.
LEMMA ToldWholly ==
  ASSUME StreamInv, ws.status = "open", ~ws.error
  PROVE  WhollyRead \in Nat /\ Told(ws, WhollyRead)
<1>1. PICK k \in 1..(Len(frames) + 1) : At(ws, inFlight, k)
  BY OpenAt
<1>2. WhollyRead = k - 1
  <2>1. Len(frames) \in Nat /\ DOMAIN frames = 1..Len(frames)
    BY DEF StreamInv, Framed
  <2>2. inFlight = <<>> => k = Len(frames) + 1
    BY <1>1 DEF At
  <2>3. inFlight # <<>> => inFlight[1][1] = k
    BY <1>1 DEF At
  <2> QED
    BY <2>1, <2>2, <2>3 DEF WhollyRead
<1>3. Len(frames) \in Nat
  BY DEF StreamInv, Framed
<1> QED
  BY <1>1, <1>2, <1>3 DEF At

\* Type correctness: between reads the buffer is empty, and so is the body between
\* frames.
THEOREM StreamTypes == StreamSpec => []StreamTypeOK
<1>1. StreamInv => StreamTypeOK
  <2> SUFFICES ASSUME StreamInv PROVE StreamTypeOK
    OBVIOUS
  <2>1. Framed /\ Parsing(ws, inFlight) /\ ws.buf = <<>> /\ ws \in Handlers /\ Run(inFlight)
    BY DEF StreamInv, Parsing
  <2>2. /\ frames \in Seq(FrameSet) /\ Len(frames) <= MaxFrames /\ DOMAIN frames = 1..Len(frames)
        /\ inFlight \in Seq(Positions) /\ DOMAIN inFlight = 1..Len(inFlight)
    BY <2>1 DEF Framed, Run
  <2>3. \A k \in DOMAIN frames : frames[k] \in FrameSet
    BY <2>2
  <2>4. \A b \in DOMAIN inFlight : inFlight[b][1] \in DOMAIN frames
    BY <2>1, <2>2 DEF Run
  <2>5. ws.state = "header" => ws.body = <<>>
    BY <2>1 DEF Parsing, Ended, At, Inside
  <2> QED
    BY <2>1, <2>2, <2>3, <2>4, <2>5 DEF StreamTypeOK, Handlers
<1> QED
  BY <1>1, StreamInvariant, PTL

\* What a conforming client's frames mean is what the application is told, wherever
\* TCP cuts the stream into reads.
THEOREM CutsAreInvisible == StreamSpec => []CutsDoNotMatter
<1>1. StreamInv => CutsDoNotMatter
  BY ToldWholly DEF CutsDoNotMatter, Told
<1> QED
  BY <1>1, StreamInvariant, PTL

\* Frames that break the order of fragments, and malformed ones, close the connection.
THEOREM MalformedFramesClose == StreamSpec => []MalformedCloses
<1>1. StreamInv => MalformedCloses
  <2> SUFFICES ASSUME StreamInv, ws.status = "open", ~ws.error,
                      NEW k \in 1..WhollyRead
               PROVE  /\ ~Refused(frames[k])
                      /\ frames[k].op = "continuation" => Unfinished(k)
                      /\ frames[k].op \in Data =>
                           ~\E j \in 1..(k - 1) :
                              /\ frames[j].op \in Data /\ ~frames[j].fin
                              /\ \A i \in (j + 1)..(k - 1) : ~IsData(i)
    BY DEF MalformedCloses
  <2>1. Orderly(WhollyRead)
    BY ToldWholly DEF Told
  <2> QED
    BY <2>1 DEF Orderly, Opens
<1> QED
  BY <1>1, StreamInvariant, PTL

\* OnCodecError closes a connection only for a cause in the frames seen.
THEOREM ErrorsHaveCauses == StreamSpec => []ErrorHasCause
<1>1. StreamInv => ErrorHasCause
  <2> SUFFICES ASSUME StreamInv, ws.error
               PROVE  ws.status = "dropped" \/ Cause(Seen(inFlight))
    BY DEF ErrorHasCause, Cause, Seen
  <2>1. Framed /\ Parsing(ws, inFlight) /\ ws.buf = <<>> /\ Run(inFlight)
    BY DEF StreamInv, Parsing
  <2>2. inFlight \in Seq(Positions) /\ ws.buf \o inFlight = inFlight
    BY <2>1, ConcatEmptySeq DEF Run
  <2>3. CASE \E k \in 1..(Len(frames) + 1) : At(ws, inFlight, k)
    <3>1. PICK k \in 1..(Len(frames) + 1) : At(ws, inFlight, k)
      BY <2>3
    <3>2. PICK s, w : s = inFlight /\ w = ws
      OBVIOUS
    <3>3. k - 1 \in Nat /\ k - 1 <= Seen(s) /\ Seen(s) \in 0..Len(frames)
      BY <2>1, <3>1, <3>2, AtSeen
    <3>4. Cause(k - 1)
      BY <3>1 DEF At, Told
    <3>5. Seen(s) \in Nat
      BY <2>1, <3>3 DEF Framed
    <3> QED
      BY <3>2, <3>3, <3>4, <3>5, CauseGrows
  <2>4. CASE Ended(ws, inFlight)
    BY <2>4 DEF Ended
  <2> QED
    BY <2>1, <2>2, <2>3, <2>4 DEF Parsing
<1> QED
  BY <1>1, StreamInvariant, PTL
=============================================================================
