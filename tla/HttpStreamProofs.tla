-------------------------- MODULE HttpStreamProofs --------------------------
(***************************************************************************)
(* http_parser between the reads, whatever the requests, the cuts and the  *)
(* bound on requests are: its marks, which need nothing of what the bytes  *)
(* are; the types of what it keeps, which rest on what the requests' bytes *)
(* are, put together by recursive functions (Induction); and that it only  *)
(* closes a connection for a cause, which rests on where in the requests   *)
(* it is after each byte.                                                  *)
(***************************************************************************)
EXTENDS HttpStream, Induction, SequenceTheorems

\* A byte is parsed within the same read.
LEMMA AdvanceKeepsReading == Advance => reading' = reading
  BY DEF Advance

LEMMA CompleteKeepsReading ==
  ASSUME NEW q, NEW fs, Complete(q, fs)
  PROVE  reading' = reading
  BY AdvanceKeepsReading DEF Complete

LEMMA FinishKeepsReading ==
  ASSUME NEW q, NEW fs, FinishHeaders(q, fs)
  PROVE  reading' = reading
<1> DEFINE r == OnHeadersComplete(q, fs)
<1>1. Complete(q, fs) \/ Complete(r, fs) \/ Advance
  BY DEF FinishHeaders
<1> QED BY <1>1, CompleteKeepsReading, AdvanceKeepsReading

\* The step of each state keeps the marks in place, and sets one only where none
\* is: no state is in the middle of two things.
LEMMA MarksStep ==
  ASSUME MarksInPlace, HttpNext
  PROVE  MarksInPlace' /\ (mark' # mark => mark = "none" \/ mark' = "none")
<1> USE DEF MarksInPlace, Within, marks, parser, handler
<1>1. CASE BlankLine
  BY AdvanceKeepsReading, <1>1 DEF BlankLine, Takes
<1>2. CASE StartReq
  BY AdvanceKeepsReading, <1>2 DEF StartReq, Takes, Goto
<1>3. CASE ReqMethod
  BY AdvanceKeepsReading, <1>3 DEF ReqMethod, Takes, Goto
<1>4. CASE SpacesBeforeUrl
  BY AdvanceKeepsReading, <1>4 DEF SpacesBeforeUrl, Takes, Goto, Marks
<1>5. CASE Url
  BY AdvanceKeepsReading, <1>5 DEF Url, Takes, Goto, Marks, CallBack, NoMark
<1>6. CASE Version
  BY AdvanceKeepsReading, <1>6 DEF Version, Takes, Goto
<1>7. CASE ReqLineAlmostDone
  BY AdvanceKeepsReading, <1>7 DEF ReqLineAlmostDone, Takes, Goto
<1>8. CASE HeaderFieldStart
  BY AdvanceKeepsReading, <1>8 DEF HeaderFieldStart, AfterHeader, Takes, Goto, Marks
<1>9. CASE HeaderField
  BY AdvanceKeepsReading, <1>9 DEF HeaderField, Takes, Goto, Marks, CallBack, NoMark
<1>10. CASE DiscardWs
  BY AdvanceKeepsReading, <1>10 DEF DiscardWs, Takes, Goto
<1>11. CASE HeaderValueStart
  BY AdvanceKeepsReading, <1>11 DEF HeaderValueStart, Takes, Goto, Marks
<1>12. CASE HeaderValue
  BY AdvanceKeepsReading, <1>12 DEF HeaderValue, Takes, Goto, Marks, CallBack, NoMark
<1>13. CASE HeaderAlmostDone
  BY AdvanceKeepsReading, <1>13 DEF HeaderAlmostDone, Takes, Goto
<1>14. CASE EndOfHeaders
  BY AdvanceKeepsReading, FinishKeepsReading, <1>14 DEF EndOfHeaders, AfterHeader, Takes, Goto
<1>15. CASE HeadersAlmostDone
  BY AdvanceKeepsReading, FinishKeepsReading, <1>15 DEF HeadersAlmostDone, Takes
<1>16. CASE BodyIdentity
  BY AdvanceKeepsReading, CompleteKeepsReading, <1>16 DEF BodyIdentity, Takes, Marks, NoMark
<1>17. CASE ChunkSize
  BY AdvanceKeepsReading, <1>17 DEF ChunkSize, Takes, Goto
<1>18. CASE ChunkSizeAlmostDone
  BY AdvanceKeepsReading, <1>18 DEF ChunkSizeAlmostDone, Takes, Goto
<1>19. CASE ChunkData
  BY AdvanceKeepsReading, <1>19 DEF ChunkData, Takes, Goto, Marks
<1>20. CASE ChunkDataDone
  BY AdvanceKeepsReading, <1>20 DEF ChunkDataDone, Takes, Goto, CallBack, NoMark
<1>21. CASE Read
  BY <1>21 DEF Read
<1>22. CASE EndOfRead
  BY <1>22 DEF EndOfRead, CallBack, NoMark
<1>23. CASE Fail
  BY <1>23 DEF Fail, Takes
<1> QED BY <1>1, <1>2, <1>3, <1>4, <1>5, <1>6, <1>7, <1>8, <1>9, <1>10, <1>11, <1>12, <1>13, <1>14, <1>15, <1>16, <1>17, <1>18, <1>19, <1>20, <1>21, <1>22, <1>23 DEF HttpNext

\* The marks are in place whenever the parser stops or a read ends.
THEOREM MarksStayInPlace == HttpSpec => []MarksInPlace
<1>1. HttpInit => MarksInPlace
  BY DEF HttpInit, MarksInPlace
<1>2. MarksInPlace /\ [HttpNext]_httpVars => MarksInPlace'
  BY MarksStep DEF MarksInPlace, Within, httpVars, parser, marks
<1> QED BY <1>1, <1>2, PTL DEF HttpSpec

\* No step of the parser gives up what is marked for another mark.
THEOREM NoMarkIsReplaced == HttpSpec => OneMarkAtATime
<1> DEFINE Kept == mark' # mark => mark = "none" \/ mark' = "none"
<1>1. MarksInPlace /\ [HttpNext]_httpVars => [Kept]_httpVars
  BY MarksStep DEF httpVars
<1> QED BY <1>1, MarksStayInPlace, PTL DEF HttpSpec, OneMarkAtATime

---------------------------------------------------------------------------
(* The bytes of the requests.                                              *)

\* Joining sequences goes through sequences, each of which continues the one before it.
Joins(f, B, s, n) ==
  /\ f \in [0..n -> Seq(B)]
  /\ f[0] = <<>> /\ \A j \in 1..n : f[j] = f[j - 1] \o s[j]
  /\ Joined(s, n) = f[n]

LEMMA JoinedSteps ==
  ASSUME NEW B, NEW n \in Nat, NEW s, \A j \in 1..n : s[j] \in Seq(B)
  PROVE  \E f : Joins(f, B, s, n)
<1> DEFINE Q == Seq(B)
           h == [x \in Nat \X Q |-> IF x[1] \in 1..n THEN x[2] \o s[x[1]] ELSE x[2]]
           f[j \in 0..n] == IF j = 0 THEN <<>> ELSE f[j - 1] \o s[j]
<1>1. <<>> \in Q /\ \A a, b \in Q : a \o b \in Q
  OBVIOUS
<1>2. StepFunction(Q, h)
  <2> HIDE DEF f
  <2>1. ASSUME NEW x \in Nat \X Q PROVE h[x] \in Q
    <3>1. x[2] \in Q /\ (x[1] \in 1..n => s[x[1]] \in Q)
      OBVIOUS
    <3> HIDE DEF Q
    <3> QED
      BY <1>1, <3>1
  <2> QED
    BY <2>1 DEF StepFunction
<1>3. PICK g : Iterates(g, Q, <<>>, h, n)
  <2> HIDE DEF f, h, Q
  <2> QED
    BY <1>1, <1>2, Iteration
<1>4. g \in [0..n -> Q] /\ g[0] = <<>> /\ \A j \in 1..n : g[j] = h[<<j, g[j - 1]>>]
  BY <1>3 DEF Iterates
<1>5. \A j \in 1..n : g[j] = g[j - 1] \o s[j]
  <2> SUFFICES ASSUME NEW j \in 1..n PROVE g[j] = g[j - 1] \o s[j]
    OBVIOUS
  <2> HIDE DEF f, Q
  <2>1. j \in Nat /\ j - 1 \in 0..n
    OBVIOUS
  <2>2. g[j - 1] \in Q
    BY <1>4, <2>1
  <2>3. <<j, g[j - 1]>> \in Nat \X Q
    BY <2>1, <2>2
  <2> QED
    BY <1>4, <2>3
<1> HIDE DEF h
<1>6. g = [j \in 0..n |-> IF j = 0 THEN <<>> ELSE g[j - 1] \o s[j]]
  <2> HIDE DEF f, Q
  <2> DEFINE k == [j \in 0..n |-> IF j = 0 THEN <<>> ELSE g[j - 1] \o s[j]]
  <2>1. ASSUME NEW j \in 0..n PROVE g[j] = k[j]
    <3>1. CASE j = 0
      BY <1>4, <3>1
    <3>2. CASE j # 0
      <4>1. j \in 1..n
        BY <3>2
      <4> QED
        BY <1>5, <3>2, <4>1
    <3> QED
      BY <3>1, <3>2
  <2>2. g = [j \in 0..n |-> g[j]] /\ k = [j \in 0..n |-> k[j]]
    BY <1>4
  <2> HIDE DEF k
  <2>3. g = k
    BY <2>1, <2>2
  <2> QED
    BY <2>3 DEF k
<1>7. f = [j \in 0..n |-> IF j = 0 THEN <<>> ELSE f[j - 1] \o s[j]]
  BY <1>6, Zenon
<1>8. Joined(s, n) = f[n]
  BY DEF Joined
<1> HIDE DEF f
<1>9. f \in [0..n -> Q]
  <2> DEFINE T == {j \in 0..n : f[j] \in Q}
  <2> HIDE DEF Q
  <2>1. ASSUME NEW j \in 1..n, j - 1 \in T PROVE j \in T
    <3>1. j \in 0..n /\ j # 0 /\ f[j - 1] \in Q
      BY <2>1
    <3>2. f[j] = f[j - 1] \o s[j]
      BY <1>7, <3>1
    <3>3. s[j] \in Q
      BY DEF Q
    <3> QED
      BY <1>1, <3>1, <3>2, <3>3
  <2>2. 0 \in T /\ n \in 0..n
    BY <1>1, <1>7
  <2> HIDE DEF T
  <2>3. 0..n \subseteq T
    BY <2>1, <2>2, UpTo, Zenon
  <2>4. \A j \in 0..n : f[j] \in Q
    BY <2>3 DEF T
  <2>5. f = [j \in 0..n |-> f[j]]
    BY <1>7
  <2> QED
    BY <2>4, <2>5
<1>10. f[0] = <<>> /\ \A j \in 1..n : f[j] = f[j - 1] \o s[j]
  <2>1. f[0] = <<>>
    BY <1>7
  <2>2. ASSUME NEW j \in 1..n PROVE f[j] = f[j - 1] \o s[j]
    <3>1. j \in 0..n /\ j # 0
      OBVIOUS
    <3> QED
      BY <1>7, <3>1
  <2> QED
    BY <2>1, <2>2
<1> QED
  BY <1>8, <1>9, <1>10 DEF Joins

\* Joining sequences makes a sequence.
LEMMA JoinedType ==
  ASSUME NEW B, NEW n \in Nat, NEW s, \A j \in 1..n : s[j] \in Seq(B)
  PROVE  Joined(s, n) \in Seq(B)
<1>1. PICK f : Joins(f, B, s, n)
  BY JoinedSteps
<1>2. n \in 0..n
  OBVIOUS
<1> QED
  BY <1>1, <1>2 DEF Joins

\* Sequences over a set are closed under concatenation.
LEMMA SequenceTypes ==
  ASSUME NEW B
  PROVE  <<>> \in Seq(B) /\ \A a, b \in Seq(B) : a \o b \in Seq(B) /\ Len(a \o b) = Len(a) + Len(b)
OBVIOUS

\* What the properties rely on in a byte of the k-th request.
ByteClasses == {"cr", "lf", "method", "space", "url", "version", "name", "colon", "value",
                "size", "body", "bad"}
ByteOf(k) ==
  {b \in [class : ByteClasses, kind : HeaderKinds \cup {"none", "url"}, req : {k}, part : Nat,
          i : Nat] : b.class = "name" => b.kind \in HeaderKinds}

\* A sequence of one, and the sequences cut from a longer one.
LEMMA OfOne ==
  ASSUME NEW B, NEW b \in B
  PROVE  << b >> \in Seq(B) /\ Len(<< b >>) = 1
OBVIOUS

LEMMA OfThree ==
  ASSUME NEW B, NEW a \in Seq(B), Len(a) = 1, NEW b \in Seq(B), Len(b) = 1,
         NEW c \in Seq(B), Len(c) = 1
  PROVE  a \o b \o c \in Seq(B) /\ Len(a \o b \o c) = 3
<1>1. a \o b \in Seq(B) /\ Len(a \o b) = 2
  BY SequenceTypes, SMTT(20)
<1> QED
  BY <1>1, SequenceTypes

LEMMA OfTwo ==
  ASSUME NEW B, NEW p \in Seq(B), Len(p) = 2, NEW sp \in Seq(B), Len(sp) = 1,
         NEW v, v = SubSeq(p, 1, 1) \o sp \o SubSeq(p, 2, 2)
  PROVE  /\ v \in Seq(B)
         /\ SubSeq(v, 1, 1) \in Seq(B) /\ SubSeq(v, 2, 3) \in Seq(B)
<1>1. SubSeq(p, 1, 1) \in Seq(B) /\ SubSeq(p, 2, 2) \in Seq(B)
  OBVIOUS
<1>2. Len(SubSeq(p, 1, 1)) = 1 /\ Len(SubSeq(p, 2, 2)) = 1
  OBVIOUS
<1>3. v \in Seq(B) /\ Len(v) = 3
  <2> DEFINE c == SubSeq(p, 1, 1)
             d == SubSeq(p, 2, 2)
  <2>1. c \in Seq(B) /\ d \in Seq(B) /\ Len(c) = 1 /\ Len(d) = 1
    BY <1>1, <1>2
  <2>2. v = c \o sp \o d
    OBVIOUS
  <2> HIDE DEF c, d
  <2> QED
    BY <2>1, <2>2, OfThree
<1>4. SubSeq(v, 1, 1) \in Seq(B) /\ SubSeq(v, 2, 3) \in Seq(B)
  BY <1>3
<1> QED
  BY <1>3, <1>4

\* The parts of a request are made of such bytes ...
LEMMA PartType ==
  ASSUME NEW k, NEW class \in ByteClasses \ {"name"}, NEW part \in Nat, NEW n \in Nat
  PROVE  Part(k, class, part, n) \in Seq(ByteOf(k)) /\ Len(Part(k, class, part, n)) = n
<1> DEFINE b(i) == [class |-> class, kind |-> "none", req |-> k, part |-> part, i |-> i]
<1>1. ASSUME NEW i \in 1..n PROVE b(i) \in ByteOf(k)
  <2>1. i \in Nat /\ class # "name" /\ class \in ByteClasses
    OBVIOUS
  <2> QED
    BY <2>1 DEF ByteOf
<1>2. Part(k, class, part, n) = [i \in 1..n |-> b(i)]
  BY DEF Part
<1> HIDE DEF b
<1> QED
  BY <1>1, <1>2

LEMMA OneType ==
  ASSUME NEW k, NEW class \in ByteClasses \ {"name"}, NEW kind \in {"none", "url"}
  PROVE  One(k, class, kind) \in Seq(ByteOf(k)) /\ Len(One(k, class, kind)) = 1
<1> DEFINE b == [class |-> class, kind |-> kind, req |-> k, part |-> 0, i |-> 1]
<1>1. b \in ByteOf(k)
  BY DEF ByteOf
<1>2. One(k, class, kind) = << b >>
  BY DEF One
<1> HIDE DEF b
<1> QED
  BY <1>1, <1>2, OfOne

LEMMA NameType ==
  ASSUME NEW k, NEW kind \in HeaderKinds
  PROVE  NameBytes(k, kind) \in Seq(ByteOf(k))
<1> DEFINE b(i) == [class |-> "name", kind |-> kind, req |-> k, part |-> 0, i |-> i]
<1>1. ASSUME NEW i \in 1..2 PROVE b(i) \in ByteOf(k)
  <2>1. i \in Nat /\ "name" \in ByteClasses
    BY DEF ByteClasses
  <2> QED
    BY <2>1 DEF ByteOf
<1>2. NameBytes(k, kind) = [i \in 1..2 |-> b(i)]
  BY DEF NameBytes
<1> HIDE DEF b
<1> QED
  BY <1>1, <1>2

\* ... and so are the ends of its lines, ...
LEMMA EolTypes ==
  ASSUME NEW k, NEW r, NEW kind \in {"none", "url"}
  PROVE  Eol(k, r, kind) \in Seq(ByteOf(k))
<1>1. /\ One(k, "cr", kind) \in Seq(ByteOf(k)) /\ One(k, "lf", kind) \in Seq(ByteOf(k))
      /\ One(k, "lf", "none") \in Seq(ByteOf(k))
  BY OneType DEF ByteClasses
<1> DEFINE Q == Seq(ByteOf(k))
<1>2. \A a, b \in Q : a \o b \in Q
  BY SequenceTypes
<1> HIDE DEF Q
<1>3. Eol(k, r, kind) \in Q
  BY <1>1, <1>2 DEF Eol, Q
<1> QED
  BY <1>3 DEF Q

\* ... its headers, ...
LEMMA HeaderTypes ==
  ASSUME NEW k, NEW r, r.headers \in Seq(HeaderKinds), NEW h \in DOMAIN r.headers
  PROVE  HeaderBytes(k, r, h) \in Seq(ByteOf(k))
<1> DEFINE B == ByteOf(k)
           kind == r.headers[h]
           p == Part(k, "value", h, 2)
           v == ValueBytes(k, h, kind)
           e == Eol(k, r, "none")
           sp == One(k, "space", "none")
<1>1. kind \in HeaderKinds /\ h \in Nat
  OBVIOUS
<1>2. /\ p \in Seq(B) /\ Len(p) = 2 /\ e \in Seq(B) /\ sp \in Seq(B) /\ Len(sp) = 1
      /\ NameBytes(k, kind) \in Seq(B) /\ One(k, "colon", "none") \in Seq(B)
  <2>0. /\ "value" \in ByteClasses \ {"name"} /\ "space" \in ByteClasses \ {"name"}
        /\ "colon" \in ByteClasses \ {"name"} /\ "none" \in {"none", "url"} /\ 2 \in Nat
    BY DEF ByteClasses
  <2>1. p \in Seq(B) /\ Len(p) = 2
    BY <1>1, <2>0, PartType
  <2>2. sp \in Seq(B) /\ Len(sp) = 1 /\ One(k, "colon", "none") \in Seq(B)
    BY <2>0, OneType
  <2>3. e \in Seq(B)
    BY EolTypes
  <2>4. NameBytes(k, kind) \in Seq(B)
    BY <1>1, NameType
  <2> QED
    BY <2>1, <2>2, <2>3, <2>4
<1>3. v = CASE kind = "empty" -> <<>>
            [] kind = "folded" -> SubSeq(p, 1, 1) \o sp \o SubSeq(p, 2, 2)
            [] OTHER -> p
  BY DEF ValueBytes
<1>4. HeaderBytes(k, r, h) =
        NameBytes(k, kind) \o One(k, "colon", "none") \o
        CASE kind = "empty" -> e
          [] kind = "late" -> e \o sp \o v \o e
          [] kind = "folded" -> SubSeq(v, 1, 1) \o e \o SubSeq(v, 2, 3) \o e
          [] OTHER -> sp \o v \o e
  BY DEF HeaderBytes
<1> HIDE DEF B, kind, p, v, e, sp
<1> DEFINE Q == Seq(B)
<1>5. <<>> \in Q /\ \A a, b \in Q : a \o b \in Q
  BY SequenceTypes
<1>6. /\ p \in Q /\ e \in Q /\ sp \in Q /\ NameBytes(k, kind) \in Q
      /\ One(k, "colon", "none") \in Q
  BY <1>2
<1>7. CASE kind = "folded"
  <2>1. v = SubSeq(p, 1, 1) \o sp \o SubSeq(p, 2, 2)
    BY <1>3, <1>7
  <2>5. SubSeq(v, 1, 1) \in Q /\ SubSeq(v, 2, 3) \in Q
    BY <1>2, <2>1, OfTwo
  <2>6. HeaderBytes(k, r, h) = NameBytes(k, kind) \o One(k, "colon", "none")
                               \o (SubSeq(v, 1, 1) \o e \o SubSeq(v, 2, 3) \o e)
    BY <1>4, <1>7
  <2> HIDE DEF Q
  <2>7. HeaderBytes(k, r, h) \in Q
    <3> DEFINE x == SubSeq(v, 1, 1)
               y == SubSeq(v, 2, 3)
    <3>1. x \in Q /\ y \in Q
      BY <2>5
    <3> HIDE DEF x, y
    <3>2. x \o e \o y \o e \in Q
      BY <1>5, <1>6, <3>1
    <3>3. NameBytes(k, kind) \o One(k, "colon", "none") \in Q
      BY <1>5, <1>6
    <3> QED
      BY <1>5, <2>6, <3>2, <3>3 DEF x, y
  <2> QED
    BY <2>7 DEF B, Q
<1>8. CASE kind # "folded"
  <2>1. v \in Q
    BY <1>3, <1>5, <1>6, <1>8
  <2> DEFINE line == CASE kind = "empty" -> e
                       [] kind = "late" -> e \o sp \o v \o e
                       [] kind = "folded" -> SubSeq(v, 1, 1) \o e \o SubSeq(v, 2, 3) \o e
                       [] OTHER -> sp \o v \o e
  <2> HIDE DEF Q
  <2>2. line \in Q
    BY <1>5, <1>6, <1>8, <2>1
  <2>3. HeaderBytes(k, r, h) = NameBytes(k, kind) \o One(k, "colon", "none") \o line
    BY <1>4
  <2> HIDE DEF line
  <2>4. HeaderBytes(k, r, h) \in Q
    <3>1. NameBytes(k, kind) \o One(k, "colon", "none") \in Q
      BY <1>5, <1>6
    <3> QED
      BY <1>5, <2>2, <2>3, <3>1
  <2> QED
    BY <2>4 DEF B, Q
<1> QED
  BY <1>7, <1>8

\* ... its chunks, ...
LEMMA ChunkTypes ==
  ASSUME NEW k, NEW r, r.body \in Seq(Nat \ {0}), NEW j \in 1..(Len(r.body) + 1)
  PROVE  ChunkBytes(k, r, j) \in Seq(ByteOf(k))
<1> DEFINE B == ByteOf(k)
           digit(n) == [class |-> "size", kind |-> "none", req |-> k, part |-> 0, i |-> n]
           size(n) == << digit(0), digit(n) >>
           e == Eol(k, r, "none")
<1>1. e \in Seq(B) /\ \A a, b \in Seq(B) : a \o b \in Seq(B)
  <2>1. e \in Seq(B)
    BY EolTypes
  <2> HIDE DEF e, B
  <2> QED
    BY <2>1, SequenceTypes
<1>2. ASSUME NEW n \in Nat PROVE size(n) \in Seq(B)
  <2>1. digit(0) \in B /\ digit(n) \in B
    BY DEF ByteOf, ByteClasses
  <2> HIDE DEF digit, B
  <2> QED
    BY <2>1
<1>3. CASE j > Len(r.body)
  <2>1. ChunkBytes(k, r, j) = size(0) \o e \o e
    BY <1>3 DEF ChunkBytes
  <2>2. size(0) \in Seq(B)
    BY <1>2
  <2> HIDE DEF e, B, size
  <2> QED
    BY <1>1, <2>1, <2>2 DEF B
<1>4. CASE ~(j > Len(r.body))
  <2>1. r.body[j] \in Nat /\ j \in Nat
    BY <1>4
  <2>2. ChunkBytes(k, r, j) = size(r.body[j]) \o e \o Part(k, "body", j, r.body[j]) \o e
    BY <1>4 DEF ChunkBytes
  <2>3. size(r.body[j]) \in Seq(B) /\ Part(k, "body", j, r.body[j]) \in Seq(B)
    BY <1>2, <2>1, PartType DEF ByteClasses
  <2> HIDE DEF e, B, size
  <2> QED
    BY <1>1, <2>2, <2>3 DEF B
<1> QED
  BY <1>3, <1>4

\* ... its body, ...
LEMMA BodyTypes ==
  ASSUME NEW k, NEW r, IsRequest(r)
  PROVE  BodyBytes(k, r) \in Seq(ByteOf(k))
<1>1. r.body \in Seq(Nat \ {0}) /\ Len(r.body) \in Nat
  BY DEF IsRequest
<1>2. CASE HasHeader(r, "chunked")
  <2> DEFINE n == Len(r.body) + 1
             s == [j \in 1..n |-> ChunkBytes(k, r, j)]
  <2>1. n \in Nat /\ \A j \in 1..n : s[j] \in Seq(ByteOf(k))
    BY <1>1, ChunkTypes
  <2>2. BodyBytes(k, r) = Joined(s, n)
    BY <1>2 DEF BodyBytes
  <2> HIDE DEF n, s
  <2> QED
    BY <2>1, <2>2, JoinedType
<1>3. CASE ~HasHeader(r, "chunked")
  <2> DEFINE n == Len(r.body)
             s == [j \in 1..n |-> Part(k, "body", j, r.body[j])]
  <2>1. ASSUME NEW j \in 1..n PROVE s[j] \in Seq(ByteOf(k))
    <3>1. r.body[j] \in Nat /\ j \in Nat /\ s[j] = Part(k, "body", j, r.body[j])
      BY <1>1
    <3> QED
      BY <3>1, PartType DEF ByteClasses
  <2>2. BodyBytes(k, r) = Joined(s, n)
    BY <1>3 DEF BodyBytes
  <2> HIDE DEF s
  <2>3. n \in Nat
    BY <1>1
  <2> HIDE DEF n
  <2> QED
    BY <2>1, <2>2, <2>3, JoinedType
<1> QED
  BY <1>2, <1>3

\* ... and the whole of it, as a client means to send it.
LEMMA UnspoiledTypes ==
  ASSUME NEW k, NEW r, IsRequest(r)
  PROVE  Unspoiled(k, r) \in Seq(ByteOf(k))
<1> DEFINE B == ByteOf(k)
<1>1. /\ r.url \in Nat /\ r.headers \in Seq(HeaderKinds)
      /\ DOMAIN r.headers = 1..Len(r.headers) /\ Len(r.headers) \in Nat
  BY DEF IsRequest
<1>2. /\ Eol(k, r, "none") \in Seq(B) /\ Eol(k, r, "url") \in Seq(B)
      /\ Part(k, "method", 0, 2) \in Seq(B) /\ One(k, "space", "none") \in Seq(B)
      /\ Part(k, "url", 0, r.url) \in Seq(B) /\ One(k, "space", "url") \in Seq(B)
      /\ Part(k, "version", 0, 2) \in Seq(B)
  BY <1>1, EolTypes, PartType, OneType DEF ByteClasses
<1>3. Joined([h \in DOMAIN r.headers |-> HeaderBytes(k, r, h)], Len(r.headers)) \in Seq(B)
  <2> DEFINE n == Len(r.headers)
             s == [h \in DOMAIN r.headers |-> HeaderBytes(k, r, h)]
  <2>1. n \in Nat /\ \A h \in 1..n : s[h] \in Seq(B)
    BY <1>1, HeaderTypes
  <2> HIDE DEF n, s
  <2>2. Joined(s, n) \in Seq(B)
    BY <2>1, JoinedType
  <2> QED
    BY <2>2 DEF n, s
<1>4. BodyBytes(k, r) \in Seq(B)
  BY BodyTypes
<1>5. <<>> \in Seq(B) /\ \A a, b \in Seq(B) : a \o b \in Seq(B)
  OBVIOUS
<1> HIDE DEF B
<1>6. Unspoiled(k, r) \in Seq(B)
  BY <1>2, <1>3, <1>4, <1>5 DEF Unspoiled
<1> QED
  BY <1>6 DEF B

\* What it sends is as long, and of the same request.
LEMMA RequestTypes ==
  ASSUME NEW k, NEW r, IsRequest(r)
  PROVE  Bytes(k, r) \in Seq(ByteOf(k))
<1> DEFINE B == ByteOf(k)
           s == Unspoiled(k, r)
           spoiled == [i \in DOMAIN s |-> IF i = r.bad THEN [s[i] EXCEPT !.class = "bad"] ELSE s[i]]
<1>1. ASSUME NEW b \in B PROVE [b EXCEPT !.class = "bad"] \in B
  BY DEF ByteOf, ByteClasses
<1>2. Bytes(k, r) = spoiled
  BY DEF Bytes
<1>3. s \in Seq(B)
  BY UnspoiledTypes
<1> HIDE DEF B, s
<1>4. Len(s) \in Nat /\ DOMAIN s = 1..Len(s)
  BY <1>3
<1>5. \A i \in 1..Len(s) : spoiled[i] \in B
  BY <1>1, <1>3, <1>4
<1>6. spoiled \in Seq(B)
  BY <1>4, <1>5
<1> QED
  BY <1>2, <1>6 DEF B

---------------------------------------------------------------------------
(* The state of the parser.                                                *)

\* What is on its way are bytes of the requests.
SentBytes == UNION {ByteOf(k) : k \in DOMAIN requests}
Stream == requests \in Seq(RequestSet) /\ inFlight \in Seq(SentBytes)

\* More than the buffer can take back is only left behind by a process that ended.
Reads ==
  /\ reading \in BOOLEAN /\ first \in BOOLEAN
  /\ ahead \in Nat \cup {Unknown} /\ (ahead > CheapPrepend => status = "terminated")
  /\ status \in {"open", "closing", "terminated"}

\* The length of a body or chunk is known, and not used up, while it is counted
\* down.
Counts ==
  /\ remaining \in Nat \cup {Unknown}
  /\ state \in {"s_chunk_size", "s_chunk_size_almost_done"} => remaining \in Nat
  /\ state \in {"s_body_identity", "s_chunk_data"} => remaining > 0
  /\ state = "s_chunk_data_almost_done" => remaining = 0

Seen ==
  /\ header \in HeaderKinds
  /\ flags \subseteq {"upgrade", "switch", "close", "chunked", "trailing", "0.9"}
  /\ upgraded \in BOOLEAN

\* The next byte is one of a request that was sent.
LEMMA NextByte ==
  ASSUME Stream, inFlight # <<>>
  PROVE  /\ Byte.req \in DOMAIN requests /\ Byte.i \in Nat
         /\ Class = "name" => Byte.kind \in HeaderKinds
         /\ Tail(inFlight) \in Seq(SentBytes)
<1> DEFINE S == SentBytes
           b == Head(inFlight)
<1>1. b \in S /\ Tail(inFlight) \in Seq(S)
  <2>1. inFlight \in Seq(S)
    BY DEF Stream
  <2> HIDE DEF S
  <2> QED
    BY <2>1
<1>2. PICK k \in DOMAIN requests : b \in ByteOf(k)
  BY <1>1 DEF SentBytes
<1> HIDE DEF b
<1>3. b.req = k /\ b.i \in Nat /\ (b.class = "name" => b.kind \in HeaderKinds)
  BY <1>2 DEF ByteOf
<1> QED
  BY <1>1, <1>3 DEF Byte, Class, b

\* Taking a byte leaves bytes of the requests, and one less of the read.
LEMMA AdvanceStream ==
  ASSUME Stream, Reads, inFlight # <<>>, ahead # 0, Advance
  PROVE  /\ Stream' /\ requests' = requests
         /\ reading' \in BOOLEAN /\ first' \in BOOLEAN
         /\ ahead' \in Nat \cup {Unknown} /\ (ahead' > CheapPrepend => status = "terminated")
<1>1. requests' = requests /\ inFlight' = Tail(inFlight)
  BY DEF Advance
<1>2. Stream'
  BY <1>1, NextByte DEF Stream, SentBytes
<1>3. ahead' \in Nat \cup {Unknown} /\ (ahead' > CheapPrepend => status = "terminated")
  BY HttpAssumption DEF Advance, Reads, Unknown
<1> QED
  BY <1>1, <1>2, <1>3 DEF Advance, Reads

LEMMA Proceeds ==
  ASSUME Stream, Reads, NEW s, Takes(s), Advance, UNCHANGED status
  PROVE  Stream' /\ Reads'
BY AdvanceStream DEF Takes, Reads

\* The end of a request leaves the parser at the beginning of one.
LEMMA CompleteStream ==
  ASSUME Stream, Reads, inFlight # <<>>, ahead # 0, status = "open", upgraded \in BOOLEAN,
         NEW q, NEW fs, Complete(q, fs)
  PROVE  Stream' /\ Reads' /\ upgraded' \in BOOLEAN /\ state' \in {"s_start_req", "s_dead"}
<1>1. state' \in {"s_start_req", "s_dead"}
  BY DEF Complete, Goto, NewMessage
<1>2. CASE Upgrades(fs)
  <2>1. /\ inFlight' = Tail(inFlight) /\ requests' = requests /\ reading' = reading
        /\ upgraded' \in {upgraded, TRUE}
    BY <1>2 DEF Complete
  <2>2. Stream'
    BY <2>1, NextByte DEF Stream, SentBytes
  <2>3. PICK n \in (IF ahead = Unknown THEN 0..(Len(inFlight) - 1) ELSE {ahead - 1}) : Return(n)
    BY <1>2 DEF Complete
  <2>4. n \in Nat
    BY <2>3 DEF Reads, Unknown
  <2>5. Reads'
    <3>1. /\ ahead' = n /\ first' = TRUE
          /\ status' = IF n > CheapPrepend THEN "terminated" ELSE status
      BY <2>3 DEF Return
    <3>2. status' \in {"open", "terminated"} /\ (ahead' > CheapPrepend => status' = "terminated")
      BY <3>1
    <3> QED
      BY <2>1, <2>4, <3>1, <3>2 DEF Reads
  <2> QED
    BY <1>1, <2>1, <2>2, <2>5
<1>3. CASE ~Upgrades(fs)
  <2>1. Advance /\ upgraded' = upgraded /\ status' = status
    BY <1>3 DEF Complete
  <2>2. Stream' /\ Reads'
    BY <2>1, AdvanceStream DEF Reads
  <2> QED
    BY <1>1, <2>1, <2>2
<1> QED
  BY <1>2, <1>3

\* After its headers a request is complete, or a body of some length follows.
LEMMA FinishStream ==
  ASSUME Stream, Reads, inFlight # <<>>, ahead # 0, status = "open", upgraded \in BOOLEAN,
         NEW q, NEW fs, FinishHeaders(q, fs)
  PROVE  /\ Stream' /\ Reads' /\ upgraded' \in BOOLEAN
         /\ \/ state' \in {"s_start_req", "s_dead", "s_chunk_size_start"}
            \/ state' = "s_body_identity" /\ ~NoBody
<1> DEFINE r == OnHeadersComplete(q, fs)
<1>1. \/ Complete(q, fs)
      \/ Complete(r, fs)
      \/ /\ state' = (IF "chunked" \in fs THEN "s_chunk_size_start" ELSE "s_body_identity")
         /\ ~("trailing" \notin fs /\ "chunked" \notin fs /\ NoBody)
         /\ "trailing" \notin fs
         /\ Advance /\ upgraded' = upgraded /\ status' = status
  BY DEF FinishHeaders, Goto
<1>2. CASE Complete(q, fs)
  BY <1>2, CompleteStream
<1>3. CASE Complete(r, fs)
  BY <1>3, CompleteStream
<1>4. CASE /\ state' = (IF "chunked" \in fs THEN "s_chunk_size_start" ELSE "s_body_identity")
           /\ ~("trailing" \notin fs /\ "chunked" \notin fs /\ NoBody)
           /\ "trailing" \notin fs
           /\ Advance /\ upgraded' = upgraded /\ status' = status
  <2>1. Stream' /\ Reads'
    BY <1>4, AdvanceStream DEF Reads
  <2> QED
    BY <1>4, <2>1
<1> QED
  BY <1>1, <1>2, <1>3, <1>4

\* The step of each state keeps the bytes, the counts and what was seen.
LEMMA TypesStep ==
  ASSUME Stream, Reads, Counts, Seen, HttpNext
  PROVE  Stream' /\ Reads' /\ Counts' /\ Seen'
<1>1. CASE BlankLine
  <2>1. PICK s : Takes(s) /\ Advance /\ UNCHANGED status
    BY <1>1 DEF BlankLine, handler
  <2>2. Stream' /\ Reads'
    BY <2>1, Proceeds
  <2>3. Counts'
    BY <1>1 DEF BlankLine, Counts, Takes, Goto, parser, Unknown
  <2>4. Seen'
    BY <1>1 DEF BlankLine, Seen, Takes, Goto, parser, handler
  <2> QED
    BY <2>2, <2>3, <2>4
<1>2. CASE StartReq
  <2>1. PICK s : Takes(s) /\ Advance /\ UNCHANGED status
    BY <1>2 DEF StartReq, handler
  <2>2. Stream' /\ Reads'
    BY <2>1, Proceeds
  <2>3. Counts'
    BY <1>2 DEF StartReq, Counts, Takes, Goto, parser, Unknown
  <2>4. Seen'
    BY <1>2 DEF StartReq, Seen, Takes, Goto, parser, handler
  <2> QED
    BY <2>2, <2>3, <2>4
<1>3. CASE ReqMethod
  <2>1. PICK s : Takes(s) /\ Advance /\ UNCHANGED status
    BY <1>3 DEF ReqMethod, handler
  <2>2. Stream' /\ Reads'
    BY <2>1, Proceeds
  <2>3. Counts'
    BY <1>3 DEF ReqMethod, Counts, Takes, Goto, parser, Unknown
  <2>4. Seen'
    BY <1>3 DEF ReqMethod, Seen, Takes, Goto, parser, handler
  <2> QED
    BY <2>2, <2>3, <2>4
<1>4. CASE SpacesBeforeUrl
  <2>1. PICK s : Takes(s) /\ Advance /\ UNCHANGED status
    BY <1>4 DEF SpacesBeforeUrl, handler
  <2>2. Stream' /\ Reads'
    BY <2>1, Proceeds
  <2>3. Counts'
    BY <1>4 DEF SpacesBeforeUrl, Counts, Takes, Goto, parser, Unknown
  <2>4. Seen'
    BY <1>4 DEF SpacesBeforeUrl, Seen, Takes, Goto, parser, handler
  <2> QED
    BY <2>2, <2>3, <2>4
<1>5. CASE Url
  <2>1. PICK s : Takes(s) /\ Advance /\ UNCHANGED status
    BY <1>5 DEF Url, handler
  <2>2. Stream' /\ Reads'
    BY <2>1, Proceeds
  <2>3. Counts'
    BY <1>5 DEF Url, Counts, Takes, Goto, parser, Unknown, Accepts
  <2>4. Seen'
    BY <1>5 DEF Url, Seen, Takes, Goto, parser, handler
  <2> QED
    BY <2>2, <2>3, <2>4
<1>6. CASE Version
  <2>1. PICK s : Takes(s) /\ Advance /\ UNCHANGED status
    BY <1>6 DEF Version, handler
  <2>2. Stream' /\ Reads'
    BY <2>1, Proceeds
  <2>3. Counts'
    BY <1>6 DEF Version, Counts, Takes, Goto, parser, Unknown, Accepts
  <2>4. Seen'
    BY <1>6 DEF Version, Seen, Takes, Goto, parser, handler
  <2> QED
    BY <2>2, <2>3, <2>4
<1>7. CASE ReqLineAlmostDone
  <2>1. PICK s : Takes(s) /\ Advance /\ UNCHANGED status
    BY <1>7 DEF ReqLineAlmostDone, handler
  <2>2. Stream' /\ Reads'
    BY <2>1, Proceeds
  <2>3. Counts'
    BY <1>7 DEF ReqLineAlmostDone, Counts, Takes, Goto, parser, Unknown
  <2>4. Seen'
    BY <1>7 DEF ReqLineAlmostDone, Seen, Takes, Goto, parser, handler
  <2> QED
    BY <2>2, <2>3, <2>4
<1>8. CASE HeaderFieldStart
  <2>1. PICK s : Takes(s) /\ Advance /\ UNCHANGED status
    BY <1>8 DEF HeaderFieldStart, AfterHeader
  <2>2. Stream' /\ Reads'
    BY <2>1, Proceeds
  <2>3. Counts'
    BY <1>8 DEF HeaderFieldStart, Counts, Goto
  <2>4. header' \in HeaderKinds
    <3>1. Class = "name" /\ header' = Byte.kind
      BY <1>8 DEF HeaderFieldStart
    <3>2. inFlight # <<>>
      BY <2>1 DEF Takes
    <3> QED
      BY <3>1, <3>2, NextByte
  <2>5. Seen'
    BY <1>8, <2>4 DEF HeaderFieldStart, FlagsThen, Seen
  <2> QED
    BY <2>2, <2>3, <2>5
<1>9. CASE HeaderField
  <2>1. PICK s : Takes(s) /\ Advance /\ UNCHANGED status
    BY <1>9 DEF HeaderField, handler
  <2>2. Stream' /\ Reads'
    BY <2>1, Proceeds
  <2>3. Counts'
    BY <1>9 DEF HeaderField, Counts, Takes, Goto, parser, Unknown
  <2>4. Seen'
    BY <1>9 DEF HeaderField, Seen, Takes, Goto, parser, handler
  <2> QED
    BY <2>2, <2>3, <2>4
<1>10. CASE DiscardWs
  <2>1. PICK s : Takes(s) /\ Advance /\ UNCHANGED status
    BY <1>10 DEF DiscardWs, handler
  <2>2. Stream' /\ Reads'
    BY <2>1, Proceeds
  <2>3. Counts'
    BY <1>10 DEF DiscardWs, Counts, Takes, Goto, parser, Unknown, Accepts
  <2>4. Seen'
    BY <1>10 DEF DiscardWs, Seen, Takes, Goto, parser, handler
  <2> QED
    BY <2>2, <2>3, <2>4
<1>11. CASE HeaderValueStart
  <2>1. PICK s : Takes(s) /\ Advance /\ UNCHANGED status
    BY <1>11 DEF HeaderValueStart, handler
  <2>2. Stream' /\ Reads'
    BY <2>1, Proceeds
  <2>3. ContentLength(Byte.req) \in Nat
    <3>1. Byte.req \in DOMAIN requests
      BY <2>1, NextByte DEF Takes
    <3>2. requests[Byte.req] \in RequestSet
      BY <3>1 DEF Stream
    <3>3. requests[Byte.req].body \in Seq(Nat \ {0})
      BY <3>2, HttpAssumption DEF IsRequest
    <3> QED
      BY <3>3 DEF ContentLength
  <2>4. Counts'
    BY <1>11, <2>3 DEF HeaderValueStart, Counts, Goto
  <2>5. Seen'
    BY <1>11 DEF HeaderValueStart, Seen, handler
  <2> QED
    BY <2>2, <2>4, <2>5
<1>12. CASE HeaderValue
  <2>1. PICK s : Takes(s) /\ Advance /\ UNCHANGED status
    BY <1>12 DEF HeaderValue, handler
  <2>2. Stream' /\ Reads'
    BY <2>1, Proceeds
  <2>3. Counts'
    BY <1>12 DEF HeaderValue, Counts, Takes, Goto, parser, Unknown
  <2>4. Seen'
    BY <1>12 DEF HeaderValue, Seen, Takes, Goto, parser, handler
  <2> QED
    BY <2>2, <2>3, <2>4
<1>13. CASE HeaderAlmostDone
  <2>1. PICK s : Takes(s) /\ Advance /\ UNCHANGED status
    BY <1>13 DEF HeaderAlmostDone, handler
  <2>2. Stream' /\ Reads'
    BY <2>1, Proceeds
  <2>3. Counts'
    BY <1>13 DEF HeaderAlmostDone, Counts, Takes, Goto, parser, Unknown
  <2>4. Seen'
    BY <1>13 DEF HeaderAlmostDone, Seen, Takes, Goto, parser, handler
  <2> QED
    BY <2>2, <2>3, <2>4
<1>14. CASE EndOfHeaders
  <2>1. /\ AfterHeader /\ flags' = FlagsThen /\ header' = header /\ remaining' = remaining
    BY <1>14 DEF EndOfHeaders
  <2>2. PICK s : Takes(s)
    BY <2>1 DEF AfterHeader
  <2>3. /\ inFlight # <<>> /\ ahead # 0 /\ status = "open" /\ upgraded \in BOOLEAN
    BY <2>2 DEF Takes, Seen
  <2>4. CASE Class = "cr"
    <3>1. /\ Advance /\ state' = "s_headers_almost_done"
          /\ upgraded' = upgraded /\ status' = status
      BY <1>14, <2>4 DEF EndOfHeaders, Goto
    <3>2. Stream' /\ Reads'
      BY <2>2, <3>1, Proceeds
    <3>3. Counts' /\ Seen'
      BY <2>1, <3>1 DEF Counts, Seen, FlagsThen
    <3> QED
      BY <3>2, <3>3
  <2>5. CASE Class # "cr"
    <3>1. FinishHeaders(CodecThen, FlagsThen)
      BY <1>14, <2>5 DEF EndOfHeaders
    <3>2. /\ Stream' /\ Reads' /\ upgraded' \in BOOLEAN
          /\ \/ state' \in {"s_start_req", "s_dead", "s_chunk_size_start"}
             \/ state' = "s_body_identity" /\ ~NoBody
      BY <2>3, <3>1, FinishStream
    <3>3. Counts'
      BY <2>1, <3>2 DEF Counts, NoBody, Unknown
    <3>4. Seen'
      BY <2>1, <3>2 DEF Seen, FlagsThen
    <3> QED
      BY <3>2, <3>3, <3>4
  <2> QED
    BY <2>4, <2>5
<1>15. CASE HeadersAlmostDone
  <2>1. /\ FinishHeaders(codec, flags) /\ header' = header /\ flags' = flags
        /\ remaining' = remaining
        /\ inFlight # <<>> /\ ahead # 0 /\ status = "open" /\ upgraded \in BOOLEAN
    BY <1>15 DEF HeadersAlmostDone, Takes, Seen
  <2>2. /\ Stream' /\ Reads' /\ upgraded' \in BOOLEAN
        /\ \/ state' \in {"s_start_req", "s_dead", "s_chunk_size_start"}
           \/ state' = "s_body_identity" /\ ~NoBody
    BY <2>1, FinishStream
  <2>3. Counts' /\ Seen'
    BY <2>1, <2>2 DEF Counts, Seen, NoBody, Unknown
  <2> QED
    BY <2>2, <2>3
<1>16. CASE BodyIdentity
  <2>1. /\ Takes("s_body_identity") /\ remaining' = remaining - 1
        /\ header' = header /\ flags' = flags
        /\ inFlight # <<>> /\ ahead # 0 /\ status = "open" /\ upgraded \in BOOLEAN
        /\ state = "s_body_identity"
    BY <1>16 DEF BodyIdentity, Takes, Seen
  <2>2. remaining \in Nat /\ remaining > 0
    BY <2>1 DEF Counts, Unknown
  <2>3. CASE remaining > 1
    <3>1. Advance /\ state' = state /\ upgraded' = upgraded /\ status' = status
      BY <1>16, <2>3 DEF BodyIdentity, handler
    <3>2. Stream' /\ Reads'
      BY <2>1, <3>1, Proceeds
    <3>3. Counts' /\ Seen'
      BY <2>1, <2>2, <2>3, <3>1 DEF Counts, Seen
    <3> QED
      BY <3>2, <3>3
  <2>4. CASE ~(remaining > 1)
    <3>1. Complete(OnBody(codec, Append(piece, Byte)), flags)
      BY <1>16, <2>4 DEF BodyIdentity
    <3>2. Stream' /\ Reads' /\ upgraded' \in BOOLEAN /\ state' \in {"s_start_req", "s_dead"}
      BY <2>1, <3>1, CompleteStream
    <3>3. Counts' /\ Seen'
      BY <2>1, <2>2, <3>2 DEF Counts, Seen
    <3> QED
      BY <3>2, <3>3
  <2> QED
    BY <2>3, <2>4
<1>17. CASE ChunkSize
  <2>1. PICK s : Takes(s) /\ Advance /\ UNCHANGED status
    BY <1>17 DEF ChunkSize, handler
  <2>2. Stream' /\ Reads'
    BY <2>1, Proceeds
  <2>3. Byte.i \in Nat
    BY <2>1, NextByte DEF Takes
  <2>4. Counts'
    BY <1>17, <2>3 DEF ChunkSize, Counts, Takes, Goto
  <2>5. Seen'
    BY <1>17 DEF ChunkSize, Seen, handler
  <2> QED
    BY <2>2, <2>4, <2>5
<1>18. CASE ChunkSizeAlmostDone
  <2>1. PICK s : Takes(s) /\ Advance /\ UNCHANGED status
    BY <1>18 DEF ChunkSizeAlmostDone, handler
  <2>2. Stream' /\ Reads'
    BY <2>1, Proceeds
  <2>3. Counts'
    BY <1>18 DEF ChunkSizeAlmostDone, Counts, Takes, Goto, parser, Unknown
  <2>4. Seen'
    BY <1>18 DEF ChunkSizeAlmostDone, Seen, Takes, Goto, parser, handler
  <2> QED
    BY <2>2, <2>3, <2>4
<1>19. CASE ChunkData
  <2>1. PICK s : Takes(s) /\ Advance /\ UNCHANGED status
    BY <1>19 DEF ChunkData, handler
  <2>2. Stream' /\ Reads'
    BY <2>1, Proceeds
  <2>3. Counts'
    BY <1>19 DEF ChunkData, Counts, Takes, Goto, parser, Unknown
  <2>4. Seen'
    BY <1>19 DEF ChunkData, Seen, Takes, Goto, parser, handler
  <2> QED
    BY <2>2, <2>3, <2>4
<1>20. CASE ChunkDataDone
  <2>1. PICK s : Takes(s) /\ Advance /\ UNCHANGED status
    BY <1>20 DEF ChunkDataDone, handler
  <2>2. Stream' /\ Reads'
    BY <2>1, Proceeds
  <2>3. Counts'
    BY <1>20 DEF ChunkDataDone, Counts, Takes, Goto, parser, Unknown
  <2>4. Seen'
    BY <1>20 DEF ChunkDataDone, Seen, Takes, Goto, parser, handler
  <2> QED
    BY <2>2, <2>3, <2>4
<1>21. CASE Read
  <2>1. Stream'
    BY <1>21 DEF Read, Stream, SentBytes
  <2>2. Reads'
    BY <1>21, HttpAssumption DEF Read, Reads, handler, Unknown
  <2>3. Counts' /\ Seen'
    BY <1>21 DEF Read, Counts, Seen, parser, handler
  <2> QED
    BY <2>1, <2>2, <2>3
<1>22. CASE EndOfRead
  <2>1. Stream'
    BY <1>22 DEF EndOfRead, Stream, SentBytes
  <2>2. Reads'
    <3>1. /\ reading' = FALSE /\ first' = TRUE /\ ahead' = Unknown /\ status' = status
      BY <1>22 DEF EndOfRead
    <3>2. ~(Unknown > CheapPrepend)
      BY HttpAssumption DEF Unknown
    <3> QED
      BY <3>1, <3>2 DEF Reads
  <2>3. Counts' /\ Seen'
    BY <1>22 DEF EndOfRead, Counts, Seen, parser, handler
  <2> QED
    BY <2>1, <2>2, <2>3
<1>23. CASE Fail
  <2>1. Stream'
    BY <1>23 DEF Fail, Stream, SentBytes
  <2>2. Reads'
    BY <1>23, HttpAssumption DEF Fail, Reads, handler, Unknown
  <2>3. Counts' /\ Seen'
    BY <1>23 DEF Fail, Counts, Seen, parser, handler
  <2> QED
    BY <2>1, <2>2, <2>3
<1> QED
  BY <1>1, <1>2, <1>3, <1>4, <1>5, <1>6, <1>7, <1>8, <1>9, <1>10, <1>11, <1>12, <1>13, <1>14, <1>15, <1>16, <1>17, <1>18, <1>19, <1>20, <1>21, <1>22, <1>23 DEF HttpNext

\* At first nothing has been parsed of the requests' bytes.
LEMMA TypesInit == HttpInit => Stream /\ Reads /\ Counts /\ Seen
<1> SUFFICES ASSUME HttpInit PROVE Stream /\ Reads /\ Counts /\ Seen
  OBVIOUS
<1> DEFINE n == Len(requests)
           s == [k \in DOMAIN requests |-> Bytes(k, requests[k])]
           B == SentBytes
<1>1. requests \in Seq(RequestSet) /\ n \in Nat /\ DOMAIN requests = 1..n
  <2>1. PICK m \in 1..MaxRequests : requests \in [1..m -> RequestSet]
    BY DEF HttpInit
  <2>2. m \in Nat
    BY <2>1, HttpAssumption
  <2> QED
    BY <2>1, <2>2
<1>2. ASSUME NEW k \in 1..n PROVE s[k] \in Seq(B)
  <2>1. k \in DOMAIN requests /\ IsRequest(requests[k])
    BY <1>1, HttpAssumption
  <2>2. s[k] = Bytes(k, requests[k]) /\ Bytes(k, requests[k]) \in Seq(ByteOf(k))
    BY <2>1, RequestTypes
  <2>3. ByteOf(k) \subseteq B
    BY <2>1 DEF SentBytes
  <2> HIDE DEF B, s
  <2> QED
    BY <2>2, <2>3
<1>3. inFlight = Joined(s, n)
  BY DEF HttpInit
<1>4. Joined(s, n) \in Seq(B)
  <2> HIDE DEF n, s, B
  <2> QED
    BY <1>1, <1>2, JoinedType
<1>5. Stream
  BY <1>1, <1>3, <1>4 DEF Stream
<1>6. Reads
  <2>1. /\ reading = FALSE /\ first = TRUE /\ ahead = Unknown /\ status = "open"
    BY DEF HttpInit
  <2>2. ~(Unknown > CheapPrepend)
    BY HttpAssumption DEF Unknown
  <2> QED
    BY <2>1, <2>2 DEF Reads
<1>7. Counts /\ Seen
  BY DEF HttpInit, Counts, Seen, Unknown, HeaderKinds
<1> QED
  BY <1>5, <1>6, <1>7

\* What the parser keeps has the types the code relies on: bytes left are those of
\* the requests, and a body or chunk it is in has bytes missing.
THEOREM HttpTypes == HttpSpec => []HttpTypeOK
<1> DEFINE Inv == Stream /\ Reads /\ Counts /\ Seen
<1>1. HttpInit => Inv
  BY TypesInit
<1>2. Inv /\ [HttpNext]_httpVars => Inv'
  <2>1. CASE HttpNext
    BY <2>1, TypesStep
  <2>2. CASE UNCHANGED httpVars
    BY <2>2 DEF httpVars, parser, marks, handler, Stream, SentBytes, Reads, Counts, Seen
  <2> QED
    BY <2>1, <2>2
<1>3. Inv /\ MarksInPlace => HttpTypeOK
  <2> SUFFICES ASSUME Inv, MarksInPlace PROVE HttpTypeOK
    OBVIOUS
  <2>1. \A k \in DOMAIN requests : requests[k] \in RequestSet
    BY DEF Stream
  <2>2. ASSUME NEW j \in DOMAIN inFlight PROVE inFlight[j].req \in DOMAIN requests
    <3>1. inFlight[j] \in SentBytes
      <4> DEFINE S == SentBytes
      <4>1. inFlight \in Seq(S)
        BY DEF Stream
      <4> HIDE DEF S
      <4>2. inFlight[j] \in S
        BY <4>1
      <4> QED
        BY <4>2 DEF S
    <3>2. PICK k \in DOMAIN requests : inFlight[j] \in ByteOf(k)
      BY <3>1 DEF SentBytes
    <3> QED
      BY <3>2 DEF ByteOf
  <2> QED
    BY <2>1, <2>2 DEF HttpTypeOK, Reads, Counts, Seen
<1> QED
  BY <1>1, <1>2, <1>3, MarksStayInPlace, PTL DEF HttpSpec

---------------------------------------------------------------------------
(* What is still to come, request by request.  rs are the requests, k is   *)
(* the number of one.                                                      *)

\* s[j + 1] \o ... \o s[n]
Onward(s, j, n) == Joined([i \in 1..(n - j) |-> s[i + j]], n - j)

Cons(b, s) == << b >> \o s

PieceByte(k, class, part, i) == [class |-> class, kind |-> "none", req |-> k, part |-> part, i |-> i]
SingleByte(k, class, kind) == [class |-> class, kind |-> kind, req |-> k, part |-> 0, i |-> 1]
NameByte(k, kind, i) == [class |-> "name", kind |-> kind, req |-> k, part |-> 0, i |-> i]

\* The bytes of a piece behind the i-th of n, then s.
PieceOn(k, class, part, i, n, s) ==
  [j \in 1..(n - i) |-> PieceByte(k, class, part, i + j)] \o s

LfOn(k, s) == Cons(SingleByte(k, "lf", "none"), s)
EolOn(rs, k, kind, s) ==
  IF rs[k].eol = "crlf" THEN Cons(SingleByte(k, "cr", kind), LfOn(k, s))
  ELSE Cons(SingleByte(k, "lf", kind), s)
SpaceOn(k, s) == Cons(SingleByte(k, "space", "none"), s)

\* Behind request k.
RestOn(rs, k) == Onward([j \in DOMAIN rs |-> Unspoiled(j, rs[j])], k, Len(rs))

\* Its body; behind its j-th chunk; behind the size of the next one, which is 0 for the
\* last chunk; behind the i-th byte of that chunk; behind all of its bytes.
BodyOn(rs, k) == BodyBytes(k, rs[k]) \o RestOn(rs, k)
ChunksOn(rs, k, j) ==
  Onward([x \in 1..(Len(rs[k].body) + 1) |-> ChunkBytes(k, rs[k], x)], j, Len(rs[k].body) + 1)
  \o RestOn(rs, k)
SizeOf(rs, k, j) == IF j = Len(rs[k].body) THEN 0 ELSE rs[k].body[j + 1]
DataEndOn(rs, k, j) == EolOn(rs, k, "none", ChunksOn(rs, k, j + 1))
DataOn(rs, k, j, i) ==
  PieceOn(k, "body", j + 1, i, rs[k].body[j + 1], DataEndOn(rs, k, j))
SizeEndOn(rs, k, j) ==
  IF j = Len(rs[k].body) THEN EolOn(rs, k, "none", RestOn(rs, k)) ELSE DataOn(rs, k, j, 0)

\* Behind its h-th header; behind the value of that header, the first byte of the value,
\* the whitespace before it; the continuation line of a folded value; behind the colon.
HeadersOn(rs, k, h) ==
  Onward([x \in DOMAIN rs[k].headers |-> HeaderBytes(k, rs[k], x)], h, Len(rs[k].headers))
  \o EolOn(rs, k, "none", BodyOn(rs, k))
LineEndOn(rs, k, h) == EolOn(rs, k, "none", HeadersOn(rs, k, h))
SecondOn(rs, k, h) == Cons(PieceByte(k, "value", h, 2), LineEndOn(rs, k, h))
BothOn(rs, k, h) == Cons(PieceByte(k, "value", h, 1), SecondOn(rs, k, h))
FoldOn(rs, k, h) == SpaceOn(k, SecondOn(rs, k, h))
LateOn(rs, k, h) == SpaceOn(k, BothOn(rs, k, h))
ValueOn(rs, k, h) ==
  CASE rs[k].headers[h] = "empty" -> LineEndOn(rs, k, h)
    [] rs[k].headers[h] = "late" -> EolOn(rs, k, "none", LateOn(rs, k, h))
    [] rs[k].headers[h] = "folded" ->
         Cons(PieceByte(k, "value", h, 1), EolOn(rs, k, "none", FoldOn(rs, k, h)))
    [] OTHER -> LateOn(rs, k, h)
ColonOn(rs, k, h) == Cons(SingleByte(k, "colon", "none"), ValueOn(rs, k, h))
NameOn(rs, k, h) == Cons(NameByte(k, rs[k].headers[h], 2), ColonOn(rs, k, h))

\* Behind the first byte of the version; its version; behind its URL; behind the i-th
\* byte of that; behind the method; behind its first byte; its request line.
MinorOn(rs, k) == Cons(PieceByte(k, "version", 0, 2), LineEndOn(rs, k, 0))
VersionOn(rs, k) == Cons(PieceByte(k, "version", 0, 1), MinorOn(rs, k))
UrlEndOn(rs, k) ==
  IF rs[k].version THEN Cons(SingleByte(k, "space", "url"), VersionOn(rs, k))
  ELSE EolOn(rs, k, "url", HeadersOn(rs, k, 0))
UrlOn(rs, k, i) == PieceOn(k, "url", 0, i, rs[k].url, UrlEndOn(rs, k))
MethodEndOn(rs, k) == SpaceOn(k, UrlOn(rs, k, 0))
MethodOn(rs, k) == Cons(PieceByte(k, "method", 0, 2), MethodEndOn(rs, k))
LineOn(rs, k) == Cons(PieceByte(k, "method", 0, 1), MethodOn(rs, k))

---------------------------------------------------------------------------
(* Where the parser is in request k: g is still to come, h is the header   *)
(* or the number of chunks, i how much of the piece has been parsed.       *)

FlagsOfLine(rs, k) == IF rs[k].version THEN {} ELSE {"0.9"}

\* The flags and the length that the first h headers set.
FlagsTo(rs, k, h) ==
  FlagsOfLine(rs, k)
  \cup ({rs[k].headers[x] : x \in 1..h} \cap {"upgrade", "switch", "close", "chunked"})
LengthTo(rs, k, h) ==
  IF \E x \in 1..h : rs[k].headers[x] = "length"
  THEN IF rs[k].body = <<>> THEN 0 ELSE rs[k].body[1]
  ELSE Unknown

Kind(rs, k, h) == rs[k].headers[h]
NumHeaders(rs, k) == Len(rs[k].headers)
HasChunks(rs, k) == HasHeader(rs[k], "chunked")

AtStart(rs, k, g) ==
  \/ g = RestOn(rs, k - 1)
  \/ k <= Len(rs) /\ (g = LfOn(k, LineOn(rs, k)) \/ g = LineOn(rs, k))

AtMethod(rs, k, g) == g = MethodOn(rs, k) \/ g = MethodEndOn(rs, k)

AtUrl(rs, k, i, g) == i \in 1..rs[k].url /\ g = UrlOn(rs, k, i)

\* Before the first header, or behind the chunks.
AtHeaders(rs, k, g, fl, rem) ==
  \/ fl = FlagsTo(rs, k, 0) /\ rem = Unknown /\ g = HeadersOn(rs, k, 0)
  \/ fl = FlagsTo(rs, k, NumHeaders(rs, k)) \cup {"trailing"}
     /\ g = EolOn(rs, k, "none", RestOn(rs, k))

AtName(rs, k, h, i, g) ==
  \/ i = 1 /\ g = NameOn(rs, k, h)
  \/ i = 2 /\ g = ColonOn(rs, k, h)

\* In header h, the value of which has not begun; in its value, of which i bytes have
\* been parsed.
InHeader(rs, k, h, hd, fl, rem) ==
  /\ h \in 1..NumHeaders(rs, k) /\ hd = Kind(rs, k, h)
  /\ fl = FlagsTo(rs, k, h - 1) /\ rem = LengthTo(rs, k, h - 1)
InValue(rs, k, h, i, hd, fl, rem) ==
  /\ h \in 1..NumHeaders(rs, k) /\ hd = Kind(rs, k, h) /\ hd # "empty" /\ i \in {1, 2, 3}
  /\ fl = FlagsTo(rs, k, h - 1) \cup ({hd} \cap {"upgrade"}) /\ rem = LengthTo(rs, k, h)
ValueLength(rs, k, h) == IF Kind(rs, k, h) = "folded" THEN 3 ELSE 2

AtValue(rs, k, h, i, g) ==
  \/ i = ValueLength(rs, k, h) /\ g = LineEndOn(rs, k, h)
  \/ i = ValueLength(rs, k, h) - 1 /\ g = SecondOn(rs, k, h)
  \/ i = 1 /\ Kind(rs, k, h) = "folded" /\ g = EolOn(rs, k, "none", FoldOn(rs, k, h))

\* Behind a line of the value: s is the line behind it.
AtValueEnd(rs, k, h, i, s) ==
  \/ i = ValueLength(rs, k, h) /\ s = HeadersOn(rs, k, h)
  \/ i = 1 /\ Kind(rs, k, h) = "folded" /\ s = FoldOn(rs, k, h)
AtNoValue(rs, k, h, s) ==
  \/ Kind(rs, k, h) = "empty" /\ s = HeadersOn(rs, k, h)
  \/ Kind(rs, k, h) = "late" /\ s = LateOn(rs, k, h)

AtDiscard(rs, k, h, g) ==
  \/ g = ValueOn(rs, k, h)
  \/ Kind(rs, k, h) \notin {"empty", "folded"} /\ g = BothOn(rs, k, h)

AllFlags(rs, k) == FlagsTo(rs, k, NumHeaders(rs, k))

AtBlankLine(rs, k, g, fl, rem) ==
  \/ /\ fl = AllFlags(rs, k) /\ rem = LengthTo(rs, k, NumHeaders(rs, k))
     /\ g = LfOn(k, BodyOn(rs, k))
  \/ fl = AllFlags(rs, k) \cup {"trailing"} /\ g = LfOn(k, RestOn(rs, k))

AtBody(rs, k, i, g, rem) ==
  /\ ~HasChunks(rs, k) /\ Len(rs[k].body) = 1
  /\ i \in 0..(rs[k].body[1] - 1) /\ rem = rs[k].body[1] - i
  /\ g = PieceOn(k, "body", 1, i, rs[k].body[1], RestOn(rs, k))

InChunks(rs, k, j, fl) ==
  /\ HasChunks(rs, k) /\ j \in 0..Len(rs[k].body) /\ fl = AllFlags(rs, k)

SizeByte(k, n) == PieceByte(k, "size", 0, n)
AtSize(rs, k, j, g, rem) ==
  \/ rem = 0 /\ g = Cons(SizeByte(k, SizeOf(rs, k, j)), EolOn(rs, k, "none", SizeEndOn(rs, k, j)))
  \/ rem = SizeOf(rs, k, j) /\ g = EolOn(rs, k, "none", SizeEndOn(rs, k, j))

AtData(rs, k, j, i, g, rem) ==
  /\ j < Len(rs[k].body) /\ i \in 0..(rs[k].body[j + 1] - 1)
  /\ rem = rs[k].body[j + 1] - i /\ g = DataOn(rs, k, j, i)

\* The place of the parser in state st, with header, flags and remaining.
Located(st, rs, k, h, i, g, hd, fl, rem) ==
  /\ st \in {"s_start_req", "s_dead"} =>
       AtStart(rs, k, g)
  /\ st = "s_req_method" =>
       fl = {} /\ rem = Unknown /\ AtMethod(rs, k, g)
  /\ st = "s_req_spaces_before_url" =>
       fl = {} /\ rem = Unknown /\ g = UrlOn(rs, k, 0)
  /\ st = "s_req_url" =>
       fl = {} /\ rem = Unknown /\ AtUrl(rs, k, i, g)
  /\ st = "s_req_http_start" =>
       fl = {} /\ rem = Unknown /\ rs[k].version /\ g = VersionOn(rs, k)
  /\ st = "s_req_first_http_minor" =>
       fl = {} /\ rem = Unknown /\ rs[k].version /\ g = MinorOn(rs, k)
  /\ st = "s_req_http_minor" =>
       fl = {} /\ rem = Unknown /\ rs[k].version /\ g = LineEndOn(rs, k, 0)
  /\ st = "s_req_line_almost_done" =>
       fl = FlagsOfLine(rs, k) /\ rem = Unknown /\ g = LfOn(k, HeadersOn(rs, k, 0))
  /\ st = "s_header_field_start" =>
       AtHeaders(rs, k, g, fl, rem)
  /\ st = "s_header_field" =>
       InHeader(rs, k, h, hd, fl, rem) /\ AtName(rs, k, h, i, g)
  /\ st = "s_header_value_discard_ws" =>
       InHeader(rs, k, h, hd, fl, rem) /\ AtDiscard(rs, k, h, g)
  /\ st = "s_header_value_discard_ws_almost_done" =>
       InHeader(rs, k, h, hd, fl, rem) /\ \E s : AtNoValue(rs, k, h, s) /\ g = LfOn(k, s)
  /\ st = "s_header_value_discard_lws" =>
       InHeader(rs, k, h, hd, fl, rem) /\ AtNoValue(rs, k, h, g)
  /\ st = "s_header_value" =>
       InValue(rs, k, h, i, hd, fl, rem) /\ AtValue(rs, k, h, i, g)
  /\ st = "s_header_almost_done" =>
       InValue(rs, k, h, i, hd, fl, rem) /\ \E s : AtValueEnd(rs, k, h, i, s) /\ g = LfOn(k, s)
  /\ st = "s_header_value_lws" =>
       InValue(rs, k, h, i, hd, fl, rem) /\ AtValueEnd(rs, k, h, i, g)
  /\ st = "s_headers_almost_done" =>
       AtBlankLine(rs, k, g, fl, rem)
  /\ st = "s_body_identity" =>
       fl = AllFlags(rs, k) /\ AtBody(rs, k, i, g, rem)
  /\ st = "s_chunk_size_start" =>
       InChunks(rs, k, h, fl) /\ g = ChunksOn(rs, k, h)
  /\ st = "s_chunk_size" =>
       InChunks(rs, k, h, fl) /\ AtSize(rs, k, h, g, rem)
  /\ st = "s_chunk_size_almost_done" =>
       InChunks(rs, k, h, fl) /\ rem = SizeOf(rs, k, h) /\ g = LfOn(k, SizeEndOn(rs, k, h))
  /\ st = "s_chunk_data" =>
       InChunks(rs, k, h, fl) /\ AtData(rs, k, h, i, g, rem)
  /\ st = "s_chunk_data_almost_done" =>
       InChunks(rs, k, h, fl) /\ h < Len(rs[k].body) /\ g = DataEndOn(rs, k, h)
  /\ st = "s_chunk_data_done" =>
       InChunks(rs, k, h, fl) /\ h < Len(rs[k].body) /\ g = LfOn(k, ChunksOn(rs, k, h + 1))

States ==
  {"s_dead", "s_start_req", "s_req_method", "s_req_spaces_before_url", "s_req_url",
   "s_req_http_start", "s_req_first_http_minor", "s_req_http_minor", "s_req_line_almost_done",
   "s_header_field_start", "s_header_field", "s_header_value_discard_ws",
   "s_header_value_discard_ws_almost_done", "s_header_value_discard_lws", "s_header_value",
   "s_header_almost_done", "s_header_value_lws", "s_headers_almost_done", "s_body_identity",
   "s_chunk_size_start", "s_chunk_size", "s_chunk_size_almost_done", "s_chunk_data",
   "s_chunk_data_almost_done", "s_chunk_data_done"}

\* s is g, some bytes of which are spoiled.
Covers(s, g) ==
  /\ DOMAIN s = DOMAIN g
  /\ \A x \in DOMAIN g : s[x] \in {g[x], [g[x] EXCEPT !.class = "bad"]}
---------------------------------------------------------------------------
(* Sequences that continue.                                                *)

\* Continuing with nothing, and with a continuation.
LEMMA Continues ==
  ASSUME NEW B, NEW a \in Seq(B), NEW b \in Seq(B), NEW c \in Seq(B)
  PROVE  (a \o b) \o c = a \o (b \o c) /\ a \o <<>> = a /\ <<>> \o a = a /\ a \o b \in Seq(B)
OBVIOUS

Concatenates(Q) == \A t, u, v \in Q : t \o u \in Q /\ (t \o u) \o v = t \o (u \o v)

LEMMA Concatenations == ASSUME NEW B PROVE Concatenates(Seq(B))
BY DEF Concatenates

\* A byte, then the rest.
LEMMA ConsParts ==
  ASSUME NEW B, NEW b \in B, NEW s \in Seq(B)
  PROVE  /\ Cons(b, s) \in Seq(B) /\ Cons(b, s) # <<>>
         /\ Head(Cons(b, s)) = b /\ Tail(Cons(b, s)) = s
BY DEF Cons

\* Nothing is left behind the last sequence.
LEMMA OnwardEnd ==
  ASSUME NEW s, NEW n \in Nat
  PROVE  Onward(s, n, n) = <<>>
<1> DEFINE t == [i \in 1..(n - n) |-> s[i + n]]
<1>1. n - n = 0 /\ \A j \in 1..0 : t[j] \in Seq({})
  OBVIOUS
<1> HIDE DEF t
<1>2. PICK f : Joins(f, {}, t, 0)
  <2>1. 0 \in Nat /\ \A j \in 1..0 : t[j] \in Seq({})
    BY <1>1
  <2> QED
    BY <2>1, JoinedSteps, Zenon
<1>3. Joined(t, 0) = <<>>
  BY <1>2 DEF Joins
<1> QED
  BY <1>1, <1>3 DEF Onward, t

\* Behind the first j sequences comes the next one, and what is behind it.
LEMMA OnwardNext ==
  ASSUME NEW B, NEW n \in Nat, NEW s, \A x \in 1..n : s[x] \in Seq(B),
         NEW j \in Nat, j < n
  PROVE  Onward(s, j, n) = s[j + 1] \o Onward(s, j + 1, n)
<1> DEFINE m == n - j - 1
           t == [i \in 1..(n - j) |-> s[i + j]]
           u == [i \in 1..(n - (j + 1)) |-> s[i + (j + 1)]]
           Q == Seq(B)
<1>1. m \in Nat /\ n - j = m + 1 /\ n - (j + 1) = m
  OBVIOUS
<1>2. \A i \in 1..(m + 1) : t[i] = s[i + j] /\ t[i] \in Q
  OBVIOUS
<1>3. \A i \in 1..m : u[i] = t[i + 1] /\ u[i] \in Q
  <2> SUFFICES ASSUME NEW i \in 1..m PROVE u[i] = t[i + 1] /\ u[i] \in Q
    OBVIOUS
  <2>1. u[i] = s[i + (j + 1)] /\ i + (j + 1) = (i + 1) + j /\ i + 1 \in 1..(m + 1)
    OBVIOUS
  <2> QED
    BY <1>2, <2>1
<1>4. Onward(s, j, n) = Joined(t, m + 1) /\ Onward(s, j + 1, n) = Joined(u, m)
      /\ s[j + 1] = t[1]
  BY <1>1 DEF Onward
<1> HIDE DEF t, u, m
<1>5. PICK f : Joins(f, B, t, m + 1)
  <2>1. m + 1 \in Nat
    BY <1>1
  <2>2. \A i \in 1..(m + 1) : t[i] \in Seq(B)
    BY <1>2
  <2> QED
    BY <2>1, <2>2, JoinedSteps, Zenon
<1>6. PICK g : Joins(g, B, u, m)
  BY <1>1, <1>3, JoinedSteps
<1>7. /\ f \in [0..(m + 1) -> Q] /\ f[0] = <<>>
      /\ \A i \in 1..(m + 1) : f[i] = f[i - 1] \o t[i]
      /\ Joined(t, m + 1) = f[m + 1]
      /\ g \in [0..m -> Q] /\ g[0] = <<>>
      /\ \A i \in 1..m : g[i] = g[i - 1] \o u[i]
      /\ Joined(u, m) = g[m]
  BY <1>5, <1>6 DEF Joins
<1>8. \A a, b, c \in Q : (a \o b) \o c = a \o (b \o c) /\ a \o <<>> = a /\ <<>> \o a = a
  BY Continues
<1>9. f[m + 1] = t[1] \o g[m]
  <2> DEFINE T == {i \in 0..m : f[i + 1] = t[1] \o g[i]}
  <2> HIDE DEF Q
  <2>1. t[1] \in Q
    BY <1>1, <1>2
  <2>2. ASSUME NEW i \in 1..m, i - 1 \in T PROVE i \in T
    <3>1. i \in 0..m /\ i - 1 \in 0..m /\ i + 1 \in 1..(m + 1) /\ (i + 1) - 1 = i
          /\ (i - 1) + 1 = i
      BY <1>1
    <3>2. f[i + 1] = f[i] \o t[i + 1] /\ f[i] = t[1] \o g[i - 1] /\ t[i + 1] = u[i]
      BY <1>3, <1>7, <2>2, <3>1
    <3>3. g[i] = g[i - 1] \o u[i] /\ g[i - 1] \in Q /\ u[i] \in Q
      BY <1>3, <1>7, <3>1
    <3>4. f[i + 1] = t[1] \o g[i]
      <4>1. (t[1] \o g[i - 1]) \o u[i] = t[1] \o (g[i - 1] \o u[i])
        BY <1>8, <2>1, <3>3
      <4> QED
        BY <3>2, <3>3, <4>1
    <3> QED
      BY <3>1, <3>4
  <2>3. 0 \in T
    <3>1. 0 \in 0..m /\ 0 + 1 = 1 /\ 1 \in 1..(m + 1) /\ 1 - 1 = 0
      BY <1>1
    <3>2. f[1] = <<>> \o t[1] /\ g[0] = <<>>
      BY <1>7, <3>1
    <3>3. f[0 + 1] = t[1] \o g[0]
      BY <1>8, <2>1, <3>1, <3>2
    <3> QED
      BY <3>1, <3>3
  <2> HIDE DEF T
  <2>4. 0..m \subseteq T
    BY <1>1, <2>2, <2>3, UpTo
  <2>5. m \in 0..m
    BY <1>1
  <2> QED
    BY <2>4, <2>5 DEF T
<1> QED
  BY <1>4, <1>7, <1>9

\* Behind none of them come all.
LEMMA OnwardAll ==
  ASSUME NEW n \in Nat, NEW s, s = [x \in 1..n |-> s[x]]
  PROVE  Onward(s, 0, n) = Joined(s, n)
<1>1. [i \in 1..(n - 0) |-> s[i + 0]] = [x \in 1..n |-> s[x]]
  OBVIOUS
<1> QED
  BY <1>1 DEF Onward

\* What comes behind j sequences is a sequence.
LEMMA OnwardType ==
  ASSUME NEW B, NEW n \in Nat, NEW j \in Nat, j <= n,
         NEW s, \A x \in (j + 1)..n : s[x] \in Seq(B)
  PROVE  Onward(s, j, n) \in Seq(B)
<1> DEFINE t == [i \in 1..(n - j) |-> s[i + j]]
<1>1. n - j \in Nat /\ \A i \in 1..(n - j) : t[i] \in Seq(B)
  <2> SUFFICES ASSUME NEW i \in 1..(n - j) PROVE s[i + j] \in Seq(B)
    OBVIOUS
  <2>1. i + j \in (j + 1)..n
    OBVIOUS
  <2> QED
    BY <2>1
<1> HIDE DEF t
<1>2. Joined(t, n - j) \in Seq(B)
  BY <1>1, JoinedType
<1> QED
  BY <1>2 DEF Onward, t

\* Joining none or one.
LEMMA JoinedFew ==
  ASSUME NEW B, NEW s
  PROVE  Joined(s, 0) = <<>> /\ (s[1] \in Seq(B) => Joined(s, 1) = s[1])
<1>1. Joined(s, 0) = <<>>
  <2>1. 0 \in Nat /\ \A j \in 1..0 : s[j] \in Seq(B)
    OBVIOUS
  <2>2. PICK f : Joins(f, B, s, 0)
    BY <2>1, JoinedSteps, Zenon
  <2> QED
    BY <2>2 DEF Joins
<1>2. ASSUME s[1] \in Seq(B) PROVE Joined(s, 1) = s[1]
  <2>1. 1 \in Nat /\ \A j \in 1..1 : s[j] \in Seq(B)
    BY <1>2
  <2>2. PICK f : Joins(f, B, s, 1)
    BY <2>1, JoinedSteps, Zenon
  <2>3. f[0] = <<>> /\ f[1] = f[0] \o s[1] /\ Joined(s, 1) = f[1]
    <3>1. f[0] = <<>> /\ (\A j \in 1..1 : f[j] = f[j - 1] \o s[j]) /\ Joined(s, 1) = f[1]
      BY <2>2 DEF Joins
    <3>2. 1 \in 1..1 /\ 1 - 1 = 0
      OBVIOUS
    <3> QED
      BY <3>1, <3>2
  <2>4. <<>> \o s[1] = s[1]
    BY <1>2
  <2> QED
    BY <2>3, <2>4
<1> QED
  BY <1>1, <1>2

\* A pair is joined of its elements.
LEMMA PairIs ==
  ASSUME NEW a, NEW b
  PROVE  << a, b >> = << a >> \o << b >>
<1> DEFINE s == << a >> \o << b >>
           B == {a, b}
<1>1. << a >> \in Seq(B) /\ << b >> \in Seq(B) /\ Len(<< a >>) = 1 /\ Len(<< b >>) = 1
  BY OfOne
<1>2. s \in Seq(B) /\ Len(s) = 2 /\ s[1] = a /\ s[2] = b
  BY <1>1
<1>3. << a, b >> \in Seq(B) /\ Len(<< a, b >>) = 2
  OBVIOUS
<1>4. \A i \in 1..2 : s[i] = << a, b >>[i]
  BY <1>2
<1> HIDE DEF s
<1> QED
  BY <1>2, <1>3, <1>4, SeqEqual DEF s

\* Joining two sequences, where only how joinings are grouped matters.
Cat(a, b) == a \o b
Groups(Q) ==
  \A a, b, c \in Q : Cat(a, b) \in Q /\ Cat(Cat(a, b), c) = Cat(a, Cat(b, c))

\* It does not.
LEMMA GroupsFreely == ASSUME NEW B PROVE Groups(Seq(B))
<1>1. ASSUME NEW a \in Seq(B), NEW b \in Seq(B), NEW c \in Seq(B)
      PROVE  Cat(a, b) \in Seq(B) /\ Cat(Cat(a, b), c) = Cat(a, Cat(b, c))
  BY Continues DEF Cat
<1> QED
  BY <1>1 DEF Groups

\* Joining with nothing.
LEMMA NothingFirst == ASSUME NEW B, NEW s \in Seq(B) PROVE Cat(<<>>, s) = s
BY DEF Cat

\* What is joined of three is one of them, too.
LEMMA GroupsClosed ==
  ASSUME NEW Q, Groups(Q), NEW a \in Q, NEW b \in Q, NEW c \in Q
  PROVE  Cat(a, b) \in Q /\ Cat(Cat(a, b), c) \in Q
BY DEF Groups

\* Four, and five, sequences, from the left and from the right.
LEMMA Regroup ==
  ASSUME NEW Q, Groups(Q), NEW a \in Q, NEW b \in Q, NEW c \in Q, NEW d \in Q
  PROVE  Cat(Cat(Cat(a, b), c), d) = Cat(a, Cat(b, Cat(c, d)))
<1>1. Cat(a, b) \in Q /\ Cat(c, d) \in Q
  BY DEF Groups
<1> QED
  BY <1>1 DEF Groups

\* The same for five.
LEMMA RegroupFive ==
  ASSUME NEW Q, Groups(Q), NEW a \in Q, NEW b \in Q, NEW c \in Q, NEW d \in Q, NEW f \in Q
  PROVE  Cat(Cat(Cat(Cat(a, b), c), d), f) = Cat(a, Cat(b, Cat(c, Cat(d, f))))
<1>1. Cat(a, b) \in Q /\ Cat(d, f) \in Q /\ Cat(Cat(a, b), c) \in Q /\ Cat(c, Cat(d, f)) \in Q
  BY DEF Groups
<1>2. Cat(Cat(Cat(Cat(a, b), c), d), f) = Cat(Cat(a, b), Cat(c, Cat(d, f)))
  BY <1>1 DEF Groups
<1>3. Cat(Cat(a, b), Cat(c, Cat(d, f))) = Cat(a, Cat(b, Cat(c, Cat(d, f))))
  BY <1>1 DEF Groups
<1> QED
  BY <1>2, <1>3

---------------------------------------------------------------------------
(* What is still to come, byte by byte.                                    *)

\* The first byte of a line's end, and the space before the version, tell what they end.
LineKinds == {"none", "url"}

\* Bytes of request k and of later ones.
From(k) ==
  {b \in [class : ByteClasses, kind : HeaderKinds \cup {"none", "url"}, req : Nat, part : Nat,
          i : Nat] : b.req >= k}

Requests(rs) == rs \in Seq(RequestSet) /\ Len(rs) <= MaxRequests

\* Each of the requests is one, and is framed.
LEMMA RequestFacts ==
  ASSUME NEW rs, Requests(rs), NEW k \in 1..Len(rs)
  PROVE  /\ k \in Nat /\ k \in DOMAIN rs /\ Len(rs) \in Nat /\ IsRequest(rs[k])
         /\ rs[k].url \in Nat /\ rs[k].url > 0
         /\ rs[k].headers \in Seq(HeaderKinds) /\ NumHeaders(rs, k) \in Nat
         /\ DOMAIN rs[k].headers = 1..NumHeaders(rs, k)
         /\ rs[k].body \in Seq(Nat \ {0}) /\ Len(rs[k].body) \in Nat
         /\ \A j \in 1..Len(rs[k].body) : rs[k].body[j] \in Nat /\ rs[k].body[j] > 0
         /\ rs[k].body # <<>> => HasChunks(rs, k) \/ (HasHeader(rs[k], "length") /\ Len(rs[k].body) = 1)
         /\ HasChunks(rs, k) => rs[k].eol = "crlf"
         /\ rs[k].bad \in Nat /\ rs[k].bad <= Len(Unspoiled(k, rs[k]))
<1>1. k \in Nat /\ k \in DOMAIN rs /\ Len(rs) \in Nat /\ rs[k] \in RequestSet /\ k \in 1..MaxRequests
  BY HttpAssumption DEF Requests
<1>2. IsRequest(rs[k])
  BY <1>1, HttpAssumption
<1>3. /\ rs[k].body # <<>> => HasChunks(rs, k) \/ (HasHeader(rs[k], "length") /\ Len(rs[k].body) = 1)
      /\ HasChunks(rs, k) => rs[k].eol = "crlf"
      /\ rs[k].bad <= Len(Unspoiled(k, rs[k]))
  BY <1>1, FramedAssumption DEF HasChunks
<1>4. rs[k].headers \in Seq(HeaderKinds) /\ rs[k].body \in Seq(Nat \ {0})
      /\ rs[k].url \in Nat \ {0} /\ rs[k].bad \in Nat
  BY <1>2 DEF IsRequest
<1>5. /\ NumHeaders(rs, k) \in Nat /\ DOMAIN rs[k].headers = 1..NumHeaders(rs, k)
      /\ Len(rs[k].body) \in Nat
      /\ \A j \in 1..Len(rs[k].body) : rs[k].body[j] \in Nat /\ rs[k].body[j] > 0
  BY <1>4 DEF NumHeaders
<1> QED
  BY <1>1, <1>2, <1>3, <1>4, <1>5

\* Each of the bytes that come is one.
LEMMA ByteTypes ==
  ASSUME NEW k \in Nat
  PROVE  /\ \A class \in ByteClasses, part, i \in Nat : PieceByte(k, class, part, i) \in From(k)
         /\ \A class \in ByteClasses, kind \in LineKinds : SingleByte(k, class, kind) \in From(k)
         /\ \A kind \in HeaderKinds, i \in Nat : NameByte(k, kind, i) \in From(k)
         /\ ByteOf(k) \subseteq From(k) /\ From(k + 1) \subseteq From(k)
<1>1. "name" \in ByteClasses
  BY DEF ByteClasses
<1> DEFINE R == [class : ByteClasses, kind : HeaderKinds \cup {"none", "url"}, req : Nat, part : Nat,
                i : Nat]
<1>0. \A b \in R : b.req >= k => b \in From(k)
  BY DEF From
<1>2. ASSUME NEW class \in ByteClasses, NEW part \in Nat, NEW i \in Nat
      PROVE  PieceByte(k, class, part, i) \in From(k)
  <2>1. PieceByte(k, class, part, i) \in R /\ PieceByte(k, class, part, i).req = k
    BY DEF PieceByte
  <2> HIDE DEF R
  <2> QED
    BY <1>0, <2>1
<1>3. ASSUME NEW class \in ByteClasses, NEW kind \in LineKinds
      PROVE  SingleByte(k, class, kind) \in From(k)
  <2>1. SingleByte(k, class, kind) \in R /\ SingleByte(k, class, kind).req = k
    BY DEF SingleByte, LineKinds
  <2> HIDE DEF R
  <2> QED
    BY <1>0, <2>1
<1>4. ASSUME NEW kind \in HeaderKinds, NEW i \in Nat
      PROVE  NameByte(k, kind, i) \in From(k)
  <2>1. NameByte(k, kind, i) \in R /\ NameByte(k, kind, i).req = k
    BY <1>1 DEF NameByte
  <2> HIDE DEF R
  <2> QED
    BY <1>0, <2>1
<1>5. ASSUME NEW b \in ByteOf(k)
      PROVE  b \in From(k)
  <2>1. b \in [class : ByteClasses, kind : HeaderKinds \cup {"none", "url"}, req : {k}, part : Nat,
                i : Nat]
    BY DEF ByteOf
  <2>2. b \in R /\ b.req = k
    BY <2>1
  <2> HIDE DEF R
  <2> QED
    BY <1>0, <2>2
<1>6. ASSUME NEW b \in From(k + 1)
      PROVE  b \in From(k)
  <2>1. b \in R /\ b.req >= k + 1
    BY DEF From
  <2>2. b.req \in Nat
    BY <2>1
  <2> HIDE DEF R
  <2> QED
    BY <1>0, <2>1, <2>2
<1> QED
  BY <1>2, <1>3, <1>4, <1>5, <1>6

\* The ends of lines, the spaces and the pieces are made of such bytes.
LEMMA SmallTypes ==
  ASSUME NEW k \in Nat, NEW rs, NEW s \in Seq(From(k))
  PROVE  /\ LfOn(k, s) \in Seq(From(k)) /\ SpaceOn(k, s) \in Seq(From(k))
         /\ \A kind \in LineKinds : EolOn(rs, k, kind, s) \in Seq(From(k))
         /\ \A class \in ByteClasses, part, i \in Nat :
              Cons(PieceByte(k, class, part, i), s) \in Seq(From(k))
<1> DEFINE B == From(k)
<1>0. "cr" \in ByteClasses /\ "lf" \in ByteClasses /\ "space" \in ByteClasses
      /\ "none" \in LineKinds
  BY DEF ByteClasses, LineKinds
<1>1. /\ \A kind \in LineKinds : SingleByte(k, "lf", kind) \in B /\ SingleByte(k, "cr", kind) \in B
      /\ SingleByte(k, "space", "none") \in B
      /\ \A class \in ByteClasses, part, i \in Nat : PieceByte(k, class, part, i) \in B
  BY <1>0, ByteTypes
<1> HIDE DEF B
<1>2. \A b \in B, t \in Seq(B) : Cons(b, t) \in Seq(B)
  BY ConsParts
<1>3. s \in Seq(B)
  BY DEF B
<1>4. LfOn(k, s) \in Seq(B) /\ SpaceOn(k, s) \in Seq(B)
  BY <1>0, <1>1, <1>2, <1>3 DEF LfOn, SpaceOn
<1>5. \A kind \in LineKinds : EolOn(rs, k, kind, s) \in Seq(B)
  BY <1>1, <1>2, <1>3, <1>4 DEF EolOn
<1>6. \A class \in ByteClasses, part, i \in Nat :
              Cons(PieceByte(k, class, part, i), s) \in Seq(B)
  BY <1>1, <1>2, <1>3
<1> QED
  BY <1>4, <1>5, <1>6 DEF B

\* The end of a line, a space and the bytes of a piece, before what follows.
LEMMA SmallShapes ==
  ASSUME NEW k \in Nat, NEW rs, NEW s \in Seq(From(k))
  PROVE  /\ One(k, "space", "none") \o s = SpaceOn(k, s)
         /\ One(k, "space", "url") \o s = Cons(SingleByte(k, "space", "url"), s)
         /\ One(k, "colon", "none") \o s = Cons(SingleByte(k, "colon", "none"), s)
         /\ \A kind \in LineKinds : Eol(k, rs[k], kind) \o s = EolOn(rs, k, kind, s)
<1> DEFINE B == From(k)
<1>1. \A class, kind : One(k, class, kind) = << SingleByte(k, class, kind) >>
  BY DEF One, SingleByte
<1>2. \A class \in ByteClasses, kind \in LineKinds : SingleByte(k, class, kind) \in B
  BY ByteTypes
<1>3. "cr" \in ByteClasses /\ "lf" \in ByteClasses /\ "none" \in LineKinds
  BY DEF ByteClasses, LineKinds
<1> HIDE DEF B
<1>4. s \in Seq(B)
  BY DEF B
<1>5. ASSUME NEW kind \in LineKinds
      PROVE  Eol(k, rs[k], kind) \o s = EolOn(rs, k, kind, s)
  <2>1. CASE rs[k].eol = "crlf"
    <3> DEFINE c == SingleByte(k, "cr", kind)
               l == SingleByte(k, "lf", "none")
    <3>1. c \in B /\ l \in B
      BY <1>2, <1>3
    <3>2. Eol(k, rs[k], kind) = << c >> \o << l >>
      BY <1>1, <2>1 DEF Eol
    <3>3. EolOn(rs, k, kind, s) = << c >> \o (<< l >> \o s)
      BY <2>1 DEF EolOn, LfOn, Cons
    <3> HIDE DEF c, l
    <3>4. << c >> \in Seq(B) /\ << l >> \in Seq(B)
      <4>1. \A x \in B : << x >> \in Seq(B)
        BY OfOne
      <4> QED
        BY <3>1, <4>1
    <3>5. (<< c >> \o << l >>) \o s = << c >> \o (<< l >> \o s)
      BY <1>4, <3>4, Continues
    <3> QED
      BY <3>2, <3>3, <3>5
  <2>2. CASE rs[k].eol # "crlf"
    BY <1>1, <2>2 DEF Eol, EolOn, Cons
  <2> QED
    BY <2>1, <2>2
<1> QED
  BY <1>1, <1>5 DEF SpaceOn, Cons

\* A piece, byte by byte, is followed by s.
Piecewise(k, class, part, n, s) ==
  /\ PieceOn(k, class, part, n, n, s) = s
  /\ \A i \in 0..n : PieceOn(k, class, part, i, n, s) \in Seq(From(k))
  /\ \A i \in 0..(n - 1) :
       PieceOn(k, class, part, i, n, s)
         = Cons(PieceByte(k, class, part, i + 1), PieceOn(k, class, part, i + 1, n, s))
  /\ Cat(Part(k, class, part, n), s) = PieceOn(k, class, part, 0, n, s)

\* Each of a piece's bytes comes before the next one.
LEMMA PieceShapes ==
  ASSUME NEW k \in Nat, NEW class \in ByteClasses, NEW part \in Nat, NEW n \in Nat,
         NEW s \in Seq(From(k))
  PROVE  Piecewise(k, class, part, n, s)
<1> DEFINE B == From(k)
           p(i) == [j \in 1..(n - i) |-> PieceByte(k, class, part, i + j)]
           b(i) == PieceByte(k, class, part, i)
<1>1. \A i \in Nat : b(i) \in B
  BY ByteTypes
<1>2. \A i \in 0..n : PieceOn(k, class, part, i, n, s) = p(i) \o s
  BY DEF PieceOn
<1> HIDE DEF B
<1>3. s \in Seq(B)
  BY DEF B
<1>4. ASSUME NEW i \in 0..n PROVE p(i) \in Seq(B)
  <2> DEFINE q == p(i)
  <2>1. n - i \in Nat /\ \A j \in 1..(n - i) : i + j \in Nat
    OBVIOUS
  <2>2. \A j \in 1..(n - i) : q[j] \in B
    BY <1>1, <2>1
  <2>3. q = [j \in 1..(n - i) |-> q[j]]
    OBVIOUS
  <2> HIDE DEF q
  <2>4. q \in Seq(B)
    BY <2>1, <2>2, <2>3
  <2> QED
    BY <2>4 DEF q
<1>5. p(n) = <<>>
  <2>1. n - n = 0
    OBVIOUS
  <2> QED
    BY <2>1
<1>6. ASSUME NEW i \in 0..(n - 1)
      PROVE  p(i) = << b(i + 1) >> \o p(i + 1)
  <2> DEFINE q == p(i)
             t == p(i + 1)
             c == b(i + 1)
  <2>1. /\ i \in 0..n /\ i + 1 \in 0..n /\ n - i \in Nat /\ n - i >= 1
        /\ n - (i + 1) = (n - i) - 1
    OBVIOUS
  <2>2. q \in Seq(B) /\ t \in Seq(B) /\ c \in B
    BY <1>1, <1>4, <2>1
  <2>3. Len(q) = n - i /\ Len(t) = n - (i + 1)
    BY <2>1
  <2>4. q[1] = c
    BY <2>1
  <2>5. ASSUME NEW j \in 1..Len(t) PROVE q[j + 1] = t[j]
    <3>1. j + 1 \in 1..(n - i) /\ i + (j + 1) = (i + 1) + j
      BY <2>1, <2>3
    <3> QED
      BY <2>3, <3>1
  <2> HIDE DEF q, t, c
  <2>6. << c >> \o t \in Seq(B) /\ Len(<< c >> \o t) = Len(q)
        /\ (<< c >> \o t)[1] = c
        /\ \A j \in 1..Len(t) : (<< c >> \o t)[j + 1] = t[j]
    BY <2>1, <2>2, <2>3
  <2>7. \A j \in 1..Len(q) : q[j] = (<< c >> \o t)[j]
    <3> SUFFICES ASSUME NEW j \in 1..Len(q) PROVE q[j] = (<< c >> \o t)[j]
      OBVIOUS
    <3>1. CASE j = 1
      BY <2>4, <2>6, <3>1
    <3>2. CASE j # 1
      <4>1. j - 1 \in 1..Len(t) /\ (j - 1) + 1 = j
        BY <2>1, <2>3, <3>2
      <4> QED
        BY <2>5, <2>6, <4>1
    <3> QED
      BY <3>1, <3>2
  <2>8. q = << c >> \o t
    BY <2>2, <2>6, <2>7, SeqEqual
  <2> QED
    BY <2>8 DEF q, t, c
<1>7. Part(k, class, part, n) = p(0)
  <2>1. n - 0 = n /\ \A j \in 1..n : 0 + j = j
    OBVIOUS
  <2> QED
    BY <2>1 DEF Part, PieceByte
<1>8. \A i \in 0..n : p(i) \o s \in Seq(B) /\ <<>> \o s = s
  BY <1>3, <1>4, Continues
<1>9. ASSUME NEW i \in 0..(n - 1)
      PROVE  p(i) \o s = Cons(b(i + 1), p(i + 1) \o s)
  <2>1. i + 1 \in 0..n /\ i + 1 \in Nat
    OBVIOUS
  <2>2. << b(i + 1) >> \in Seq(B) /\ p(i + 1) \in Seq(B)
    <3>1. b(i + 1) \in B
      BY <1>1, <2>1
    <3>2. p(i + 1) \in Seq(B)
      BY <1>4, <2>1
    <3> HIDE DEF b, p
    <3> QED
      BY <3>1, <3>2, OfOne
  <2>3. (<< b(i + 1) >> \o p(i + 1)) \o s = << b(i + 1) >> \o (p(i + 1) \o s)
    <3> HIDE DEF b, p
    <3> QED
      BY <1>3, <2>2, Continues
  <2> HIDE DEF b, p
  <2> QED
    BY <1>6, <2>3 DEF Cons
<1> HIDE DEF p, b
<1>10. /\ PieceOn(k, class, part, n, n, s) = s
       /\ \A i \in 0..n : PieceOn(k, class, part, i, n, s) \in Seq(B)
       /\ Cat(Part(k, class, part, n), s) = PieceOn(k, class, part, 0, n, s)
  <2>1. n \in 0..n /\ 0 \in 0..n
    OBVIOUS
  <2> QED
    BY <1>2, <1>5, <1>7, <1>8, <2>1 DEF Cat
<1>11. ASSUME NEW i \in 0..(n - 1)
       PROVE  PieceOn(k, class, part, i, n, s)
                = Cons(b(i + 1), PieceOn(k, class, part, i + 1, n, s))
  <2>1. i \in 0..n /\ i + 1 \in 0..n
    OBVIOUS
  <2> QED
    BY <1>2, <1>9, <2>1
<1> QED
  BY <1>10, <1>11 DEF B, b, Piecewise

\* Behind the last request there is nothing; behind others, later requests.
LEMMA RestTypes ==
  ASSUME NEW rs, Requests(rs)
  PROVE  /\ RestOn(rs, Len(rs)) = <<>>
         /\ \A k \in 0..Len(rs) :
              RestOn(rs, k) \in Seq(From(k + 1)) /\ RestOn(rs, k) \in Seq(From(k))
<1> DEFINE n == Len(rs)
           s == [j \in DOMAIN rs |-> Unspoiled(j, rs[j])]
<1>1. n \in Nat /\ DOMAIN rs = 1..n
  BY DEF Requests
<1>2. \A k : RestOn(rs, k) = Onward(s, k, n)
  BY DEF RestOn
<1>3. ASSUME NEW x \in 1..n PROVE s[x] \in Seq(ByteOf(x))
  <2>1. IsRequest(rs[x])
    BY RequestFacts
  <2>2. Unspoiled(x, rs[x]) \in Seq(ByteOf(x))
    BY <2>1, UnspoiledTypes
  <2> QED
    BY <1>1, <2>2
<1> HIDE DEF s
<1>4. ASSUME NEW k \in 0..n
      PROVE  RestOn(rs, k) \in Seq(From(k + 1)) /\ RestOn(rs, k) \in Seq(From(k))
  <2> DEFINE B == From(k + 1)
  <2>1. k \in Nat /\ k + 1 \in Nat /\ k <= n
    BY <1>1
  <2>2. ASSUME NEW x \in (k + 1)..n PROVE s[x] \in Seq(B)
    <3> DEFINE C == ByteOf(x)
    <3>1. x \in 1..n /\ x \in Nat /\ x >= k + 1
      BY <1>1
    <3>2. ByteOf(x) \subseteq From(x) /\ From(x) \subseteq B
      <4>1. ByteOf(x) \subseteq From(x)
        BY <3>1, ByteTypes
      <4>2. ASSUME NEW b \in From(x) PROVE b \in From(k + 1)
        <5>1. b.req \in Nat /\ b.req >= x
          BY DEF From
        <5>2. b.req >= k + 1
          BY <2>1, <3>1, <5>1
        <5> QED
          BY <5>2 DEF From
      <4> QED
        BY <4>1, <4>2
    <3>3. s[x] \in Seq(C) /\ C \subseteq B
      BY <1>3, <3>1, <3>2
    <3> HIDE DEF B, C
    <3> QED
      BY <3>3
  <2>3. Onward(s, k, n) \in Seq(B)
    <3> HIDE DEF B, n
    <3> QED
      BY <1>1, <2>1, <2>2, OnwardType
  <2>4. B \subseteq From(k)
    BY <2>1, ByteTypes
  <2>5. Onward(s, k, n) \in Seq(From(k))
    <3> DEFINE C == From(k)
    <3>1. B \subseteq C
      BY <2>4
    <3> HIDE DEF B, C
    <3>2. Onward(s, k, n) \in Seq(C)
      BY <2>3, <3>1
    <3> QED
      BY <3>2 DEF C
  <2> QED
    BY <1>2, <2>3, <2>5
<1> QED
  BY <1>1, <1>2, <1>4, OnwardEnd

\* Bytes of request k are followed by bytes of it and later ones.
LEMMA OwnTypes ==
  ASSUME NEW k \in Nat, NEW t \in Seq(ByteOf(k)), NEW s \in Seq(From(k))
  PROVE  t \o s \in Seq(From(k)) /\ t \in Seq(From(k))
<1> DEFINE B == From(k)
           C == ByteOf(k)
<1>1. C \subseteq B /\ t \in Seq(C) /\ s \in Seq(B)
  BY ByteTypes
<1> HIDE DEF B, C
<1>2. t \in Seq(B)
  BY <1>1
<1>3. t \o s \in Seq(B)
  BY <1>1, <1>2
<1> QED
  BY <1>2, <1>3 DEF B

\* The body, in chunks, or all of it, or none.
LEMMA BodyShapes ==
  ASSUME NEW rs, Requests(rs), NEW k \in 1..Len(rs)
  PROVE  /\ BodyOn(rs, k) \in Seq(From(k))
         /\ HasChunks(rs, k) => BodyOn(rs, k) = ChunksOn(rs, k, 0)
         /\ ~HasChunks(rs, k) /\ rs[k].body = <<>> => BodyOn(rs, k) = RestOn(rs, k)
         /\ ~HasChunks(rs, k) /\ Len(rs[k].body) = 1 =>
              BodyOn(rs, k) = PieceOn(k, "body", 1, 0, rs[k].body[1], RestOn(rs, k))
<1> DEFINE r == rs[k]
           rest == RestOn(rs, k)
<1>1. /\ k \in Nat /\ IsRequest(r) /\ r.body \in Seq(Nat \ {0}) /\ Len(r.body) \in Nat
      /\ k \in 0..Len(rs)
  BY RequestFacts
<1>2. rest \in Seq(From(k))
  BY <1>1, RestTypes
<1>3. BodyOn(rs, k) \in Seq(From(k))
  <2>1. BodyBytes(k, r) \in Seq(ByteOf(k))
    BY <1>1, BodyTypes
  <2> QED
    BY <1>1, <1>2, <2>1, OwnTypes DEF BodyOn
<1>4. ASSUME HasChunks(rs, k) PROVE BodyOn(rs, k) = ChunksOn(rs, k, 0)
  <2> DEFINE n == Len(r.body) + 1
             s == [x \in 1..n |-> ChunkBytes(k, r, x)]
  <2>1. BodyBytes(k, r) = Joined(s, n)
    BY <1>4 DEF BodyBytes, HasChunks
  <2>2. ChunksOn(rs, k, 0) = Onward(s, 0, n) \o rest
    BY DEF ChunksOn
  <2>3. n \in Nat /\ s = [x \in 1..n |-> s[x]]
    BY <1>1
  <2> HIDE DEF s, n
  <2> QED
    BY <2>1, <2>2, <2>3, OnwardAll DEF BodyOn
<1>5. ASSUME ~HasChunks(rs, k) PROVE BodyBytes(k, r) = Joined([j \in 1..Len(r.body) |-> Part(k, "body", j, r.body[j])], Len(r.body))
  BY <1>5 DEF BodyBytes, HasChunks
<1>6. ASSUME ~HasChunks(rs, k), r.body = <<>> PROVE BodyOn(rs, k) = RestOn(rs, k)
  <2>1. Len(r.body) = 0
    BY <1>6
  <2>2. BodyBytes(k, r) = <<>>
    BY <1>5, <1>6, <2>1, JoinedFew
  <2>3. <<>> \o rest = rest
    <3> DEFINE B == From(k)
    <3>1. rest \in Seq(B)
      BY <1>2
    <3> HIDE DEF B
    <3> QED
      BY <3>1
  <2> QED
    BY <2>2, <2>3 DEF BodyOn
<1>7. ASSUME ~HasChunks(rs, k), Len(r.body) = 1
      PROVE  BodyOn(rs, k) = PieceOn(k, "body", 1, 0, r.body[1], RestOn(rs, k))
  <2> DEFINE s == [j \in 1..Len(r.body) |-> Part(k, "body", j, r.body[j])]
  <2>1. s[1] = Part(k, "body", 1, r.body[1])
    BY <1>7
  <2>2. r.body[1] \in Nat
    BY <1>1, <1>7
  <2>3. s[1] \in Seq(ByteOf(k))
    <3>1. Part(k, "body", 1, r.body[1]) \in Seq(ByteOf(k))
      BY <2>2, PartType DEF ByteClasses
    <3> QED
      BY <2>1, <3>1
  <2>4. BodyBytes(k, r) = Joined(s, 1)
    BY <1>5, <1>7
  <2> HIDE DEF s
  <2>5. BodyBytes(k, r) = Part(k, "body", 1, r.body[1])
    <3> DEFINE C == ByteOf(k)
    <3>1. s[1] \in Seq(C)
      BY <2>3
    <3> HIDE DEF C
    <3>2. Joined(s, 1) = s[1]
      BY <3>1, JoinedFew
    <3> QED
      BY <2>1, <2>4, <3>2
  <2>6. Part(k, "body", 1, r.body[1]) \o rest = PieceOn(k, "body", 1, 0, r.body[1], rest)
    <3> DEFINE n == r.body[1]
    <3>1. k \in Nat /\ "body" \in ByteClasses /\ 1 \in Nat /\ n \in Nat /\ rest \in Seq(From(k))
      BY <1>1, <1>2, <2>2 DEF ByteClasses
    <3> HIDE DEF n, rest
    <3>2. Cat(Part(k, "body", 1, n), rest) = PieceOn(k, "body", 1, 0, n, rest)
      BY <3>1, PieceShapes DEF Piecewise
    <3> QED
      BY <3>2 DEF n, Cat
  <2> QED
    BY <2>5, <2>6 DEF BodyOn
<1> QED
  BY <1>3, <1>4, <1>6, <1>7

\* A chunk: two digits of its size, a line's end, and its bytes with another line's end
\* or, behind the last one, an empty line.
LEMMA ChunkShapes ==
  ASSUME NEW rs, Requests(rs), NEW k \in 1..Len(rs), NEW j \in 0..Len(rs[k].body)
  PROVE  /\ ChunksOn(rs, k, j)
              = Cons(SizeByte(k, 0), Cons(SizeByte(k, SizeOf(rs, k, j)),
                                          EolOn(rs, k, "none", SizeEndOn(rs, k, j))))
         /\ ChunksOn(rs, k, j) \in Seq(From(k)) /\ SizeEndOn(rs, k, j) \in Seq(From(k))
         /\ EolOn(rs, k, "none", SizeEndOn(rs, k, j)) \in Seq(From(k))
         /\ Cons(SizeByte(k, SizeOf(rs, k, j)), EolOn(rs, k, "none", SizeEndOn(rs, k, j)))
              \in Seq(From(k))
         /\ SizeOf(rs, k, j) \in Nat
         /\ j < Len(rs[k].body) =>
              /\ SizeOf(rs, k, j) = rs[k].body[j + 1] /\ SizeOf(rs, k, j) > 0
              /\ SizeEndOn(rs, k, j) = DataOn(rs, k, j, 0)
              /\ DataEndOn(rs, k, j) \in Seq(From(k))
              /\ ChunksOn(rs, k, j + 1) \in Seq(From(k))
<1> DEFINE r == rs[k]
           n == Len(r.body)
           rest == RestOn(rs, k)
           s == [x \in 1..(n + 1) |-> ChunkBytes(k, r, x)]
           B == From(k)
           e == Eol(k, r, "none")
           size(m) == << SizeByte(k, 0), SizeByte(k, m) >>
<1>1. /\ k \in Nat /\ n \in Nat /\ r.body \in Seq(Nat \ {0}) /\ k \in 0..Len(rs)
      /\ \A x \in 1..n : r.body[x] \in Nat /\ r.body[x] > 0
  BY RequestFacts
<1>2. rest \in Seq(B)
  BY <1>1, RestTypes
<1>0. \A t, u, v \in Seq(B) : t \o u \in Seq(B) /\ (t \o u) \o v = t \o (u \o v)
  <2> HIDE DEF B
  <2>1. Concatenates(Seq(B))
    BY Concatenations
  <2> QED
    BY <2>1 DEF Concatenates
<1>3. ASSUME NEW x \in 1..(n + 1) PROVE s[x] \in Seq(B)
  <2>1. ChunkBytes(k, r, x) \in Seq(ByteOf(k))
    BY <1>1, ChunkTypes
  <2> QED
    BY <1>1, <1>2, <2>1, OwnTypes
<1>4. ASSUME NEW x \in 0..(n + 1) PROVE ChunksOn(rs, k, x) \in Seq(B)
  <2>1. x \in Nat /\ n + 1 \in Nat /\ x <= n + 1
    BY <1>1
  <2>2. \A y \in (x + 1)..(n + 1) : s[y] \in Seq(B)
    <3> HIDE DEF s, B
    <3> QED
      BY <1>1, <1>3, <2>1
  <2>3. ChunksOn(rs, k, x) = Onward(s, x, n + 1) \o rest
    BY DEF ChunksOn
  <2> HIDE DEF s, B, n, rest
  <2>4. Onward(s, x, n + 1) \in Seq(B)
    BY <2>1, <2>2, OnwardType
  <2> QED
    BY <1>2, <2>3, <2>4
<1>5. ASSUME NEW x \in 0..n
      PROVE  ChunksOn(rs, k, x) = ChunkBytes(k, r, x + 1) \o ChunksOn(rs, k, x + 1)
             /\ ChunkBytes(k, r, x + 1) \in Seq(B)
  <2>1. x \in Nat /\ n + 1 \in Nat /\ x < n + 1 /\ x + 1 \in 1..(n + 1) /\ x + 1 \in Nat
        /\ x + 1 <= n + 1
    BY <1>1
  <2>2. s[x + 1] = ChunkBytes(k, r, x + 1)
    BY <2>1
  <2>3. \A y : ChunksOn(rs, k, y) = Onward(s, y, n + 1) \o rest
    BY DEF ChunksOn
  <2>4. \A y \in 1..(n + 1) : s[y] \in Seq(B)
    BY <1>3
  <2> HIDE DEF s, B, n, rest
  <2>5. Onward(s, x, n + 1) = s[x + 1] \o Onward(s, x + 1, n + 1)
    BY <2>1, <2>4, OnwardNext
  <2>6. Onward(s, x + 1, n + 1) \in Seq(B)
    <3>1. \A y \in ((x + 1) + 1)..(n + 1) : s[y] \in Seq(B)
      BY <2>1, <2>4
    <3> QED
      BY <2>1, <3>1, OnwardType
  <2>7. s[x + 1] \in Seq(B)
    BY <2>1, <2>4
  <2>8. (s[x + 1] \o Onward(s, x + 1, n + 1)) \o rest = s[x + 1] \o (Onward(s, x + 1, n + 1) \o rest)
    BY <1>0, <1>2, <2>6, <2>7
  <2> QED
    BY <2>2, <2>3, <2>5, <2>7, <2>8
<1>6. ChunksOn(rs, k, n + 1) = rest
  <2>1. ChunksOn(rs, k, n + 1) = Onward(s, n + 1, n + 1) \o rest /\ n + 1 \in Nat
    BY <1>1 DEF ChunksOn
  <2> HIDE DEF s, B, n, rest
  <2>2. Onward(s, n + 1, n + 1) = <<>>
    BY <2>1, OnwardEnd
  <2>3. <<>> \o rest = rest
    BY <1>2
  <2> QED
    BY <2>1, <2>2, <2>3
<1>7. \A t \in Seq(B) : /\ EolOn(rs, k, "none", t) \in Seq(B) /\ e \o t = EolOn(rs, k, "none", t)
                        /\ \A m \in Nat : Cons(SizeByte(k, m), t) \in Seq(B)
  <2>1. "size" \in ByteClasses /\ "none" \in LineKinds /\ 0 \in Nat
    BY DEF ByteClasses, LineKinds
  <2> QED
    BY <1>1, <2>1, SmallTypes, SmallShapes DEF SizeByte
<1>8. e \in Seq(B)
  <2>1. e \in Seq(ByteOf(k))
    BY EolTypes
  <2> QED
    BY <1>1, <1>2, <2>1, OwnTypes
<1>9. ASSUME NEW m \in Nat, NEW t \in Seq(B)
      PROVE  size(m) \in Seq(B) /\ size(m) \o t = Cons(SizeByte(k, 0), Cons(SizeByte(k, m), t))
  <2> DEFINE a == SizeByte(k, 0)
             b == SizeByte(k, m)
  <2>1. a \in B /\ b \in B
    BY <1>1, ByteTypes DEF SizeByte, ByteClasses
  <2> HIDE DEF a, b, B
  <2>2. << a, b >> \in Seq(B) /\ << a >> \in Seq(B) /\ << b >> \in Seq(B)
        /\ << a, b >> = << a >> \o << b >>
    <3>1. \A x \in B : << x >> \in Seq(B)
      BY OfOne
    <3>2. << a >> \in Seq(B) /\ << b >> \in Seq(B)
      BY <2>1, <3>1
    <3>3. << a, b >> = << a >> \o << b >>
      BY PairIs
    <3>4. << a >> \o << b >> \in Seq(B)
      BY <1>0, <3>2
    <3> QED
      BY <3>2, <3>3, <3>4
  <2>3. (<< a >> \o << b >>) \o t = << a >> \o (<< b >> \o t)
    BY <1>0, <2>2
  <2>4. Cons(a, Cons(b, t)) = << a >> \o (<< b >> \o t)
    BY DEF Cons
  <2>5. << a, b >> \in Seq(B) /\ << a, b >> \o t = Cons(a, Cons(b, t))
    BY <2>2, <2>3, <2>4
  <2> QED
    BY <2>5 DEF a, b
<1> HIDE DEF e, size
<1>10. CASE j = n
  <2>1. ChunkBytes(k, r, j + 1) = (size(0) \o e) \o e
    <3>1. j + 1 > Len(r.body)
      BY <1>1, <1>10
    <3> QED
      BY <3>1 DEF ChunkBytes, size, e, SizeByte, PieceByte
  <2>2. SizeOf(rs, k, j) = 0 /\ SizeEndOn(rs, k, j) = EolOn(rs, k, "none", rest)
    BY <1>10 DEF SizeOf, SizeEndOn
  <2> DEFINE t == EolOn(rs, k, "none", rest)
             u == EolOn(rs, k, "none", t)
  <2>3. e \o rest = t /\ t \in Seq(B) /\ e \o t = u /\ u \in Seq(B)
        /\ Cons(SizeByte(k, 0), u) \in Seq(B) /\ 0 \in Nat
        /\ size(0) \in Seq(B) /\ size(0) \o u = Cons(SizeByte(k, 0), Cons(SizeByte(k, 0), u))
    BY <1>2, <1>7, <1>9
  <2>4. ChunksOn(rs, k, j) = ChunkBytes(k, r, j + 1) \o rest
    BY <1>1, <1>5, <1>6, <1>10
  <2> HIDE DEF t, u, B, rest, n
  <2>5. ((size(0) \o e) \o e) \o rest = size(0) \o u
    <3>1. Cat(Cat(Cat(size(0), e), e), rest) = Cat(size(0), Cat(e, Cat(e, rest)))
      <4>1. size(0) \in Seq(B) /\ e \in Seq(B) /\ rest \in Seq(B) /\ Groups(Seq(B))
        BY <1>2, <1>8, <2>3, GroupsFreely
      <4> QED
        BY <4>1, Regroup
    <3> QED
      BY <2>3, <3>1 DEF Cat
  <2>6. ChunksOn(rs, k, j) = Cons(SizeByte(k, 0), Cons(SizeByte(k, 0), u))
    BY <2>1, <2>3, <2>4, <2>5
  <2>7. ChunksOn(rs, k, j) \in Seq(B)
    BY <1>1, <1>4 DEF n
  <2>8. u = EolOn(rs, k, "none", SizeEndOn(rs, k, j)) /\ SizeEndOn(rs, k, j) \in Seq(B)
    BY <2>2, <2>3 DEF t, u, rest
  <2>9. ~(j < n)
    BY <1>1, <1>10
  <2> QED
    BY <2>2, <2>3, <2>6, <2>7, <2>8, <2>9 DEF B, n
<1>11. CASE j # n
  <2> DEFINE m == r.body[j + 1]
             d == Part(k, "body", j + 1, m)
             c == ChunksOn(rs, k, j + 1)
             t == EolOn(rs, k, "none", c)
             u == d \o t
             v == EolOn(rs, k, "none", u)
  <2>1. j < n /\ j + 1 \in 1..n /\ j + 1 \in 0..(n + 1) /\ j \in 0..n /\ j + 1 \in Nat
        /\ ~(j + 1 > n)
    BY <1>1, <1>11
  <2>2. m \in Nat /\ m > 0
    BY <1>1, <2>1
  <2>3. SizeOf(rs, k, j) = m /\ SizeEndOn(rs, k, j) = DataOn(rs, k, j, 0)
        /\ DataEndOn(rs, k, j) = t /\ DataOn(rs, k, j, 0) = PieceOn(k, "body", j + 1, 0, m, t)
    BY <1>11 DEF SizeOf, SizeEndOn, DataEndOn, DataOn
  <2>4. c \in Seq(B) /\ ChunksOn(rs, k, j) \in Seq(B)
        /\ ChunksOn(rs, k, j) = ChunkBytes(k, r, j + 1) \o c
    BY <1>4, <1>5, <2>1
  <2>5. ChunkBytes(k, r, j + 1) = ((size(m) \o e) \o d) \o e
    BY <2>1 DEF ChunkBytes, size, e, SizeByte, PieceByte
  <2>6. d \in Seq(B)
    <3>1. d \in Seq(ByteOf(k))
      BY <2>1, <2>2, PartType DEF ByteClasses
    <3> QED
      BY <1>1, <1>2, <3>1, OwnTypes
  <2>7. t \in Seq(B) /\ e \o c = t
    BY <1>7, <2>4
  <2>8. u = PieceOn(k, "body", j + 1, 0, m, t)
    <3>1. k \in Nat /\ "body" \in ByteClasses /\ j + 1 \in Nat /\ m \in Nat /\ t \in Seq(From(k))
      BY <1>1, <2>1, <2>2, <2>7 DEF ByteClasses
    <3> HIDE DEF t, m
    <3>2. Piecewise(k, "body", j + 1, m, t)
      BY <3>1, PieceShapes
    <3> QED
      BY <3>2 DEF d, u, Piecewise, Cat
  <2> HIDE DEF B, rest, n, m, d, c, t
  <2>9. u \in Seq(B)
    BY <2>6, <2>7
  <2>10. v \in Seq(B) /\ e \o u = v /\ Cons(SizeByte(k, m), v) \in Seq(B)
         /\ size(m) \in Seq(B) /\ size(m) \o v = Cons(SizeByte(k, 0), Cons(SizeByte(k, m), v))
    BY <1>7, <1>9, <2>2, <2>9
  <2>11. (((size(m) \o e) \o d) \o e) \o c = size(m) \o v
    <3>1. Cat(Cat(Cat(Cat(size(m), e), d), e), c) = Cat(size(m), Cat(e, Cat(d, Cat(e, c))))
      <4>1. /\ size(m) \in Seq(B) /\ e \in Seq(B) /\ d \in Seq(B) /\ c \in Seq(B)
            /\ Groups(Seq(B))
        BY <1>8, <2>4, <2>6, <2>10, GroupsFreely
      <4> QED
        BY <4>1, RegroupFive
    <3> HIDE DEF v
    <3> QED
      BY <2>7, <2>10, <3>1 DEF Cat
  <2> HIDE DEF u
  <2>12. ChunksOn(rs, k, j) = Cons(SizeByte(k, 0), Cons(SizeByte(k, m), v))
    BY <2>4, <2>5, <2>10, <2>11
  <2>13. SizeEndOn(rs, k, j) = u
    BY <2>3, <2>8
  <2> HIDE DEF v
  <2>14. v = EolOn(rs, k, "none", SizeEndOn(rs, k, j))
    BY <2>13 DEF v
  <2> QED
    BY <2>2, <2>3, <2>4, <2>7, <2>9, <2>10, <2>12, <2>13, <2>14 DEF B, c, m
<1> QED
  BY <1>10, <1>11

\* s has the elements of p, then those of q.
Elements(s, p, q) ==
  /\ Len(s) = Len(p) + Len(q)
  /\ \A i \in 1..Len(p) : s[i] = p[i]
  /\ \A i \in 1..Len(q) : s[Len(p) + i] = q[i]

\* As has p joined with q.
LEMMA JoinedElements ==
  ASSUME NEW B, NEW p \in Seq(B), NEW q \in Seq(B)
  PROVE  Cat(p, q) \in Seq(B) /\ Elements(Cat(p, q), p, q)
<1>1. p \o q \in Seq(B) /\ Len(p \o q) = Len(p) + Len(q)
  OBVIOUS
<1>2. \A i \in 1..Len(p) : (p \o q)[i] = p[i]
  OBVIOUS
<1>3. \A i \in 1..Len(q) : (p \o q)[Len(p) + i] = q[i]
  OBVIOUS
<1> QED
  BY <1>1, <1>2, <1>3, Zenon DEF Cat, Elements

\* The last two of three elements.
LEMMA FoldedRest ==
  ASSUME NEW a, NEW b, NEW c
  PROVE  SubSeq(Cat(Cat(<< a >>, << b >>), << c >>), 2, 3) = Cat(<< b >>, << c >>)
<1> DEFINE B == {a, b, c}
           s == Cat(Cat(<< a >>, << b >>), << c >>)
           t == Cat(<< b >>, << c >>)
<1>1. << a >> \in Seq(B) /\ << b >> \in Seq(B) /\ << c >> \in Seq(B)
      /\ Len(<< a >>) = 1 /\ Len(<< b >>) = 1 /\ Len(<< c >>) = 1
  <2>1. a \in B /\ b \in B /\ c \in B
    OBVIOUS
  <2> HIDE DEF B
  <2> QED
    BY <2>1, OfOne
<1>2. t \in Seq(B) /\ Len(t) = 2 /\ t[1] = b /\ t[2] = c
  BY <1>1 DEF Cat
<1>3. s \in Seq(B) /\ Len(s) = 3 /\ s[1] = a /\ s[2] = b /\ s[3] = c
  <2> DEFINE p == Cat(<< a >>, << b >>)
             q == << c >>
  <2>1. p \in Seq(B) /\ Len(p) = 2 /\ p[1] = a /\ p[2] = b
    <3> DEFINE l == << a >>
               r == << b >>
    <3>1. l \in Seq(B) /\ r \in Seq(B) /\ Len(l) = 1 /\ Len(r) = 1 /\ l[1] = a /\ r[1] = b
      BY <1>1
    <3> HIDE DEF l, r, B
    <3>2. Cat(l, r) \in Seq(B) /\ Elements(Cat(l, r), l, r)
      BY <3>1, JoinedElements
    <3>3. Len(Cat(l, r)) = 2 /\ Cat(l, r)[1] = a /\ Cat(l, r)[1 + 1] = b
      BY <3>1, <3>2 DEF Elements
    <3> QED
      BY <3>2, <3>3 DEF l, r
  <2>2. q \in Seq(B) /\ Len(q) = 1 /\ q[1] = c
    BY <1>1
  <2> HIDE DEF p, q, B
  <2>3. Cat(p, q) \in Seq(B) /\ Elements(Cat(p, q), p, q)
    BY <2>1, <2>2, JoinedElements
  <2>4. 2 + 1 = 3 /\ 1 \in 1..2 /\ 2 \in 1..2 /\ 1 \in 1..1
    OBVIOUS
  <2>5. Cat(p, q)[2 + 1] = q[1] /\ Cat(p, q)[1] = p[1] /\ Cat(p, q)[2] = p[2]
    BY <2>1, <2>2, <2>3, <2>4 DEF Elements
  <2> QED
    BY <2>1, <2>2, <2>3, <2>4, <2>5 DEF p, q, Elements
<1> HIDE DEF t, s
<1>4. SubSeq(s, 2, 3) = t
  <2> DEFINE u == SubSeq(s, 2, 3)
  <2>1. u \in Seq(B) /\ Len(u) = 2 /\ u[1] = s[2] /\ u[2] = s[3]
    BY <1>3
  <2> HIDE DEF u
  <2>2. \A i \in 1..2 : u[i] = t[i]
    BY <1>2, <1>3, <2>1
  <2>3. u = t
    BY <1>2, <2>1, <2>2, SeqEqual
  <2> QED
    BY <2>3 DEF u
<1> QED
  BY <1>4 DEF t, s

\* The first of three elements, and each of two.
LEMMA FoldedParts ==
  ASSUME NEW a, NEW b, NEW c
  PROVE  /\ SubSeq(<< a, c >>, 1, 1) = << a >> /\ SubSeq(<< a, c >>, 2, 2) = << c >>
         /\ SubSeq(Cat(Cat(<< a >>, << b >>), << c >>), 1, 1) = << a >>
<1> DEFINE B == {a, b, c}
           s == Cat(Cat(<< a >>, << b >>), << c >>)
<1>1. << a >> \in Seq(B) /\ << b >> \in Seq(B) /\ << c >> \in Seq(B)
      /\ Len(<< a >>) = 1 /\ Len(<< b >>) = 1 /\ Len(<< c >>) = 1
  <2>1. a \in B /\ b \in B /\ c \in B
    OBVIOUS
  <2> HIDE DEF B
  <2> QED
    BY <2>1, OfOne
<1>3. s \in Seq(B) /\ Len(s) = 3 /\ s[1] = a /\ s[2] = b /\ s[3] = c
  <2> DEFINE p == Cat(<< a >>, << b >>)
             q == << c >>
  <2>1. p \in Seq(B) /\ Len(p) = 2 /\ p[1] = a /\ p[2] = b
    <3> DEFINE t == << a >>
               u == << b >>
    <3>1. t \in Seq(B) /\ u \in Seq(B) /\ Len(t) = 1 /\ Len(u) = 1 /\ t[1] = a /\ u[1] = b
      BY <1>1
    <3> HIDE DEF t, u, B
    <3>2. Cat(t, u) \in Seq(B) /\ Elements(Cat(t, u), t, u)
      BY <3>1, JoinedElements
    <3>3. Len(Cat(t, u)) = 2 /\ Cat(t, u)[1] = a /\ Cat(t, u)[1 + 1] = b
      BY <3>1, <3>2 DEF Elements
    <3> QED
      BY <3>2, <3>3 DEF t, u
  <2>2. q \in Seq(B) /\ Len(q) = 1 /\ q[1] = c
    BY <1>1
  <2> HIDE DEF p, q, B
  <2>3. Cat(p, q) \in Seq(B) /\ Elements(Cat(p, q), p, q)
    BY <2>1, <2>2, JoinedElements
  <2>4. 2 + 1 = 3 /\ 1 \in 1..2 /\ 2 \in 1..2 /\ 1 \in 1..1
    OBVIOUS
  <2>5. Cat(p, q)[2 + 1] = q[1] /\ Cat(p, q)[1] = p[1] /\ Cat(p, q)[2] = p[2]
    BY <2>1, <2>2, <2>3, <2>4 DEF Elements
  <2> QED
    BY <2>1, <2>2, <2>3, <2>4, <2>5 DEF p, q, Elements
<1> HIDE DEF s
<1>5. SubSeq(s, 1, 1) = << a >>
  <2> DEFINE u == SubSeq(s, 1, 1)
  <2>1. u \in Seq(B) /\ Len(u) = 1 /\ u[1] = s[1]
    BY <1>3
  <2> HIDE DEF u
  <2>2. \A i \in 1..1 : u[i] = << a >>[i]
    BY <1>3, <2>1
  <2>3. u = << a >>
    BY <1>1, <2>1, <2>2, SeqEqual
  <2> QED
    BY <2>3 DEF u
<1>6. SubSeq(<< a, c >>, 1, 1) = << a >> /\ SubSeq(<< a, c >>, 2, 2) = << c >>
  <2> DEFINE p == << a, c >>
             u == SubSeq(p, 1, 1)
             v == SubSeq(p, 2, 2)
  <2>1. p \in Seq(B) /\ Len(p) = 2 /\ p[1] = a /\ p[2] = c
    OBVIOUS
  <2> HIDE DEF p
  <2>2. u \in Seq(B) /\ Len(u) = 1 /\ u[1] = a /\ v \in Seq(B) /\ Len(v) = 1 /\ v[1] = c
    BY <2>1
  <2> HIDE DEF u, v
  <2>3. (\A i \in 1..1 : u[i] = << a >>[i]) /\ (\A i \in 1..1 : v[i] = << c >>[i])
    BY <2>2
  <2>4. u = << a >> /\ v = << c >>
    BY <1>1, <2>2, <2>3, SeqEqual
  <2> QED
    BY <2>4 DEF u, v, p
<1> QED
  BY <1>5, <1>6 DEF s

\* Behind the headers comes an empty line, behind some of them the next one.
LEMMA HeadersShapes ==
  ASSUME NEW rs, Requests(rs), NEW k \in 1..Len(rs)
  PROVE  /\ HeadersOn(rs, k, NumHeaders(rs, k)) = EolOn(rs, k, "none", BodyOn(rs, k))
         /\ \A h \in 0..NumHeaders(rs, k) : HeadersOn(rs, k, h) \in Seq(From(k))
         /\ \A h \in 1..NumHeaders(rs, k) :
              HeadersOn(rs, k, h - 1) = Cat(HeaderBytes(k, rs[k], h), HeadersOn(rs, k, h))
         /\ HeadersOn(rs, k, 0)
              = Cat(Joined([h \in DOMAIN rs[k].headers |-> HeaderBytes(k, rs[k], h)],
                           NumHeaders(rs, k)),
                    EolOn(rs, k, "none", BodyOn(rs, k)))
<1> DEFINE n == NumHeaders(rs, k)
           s == [x \in DOMAIN rs[k].headers |-> HeaderBytes(k, rs[k], x)]
           rest == EolOn(rs, k, "none", BodyOn(rs, k))
           B == From(k)
<1>1. /\ k \in Nat /\ n \in Nat /\ DOMAIN rs[k].headers = 1..n /\ rs[k].headers \in Seq(HeaderKinds)
      /\ "none" \in LineKinds
  BY RequestFacts DEF LineKinds
<1>2. rest \in Seq(B)
  <2>1. BodyOn(rs, k) \in Seq(From(k))
    BY BodyShapes
  <2> QED
    BY <1>1, <2>1, SmallTypes
<1>3. ASSUME NEW x \in 1..n PROVE s[x] \in Seq(B)
  <2>1. HeaderBytes(k, rs[k], x) \in Seq(ByteOf(k))
    BY <1>1, HeaderTypes
  <2>2. HeaderBytes(k, rs[k], x) \in Seq(B)
    BY <1>1, <1>2, <2>1, OwnTypes
  <2> HIDE DEF B
  <2> QED
    BY <1>1, <2>2
<1>4. \A x : HeadersOn(rs, k, x) = Cat(Onward(s, x, n), rest)
  BY DEF HeadersOn, NumHeaders, Cat
<1>5. s = [x \in 1..n |-> s[x]] /\ \A x \in 1..n : s[x] = HeaderBytes(k, rs[k], x)
  BY <1>1
<1> HIDE DEF s, n, rest, B
<1>10. n \in Nat
  BY <1>1
<1>6. Groups(Seq(B)) /\ Cat(<<>>, rest) = rest
  <2>1. Groups(Seq(B))
    BY GroupsFreely
  <2>2. Cat(<<>>, rest) = rest
    BY <1>2, NothingFirst
  <2> QED
    BY <2>1, <2>2
<1>7. ASSUME NEW h \in 0..n
      PROVE  HeadersOn(rs, k, h) \in Seq(B) /\ Onward(s, h, n) \in Seq(B)
  <2>0. h \in Nat /\ h <= n
    BY <1>10
  <2>1. \A x \in (h + 1)..n : s[x] \in Seq(B)
    <3>1. \A x \in (h + 1)..n : x \in 1..n
      BY <1>10, <2>0
    <3> QED
      BY <1>3, <3>1
  <2>2. Onward(s, h, n) \in Seq(B)
    BY <1>10, <2>0, <2>1, OnwardType
  <2>3. Cat(Onward(s, h, n), rest) \in Seq(B)
    BY <1>2, <1>6, <2>2 DEF Groups
  <2>4. HeadersOn(rs, k, h) = Cat(Onward(s, h, n), rest)
    BY <1>4
  <2>5. HeadersOn(rs, k, h) \in Seq(B)
    BY <2>3, <2>4
  <2> QED
    BY <2>2, <2>5
<1>8. ASSUME NEW h \in 1..n
      PROVE  HeadersOn(rs, k, h - 1) = Cat(HeaderBytes(k, rs[k], h), HeadersOn(rs, k, h))
  <2>1. h - 1 \in Nat /\ h - 1 < n /\ (h - 1) + 1 = h /\ h \in 0..n
    BY <1>10
  <2>2. Onward(s, h - 1, n) = Cat(s[h], Onward(s, h, n))
    <3> DEFINE g == h - 1
    <3>1. g \in Nat /\ g < n /\ g + 1 = h
      BY <2>1
    <3> HIDE DEF g
    <3>2. Onward(s, g, n) = s[g + 1] \o Onward(s, g + 1, n)
      BY <1>1, <1>3, <3>1, OnwardNext
    <3> QED
      BY <3>1, <3>2 DEF Cat, g
  <2>3. s[h] \in Seq(B) /\ Onward(s, h, n) \in Seq(B)
    BY <1>3, <1>7, <2>1
  <2>4. Cat(Cat(s[h], Onward(s, h, n)), rest) = Cat(s[h], Cat(Onward(s, h, n), rest))
    BY <1>2, <1>6, <2>3 DEF Groups
  <2> QED
    BY <1>4, <1>5, <2>2, <2>4
<1>9. Onward(s, n, n) = <<>> /\ Onward(s, 0, n) = Joined(s, n)
  BY <1>1, <1>5, OnwardEnd, OnwardAll
<1> QED
  BY <1>4, <1>6, <1>7, <1>8, <1>9 DEF n, rest, B, s

\* The parts of a header.
LEMMA HeaderParts ==
  ASSUME NEW rs, Requests(rs), NEW k \in 1..Len(rs), NEW h \in 1..NumHeaders(rs, k)
  PROVE  /\ HeadersOn(rs, k, h) \in Seq(From(k)) /\ LineEndOn(rs, k, h) \in Seq(From(k))
         /\ SecondOn(rs, k, h) \in Seq(From(k)) /\ BothOn(rs, k, h) \in Seq(From(k))
         /\ FoldOn(rs, k, h) \in Seq(From(k)) /\ LateOn(rs, k, h) \in Seq(From(k))
         /\ EolOn(rs, k, "none", FoldOn(rs, k, h)) \in Seq(From(k))
         /\ EolOn(rs, k, "none", LateOn(rs, k, h)) \in Seq(From(k))
         /\ ValueOn(rs, k, h) \in Seq(From(k)) /\ ColonOn(rs, k, h) \in Seq(From(k))
         /\ NameOn(rs, k, h) \in Seq(From(k))
<1> DEFINE Q == Seq(From(k))
<1>1. /\ k \in Nat /\ h \in Nat /\ Kind(rs, k, h) \in HeaderKinds
      /\ h \in 0..NumHeaders(rs, k)
  BY RequestFacts DEF Kind
<1>2. HeadersOn(rs, k, h) \in Q
  BY <1>1, HeadersShapes
<1>3. ASSUME NEW s \in Q
      PROVE  /\ EolOn(rs, k, "none", s) \in Q /\ SpaceOn(k, s) \in Q
             /\ Cons(PieceByte(k, "value", h, 1), s) \in Q
             /\ Cons(PieceByte(k, "value", h, 2), s) \in Q
             /\ Cons(SingleByte(k, "colon", "none"), s) \in Q
             /\ Cons(NameByte(k, Kind(rs, k, h), 2), s) \in Q
  <2>1. "value" \in ByteClasses /\ "colon" \in ByteClasses /\ "none" \in LineKinds
        /\ 1 \in Nat /\ 2 \in Nat
    BY DEF ByteClasses, LineKinds
  <2>2. SingleByte(k, "colon", "none") \in From(k) /\ NameByte(k, Kind(rs, k, h), 2) \in From(k)
    BY <1>1, <2>1, ByteTypes
  <2>3. Cons(SingleByte(k, "colon", "none"), s) \in Q /\ Cons(NameByte(k, Kind(rs, k, h), 2), s) \in Q
    <3> DEFINE B == From(k)
               c == SingleByte(k, "colon", "none")
               d == NameByte(k, Kind(rs, k, h), 2)
    <3>1. c \in B /\ d \in B /\ s \in Seq(B)
      BY <2>2
    <3> HIDE DEF B, c, d
    <3>2. Cons(c, s) \in Seq(B) /\ Cons(d, s) \in Seq(B)
      BY <3>1, ConsParts
    <3> QED
      BY <3>2 DEF B, c, d
  <2>4. /\ EolOn(rs, k, "none", s) \in Q /\ SpaceOn(k, s) \in Q
        /\ Cons(PieceByte(k, "value", h, 1), s) \in Q
        /\ Cons(PieceByte(k, "value", h, 2), s) \in Q
    BY <1>1, <2>1, SmallTypes
  <2> QED
    BY <2>3, <2>4
<1> HIDE DEF Q
<1>4. LineEndOn(rs, k, h) \in Q
  BY <1>2, <1>3 DEF LineEndOn
<1>5. SecondOn(rs, k, h) \in Q
  BY <1>3, <1>4 DEF SecondOn
<1>6. BothOn(rs, k, h) \in Q /\ FoldOn(rs, k, h) \in Q
  BY <1>3, <1>5 DEF BothOn, FoldOn
<1>7. LateOn(rs, k, h) \in Q
  BY <1>3, <1>6 DEF LateOn
<1>8. EolOn(rs, k, "none", FoldOn(rs, k, h)) \in Q /\ EolOn(rs, k, "none", LateOn(rs, k, h)) \in Q
  BY <1>3, <1>6, <1>7
<1>9. ValueOn(rs, k, h) \in Q
  BY <1>3, <1>4, <1>7, <1>8 DEF ValueOn, Kind
<1>10. ColonOn(rs, k, h) \in Q
  BY <1>3, <1>9 DEF ColonOn
<1>11. NameOn(rs, k, h) \in Q
  BY <1>3, <1>10 DEF NameOn, Kind
<1> QED
  BY <1>2, <1>4, <1>5, <1>6, <1>7, <1>8, <1>9, <1>10, <1>11 DEF Q

\* The bytes of a header's value, and those of a folded one by lines.
LEMMA ValueParts ==
  ASSUME NEW k, NEW h
  PROVE  LET a == PieceByte(k, "value", h, 1)
             c == PieceByte(k, "value", h, 2)
             p == Part(k, "value", h, 2)
             v == ValueBytes(k, h, "folded")
         IN  /\ p = << a, c >> /\ p = Cat(<< a >>, << c >>)
             /\ v = Cat(Cat(<< a >>, One(k, "space", "none")), << c >>)
             /\ SubSeq(v, 1, 1) = << a >> /\ SubSeq(v, 2, 3) = Cat(One(k, "space", "none"), << c >>)
<1> DEFINE a == PieceByte(k, "value", h, 1)
           c == PieceByte(k, "value", h, 2)
           b == SingleByte(k, "space", "none")
           p == Part(k, "value", h, 2)
           v == ValueBytes(k, h, "folded")
<1>1. p = << a, c >>
  <2>1. \A n : Part(k, "value", h, n) = [i \in 1..n |-> PieceByte(k, "value", h, i)]
    BY DEF Part, PieceByte
  <2>2. [i \in 1..2 |-> PieceByte(k, "value", h, i)] = << a, c >>
    OBVIOUS
  <2> QED
    BY <2>1, <2>2
<1>2. One(k, "space", "none") = << b >>
  BY DEF One, SingleByte
<1>3. v = Cat(Cat(SubSeq(p, 1, 1), One(k, "space", "none")), SubSeq(p, 2, 2))
  BY DEF ValueBytes, Cat
<1> HIDE DEF a, b, c, v, p
<1>4. SubSeq(p, 1, 1) = << a >> /\ SubSeq(p, 2, 2) = << c >>
  BY <1>1, FoldedParts
<1>5. v = Cat(Cat(<< a >>, << b >>), << c >>)
  BY <1>2, <1>3, <1>4
<1>6. SubSeq(v, 1, 1) = << a >> /\ SubSeq(v, 2, 3) = Cat(<< b >>, << c >>)
  <2> DEFINE w == Cat(Cat(<< a >>, << b >>), << c >>)
  <2>1. SubSeq(w, 1, 1) = << a >>
    BY FoldedParts, Zenon
  <2>2. SubSeq(w, 2, 3) = Cat(<< b >>, << c >>)
    BY FoldedRest, Zenon
  <2> HIDE DEF w
  <2>3. v = w
    BY <1>5 DEF w
  <2> QED
    BY <2>1, <2>2, <2>3
<1>7. p = Cat(<< a >>, << c >>)
  BY <1>1, PairIs DEF Cat
<1> QED
  BY <1>1, <1>2, <1>5, <1>6, <1>7 DEF a, b, c, v, p

\* A header: its name, a colon, and its value with the line's end.
LEMMA HeaderShapes ==
  ASSUME NEW rs, Requests(rs), NEW k \in 1..Len(rs), NEW h \in 1..NumHeaders(rs, k)
  PROVE  HeadersOn(rs, k, h - 1) = Cons(NameByte(k, Kind(rs, k, h), 1), NameOn(rs, k, h))
<1> DEFINE r == rs[k]
           kind == Kind(rs, k, h)
           Q == Seq(From(k))
           e == Eol(k, r, "none")
           sp == One(k, "space", "none")
           a == << PieceByte(k, "value", h, 1) >>
           c == << PieceByte(k, "value", h, 2) >>
           v == ValueBytes(k, h, kind)
           H == HeadersOn(rs, k, h)
           line == CASE kind = "empty" -> e
                     [] kind = "late" -> Cat(Cat(Cat(e, sp), v), e)
                     [] kind = "folded" ->
                          Cat(Cat(Cat(SubSeq(v, 1, 1), e), SubSeq(v, 2, 3)), e)
                     [] OTHER -> Cat(Cat(sp, v), e)
           m == NameByte(k, kind, 1)
           n == NameByte(k, kind, 2)
           colon == One(k, "colon", "none")
<1>1. /\ k \in Nat /\ h \in Nat /\ kind \in HeaderKinds /\ r.headers[h] = kind
  BY RequestFacts DEF Kind
<1>2. HeadersOn(rs, k, h - 1) = Cat(HeaderBytes(k, r, h), H)
  BY HeadersShapes
<1>3. HeaderBytes(k, r, h) = Cat(Cat(NameBytes(k, kind), colon), line)
  BY <1>1 DEF HeaderBytes, Cat
<1>4. NameBytes(k, kind) = Cat(<< m >>, << n >>)
  <2>1. NameBytes(k, kind) = << m, n >>
    BY DEF NameBytes, NameByte
  <2> HIDE DEF m, n
  <2> QED
    BY <2>1, PairIs DEF Cat
<1>5. Groups(Q)
  BY GroupsFreely
<1>6. /\ e \in Q /\ sp \in Q /\ a \in Q /\ c \in Q /\ << m >> \in Q /\ << n >> \in Q /\ colon \in Q
      /\ H \in Q /\ LineEndOn(rs, k, h) \in Q /\ SecondOn(rs, k, h) \in Q /\ BothOn(rs, k, h) \in Q
      /\ FoldOn(rs, k, h) \in Q /\ LateOn(rs, k, h) \in Q
      /\ EolOn(rs, k, "none", FoldOn(rs, k, h)) \in Q /\ EolOn(rs, k, "none", LateOn(rs, k, h)) \in Q
      /\ ValueOn(rs, k, h) \in Q /\ ColonOn(rs, k, h) \in Q
  <2>1. e \in Seq(ByteOf(k)) /\ sp \in Seq(ByteOf(k)) /\ colon \in Seq(ByteOf(k))
    BY EolTypes, OneType DEF ByteClasses
  <2>2. <<>> \in Q
    OBVIOUS
  <2>3. e \in Q /\ sp \in Q /\ colon \in Q
    BY <1>1, <2>1, <2>2, OwnTypes
  <2>4. /\ PieceByte(k, "value", h, 1) \in From(k) /\ PieceByte(k, "value", h, 2) \in From(k)
        /\ m \in From(k) /\ n \in From(k)
    BY <1>1, ByteTypes DEF ByteClasses
  <2>5. a \in Q /\ c \in Q /\ << m >> \in Q /\ << n >> \in Q
    <3> DEFINE B == From(k)
               x == PieceByte(k, "value", h, 1)
               y == PieceByte(k, "value", h, 2)
    <3>1. x \in B /\ y \in B /\ m \in B /\ n \in B
      BY <2>4
    <3> HIDE DEF x, y, m, n, B
    <3>2. << x >> \in Seq(B) /\ << y >> \in Seq(B) /\ << m >> \in Seq(B) /\ << n >> \in Seq(B)
      BY <3>1, OfOne
    <3> QED
      BY <3>2 DEF x, y, B
  <2> QED
    BY <2>3, <2>5, HeaderParts
<1>7. ASSUME NEW s \in Q
      PROVE  /\ Cat(sp, s) = SpaceOn(k, s) /\ Cat(e, s) = EolOn(rs, k, "none", s)
             /\ Cat(colon, s) = Cons(SingleByte(k, "colon", "none"), s)
  <2>1. "none" \in LineKinds
    BY DEF LineKinds
  <2> QED
    BY <1>1, <2>1, SmallShapes DEF Cat
<1>8. \A b, s : Cat(<< b >>, s) = Cons(b, s)
  BY DEF Cat, Cons
<1>9. /\ v = IF kind = "empty" THEN <<>> ELSE IF kind = "folded" THEN Cat(Cat(a, sp), c)
             ELSE Cat(a, c)
      /\ kind = "folded" => SubSeq(v, 1, 1) = a /\ SubSeq(v, 2, 3) = Cat(sp, c)
  <2>1. kind = "folded" => v = ValueBytes(k, h, "folded")
    OBVIOUS
  <2>2. kind # "folded" => v = IF kind = "empty" THEN <<>> ELSE Part(k, "value", h, 2)
    BY DEF ValueBytes
  <2> HIDE DEF v, kind
  <2> QED
    BY <2>1, <2>2, ValueParts
<1>10. Cat(e, H) = LineEndOn(rs, k, h)
  BY <1>6, <1>7 DEF LineEndOn
<1>11. Cat(c, LineEndOn(rs, k, h)) = SecondOn(rs, k, h)
  BY <1>8 DEF SecondOn
<1>12. Cat(a, SecondOn(rs, k, h)) = BothOn(rs, k, h)
  BY <1>8 DEF BothOn
<1>13. Cat(sp, BothOn(rs, k, h)) = LateOn(rs, k, h) /\ Cat(sp, SecondOn(rs, k, h)) = FoldOn(rs, k, h)
  BY <1>6, <1>7 DEF LateOn, FoldOn
<1>14. Cat(e, FoldOn(rs, k, h)) = EolOn(rs, k, "none", FoldOn(rs, k, h))
       /\ Cat(e, LateOn(rs, k, h)) = EolOn(rs, k, "none", LateOn(rs, k, h))
  BY <1>6, <1>7
<1>15. Cat(a, EolOn(rs, k, "none", FoldOn(rs, k, h)))
         = Cons(PieceByte(k, "value", h, 1), EolOn(rs, k, "none", FoldOn(rs, k, h)))
  BY <1>8
<1>16. Cat(colon, ValueOn(rs, k, h)) = ColonOn(rs, k, h)
  BY <1>6, <1>7 DEF ColonOn
<1>17. Cat(<< n >>, ColonOn(rs, k, h)) = NameOn(rs, k, h)
  BY <1>8 DEF NameOn, Kind
<1>18. ValueOn(rs, k, h) =
         CASE kind = "empty" -> LineEndOn(rs, k, h)
           [] kind = "late" -> EolOn(rs, k, "none", LateOn(rs, k, h))
           [] kind = "folded" ->
                Cons(PieceByte(k, "value", h, 1), EolOn(rs, k, "none", FoldOn(rs, k, h)))
           [] OTHER -> LateOn(rs, k, h)
  BY DEF ValueOn, Kind
<1> HIDE DEF r, kind, Q, e, sp, a, c, v, H, line, m, n, colon
<1>19. Cat(line, H) = ValueOn(rs, k, h) /\ line \in Q
  <2>1. CASE kind = "empty"
    BY <1>6, <1>10, <1>18, <2>1 DEF line
  <2>2. CASE kind = "late"
    <3>1. line = Cat(Cat(Cat(e, sp), Cat(a, c)), e)
      BY <1>9, <2>2 DEF line
    <3>0. e \in Q /\ sp \in Q /\ a \in Q /\ c \in Q /\ H \in Q
      BY <1>6
    <3>2. Cat(e, sp) \in Q /\ Cat(a, c) \in Q
      BY <1>5, <3>0 DEF Groups
    <3>6. e \in Q /\ sp \in Q /\ Cat(a, c) \in Q /\ H \in Q
      BY <3>0, <3>2
    <3>3. Cat(Cat(Cat(e, sp), Cat(a, c)), e) \in Q
      BY <1>5, <3>2, <3>6, GroupsClosed
    <3>4. Cat(Cat(Cat(Cat(e, sp), Cat(a, c)), e), H) = Cat(e, Cat(sp, Cat(Cat(a, c), Cat(e, H))))
      BY <1>5, <3>6, RegroupFive
    <3>7. LineEndOn(rs, k, h) \in Q
      BY <1>6
    <3>5. Cat(Cat(a, c), LineEndOn(rs, k, h)) = BothOn(rs, k, h)
      BY <1>5, <3>0, <3>7, <1>11, <1>12 DEF Groups
    <3> QED
      BY <1>10, <1>13, <1>14, <1>18, <2>2, <3>1, <3>3, <3>4, <3>5
  <2>3. CASE kind = "folded"
    <3>1. line = Cat(Cat(Cat(a, e), Cat(sp, c)), e)
      BY <1>9, <2>3 DEF line
    <3>0. e \in Q /\ sp \in Q /\ a \in Q /\ c \in Q /\ H \in Q
      BY <1>6
    <3>2. Cat(a, e) \in Q /\ Cat(sp, c) \in Q
      BY <1>5, <3>0 DEF Groups
    <3>6. e \in Q /\ a \in Q /\ Cat(sp, c) \in Q /\ H \in Q
      BY <3>0, <3>2
    <3>3. Cat(Cat(Cat(a, e), Cat(sp, c)), e) \in Q
      BY <1>5, <3>2, <3>6, GroupsClosed
    <3>4. Cat(Cat(Cat(Cat(a, e), Cat(sp, c)), e), H) = Cat(a, Cat(e, Cat(Cat(sp, c), Cat(e, H))))
      BY <1>5, <3>6, RegroupFive
    <3>7. LineEndOn(rs, k, h) \in Q
      BY <1>6
    <3>5. Cat(Cat(sp, c), LineEndOn(rs, k, h)) = FoldOn(rs, k, h)
      BY <1>5, <3>0, <3>7, <1>11, <1>13 DEF Groups
    <3> QED
      BY <1>10, <1>14, <1>15, <1>18, <2>3, <3>1, <3>3, <3>4, <3>5
  <2>4. CASE kind \notin {"empty", "late", "folded"}
    <3>1. line = Cat(Cat(sp, Cat(a, c)), e) /\ ValueOn(rs, k, h) = LateOn(rs, k, h)
      BY <1>9, <1>18, <2>4 DEF line
    <3>0. e \in Q /\ sp \in Q /\ a \in Q /\ c \in Q /\ H \in Q
      BY <1>6
    <3>2. Cat(a, c) \in Q
      BY <1>5, <3>0 DEF Groups
    <3>6. e \in Q /\ sp \in Q /\ Cat(a, c) \in Q /\ H \in Q
      BY <3>0, <3>2
    <3>3. Cat(Cat(sp, Cat(a, c)), e) \in Q
      BY <1>5, <3>6, GroupsClosed
    <3>4. Cat(Cat(Cat(sp, Cat(a, c)), e), H) = Cat(sp, Cat(Cat(a, c), Cat(e, H)))
      BY <1>5, <3>6, Regroup
    <3>7. LineEndOn(rs, k, h) \in Q
      BY <1>6
    <3>5. Cat(Cat(a, c), LineEndOn(rs, k, h)) = BothOn(rs, k, h)
      BY <1>5, <3>0, <3>7, <1>11, <1>12 DEF Groups
    <3> QED
      BY <1>10, <1>13, <3>1, <3>3, <3>4, <3>5
  <2> QED
    BY <2>1, <2>2, <2>3, <2>4
<1>20. Cat(Cat(Cat(Cat(<< m >>, << n >>), colon), line), H)
         = Cat(<< m >>, Cat(<< n >>, Cat(colon, Cat(line, H))))
  <2>1. << m >> \in Q /\ << n >> \in Q /\ colon \in Q /\ line \in Q /\ H \in Q
    BY <1>6, <1>19
  <2> QED
    BY <1>5, <2>1, RegroupFive
<1>21. HeadersOn(rs, k, h - 1) = Cat(<< m >>, NameOn(rs, k, h))
  BY <1>2, <1>3, <1>4, <1>16, <1>17, <1>19, <1>20
<1> QED
  BY <1>8, <1>21 DEF m, kind

\* Two bytes of a piece.
LEMMA PairShape ==
  ASSUME NEW k \in Nat, NEW class \in ByteClasses \ {"name"}, NEW s \in Seq(From(k))
  PROVE  /\ Cat(Part(k, class, 0, 2), s)
              = Cons(PieceByte(k, class, 0, 1), Cons(PieceByte(k, class, 0, 2), s))
         /\ Part(k, class, 0, 2) \in Seq(From(k))
         /\ Cons(PieceByte(k, class, 0, 2), s) \in Seq(From(k))
         /\ Cons(PieceByte(k, class, 0, 1), Cons(PieceByte(k, class, 0, 2), s)) \in Seq(From(k))
<1> DEFINE p(i) == PieceOn(k, class, 0, i, 2, s)
<1>1. /\ 0 \in 0..(2 - 1) /\ 1 \in 0..(2 - 1) /\ 0 + 1 = 1 /\ 1 + 1 = 2
      /\ 0 \in Nat /\ 1 \in Nat /\ 2 \in Nat /\ class \in ByteClasses /\ 0 \in 0..2 /\ 1 \in 0..2
  OBVIOUS
<1>2. /\ p(2) = s /\ Cat(Part(k, class, 0, 2), s) = p(0)
      /\ p(0) \in Seq(From(k)) /\ p(1) \in Seq(From(k))
      /\ \A i \in 0..(2 - 1) : p(i) = Cons(PieceByte(k, class, 0, i + 1), p(i + 1))
  <2>1. Piecewise(k, class, 0, 2, s)
    BY <1>1, PieceShapes
  <2> QED
    BY <1>1, <2>1 DEF Piecewise
<1> HIDE DEF p
<1>3. p(1) = Cons(PieceByte(k, class, 0, 2), s)
      /\ p(0) = Cons(PieceByte(k, class, 0, 1), Cons(PieceByte(k, class, 0, 2), s))
  BY <1>1, <1>2
<1>4. Part(k, class, 0, 2) \in Seq(From(k))
  <2>1. Part(k, class, 0, 2) \in Seq(ByteOf(k))
    BY <1>1, PartType
  <2> QED
    BY <2>1, OwnTypes
<1> QED
  BY <1>2, <1>3, <1>4

\* The request line and what comes behind it, from the end.
LEMMA LineParts ==
  ASSUME NEW rs, Requests(rs), NEW k \in 1..Len(rs)
  PROVE  /\ HeadersOn(rs, k, 0) \in Seq(From(k)) /\ LineEndOn(rs, k, 0) \in Seq(From(k))
         /\ MinorOn(rs, k) \in Seq(From(k)) /\ VersionOn(rs, k) \in Seq(From(k))
         /\ UrlEndOn(rs, k) \in Seq(From(k))
         /\ \A i \in 0..rs[k].url : UrlOn(rs, k, i) \in Seq(From(k))
         /\ UrlOn(rs, k, rs[k].url) = UrlEndOn(rs, k)
         /\ \A i \in 0..(rs[k].url - 1) :
              UrlOn(rs, k, i) = Cons(PieceByte(k, "url", 0, i + 1), UrlOn(rs, k, i + 1))
         /\ MethodEndOn(rs, k) \in Seq(From(k)) /\ MethodOn(rs, k) \in Seq(From(k))
         /\ LineOn(rs, k) \in Seq(From(k))
<1> DEFINE Q == Seq(From(k))
<1>1. /\ k \in Nat /\ rs[k].url \in Nat /\ 0 \in 0..NumHeaders(rs, k) /\ 0 \in 0..rs[k].url
      /\ "none" \in LineKinds /\ "url" \in LineKinds
  BY RequestFacts DEF LineKinds
<1>2. HeadersOn(rs, k, 0) \in Q
  BY <1>1, HeadersShapes
<1>3. LineEndOn(rs, k, 0) \in Q
  BY <1>1, <1>2, SmallTypes DEF LineEndOn
<1>4. MinorOn(rs, k) \in Q /\ VersionOn(rs, k) \in Q
  <2>1. "version" \in ByteClasses \ {"name"}
    BY DEF ByteClasses
  <2> QED
    BY <1>1, <1>3, <2>1, PairShape DEF MinorOn, VersionOn
<1>5. UrlEndOn(rs, k) \in Q
  <2>1. CASE rs[k].version
    <3> DEFINE B == From(k)
               b == SingleByte(k, "space", "url")
               s == VersionOn(rs, k)
    <3>1. b \in B /\ s \in Seq(B)
      BY <1>1, <1>4, ByteTypes DEF ByteClasses
    <3>2. UrlEndOn(rs, k) = Cons(b, s)
      BY <2>1 DEF UrlEndOn
    <3> HIDE DEF B, b, s
    <3>3. Cons(b, s) \in Seq(B)
      BY <3>1, ConsParts
    <3> QED
      BY <3>2, <3>3 DEF B
  <2>2. CASE ~rs[k].version
    BY <1>1, <1>2, <2>2, SmallTypes DEF UrlEndOn
  <2> QED
    BY <2>1, <2>2
<1>6. /\ \A i \in 0..rs[k].url : UrlOn(rs, k, i) \in Q
      /\ UrlOn(rs, k, rs[k].url) = UrlEndOn(rs, k)
      /\ \A i \in 0..(rs[k].url - 1) :
           UrlOn(rs, k, i) = Cons(PieceByte(k, "url", 0, i + 1), UrlOn(rs, k, i + 1))
  <2> DEFINE n == rs[k].url
             s == UrlEndOn(rs, k)
  <2>1. "url" \in ByteClasses /\ 0 \in Nat /\ n \in Nat /\ s \in Seq(From(k))
    BY <1>1, <1>5 DEF ByteClasses
  <2>2. \A i : UrlOn(rs, k, i) = PieceOn(k, "url", 0, i, n, s)
    BY DEF UrlOn
  <2> HIDE DEF n, s
  <2>3. Piecewise(k, "url", 0, n, s)
    BY <1>1, <2>1, PieceShapes
  <2> QED
    BY <2>2, <2>3 DEF n, s, Piecewise
<1>7. MethodEndOn(rs, k) \in Q
  BY <1>1, <1>6, SmallTypes DEF MethodEndOn
<1>8. MethodOn(rs, k) \in Q /\ LineOn(rs, k) \in Q
  <2>1. "method" \in ByteClasses \ {"name"}
    BY DEF ByteClasses
  <2> QED
    BY <1>1, <1>7, <2>1, PairShape DEF MethodOn, LineOn
<1> QED
  BY <1>2, <1>3, <1>4, <1>5, <1>6, <1>7, <1>8

\* Eight sequences and what follows them.
Regroups(a, b, c, d, e, f, g, h, s) ==
  Cat(Cat(Cat(Cat(Cat(Cat(Cat(Cat(a, b), c), d), e), f), g), h), s)
    = Cat(a, Cat(b, Cat(c, Cat(d, Cat(e, Cat(f, Cat(g, Cat(h, s))))))))

\* They can be joined from the left and from the right.
LEMMA RegroupEight ==
  ASSUME NEW Q, Groups(Q), NEW a \in Q, NEW b \in Q, NEW c \in Q, NEW d \in Q, NEW e \in Q,
         NEW f \in Q, NEW g \in Q, NEW h \in Q, NEW s \in Q
  PROVE  Regroups(a, b, c, d, e, f, g, h, s)
<1> DEFINE p == Cat(a, b)
           p1 == Cat(p, c)
           p2 == Cat(p1, d)
           p3 == Cat(p2, e)
           p4 == Cat(p3, f)
           p5 == Cat(p4, g)
           q == Cat(h, s)
           q1 == Cat(g, q)
           q2 == Cat(f, q1)
           q3 == Cat(e, q2)
           q4 == Cat(d, q3)
           q5 == Cat(c, q4)
<1>1. p \in Q
  BY DEF Groups
<1>2. q \in Q
  BY DEF Groups
<1> HIDE DEF p, q
<1>3. p1 \in Q
  BY <1>1 DEF Groups
<1> HIDE DEF p1
<1>4. p2 \in Q
  BY <1>3 DEF Groups
<1> HIDE DEF p2
<1>5. p3 \in Q
  BY <1>4 DEF Groups
<1> HIDE DEF p3
<1>6. p4 \in Q
  BY <1>5 DEF Groups
<1> HIDE DEF p4
<1>7. p5 \in Q
  BY <1>6 DEF Groups
<1> HIDE DEF p5
<1>8. q1 \in Q
  BY <1>2 DEF Groups
<1> HIDE DEF q1
<1>9. q2 \in Q
  BY <1>8 DEF Groups
<1> HIDE DEF q2
<1>10. q3 \in Q
  BY <1>9 DEF Groups
<1> HIDE DEF q3
<1>11. q4 \in Q
  BY <1>10 DEF Groups
<1> HIDE DEF q4
<1>12. q5 \in Q
  BY <1>11 DEF Groups
<1> HIDE DEF q5
<1>13. Cat(Cat(p5, h), s) = Cat(p5, q)
  BY <1>7 DEF Groups, q
<1>14. Cat(p5, q) = Cat(p4, q1)
  BY <1>6, <1>2 DEF Groups, p5, q1
<1>15. Cat(p4, q1) = Cat(p3, q2)
  BY <1>5, <1>8 DEF Groups, p4, q2
<1>16. Cat(p3, q2) = Cat(p2, q3)
  BY <1>4, <1>9 DEF Groups, p3, q3
<1>17. Cat(p2, q3) = Cat(p1, q4)
  BY <1>3, <1>10 DEF Groups, p2, q4
<1>18. Cat(p1, q4) = Cat(p, q5)
  BY <1>1, <1>11 DEF Groups, p1, q5
<1>19. Cat(p, q5) = Cat(a, Cat(b, q5))
  BY <1>12 DEF Groups, p
<1>20. Cat(Cat(p5, h), s) = Cat(a, Cat(b, q5))
  BY <1>13, <1>14, <1>15, <1>16, <1>17, <1>18, <1>19
<1> QED
  BY <1>20 DEF p, p1, p2, p3, p4, p5, q, q1, q2, q3, q4, q5, Regroups

\* Behind a request comes the next one.
LEMMA RestShapes ==
  ASSUME NEW rs, Requests(rs), NEW k \in 1..Len(rs)
  PROVE  RestOn(rs, k - 1) = IF rs[k].blank THEN EolOn(rs, k, "none", LineOn(rs, k)) ELSE LineOn(rs, k)
<1> DEFINE n == Len(rs)
           s == [j \in DOMAIN rs |-> Unspoiled(j, rs[j])]
           r == rs[k]
           Q == Seq(From(k))
           X == IF r.blank THEN Eol(k, r, "none") ELSE <<>>
           M == Part(k, "method", 0, 2)
           S == One(k, "space", "none")
           U == Part(k, "url", 0, r.url)
           V == IF r.version THEN Cat(Cat(One(k, "space", "url"), Part(k, "version", 0, 2)), Eol(k, r, "none"))
                ELSE Eol(k, r, "url")
           D == Joined([h \in DOMAIN r.headers |-> HeaderBytes(k, r, h)], NumHeaders(rs, k))
           E == Eol(k, r, "none")
           F == BodyBytes(k, r)
           T == RestOn(rs, k)
<1>1. /\ k \in Nat /\ n \in Nat /\ DOMAIN rs = 1..n /\ IsRequest(r)
      /\ r.url \in Nat /\ k \in 0..n /\ r.headers \in Seq(HeaderKinds)
      /\ NumHeaders(rs, k) \in Nat /\ DOMAIN r.headers = 1..NumHeaders(rs, k)
      /\ k - 1 \in Nat /\ k - 1 < n /\ (k - 1) + 1 = k
  <2>1. k \in 1..n /\ n \in Nat
    BY RequestFacts
  <2>2. k - 1 \in Nat /\ k - 1 < n /\ (k - 1) + 1 = k /\ k \in 0..n
    BY <2>1
  <2>3. DOMAIN rs = 1..n
    BY DEF Requests
  <2> QED
    BY <2>1, <2>2, <2>3, RequestFacts
<1>2. \A x : RestOn(rs, x) = Onward(s, x, n)
  BY DEF RestOn
<1>3. \A x \in 1..n : s[x] = Unspoiled(x, rs[x])
  BY <1>1
<1>0. \A x \in 1..n : s[x] \in Seq(UNION {ByteOf(y) : y \in 1..n})
  <2> SUFFICES ASSUME NEW x \in 1..n PROVE s[x] \in Seq(UNION {ByteOf(y) : y \in 1..n})
    OBVIOUS
  <2> DEFINE C == ByteOf(x)
             B == UNION {ByteOf(y) : y \in 1..n}
  <2>1. IsRequest(rs[x])
    BY RequestFacts
  <2>2. s[x] \in Seq(C) /\ C \subseteq B
    BY <1>3, <2>1, UnspoiledTypes
  <2> HIDE DEF C, B, s
  <2>3. s[x] \in Seq(B)
    BY <2>2
  <2> QED
    BY <2>3 DEF B
<1>4. RestOn(rs, k - 1) = Cat(Unspoiled(k, r), T)
  <2> DEFINE g == k - 1
             B == UNION {ByteOf(y) : y \in 1..n}
  <2>1. g \in Nat /\ g < n /\ g + 1 = k /\ k \in 1..n
    BY <1>1
  <2> HIDE DEF g, s, B, n
  <2>2. Onward(s, g, n) = s[g + 1] \o Onward(s, g + 1, n)
    <3>1. n \in Nat /\ \A x \in 1..n : s[x] \in Seq(B)
      BY <1>0, <1>1 DEF B
    <3> QED
      BY <2>1, <3>1, OnwardNext
  <2>3. RestOn(rs, g) = Unspoiled(k, r) \o T
    BY <1>2, <1>3, <2>1, <2>2
  <2> QED
    BY <2>3 DEF g, Cat
<1>5. Unspoiled(k, r) = Cat(Cat(Cat(Cat(Cat(Cat(Cat(X, M), S), U), V), D), E), F)
  BY DEF Unspoiled, Cat, NumHeaders
<1>6. Groups(Q)
  BY GroupsFreely
<1>20. "none" \in LineKinds /\ "url" \in LineKinds /\ "method" \in ByteClasses \ {"name"}
       /\ "version" \in ByteClasses \ {"name"} /\ "url" \in ByteClasses
       /\ "url" \in ByteClasses \ {"name"} /\ "space" \in ByteClasses \ {"name"} /\ 0 \in Nat /\ 2 \in Nat
  BY DEF LineKinds, ByteClasses
<1>7. /\ M \in Q /\ S \in Q /\ U \in Q /\ D \in Q /\ E \in Q /\ F \in Q /\ T \in Q
      /\ One(k, "space", "url") \in Q /\ Part(k, "version", 0, 2) \in Q /\ Eol(k, r, "url") \in Q
      /\ <<>> \in Q
  <2> DEFINE B == ByteOf(k)
  <2>1. \A t \in Seq(B) : t \in Q
    <3>1. <<>> \in Q
      OBVIOUS
    <3> QED
      BY <1>1, <3>1, OwnTypes
  <2>2. M \in Seq(B) /\ Part(k, "version", 0, 2) \in Seq(B)
    BY <1>20, PartType
  <2>3. U \in Seq(B)
    BY <1>1, <1>20, PartType
  <2>4. S \in Seq(B) /\ One(k, "space", "url") \in Seq(B)
    BY <1>20, OneType
  <2>5. E \in Seq(B) /\ Eol(k, r, "url") \in Seq(B)
    BY EolTypes
  <2>6. F \in Seq(B)
    BY <1>1, BodyTypes
  <2>7. D \in Seq(B)
    <3> DEFINE m == NumHeaders(rs, k)
               t == [h \in DOMAIN r.headers |-> HeaderBytes(k, r, h)]
    <3>1. \A h \in 1..m : t[h] \in Seq(B)
      BY <1>1, HeaderTypes
    <3>2. m \in Nat
      BY <1>1
    <3> HIDE DEF m, t, B
    <3>3. Joined(t, m) \in Seq(B)
      BY <3>1, <3>2, JoinedType
    <3> QED
      BY <3>3 DEF m, t
  <2>8. T \in Q
    BY <1>1, RestTypes
  <2>9. <<>> \in Q
    OBVIOUS
  <2> HIDE DEF B, Q, M, S, U, D, E, F, T
  <2> QED
    BY <2>1, <2>2, <2>3, <2>4, <2>5, <2>6, <2>7, <2>8, <2>9
<1>8. /\ HeadersOn(rs, k, 0) \in Q /\ UrlEndOn(rs, k) \in Q /\ UrlOn(rs, k, 0) \in Q
      /\ MethodEndOn(rs, k) \in Q /\ LineOn(rs, k) \in Q /\ BodyOn(rs, k) \in Q
      /\ LineEndOn(rs, k, 0) \in Q /\ VersionOn(rs, k) \in Q
  <2>1. 0 \in 0..r.url
    BY <1>1
  <2> QED
    BY <2>1, LineParts, BodyShapes
<1>9. ASSUME NEW t \in Q
      PROVE  /\ Cat(S, t) = SpaceOn(k, t) /\ Cat(E, t) = EolOn(rs, k, "none", t)
             /\ Cat(Eol(k, r, "url"), t) = EolOn(rs, k, "url", t)
             /\ Cat(One(k, "space", "url"), t) = Cons(SingleByte(k, "space", "url"), t)
  <2>1. /\ One(k, "space", "none") \o t = SpaceOn(k, t)
        /\ One(k, "space", "url") \o t = Cons(SingleByte(k, "space", "url"), t)
        /\ \A kind \in LineKinds : Eol(k, rs[k], kind) \o t = EolOn(rs, k, kind, t)
    BY <1>1, SmallShapes
  <2> QED
    BY <1>20, <2>1, Zenon DEF Cat
<1>10. ASSUME NEW t \in Q
       PROVE  /\ Cat(M, t) = Cons(PieceByte(k, "method", 0, 1), Cons(PieceByte(k, "method", 0, 2), t))
              /\ Cat(Part(k, "version", 0, 2), t)
                   = Cons(PieceByte(k, "version", 0, 1), Cons(PieceByte(k, "version", 0, 2), t))
  BY <1>1, <1>20, PairShape
<1>11. Cat(U, UrlEndOn(rs, k)) = UrlOn(rs, k, 0)
  <2> DEFINE m == r.url
             t == UrlEndOn(rs, k)
  <2>1. m \in Nat /\ t \in Seq(From(k))
    BY <1>1, <1>8
  <2> HIDE DEF m, t
  <2>2. Piecewise(k, "url", 0, m, t)
    BY <1>1, <1>20, <2>1, PieceShapes
  <2> QED
    BY <2>2 DEF m, t, Piecewise, UrlOn
<1>12. Cat(F, T) = BodyOn(rs, k)
  BY DEF Cat, BodyOn
<1>13. Cat(D, EolOn(rs, k, "none", BodyOn(rs, k))) = HeadersOn(rs, k, 0)
  BY HeadersShapes
<1> HIDE DEF Q, M, S, U, D, E, F, T
<1>14. Cat(V, HeadersOn(rs, k, 0)) = UrlEndOn(rs, k) /\ V \in Q
  <2>1. CASE r.version
    <3> DEFINE a == One(k, "space", "url")
               b == Part(k, "version", 0, 2)
               t == HeadersOn(rs, k, 0)
    <3>1. V = Cat(Cat(a, b), E)
      BY <2>1 DEF E
    <3>2. a \in Q /\ b \in Q /\ E \in Q /\ t \in Q
      BY <1>7, <1>8
    <3>3. Cat(E, t) = LineEndOn(rs, k, 0)
      BY <1>8, <1>9 DEF LineEndOn
    <3>4. Cat(b, LineEndOn(rs, k, 0)) = VersionOn(rs, k)
      BY <1>8, <1>10 DEF VersionOn, MinorOn
    <3>5. Cat(a, VersionOn(rs, k)) = UrlEndOn(rs, k)
      BY <1>8, <1>9, <2>1 DEF UrlEndOn
    <3> HIDE DEF a, b, t, V
    <3>6. Cat(Cat(Cat(a, b), E), t) = Cat(a, Cat(b, Cat(E, t)))
      BY <1>6, <3>2, Regroup
    <3>7. Cat(Cat(a, b), E) \in Q
      BY <1>6, <3>2, GroupsClosed
    <3> QED
      BY <3>1, <3>3, <3>4, <3>5, <3>6, <3>7 DEF t
  <2>2. CASE ~r.version
    <3>1. V = Eol(k, r, "url")
      BY <2>2
    <3> HIDE DEF V
    <3> QED
      BY <1>7, <1>8, <1>9, <2>2, <3>1 DEF UrlEndOn
  <2> QED
    BY <2>1, <2>2
<1>15. Cat(X, LineOn(rs, k)) = (IF r.blank THEN EolOn(rs, k, "none", LineOn(rs, k)) ELSE LineOn(rs, k))
       /\ X \in Q
  <2>1. CASE r.blank
    <3>1. X = E
      BY <2>1 DEF E
    <3> HIDE DEF X
    <3> QED
      BY <1>7, <1>8, <1>9, <2>1, <3>1
  <2>2. CASE ~r.blank
    <3>1. X = <<>>
      BY <2>2
    <3>2. Cat(<<>>, LineOn(rs, k)) = LineOn(rs, k)
      BY <1>8, NothingFirst DEF Q
    <3> HIDE DEF X
    <3> QED
      BY <1>7, <2>2, <3>1, <3>2
  <2> QED
    BY <2>1, <2>2
<1> HIDE DEF X, V
<1>16. Cat(Unspoiled(k, r), T)
         = Cat(X, Cat(M, Cat(S, Cat(U, Cat(V, Cat(D, Cat(E, Cat(F, T))))))))
  <2>1. /\ X \in Q /\ M \in Q /\ S \in Q /\ U \in Q /\ V \in Q /\ D \in Q /\ E \in Q /\ F \in Q
        /\ T \in Q
    BY <1>7, <1>14, <1>15
  <2>2. Regroups(X, M, S, U, V, D, E, F, T)
    BY <1>6, <2>1, RegroupEight
  <2> QED
    BY <1>5, <2>2 DEF Regroups
<1>17. Cat(E, BodyOn(rs, k)) = EolOn(rs, k, "none", BodyOn(rs, k))
  BY <1>8, <1>9
<1>18. Cat(S, UrlOn(rs, k, 0)) = MethodEndOn(rs, k)
  BY <1>8, <1>9 DEF MethodEndOn
<1>19. Cat(M, MethodEndOn(rs, k)) = LineOn(rs, k)
  BY <1>8, <1>10 DEF LineOn, MethodOn
<1> QED
  BY <1>4, <1>11, <1>12, <1>13, <1>14, <1>15, <1>16, <1>17, <1>18, <1>19

---------------------------------------------------------------------------
(* The next byte at each place.                                            *)

\* g goes on with byte b of request k, then with s.
Leads(k, g, b, s) ==
  /\ g # <<>> /\ Head(g) = b /\ Tail(g) = s /\ s \in Seq(From(k)) /\ g \in Seq(From(k))

\* As the end of a line does, then with s.
LineLeads(rs, k, g, kind, s) ==
  IF rs[k].eol = "crlf" THEN Leads(k, g, SingleByte(k, "cr", kind), LfOn(k, s))
  ELSE Leads(k, g, SingleByte(k, "lf", kind), s)

\* What is joined of a byte and others goes on with that byte.
LEMMA ConsLeads ==
  ASSUME NEW k \in Nat, NEW rs, NEW s \in Seq(From(k))
  PROVE  /\ \A class \in ByteClasses, part, i \in Nat :
              Leads(k, Cons(PieceByte(k, class, part, i), s), PieceByte(k, class, part, i), s)
         /\ \A class \in ByteClasses, kind \in LineKinds :
              Leads(k, Cons(SingleByte(k, class, kind), s), SingleByte(k, class, kind), s)
         /\ \A kind \in HeaderKinds, i \in Nat :
              Leads(k, Cons(NameByte(k, kind, i), s), NameByte(k, kind, i), s)
         /\ Leads(k, LfOn(k, s), SingleByte(k, "lf", "none"), s)
         /\ Leads(k, SpaceOn(k, s), SingleByte(k, "space", "none"), s)
         /\ \A kind \in LineKinds : LineLeads(rs, k, EolOn(rs, k, kind, s), kind, s)
<1> DEFINE B == From(k)
<1>1. /\ \A class \in ByteClasses, part, i \in Nat : PieceByte(k, class, part, i) \in B
      /\ \A class \in ByteClasses, kind \in LineKinds : SingleByte(k, class, kind) \in B
      /\ \A kind \in HeaderKinds, i \in Nat : NameByte(k, kind, i) \in B
  BY ByteTypes
<1>2. \A b, t : Leads(k, Cons(b, t), b, t)
                  <=> /\ Cons(b, t) # <<>> /\ Head(Cons(b, t)) = b /\ Tail(Cons(b, t)) = t
                      /\ t \in Seq(B) /\ Cons(b, t) \in Seq(B)
  BY DEF Leads
<1> HIDE DEF B
<1>3. \A b \in B, t \in Seq(B) : Leads(k, Cons(b, t), b, t)
  BY <1>2, ConsParts
<1>4. s \in Seq(B)
  BY DEF B
<1>5. /\ \A class \in ByteClasses, part, i \in Nat :
           Leads(k, Cons(PieceByte(k, class, part, i), s), PieceByte(k, class, part, i), s)
      /\ \A class \in ByteClasses, kind \in LineKinds :
           Leads(k, Cons(SingleByte(k, class, kind), s), SingleByte(k, class, kind), s)
      /\ \A kind \in HeaderKinds, i \in Nat :
           Leads(k, Cons(NameByte(k, kind, i), s), NameByte(k, kind, i), s)
  BY <1>1, <1>3, <1>4
<1>6. "lf" \in ByteClasses /\ "cr" \in ByteClasses /\ "space" \in ByteClasses /\ "none" \in LineKinds
  BY DEF ByteClasses, LineKinds
<1>7. /\ Leads(k, LfOn(k, s), SingleByte(k, "lf", "none"), s)
      /\ Leads(k, SpaceOn(k, s), SingleByte(k, "space", "none"), s)
  BY <1>5, <1>6 DEF LfOn, SpaceOn
<1>8. ASSUME NEW kind \in LineKinds
      PROVE  LineLeads(rs, k, EolOn(rs, k, kind, s), kind, s)
  <2>1. LfOn(k, s) \in Seq(B)
    BY SmallTypes DEF B
  <2>2. Leads(k, Cons(SingleByte(k, "cr", kind), LfOn(k, s)), SingleByte(k, "cr", kind), LfOn(k, s))
    BY <1>1, <1>3, <1>6, <2>1
  <2>3. Leads(k, Cons(SingleByte(k, "lf", kind), s), SingleByte(k, "lf", kind), s)
    BY <1>5, <1>6
  <2> QED
    BY <2>2, <2>3 DEF LineLeads, EolOn
<1> QED
  BY <1>5, <1>7, <1>8

\* The request line.
LEMMA RequestLeads ==
  ASSUME NEW rs, Requests(rs), NEW k \in 1..Len(rs)
  PROVE  /\ Leads(k, LineOn(rs, k), PieceByte(k, "method", 0, 1), MethodOn(rs, k))
         /\ Leads(k, MethodOn(rs, k), PieceByte(k, "method", 0, 2), MethodEndOn(rs, k))
         /\ Leads(k, MethodEndOn(rs, k), SingleByte(k, "space", "none"), UrlOn(rs, k, 0))
         /\ \A i \in 0..(rs[k].url - 1) :
              Leads(k, UrlOn(rs, k, i), PieceByte(k, "url", 0, i + 1), UrlOn(rs, k, i + 1))
         /\ rs[k].version =>
              Leads(k, UrlOn(rs, k, rs[k].url), SingleByte(k, "space", "url"), VersionOn(rs, k))
         /\ ~rs[k].version =>
              LineLeads(rs, k, UrlOn(rs, k, rs[k].url), "url", HeadersOn(rs, k, 0))
         /\ Leads(k, VersionOn(rs, k), PieceByte(k, "version", 0, 1), MinorOn(rs, k))
         /\ Leads(k, MinorOn(rs, k), PieceByte(k, "version", 0, 2), LineEndOn(rs, k, 0))
         /\ LineLeads(rs, k, LineEndOn(rs, k, 0), "none", HeadersOn(rs, k, 0))
<1>1. k \in Nat /\ rs[k].url \in Nat
  BY RequestFacts
<1>2. /\ "method" \in ByteClasses /\ "space" \in ByteClasses /\ "url" \in ByteClasses
      /\ "version" \in ByteClasses /\ "none" \in LineKinds /\ "url" \in LineKinds
      /\ 0 \in Nat /\ 1 \in Nat /\ 2 \in Nat
  BY DEF ByteClasses, LineKinds
<1> DEFINE Q == Seq(From(k))
<1>3. /\ HeadersOn(rs, k, 0) \in Q /\ LineEndOn(rs, k, 0) \in Q /\ MinorOn(rs, k) \in Q
      /\ VersionOn(rs, k) \in Q /\ MethodEndOn(rs, k) \in Q /\ MethodOn(rs, k) \in Q
      /\ UrlOn(rs, k, 0) \in Q
      /\ UrlOn(rs, k, rs[k].url) = UrlEndOn(rs, k)
  BY <1>1, LineParts
<1>10. \A i \in 0..(rs[k].url - 1) :
         UrlOn(rs, k, i + 1) \in Q
           /\ UrlOn(rs, k, i) = Cons(PieceByte(k, "url", 0, i + 1), UrlOn(rs, k, i + 1))
  <2>1. \A i \in 0..(rs[k].url - 1) : i + 1 \in 0..rs[k].url
    BY <1>1
  <2> QED
    BY <2>1, LineParts
<1> HIDE DEF Q
<1>4. ASSUME NEW s \in Q
      PROVE  /\ \A class \in ByteClasses, part, i \in Nat :
                  Leads(k, Cons(PieceByte(k, class, part, i), s), PieceByte(k, class, part, i), s)
             /\ \A class \in ByteClasses, kind \in LineKinds :
                  Leads(k, Cons(SingleByte(k, class, kind), s), SingleByte(k, class, kind), s)
             /\ Leads(k, SpaceOn(k, s), SingleByte(k, "space", "none"), s)
             /\ \A kind \in LineKinds : LineLeads(rs, k, EolOn(rs, k, kind, s), kind, s)
  BY <1>1, ConsLeads DEF Q
<1>5. /\ Leads(k, LineOn(rs, k), PieceByte(k, "method", 0, 1), MethodOn(rs, k))
      /\ Leads(k, MethodOn(rs, k), PieceByte(k, "method", 0, 2), MethodEndOn(rs, k))
      /\ Leads(k, MethodEndOn(rs, k), SingleByte(k, "space", "none"), UrlOn(rs, k, 0))
  BY <1>2, <1>3, <1>4 DEF LineOn, MethodOn, MethodEndOn
<1>6. ASSUME NEW i \in 0..(rs[k].url - 1)
      PROVE  Leads(k, UrlOn(rs, k, i), PieceByte(k, "url", 0, i + 1), UrlOn(rs, k, i + 1))
  <2>1. i + 1 \in Nat
    OBVIOUS
  <2> QED
    BY <1>2, <1>4, <1>10, <2>1
<1>7. /\ rs[k].version =>
           Leads(k, UrlOn(rs, k, rs[k].url), SingleByte(k, "space", "url"), VersionOn(rs, k))
      /\ ~rs[k].version =>
           LineLeads(rs, k, UrlOn(rs, k, rs[k].url), "url", HeadersOn(rs, k, 0))
  BY <1>2, <1>3, <1>4 DEF UrlEndOn
<1>8. /\ Leads(k, VersionOn(rs, k), PieceByte(k, "version", 0, 1), MinorOn(rs, k))
      /\ Leads(k, MinorOn(rs, k), PieceByte(k, "version", 0, 2), LineEndOn(rs, k, 0))
  BY <1>2, <1>3, <1>4 DEF VersionOn, MinorOn
<1>9. LineLeads(rs, k, LineEndOn(rs, k, 0), "none", HeadersOn(rs, k, 0))
  BY <1>2, <1>3, <1>4 DEF LineEndOn
<1> QED
  BY <1>5, <1>6, <1>7, <1>8, <1>9

\* The beginning of a request, which may be an empty line.
LEMMA StartLeads ==
  ASSUME NEW rs, Requests(rs), NEW k \in 1..Len(rs)
  PROVE  /\ LineOn(rs, k) \in Seq(From(k))
         /\ IF rs[k].blank THEN LineLeads(rs, k, RestOn(rs, k - 1), "none", LineOn(rs, k))
            ELSE RestOn(rs, k - 1) = LineOn(rs, k)
<1>1. k \in Nat /\ LineOn(rs, k) \in Seq(From(k)) /\ "none" \in LineKinds
  BY RequestFacts, LineParts DEF LineKinds
<1> QED
  BY <1>1, RestShapes, ConsLeads

\* A header.
LEMMA HeaderLeads ==
  ASSUME NEW rs, Requests(rs), NEW k \in 1..Len(rs), NEW h \in 1..NumHeaders(rs, k)
  PROVE  /\ Leads(k, HeadersOn(rs, k, h - 1), NameByte(k, Kind(rs, k, h), 1), NameOn(rs, k, h))
         /\ Leads(k, NameOn(rs, k, h), NameByte(k, Kind(rs, k, h), 2), ColonOn(rs, k, h))
         /\ Leads(k, ColonOn(rs, k, h), SingleByte(k, "colon", "none"), ValueOn(rs, k, h))
         /\ CASE Kind(rs, k, h) = "empty" ->
                   LineLeads(rs, k, ValueOn(rs, k, h), "none", HeadersOn(rs, k, h))
              [] Kind(rs, k, h) = "late" ->
                   LineLeads(rs, k, ValueOn(rs, k, h), "none", LateOn(rs, k, h))
              [] Kind(rs, k, h) = "folded" ->
                   Leads(k, ValueOn(rs, k, h), PieceByte(k, "value", h, 1),
                         EolOn(rs, k, "none", FoldOn(rs, k, h)))
              [] OTHER -> Leads(k, ValueOn(rs, k, h), SingleByte(k, "space", "none"), BothOn(rs, k, h))
         /\ Leads(k, LateOn(rs, k, h), SingleByte(k, "space", "none"), BothOn(rs, k, h))
         /\ Leads(k, BothOn(rs, k, h), PieceByte(k, "value", h, 1), SecondOn(rs, k, h))
         /\ Leads(k, FoldOn(rs, k, h), SingleByte(k, "space", "none"), SecondOn(rs, k, h))
         /\ Leads(k, SecondOn(rs, k, h), PieceByte(k, "value", h, 2), LineEndOn(rs, k, h))
         /\ LineLeads(rs, k, LineEndOn(rs, k, h), "none", HeadersOn(rs, k, h))
         /\ LineLeads(rs, k, EolOn(rs, k, "none", FoldOn(rs, k, h)), "none", FoldOn(rs, k, h))
<1> DEFINE Q == Seq(From(k))
           kind == Kind(rs, k, h)
<1>1. k \in Nat /\ h \in Nat /\ kind \in HeaderKinds
  BY RequestFacts DEF Kind
<1>2. "value" \in ByteClasses /\ "colon" \in ByteClasses /\ "none" \in LineKinds
      /\ 1 \in Nat /\ 2 \in Nat
  BY DEF ByteClasses, LineKinds
<1>3. /\ HeadersOn(rs, k, h) \in Q /\ LineEndOn(rs, k, h) \in Q
      /\ SecondOn(rs, k, h) \in Q /\ BothOn(rs, k, h) \in Q
      /\ FoldOn(rs, k, h) \in Q /\ LateOn(rs, k, h) \in Q
      /\ EolOn(rs, k, "none", FoldOn(rs, k, h)) \in Q
      /\ ValueOn(rs, k, h) \in Q /\ ColonOn(rs, k, h) \in Q
      /\ NameOn(rs, k, h) \in Q
  BY HeaderParts
<1> HIDE DEF Q
<1>4. ASSUME NEW s \in Q
      PROVE  /\ Leads(k, Cons(PieceByte(k, "value", h, 1), s), PieceByte(k, "value", h, 1), s)
             /\ Leads(k, Cons(PieceByte(k, "value", h, 2), s), PieceByte(k, "value", h, 2), s)
             /\ Leads(k, Cons(SingleByte(k, "colon", "none"), s), SingleByte(k, "colon", "none"), s)
             /\ Leads(k, Cons(NameByte(k, kind, 1), s), NameByte(k, kind, 1), s)
             /\ Leads(k, Cons(NameByte(k, kind, 2), s), NameByte(k, kind, 2), s)
             /\ Leads(k, SpaceOn(k, s), SingleByte(k, "space", "none"), s)
             /\ LineLeads(rs, k, EolOn(rs, k, "none", s), "none", s)
  BY <1>1, <1>2, ConsLeads DEF Q
<1>5. HeadersOn(rs, k, h - 1) = Cons(NameByte(k, kind, 1), NameOn(rs, k, h))
  BY HeaderShapes
<1>6. /\ Leads(k, HeadersOn(rs, k, h - 1), NameByte(k, kind, 1), NameOn(rs, k, h))
      /\ Leads(k, NameOn(rs, k, h), NameByte(k, kind, 2), ColonOn(rs, k, h))
      /\ Leads(k, ColonOn(rs, k, h), SingleByte(k, "colon", "none"), ValueOn(rs, k, h))
  BY <1>3, <1>4, <1>5 DEF NameOn, ColonOn, Kind
<1>7. /\ Leads(k, LateOn(rs, k, h), SingleByte(k, "space", "none"), BothOn(rs, k, h))
      /\ Leads(k, BothOn(rs, k, h), PieceByte(k, "value", h, 1), SecondOn(rs, k, h))
      /\ Leads(k, FoldOn(rs, k, h), SingleByte(k, "space", "none"), SecondOn(rs, k, h))
      /\ Leads(k, SecondOn(rs, k, h), PieceByte(k, "value", h, 2), LineEndOn(rs, k, h))
      /\ LineLeads(rs, k, LineEndOn(rs, k, h), "none", HeadersOn(rs, k, h))
      /\ LineLeads(rs, k, EolOn(rs, k, "none", FoldOn(rs, k, h)), "none", FoldOn(rs, k, h))
  BY <1>3, <1>4 DEF LateOn, BothOn, FoldOn, SecondOn, LineEndOn
<1>8. LineLeads(rs, k, EolOn(rs, k, "none", LateOn(rs, k, h)), "none", LateOn(rs, k, h))
  BY <1>3, <1>4
<1>9. Leads(k, Cons(PieceByte(k, "value", h, 1), EolOn(rs, k, "none", FoldOn(rs, k, h))),
            PieceByte(k, "value", h, 1), EolOn(rs, k, "none", FoldOn(rs, k, h)))
  BY <1>3, <1>4
<1>10. (CASE kind = "empty" -> LineLeads(rs, k, ValueOn(rs, k, h), "none", HeadersOn(rs, k, h))
         [] kind = "late" -> LineLeads(rs, k, ValueOn(rs, k, h), "none", LateOn(rs, k, h))
         [] kind = "folded" ->
              Leads(k, ValueOn(rs, k, h), PieceByte(k, "value", h, 1),
                    EolOn(rs, k, "none", FoldOn(rs, k, h)))
         [] OTHER -> Leads(k, ValueOn(rs, k, h), SingleByte(k, "space", "none"), BothOn(rs, k, h)))
  <2>1. CASE kind = "empty"
    BY <1>7, <2>1 DEF ValueOn, Kind
  <2>2. CASE kind = "late"
    BY <1>8, <2>2 DEF ValueOn, Kind
  <2>3. CASE kind = "folded"
    BY <1>9, <2>3 DEF ValueOn, Kind
  <2>4. CASE kind \notin {"empty", "late", "folded"}
    <3>1. ValueOn(rs, k, h) = LateOn(rs, k, h)
      BY <2>4 DEF ValueOn, Kind
    <3> HIDE DEF kind
    <3> QED
      BY <1>7, <2>4, <3>1
  <2> QED
    BY <2>1, <2>2, <2>3, <2>4
<1> QED
  BY <1>6, <1>7, <1>10

\* Behind the headers and in the body.
LEMMA BodyLeads ==
  ASSUME NEW rs, Requests(rs), NEW k \in 1..Len(rs)
  PROVE  /\ LineLeads(rs, k, HeadersOn(rs, k, NumHeaders(rs, k)), "none", BodyOn(rs, k))
         /\ LineLeads(rs, k, EolOn(rs, k, "none", RestOn(rs, k)), "none", RestOn(rs, k))
         /\ \A s \in Seq(From(k)) : Leads(k, LfOn(k, s), SingleByte(k, "lf", "none"), s)
         /\ HeadersOn(rs, k, 0) \in Seq(From(k)) /\ BodyOn(rs, k) \in Seq(From(k))
         /\ RestOn(rs, k) \in Seq(From(k)) /\ RestOn(rs, k) \in Seq(From(k + 1))
<1> DEFINE Q == Seq(From(k))
<1>1. k \in Nat /\ k \in 0..Len(rs) /\ "none" \in LineKinds /\ 0 \in 0..NumHeaders(rs, k)
  BY RequestFacts DEF LineKinds
<1>2. BodyOn(rs, k) \in Q /\ RestOn(rs, k) \in Q /\ RestOn(rs, k) \in Seq(From(k + 1))
      /\ HeadersOn(rs, k, 0) \in Q
  BY <1>1, BodyShapes, RestTypes, HeadersShapes
<1>3. HeadersOn(rs, k, NumHeaders(rs, k)) = EolOn(rs, k, "none", BodyOn(rs, k))
  BY HeadersShapes
<1>4. /\ \A s \in Q : Leads(k, LfOn(k, s), SingleByte(k, "lf", "none"), s)
      /\ \A s \in Q : LineLeads(rs, k, EolOn(rs, k, "none", s), "none", s)
  BY <1>1, ConsLeads
<1> QED
  BY <1>2, <1>3, <1>4

\* A body that is not chunked.
LEMMA IdentityLeads ==
  ASSUME NEW rs, Requests(rs), NEW k \in 1..Len(rs), Len(rs[k].body) = 1
  PROVE  LET n == rs[k].body[1]
             on(i) == PieceOn(k, "body", 1, i, n, RestOn(rs, k))
         IN  /\ on(n) = RestOn(rs, k)
             /\ \A i \in 0..(n - 1) : Leads(k, on(i), PieceByte(k, "body", 1, i + 1), on(i + 1))
<1> DEFINE n == rs[k].body[1]
           s == RestOn(rs, k)
           on(i) == PieceOn(k, "body", 1, i, n, s)
<1>0. n \in Nat
  <2>1. 1 \in 1..Len(rs[k].body)
    OBVIOUS
  <2>2. \A j \in 1..Len(rs[k].body) : rs[k].body[j] \in Nat
    BY RequestFacts
  <2> QED
    BY <2>1, <2>2
<1>1. k \in Nat /\ n \in Nat /\ "body" \in ByteClasses /\ 1 \in Nat /\ s \in Seq(From(k))
  <2>1. k \in Nat
    BY RequestFacts
  <2>2. "body" \in ByteClasses
    BY DEF ByteClasses
  <2>3. s \in Seq(From(k))
    BY BodyLeads
  <2> QED
    BY <1>0, <2>1, <2>2, <2>3
<1> HIDE DEF n, s
<1>2. Piecewise(k, "body", 1, n, s)
  BY <1>1, PieceShapes
<1>3. ASSUME NEW i \in 0..(n - 1)
      PROVE  Leads(k, on(i), PieceByte(k, "body", 1, i + 1), on(i + 1))
  <2>1. i + 1 \in 0..n /\ i + 1 \in Nat
    BY <1>1
  <2>2. on(i) = Cons(PieceByte(k, "body", 1, i + 1), on(i + 1)) /\ on(i + 1) \in Seq(From(k))
    BY <1>2, <2>1 DEF Piecewise
  <2> HIDE DEF on
  <2> QED
    BY <1>1, <2>1, <2>2, ConsLeads
<1>4. on(n) = s
  BY <1>2 DEF Piecewise
<1> QED
  BY <1>3, <1>4 DEF n, s

\* A chunk.
LEMMA ChunkLeads ==
  ASSUME NEW rs, Requests(rs), NEW k \in 1..Len(rs), NEW j \in 0..Len(rs[k].body)
  PROVE  LET size == SizeOf(rs, k, j)
             line == EolOn(rs, k, "none", SizeEndOn(rs, k, j))
         IN  /\ Leads(k, ChunksOn(rs, k, j), SizeByte(k, 0), Cons(SizeByte(k, size), line))
             /\ Leads(k, Cons(SizeByte(k, size), line), SizeByte(k, size), line)
             /\ LineLeads(rs, k, line, "none", SizeEndOn(rs, k, j))
             /\ Leads(k, LfOn(k, SizeEndOn(rs, k, j)), SingleByte(k, "lf", "none"), SizeEndOn(rs, k, j))
             /\ size \in Nat
             /\ j < Len(rs[k].body) =>
                  /\ size > 0 /\ size = rs[k].body[j + 1]
                  /\ DataOn(rs, k, j, size) = DataEndOn(rs, k, j)
                  /\ \A i \in 0..(size - 1) :
                       Leads(k, DataOn(rs, k, j, i), PieceByte(k, "body", j + 1, i + 1),
                             DataOn(rs, k, j, i + 1))
                  /\ LineLeads(rs, k, DataEndOn(rs, k, j), "none", ChunksOn(rs, k, j + 1))
                  /\ Leads(k, LfOn(k, ChunksOn(rs, k, j + 1)), SingleByte(k, "lf", "none"),
                           ChunksOn(rs, k, j + 1))
<1> DEFINE Q == Seq(From(k))
           size == SizeOf(rs, k, j)
           line == EolOn(rs, k, "none", SizeEndOn(rs, k, j))
<1>1. k \in Nat /\ j \in Nat /\ j + 1 \in Nat
  BY RequestFacts
<1>2. "none" \in LineKinds /\ "size" \in ByteClasses /\ "body" \in ByteClasses /\ 0 \in Nat
  BY DEF LineKinds, ByteClasses
<1>3. /\ ChunksOn(rs, k, j) = Cons(SizeByte(k, 0), Cons(SizeByte(k, size), line))
      /\ SizeEndOn(rs, k, j) \in Q /\ line \in Q /\ Cons(SizeByte(k, size), line) \in Q
      /\ size \in Nat
  BY ChunkShapes
<1>4. j < Len(rs[k].body) =>
        /\ size = rs[k].body[j + 1] /\ size > 0
        /\ DataEndOn(rs, k, j) \in Q
        /\ ChunksOn(rs, k, j + 1) \in Q
  BY ChunkShapes
<1> HIDE DEF Q, size, line
<1>5. ASSUME NEW s \in Q
      PROVE  /\ Leads(k, Cons(SizeByte(k, 0), s), SizeByte(k, 0), s)
             /\ Leads(k, Cons(SizeByte(k, size), s), SizeByte(k, size), s)
             /\ Leads(k, LfOn(k, s), SingleByte(k, "lf", "none"), s)
             /\ LineLeads(rs, k, EolOn(rs, k, "none", s), "none", s)
  BY <1>1, <1>2, <1>3, ConsLeads DEF Q, SizeByte
<1>6. /\ Leads(k, ChunksOn(rs, k, j), SizeByte(k, 0), Cons(SizeByte(k, size), line))
      /\ Leads(k, Cons(SizeByte(k, size), line), SizeByte(k, size), line)
      /\ LineLeads(rs, k, line, "none", SizeEndOn(rs, k, j))
      /\ Leads(k, LfOn(k, SizeEndOn(rs, k, j)), SingleByte(k, "lf", "none"), SizeEndOn(rs, k, j))
  BY <1>3, <1>5 DEF line
<1>7. ASSUME j < Len(rs[k].body)
      PROVE  /\ size > 0 /\ size = rs[k].body[j + 1]
             /\ DataOn(rs, k, j, size) = DataEndOn(rs, k, j)
             /\ \A i \in 0..(size - 1) :
                  Leads(k, DataOn(rs, k, j, i), PieceByte(k, "body", j + 1, i + 1),
                        DataOn(rs, k, j, i + 1))
             /\ LineLeads(rs, k, DataEndOn(rs, k, j), "none", ChunksOn(rs, k, j + 1))
             /\ Leads(k, LfOn(k, ChunksOn(rs, k, j + 1)), SingleByte(k, "lf", "none"),
                      ChunksOn(rs, k, j + 1))
  <2>1. /\ size = rs[k].body[j + 1] /\ size > 0 /\ DataEndOn(rs, k, j) \in Q
        /\ ChunksOn(rs, k, j + 1) \in Q
    BY <1>4, <1>7
  <2> DEFINE s == DataEndOn(rs, k, j)
             p == j + 1
  <2>2. \A i : DataOn(rs, k, j, i) = PieceOn(k, "body", p, i, size, s)
    BY <2>1 DEF DataOn
  <2>3. s \in Seq(From(k)) /\ p \in Nat
    BY <1>1, <2>1 DEF Q
  <2>4. LineLeads(rs, k, DataEndOn(rs, k, j), "none", ChunksOn(rs, k, j + 1))
        /\ Leads(k, LfOn(k, ChunksOn(rs, k, j + 1)), SingleByte(k, "lf", "none"), ChunksOn(rs, k, j + 1))
    BY <1>5, <2>1 DEF DataEndOn
  <2> HIDE DEF s, p
  <2>5. Piecewise(k, "body", p, size, s)
    BY <1>1, <1>2, <1>3, <2>3, PieceShapes
  <2>6. ASSUME NEW i \in 0..(size - 1)
        PROVE  Leads(k, DataOn(rs, k, j, i), PieceByte(k, "body", p, i + 1), DataOn(rs, k, j, i + 1))
    <3>1. i + 1 \in 0..size /\ i + 1 \in Nat
      BY <1>3
    <3> DEFINE a == DataOn(rs, k, j, i)
               b == DataOn(rs, k, j, i + 1)
    <3>2. a = Cons(PieceByte(k, "body", p, i + 1), b) /\ b \in Seq(From(k))
      BY <2>2, <2>5, <3>1 DEF Piecewise
    <3> HIDE DEF a, b
    <3>3. Leads(k, a, PieceByte(k, "body", p, i + 1), b)
      BY <1>1, <1>2, <2>3, <3>1, <3>2, ConsLeads
    <3> QED
      BY <3>3 DEF a, b
  <2>7. DataOn(rs, k, j, size) = s
    BY <2>2, <2>5 DEF Piecewise
  <2> QED
    BY <2>1, <2>4, <2>6, <2>7 DEF s, p
<1> QED
  BY <1>3, <1>6, <1>7 DEF size, line

---------------------------------------------------------------------------
(* The flags.                                                              *)

\* Each header adds its flag, or the length.
LEMMA FlagSteps ==
  ASSUME NEW rs, Requests(rs), NEW k \in 1..Len(rs)
  PROVE  /\ FlagsTo(rs, k, 0) = FlagsOfLine(rs, k) /\ LengthTo(rs, k, 0) = Unknown
         /\ \A h \in 1..NumHeaders(rs, k) :
              /\ FlagsTo(rs, k, h)
                   = FlagsTo(rs, k, h - 1)
                     \cup ({Kind(rs, k, h)} \cap {"upgrade", "switch", "close", "chunked"})
              /\ LengthTo(rs, k, h)
                   = IF Kind(rs, k, h) = "length"
                     THEN IF rs[k].body = <<>> THEN 0 ELSE rs[k].body[1]
                     ELSE LengthTo(rs, k, h - 1)
         /\ \A h : "trailing" \notin FlagsTo(rs, k, h)
<1>1. FlagsTo(rs, k, 0) = FlagsOfLine(rs, k) /\ LengthTo(rs, k, 0) = Unknown
  <2>1. \A x : x \notin 1..0
    OBVIOUS
  <2>2. {rs[k].headers[x] : x \in 1..0} = {}
    BY <2>1
  <2> QED
    BY <2>1, <2>2 DEF FlagsTo, LengthTo
<1>2. ASSUME NEW h \in 1..NumHeaders(rs, k)
      PROVE  /\ FlagsTo(rs, k, h)
                  = FlagsTo(rs, k, h - 1)
                    \cup ({Kind(rs, k, h)} \cap {"upgrade", "switch", "close", "chunked"})
             /\ LengthTo(rs, k, h)
                  = IF Kind(rs, k, h) = "length"
                    THEN IF rs[k].body = <<>> THEN 0 ELSE rs[k].body[1]
                    ELSE LengthTo(rs, k, h - 1)
  <2>1. NumHeaders(rs, k) \in Nat
    BY RequestFacts
  <2>2. \A x : x \in 1..h <=> x \in 1..(h - 1) \/ x = h
    BY <2>1
  <2>3. {rs[k].headers[x] : x \in 1..h} = {rs[k].headers[x] : x \in 1..(h - 1)} \cup {rs[k].headers[h]}
    BY <2>2, Zenon
  <2> QED
    BY <2>2, <2>3 DEF FlagsTo, LengthTo, Kind
<1>3. \A h : "trailing" \notin FlagsTo(rs, k, h)
  BY DEF FlagsTo, FlagsOfLine
<1> QED
  BY <1>1, <1>2, <1>3

\* What all of its headers say of a request.
LEMMA FlagsSay ==
  ASSUME NEW rs, Requests(rs), NEW k \in 1..Len(rs)
  PROVE  /\ "chunked" \in AllFlags(rs, k) <=> HasChunks(rs, k)
         /\ "close" \in AllFlags(rs, k) <=> HasHeader(rs[k], "close")
         /\ "upgrade" \in AllFlags(rs, k) <=> HasHeader(rs[k], "upgrade")
         /\ "switch" \in AllFlags(rs, k) <=> HasHeader(rs[k], "switch")
         /\ "0.9" \in AllFlags(rs, k) <=> ~rs[k].version
         /\ LengthTo(rs, k, NumHeaders(rs, k))
              = IF HasHeader(rs[k], "length")
                THEN IF rs[k].body = <<>> THEN 0 ELSE rs[k].body[1]
                ELSE Unknown
<1>1. DOMAIN rs[k].headers = 1..NumHeaders(rs, k) /\ rs[k].headers \in Seq(HeaderKinds)
  BY RequestFacts
<1>2. \A c : HasHeader(rs[k], c) <=> c \in {rs[k].headers[x] : x \in 1..NumHeaders(rs, k)}
  BY <1>1 DEF HasHeader
<1>3. "0.9" \notin {rs[k].headers[x] : x \in 1..NumHeaders(rs, k)}
  <2>1. \A x \in 1..NumHeaders(rs, k) : rs[k].headers[x] \in HeaderKinds
    BY <1>1 DEF NumHeaders
  <2> QED
    BY <2>1 DEF HeaderKinds
<1>4. LengthTo(rs, k, NumHeaders(rs, k))
              = IF HasHeader(rs[k], "length")
                THEN IF rs[k].body = <<>> THEN 0 ELSE rs[k].body[1]
                ELSE Unknown
  BY <1>1 DEF LengthTo, HasHeader
<1> HIDE DEF NumHeaders
<1> QED
  BY <1>2, <1>3, <1>4 DEF AllFlags, FlagsTo, FlagsOfLine, HasChunks

---------------------------------------------------------------------------
(* What still comes.                                                       *)

\* A sequence covers another one byte by byte.
LEMMA CoversHead ==
  ASSUME NEW B, NEW s \in Seq(B), NEW C, NEW g \in Seq(C), Covers(s, g)
  PROVE  /\ Len(s) = Len(g) /\ (s # <<>> <=> g # <<>>)
         /\ s # <<>> => /\ Head(s) \in {Head(g), [Head(g) EXCEPT !.class = "bad"]}
                        /\ Covers(Tail(s), Tail(g))
                        /\ Tail(s) \in Seq(B) /\ Tail(g) \in Seq(C)
<1>1. DOMAIN s = DOMAIN g /\ \A x \in DOMAIN g : s[x] \in {g[x], [g[x] EXCEPT !.class = "bad"]}
  BY DEF Covers
<1>2. Len(s) = Len(g) /\ DOMAIN g = 1..Len(g) /\ Len(g) \in Nat
  BY <1>1
<1>3. s # <<>> <=> g # <<>>
  BY <1>2
<1>4. ASSUME s # <<>>
      PROVE  /\ Head(s) \in {Head(g), [Head(g) EXCEPT !.class = "bad"]}
             /\ Covers(Tail(s), Tail(g))
             /\ Tail(s) \in Seq(B) /\ Tail(g) \in Seq(C)
  <2>1. g # <<>> /\ 1 \in 1..Len(g)
    BY <1>2, <1>3, <1>4
  <2>2. Head(s) = s[1] /\ Head(g) = g[1]
    BY <1>4, <2>1
  <2>3. /\ Tail(s) \in Seq(B) /\ Tail(g) \in Seq(C)
        /\ Len(Tail(s)) = Len(s) - 1 /\ Len(Tail(g)) = Len(g) - 1
    BY <1>4, <2>1
  <2>4. DOMAIN Tail(s) = 1..(Len(g) - 1) /\ DOMAIN Tail(g) = 1..(Len(g) - 1)
    BY <1>2, <2>3
  <2>5. ASSUME NEW x \in 1..(Len(g) - 1)
        PROVE  Tail(s)[x] \in {Tail(g)[x], [Tail(g)[x] EXCEPT !.class = "bad"]}
    <3>1. x + 1 \in 1..Len(g) /\ Tail(s)[x] = s[x + 1] /\ Tail(g)[x] = g[x + 1]
      BY <1>2, <1>4, <2>1, <2>3
    <3>2. s[x + 1] \in {g[x + 1], [g[x + 1] EXCEPT !.class = "bad"]}
      BY <1>1, <1>2, <3>1
    <3> QED
      BY <3>1, <3>2
  <2>6. Covers(Tail(s), Tail(g))
    BY <2>4, <2>5 DEF Covers
  <2> QED
    BY <1>1, <1>2, <2>1, <2>2, <2>3, <2>6
<1> QED
  BY <1>2, <1>3, <1>4

\* A request's byte that is spoiled is still to come.
BadAhead ==
  \A x \in DOMAIN requests :
    requests[x].bad # 0 => \E y \in DOMAIN inFlight : inFlight[y].req = x /\ inFlight[y].class = "bad"

\* Request k is the next one to be handed over, and g is still to come.
Coming(k, g) ==
  /\ Requests(requests)
  /\ (\E S : out \in Seq(S)) /\ k = Len(out) + 1 /\ k \in 1..(Len(requests) + 1)
  /\ g \in Seq(From(k)) /\ Covers(inFlight, g)
  /\ BadAhead
  /\ \A j \in 1..(k - 2) : ~Closes(j)

\* The parser is at g.
Standing(k, g) ==
  /\ state \in States
  /\ state \notin {"s_start_req", "s_dead"} => k \in 1..Len(requests)
  /\ state = "s_dead" <=> k > 1 /\ Closes(k - 1)
  /\ \E h, i \in Nat : Located(state, requests, k, h, i, g, header, flags, remaining)

\* No more is behind the next byte than there is.
AheadThere == ahead <= Len(inFlight)

Cause ==
  /\ status = "closing" => Refused(Byte)
  /\ status = "terminated" =>
       \/ Refused(Byte)
       \/ Byte.req > 1 /\ AsksUpgrade(Byte.req - 1) /\ Len(out) = Byte.req - 1

\* A state takes no spoiled byte.
LEMMA NoBadTaken == ASSUME NEW s \in States PROVE "bad" \notin Accepts(s)
BY DEF States, Accepts

\* What is next is g's first byte, if it is not spoiled; once it is taken, the rest of g
\* is still to come.
LEMMA Taken ==
  ASSUME NEW k \in Nat, NEW g, Coming(k, g), Stream, inFlight # <<>>, Class # "bad"
  PROVE  /\ Byte = Head(g) /\ g # <<>> /\ Len(inFlight) = Len(g)
         /\ inFlight' = Tail(inFlight) /\ requests' = requests =>
              /\ Covers(inFlight, Tail(g))' /\ BadAhead' /\ Requests(requests)'
              /\ Len(inFlight') = Len(inFlight) - 1
<1> DEFINE B == From(k)
           S == SentBytes
<1>1. inFlight \in Seq(S) /\ g \in Seq(B) /\ Covers(inFlight, g)
  BY DEF Stream, Coming
<1>2. /\ Len(inFlight) = Len(g) /\ g # <<>> /\ Covers(Tail(inFlight), Tail(g))
      /\ Head(inFlight) \in {Head(g), [Head(g) EXCEPT !.class = "bad"]}
  <2> HIDE DEF B, S
  <2> QED
    BY <1>1, CoversHead
<1>3. Head(g) \in B
  <2> HIDE DEF B
  <2> QED
    BY <1>1, <1>2
<1>4. Byte = Head(g)
  <2>1. [Head(g) EXCEPT !.class = "bad"].class = "bad"
    BY <1>3 DEF From
  <2> QED
    BY <1>2, <2>1 DEF Byte, Class
<1>5. ASSUME inFlight' = Tail(inFlight), requests' = requests
      PROVE  /\ Covers(inFlight, Tail(g))' /\ BadAhead' /\ Requests(requests)'
             /\ Len(inFlight') = Len(inFlight) - 1
  <2>1. Covers(inFlight, Tail(g))'
    BY <1>2, <1>5
  <2>2. Requests(requests)'
    BY <1>5 DEF Coming, Requests
  <2>3. Len(inFlight') = Len(inFlight) - 1
    <3> HIDE DEF S
    <3> QED
      BY <1>1, <1>5
  <2>4. BadAhead'
    <3> SUFFICES ASSUME NEW x \in DOMAIN requests, requests[x].bad # 0
                 PROVE  \E y \in DOMAIN inFlight' : inFlight'[y].req = x /\ inFlight'[y].class = "bad"
      BY <1>5 DEF BadAhead
    <3>1. PICK y \in DOMAIN inFlight : inFlight[y].req = x /\ inFlight[y].class = "bad"
      BY DEF Coming, BadAhead
    <3>2. y # 1
      <4>1. Head(inFlight) = inFlight[1]
        <5> HIDE DEF S
        <5> QED
          BY <1>1
      <4> QED
        BY <3>1, <4>1 DEF Byte, Class
    <3>3. y - 1 \in DOMAIN Tail(inFlight) /\ Tail(inFlight)[y - 1] = inFlight[y]
      <4> HIDE DEF S
      <4>1. y \in 1..Len(inFlight) /\ Len(inFlight) \in Nat
        BY <1>1, <3>1
      <4>2. y - 1 \in 1..(Len(inFlight) - 1) /\ (y - 1) + 1 = y
        BY <3>2, <4>1
      <4>3. DOMAIN Tail(inFlight) = 1..(Len(inFlight) - 1)
        BY <1>1
      <4>4. \A z \in 1..(Len(inFlight) - 1) : Tail(inFlight)[z] = inFlight[z + 1]
        BY <1>1
      <4> QED
        BY <4>2, <4>3, <4>4
    <3> QED
      BY <1>5, <3>1, <3>3
  <2> QED
    BY <2>1, <2>2, <2>3, <2>4
<1> QED
  BY <1>2, <1>4, <1>5

\* A byte taken within a request.
LEMMA Goes ==
  ASSUME NEW k \in Nat, NEW g, Coming(k, g), AheadThere, Stream, Reads, NEW s \in States, Takes(s),
         Advance, UNCHANGED <<status, out>>
  PROVE  /\ Byte = Head(g) /\ g # <<>> /\ requests' = requests
         /\ Coming(k, Tail(g))' /\ AheadThere' /\ Cause'
<1>1. inFlight # <<>> /\ Class # "bad" /\ ahead # 0 /\ status = "open"
  BY NoBadTaken DEF Takes
<1>2. inFlight' = Tail(inFlight) /\ requests' = requests /\ out' = out
      /\ ahead' = (IF ahead = Unknown THEN Unknown ELSE ahead - 1)
  BY DEF Advance
<1>3. /\ Byte = Head(g) /\ g # <<>> /\ Len(inFlight) = Len(g)
      /\ Covers(inFlight, Tail(g))' /\ BadAhead' /\ Requests(requests)'
      /\ Len(inFlight') = Len(inFlight) - 1
  BY <1>1, <1>2, Taken
<1>4. Tail(g) \in Seq(From(k))
  <2> DEFINE B == From(k)
  <2>1. g \in Seq(B)
    BY DEF Coming
  <2> HIDE DEF B
  <2>2. Tail(g) \in Seq(B)
    BY <1>3, <2>1
  <2> QED
    BY <2>2 DEF B
<1>5. Coming(k, Tail(g))'
  BY <1>2, <1>3, <1>4 DEF Coming, Closes
<1>6. AheadThere'
  <2>1. Len(inFlight) \in Nat
    BY DEF Stream
  <2>2. Len(inFlight) # 0
    BY <1>1 DEF Stream
  <2> QED
    BY <1>1, <1>2, <1>3, <2>1, <2>2 DEF AheadThere, Reads, Unknown
<1>7. Cause'
  BY <1>1 DEF Cause
<1> QED
  BY <1>2, <1>3, <1>5, <1>6, <1>7

\* While bytes come, there is a request they are of.
LEMMA Inside ==
  ASSUME NEW k \in Nat, NEW g, Coming(k, g), Standing(k, g), g # <<>>
  PROVE  k \in 1..Len(requests)
<1>1. Requests(requests) /\ k \in 1..(Len(requests) + 1) /\ Len(requests) \in Nat
  BY DEF Coming, Requests
<1>2. CASE state \notin {"s_start_req", "s_dead"}
  BY <1>2 DEF Standing
<1>3. CASE state \in {"s_start_req", "s_dead"}
  <2>1. AtStart(requests, k, g)
    BY <1>3 DEF Standing, Located
  <2>2. CASE g = RestOn(requests, k - 1)
    <3>1. k # Len(requests) + 1
      <4> SUFFICES ASSUME k = Len(requests) + 1 PROVE FALSE
        OBVIOUS
      <4>1. k - 1 = Len(requests)
        BY <1>1
      <4>2. RestOn(requests, Len(requests)) = <<>>
        BY <1>1, RestTypes
      <4> QED
        BY <2>2, <4>1, <4>2
    <3> QED
      BY <1>1, <3>1
  <2>3. CASE k <= Len(requests)
    BY <1>1, <2>3
  <2> QED
    BY <2>1, <2>2, <2>3 DEF AtStart
<1> QED
  BY <1>2, <1>3

---------------------------------------------------------------------------
(* The steps of the parser, from place to place.                           *)

\* The parser is in a request, at g.
Placed(k, g) ==
  /\ Requests(requests) /\ k \in 1..Len(requests) /\ requests' = requests
  /\ Standing(k, g) /\ g # <<>> /\ Byte = Head(g) /\ Class = Head(g).class

\* The fields of a byte.
LEMMA ByteIs ==
  ASSUME NEW k
  PROVE  /\ \A class, part, i : /\ PieceByte(k, class, part, i).class = class
                               /\ PieceByte(k, class, part, i).i = i
                               /\ PieceByte(k, class, part, i).req = k
         /\ \A class, kind : /\ SingleByte(k, class, kind).class = class
                            /\ SingleByte(k, class, kind).req = k
         /\ \A kind, i : /\ NameByte(k, kind, i).class = "name"
                        /\ NameByte(k, kind, i).kind = kind
BY DEF PieceByte, SingleByte, NameByte

LEMMA LeadsIs ==
  ASSUME NEW k, NEW g, NEW b, NEW s, Leads(k, g, b, s)
  PROVE  g # <<>> /\ Head(g) = b /\ Head(g).class = b.class /\ Tail(g) = s
BY DEF Leads

LEMMA PieceIs ==
  ASSUME NEW k, NEW g, NEW class, NEW part, NEW i, NEW s,
         Leads(k, g, PieceByte(k, class, part, i), s)
  PROVE  g # <<>> /\ Head(g).class = class /\ Head(g).i = i /\ Head(g).req = k /\ Tail(g) = s
BY ByteIs, LeadsIs

LEMMA SingleIs ==
  ASSUME NEW k, NEW g, NEW class, NEW kind, NEW s, Leads(k, g, SingleByte(k, class, kind), s)
  PROVE  g # <<>> /\ Head(g).class = class /\ Head(g).req = k /\ Tail(g) = s
BY ByteIs, LeadsIs

LEMMA NameIs ==
  ASSUME NEW k, NEW g, NEW kind, NEW i, NEW s, Leads(k, g, NameByte(k, kind, i), s)
  PROVE  g # <<>> /\ Head(g).class = "name" /\ Head(g).kind = kind /\ Tail(g) = s
BY ByteIs, LeadsIs

LEMMA LineLeadsIs ==
  ASSUME NEW rs, NEW k, NEW g, NEW kind, NEW s, LineLeads(rs, k, g, kind, s)
  PROVE  /\ g # <<>> /\ Head(g).req = k
         /\ \/ rs[k].eol = "crlf" /\ Head(g).class = "cr" /\ Tail(g) = LfOn(k, s)
            \/ rs[k].eol # "crlf" /\ Head(g).class = "lf" /\ Tail(g) = s
BY ByteIs, LeadsIs DEF LineLeads

\* A step within a request.
LEMMA Stands ==
  ASSUME NEW k, NEW g, Placed(k, g), state # "s_dead",
         state' \in States \ {"s_start_req", "s_dead"},
         NEW h \in Nat, NEW i \in Nat, NEW s,
         Located(state', requests, k, h, i, s, header', flags', remaining')
  PROVE  Standing(k, s)'
BY DEF Placed, Standing, Closes

\* An empty line before the request.
LEMMA BlankLineMoves ==
  ASSUME NEW k \in Nat, NEW g, Placed(k, g), BlankLine
  PROVE  Standing(k, Tail(g))'
<1> DEFINE s == Tail(g)
<1>1. /\ Requests(requests) /\ k \in 1..Len(requests) /\ requests' = requests
      /\ state \in {"s_start_req", "s_dead"} /\ Class = Head(g).class /\ g # <<>>
      /\ Class \in {"cr", "lf"} /\ state' = state
  BY DEF Placed, BlankLine, Takes, parser
<1>2. AtStart(requests, k, g)
  BY <1>1 DEF Placed, Standing, Located
<1>7. k <= Len(requests)
  BY <1>1, RequestFacts
<1>3. /\ Leads(k, LineOn(requests, k), PieceByte(k, "method", 0, 1), MethodOn(requests, k))
      /\ LineOn(requests, k) \in Seq(From(k))
      /\ IF requests[k].blank
         THEN LineLeads(requests, k, RestOn(requests, k - 1), "none", LineOn(requests, k))
         ELSE RestOn(requests, k - 1) = LineOn(requests, k)
      /\ \A t \in Seq(From(k)) : Leads(k, LfOn(k, t), SingleByte(k, "lf", "none"), t)
  BY <1>1, RequestLeads, StartLeads, BodyLeads
<1>8. Head(LineOn(requests, k)).class = "method"
  BY <1>3, PieceIs, SingleIs
<1>4. g # LineOn(requests, k)
  BY <1>1, <1>8
<1>5. AtStart(requests, k, s)
  <2>1. CASE g = LfOn(k, LineOn(requests, k))
    BY <1>3, <1>7, <2>1, LeadsIs DEF AtStart
  <2>2. CASE g = RestOn(requests, k - 1)
    <3>1. LineLeads(requests, k, g, "none", LineOn(requests, k))
      BY <1>3, <1>4, <1>7, <2>2
    <3>2. s = LfOn(k, LineOn(requests, k)) \/ s = LineOn(requests, k)
      BY <3>1, LineLeadsIs
    <3> QED
      BY <1>7, <3>2 DEF AtStart
  <2> QED
    BY <1>2, <1>4, <2>1, <2>2 DEF AtStart
<1>6. \A h, i : Located(state', requests', k, h, i, s, header', flags', remaining')
  BY <1>1, <1>5 DEF Located
<1> QED
  BY <1>1, <1>6 DEF Placed, Standing, Closes

\* The request line.
LEMMA StartReqMoves ==
  ASSUME NEW k \in Nat, NEW g, Placed(k, g), StartReq
  PROVE  Standing(k, Tail(g))'
<1> DEFINE s == Tail(g)
<1>1. /\ Requests(requests) /\ k \in 1..Len(requests)
      /\ state = "s_start_req" /\ Class = Head(g).class /\ g # <<>>
      /\ Class = "method" /\ state' = "s_req_method" /\ flags' = {} /\ remaining' = Unknown
  BY DEF Placed, StartReq, Takes, Goto
<1>2. AtStart(requests, k, g)
  BY <1>1 DEF Placed, Standing, Located
<1>3. /\ Leads(k, LineOn(requests, k), PieceByte(k, "method", 0, 1), MethodOn(requests, k))
      /\ LineOn(requests, k) \in Seq(From(k))
      /\ IF requests[k].blank
         THEN LineLeads(requests, k, RestOn(requests, k - 1), "none", LineOn(requests, k))
         ELSE RestOn(requests, k - 1) = LineOn(requests, k)
      /\ \A t \in Seq(From(k)) : Leads(k, LfOn(k, t), SingleByte(k, "lf", "none"), t)
  BY <1>1, RequestLeads, StartLeads, BodyLeads
<1>4. g = LineOn(requests, k)
  <2>0. Head(LfOn(k, LineOn(requests, k))).class = "lf"
    BY <1>3, PieceIs, SingleIs
  <2>1. g # LfOn(k, LineOn(requests, k))
    BY <1>1, <2>0
  <2>2. requests[k].blank => g # RestOn(requests, k - 1)
    BY <1>1, <1>3, LineLeadsIs
  <2> QED
    BY <1>2, <1>3, <2>1, <2>2 DEF AtStart
<1>5. s = MethodOn(requests, k)
  BY <1>3, <1>4, LeadsIs
<1>6. Located(state', requests, k, 0, 0, s, header', flags', remaining')
  BY <1>1, <1>5 DEF Located, AtMethod
<1>7. state' \in States \ {"s_start_req", "s_dead"} /\ state # "s_dead"
  BY <1>1 DEF States
<1> QED
  BY <1>6, <1>7, Stands

LEMMA ReqMethodMoves ==
  ASSUME NEW k \in Nat, NEW g, Placed(k, g), ReqMethod
  PROVE  Standing(k, Tail(g))'
<1> DEFINE s == Tail(g)
<1>1. /\ Requests(requests) /\ k \in 1..Len(requests)
      /\ state = "s_req_method" /\ Class = Head(g).class /\ g # <<>>
      /\ state' = (IF Class = "space" THEN "s_req_spaces_before_url" ELSE state)
      /\ flags' = flags /\ remaining' = remaining
  BY DEF Placed, ReqMethod, Takes, Goto
<1>2. flags = {} /\ remaining = Unknown /\ AtMethod(requests, k, g)
  BY <1>1 DEF Placed, Standing, Located
<1>3. /\ Leads(k, MethodOn(requests, k), PieceByte(k, "method", 0, 2), MethodEndOn(requests, k))
      /\ Leads(k, MethodEndOn(requests, k), SingleByte(k, "space", "none"), UrlOn(requests, k, 0))
  BY <1>1, RequestLeads
<1>5. /\ Head(MethodOn(requests, k)).class = "method"
      /\ Tail(MethodOn(requests, k)) = MethodEndOn(requests, k)
      /\ Head(MethodEndOn(requests, k)).class = "space"
      /\ Tail(MethodEndOn(requests, k)) = UrlOn(requests, k, 0)
  BY <1>3, PieceIs, SingleIs
<1>4. \/ Class = "method" /\ s = MethodEndOn(requests, k)
      \/ Class = "space" /\ s = UrlOn(requests, k, 0)
  BY <1>1, <1>2, <1>5 DEF AtMethod
<1>6. Located(state', requests, k, 0, 0, s, header', flags', remaining')
  BY <1>1, <1>2, <1>4 DEF Located, AtMethod
<1>7. state' \in States \ {"s_start_req", "s_dead"} /\ state # "s_dead"
  BY <1>1 DEF States
<1> QED
  BY <1>6, <1>7, Stands

LEMMA SpacesBeforeUrlMoves ==
  ASSUME NEW k \in Nat, NEW g, Placed(k, g), SpacesBeforeUrl
  PROVE  Standing(k, Tail(g))'
<1> DEFINE s == Tail(g)
<1>1. /\ Requests(requests) /\ k \in 1..Len(requests)
      /\ state = "s_req_spaces_before_url" /\ Class = Head(g).class /\ g # <<>>
      /\ Class # "space" => state' = "s_req_url"
      /\ flags' = flags /\ remaining' = remaining
  BY DEF Placed, SpacesBeforeUrl, Takes, Goto
<1>2. flags = {} /\ remaining = Unknown /\ g = UrlOn(requests, k, 0)
  BY <1>1 DEF Placed, Standing, Located
<1>3. requests[k].url \in Nat /\ requests[k].url > 0
  BY <1>1, RequestFacts
<1>4. Leads(k, UrlOn(requests, k, 0), PieceByte(k, "url", 0, 0 + 1), UrlOn(requests, k, 0 + 1))
  <2>1. 0 \in 0..(requests[k].url - 1)
    BY <1>3
  <2> QED
    BY <1>1, <2>1, RequestLeads
<1>5. Class # "space" /\ s = UrlOn(requests, k, 1)
  BY <1>1, <1>2, <1>4, PieceIs, SingleIs
<1>6. Located(state', requests, k, 0, 1, s, header', flags', remaining')
  BY <1>1, <1>2, <1>3, <1>5 DEF Located, AtUrl
<1>7. state' \in States \ {"s_start_req", "s_dead"} /\ state # "s_dead" /\ 1 \in Nat
  BY <1>1, <1>5 DEF States
<1> QED
  BY <1>6, <1>7, Stands

LEMMA UrlMoves ==
  ASSUME NEW k \in Nat, NEW g, Placed(k, g), Url
  PROVE  Standing(k, Tail(g))'
<1> DEFINE s == Tail(g)
<1>1. /\ Requests(requests) /\ k \in 1..Len(requests)
      /\ state = "s_req_url" /\ Class = Head(g).class /\ g # <<>>
      /\ state' = (CASE Class = "space" -> "s_req_http_start"
                     [] Class = "cr" -> "s_req_line_almost_done"
                     [] Class = "lf" -> "s_header_field_start"
                     [] OTHER -> state)
      /\ flags' = (IF Class \in {"space", "url"} THEN flags ELSE flags \cup {"0.9"})
      /\ remaining' = remaining
  BY DEF Placed, Url, Takes, Goto, Accepts
<1>2. PICK i \in Nat : flags = {} /\ remaining = Unknown /\ AtUrl(requests, k, i, g)
  BY <1>1 DEF Placed, Standing, Located
<1> DEFINE n == requests[k].url
<1>3. n \in Nat /\ n > 0 /\ i \in 1..n /\ g = UrlOn(requests, k, i)
  BY <1>1, <1>2, RequestFacts DEF AtUrl
<1>4. state # "s_dead"
  BY <1>1
<1>5. CASE i < n
  <2>1. i \in 0..(n - 1) /\ i + 1 \in Nat /\ i + 1 \in 1..n
    BY <1>3, <1>5
  <2>2. Leads(k, UrlOn(requests, k, i), PieceByte(k, "url", 0, i + 1), UrlOn(requests, k, i + 1))
    BY <1>1, <2>1, RequestLeads
  <2>3. Class = "url" /\ s = UrlOn(requests, k, i + 1)
    BY <1>1, <1>3, <2>2, PieceIs, SingleIs
  <2>4. state' = "s_req_url" /\ flags' = {} /\ remaining' = Unknown
    BY <1>1, <1>2, <2>3
  <2>5. Located(state', requests, k, 0, i + 1, s, header', flags', remaining')
    BY <2>1, <2>3, <2>4 DEF Located, AtUrl
  <2>6. state' \in States \ {"s_start_req", "s_dead"}
    BY <2>4 DEF States
  <2> QED
    BY <1>4, <2>1, <2>5, <2>6, Stands
<1>6. CASE i = n /\ requests[k].version
  <2>1. Leads(k, UrlOn(requests, k, n), SingleByte(k, "space", "url"), VersionOn(requests, k))
    BY <1>1, <1>6, RequestLeads
  <2>2. Class = "space" /\ s = VersionOn(requests, k)
    BY <1>1, <1>3, <1>6, <2>1, PieceIs, SingleIs
  <2>3. state' = "s_req_http_start" /\ flags' = {} /\ remaining' = Unknown
    BY <1>1, <1>2, <2>2
  <2>4. Located(state', requests, k, 0, 0, s, header', flags', remaining')
    BY <1>6, <2>2, <2>3 DEF Located
  <2>5. state' \in States \ {"s_start_req", "s_dead"}
    BY <2>3 DEF States
  <2> QED
    BY <1>4, <2>4, <2>5, Stands
<1>7. CASE i = n /\ ~requests[k].version
  <2> DEFINE t == HeadersOn(requests, k, 0)
  <2>1. LineLeads(requests, k, UrlOn(requests, k, n), "url", t)
    BY <1>1, <1>7, RequestLeads
  <2>2. \/ Class = "cr" /\ s = LfOn(k, t)
        \/ Class = "lf" /\ s = t
    BY <1>1, <1>3, <1>7, <2>1, ByteIs, LineLeadsIs, LeadsIs
  <2>3. flags' = FlagsOfLine(requests, k) /\ flags' = FlagsTo(requests, k, 0)
        /\ remaining' = Unknown
    <3>1. flags' = {"0.9"} /\ remaining' = Unknown
      BY <1>1, <1>2, <2>2
    <3>2. FlagsTo(requests, k, 0) = FlagsOfLine(requests, k)
      BY <1>1, FlagSteps
    <3> QED
      BY <1>7, <3>1, <3>2 DEF FlagsOfLine
  <2>4. \/ state' = "s_req_line_almost_done" /\ s = LfOn(k, t)
        \/ state' = "s_header_field_start" /\ s = t
    BY <1>1, <2>2
  <2>5. Located(state', requests, k, 0, 0, s, header', flags', remaining')
    BY <2>3, <2>4 DEF Located, AtHeaders
  <2>6. state' \in States \ {"s_start_req", "s_dead"}
    BY <2>4 DEF States
  <2> QED
    BY <1>4, <2>5, <2>6, Stands
<1> QED
  BY <1>3, <1>5, <1>6, <1>7

LEMMA VersionMoves ==
  ASSUME NEW k \in Nat, NEW g, Placed(k, g), Version
  PROVE  Standing(k, Tail(g))'
<1> DEFINE s == Tail(g)
           t == HeadersOn(requests, k, 0)
<1>1. /\ Requests(requests) /\ k \in 1..Len(requests) /\ Class = Head(g).class /\ g # <<>>
      /\ state \in {"s_req_http_start", "s_req_first_http_minor", "s_req_http_minor"}
      /\ state' = (CASE state = "s_req_http_start" ->
                          IF Class = "space" THEN state ELSE "s_req_first_http_minor"
                     [] state = "s_req_first_http_minor" -> "s_req_http_minor"
                     [] state = "s_req_http_minor" ->
                          CASE Class = "version" -> state
                            [] Class = "cr" -> "s_req_line_almost_done"
                            [] Class = "lf" -> "s_header_field_start")
      /\ flags' = flags /\ remaining' = remaining
  BY DEF Placed, Version, Takes, Goto
<1>2. /\ flags = {} /\ remaining = Unknown /\ requests[k].version
      /\ state = "s_req_http_start" => g = VersionOn(requests, k)
      /\ state = "s_req_first_http_minor" => g = MinorOn(requests, k)
      /\ state = "s_req_http_minor" => g = LineEndOn(requests, k, 0)
  BY <1>1 DEF Placed, Standing, Located
<1>3. /\ Leads(k, VersionOn(requests, k), PieceByte(k, "version", 0, 1), MinorOn(requests, k))
      /\ Leads(k, MinorOn(requests, k), PieceByte(k, "version", 0, 2), LineEndOn(requests, k, 0))
      /\ LineLeads(requests, k, LineEndOn(requests, k, 0), "none", t)
  BY <1>1, RequestLeads
<1>8. /\ Head(VersionOn(requests, k)).class = "version"
      /\ Tail(VersionOn(requests, k)) = MinorOn(requests, k)
      /\ Head(MinorOn(requests, k)).class = "version"
      /\ Tail(MinorOn(requests, k)) = LineEndOn(requests, k, 0)
  BY <1>3, PieceIs, SingleIs
<1>9. LET e == LineEndOn(requests, k, 0)
      IN  \/ Head(e).class = "cr" /\ Tail(e) = LfOn(k, t)
          \/ Head(e).class = "lf" /\ Tail(e) = t
  BY <1>3, LineLeadsIs
<1>4. \/ state' = "s_req_first_http_minor" /\ s = MinorOn(requests, k)
      \/ state' = "s_req_http_minor" /\ s = LineEndOn(requests, k, 0)
      \/ state' = "s_req_line_almost_done" /\ s = LfOn(k, t)
      \/ state' = "s_header_field_start" /\ s = t
  BY <1>1, <1>2, <1>8, <1>9
<1>5. flags = FlagsOfLine(requests, k) /\ flags = FlagsTo(requests, k, 0)
  BY <1>1, <1>2, FlagSteps DEF FlagsOfLine
<1>6. Located(state', requests, k, 0, 0, s, header', flags', remaining')
  BY <1>1, <1>2, <1>4, <1>5 DEF Located, AtHeaders
<1>7. state' \in States \ {"s_start_req", "s_dead"} /\ state # "s_dead"
  BY <1>1, <1>4 DEF States
<1> QED
  BY <1>6, <1>7, Stands

LEMMA ReqLineAlmostDoneMoves ==
  ASSUME NEW k \in Nat, NEW g, Placed(k, g), ReqLineAlmostDone
  PROVE  Standing(k, Tail(g))'
<1> DEFINE s == Tail(g)
           t == HeadersOn(requests, k, 0)
<1>1. /\ Requests(requests) /\ k \in 1..Len(requests)
      /\ state = "s_req_line_almost_done" /\ state' = "s_header_field_start"
      /\ flags' = flags /\ remaining' = remaining
  BY DEF Placed, ReqLineAlmostDone, Takes, Goto
<1>2. flags = FlagsOfLine(requests, k) /\ remaining = Unknown /\ g = LfOn(k, t)
  BY <1>1 DEF Placed, Standing, Located
<1>3. FlagsTo(requests, k, 0) = FlagsOfLine(requests, k)
  BY <1>1, FlagSteps
<1>4. s = t
  <2>1. t \in Seq(From(k)) /\ \A u \in Seq(From(k)) : Leads(k, LfOn(k, u), SingleByte(k, "lf", "none"), u)
    BY <1>1, BodyLeads
  <2> QED
    BY <1>2, <2>1, LeadsIs
<1>5. Located(state', requests, k, 0, 0, s, header', flags', remaining')
  BY <1>1, <1>2, <1>3, <1>4 DEF Located, AtHeaders
<1>6. state' \in States \ {"s_start_req", "s_dead"} /\ state # "s_dead"
  BY <1>1 DEF States
<1> QED
  BY <1>5, <1>6, Stands

---------------------------------------------------------------------------
(* The headers.                                                            *)

LEMMA LfIs ==
  ASSUME NEW k \in Nat, NEW s \in Seq(From(k))
  PROVE  LfOn(k, s) # <<>> /\ Head(LfOn(k, s)).class = "lf" /\ Tail(LfOn(k, s)) = s
<1>1. Leads(k, LfOn(k, s), SingleByte(k, "lf", "none"), s)
  BY ConsLeads
<1> QED
  BY <1>1, SingleIs

\* Behind a header, the flags are those of the headers up to it.
LEMMA AfterHeaderAt ==
  ASSUME NEW k \in Nat, NEW g, Placed(k, g), AfterHeader
  PROVE  \/ \E x \in 0..NumHeaders(requests, k) :
              /\ FlagsThen = FlagsTo(requests, k, x) /\ remaining = LengthTo(requests, k, x)
              /\ g = HeadersOn(requests, k, x)
         \/ /\ FlagsThen = AllFlags(requests, k) \cup {"trailing"}
            /\ g = EolOn(requests, k, "none", RestOn(requests, k))
<1> DEFINE n == NumHeaders(requests, k)
<1>1. /\ Requests(requests) /\ k \in 1..Len(requests) /\ Class = Head(g).class
      /\ \E h, i \in Nat : Located(state, requests, k, h, i, g, header, flags, remaining)
  BY DEF Placed, Standing
<1>2. n \in Nat
  BY <1>1, RequestFacts
<1>3. CASE state = "s_header_field_start"
  <2>1. AtHeaders(requests, k, g, flags, remaining) /\ FlagsThen = flags
    BY <1>1, <1>3 DEF Located, FlagsThen
  <2>2. LengthTo(requests, k, 0) = Unknown
    BY <1>1, FlagSteps
  <2>3. 0 \in 0..n
    BY <1>2
  <2> QED
    BY <2>1, <2>2, <2>3 DEF AtHeaders, AllFlags
<1>4. CASE state = "s_header_value_lws"
  <2>1. PICK h, i \in Nat :
          InValue(requests, k, h, i, header, flags, remaining) /\ AtValueEnd(requests, k, h, i, g)
    BY <1>1, <1>4 DEF Located
  <2>2. h \in 1..n /\ h \in 0..n
    BY <1>2, <2>1 DEF InValue
  <2>3. g # FoldOn(requests, k, h)
    <3>1. Leads(k, FoldOn(requests, k, h), SingleByte(k, "space", "none"), SecondOn(requests, k, h))
      BY <1>1, <2>2, HeaderLeads
    <3>2. Head(FoldOn(requests, k, h)).class = "space"
      BY <3>1, SingleIs
    <3>3. Class # "space"
      BY <1>4 DEF AfterHeader, Takes
    <3> QED
      BY <1>1, <3>2, <3>3
  <2>4. FlagsThen = FlagsTo(requests, k, h)
    <3>1. FlagsTo(requests, k, h)
            = FlagsTo(requests, k, h - 1)
              \cup ({Kind(requests, k, h)} \cap {"upgrade", "switch", "close", "chunked"})
      BY <1>1, <2>2, FlagSteps
    <3>2. FlagsThen = flags \cup ({header} \cap {"chunked", "switch", "close"})
      BY <1>4 DEF FlagsThen
    <3> QED
      BY <2>1, <3>1, <3>2 DEF InValue
  <2> QED
    BY <2>1, <2>2, <2>3, <2>4 DEF AtValueEnd, InValue
<1>5. CASE state = "s_header_value_discard_lws"
  <2>1. PICK h \in Nat :
          InHeader(requests, k, h, header, flags, remaining) /\ AtNoValue(requests, k, h, g)
    BY <1>1, <1>5 DEF Located
  <2>2. h \in 1..n /\ h \in 0..n
    BY <1>2, <2>1 DEF InHeader
  <2>3. g # LateOn(requests, k, h)
    <3>1. Leads(k, LateOn(requests, k, h), SingleByte(k, "space", "none"), BothOn(requests, k, h))
      BY <1>1, <2>2, HeaderLeads
    <3>2. Head(LateOn(requests, k, h)).class = "space"
      BY <3>1, SingleIs
    <3>3. Class # "space"
      BY <1>5 DEF AfterHeader, Takes
    <3> QED
      BY <1>1, <3>2, <3>3
  <2>4. header = "empty" /\ Kind(requests, k, h) = "empty" /\ g = HeadersOn(requests, k, h)
    BY <2>1, <2>3 DEF AtNoValue, InHeader
  <2>5. /\ FlagsTo(requests, k, h)
             = FlagsTo(requests, k, h - 1)
               \cup ({"empty"} \cap {"upgrade", "switch", "close", "chunked"})
        /\ LengthTo(requests, k, h) = LengthTo(requests, k, h - 1)
    BY <1>1, <2>2, <2>4, FlagSteps
  <2>6. FlagsThen = flags
    BY <1>5, <2>4 DEF FlagsThen
  <2>7. FlagsThen = FlagsTo(requests, k, h)
    BY <2>1, <2>5, <2>6 DEF InHeader
  <2> QED
    BY <2>1, <2>2, <2>4, <2>5, <2>7 DEF InHeader
<1> QED
  BY <1>3, <1>4, <1>5 DEF AfterHeader, Takes

\* Behind a header is the next one, or the end of them.
LEMMA HeadersBegin ==
  ASSUME NEW rs, Requests(rs), NEW k \in 1..Len(rs), NEW x \in 0..NumHeaders(rs, k)
  PROVE  IF x = NumHeaders(rs, k)
         THEN LineLeads(rs, k, HeadersOn(rs, k, x), "none", BodyOn(rs, k))
         ELSE /\ x + 1 \in 1..NumHeaders(rs, k) /\ x + 1 \in Nat /\ (x + 1) - 1 = x
              /\ Leads(k, HeadersOn(rs, k, x), NameByte(k, Kind(rs, k, x + 1), 1),
                       NameOn(rs, k, x + 1))
<1>1. NumHeaders(rs, k) \in Nat
  BY RequestFacts
<1>2. CASE x = NumHeaders(rs, k)
  BY <1>2, BodyLeads
<1>3. CASE x # NumHeaders(rs, k)
  <2>1. x + 1 \in 1..NumHeaders(rs, k) /\ x + 1 \in Nat /\ (x + 1) - 1 = x
    BY <1>1, <1>3
  <2>2. Leads(k, HeadersOn(rs, k, (x + 1) - 1), NameByte(k, Kind(rs, k, x + 1), 1),
              NameOn(rs, k, x + 1))
    BY <2>1, HeaderLeads
  <2> QED
    BY <1>3, <2>1, <2>2
<1> QED
  BY <1>2, <1>3

LEMMA HeaderFieldStartMoves ==
  ASSUME NEW k \in Nat, NEW g, Placed(k, g), HeaderFieldStart
  PROVE  Standing(k, Tail(g))'
<1> DEFINE s == Tail(g)
           n == NumHeaders(requests, k)
<1>1. /\ Requests(requests) /\ k \in 1..Len(requests) /\ requests' = requests
      /\ Class = Head(g).class /\ Byte = Head(g) /\ g # <<>>
      /\ Class = "name" /\ state' = "s_header_field" /\ flags' = FlagsThen
      /\ header' = Byte.kind /\ remaining' = remaining /\ AfterHeader
  BY DEF Placed, HeaderFieldStart, Goto
<1>2. n \in Nat
  BY <1>1, RequestFacts
<1>3. g # EolOn(requests, k, "none", RestOn(requests, k)) /\ g # HeadersOn(requests, k, n)
  <2>1. /\ LineLeads(requests, k, EolOn(requests, k, "none", RestOn(requests, k)), "none",
                     RestOn(requests, k))
        /\ LineLeads(requests, k, HeadersOn(requests, k, n), "none", BodyOn(requests, k))
    BY <1>1, BodyLeads
  <2>2. /\ Head(EolOn(requests, k, "none", RestOn(requests, k))).class \in {"cr", "lf"}
        /\ Head(HeadersOn(requests, k, n)).class \in {"cr", "lf"}
    BY <2>1, LineLeadsIs
  <2> QED
    BY <1>1, <2>2
<1>4. PICK x \in 0..n :
         /\ FlagsThen = FlagsTo(requests, k, x) /\ remaining = LengthTo(requests, k, x)
         /\ g = HeadersOn(requests, k, x)
  BY <1>1, <1>3, AfterHeaderAt
<1> DEFINE h == x + 1
<1>5. h \in 1..n /\ h \in Nat /\ h - 1 = x
  BY <1>2, <1>3, <1>4
<1> HIDE DEF h
<1>6. /\ Leads(k, HeadersOn(requests, k, h - 1), NameByte(k, Kind(requests, k, h), 1),
              NameOn(requests, k, h))
  BY <1>1, <1>5, HeaderLeads
<1>7. Head(g).kind = Kind(requests, k, h) /\ s = NameOn(requests, k, h)
  BY <1>4, <1>5, <1>6, NameIs
<1>8. Located(state', requests, k, h, 1, s, header', flags', remaining')
  BY <1>1, <1>4, <1>5, <1>7 DEF Located, InHeader, AtName
<1>9. state' \in States \ {"s_start_req", "s_dead"} /\ state # "s_dead" /\ 1 \in Nat
  BY <1>1 DEF States, AfterHeader, Takes
<1> QED
  BY <1>5, <1>8, <1>9, Stands

LEMMA HeaderFieldMoves ==
  ASSUME NEW k \in Nat, NEW g, Placed(k, g), HeaderField
  PROVE  Standing(k, Tail(g))'
<1> DEFINE s == Tail(g)
<1>1. /\ Requests(requests) /\ k \in 1..Len(requests) /\ Class = Head(g).class
      /\ state = "s_header_field"
      /\ state' = (IF Class = "name" THEN state ELSE "s_header_value_discard_ws")
      /\ header' = header /\ flags' = flags /\ remaining' = remaining
  BY DEF Placed, HeaderField, Takes, Goto
<1>2. PICK h, i \in Nat :
        InHeader(requests, k, h, header, flags, remaining) /\ AtName(requests, k, h, i, g)
  BY <1>1 DEF Placed, Standing, Located
<1>3. h \in 1..NumHeaders(requests, k)
  BY <1>2 DEF InHeader
<1>4. /\ Leads(k, NameOn(requests, k, h), NameByte(k, Kind(requests, k, h), 2),
               ColonOn(requests, k, h))
      /\ Leads(k, ColonOn(requests, k, h), SingleByte(k, "colon", "none"), ValueOn(requests, k, h))
  BY <1>1, <1>3, HeaderLeads
<1>5. /\ Head(NameOn(requests, k, h)).class = "name"
      /\ Tail(NameOn(requests, k, h)) = ColonOn(requests, k, h)
      /\ Head(ColonOn(requests, k, h)).class = "colon"
      /\ Tail(ColonOn(requests, k, h)) = ValueOn(requests, k, h)
  BY <1>4, NameIs, SingleIs
<1>6. \/ state' = "s_header_field" /\ s = ColonOn(requests, k, h)
      \/ state' = "s_header_value_discard_ws" /\ s = ValueOn(requests, k, h)
  BY <1>1, <1>2, <1>5 DEF AtName
<1>7. Located(state', requests, k, h, 2, s, header', flags', remaining')
  BY <1>1, <1>2, <1>6 DEF Located, AtName, AtDiscard
<1>8. state' \in States \ {"s_start_req", "s_dead"} /\ state # "s_dead" /\ 2 \in Nat
  BY <1>1, <1>6 DEF States
<1> QED
  BY <1>7, <1>8, Stands

\* Before the value.
LEMMA DiscardWsMoves ==
  ASSUME NEW k \in Nat, NEW g, Placed(k, g), DiscardWs
  PROVE  Standing(k, Tail(g))'
<1> DEFINE s == Tail(g)
           discard == {"s_header_value_discard_ws", "s_header_value_discard_ws_almost_done",
                       "s_header_value_discard_lws"}
<1>1. /\ Requests(requests) /\ k \in 1..Len(requests) /\ Class = Head(g).class
      /\ header' = header /\ flags' = flags /\ remaining' = remaining
      /\ state \in discard
      /\ \E h, i \in Nat : Located(state, requests, k, h, i, g, header, flags, remaining)
  BY DEF Placed, Standing, DiscardWs, Takes
<1>2. PICK h \in Nat :
        /\ InHeader(requests, k, h, header, flags, remaining)
        /\ state = "s_header_value_discard_ws" => AtDiscard(requests, k, h, g)
        /\ state = "s_header_value_discard_ws_almost_done" =>
             \E t : AtNoValue(requests, k, h, t) /\ g = LfOn(k, t)
        /\ state = "s_header_value_discard_lws" => AtNoValue(requests, k, h, g)
  BY <1>1 DEF Located
<1> DEFINE kind == Kind(requests, k, h)
           next == HeadersOn(requests, k, h)
           late == LateOn(requests, k, h)
           both == BothOn(requests, k, h)
           value == ValueOn(requests, k, h)
<1>3. h \in 1..NumHeaders(requests, k)
  BY <1>2 DEF InHeader
<1>4. next \in Seq(From(k)) /\ late \in Seq(From(k))
  BY <1>1, <1>3, HeaderParts
<1>5. /\ CASE kind = "empty" -> LineLeads(requests, k, value, "none", next)
           [] kind = "late" -> LineLeads(requests, k, value, "none", late)
           [] kind = "folded" -> Leads(k, value, PieceByte(k, "value", h, 1),
                                       EolOn(requests, k, "none", FoldOn(requests, k, h)))
           [] OTHER -> Leads(k, value, SingleByte(k, "space", "none"), both)
      /\ Leads(k, late, SingleByte(k, "space", "none"), both)
      /\ Leads(k, both, PieceByte(k, "value", h, 1), SecondOn(requests, k, h))
  BY <1>1, <1>3, HeaderLeads
<1> HIDE DEF kind, next, late, both, value
<1>6. /\ Head(late).class = "space" /\ Tail(late) = both
      /\ Head(both).class = "value"
      /\ Head(LfOn(k, next)).class = "lf" /\ Tail(LfOn(k, next)) = next
      /\ Head(LfOn(k, late)).class = "lf" /\ Tail(LfOn(k, late)) = late
  BY <1>4, <1>5, SingleIs, PieceIs, LfIs
<1>7. \/ /\ kind = "empty"
         /\ \/ Head(value).class = "cr" /\ Tail(value) = LfOn(k, next)
            \/ Head(value).class = "lf" /\ Tail(value) = next
      \/ /\ kind = "late"
         /\ \/ Head(value).class = "cr" /\ Tail(value) = LfOn(k, late)
            \/ Head(value).class = "lf" /\ Tail(value) = late
      \/ kind = "folded" /\ Head(value).class = "value"
      \/ /\ kind \notin {"empty", "late", "folded"}
         /\ Head(value).class = "space" /\ Tail(value) = both
  BY <1>5, LineLeadsIs, SingleIs, PieceIs
<1>8. /\ state' \in discard
      /\ state' = "s_header_value_discard_ws" => AtDiscard(requests, k, h, s)
      /\ state' = "s_header_value_discard_ws_almost_done" =>
           \E t : AtNoValue(requests, k, h, t) /\ s = LfOn(k, t)
      /\ state' = "s_header_value_discard_lws" => AtNoValue(requests, k, h, s)
  <2>0. AtNoValue(requests, k, h, late) <=> kind = "late" \/ (kind = "empty" /\ late = next)
    BY DEF AtNoValue, kind, next, late
  <2>a. AtNoValue(requests, k, h, next) <=> kind = "empty" \/ (kind = "late" /\ late = next)
    BY DEF AtNoValue, kind, next, late
  <2>b. kind \notin {"empty", "folded"} => AtDiscard(requests, k, h, both)
    BY DEF AtDiscard, kind, both
  <2>1. CASE state = "s_header_value_discard_ws"
    <3>1. g = value
      <4>1. Class # "value"
        BY <2>1 DEF DiscardWs, Takes
      <4> QED
        BY <1>1, <1>2, <1>6, <2>1, <4>1 DEF AtDiscard, both, value
    <3>2. /\ Class = "space" => state' = "s_header_value_discard_ws"
          /\ Class = "cr" => state' = "s_header_value_discard_ws_almost_done"
          /\ Class = "lf" => state' = "s_header_value_discard_lws"
          /\ Class # "value"
      BY <2>1 DEF DiscardWs, Takes, Goto
    <3> QED
      BY <1>1, <1>7, <2>0, <2>a, <2>b, <3>1, <3>2
  <2>2. CASE state = "s_header_value_discard_ws_almost_done"
    <3>1. PICK t : AtNoValue(requests, k, h, t) /\ g = LfOn(k, t)
      BY <1>2, <2>2
    <3>2. t \in {next, late}
      BY <3>1 DEF AtNoValue, next, late
    <3>3. s = t
      BY <1>6, <3>1, <3>2
    <3>4. state' = "s_header_value_discard_lws"
      BY <2>2 DEF DiscardWs, Takes, Goto
    <3> QED
      BY <3>1, <3>3, <3>4
  <2>3. CASE state = "s_header_value_discard_lws"
    <3>1. state' = "s_header_value_discard_ws" /\ Class = "space"
      BY <2>3 DEF DiscardWs, Takes, Goto
    <3>2. g = late /\ kind = "late"
      <4>1. g # next
        <5> SUFFICES ASSUME g = next PROVE FALSE
          OBVIOUS
        <5>1. Head(HeadersOn(requests, k, h)).class # "space"
          <6>1. h \in 0..NumHeaders(requests, k)
            BY <1>3
          <6> QED
            BY <1>1, <6>1, HeadersBegin, LineLeadsIs, NameIs
        <5> QED
          BY <1>1, <3>1, <5>1 DEF next
      <4> QED
        BY <1>2, <2>3, <4>1 DEF AtNoValue, next, late, kind
    <3> QED
      BY <1>6, <2>b, <3>1, <3>2
  <2> QED
    BY <1>1, <2>1, <2>2, <2>3
<1>9. Located(state', requests, k, h, 1, s, header', flags', remaining')
  BY <1>1, <1>2, <1>8 DEF Located
<1>10. state' \in States \ {"s_start_req", "s_dead"} /\ state # "s_dead" /\ 1 \in Nat
  BY <1>1, <1>8 DEF States
<1> QED
  BY <1>9, <1>10, Stands

---------------------------------------------------------------------------

\* What follows in a header.
LEMMA ValueNext ==
  ASSUME NEW rs, Requests(rs), NEW k \in 1..Len(rs), NEW h \in 1..NumHeaders(rs, k)
  PROVE  LET kind == Kind(rs, k, h)
             value == ValueOn(rs, k, h)
             both == BothOn(rs, k, h)
             late == LateOn(rs, k, h)
             second == SecondOn(rs, k, h)
             end == LineEndOn(rs, k, h)
             fold == FoldOn(rs, k, h)
             eol == EolOn(rs, k, "none", fold)
             next == HeadersOn(rs, k, h)
         IN  /\ kind = "folded" => Head(value).class = "value" /\ Head(value).req = k
                                   /\ Tail(value) = eol
             /\ kind # "folded" => Head(value).class # "value"
             /\ Head(both).class = "value" /\ Head(both).req = k /\ Tail(both) = second
             /\ Head(second).class = "value" /\ Tail(second) = end
             /\ \/ Head(end).class = "cr" /\ Tail(end) = LfOn(k, next)
                \/ Head(end).class = "lf" /\ Tail(end) = next
             /\ \/ Head(eol).class = "cr" /\ Tail(eol) = LfOn(k, fold)
                \/ Head(eol).class = "lf" /\ Tail(eol) = fold
             /\ Head(fold).class = "space" /\ Tail(fold) = second
             /\ Head(next).class \in {"name", "cr", "lf"}
             /\ Head(value).class \in {"space", "value", "cr", "lf"} /\ Head(late).class = "space"
             /\ \A t \in {next, fold, late} : Head(LfOn(k, t)).class = "lf" /\ Tail(LfOn(k, t)) = t
<1> DEFINE kind == Kind(rs, k, h)
           value == ValueOn(rs, k, h)
           both == BothOn(rs, k, h)
           late == LateOn(rs, k, h)
           second == SecondOn(rs, k, h)
           end == LineEndOn(rs, k, h)
           fold == FoldOn(rs, k, h)
           eol == EolOn(rs, k, "none", fold)
           next == HeadersOn(rs, k, h)
<1>1. /\ CASE kind = "empty" -> LineLeads(rs, k, value, "none", next)
           [] kind = "late" -> LineLeads(rs, k, value, "none", late)
           [] kind = "folded" -> Leads(k, value, PieceByte(k, "value", h, 1), eol)
           [] OTHER -> Leads(k, value, SingleByte(k, "space", "none"), both)
      /\ Leads(k, both, PieceByte(k, "value", h, 1), second)
      /\ Leads(k, fold, SingleByte(k, "space", "none"), second)
      /\ Leads(k, late, SingleByte(k, "space", "none"), both)
      /\ Leads(k, second, PieceByte(k, "value", h, 2), end)
      /\ LineLeads(rs, k, end, "none", next)
      /\ LineLeads(rs, k, eol, "none", fold)
  BY HeaderLeads
<1>2. /\ k \in Nat /\ next \in Seq(From(k)) /\ fold \in Seq(From(k)) /\ late \in Seq(From(k))
      /\ h \in 0..NumHeaders(rs, k)
  BY RequestFacts, HeaderParts
<1>3. Head(next).class \in {"name", "cr", "lf"}
  <2>1. \/ LineLeads(rs, k, next, "none", BodyOn(rs, k))
        \/ Leads(k, next, NameByte(k, Kind(rs, k, h + 1), 1), NameOn(rs, k, h + 1))
    BY <1>2, HeadersBegin
  <2> HIDE DEF next
  <2> QED
    BY <2>1, LineLeadsIs, NameIs
<1> HIDE DEF kind, value, both, late, second, end, fold, eol, next
<1>4. \A t \in {next, fold, late} : Head(LfOn(k, t)).class = "lf" /\ Tail(LfOn(k, t)) = t
  BY <1>2, LfIs
<1>5. /\ Head(both).class = "value" /\ Head(both).req = k /\ Tail(both) = second
      /\ Head(second).class = "value" /\ Tail(second) = end
      /\ Head(fold).class = "space" /\ Tail(fold) = second
  BY <1>1, PieceIs, SingleIs
<1>6. /\ \/ Head(end).class = "cr" /\ Tail(end) = LfOn(k, next)
         \/ Head(end).class = "lf" /\ Tail(end) = next
      /\ \/ Head(eol).class = "cr" /\ Tail(eol) = LfOn(k, fold)
         \/ Head(eol).class = "lf" /\ Tail(eol) = fold
  BY <1>1, LineLeadsIs
<1>7. kind = "folded" => Head(value).class = "value" /\ Head(value).req = k /\ Tail(value) = eol
  BY <1>1, PieceIs
<1>8. kind # "folded" => Head(value).class \in {"space", "cr", "lf"}
  BY <1>1, LineLeadsIs, SingleIs
<1>9. Head(late).class = "space"
  BY <1>1, SingleIs
<1> QED
  BY <1>3, <1>4, <1>5, <1>6, <1>7, <1>8, <1>9 DEF kind, value, both, late, second, end, fold, eol, next

LEMMA HeaderValueStartMoves ==
  ASSUME NEW k \in Nat, NEW g, Placed(k, g), HeaderValueStart
  PROVE  Standing(k, Tail(g))'
<1> DEFINE s == Tail(g)
<1>1. /\ Requests(requests) /\ k \in 1..Len(requests) /\ requests' = requests
      /\ Byte = Head(g) /\ Class = Head(g).class /\ state' = "s_header_value"
      /\ header' = header /\ flags' = flags \cup ({header} \cap {"upgrade"})
      /\ remaining' = (IF header = "length" THEN ContentLength(Byte.req) ELSE remaining)
      /\ \/ state = "s_header_value_discard_ws" /\ Class = "value"
         \/ state = "s_header_value_lws" /\ Class = "space"
      /\ \E h, i \in Nat : Located(state, requests, k, h, i, g, header, flags, remaining)
  BY DEF Placed, Standing, HeaderValueStart, Takes, Goto
<1>2. CASE state = "s_header_value_discard_ws"
  <2>1. PICK h \in Nat :
          InHeader(requests, k, h, header, flags, remaining) /\ AtDiscard(requests, k, h, g)
    BY <1>1, <1>2 DEF Located
  <2> DEFINE kind == Kind(requests, k, h)
  <2>2. /\ h \in 1..NumHeaders(requests, k) /\ header = kind
        /\ flags = FlagsTo(requests, k, h - 1) /\ remaining = LengthTo(requests, k, h - 1)
    BY <2>1 DEF InHeader
  <2>3. \/ g = ValueOn(requests, k, h)
        \/ kind \notin {"empty", "folded"} /\ g = BothOn(requests, k, h)
    BY <2>1 DEF AtDiscard
  <2>4. Class = "value"
    BY <1>1, <1>2
  <2>5. /\ Byte.req = k
        /\ \/ kind = "folded" /\ s = EolOn(requests, k, "none", FoldOn(requests, k, h))
           \/ kind \notin {"empty", "folded"} /\ s = SecondOn(requests, k, h)
    BY <1>1, <2>2, <2>3, <2>4, ValueNext
  <2>6. remaining' = LengthTo(requests, k, h)
    BY <1>1, <2>2, <2>5, FlagSteps DEF ContentLength
  <2>7. InValue(requests, k, h, 1, header', flags', remaining')
    BY <1>1, <2>2, <2>5, <2>6 DEF InValue
  <2>8. AtValue(requests, k, h, 1, s)
    BY <2>5 DEF AtValue, ValueLength
  <2>9. Located(state', requests, k, h, 1, s, header', flags', remaining')
    BY <1>1, <2>7, <2>8 DEF Located
  <2>10. state' \in States \ {"s_start_req", "s_dead"} /\ state # "s_dead" /\ 1 \in Nat
    BY <1>1 DEF States
  <2> QED
    BY <2>9, <2>10, Stands
<1>3. CASE state = "s_header_value_lws"
  <2>1. PICK h, i \in Nat :
          InValue(requests, k, h, i, header, flags, remaining) /\ AtValueEnd(requests, k, h, i, g)
    BY <1>1, <1>3 DEF Located
  <2> DEFINE kind == Kind(requests, k, h)
  <2>2. /\ h \in 1..NumHeaders(requests, k) /\ header = kind
        /\ flags = FlagsTo(requests, k, h - 1) \cup ({kind} \cap {"upgrade"})
        /\ remaining = LengthTo(requests, k, h)
    BY <2>1 DEF InValue
  <2>3. \/ g = HeadersOn(requests, k, h)
        \/ kind = "folded" /\ g = FoldOn(requests, k, h)
    BY <2>1 DEF AtValueEnd
  <2>4. Class = "space"
    BY <1>1, <1>3
  <2>11. /\ Head(HeadersOn(requests, k, h)).class \in {"name", "cr", "lf"}
         /\ Tail(FoldOn(requests, k, h)) = SecondOn(requests, k, h)
    <3>1. Requests(requests) /\ k \in 1..Len(requests) /\ h \in 1..NumHeaders(requests, k)
      BY <1>1, <2>2
    <3> QED
      BY <3>1, ValueNext
  <2>5. kind = "folded" /\ s = SecondOn(requests, k, h)
    BY <1>1, <2>3, <2>4, <2>11
  <2>6. remaining' = LengthTo(requests, k, h) /\ flags' = flags
    BY <1>1, <2>2, <2>5
  <2>7. InValue(requests, k, h, 2, header', flags', remaining')
    BY <1>1, <2>2, <2>5, <2>6 DEF InValue
  <2>8. AtValue(requests, k, h, 2, s)
    BY <2>5 DEF AtValue, ValueLength
  <2>9. Located(state', requests, k, h, 2, s, header', flags', remaining')
    BY <1>1, <2>7, <2>8 DEF Located
  <2>10. state' \in States \ {"s_start_req", "s_dead"} /\ state # "s_dead" /\ 2 \in Nat
    BY <1>1, <1>3 DEF States
  <2> QED
    BY <2>9, <2>10, Stands
<1> QED
  BY <1>1, <1>2, <1>3

LEMMA HeaderValueMoves ==
  ASSUME NEW k \in Nat, NEW g, Placed(k, g), HeaderValue
  PROVE  Standing(k, Tail(g))'
<1> DEFINE s == Tail(g)
<1>1. /\ Requests(requests) /\ k \in 1..Len(requests) /\ Class = Head(g).class
      /\ state = "s_header_value"
      /\ state' = (IF Class \in {"value", "space"} THEN state
                   ELSE IF Class = "cr" THEN "s_header_almost_done" ELSE "s_header_value_lws")
      /\ header' = header /\ flags' = flags /\ remaining' = remaining
  BY DEF Placed, HeaderValue, Takes, Goto
<1>2. PICK h, i \in Nat :
        InValue(requests, k, h, i, header, flags, remaining) /\ AtValue(requests, k, h, i, g)
  BY <1>1 DEF Placed, Standing, Located
<1> DEFINE n == ValueLength(requests, k, h)
<1>3. h \in 1..NumHeaders(requests, k) /\ n \in {2, 3}
  BY <1>2 DEF InValue, ValueLength
<1>4. \/ i = n /\ g = LineEndOn(requests, k, h)
      \/ i = n - 1 /\ g = SecondOn(requests, k, h)
      \/ i = 1 /\ Kind(requests, k, h) = "folded"
           /\ g = EolOn(requests, k, "none", FoldOn(requests, k, h))
  BY <1>2 DEF AtValue
<1>5. PICK j \in {1, 2, 3} :
        \/ state' = "s_header_value" /\ AtValue(requests, k, h, j, s)
        \/ state' = "s_header_value_lws" /\ AtValueEnd(requests, k, h, j, s)
        \/ state' = "s_header_almost_done"
             /\ \E t : AtValueEnd(requests, k, h, j, t) /\ s = LfOn(k, t)
  <2>1. CASE i = n /\ g = LineEndOn(requests, k, h)
    <3>1. \/ state' = "s_header_almost_done" /\ s = LfOn(k, HeadersOn(requests, k, h))
          \/ state' = "s_header_value_lws" /\ s = HeadersOn(requests, k, h)
      BY <1>1, <1>3, <2>1, ValueNext
    <3>2. AtValueEnd(requests, k, h, n, HeadersOn(requests, k, h))
      BY DEF AtValueEnd
    <3> QED
      BY <1>3, <3>1, <3>2
  <2>2. CASE i = n - 1 /\ g = SecondOn(requests, k, h)
    <3>1. state' = "s_header_value" /\ s = LineEndOn(requests, k, h)
      BY <1>1, <1>3, <2>2, ValueNext
    <3> QED
      BY <1>3, <3>1 DEF AtValue
  <2>3. CASE i = 1 /\ Kind(requests, k, h) = "folded"
             /\ g = EolOn(requests, k, "none", FoldOn(requests, k, h))
    <3>1. \/ state' = "s_header_almost_done" /\ s = LfOn(k, FoldOn(requests, k, h))
          \/ state' = "s_header_value_lws" /\ s = FoldOn(requests, k, h)
      BY <1>1, <1>3, <2>3, ValueNext
    <3>2. AtValueEnd(requests, k, h, 1, FoldOn(requests, k, h))
      BY <2>3 DEF AtValueEnd
    <3> QED
      BY <3>1, <3>2
  <2> QED
    BY <1>4, <2>1, <2>2, <2>3
<1>6. InValue(requests, k, h, j, header', flags', remaining')
  BY <1>1, <1>2, <1>5 DEF InValue
<1>7. Located(state', requests, k, h, j, s, header', flags', remaining')
  BY <1>5, <1>6 DEF Located
<1>8. state' \in States \ {"s_start_req", "s_dead"} /\ state # "s_dead" /\ j \in Nat
  BY <1>1, <1>5 DEF States
<1> QED
  BY <1>7, <1>8, Stands

LEMMA HeaderAlmostDoneMoves ==
  ASSUME NEW k \in Nat, NEW g, Placed(k, g), HeaderAlmostDone
  PROVE  Standing(k, Tail(g))'
<1> DEFINE s == Tail(g)
<1>1. /\ Requests(requests) /\ k \in 1..Len(requests)
      /\ state = "s_header_almost_done" /\ state' = "s_header_value_lws"
      /\ header' = header /\ flags' = flags /\ remaining' = remaining
  BY DEF Placed, HeaderAlmostDone, Takes, Goto
<1>2. PICK h, i \in Nat : /\ InValue(requests, k, h, i, header, flags, remaining)
                          /\ \E t : AtValueEnd(requests, k, h, i, t) /\ g = LfOn(k, t)
  BY <1>1 DEF Placed, Standing, Located
<1>3. PICK t : AtValueEnd(requests, k, h, i, t) /\ g = LfOn(k, t)
  BY <1>2
<1>4. h \in 1..NumHeaders(requests, k)
  BY <1>2 DEF InValue
<1>5. t \in {HeadersOn(requests, k, h), FoldOn(requests, k, h)}
  BY <1>3 DEF AtValueEnd
<1>6. s = t
  BY <1>1, <1>3, <1>4, <1>5, ValueNext
<1>7. Located(state', requests, k, h, i, s, header', flags', remaining')
  BY <1>1, <1>2, <1>3, <1>6 DEF Located
<1>8. state' \in States \ {"s_start_req", "s_dead"} /\ state # "s_dead"
  BY <1>1 DEF States
<1> QED
  BY <1>7, <1>8, Stands

---------------------------------------------------------------------------
(* The end of the headers.                                                 *)

\* The parser is behind the headers, or behind all of request k, once a byte of g is
\* taken.
Ending(k, g, fs, rem) ==
  \/ /\ fs = AllFlags(requests, k) /\ rem = LengthTo(requests, k, NumHeaders(requests, k))
     /\ Tail(g) = BodyOn(requests, k)
  \/ fs = AllFlags(requests, k) \cup {"trailing"} /\ Tail(g) = RestOn(requests, k)

\* The whole of request k has been taken with a byte of g.
Whole(k, g, fs) ==
  /\ fs \in {AllFlags(requests, k), AllFlags(requests, k) \cup {"trailing"}}
  /\ Tail(g) = RestOn(requests, k)

\* The body begins, or there is none.
LEMMA FinishMoves ==
  ASSUME NEW k \in Nat, NEW g, Placed(k, g), NEW q, NEW fs, FinishHeaders(q, fs),
         state # "s_dead", flags' = fs, remaining' = remaining, Ending(k, g, fs, remaining)
  PROVE  \/ Advance /\ UNCHANGED <<status, out>> /\ Standing(k, Tail(g))'
         \/ Whole(k, g, fs) /\ \E r : Complete(r, fs)
<1> DEFINE s == Tail(g)
           n == NumHeaders(requests, k)
           body == requests[k].body
<1>1. Requests(requests) /\ k \in 1..Len(requests)
  BY DEF Placed
<1>2. /\ body \in Seq(Nat \ {0}) /\ \A j \in 1..Len(body) : body[j] \in Nat /\ body[j] > 0
      /\ body # <<>> => HasChunks(requests, k)
                        \/ (HasHeader(requests[k], "length") /\ Len(body) = 1)
  BY <1>1, RequestFacts
<1>3. /\ "chunked" \in AllFlags(requests, k) <=> HasChunks(requests, k)
      /\ LengthTo(requests, k, n) = IF HasHeader(requests[k], "length")
                                    THEN IF body = <<>> THEN 0 ELSE body[1]
                                    ELSE Unknown
  BY <1>1, FlagsSay
<1>4. "trailing" \notin AllFlags(requests, k)
  BY <1>1, FlagSteps DEF AllFlags
<1>5. body = <<>> \/ Len(body) # 0
  BY <1>2
<1>6. CASE "trailing" \in fs
  BY <1>4, <1>6 DEF FinishHeaders, Ending, Whole
<1>7. CASE "trailing" \notin fs
  <2>1. /\ fs = AllFlags(requests, k) /\ remaining = LengthTo(requests, k, n)
        /\ s = BodyOn(requests, k)
    BY <1>7 DEF Ending
  <2>2. CASE "chunked" \notin fs /\ NoBody
    <3>1. ~HasChunks(requests, k)
      BY <1>3, <2>1, <2>2
    <3>2. body = <<>>
      <4> SUFFICES ASSUME body # <<>> PROVE FALSE
        OBVIOUS
      <4>1. HasHeader(requests[k], "length") /\ Len(body) = 1
        BY <1>2, <3>1
      <4>2. remaining = body[1]
        BY <1>3, <2>1, <4>1
      <4>3. body[1] \in Nat /\ body[1] > 0
        BY <1>2, <4>1
      <4> QED
        BY <2>2, <4>2, <4>3 DEF NoBody, Unknown
    <3>3. s = RestOn(requests, k)
      BY <1>1, <2>1, <3>1, <3>2, BodyShapes
    <3>4. Complete(OnHeadersComplete(q, fs), fs)
      BY <1>7, <2>2 DEF FinishHeaders
    <3> QED
      BY <2>1, <3>3, <3>4 DEF Whole
  <2>3. CASE ~("chunked" \notin fs /\ NoBody)
    <3>1. /\ state' = (IF "chunked" \in fs THEN "s_chunk_size_start" ELSE "s_body_identity")
          /\ Advance /\ out' = out /\ status' = status
      BY <1>7, <2>3 DEF FinishHeaders, Goto
    <3>2. state' \in States \ {"s_start_req", "s_dead"} /\ 0 \in Nat
      BY <3>1 DEF States
    <3>3. CASE "chunked" \in fs
      <4>1. HasChunks(requests, k) /\ s = ChunksOn(requests, k, 0)
        BY <1>1, <1>3, <2>1, <3>3, BodyShapes
      <4>2. 0 \in 0..Len(body)
        BY <1>2
      <4>3. Located(state', requests, k, 0, 0, s, header', flags', remaining')
        BY <2>1, <3>1, <3>3, <4>1, <4>2 DEF Located, InChunks
      <4> QED
        BY <3>1, <3>2, <4>3, Stands
    <3>4. CASE "chunked" \notin fs
      <4>1. ~HasChunks(requests, k) /\ ~NoBody
        BY <1>3, <2>1, <2>3, <3>4
      <4>2. HasHeader(requests[k], "length") /\ body # <<>> /\ remaining = body[1]
        BY <1>3, <2>1, <4>1 DEF NoBody
      <4>3. Len(body) = 1
        BY <1>2, <4>1, <4>2
      <4>4. body[1] \in Nat /\ body[1] > 0
        BY <1>2, <4>3
      <4>5. s = PieceOn(k, "body", 1, 0, body[1], RestOn(requests, k))
        BY <1>1, <2>1, <4>1, <4>3, BodyShapes
      <4>6. 0 \in 0..(body[1] - 1) /\ remaining = body[1] - 0
        BY <4>2, <4>4
      <4>7. AtBody(requests, k, 0, s, remaining)
        BY <4>1, <4>3, <4>5, <4>6 DEF AtBody
      <4>8. Located(state', requests, k, 0, 0, s, header', flags', remaining')
        BY <2>1, <3>1, <3>4, <4>7 DEF Located
      <4> QED
        BY <3>1, <3>2, <4>8, Stands
    <3> QED
      BY <3>3, <3>4
  <2> QED
    BY <2>2, <2>3
<1> QED
  BY <1>6, <1>7

LEMMA EndOfHeadersMoves ==
  ASSUME NEW k \in Nat, NEW g, Placed(k, g), EndOfHeaders
  PROVE  \/ Advance /\ UNCHANGED <<status, out>> /\ Standing(k, Tail(g))'
         \/ \E r, fs : Whole(k, g, fs) /\ Complete(r, fs)
<1> DEFINE s == Tail(g)
           n == NumHeaders(requests, k)
           eol == EolOn(requests, k, "none", RestOn(requests, k))
<1>1. /\ Requests(requests) /\ k \in 1..Len(requests) /\ Class = Head(g).class
      /\ AfterHeader /\ Class \in {"cr", "lf"}
      /\ header' = header /\ flags' = FlagsThen /\ remaining' = remaining
  BY DEF Placed, EndOfHeaders
<1>2. \/ /\ FlagsThen = AllFlags(requests, k) /\ remaining = LengthTo(requests, k, n)
         /\ g = HeadersOn(requests, k, n)
      \/ FlagsThen = AllFlags(requests, k) \cup {"trailing"} /\ g = eol
  <2>1. ASSUME NEW x \in 0..n, g = HeadersOn(requests, k, x) PROVE x = n
    BY <1>1, <2>1, HeadersBegin, NameIs
  <2> QED
    BY <1>1, <2>1, AfterHeaderAt DEF AllFlags
<1>3. /\ LineLeads(requests, k, HeadersOn(requests, k, n), "none", BodyOn(requests, k))
      /\ LineLeads(requests, k, eol, "none", RestOn(requests, k))
  BY <1>1, BodyLeads
<1>4. /\ state \in {"s_header_field_start", "s_header_value_lws", "s_header_value_discard_lws"}
      /\ state # "s_dead"
  BY <1>1 DEF AfterHeader, Takes
<1>5. CASE Class = "cr"
  <2>1. state' = "s_headers_almost_done" /\ Advance /\ out' = out /\ status' = status
    BY <1>5 DEF EndOfHeaders, Goto
  <2>2. AtBlankLine(requests, k, s, flags', remaining')
    BY <1>1, <1>2, <1>3, <1>5, LineLeadsIs DEF AtBlankLine
  <2>3. Located(state', requests, k, 0, 0, s, header', flags', remaining')
    BY <2>1, <2>2 DEF Located
  <2>4. state' \in States \ {"s_start_req", "s_dead"} /\ 0 \in Nat
    BY <2>1 DEF States
  <2> QED
    BY <1>4, <2>1, <2>3, <2>4, Stands
<1>6. CASE Class = "lf"
  <2>1. Ending(k, g, FlagsThen, remaining)
    BY <1>1, <1>2, <1>3, <1>6, LineLeadsIs DEF Ending
  <2>2. FinishHeaders(CodecThen, FlagsThen)
    BY <1>6 DEF EndOfHeaders
  <2> QED
    BY <1>1, <1>4, <2>1, <2>2, FinishMoves
<1> QED
  BY <1>1, <1>5, <1>6

LEMMA HeadersAlmostDoneMoves ==
  ASSUME NEW k \in Nat, NEW g, Placed(k, g), HeadersAlmostDone
  PROVE  \/ Advance /\ UNCHANGED <<status, out>> /\ Standing(k, Tail(g))'
         \/ \E r, fs : Whole(k, g, fs) /\ Complete(r, fs)
<1>1. /\ Requests(requests) /\ k \in 1..Len(requests)
      /\ state = "s_headers_almost_done" /\ FinishHeaders(codec, flags)
      /\ header' = header /\ flags' = flags /\ remaining' = remaining
  BY DEF Placed, HeadersAlmostDone, Takes
<1>2. AtBlankLine(requests, k, g, flags, remaining)
  BY <1>1 DEF Placed, Standing, Located
<1>3. BodyOn(requests, k) \in Seq(From(k)) /\ RestOn(requests, k) \in Seq(From(k))
  BY <1>1, BodyLeads
<1>4. /\ Tail(LfOn(k, BodyOn(requests, k))) = BodyOn(requests, k)
      /\ Tail(LfOn(k, RestOn(requests, k))) = RestOn(requests, k)
  BY <1>3, LfIs
<1>5. Ending(k, g, flags, remaining)
  BY <1>2, <1>4 DEF Ending, AtBlankLine
<1> QED
  BY <1>1, <1>5, FinishMoves

---------------------------------------------------------------------------
(* The body.                                                               *)

LEMMA BodyIdentityMoves ==
  ASSUME NEW k \in Nat, NEW g, Placed(k, g), BodyIdentity
  PROVE  \/ Advance /\ UNCHANGED <<status, out>> /\ Standing(k, Tail(g))'
         \/ \E r, fs : Whole(k, g, fs) /\ Complete(r, fs)
<1> DEFINE s == Tail(g)
           n == requests[k].body[1]
           on(i) == PieceOn(k, "body", 1, i, n, RestOn(requests, k))
<1>1. /\ Requests(requests) /\ k \in 1..Len(requests)
      /\ state = "s_body_identity" /\ remaining' = remaining - 1
      /\ header' = header /\ flags' = flags
  BY DEF Placed, BodyIdentity, Takes
<1>2. PICK i \in Nat : flags = AllFlags(requests, k) /\ AtBody(requests, k, i, g, remaining)
  BY <1>1 DEF Placed, Standing, Located
<1>3. /\ ~HasChunks(requests, k) /\ Len(requests[k].body) = 1 /\ i \in 0..(n - 1)
      /\ remaining = n - i /\ g = on(i)
  BY <1>2 DEF AtBody
<1>4. n \in Nat
  <2>1. 1 \in 1..Len(requests[k].body)
    BY <1>3
  <2> QED
    BY <1>1, <2>1, RequestFacts
<1>5. /\ on(n) = RestOn(requests, k)
      /\ Leads(k, on(i), PieceByte(k, "body", 1, i + 1), on(i + 1))
  BY <1>1, <1>3, IdentityLeads
<1>6. s = on(i + 1)
  BY <1>3, <1>5, PieceIs
<1>7. CASE remaining > 1
  <2>1. Advance /\ state' = state /\ out' = out /\ status' = status
    BY <1>7 DEF BodyIdentity, handler
  <2>2. i + 1 \in 0..(n - 1) /\ remaining' = n - (i + 1) /\ i + 1 \in Nat
    BY <1>1, <1>3, <1>4, <1>7
  <2>3. AtBody(requests, k, i + 1, s, remaining')
    BY <1>3, <1>6, <2>2 DEF AtBody
  <2>4. Located(state', requests, k, 0, i + 1, s, header', flags', remaining')
    BY <1>1, <1>2, <2>1, <2>3 DEF Located
  <2>5. state' \in States \ {"s_start_req", "s_dead"} /\ state # "s_dead" /\ 0 \in Nat
    BY <1>1, <2>1 DEF States
  <2> QED
    BY <2>1, <2>2, <2>4, <2>5, Stands
<1>8. CASE ~(remaining > 1)
  <2>1. Complete(OnBody(codec, Append(piece, Byte)), flags)
    BY <1>8 DEF BodyIdentity
  <2>2. i + 1 = n
    BY <1>3, <1>4, <1>8
  <2>3. s = RestOn(requests, k)
    BY <1>5, <1>6, <2>2
  <2> QED
    BY <1>2, <2>1, <2>3 DEF Whole
<1> QED
  BY <1>7, <1>8

\* What follows in a chunk.
LEMMA ChunkNext ==
  ASSUME NEW rs, Requests(rs), NEW k \in 1..Len(rs), HasChunks(rs, k),
         NEW j \in 0..Len(rs[k].body)
  PROVE  LET size == SizeOf(rs, k, j)
             chunk == ChunksOn(rs, k, j)
             end == SizeEndOn(rs, k, j)
             line == EolOn(rs, k, "none", end)
             digit == Cons(SizeByte(k, size), line)
             dataEnd == DataEndOn(rs, k, j)
             next == ChunksOn(rs, k, j + 1)
         IN  /\ Head(chunk).class = "size" /\ Head(chunk).i = 0 /\ Tail(chunk) = digit
             /\ Head(digit).class = "size" /\ Head(digit).i = size /\ Tail(digit) = line
             /\ Head(line).class = "cr" /\ Tail(line) = LfOn(k, end)
             /\ Head(LfOn(k, end)).class = "lf" /\ Tail(LfOn(k, end)) = end
             /\ size \in Nat
             /\ j < Len(rs[k].body) =>
                  /\ size > 0 /\ size = rs[k].body[j + 1]
                  /\ DataOn(rs, k, j, size) = dataEnd
                  /\ \A i \in 0..(size - 1) : /\ Head(DataOn(rs, k, j, i)).class = "body"
                                              /\ Tail(DataOn(rs, k, j, i)) = DataOn(rs, k, j, i + 1)
                  /\ Head(dataEnd).class = "cr" /\ Tail(dataEnd) = LfOn(k, next)
                  /\ Head(LfOn(k, next)).class = "lf" /\ Tail(LfOn(k, next)) = next
<1> DEFINE size == SizeOf(rs, k, j)
           chunk == ChunksOn(rs, k, j)
           end == SizeEndOn(rs, k, j)
           line == EolOn(rs, k, "none", end)
           digit == Cons(SizeByte(k, size), line)
           dataEnd == DataEndOn(rs, k, j)
           next == ChunksOn(rs, k, j + 1)
<1>1. /\ Leads(k, chunk, SizeByte(k, 0), digit)
      /\ Leads(k, digit, SizeByte(k, size), line)
      /\ LineLeads(rs, k, line, "none", end)
      /\ Leads(k, LfOn(k, end), SingleByte(k, "lf", "none"), end)
      /\ size \in Nat
      /\ j < Len(rs[k].body) =>
           /\ size > 0 /\ size = rs[k].body[j + 1]
           /\ DataOn(rs, k, j, size) = dataEnd
           /\ \A i \in 0..(size - 1) :
                Leads(k, DataOn(rs, k, j, i), PieceByte(k, "body", j + 1, i + 1),
                      DataOn(rs, k, j, i + 1))
           /\ LineLeads(rs, k, dataEnd, "none", next)
           /\ Leads(k, LfOn(k, next), SingleByte(k, "lf", "none"), next)
  BY ChunkLeads
<1>2. rs[k].eol = "crlf"
  BY RequestFacts
<1> HIDE DEF size, chunk, end, line, digit, dataEnd, next
<1>3. /\ Head(chunk).class = "size" /\ Head(chunk).i = 0 /\ Tail(chunk) = digit
      /\ Head(digit).class = "size" /\ Head(digit).i = size /\ Tail(digit) = line
  BY <1>1, PieceIs DEF SizeByte
<1>4. /\ Head(line).class = "cr" /\ Tail(line) = LfOn(k, end)
      /\ Head(LfOn(k, end)).class = "lf" /\ Tail(LfOn(k, end)) = end
  BY <1>1, <1>2, LineLeadsIs, SingleIs
<1>5. ASSUME j < Len(rs[k].body)
      PROVE  /\ size > 0 /\ size = rs[k].body[j + 1]
             /\ DataOn(rs, k, j, size) = dataEnd
             /\ \A i \in 0..(size - 1) : /\ Head(DataOn(rs, k, j, i)).class = "body"
                                         /\ Tail(DataOn(rs, k, j, i)) = DataOn(rs, k, j, i + 1)
             /\ Head(dataEnd).class = "cr" /\ Tail(dataEnd) = LfOn(k, next)
             /\ Head(LfOn(k, next)).class = "lf" /\ Tail(LfOn(k, next)) = next
  <2>1. size > 0 /\ size = rs[k].body[j + 1] /\ DataOn(rs, k, j, size) = dataEnd
    BY <1>1, <1>5
  <2>2. ASSUME NEW i \in 0..(size - 1)
        PROVE  /\ Head(DataOn(rs, k, j, i)).class = "body"
               /\ Tail(DataOn(rs, k, j, i)) = DataOn(rs, k, j, i + 1)
    BY <1>1, <1>5, PieceIs
  <2>3. /\ Head(dataEnd).class = "cr" /\ Tail(dataEnd) = LfOn(k, next)
        /\ Head(LfOn(k, next)).class = "lf" /\ Tail(LfOn(k, next)) = next
    BY <1>1, <1>2, <1>5, LineLeadsIs, SingleIs
  <2> QED
    BY <2>1, <2>2, <2>3
<1> QED
  BY <1>1, <1>3, <1>4, <1>5 DEF size, chunk, end, line, digit, dataEnd, next

---------------------------------------------------------------------------

LEMMA ChunkSizeMoves ==
  ASSUME NEW k \in Nat, NEW g, Placed(k, g), ChunkSize
  PROVE  Standing(k, Tail(g))'
<1> DEFINE s == Tail(g)
<1>1. /\ Requests(requests) /\ k \in 1..Len(requests) /\ Byte = Head(g) /\ Class = Head(g).class
      /\ header' = header /\ flags' = flags
      /\ \/ /\ state = "s_chunk_size_start" /\ state' = "s_chunk_size" /\ remaining' = Byte.i
         \/ /\ state = "s_chunk_size" /\ state' = state /\ Class = "size"
            /\ remaining' = 16 * remaining + Byte.i
         \/ /\ state = "s_chunk_size" /\ state' = "s_chunk_size_almost_done" /\ Class = "cr"
            /\ remaining' = remaining
  BY DEF Placed, ChunkSize, Takes, Goto
<1>2. PICK j \in Nat :
        /\ InChunks(requests, k, j, flags)
        /\ state = "s_chunk_size_start" => g = ChunksOn(requests, k, j)
        /\ state = "s_chunk_size" => AtSize(requests, k, j, g, remaining)
  BY <1>1 DEF Placed, Standing, Located
<1>3. HasChunks(requests, k) /\ j \in 0..Len(requests[k].body)
  BY <1>2 DEF InChunks
<1> DEFINE size == SizeOf(requests, k, j)
           chunk == ChunksOn(requests, k, j)
           end == SizeEndOn(requests, k, j)
           line == EolOn(requests, k, "none", end)
           digit == Cons(SizeByte(k, size), line)
<1>4. /\ Head(chunk).class = "size" /\ Head(chunk).i = 0 /\ Tail(chunk) = digit
      /\ Head(digit).class = "size" /\ Head(digit).i = size /\ Tail(digit) = line
      /\ Head(line).class = "cr" /\ Tail(line) = LfOn(k, end)
      /\ size \in Nat
  BY <1>1, <1>3, ChunkNext
<1>5. state = "s_chunk_size" => (remaining = 0 /\ g = digit) \/ (remaining = size /\ g = line)
  BY <1>2 DEF AtSize
<1>6. \/ state' = "s_chunk_size" /\ remaining' = 0 /\ s = digit
      \/ state' = "s_chunk_size" /\ remaining' = size /\ s = line
      \/ state' = "s_chunk_size_almost_done" /\ remaining' = size /\ s = LfOn(k, end)
  <2> HIDE DEF size, chunk, line, digit, end
  <2>1. CASE state = "s_chunk_size_start"
    BY <1>1, <1>2, <1>4, <2>1 DEF chunk
  <2>2. CASE state = "s_chunk_size" /\ Class = "size"
    <3>1. remaining = 0 /\ g = digit
      BY <1>1, <1>4, <1>5, <2>2
    <3>2. remaining' = 16 * 0 + size
      BY <1>1, <1>4, <2>2, <3>1
    <3> QED
      BY <1>1, <1>4, <2>2, <3>1, <3>2
  <2>3. CASE state = "s_chunk_size" /\ Class = "cr"
    BY <1>1, <1>4, <1>5, <2>3
  <2> QED
    BY <1>1, <2>1, <2>2, <2>3
<1>7. Located(state', requests, k, j, 0, s, header', flags', remaining')
  BY <1>1, <1>2, <1>6 DEF Located, InChunks, AtSize
<1>8. state' \in States \ {"s_start_req", "s_dead"} /\ state # "s_dead" /\ 0 \in Nat
  BY <1>1, <1>6 DEF States
<1> QED
  BY <1>7, <1>8, Stands

LEMMA ChunkSizeAlmostDoneMoves ==
  ASSUME NEW k \in Nat, NEW g, Placed(k, g), ChunkSizeAlmostDone
  PROVE  Standing(k, Tail(g))'
<1> DEFINE s == Tail(g)
<1>1. /\ Requests(requests) /\ k \in 1..Len(requests)
      /\ state = "s_chunk_size_almost_done"
      /\ IF remaining = 0
         THEN state' = "s_header_field_start" /\ flags' = flags \cup {"trailing"}
         ELSE state' = "s_chunk_data" /\ flags' = flags
      /\ header' = header /\ remaining' = remaining
  BY DEF Placed, ChunkSizeAlmostDone, Takes, Goto
<1>2. PICK j \in Nat : /\ InChunks(requests, k, j, flags)
                       /\ remaining = SizeOf(requests, k, j)
                       /\ g = LfOn(k, SizeEndOn(requests, k, j))
  BY <1>1 DEF Placed, Standing, Located
<1>3. HasChunks(requests, k) /\ j \in 0..Len(requests[k].body) /\ flags = AllFlags(requests, k)
  BY <1>2 DEF InChunks
<1>4. s = SizeEndOn(requests, k, j)
  BY <1>1, <1>2, <1>3, ChunkNext
<1>5. state' \in States \ {"s_start_req", "s_dead"} /\ state # "s_dead" /\ 0 \in Nat
  BY <1>1 DEF States
<1>6. Len(requests[k].body) \in Nat
  BY <1>1, RequestFacts
<1>7. CASE j = Len(requests[k].body)
  <2>1. remaining = 0 /\ s = EolOn(requests, k, "none", RestOn(requests, k))
    BY <1>2, <1>4, <1>7 DEF SizeOf, SizeEndOn
  <2>2. Located(state', requests, k, 0, 0, s, header', flags', remaining')
    BY <1>1, <1>3, <2>1 DEF Located, AtHeaders, AllFlags
  <2> QED
    BY <1>5, <2>2, Stands
<1>8. CASE j # Len(requests[k].body)
  <2>1. j < Len(requests[k].body)
    BY <1>3, <1>6, <1>8
  <2>2. /\ SizeOf(requests, k, j) > 0 /\ SizeOf(requests, k, j) = requests[k].body[j + 1]
        /\ SizeOf(requests, k, j) \in Nat
    BY <1>1, <1>3, <2>1, ChunkNext
  <2>3. s = DataOn(requests, k, j, 0)
    BY <1>4, <1>8 DEF SizeEndOn
  <2>4. /\ remaining > 0 /\ 0 \in 0..(requests[k].body[j + 1] - 1)
        /\ remaining = requests[k].body[j + 1] - 0
    BY <1>2, <2>2
  <2>5. AtData(requests, k, j, 0, s, remaining)
    BY <2>1, <2>3, <2>4 DEF AtData
  <2>6. state' = "s_chunk_data" /\ flags' = flags
    BY <1>1, <2>4
  <2>7. Located(state', requests, k, j, 0, s, header', flags', remaining')
    BY <1>1, <1>2, <2>5, <2>6 DEF Located
  <2> QED
    BY <1>5, <2>7, Stands
<1> QED
  BY <1>7, <1>8

LEMMA ChunkDataMoves ==
  ASSUME NEW k \in Nat, NEW g, Placed(k, g), ChunkData
  PROVE  Standing(k, Tail(g))'
<1> DEFINE s == Tail(g)
<1>1. /\ Requests(requests) /\ k \in 1..Len(requests)
      /\ state = "s_chunk_data" /\ remaining' = remaining - 1
      /\ state' = (IF remaining = 1 THEN "s_chunk_data_almost_done" ELSE state)
      /\ header' = header /\ flags' = flags
  BY DEF Placed, ChunkData, Takes, Goto
<1>2. PICK j, i \in Nat :
        InChunks(requests, k, j, flags) /\ AtData(requests, k, j, i, g, remaining)
  BY <1>1 DEF Placed, Standing, Located
<1> DEFINE size == SizeOf(requests, k, j)
<1>3. HasChunks(requests, k) /\ j \in 0..Len(requests[k].body) /\ j < Len(requests[k].body)
  BY <1>2 DEF InChunks, AtData
<1>4. /\ size \in Nat /\ size = requests[k].body[j + 1]
      /\ DataOn(requests, k, j, size) = DataEndOn(requests, k, j)
      /\ \A x \in 0..(size - 1) : Tail(DataOn(requests, k, j, x)) = DataOn(requests, k, j, x + 1)
  BY <1>1, <1>3, ChunkNext
<1> HIDE DEF size
<1>5. i \in 0..(size - 1) /\ remaining = size - i /\ g = DataOn(requests, k, j, i)
  BY <1>2, <1>4 DEF AtData
<1>6. s = DataOn(requests, k, j, i + 1)
  BY <1>4, <1>5
<1>10. i + 1 \in Nat
  OBVIOUS
<1>7. state' \in States \ {"s_start_req", "s_dead"} /\ state # "s_dead"
  BY <1>1 DEF States
<1>8. CASE remaining = 1
  <2>0. size \in Nat /\ remaining = size - i
    BY <1>4, <1>5
  <2>1. i + 1 = size
    BY <1>8, <2>0
  <2>2. s = DataOn(requests, k, j, size)
    BY <1>6, <2>1
  <2>3. s = DataEndOn(requests, k, j)
    BY <1>4, <2>2
  <2>4. Located(state', requests, k, j, i + 1, s, header', flags', remaining')
    BY <1>1, <1>2, <1>3, <1>8, <2>3 DEF Located
  <2> QED
    BY <1>7, <1>10, <2>4, Stands
<1>9. CASE remaining # 1
  <2>0. size \in Nat /\ i \in 0..(size - 1) /\ remaining = size - i /\ remaining' = remaining - 1
    BY <1>1, <1>4, <1>5
  <2>1. i + 1 \in 0..(size - 1) /\ remaining' = size - (i + 1)
    BY <1>9, <2>0
  <2>2. AtData(requests, k, j, i + 1, s, remaining')
    BY <1>3, <1>4, <1>6, <2>1 DEF AtData
  <2>3. Located(state', requests, k, j, i + 1, s, header', flags', remaining')
    BY <1>1, <1>2, <1>9, <2>2 DEF Located
  <2> QED
    BY <1>7, <1>10, <2>3, Stands
<1> QED
  BY <1>8, <1>9

LEMMA ChunkDataDoneMoves ==
  ASSUME NEW k \in Nat, NEW g, Placed(k, g), ChunkDataDone
  PROVE  Standing(k, Tail(g))'
<1> DEFINE s == Tail(g)
<1>1. /\ Requests(requests) /\ k \in 1..Len(requests)
      /\ \/ state = "s_chunk_data_almost_done" /\ state' = "s_chunk_data_done"
         \/ state = "s_chunk_data_done" /\ state' = "s_chunk_size_start"
      /\ header' = header /\ flags' = flags /\ remaining' = remaining
  BY DEF Placed, ChunkDataDone, Takes, Goto
<1>2. PICK j \in Nat :
        /\ InChunks(requests, k, j, flags) /\ j < Len(requests[k].body)
        /\ state = "s_chunk_data_almost_done" => g = DataEndOn(requests, k, j)
        /\ state = "s_chunk_data_done" => g = LfOn(k, ChunksOn(requests, k, j + 1))
  BY <1>1 DEF Placed, Standing, Located
<1> DEFINE next == ChunksOn(requests, k, j + 1)
<1>3. HasChunks(requests, k) /\ j \in 0..Len(requests[k].body)
  BY <1>2 DEF InChunks
<1>4. Tail(DataEndOn(requests, k, j)) = LfOn(k, next) /\ Tail(LfOn(k, next)) = next
  BY <1>1, <1>2, <1>3, ChunkNext
<1>5. state' \in States \ {"s_start_req", "s_dead"} /\ state # "s_dead" /\ 0 \in Nat
  BY <1>1 DEF States
<1>6. CASE state = "s_chunk_data_almost_done"
  <2>1. s = LfOn(k, next) /\ state' = "s_chunk_data_done"
    BY <1>1, <1>2, <1>4, <1>6
  <2>2. Located(state', requests, k, j, 0, s, header', flags', remaining')
    BY <1>1, <1>2, <2>1 DEF Located
  <2> QED
    BY <1>5, <2>2, Stands
<1>7. CASE state = "s_chunk_data_done"
  <2>1. s = next /\ state' = "s_chunk_size_start"
    BY <1>1, <1>2, <1>4, <1>7
  <2>2. j + 1 \in 0..Len(requests[k].body) /\ j + 1 \in Nat
    BY <1>2, <1>3
  <2>3. InChunks(requests, k, j + 1, flags')
    BY <1>1, <1>2, <2>2 DEF InChunks
  <2>4. Located(state', requests, k, j + 1, 0, s, header', flags', remaining')
    BY <2>1, <2>3 DEF Located
  <2> QED
    BY <1>5, <2>2, <2>4, Stands
<1> QED
  BY <1>1, <1>6, <1>7

---------------------------------------------------------------------------
(* A request is complete.                                                  *)

\* Behind a request is the beginning of the next one, if there is any.
LEMMA RestBegins ==
  ASSUME NEW rs, Requests(rs), NEW k \in 0..Len(rs), RestOn(rs, k) # <<>>
  PROVE  /\ k + 1 \in 1..Len(rs) /\ Head(RestOn(rs, k)).req = k + 1
         /\ Head(RestOn(rs, k)).class \in {"cr", "lf", "method"}
<1>1. Len(rs) \in Nat
  BY DEF Requests
<1>2. k # Len(rs)
  BY RestTypes
<1> DEFINE m == k + 1
<1>3. m \in 1..Len(rs) /\ m - 1 = k
  BY <1>1, <1>2
<1> HIDE DEF m
<1>4. /\ Leads(m, LineOn(rs, m), PieceByte(m, "method", 0, 1), MethodOn(rs, m))
      /\ IF rs[m].blank THEN LineLeads(rs, m, RestOn(rs, m - 1), "none", LineOn(rs, m))
         ELSE RestOn(rs, m - 1) = LineOn(rs, m)
  BY <1>3, RequestLeads, StartLeads
<1>5. Head(RestOn(rs, k)).req = m /\ Head(RestOn(rs, k)).class \in {"cr", "lf", "method"}
  BY <1>3, <1>4, PieceIs, LineLeadsIs
<1> QED
  BY <1>3, <1>5 DEF m

\* The next byte is of the same request as that of g.
LEMMA SameRequest ==
  ASSUME NEW k \in Nat, NEW s, NEW B, s \in Seq(B), NEW g, g \in Seq(From(k)), Covers(s, g), s # <<>>
  PROVE  g # <<>> /\ Head(s).req = Head(g).req
<1> DEFINE C == From(k)
<1>1. g \in Seq(C)
  OBVIOUS
<1> HIDE DEF C
<1>2. g # <<>> /\ Head(s) \in {Head(g), [Head(g) EXCEPT !.class = "bad"]}
  BY <1>1, CoversHead
<1>3. Head(g) \in C
  BY <1>1, <1>2
<1>4. [Head(g) EXCEPT !.class = "bad"].req = Head(g).req
  BY <1>3 DEF C, From
<1> QED
  BY <1>2, <1>4

\* When a request is handed over, the parser is at the next one.
LEMMA CompleteMoves ==
  ASSUME NEW k \in Nat, NEW g, Coming(k, g), AheadThere, Stream, Reads, Placed(k, g),
         NEW q, NEW fs, Whole(k, g, fs), Complete(q, fs),
         state # "s_dead", status = "open", inFlight # <<>>, Class # "bad", ahead # 0
  PROVE  /\ Coming(k + 1, RestOn(requests, k))' /\ Standing(k + 1, RestOn(requests, k))'
         /\ AheadThere' /\ Cause'
<1> DEFINE rest == RestOn(requests, k)
           m == k + 1
<1>1. /\ Requests(requests) /\ k \in 1..Len(requests) /\ Len(requests) \in Nat
      /\ rest \in Seq(From(k + 1))
  <2>1. Requests(requests) /\ k \in 1..Len(requests)
    BY DEF Placed
  <2> QED
    BY <2>1, RequestFacts, BodyLeads
<1>2. /\ inFlight' = Tail(inFlight) /\ requests' = requests /\ out' = Append(out, q.request)
      /\ state' = NewMessage(fs)
  BY DEF Complete, Advance, Goto
<1>3. /\ Covers(inFlight, rest)' /\ BadAhead' /\ Requests(requests)'
      /\ Len(inFlight') = Len(inFlight) - 1
  BY <1>2, Taken DEF Whole
<1>4. (\E S : out' \in Seq(S)) /\ m = Len(out') + 1
  <2>1. PICK S : out \in Seq(S)
    BY DEF Coming
  <2> DEFINE T == S \cup {q.request}
  <2>2. out \in Seq(T) /\ q.request \in T
    BY <2>1
  <2> HIDE DEF T
  <2>3. Append(out, q.request) \in Seq(T) /\ Len(Append(out, q.request)) = Len(out) + 1
    BY <2>2
  <2>4. k = Len(out) + 1
    BY DEF Coming
  <2> QED
    BY <1>2, <2>3, <2>4
<1>5. \A j \in 1..(m - 2) : ~Closes(j)
  <2>1. \A j \in 1..(k - 2) : ~Closes(j)
    BY DEF Coming
  <2>2. k > 1 => ~Closes(k - 1)
    BY DEF Placed, Standing
  <2>3. ASSUME NEW j \in 1..(m - 2) PROVE j \in 1..(k - 2) \/ (k > 1 /\ j = k - 1)
    OBVIOUS
  <2> QED
    BY <2>1, <2>2, <2>3
<1>6. m \in 1..(Len(requests) + 1) /\ m \in Nat /\ m - 1 = k /\ m > 1
  BY <1>1
<1> HIDE DEF m
<1>7. Coming(m, rest)'
  BY <1>1, <1>2, <1>3, <1>4, <1>5, <1>6 DEF Coming, Closes, m
<1>8. state' = "s_dead" <=> Closes(k)
  <2>1. /\ "close" \in AllFlags(requests, k) <=> HasHeader(requests[k], "close")
        /\ "0.9" \in AllFlags(requests, k) <=> ~requests[k].version
    BY <1>1, FlagsSay
  <2>2. fs \cap {"close", "0.9"} = AllFlags(requests, k) \cap {"close", "0.9"}
    BY DEF Whole
  <2> QED
    BY <1>2, <2>1, <2>2 DEF NewMessage, Closes
<1>9. Standing(m, rest)'
  <2>1. state' \in {"s_start_req", "s_dead"}
    BY <1>2 DEF NewMessage
  <2>2. AtStart(requests', m, rest')
    BY <1>2, <1>6 DEF AtStart
  <2>3. Located(state', requests', m, 0, 0, rest', header', flags', remaining')
    BY <2>1, <2>2 DEF Located
  <2>4. state' = "s_dead" <=> m > 1 /\ Closes(m - 1)'
    BY <1>2, <1>6, <1>8 DEF Closes
  <2>5. 0 \in Nat /\ state' \in States
    BY <2>1 DEF States
  <2> QED
    BY <2>1, <2>3, <2>4, <2>5 DEF Standing
<1>10. Len(inFlight) \in Nat /\ Len(inFlight) > 0 /\ ahead \in Nat \cup {Unknown}
       /\ ahead <= Len(inFlight) /\ CheapPrepend \in Nat
  BY HttpAssumption DEF Stream, Reads, AheadThere
<1>11. CASE ~Upgrades(fs)
  <2>1. /\ ahead' = (IF ahead = Unknown THEN Unknown ELSE ahead - 1) /\ status' = status
    BY <1>11 DEF Complete, Advance
  <2>2. AheadThere'
    BY <1>3, <1>10, <2>1 DEF AheadThere, Unknown
  <2>3. Cause'
    BY <2>1 DEF Cause
  <2> QED
    BY <1>7, <1>9, <2>2, <2>3 DEF m
<1>12. CASE Upgrades(fs)
  <2>1. PICK n \in (IF ahead = Unknown THEN 0..(Len(inFlight) - 1) ELSE {ahead - 1}) : Return(n)
    BY <1>12 DEF Complete
  <2>2. n <= Len(inFlight') /\ n \in Int
    BY <1>3, <1>10, <2>1 DEF Unknown
  <2>3. ahead' = n /\ status' = (IF n > CheapPrepend THEN "terminated" ELSE status)
    BY <2>1 DEF Return
  <2>4. AheadThere'
    BY <2>2, <2>3 DEF AheadThere
  <2>5. ASSUME n > CheapPrepend
        PROVE  (Byte.req > 1 /\ AsksUpgrade(Byte.req - 1) /\ Len(out) = Byte.req - 1)'
    <3> DEFINE B == SentBytes
    <3>1. inFlight' \in Seq(B) /\ inFlight' # <<>>
      <4>1. inFlight \in Seq(B)
        BY DEF Stream
      <4> HIDE DEF B
      <4>2. inFlight' \in Seq(B)
        BY <1>2, <4>1
      <4>3. Len(inFlight') > 0
        BY <1>10, <2>2, <2>5
      <4> QED
        BY <4>2, <4>3
    <3> HIDE DEF B
    <3>2. rest # <<>> /\ Byte'.req = Head(rest).req
      <4>1. Covers(inFlight', rest)
        BY <1>2, <1>3
      <4>2. k + 1 \in Nat
        OBVIOUS
      <4> HIDE DEF rest
      <4>3. rest # <<>> /\ Head(inFlight').req = Head(rest).req
        BY <1>1, <3>1, <4>1, <4>2, SameRequest
      <4> QED
        BY <4>3 DEF Byte
    <3>3. Head(rest).req = m
      <4>1. k \in 0..Len(requests)
        BY <1>1
      <4> QED
        BY <1>1, <3>2, <4>1, RestBegins DEF m
    <3>4. AsksUpgrade(k)
      <4>1. /\ "upgrade" \in AllFlags(requests, k) <=> HasHeader(requests[k], "upgrade")
            /\ "switch" \in AllFlags(requests, k) <=> HasHeader(requests[k], "switch")
        BY <1>1, FlagsSay
      <4>2. "upgrade" \in fs /\ "switch" \in fs
        BY <1>12 DEF Upgrades
      <4> QED
        BY <4>1, <4>2 DEF Whole, AsksUpgrade
    <3>5. AsksUpgrade(m - 1)'
      BY <1>2, <1>6, <3>4 DEF AsksUpgrade
    <3>6. Len(out') = m - 1
      <4>1. PICK S : out' \in Seq(S)
        BY <1>4
      <4>2. Len(out') \in Nat
        BY <4>1
      <4> QED
        BY <1>4, <4>2
    <3> QED
      BY <1>6, <3>2, <3>3, <3>5, <3>6
  <2>6. Cause'
    BY <2>3, <2>5 DEF Cause
  <2> QED
    BY <1>7, <1>9, <2>4, <2>6 DEF m
<1> QED
  BY <1>11, <1>12

---------------------------------------------------------------------------
(* What the parser accepts.                                                *)

\* In the request line the next byte meant is one that the state takes.
LEMMA LineAccepted ==
  ASSUME NEW rs, Requests(rs), NEW k \in 1..Len(rs),
         NEW st \in {"s_start_req", "s_req_method", "s_req_spaces_before_url", "s_req_url",
                     "s_req_http_start", "s_req_first_http_minor", "s_req_http_minor",
                     "s_req_line_almost_done"},
         NEW h \in Nat, NEW i \in Nat, NEW g, NEW hd, NEW fl, NEW rem, g # <<>>,
         Located(st, rs, k, h, i, g, hd, fl, rem)
  PROVE  Head(g).class \in Accepts(st)
<1> DEFINE t == HeadersOn(rs, k, 0)
           n == rs[k].url
<1>1. /\ Leads(k, LineOn(rs, k), PieceByte(k, "method", 0, 1), MethodOn(rs, k))
      /\ Leads(k, MethodOn(rs, k), PieceByte(k, "method", 0, 2), MethodEndOn(rs, k))
      /\ Leads(k, MethodEndOn(rs, k), SingleByte(k, "space", "none"), UrlOn(rs, k, 0))
      /\ \A x \in 0..(n - 1) :
           Leads(k, UrlOn(rs, k, x), PieceByte(k, "url", 0, x + 1), UrlOn(rs, k, x + 1))
      /\ rs[k].version =>
           Leads(k, UrlOn(rs, k, n), SingleByte(k, "space", "url"), VersionOn(rs, k))
      /\ ~rs[k].version => LineLeads(rs, k, UrlOn(rs, k, n), "url", t)
      /\ Leads(k, VersionOn(rs, k), PieceByte(k, "version", 0, 1), MinorOn(rs, k))
      /\ Leads(k, MinorOn(rs, k), PieceByte(k, "version", 0, 2), LineEndOn(rs, k, 0))
      /\ LineLeads(rs, k, LineEndOn(rs, k, 0), "none", t)
  BY RequestLeads
<1>2. /\ k \in Nat /\ n \in Nat /\ n > 0 /\ k - 1 \in 0..Len(rs) /\ (k - 1) + 1 = k
      /\ t \in Seq(From(k)) /\ LineOn(rs, k) \in Seq(From(k))
  <2>1. k \in Nat /\ n \in Nat /\ n > 0 /\ Len(rs) \in Nat
    BY RequestFacts
  <2>2. t \in Seq(From(k)) /\ LineOn(rs, k) \in Seq(From(k))
    BY BodyLeads, StartLeads
  <2> HIDE DEF t, n
  <2> QED
    BY <2>1, <2>2
<1>3. CASE st = "s_start_req"
  <2>1. Head(LineOn(rs, k)).class = "method" /\ Head(LfOn(k, LineOn(rs, k))).class = "lf"
    BY <1>1, <1>2, PieceIs, LfIs
  <2>2. g = RestOn(rs, k - 1) => Head(g).class \in {"cr", "lf", "method"}
    BY <1>2, RestBegins
  <2>3. Head(g).class \in {"cr", "lf", "method"}
    BY <1>3, <2>1, <2>2 DEF Located, AtStart
  <2> QED
    BY <1>3, <2>3 DEF Accepts
<1>4. CASE st = "s_req_method"
  <2>1. Head(MethodOn(rs, k)).class = "method" /\ Head(MethodEndOn(rs, k)).class = "space"
    BY <1>1, PieceIs, SingleIs
  <2> QED
    BY <1>4, <2>1 DEF Located, AtMethod, Accepts
<1>5. \A x \in 0..(n - 1) : Head(UrlOn(rs, k, x)).class = "url"
  BY <1>1, PieceIs
<1>6. CASE st = "s_req_spaces_before_url"
  <2>1. 0 \in 0..(n - 1)
    BY <1>2
  <2>2. Head(UrlOn(rs, k, 0)).class = "url"
    BY <1>5, <2>1
  <2> QED
    BY <1>6, <2>2 DEF Located, Accepts
<1>7. CASE st = "s_req_url"
  <2>1. i \in 1..n /\ g = UrlOn(rs, k, i)
    BY <1>7 DEF Located, AtUrl
  <2>2. i \in 0..(n - 1) \/ i = n
    BY <1>2, <2>1
  <2>3. Head(UrlOn(rs, k, n)).class \in {"space", "cr", "lf"}
    BY <1>1, SingleIs, LineLeadsIs
  <2>4. Head(g).class \in {"url", "space", "cr", "lf"}
    BY <1>5, <2>1, <2>2, <2>3
  <2> QED
    BY <1>7, <2>4 DEF Accepts
<1>8. CASE st \in {"s_req_http_start", "s_req_first_http_minor", "s_req_http_minor"}
  <2>1. /\ Head(VersionOn(rs, k)).class = "version" /\ Head(MinorOn(rs, k)).class = "version"
        /\ Head(LineEndOn(rs, k, 0)).class \in {"cr", "lf"}
    BY <1>1, PieceIs, LineLeadsIs
  <2>2. CASE st = "s_req_http_start"
    BY <2>1, <2>2 DEF Located, Accepts
  <2>3. CASE st = "s_req_first_http_minor"
    BY <2>1, <2>3 DEF Located, Accepts
  <2>4. CASE st = "s_req_http_minor"
    BY <2>1, <2>4 DEF Located, Accepts
  <2> QED
    BY <1>8, <2>2, <2>3, <2>4
<1>9. CASE st = "s_req_line_almost_done"
  <2>1. Head(LfOn(k, t)).class = "lf"
    BY <1>2, LfIs
  <2> QED
    BY <1>9, <2>1 DEF Located, Accepts
<1> QED
  BY <1>3, <1>4, <1>6, <1>7, <1>8, <1>9

\* In the headers.
LEMMA HeadersAccepted ==
  ASSUME NEW rs, Requests(rs), NEW k \in 1..Len(rs),
         NEW st \in {"s_header_field_start", "s_header_field", "s_header_value_discard_ws",
                     "s_header_value_discard_ws_almost_done", "s_header_value_discard_lws",
                     "s_header_value", "s_header_almost_done", "s_header_value_lws",
                     "s_headers_almost_done"},
         NEW h \in Nat, NEW i \in Nat, NEW g, NEW hd, NEW fl, NEW rem,
         Located(st, rs, k, h, i, g, hd, fl, rem)
  PROVE  Head(g).class \in Accepts(st)
<1>1. CASE st = "s_header_field_start"
  <2> DEFINE eol == EolOn(rs, k, "none", RestOn(rs, k))
  <2>1. NumHeaders(rs, k) \in Nat
    BY RequestFacts
  <2>2. 0 \in 0..NumHeaders(rs, k)
    BY <2>1
  <2>3. Head(HeadersOn(rs, k, 0)).class \in {"name", "cr", "lf"}
    BY <2>2, HeadersBegin, NameIs, LineLeadsIs
  <2>4. LineLeads(rs, k, eol, "none", RestOn(rs, k))
    BY BodyLeads
  <2>5. Head(eol).class \in {"cr", "lf"}
    BY <2>4, LineLeadsIs
  <2>6. Head(g).class \in {"name", "cr", "lf"}
    BY <1>1, <2>3, <2>5 DEF Located, AtHeaders
  <2> QED
    BY <1>1, <2>6 DEF Accepts
<1>2. CASE st = "s_headers_almost_done"
  <2>1. k \in Nat /\ BodyOn(rs, k) \in Seq(From(k)) /\ RestOn(rs, k) \in Seq(From(k))
    BY RequestFacts, BodyLeads
  <2>2. Head(LfOn(k, BodyOn(rs, k))).class = "lf" /\ Head(LfOn(k, RestOn(rs, k))).class = "lf"
    BY <2>1, LfIs
  <2>3. Head(g).class = "lf"
    BY <1>2, <2>2 DEF Located, AtBlankLine
  <2> QED
    BY <1>2, <2>3 DEF Accepts
<1>3. CASE st \notin {"s_header_field_start", "s_headers_almost_done"}
  <2>1. h \in 1..NumHeaders(rs, k)
    BY <1>3 DEF Located, InHeader, InValue
  <2> DEFINE value == ValueOn(rs, k, h)
             both == BothOn(rs, k, h)
             late == LateOn(rs, k, h)
             second == SecondOn(rs, k, h)
             end == LineEndOn(rs, k, h)
             fold == FoldOn(rs, k, h)
             eol == EolOn(rs, k, "none", fold)
             next == HeadersOn(rs, k, h)
  <2>2. /\ Head(both).class = "value" /\ Head(second).class = "value"
        /\ Head(end).class \in {"cr", "lf"} /\ Head(eol).class \in {"cr", "lf"}
        /\ Head(fold).class = "space" /\ Head(late).class = "space"
        /\ Head(next).class \in {"name", "cr", "lf"}
        /\ Head(value).class \in {"space", "value", "cr", "lf"}
        /\ \A t \in {next, fold, late} : Head(LfOn(k, t)).class = "lf"
    BY <2>1, ValueNext
  <2>3. Head(NameOn(rs, k, h)).class = "name" /\ Head(ColonOn(rs, k, h)).class = "colon"
    <3>1. /\ Leads(k, NameOn(rs, k, h), NameByte(k, Kind(rs, k, h), 2), ColonOn(rs, k, h))
          /\ Leads(k, ColonOn(rs, k, h), SingleByte(k, "colon", "none"), ValueOn(rs, k, h))
      BY <2>1, HeaderLeads
    <3> QED
      BY <3>1, NameIs, SingleIs
  <2> HIDE DEF value, both, late, second, end, fold, eol, next
  <2>4. CASE st = "s_header_field"
    BY <2>3, <2>4 DEF Located, AtName, Accepts
  <2>5. CASE st = "s_header_value_discard_ws"
    <3>1. g \in {value, both}
      BY <2>5 DEF Located, AtDiscard, value, both
    <3>2. Head(g).class \in {"space", "value", "cr", "lf"}
      BY <2>2, <3>1
    <3> QED
      BY <2>5, <3>2 DEF Accepts
  <2>6. CASE st = "s_header_value_discard_ws_almost_done"
    <3>1. \E t \in {next, late} : g = LfOn(k, t)
      BY <2>6 DEF Located, AtNoValue, next, late
    <3>2. Head(g).class = "lf"
      BY <2>2, <3>1
    <3> QED
      BY <2>6, <3>2 DEF Accepts
  <2>7. CASE st = "s_header_value_discard_lws"
    <3>1. g \in {next, late}
      BY <2>7 DEF Located, AtNoValue, next, late
    <3>2. Head(g).class \in {"space", "name", "cr", "lf"}
      BY <2>2, <3>1
    <3> QED
      BY <2>7, <3>2 DEF Accepts
  <2>8. CASE st = "s_header_value"
    <3>1. g \in {end, second, eol}
      BY <2>8 DEF Located, AtValue, end, second, eol, fold
    <3>2. Head(g).class \in {"space", "value", "cr", "lf"}
      BY <2>2, <3>1
    <3> QED
      BY <2>8, <3>2 DEF Accepts
  <2>9. CASE st = "s_header_almost_done"
    <3>1. \E t \in {next, fold} : g = LfOn(k, t)
      BY <2>9 DEF Located, AtValueEnd, next, fold
    <3>2. Head(g).class = "lf"
      BY <2>2, <3>1
    <3> QED
      BY <2>9, <3>2 DEF Accepts
  <2>10. CASE st = "s_header_value_lws"
    <3>1. g \in {next, fold}
      BY <2>10 DEF Located, AtValueEnd, next, fold
    <3>2. Head(g).class \in {"space", "name", "cr", "lf"}
      BY <2>2, <3>1
    <3> QED
      BY <2>10, <3>2 DEF Accepts
  <2> QED
    BY <1>3, <2>4, <2>5, <2>6, <2>7, <2>8, <2>9, <2>10
<1> QED
  BY <1>1, <1>2, <1>3

\* In the body.
LEMMA BodyAccepted ==
  ASSUME NEW rs, Requests(rs), NEW k \in 1..Len(rs),
         NEW st \in {"s_body_identity", "s_chunk_size_start", "s_chunk_size",
                     "s_chunk_size_almost_done", "s_chunk_data", "s_chunk_data_almost_done",
                     "s_chunk_data_done"},
         NEW h \in Nat, NEW i \in Nat, NEW g, NEW hd, NEW fl, NEW rem,
         Located(st, rs, k, h, i, g, hd, fl, rem)
  PROVE  Head(g).class \in Accepts(st)
<1>1. CASE st = "s_body_identity"
  <2>1. AtBody(rs, k, i, g, rem)
    BY <1>1 DEF Located
  <2> DEFINE on(x) == PieceOn(k, "body", 1, x, rs[k].body[1], RestOn(rs, k))
  <2>2. /\ Len(rs[k].body) = 1 /\ i \in 0..(rs[k].body[1] - 1) /\ g = on(i)
    BY <2>1 DEF AtBody
  <2>3. Leads(k, on(i), PieceByte(k, "body", 1, i + 1), on(i + 1))
    BY <2>2, IdentityLeads
  <2>4. Head(g).class = "body"
    BY <2>2, <2>3, PieceIs
  <2> QED
    BY <1>1, <2>4 DEF Accepts
<1>2. CASE st # "s_body_identity"
  <2>1. HasChunks(rs, k) /\ h \in 0..Len(rs[k].body)
    BY <1>2 DEF Located, InChunks
  <2> DEFINE size == SizeOf(rs, k, h)
             chunk == ChunksOn(rs, k, h)
             end == SizeEndOn(rs, k, h)
             line == EolOn(rs, k, "none", end)
             digit == Cons(SizeByte(k, size), line)
             dataEnd == DataEndOn(rs, k, h)
             next == ChunksOn(rs, k, h + 1)
  <2>2. /\ Head(chunk).class = "size" /\ Head(digit).class = "size" /\ Head(line).class = "cr"
        /\ Head(LfOn(k, end)).class = "lf"
        /\ h < Len(rs[k].body) =>
             /\ size = rs[k].body[h + 1]
             /\ \A x \in 0..(size - 1) : Head(DataOn(rs, k, h, x)).class = "body"
             /\ Head(dataEnd).class = "cr" /\ Head(LfOn(k, next)).class = "lf"
    BY <2>1, ChunkNext, ZenonT(30)
  <2> HIDE DEF size, chunk, end, line, digit, dataEnd, next
  <2>3. CASE st = "s_chunk_size_start"
    BY <2>2, <2>3 DEF Located, chunk, Accepts
  <2>4. CASE st = "s_chunk_size"
    <3>1. g \in {digit, line}
      BY <2>4 DEF Located, AtSize, digit, line, end, size
    <3>2. Head(g).class \in {"size", "cr"}
      BY <2>2, <3>1
    <3> QED
      BY <2>4, <3>2 DEF Accepts
  <2>5. CASE st = "s_chunk_size_almost_done"
    <3>1. g = LfOn(k, end)
      BY <2>5 DEF Located, end
    <3> QED
      BY <2>2, <2>5, <3>1 DEF Accepts
  <2>6. CASE st = "s_chunk_data"
    <3>1. /\ h < Len(rs[k].body) /\ i \in 0..(rs[k].body[h + 1] - 1) /\ g = DataOn(rs, k, h, i)
      BY <2>6 DEF Located, AtData
    <3>2. Head(g).class = "body"
      BY <2>2, <3>1
    <3> QED
      BY <2>6, <3>2 DEF Accepts
  <2>7. CASE st = "s_chunk_data_almost_done"
    <3>1. h < Len(rs[k].body) /\ g = dataEnd
      BY <2>7 DEF Located, dataEnd
    <3> QED
      BY <2>2, <2>7, <3>1 DEF Accepts
  <2>8. CASE st = "s_chunk_data_done"
    <3>1. h < Len(rs[k].body) /\ g = LfOn(k, next)
      BY <2>8 DEF Located, next
    <3> QED
      BY <2>2, <2>8, <3>1 DEF Accepts
  <2> QED
    BY <1>2, <2>3, <2>4, <2>5, <2>6, <2>7, <2>8
<1> QED
  BY <1>1, <1>2

\* So a byte that the state does not take is one that is refused for a cause.
LEMMA RefusedForCause ==
  ASSUME NEW k \in Nat, NEW g, Coming(k, g), Standing(k, g), Stream, inFlight # <<>>,
         Class \notin Accepts(state)
  PROVE  Refused(Byte)
<1>1. CASE Class = "bad"
  BY <1>1 DEF Refused, Class
<1>2. CASE Class # "bad"
  <2>1. Byte = Head(g) /\ g # <<>>
    BY <1>2, Taken
  <2>2. k \in 1..Len(requests) /\ Requests(requests)
    BY <2>1, Inside DEF Coming
  <2>3. PICK h, i \in Nat : Located(state, requests, k, h, i, g, header, flags, remaining)
    BY DEF Standing
  <2>4. Head(g).class \notin Accepts(state)
    BY <2>1 DEF Class
  <2>5. state = "s_dead"
    <3> SUFFICES ASSUME state # "s_dead" PROVE FALSE
      OBVIOUS
    <3>1. state \in States
      BY DEF Standing
    <3> QED
      BY <2>1, <2>2, <2>3, <2>4, <3>1, LineAccepted, HeadersAccepted, BodyAccepted DEF States
  <2>6. k > 1 /\ Closes(k - 1)
    BY <2>5 DEF Standing
  <2>7. Class \notin {"cr", "lf"}
    BY <2>5 DEF Accepts
  <2>8. Byte.req = k
    <3>1. AtStart(requests, k, g)
      BY <2>3, <2>5 DEF Located
    <3>2. CASE g = RestOn(requests, k - 1)
      <4>1. k - 1 \in 0..Len(requests) /\ (k - 1) + 1 = k
        BY <2>2
      <4> QED
        BY <2>1, <2>2, <3>2, <4>1, RestBegins
    <3>3. CASE g = LfOn(k, LineOn(requests, k))
      <4>1. LineOn(requests, k) \in Seq(From(k))
        BY <2>2, StartLeads
      <4>2. Head(g).class = "lf"
        BY <3>3, <4>1, LfIs
      <4> QED
        BY <2>1, <2>7, <4>2 DEF Class
    <3>4. CASE g = LineOn(requests, k)
      <4>1. Leads(k, LineOn(requests, k), PieceByte(k, "method", 0, 1), MethodOn(requests, k))
        BY <2>2, RequestLeads
      <4> QED
        BY <2>1, <3>4, <4>1, PieceIs
    <3> QED
      BY <3>1, <3>2, <3>3, <3>4 DEF AtStart
  <2> QED
    BY <2>6, <2>7, <2>8 DEF Refused, Class
<1> QED
  BY <1>1, <1>2

---------------------------------------------------------------------------
(* What a step of the parser keeps.                                        *)

\* Wherever the reads end, the parser is in the place of the bytes it has taken, and
\* a connection is only closed for a cause.
InPlace ==
  /\ \E k, g : k \in Nat /\ Coming(k, g) /\ Standing(k, g)
  /\ AheadThere /\ Cause

\* Taking a byte, the parser is in the request that the byte is of.
LEMMA Begins ==
  ASSUME NEW k \in Nat, NEW g, Coming(k, g), Standing(k, g), Stream,
         NEW s \in States, Takes(s), requests' = requests
  PROVE  Placed(k, g) /\ Class # "bad"
<1>1. inFlight # <<>> /\ Class # "bad"
  BY NoBadTaken DEF Takes
<1>2. Byte = Head(g) /\ g # <<>>
  BY <1>1, Taken
<1>3. k \in 1..Len(requests) /\ Requests(requests)
  BY <1>2, Inside DEF Coming
<1> QED
  BY <1>1, <1>2, <1>3 DEF Placed, Class

\* It takes a byte within the request ...
LEMMA GoesInPlace ==
  ASSUME NEW k \in Nat, NEW g, Coming(k, g), Standing(k, g), AheadThere, Stream, Reads,
         \E s \in States : Takes(s), Advance, UNCHANGED <<status, out>>,
         Placed(k, g) => Standing(k, Tail(g))'
  PROVE  InPlace'
<1>1. PICK s \in States : Takes(s)
  OBVIOUS
<1>2. requests' = requests
  BY DEF Advance
<1>3. Standing(k, Tail(g))'
  BY <1>1, <1>2, Begins
<1> DEFINE t == Tail(g)
<1>4. Coming(k, t)' /\ Standing(k, t)' /\ AheadThere' /\ Cause'
  BY <1>1, <1>3, Goes
<1> HIDE DEF t
<1> QED
  BY <1>4 DEF InPlace

\* ... or the one it ends with.
LEMMA EndsInPlace ==
  ASSUME NEW k \in Nat, NEW g, Coming(k, g), Standing(k, g), AheadThere, Stream, Reads,
         NEW s \in States, s # "s_dead", Takes(s), requests' = requests,
         Placed(k, g) => \/ Advance /\ UNCHANGED <<status, out>> /\ Standing(k, Tail(g))'
                         \/ \E q, fs : Whole(k, g, fs) /\ Complete(q, fs)
  PROVE  InPlace'
<1>1. Placed(k, g) /\ Class # "bad"
  BY Begins
<1>2. CASE Advance /\ UNCHANGED <<status, out>> /\ Standing(k, Tail(g))'
  BY <1>2, GoesInPlace
<1>3. ASSUME NEW q, NEW fs, Whole(k, g, fs), Complete(q, fs) PROVE InPlace'
  <2>1. state # "s_dead" /\ status = "open" /\ inFlight # <<>> /\ ahead # 0
    BY DEF Takes
  <2>2. /\ Coming(k + 1, RestOn(requests, k))' /\ Standing(k + 1, RestOn(requests, k))'
        /\ AheadThere' /\ Cause'
    BY <1>1, <1>3, <2>1, CompleteMoves
  <2> QED
    BY <2>2 DEF InPlace
<1> QED
  BY <1>1, <1>2, <1>3

LEMMA AdvanceKeeps == Advance => requests' = requests
BY DEF Advance

LEMMA FinishKeepsRequests ==
  ASSUME NEW q, NEW fs, FinishHeaders(q, fs) \/ Complete(q, fs)
  PROVE  requests' = requests
<1>1. \A r : Complete(r, fs) => requests' = requests
  BY AdvanceKeeps DEF Complete
<1> QED
  BY <1>1, AdvanceKeeps DEF FinishHeaders

\* The step of each state goes from place to place.
LEMMA InPlaceStep ==
  ASSUME InPlace, Stream, Reads, HttpNext
  PROVE  InPlace'
<1>0. PICK k, g : k \in Nat /\ Coming(k, g) /\ Standing(k, g)
  BY DEF InPlace
<1>a. AheadThere /\ Cause
  BY DEF InPlace
<1>1. CASE BlankLine
  <2>1. (\E s \in States : Takes(s)) /\ Advance /\ UNCHANGED <<status, out>>
    BY <1>1 DEF BlankLine, States, handler
  <2> QED
    BY <1>0, <1>a, <1>1, <2>1, BlankLineMoves, GoesInPlace
<1>2. CASE StartReq
  <2>1. (\E s \in States : Takes(s)) /\ Advance /\ UNCHANGED <<status, out>>
    BY <1>2 DEF StartReq, States, handler
  <2> QED
    BY <1>0, <1>a, <1>2, <2>1, StartReqMoves, GoesInPlace
<1>3. CASE ReqMethod
  <2>1. (\E s \in States : Takes(s)) /\ Advance /\ UNCHANGED <<status, out>>
    BY <1>3 DEF ReqMethod, States, handler
  <2> QED
    BY <1>0, <1>a, <1>3, <2>1, ReqMethodMoves, GoesInPlace
<1>4. CASE SpacesBeforeUrl
  <2>1. (\E s \in States : Takes(s)) /\ Advance /\ UNCHANGED <<status, out>>
    BY <1>4 DEF SpacesBeforeUrl, States, handler
  <2> QED
    BY <1>0, <1>a, <1>4, <2>1, SpacesBeforeUrlMoves, GoesInPlace
<1>5. CASE Url
  <2>1. (\E s \in States : Takes(s)) /\ Advance /\ UNCHANGED <<status, out>>
    BY <1>5 DEF Url, States, handler
  <2> QED
    BY <1>0, <1>a, <1>5, <2>1, UrlMoves, GoesInPlace
<1>6. CASE Version
  <2>1. (\E s \in States : Takes(s)) /\ Advance /\ UNCHANGED <<status, out>>
    BY <1>6 DEF Version, States, handler
  <2> QED
    BY <1>0, <1>a, <1>6, <2>1, VersionMoves, GoesInPlace
<1>7. CASE ReqLineAlmostDone
  <2>1. (\E s \in States : Takes(s)) /\ Advance /\ UNCHANGED <<status, out>>
    BY <1>7 DEF ReqLineAlmostDone, States, handler
  <2> QED
    BY <1>0, <1>a, <1>7, <2>1, ReqLineAlmostDoneMoves, GoesInPlace
<1>8. CASE HeaderFieldStart
  <2>1. (\E s \in States : Takes(s)) /\ Advance /\ UNCHANGED <<status, out>>
    BY <1>8 DEF HeaderFieldStart, AfterHeader, States, handler
  <2> QED
    BY <1>0, <1>a, <1>8, <2>1, HeaderFieldStartMoves, GoesInPlace
<1>9. CASE HeaderField
  <2>1. (\E s \in States : Takes(s)) /\ Advance /\ UNCHANGED <<status, out>>
    BY <1>9 DEF HeaderField, States, handler
  <2> QED
    BY <1>0, <1>a, <1>9, <2>1, HeaderFieldMoves, GoesInPlace
<1>10. CASE DiscardWs
  <2>1. (\E s \in States : Takes(s)) /\ Advance /\ UNCHANGED <<status, out>>
    BY <1>10 DEF DiscardWs, States, handler
  <2> QED
    BY <1>0, <1>a, <1>10, <2>1, DiscardWsMoves, GoesInPlace
<1>11. CASE HeaderValueStart
  <2>1. (\E s \in States : Takes(s)) /\ Advance /\ UNCHANGED <<status, out>>
    BY <1>11 DEF HeaderValueStart, States, handler
  <2> QED
    BY <1>0, <1>a, <1>11, <2>1, HeaderValueStartMoves, GoesInPlace
<1>12. CASE HeaderValue
  <2>1. (\E s \in States : Takes(s)) /\ Advance /\ UNCHANGED <<status, out>>
    BY <1>12 DEF HeaderValue, States, handler
  <2> QED
    BY <1>0, <1>a, <1>12, <2>1, HeaderValueMoves, GoesInPlace
<1>13. CASE HeaderAlmostDone
  <2>1. (\E s \in States : Takes(s)) /\ Advance /\ UNCHANGED <<status, out>>
    BY <1>13 DEF HeaderAlmostDone, States, handler
  <2> QED
    BY <1>0, <1>a, <1>13, <2>1, HeaderAlmostDoneMoves, GoesInPlace
<1>14. CASE EndOfHeaders
  <2>1. \E s \in States : s # "s_dead" /\ Takes(s)
    BY <1>14 DEF EndOfHeaders, AfterHeader, States
  <2>2. requests' = requests
    BY <1>14, AdvanceKeeps, FinishKeepsRequests DEF EndOfHeaders
  <2> QED
    BY <1>0, <1>a, <1>14, <2>1, <2>2, EndOfHeadersMoves, EndsInPlace
<1>15. CASE HeadersAlmostDone
  <2>1. \E s \in States : s # "s_dead" /\ Takes(s)
    BY <1>15 DEF HeadersAlmostDone, States
  <2>2. requests' = requests
    BY <1>15, AdvanceKeeps, FinishKeepsRequests DEF HeadersAlmostDone
  <2> QED
    BY <1>0, <1>a, <1>15, <2>1, <2>2, HeadersAlmostDoneMoves, EndsInPlace
<1>16. CASE BodyIdentity
  <2>1. \E s \in States : s # "s_dead" /\ Takes(s)
    BY <1>16 DEF BodyIdentity, States
  <2>2. requests' = requests
    BY <1>16, AdvanceKeeps, FinishKeepsRequests DEF BodyIdentity
  <2> QED
    BY <1>0, <1>a, <1>16, <2>1, <2>2, BodyIdentityMoves, EndsInPlace
<1>17. CASE ChunkSize
  <2>1. (\E s \in States : Takes(s)) /\ Advance /\ UNCHANGED <<status, out>>
    BY <1>17 DEF ChunkSize, States, handler
  <2> QED
    BY <1>0, <1>a, <1>17, <2>1, ChunkSizeMoves, GoesInPlace
<1>18. CASE ChunkSizeAlmostDone
  <2>1. (\E s \in States : Takes(s)) /\ Advance /\ UNCHANGED <<status, out>>
    BY <1>18 DEF ChunkSizeAlmostDone, States, handler
  <2> QED
    BY <1>0, <1>a, <1>18, <2>1, ChunkSizeAlmostDoneMoves, GoesInPlace
<1>19. CASE ChunkData
  <2>1. (\E s \in States : Takes(s)) /\ Advance /\ UNCHANGED <<status, out>>
    BY <1>19 DEF ChunkData, States, handler
  <2> QED
    BY <1>0, <1>a, <1>19, <2>1, ChunkDataMoves, GoesInPlace
<1>20. CASE ChunkDataDone
  <2>1. (\E s \in States : Takes(s)) /\ Advance /\ UNCHANGED <<status, out>>
    BY <1>20 DEF ChunkDataDone, States, handler
  <2> QED
    BY <1>0, <1>a, <1>20, <2>1, ChunkDataDoneMoves, GoesInPlace
<1>21. CASE Read \/ EndOfRead
  <2>1. /\ UNCHANGED <<requests, inFlight, state, header, flags, remaining, out, status>>
        /\ ahead' = Unknown /\ status = "open"
    BY <1>21 DEF Read, EndOfRead, parser, handler
  <2>2. Coming(k, g)' /\ Standing(k, g)'
    BY <1>0, <2>1 DEF Coming, BadAhead, Closes, Standing
  <2>3. AheadThere' /\ Cause'
    BY <2>1 DEF AheadThere, Cause, Stream, Unknown
  <2> QED
    BY <1>0, <2>2, <2>3 DEF InPlace
<1>22. CASE Fail
  <2>1. /\ UNCHANGED <<requests, inFlight, state, header, flags, remaining, out, ahead>>
        /\ inFlight # <<>> /\ Class \notin Accepts(state)
    BY <1>22 DEF Fail, parser
  <2>2. Coming(k, g)' /\ Standing(k, g)'
    BY <1>0, <2>1 DEF Coming, BadAhead, Closes, Standing
  <2>3. Refused(Byte)
    BY <1>0, <2>1, RefusedForCause
  <2>4. AheadThere' /\ Cause'
    BY <1>a, <2>1, <2>3 DEF AheadThere, Cause, Refused, Byte, Closes
  <2> QED
    BY <1>0, <2>2, <2>4 DEF InPlace
<1> QED
  BY <1>1, <1>2, <1>3, <1>4, <1>5, <1>6, <1>7, <1>8, <1>9, <1>10, <1>11, <1>12, <1>13, <1>14, <1>15, <1>16, <1>17, <1>18, <1>19, <1>20, <1>21, <1>22 DEF HttpNext

---------------------------------------------------------------------------
(* What is sent.                                                           *)

\* What is put together of spoiled parts is spoiled.
LEMMA CoversBoth ==
  ASSUME NEW B, NEW a \in Seq(B), NEW c \in Seq(B), NEW b \in Seq(B), NEW d \in Seq(B),
         Covers(a, b), Covers(c, d)
  PROVE  Covers(a \o c, b \o d)
<1>1. /\ DOMAIN a = DOMAIN b /\ DOMAIN c = DOMAIN d
      /\ \A x \in DOMAIN b : a[x] \in {b[x], [b[x] EXCEPT !.class = "bad"]}
      /\ \A x \in DOMAIN d : c[x] \in {d[x], [d[x] EXCEPT !.class = "bad"]}
  BY DEF Covers
<1>2. /\ Len(a) = Len(b) /\ Len(c) = Len(d) /\ Len(b) \in Nat /\ Len(d) \in Nat
      /\ DOMAIN b = 1..Len(b) /\ DOMAIN d = 1..Len(d)
  BY <1>1
<1>3. DOMAIN (a \o c) = DOMAIN (b \o d) /\ DOMAIN (b \o d) = 1..(Len(b) + Len(d))
  BY <1>2
<1>4. ASSUME NEW x \in 1..(Len(b) + Len(d))
      PROVE  (a \o c)[x] \in {(b \o d)[x], [(b \o d)[x] EXCEPT !.class = "bad"]}
  <2>1. CASE x <= Len(b)
    <3>1. x \in 1..Len(b) /\ (a \o c)[x] = a[x] /\ (b \o d)[x] = b[x]
      BY <1>2, <2>1
    <3> QED
      BY <1>1, <1>2, <3>1
  <2>2. CASE x > Len(b)
    <3>1. x - Len(b) \in 1..Len(d)
      BY <1>2, <2>2
    <3>2. (a \o c)[x] = c[x - Len(b)] /\ (b \o d)[x] = d[x - Len(b)]
      BY <1>2, <2>2
    <3> QED
      BY <1>1, <1>2, <3>1, <3>2
  <2> QED
    BY <1>2, <2>1, <2>2
<1> QED
  BY <1>3, <1>4 DEF Covers

LEMMA CoversJoined ==
  ASSUME NEW B, NEW n \in Nat, NEW s, NEW t,
         \A j \in 1..n : s[j] \in Seq(B) /\ t[j] \in Seq(B) /\ Covers(s[j], t[j])
  PROVE  Covers(Joined(s, n), Joined(t, n))
<1> DEFINE Q == Seq(B)
<1>1. PICK f : Joins(f, B, s, n)
  BY JoinedSteps
<1>2. PICK e : Joins(e, B, t, n)
  BY JoinedSteps
<1>3. /\ f \in [0..n -> Q] /\ f[0] = <<>> /\ Joined(s, n) = f[n]
      /\ \A j \in 1..n : f[j] = f[j - 1] \o s[j]
      /\ e \in [0..n -> Q] /\ e[0] = <<>> /\ Joined(t, n) = e[n]
      /\ \A j \in 1..n : e[j] = e[j - 1] \o t[j]
  BY <1>1, <1>2 DEF Joins
<1>4. \A j \in 1..n : s[j] \in Q /\ t[j] \in Q
  OBVIOUS
<1> DEFINE T == {j \in 0..n : Covers(f[j], e[j])}
<1>5. ASSUME NEW j \in 1..n, j - 1 \in T PROVE j \in T
  <2>1. j \in 0..n /\ j - 1 \in 0..n /\ Covers(f[j - 1], e[j - 1]) /\ Covers(s[j], t[j])
    BY <1>5
  <2> HIDE DEF Q
  <2>2. f[j - 1] \in Q /\ e[j - 1] \in Q /\ s[j] \in Q /\ t[j] \in Q
    BY <1>3, <1>4, <2>1
  <2>3. Covers(f[j - 1] \o s[j], e[j - 1] \o t[j])
    BY <2>1, <2>2, CoversBoth DEF Q
  <2> QED
    BY <1>3, <2>1, <2>3
<1>6. 0 \in T
  BY <1>3 DEF Covers
<1> HIDE DEF T
<1>7. n \in T
  <2>1. 0..n \subseteq T
    BY <1>5, <1>6, UpTo
  <2> QED
    BY <2>1
<1> QED
  BY <1>3, <1>7 DEF T

\* An element of a sequence.
Has(q, b) == \E z \in DOMAIN q : q[z] = b

\* Each element of the parts is one of the whole.
LEMMA JoinedHas ==
  ASSUME NEW B, NEW n \in Nat, NEW s, \A j \in 1..n : s[j] \in Seq(B)
  PROVE  \A x \in 1..n : \A y \in DOMAIN s[x] : Has(Joined(s, n), s[x][y])
<1> SUFFICES ASSUME NEW x \in 1..n, NEW y \in DOMAIN s[x]
             PROVE  \E z \in DOMAIN Joined(s, n) : Joined(s, n)[z] = s[x][y]
  BY DEF Has
<1> DEFINE Q == Seq(B)
<1>1. PICK f : Joins(f, B, s, n)
  BY JoinedSteps
<1>2. /\ f \in [0..n -> Q] /\ Joined(s, n) = f[n]
      /\ \A j \in 1..n : f[j] = Cat(f[j - 1], s[j])
  BY <1>1 DEF Joins, Cat
<1>3. ASSUME NEW a \in Q, NEW b \in Q
      PROVE  /\ \A z \in DOMAIN a : z \in DOMAIN Cat(a, b) /\ Cat(a, b)[z] = a[z]
             /\ \A z \in DOMAIN b : \E w \in DOMAIN Cat(a, b) : Cat(a, b)[w] = b[z]
  <2>1. ASSUME NEW z \in DOMAIN a PROVE z \in DOMAIN Cat(a, b) /\ Cat(a, b)[z] = a[z]
    BY DEF Cat
  <2>2. ASSUME NEW z \in DOMAIN b PROVE \E w \in DOMAIN Cat(a, b) : Cat(a, b)[w] = b[z]
    <3>1. z + Len(a) \in DOMAIN Cat(a, b) /\ Cat(a, b)[z + Len(a)] = b[z]
      BY DEF Cat
    <3> QED
      BY <3>1
  <2> QED
    BY <2>1, <2>2
<1>4. \A j \in 1..n : s[j] \in Q
  OBVIOUS
<1> DEFINE T == {j \in 0..n : j >= x => \E z \in DOMAIN f[j] : f[j][z] = s[x][y]}
<1> HIDE DEF Q
<1>5. ASSUME NEW j \in 1..n, j - 1 \in T PROVE j \in T
  <2> SUFFICES ASSUME j >= x PROVE \E z \in DOMAIN f[j] : f[j][z] = s[x][y]
    OBVIOUS
  <2>1. j \in 0..n /\ j - 1 \in 0..n
    OBVIOUS
  <2>2. f[j] = Cat(f[j - 1], s[j]) /\ f[j - 1] \in Q /\ s[j] \in Q
    BY <1>2, <1>4, <2>1
  <2>3. CASE j = x
    BY <1>3, <2>2, <2>3
  <2>4. CASE j # x
    <3>1. j - 1 >= x
      BY <2>4
    <3>2. PICK z \in DOMAIN f[j - 1] : f[j - 1][z] = s[x][y]
      BY <1>5, <3>1
    <3> QED
      BY <1>3, <2>2, <3>2
  <2> QED
    BY <2>3, <2>4
<1>6. 0 \in T
  OBVIOUS
<1> HIDE DEF T
<1>7. n \in T
  <2>1. 0..n \subseteq T
    BY <1>5, <1>6, UpTo
  <2> QED
    BY <2>1
<1> QED
  BY <1>2, <1>7 DEF T

\* A client's request is covered, and its spoiled byte is in it.
LEMMA BytesCover ==
  ASSUME NEW rs, Requests(rs), NEW k \in 1..Len(rs)
  PROVE  /\ Covers(Bytes(k, rs[k]), Unspoiled(k, rs[k]))
         /\ rs[k].bad # 0 =>
              \E y \in DOMAIN Bytes(k, rs[k]) :
                Bytes(k, rs[k])[y].req = k /\ Bytes(k, rs[k])[y].class = "bad"
<1> DEFINE r == rs[k]
           u == Unspoiled(k, r)
           B == ByteOf(k)
<1>1. IsRequest(r) /\ r.bad \in Nat /\ r.bad <= Len(u)
  BY RequestFacts
<1>2. u \in Seq(B) /\ Bytes(k, r) \in Seq(B)
  BY <1>1, UnspoiledTypes, RequestTypes
<1>3. Bytes(k, r) = [i \in DOMAIN u |-> IF i = r.bad THEN [u[i] EXCEPT !.class = "bad"] ELSE u[i]]
  BY DEF Bytes
<1> HIDE DEF r, u
<1>4. Covers(Bytes(k, r), u)
  BY <1>3 DEF Covers
<1>5. ASSUME r.bad # 0
      PROVE  /\ r.bad \in DOMAIN Bytes(k, r)
             /\ Bytes(k, r)[r.bad].req = k /\ Bytes(k, r)[r.bad].class = "bad"
  <2>1. r.bad \in DOMAIN u
    <3> HIDE DEF B
    <3> QED
      BY <1>1, <1>2, <1>5
  <2>2. u[r.bad] \in B
    <3> HIDE DEF B
    <3> QED
      BY <1>2, <2>1
  <2>3. Bytes(k, r)[r.bad] = [u[r.bad] EXCEPT !.class = "bad"]
    BY <1>3, <2>1
  <2> QED
    BY <1>3, <2>1, <2>2, <2>3 DEF ByteOf
<1> QED
  BY <1>4, <1>5 DEF r, u

\* At first the parser is at the beginning of what is sent.
LEMMA InPlaceInit == HttpInit => InPlace
<1> SUFFICES ASSUME HttpInit PROVE InPlace
  OBVIOUS
<1> DEFINE n == Len(requests)
           s == [k \in DOMAIN requests |-> Bytes(k, requests[k])]
           t == [k \in DOMAIN requests |-> Unspoiled(k, requests[k])]
           g == RestOn(requests, 0)
<1>1. Requests(requests) /\ n \in Nat /\ DOMAIN requests = 1..n /\ 0 \in 0..n
  <2>1. PICK m \in 1..MaxRequests : requests \in [1..m -> RequestSet]
    BY DEF HttpInit
  <2>2. m \in Nat /\ m <= MaxRequests /\ MaxRequests \in Nat
    BY <2>1, HttpAssumption
  <2>3. requests \in Seq(RequestSet) /\ n = m
    BY <2>1, <2>2
  <2> QED
    BY <2>1, <2>2, <2>3 DEF Requests
<1>2. inFlight = Joined(s, n)
  BY DEF HttpInit
<1>3. \A k \in 1..n : Covers(s[k], t[k])
  BY <1>1, BytesCover
<1>4. \A k \in 1..n : s[k] \in Seq(From(1)) /\ t[k] \in Seq(From(1))
  <2> SUFFICES ASSUME NEW k \in 1..n PROVE s[k] \in Seq(From(1)) /\ t[k] \in Seq(From(1))
    OBVIOUS
  <2> DEFINE B == ByteOf(k)
             C == From(1)
  <2>1. IsRequest(requests[k]) /\ k \in DOMAIN requests
    BY <1>1, RequestFacts
  <2>2. s[k] \in Seq(B) /\ t[k] \in Seq(B)
    BY <2>1, UnspoiledTypes, RequestTypes
  <2>3. B \subseteq C
    BY DEF ByteOf, From
  <2> HIDE DEF s, t, B, C
  <2>4. s[k] \in Seq(C) /\ t[k] \in Seq(C)
    BY <2>2, <2>3
  <2> QED
    BY <2>4 DEF C
<1>5. g = Joined(t, n)
  <2>1. g = Onward(t, 0, n)
    BY DEF RestOn
  <2>2. t = [x \in 1..n |-> t[x]]
    BY <1>1
  <2> HIDE DEF t, g, n
  <2> QED
    BY <1>1, <2>1, <2>2, OnwardAll
<1>6. Covers(inFlight, g)
  <2> HIDE DEF s, t, g, n
  <2>1. Covers(Joined(s, n), Joined(t, n))
    BY <1>1, <1>3, <1>4, CoversJoined
  <2> QED
    BY <1>2, <1>5, <2>1
<1>7. BadAhead
  <2> SUFFICES ASSUME NEW x \in 1..n, requests[x].bad # 0
               PROVE  \E y \in DOMAIN inFlight : inFlight[y].req = x /\ inFlight[y].class = "bad"
    BY <1>1 DEF BadAhead
  <2>1. \E y \in DOMAIN s[x] : s[x][y].req = x /\ s[x][y].class = "bad"
    BY <1>1, BytesCover
  <2> DEFINE C == From(1)
  <2>2. \A k \in 1..n : s[k] \in Seq(C)
    BY <1>4
  <2> HIDE DEF s, n, C
  <2>3. n \in Nat /\ x \in 1..n
    BY <1>1
  <2>4. \A y \in DOMAIN s[x] : Has(Joined(s, n), s[x][y])
    BY <2>2, <2>3, JoinedHas
  <2> QED
    BY <1>2, <2>1, <2>4 DEF Has
<1>8. out = <<>> /\ out \in Seq({}) /\ Len(out) = 0 /\ 1 \in 1..(n + 1)
  BY <1>1 DEF HttpInit
<1>9. g \in Seq(From(1))
  BY <1>1, RestTypes
<1>10. Coming(1, g)
  <2>1. \A j \in 1..(1 - 2) : ~Closes(j)
    OBVIOUS
  <2> HIDE DEF g
  <2> QED
    BY <1>1, <1>6, <1>7, <1>8, <1>9, <2>1 DEF Coming
<1>11. Standing(1, g)
  <2>1. state = "s_start_req"
    BY DEF HttpInit
  <2>2. AtStart(requests, 1, g)
    BY DEF AtStart
  <2>3. Located(state, requests, 1, 0, 0, g, header, flags, remaining)
    BY <2>1, <2>2 DEF Located
  <2> QED
    BY <2>1, <2>3 DEF Standing, States
<1>12. AheadThere /\ Cause
  <2>1. Stream
    BY TypesInit
  <2>2. Len(inFlight) \in Nat
    BY <2>1 DEF Stream
  <2> QED
    BY <2>2 DEF AheadThere, Cause, HttpInit, Unknown
<1> HIDE DEF g
<1> QED
  BY <1>10, <1>11, <1>12 DEF InPlace

\* A spoiled request is never handed over, nor one behind a request that closes the
\* connection; and only a byte that is refused closes it, whatever the reads are.
THEOREM ClosesForCause == HttpSpec => []ClosedForCause
<1> DEFINE Inv == Stream /\ Reads /\ Counts /\ Seen /\ InPlace
<1>1. HttpInit => Inv
  BY TypesInit, InPlaceInit
<1>2. Inv /\ [HttpNext]_httpVars => Inv'
  <2> SUFFICES ASSUME Inv, [HttpNext]_httpVars PROVE Inv'
    OBVIOUS
  <2>1. CASE HttpNext
    BY <2>1, TypesStep, InPlaceStep
  <2>2. CASE UNCHANGED httpVars
    <3>1. (Stream /\ Reads /\ Counts /\ Seen)'
      BY <2>2 DEF httpVars, parser, marks, handler, Stream, SentBytes, Reads, Counts, Seen
    <3>2. InPlace'
      <4>1. UNCHANGED <<requests, inFlight, state, header, flags, remaining, out, ahead, status>>
        BY <2>2 DEF httpVars, parser, handler
      <4>2. PICK k, g : k \in Nat /\ Coming(k, g) /\ Standing(k, g)
        BY DEF InPlace
      <4>3. Coming(k, g)' /\ Standing(k, g)'
        BY <4>1, <4>2 DEF Coming, BadAhead, Closes, Standing
      <4>4. AheadThere' /\ Cause'
        BY <4>1 DEF InPlace, AheadThere, Cause, Refused, AsksUpgrade, Byte, Closes
      <4> QED
        BY <4>2, <4>3, <4>4 DEF InPlace
    <3> QED
      BY <3>1, <3>2
  <2> QED
    BY <2>1, <2>2
<1>3. Inv => ClosedForCause
  <2> SUFFICES ASSUME Inv PROVE ClosedForCause
    OBVIOUS
  <2>1. PICK k, g : k \in Nat /\ Coming(k, g) /\ Standing(k, g)
    BY DEF InPlace
  <2>2. /\ DOMAIN out = 1..(k - 1) /\ g \in Seq(From(k)) /\ Covers(inFlight, g)
        /\ Requests(requests) /\ k \in 1..(Len(requests) + 1) /\ BadAhead
        /\ \A j \in 1..(k - 2) : ~Closes(j)
    BY <2>1 DEF Coming
  <2>3. ASSUME NEW x \in DOMAIN out PROVE requests[x].bad = 0 /\ (x > 1 => ~Closes(x - 1))
    <3>1. x \in 1..(k - 1) /\ x \in DOMAIN requests /\ x < k /\ (x > 1 => x - 1 \in 1..(k - 2))
      BY <2>2 DEF Requests
    <3>2. SUFFICES ASSUME requests[x].bad # 0 PROVE FALSE
      BY <2>2, <3>1
    <3>3. PICK y \in DOMAIN inFlight : inFlight[y].req = x
      BY <2>2, <3>1, <3>2 DEF BadAhead
    <3>4. y \in DOMAIN g /\ inFlight[y] \in {g[y], [g[y] EXCEPT !.class = "bad"]}
      BY <2>2, <3>3 DEF Covers
    <3>5. g[y] \in From(k)
      <4> DEFINE B == From(k)
      <4>1. g \in Seq(B)
        BY <2>2
      <4> HIDE DEF B
      <4>2. g[y] \in B
        BY <3>4, <4>1
      <4> QED
        BY <4>2 DEF B
    <3>6. inFlight[y].req = g[y].req /\ g[y].req >= k /\ g[y].req \in Nat
      BY <3>4, <3>5 DEF From
    <3> QED
      BY <2>1, <3>1, <3>3, <3>6
  <2> QED
    BY <2>3 DEF ClosedForCause, InPlace, Cause
<1> QED
  BY <1>1, <1>2, <1>3, PTL DEF HttpSpec
=============================================================================
