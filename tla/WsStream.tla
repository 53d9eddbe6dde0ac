------------------------------ MODULE WsStream ------------------------------
(***************************************************************************)
(* The receiving side of one WebsocketHandler: its muduo Buffer, its       *)
(* WebsocketParser and its WebsocketCodec, fed with a stream of frames that *)
(* TCP cuts into reads anywhere.                                           *)
(*                                                                         *)
(* A byte is <<k, o>>, the o-th byte of the k-th frame, and a fragment that *)
(* reaches the application is the number of its frame, or Garbled.         *)
(***************************************************************************)
EXTENDS Integers, Sequences

CONSTANTS
  FrameSet,      \* the frames a client may send
  ShortLen,      \* the longest payload with a 7-bit length (125 in the code)
  CheapPrepend,  \* Buffer::kCheapPrepend (8 in the code)
  MaxFrames      \* bound: frames the client sends

Data    == {"text", "binary"}
Control == {"close", "ping", "pong"}
Ops     == Data \cup Control \cup {"continuation", "reserved"}
\* key: no mask bit, a masking key of zero, or any other; "reserved" is also a
\* frame with a reserved bit set.
IsFrame(f) ==
  DOMAIN f = {"op", "fin", "key", "len"} /\ f.op \in Ops /\ f.fin \in BOOLEAN
  /\ f.key \in {"none", "zero", "random"} /\ f.len \in Nat
ASSUME StreamAssumption ==
  /\ \A f \in FrameSet : IsFrame(f)
  /\ ShortLen \in Nat /\ CheapPrepend \in Nat /\ MaxFrames \in Nat

VARIABLES
  frames,    \* the frames the client has sent
  inFlight,  \* the bytes of them not yet read
  ws         \* the WebsocketHandler

streamVars == <<frames, inFlight, ws>>

Garbled == 0

\* Fields of ws:
\*   buf      readable bytes of the connection's inputBuffer_
\*   state    WebsocketParser::state_
\*   frame    the frame whose header was parsed: fin_, opcode_, payload_length_
\*   key      masking_key_: a frame's number, 0 for zero
\*   body     body_
\*   current  cur_message_type_
\*   partial  text_message_ and binary_message_
\*   out      callbacks made: messages, and close, ping and pong
\*   error    has OnCodecError closed the connection?
\*   status   "open", "dropped" (bytes of a header were lost, what follows is
\*            taken for something else), "terminated" (failed assertion)
\* masking_key_ is not initialised: zero, or the key of no frame.
StreamInit ==
  /\ frames = <<>> /\ inFlight = <<>>
  /\ \E key \in {0, MaxFrames + 1} :
       ws = [buf |-> <<>>, state |-> "header", frame |-> 0, key |-> key, body |-> <<>>,
             current |-> "none", partial |-> [d \in Data |-> <<>>], out |-> <<>>,
             error |-> FALSE, status |-> "open"]

HeaderSize(f) ==
  2 + (IF f.len > ShortLen THEN 2 ELSE 0) + (IF f.key = "none" THEN 0 ELSE 4)
Bytes(k, f) == [o \in 1..(HeaderSize(f) + f.len) |-> <<k, o>>]
Body(k) == [o \in 1..frames[k].len |-> <<k, HeaderSize(frames[k]) + o>>]

---------------------------------------------------------------------------
(* WebsocketCodec.                                                         *)

\* OnCodecError: WebsocketHandler::ForceClose, queued; parsing goes on.
Error(w) == [w EXCEPT !.error = TRUE]
Deliver(w, type, parts) == [w EXCEPT !.out = Append(@, [type |-> type, parts |-> parts])]

\* HandleFrameBody: an empty body needs no key; another is unmasked with
\* masking_key_, whichever frame that key came with.
HasKey(w) == w.body = <<>> \/ w.key # 0
Part(w) ==
  IF w.body = Body(w.frame) /\ (w.body = <<>> \/ w.key = w.frame) THEN w.frame ELSE Garbled

\* Append to a message, and hand it over with its last fragment.
Collect(w, type) ==
  LET parts == Append(w.partial[type], Part(w))
  IN  IF frames[w.frame].fin
      THEN Deliver([w EXCEPT !.partial[type] = <<>>], type, parts)
      ELSE [w EXCEPT !.partial[type] = parts]

\* Faults: the fragment that starts a message is not recorded as such, or a
\* message that is complete still counts as begun.
ForgetsType(w) == "none"
KeepsType(w) == frames[w.frame].op

\* cur_message_type_ after a text or binary frame.
TypeAfter(w) == IF frames[w.frame].fin THEN "none" ELSE frames[w.frame].op

\* OnContinuationFrame ends the message in any case.
OnContinuationFrame(w) ==
  IF ~HasKey(w) \/ w.current = "none" THEN Error(w)
  ELSE [Collect(w, w.current) EXCEPT !.current = "none"]

OnDataFrame(w) ==
  IF ~HasKey(w) \/ w.current # "none" THEN Error(w)
  ELSE [Collect(w, frames[w.frame].op) EXCEPT !.current = TypeAfter(w)]

OnControlFrame(w) ==
  IF ~HasKey(w) THEN Error(w)
  ELSE Deliver(w, frames[w.frame].op,
               IF frames[w.frame].op = "close" THEN <<Part(w)>> ELSE <<>>)

OnParsedFrame(w) ==
  CASE frames[w.frame].op = "continuation" -> OnContinuationFrame(w)
    [] frames[w.frame].op \in Data         -> OnDataFrame(w)
    [] OTHER                               -> OnControlFrame(w)

---------------------------------------------------------------------------
(* WebsocketParser.                                                        *)

\* Header bytes that Parse refuses: the first is enough.
Refused(f) == f.op = "reserved" \/ (f.op \in Control /\ ~f.fin)

\* A fault: the parser does not clear body_.
KeepsBody(w) == [w EXCEPT !.state = "header"]

\* WebsocketParser::CleanUp
CleanUp(w) == [w EXCEPT !.state = "header", !.body = <<>>]

\* The result of Parse: the handler, is it true, and the bytes parsed.
Parsed(w, ok, n) == [w |-> w, ok |-> ok, n |-> n]

\* The body, once n bytes of header have been parsed.
ParseBody(w, data, n) ==
  LET need == frames[w.frame].len - Len(w.body)
      rest == Len(data) - n
      taken == IF need <= rest THEN need ELSE rest
      more == [w EXCEPT !.body = @ \o SubSeq(data, n + 1, n + taken)]
  IN  Parsed(IF need <= rest THEN CleanUp(OnParsedFrame(more)) ELSE more, TRUE, n + taken)

\* WebsocketParser::Parse.  masking_key_ keeps its value if there is no mask.
\* Asked to parse one byte it returns parsed_bytes, 0, which is false.
Parse(w, data) ==
  LET k == data[1][1]
      f == frames[k]
      key == CASE f.key = "none" -> w.key [] f.key = "zero" -> 0 [] OTHER -> k
  IN  IF w.state = "body" THEN ParseBody(w, data, 0)
      ELSE IF Refused(f) THEN Parsed(w, FALSE, 0)
      ELSE IF Len(data) < HeaderSize(f)
           THEN Parsed([w EXCEPT !.status = "dropped"], Len(data) >= 2, 0)
      ELSE ParseBody([w EXCEPT !.state = "body", !.frame = k, !.key = key], data, HeaderSize(f))

---------------------------------------------------------------------------
(* WebsocketHandler.                                                       *)

\* A fault: what was not parsed is not put back.
DropsRest(w, data, n) == w

\* Buffer::prepend, after the buffer was emptied: it asserts that there are no
\* more than CheapPrepend bytes.
Prepend(w, data, n) ==
  IF Len(data) - n > CheapPrepend THEN [w EXCEPT !.status = "terminated"]
  ELSE [w EXCEPT !.buf = SubSeq(data, n + 1, Len(data))]

\* One round of the loop of OnData: all bytes are taken from the buffer, and
\* what was not parsed is put back.  The loop ends with the buffer empty.
Round(w) ==
  IF w.buf = <<>> THEN w
  ELSE LET p == Parse([w EXCEPT !.buf = <<>>], w.buf)
       IN  CASE ~p.ok            -> Error(p.w)
             [] p.ok /\ p.n = 0  -> p.w
             [] p.ok /\ p.n # 0  -> Prepend(p.w, w.buf, p.n)

\* WebsocketHandler::OnData: each round parses a byte or is the last.
OnData(w) ==
  LET after[i \in 0..Len(w.buf)] == IF i = 0 THEN w ELSE Round(after[i - 1])
  IN  after[Len(w.buf)]

\* TcpConnection::handleRead gets n bytes.  A connection that ForceClose was
\* called for is closed before the loop polls again.
Read(n) ==
  /\ ws.status = "open" /\ ~ws.error /\ n <= Len(inFlight)
  /\ ws' = OnData([ws EXCEPT !.buf = @ \o SubSeq(inFlight, 1, n)])
  /\ inFlight' = SubSeq(inFlight, n + 1, Len(inFlight))
  /\ UNCHANGED frames

\* The client sends a frame.
Send(f) ==
  /\ Len(frames) < MaxFrames /\ ws.status = "open" /\ ~ws.error
  /\ frames' = Append(frames, f)
  /\ inFlight' = inFlight \o Bytes(Len(frames) + 1, f)
  /\ UNCHANGED ws

StreamNext ==
  \/ \E f \in FrameSet : Send(f)
  \/ \E n \in 1..Len(inFlight) : Read(n)

StreamSpec == StreamInit /\ [][StreamNext]_streamVars

---------------------------------------------------------------------------
(* What the frames mean, whatever the reads were.                          *)

IsData(k) == frames[k].op \in Data \cup {"continuation"}
WhollyRead == IF inFlight = <<>> THEN Len(frames) ELSE inFlight[1][1] - 1

\* Was the last data frame before k not the end of its message?
Unfinished(k) ==
  \E j \in 1..(k - 1) :
    IsData(j) /\ ~frames[j].fin /\ \A i \in (j + 1)..(k - 1) : ~IsData(i)

\* RFC 6455 as far as frames can be told apart here.
Conforms(n) ==
  \A k \in 1..n :
    /\ ~Refused(frames[k]) /\ frames[k].key # "none"
    /\ IsData(k) => (frames[k].op = "continuation" <=> Unfinished(k))

\* The members of S up to n, in order.
Ascending(S, n) ==
  LET upTo[k \in 0..n] ==
        IF k = 0 THEN <<>> ELSE IF k \in S THEN Append(upTo[k - 1], k) ELSE upTo[k - 1]
  IN  upTo[n]

\* What the k-th frame completes: a message of all its fragments.
Starts(k) == {j \in 1..k : frames[j].op \in Data}
Event(k) ==
  IF IsData(k)
  THEN LET first == CHOOSE j \in Starts(k) : \A i \in Starts(k) : i <= j
       IN  [type  |-> frames[first].op,
            parts |-> Ascending({i \in first..k : IsData(i)}, k)]
  ELSE [type  |-> frames[k].op,
        parts |-> IF frames[k].op = "close" THEN <<k>> ELSE <<>>]
Completes(k) == ~IsData(k) \/ frames[k].fin
Events(n) ==
  LET ends == Ascending({k \in 1..n : Completes(k)}, n)
  IN  [e \in DOMAIN ends |-> Event(ends[e])]

---------------------------------------------------------------------------
(* Properties.                                                             *)

StreamTypeOK ==
  /\ \A k \in DOMAIN frames : frames[k] \in FrameSet
  /\ Len(frames) <= MaxFrames
  /\ \A b \in DOMAIN inFlight : inFlight[b][1] \in DOMAIN frames
  /\ ws.buf = <<>> /\ ws.state \in {"header", "body"}
  /\ ws.frame \in 0..MaxFrames /\ ws.key \in 0..(MaxFrames + 1)
  /\ ws.current \in Data \cup {"none"}
  /\ ws.error \in BOOLEAN /\ ws.status \in {"open", "dropped", "terminated"}
  /\ ws.state = "header" => ws.body = <<>>

\* The callbacks a conforming client's frames cause are those that its frames
\* mean, however the reads cut and joined them: bodies split over reads, frames
\* joined in one, control frames between fragments.
CutsDoNotMatter ==
  Conforms(WhollyRead) /\ ws.status = "open" /\ ~ws.error => ws.out = Events(WhollyRead)

\* A connection is closed for a reason: a frame that does not conform, a key of
\* zero, a header split over two reads, or, for a client that conforms, a
\* message of more than two fragments.
ErrorHasCause ==
  LET seen == IF inFlight = <<>> THEN Len(frames) ELSE inFlight[1][1] IN
  ws.error =>
    \/ ws.status = "dropped"
    \/ ~Conforms(seen)
    \/ \E k \in 1..seen : frames[k].key = "zero" /\ frames[k].len > 0
    \/ \E k \in 1..seen : frames[k].op = "continuation" /\ ~frames[k].fin

\* A frame that breaks the order of fragments, or that is malformed, closes the
\* connection: a continuation of nothing, a message begun within another one's
\* first fragment, a reserved opcode, a fragmented control frame.
MalformedCloses ==
  ws.status = "open" /\ ~ws.error =>
    \A k \in 1..WhollyRead :
      /\ ~Refused(frames[k])
      /\ frames[k].op = "continuation" => Unfinished(k)
      /\ frames[k].op \in Data =>
           ~\E j \in 1..(k - 1) :
              /\ frames[j].op \in Data /\ ~frames[j].fin
              /\ \A i \in (j + 1)..(k - 1) : ~IsData(i)

\* Violated.  "It means codec error or we need to wait for more data." (in
\* OnData): bytes are given up only with an error, otherwise they wait.
WaitsForMoreData == ws.status = "dropped" => ws.error

\* Violated.  The assertion of Buffer::prepend, len <= prependableBytes().
PrependFits == ws.status # "terminated"
=============================================================================
