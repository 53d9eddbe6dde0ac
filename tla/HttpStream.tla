----------------------------- MODULE HttpStream -----------------------------
(***************************************************************************)
(* The receiving side of one HTTPHandler: its muduo Buffer, http_parser    *)
(* and HTTPCodec, fed with a stream of requests that TCP cuts into reads   *)
(* anywhere.  Each step of http_parser_execute takes one byte.  As what it *)
(* does with a byte does not depend on the bytes behind it, where a read   *)
(* ends is chosen when the parser comes to it.                             *)
(*                                                                         *)
(* A byte is a record of its class, which is what the parser tells apart,  *)
(* and of where it comes from, by which the properties know it again.      *)
(***************************************************************************)
EXTENDS Integers, Sequences, FiniteSets

CONSTANTS
  RequestSet,    \* the requests a client may send
  MaxRequests,   \* bound: requests on the connection
  CheapPrepend   \* Buffer::kCheapPrepend (8 in the code)

\* Headers, by what http_parser sees in them: "length" is Content-Length,
\* "chunked" Transfer-Encoding, "upgrade" Upgrade, "switch" Connection: upgrade,
\* "close" Connection: close; "empty" has no value, that of "late" begins and that
\* of "folded" goes on in a second line.
HeaderKinds ==
  {"general", "empty", "late", "folded", "length", "chunked", "upgrade", "switch", "close"}

\* blank: an empty line comes first; url: its length; version: HTTP/1.1, or none;
\* body: lengths of its chunks, one if it is not chunked; eol: "crlf" or "lf";
\* bad: the index of a byte that is spoiled, or 0.
IsRequest(r) ==
  /\ DOMAIN r = {"blank", "url", "version", "headers", "body", "eol", "bad"}
  /\ r.blank \in BOOLEAN /\ r.version \in BOOLEAN
  /\ r.url \in Nat \ {0}
  /\ r.headers \in Seq(HeaderKinds) /\ r.body \in Seq(Nat \ {0})
  /\ r.eol \in {"crlf", "lf"} /\ r.bad \in Nat

ASSUME HttpAssumption ==
  /\ \A r \in RequestSet : IsRequest(r)
  /\ MaxRequests \in Nat /\ CheapPrepend \in Nat

VARIABLES
  requests,   \* what the client sends
  inFlight,   \* the bytes not yet parsed
  reading,    \* in OnData
  ahead,      \* bytes of the read behind the next one to parse, or Unknown
  first,      \* the parser has parsed nothing in this round of OnData
  state,      \* http_parser's state
  header,     \* its header_state: the kind of the header
  flags,      \* its flags
  remaining,  \* its content_length, or Unknown
  mark,       \* which of its marks is set
  piece,      \* the bytes from there
  codec,      \* the HTTPCodec
  out,        \* requests handed to the HTTPServer
  upgraded,   \* a WebsocketHandler has taken the connection over
  status,     \* "open", "closing" (ForceClose was called), "terminated"
  cut         \* history: which URLs and bodies a read has cut

parser == <<state, header, flags, remaining>>
marks == <<mark, piece>>
handler == <<codec, out, upgraded, status>>
httpVars == <<requests, inFlight, reading, ahead, first, parser, marks, handler, cut>>

Unknown == -1

---------------------------------------------------------------------------
(* The bytes of a request.                                                 *)

Part(k, class, part, n) ==
  [i \in 1..n |-> [class |-> class, kind |-> "none", req |-> k, part |-> part, i |-> i]]
One(k, class, kind) == <<[class |-> class, kind |-> kind, req |-> k, part |-> 0, i |-> 1]>>

Eol(k, r, kind) ==
  IF r.eol = "crlf" THEN One(k, "cr", kind) \o One(k, "lf", "none") ELSE One(k, "lf", kind)

NameBytes(k, kind) ==
  [i \in 1..2 |-> [class |-> "name", kind |-> kind, req |-> k, part |-> 0, i |-> i]]

\* The value of a header, two bytes long.
ValueBytes(k, h, kind) ==
  LET v == Part(k, "value", h, 2) IN
  CASE kind = "empty" -> <<>>
    [] kind = "folded" -> SubSeq(v, 1, 1) \o One(k, "space", "none") \o SubSeq(v, 2, 2)
    [] OTHER -> v

HeaderBytes(k, r, h) ==
  LET v == ValueBytes(k, h, r.headers[h]) IN
  NameBytes(k, r.headers[h]) \o One(k, "colon", "none") \o
  CASE r.headers[h] = "empty" -> Eol(k, r, "none")
    [] r.headers[h] = "late" -> Eol(k, r, "none") \o One(k, "space", "none") \o v \o Eol(k, r, "none")
    [] r.headers[h] = "folded" ->
         SubSeq(v, 1, 1) \o Eol(k, r, "none") \o SubSeq(v, 2, 3) \o Eol(k, r, "none")
    [] OTHER -> One(k, "space", "none") \o v \o Eol(k, r, "none")

ChunkBytes(k, r, j) ==
  LET digit(n) == [class |-> "size", kind |-> "none", req |-> k, part |-> 0, i |-> n]
      size(n) == <<digit(0), digit(n)>>
  IN
  IF j > Len(r.body) THEN size(0) \o Eol(k, r, "none") \o Eol(k, r, "none")
  ELSE size(r.body[j]) \o Eol(k, r, "none") \o Part(k, "body", j, r.body[j]) \o Eol(k, r, "none")

\* s[1] \o ... \o s[n]
Joined(s, n) ==
  LET f[j \in 0..n] == IF j = 0 THEN <<>> ELSE f[j - 1] \o s[j] IN f[n]

HasHeader(r, kind) == \E h \in DOMAIN r.headers : r.headers[h] = kind

BodyBytes(k, r) ==
  IF HasHeader(r, "chunked")
  THEN Joined([j \in 1..(Len(r.body) + 1) |-> ChunkBytes(k, r, j)], Len(r.body) + 1)
  ELSE Joined([j \in 1..Len(r.body) |-> Part(k, "body", j, r.body[j])], Len(r.body))

\* What a client means to send ...
Unspoiled(k, r) ==
  (IF r.blank THEN Eol(k, r, "none") ELSE <<>>)
  \o Part(k, "method", 0, 2) \o One(k, "space", "none")
  \o Part(k, "url", 0, r.url)
  \o (IF r.version
      THEN One(k, "space", "url") \o Part(k, "version", 0, 2) \o Eol(k, r, "none")
      ELSE Eol(k, r, "url"))
  \o Joined([h \in DOMAIN r.headers |-> HeaderBytes(k, r, h)], Len(r.headers))
  \o Eol(k, r, "none")
  \o BodyBytes(k, r)

\* ... and what it sends.
Bytes(k, r) ==
  LET s == Unspoiled(k, r)
  IN  [i \in DOMAIN s |-> IF i = r.bad THEN [s[i] EXCEPT !.class = "bad"] ELSE s[i]]

\* A body is announced, by its length or as chunked; the lines between chunks end with
\* CR LF, whatever the others do, as the parser demands; what is spoiled is a byte of
\* the request.
ASSUME FramedAssumption ==
  \A r \in RequestSet :
    /\ r.body # <<>> => HasHeader(r, "chunked") \/ (HasHeader(r, "length") /\ Len(r.body) = 1)
    /\ HasHeader(r, "chunked") => r.eol = "crlf"
    /\ \A k \in 1..MaxRequests : r.bad <= Len(Unspoiled(k, r))

EmptyRequest == [url |-> <<>>, headers |-> {}, body |-> <<>>, upgrade |-> FALSE]

HttpInit ==
  /\ requests \in UNION {[1..n -> RequestSet] : n \in 1..MaxRequests}
  /\ inFlight = Joined([k \in DOMAIN requests |-> Bytes(k, requests[k])], Len(requests))
  /\ reading = FALSE /\ ahead = Unknown /\ first = TRUE
  /\ state = "s_start_req" /\ header = "general" /\ flags = {} /\ remaining = Unknown
  /\ mark = "none" /\ piece = <<>>
  /\ codec = [parseState |-> "kParseHeaderNothing", name |-> <<>>, value |-> <<>>,
              request |-> EmptyRequest]
  /\ out = <<>> /\ upgraded = FALSE /\ status = "open" /\ cut = {}

---------------------------------------------------------------------------
(* HTTPCodec and HTTPRequest.                                              *)

\* HTTPRequest::AddHeader, an insertion into a map: the first of a name stays.
AddHeader(request, name, value) ==
  IF \E x \in request.headers : x[1] = name THEN request
  ELSE [request EXCEPT !.headers = @ \cup {<<name, value>>}]

\* The characters of a header's name, by which names are compared.
Text(s) == [j \in DOMAIN s |-> <<s[j].kind, s[j].i>>]

OnMessageBegin(q) == [q EXCEPT !.parseState = "kParseHeaderBegin"]

\* SetUrl replaces what an earlier call has set.
OnUrl(q, s) == [q EXCEPT !.request.url = s]

\* A fault: a name that comes in pieces loses the first ones.
OnHeaderFieldReplaces(q, s) ==
  IF q.parseState = "kParseHeaderValue"
  THEN [q EXCEPT !.request = AddHeader(@, q.name, q.value), !.name = Text(s),
                 !.parseState = "kParseHeaderName"]
  ELSE [q EXCEPT !.name = Text(s), !.parseState = "kParseHeaderName"]

\* A name follows a value, which completes the header before it, or continues
\* cur_header_name_, which a new message does not clear.
OnHeaderField(q, s) ==
  CASE q.parseState = "kParseHeaderValue" ->
         [q EXCEPT !.request = AddHeader(@, q.name, q.value), !.name = Text(s),
                   !.parseState = "kParseHeaderName"]
    [] q.parseState \in {"kParseHeaderName", "kParseHeaderBegin"} ->
         [q EXCEPT !.name = @ \o Text(s), !.parseState = "kParseHeaderName"]

OnHeaderValue(q, s) ==
  CASE q.parseState = "kParseHeaderName" ->
         [q EXCEPT !.value = s, !.parseState = "kParseHeaderValue"]
    [] q.parseState = "kParseHeaderValue" -> [q EXCEPT !.value = @ \o s]
    [] OTHER -> [q EXCEPT !.parseState = "kParseHeaderValue"]

Upgrades(fs) == {"upgrade", "switch"} \subseteq fs

\* The last header is added, if it was of this message or not.
OnHeadersComplete(q, fs) ==
  LET r == AddHeader(q.request, q.name, q.value) IN
  [q EXCEPT !.request = [r EXCEPT !.upgrade = Upgrades(fs)]]

\* SetBody replaces what an earlier call has set.
OnBody(q, s) == [q EXCEPT !.request.body = s]

\* HTTPRequest::CleanUp leaves the body.
CleanUp(request) == [EmptyRequest EXCEPT !.body = request.body]

---------------------------------------------------------------------------
(* What the states of http_parser have in common.                          *)

\* The classes of bytes that a state takes; any other one is an error.
Accepts(s) ==
  CASE s = "s_dead" -> {"cr", "lf"}
    [] s = "s_start_req" -> {"cr", "lf", "method"}
    [] s = "s_req_method" -> {"method", "space"}
    [] s = "s_req_spaces_before_url" -> {"space", "url"}
    [] s = "s_req_url" -> {"url", "space", "cr", "lf"}
    [] s = "s_req_http_start" -> {"space", "version"}
    [] s = "s_req_first_http_minor" -> {"version"}
    [] s = "s_req_http_minor" -> {"version", "cr", "lf"}
    [] s \in {"s_req_line_almost_done", "s_header_almost_done", "s_headers_almost_done",
              "s_header_value_discard_ws_almost_done", "s_chunk_size_almost_done",
              "s_chunk_data_done"} -> {"lf"}
    [] s = "s_header_field_start" -> {"cr", "lf", "name"}
    [] s = "s_header_field" -> {"name", "colon"}
    [] s \in {"s_header_value_discard_ws", "s_header_value"} -> {"space", "value", "cr", "lf"}
    [] s \in {"s_header_value_lws", "s_header_value_discard_lws"} -> {"space", "name", "cr", "lf"}
    [] s \in {"s_body_identity", "s_chunk_data"} -> {"body"}
    [] s = "s_chunk_size_start" -> {"size"}
    [] s = "s_chunk_size" -> {"size", "cr"}
    [] s = "s_chunk_data_almost_done" -> {"cr"}

Byte == Head(inFlight)
Class == Byte.class

\* There is a byte for state s, and it takes it.
Takes(s) ==
  /\ status = "open" /\ reading
  /\ state = s
  /\ ahead # 0 /\ inFlight # <<>>
  /\ Class \in Accepts(s)

Advance ==
  /\ inFlight' = Tail(inFlight)
  /\ ahead' = IF ahead = Unknown THEN Unknown ELSE ahead - 1
  /\ first' = FALSE
  /\ UNCHANGED <<requests, reading, cut>>

Goto(s) == state' = s

\* MARK, and the bytes that follow it.
Marks(kind) == mark' = kind /\ piece' = IF mark = kind THEN Append(piece, Byte) ELSE <<Byte>>
NoMark == mark' = "none" /\ piece' = <<>>

\* CALLBACK_DATA
Called(q, kind, s) ==
  CASE kind = "url" -> OnUrl(q, s)
    [] kind = "header_field" -> OnHeaderField(q, s)
    [] kind = "header_value" -> OnHeaderValue(q, s)
    [] kind = "body" -> OnBody(q, s)
    [] kind = "none" -> q

CallBack == codec' = Called(codec, mark, piece) /\ NoMark

\* A fault: a request that closes the connection is not the last one.
AlwaysStarts(fs) == "s_start_req"

\* NEW_MESSAGE: http_should_keep_alive, for HTTP/1.1 and for no version.
NewMessage(fs) == IF fs \cap {"close", "0.9"} = {} THEN "s_start_req" ELSE "s_dead"

\* http_parser_execute returns before the end of its data: what is left of the
\* read, n bytes, is prepended to the emptied buffer for another round.
Return(n) ==
  /\ ahead' = n
  /\ first' = TRUE
  /\ status' = IF n > CheapPrepend THEN "terminated" ELSE status

\* on_message_complete.  With an upgrade the parser returns; the server takes it
\* or not.
Complete(q, fs) ==
  /\ out' = Append(out, q.request)
  /\ codec' = [q EXCEPT !.request = CleanUp(@)]
  /\ Goto(NewMessage(fs))
  /\ IF Upgrades(fs)
     THEN /\ upgraded' \in {upgraded, TRUE}
          /\ inFlight' = Tail(inFlight)
          /\ \E n \in (IF ahead = Unknown THEN 0..(Len(inFlight) - 1) ELSE {ahead - 1}) : Return(n)
          /\ UNCHANGED <<requests, reading, cut>>
     ELSE Advance /\ UNCHANGED <<upgraded, status>>

\* A fault: Content-Length: 0 is followed by a body.
UnlessLength == remaining = Unknown

NoBody == remaining \in {Unknown, 0}

\* s_headers_almost_done and s_headers_done, with the same byte.
FinishHeaders(q, fs) ==
  LET r == OnHeadersComplete(q, fs) IN
  CASE "trailing" \in fs -> Complete(q, fs)
    [] "trailing" \notin fs /\ "chunked" \notin fs /\ NoBody -> Complete(r, fs)
    [] OTHER ->
         /\ Goto(IF "chunked" \in fs THEN "s_chunk_size_start" ELSE "s_body_identity")
         /\ codec' = r
         /\ Advance
         /\ UNCHANGED <<out, upgraded, status>>

---------------------------------------------------------------------------
(* The request line.                                                       *)

BlankLine ==
  /\ Takes("s_start_req") \/ Takes("s_dead")
  /\ Class \in {"cr", "lf"}
  /\ Advance
  /\ UNCHANGED <<parser, marks, handler>>

StartReq ==
  /\ Takes("s_start_req")
  /\ Class = "method"
  /\ Goto("s_req_method")
  /\ flags' = {} /\ remaining' = Unknown
  /\ codec' = OnMessageBegin(codec)
  /\ Advance
  /\ UNCHANGED <<header, marks, out, upgraded, status>>

ReqMethod ==
  /\ Takes("s_req_method")
  /\ Goto(IF Class = "space" THEN "s_req_spaces_before_url" ELSE state)
  /\ Advance
  /\ UNCHANGED <<header, flags, remaining, marks, handler>>

SpacesBeforeUrl ==
  /\ Takes("s_req_spaces_before_url")
  /\ IF Class = "space"
     THEN UNCHANGED <<state, marks>>
     ELSE Goto("s_req_url") /\ Marks("url")
  /\ Advance
  /\ UNCHANGED <<header, flags, remaining, handler>>

\* s_req_path to s_req_fragment are one state here.
Url ==
  /\ Takes("s_req_url")
  /\ IF Class = "url"
     THEN Marks("url") /\ UNCHANGED <<state, flags, codec>>
     ELSE /\ CallBack
          /\ Goto(CASE Class = "space" -> "s_req_http_start"
                    [] Class = "cr" -> "s_req_line_almost_done"
                    [] Class = "lf" -> "s_header_field_start")
          /\ flags' = IF Class = "space" THEN flags ELSE flags \cup {"0.9"}
  /\ Advance
  /\ UNCHANGED <<header, remaining, out, upgraded, status>>

Version ==
  /\ \/ /\ Takes("s_req_http_start")
        /\ Goto(IF Class = "space" THEN state ELSE "s_req_first_http_minor")
     \/ /\ Takes("s_req_first_http_minor")
        /\ Goto("s_req_http_minor")
     \/ /\ Takes("s_req_http_minor")
        /\ Goto(CASE Class = "version" -> state
                  [] Class = "cr" -> "s_req_line_almost_done"
                  [] Class = "lf" -> "s_header_field_start")
  /\ Advance
  /\ UNCHANGED <<header, flags, remaining, marks, handler>>

ReqLineAlmostDone ==
  /\ Takes("s_req_line_almost_done")
  /\ Goto("s_header_field_start")
  /\ Advance
  /\ UNCHANGED <<header, flags, remaining, marks, handler>>

---------------------------------------------------------------------------
(* Headers.                                                                *)

\* A header is over when the next line does not continue it.
AfterHeader ==
  \/ Takes("s_header_field_start")
  \/ Takes("s_header_value_lws") /\ Class # "space"
  \/ Takes("s_header_value_discard_lws") /\ Class # "space"

FlagsThen ==
  IF state = "s_header_field_start" THEN flags
  ELSE flags \cup ({header} \cap {"chunked", "switch", "close"})

\* An empty value has not been reported yet.
CodecThen ==
  IF state = "s_header_value_discard_lws" THEN OnHeaderValue(codec, <<>>) ELSE codec

HeaderFieldStart ==
  /\ AfterHeader
  /\ Class = "name"
  /\ flags' = FlagsThen /\ codec' = CodecThen
  /\ Goto("s_header_field") /\ Marks("header_field")
  /\ header' = Byte.kind
  /\ Advance
  /\ UNCHANGED <<remaining, out, upgraded, status>>

EndOfHeaders ==
  /\ AfterHeader
  /\ Class \in {"cr", "lf"}
  /\ flags' = FlagsThen
  /\ IF Class = "cr"
     THEN /\ Goto("s_headers_almost_done")
          /\ codec' = CodecThen
          /\ Advance
          /\ UNCHANGED <<out, upgraded, status>>
     ELSE FinishHeaders(CodecThen, FlagsThen)
  /\ UNCHANGED <<header, remaining, marks>>

HeadersAlmostDone ==
  /\ Takes("s_headers_almost_done")
  /\ FinishHeaders(codec, flags)
  /\ UNCHANGED <<header, flags, remaining, marks>>

HeaderField ==
  /\ Takes("s_header_field")
  /\ IF Class = "name"
     THEN Marks("header_field") /\ UNCHANGED <<state, codec>>
     ELSE CallBack /\ Goto("s_header_value_discard_ws")
  /\ Advance
  /\ UNCHANGED <<header, flags, remaining, out, upgraded, status>>

\* Before the value, which may be empty or begin on the next line.
DiscardWs ==
  /\ \/ /\ Takes("s_header_value_discard_ws")
        /\ Class # "value"
        /\ Goto(CASE Class = "space" -> state
                  [] Class = "cr" -> "s_header_value_discard_ws_almost_done"
                  [] Class = "lf" -> "s_header_value_discard_lws")
     \/ /\ Takes("s_header_value_discard_ws_almost_done")
        /\ Goto("s_header_value_discard_lws")
     \/ /\ Takes("s_header_value_discard_lws")
        /\ Class = "space"
        /\ Goto("s_header_value_discard_ws")
  /\ Advance
  /\ UNCHANGED <<header, flags, remaining, marks, handler>>

\* What the digits of Content-Length say.
ContentLength(k) == IF requests[k].body = <<>> THEN 0 ELSE requests[k].body[1]

\* s_header_value_start.  The value of a line that continues the last one
\* begins with the space.
HeaderValueStart ==
  /\ \/ Takes("s_header_value_discard_ws") /\ Class = "value"
     \/ Takes("s_header_value_lws") /\ Class = "space"
  /\ Goto("s_header_value") /\ Marks("header_value")
  /\ flags' = flags \cup ({header} \cap {"upgrade"})
  /\ remaining' = IF header = "length" THEN ContentLength(Byte.req) ELSE remaining
  /\ Advance
  /\ UNCHANGED <<header, handler>>

HeaderValue ==
  /\ Takes("s_header_value")
  /\ IF Class \in {"value", "space"}
     THEN Marks("header_value") /\ UNCHANGED <<state, codec>>
     ELSE /\ CallBack
          /\ Goto(IF Class = "cr" THEN "s_header_almost_done" ELSE "s_header_value_lws")
  /\ Advance
  /\ UNCHANGED <<header, flags, remaining, out, upgraded, status>>

HeaderAlmostDone ==
  /\ Takes("s_header_almost_done")
  /\ Goto("s_header_value_lws")
  /\ Advance
  /\ UNCHANGED <<header, flags, remaining, marks, handler>>

---------------------------------------------------------------------------
(* The body.                                                               *)

\* s_body_identity and, with its last byte, s_message_done.
BodyIdentity ==
  /\ Takes("s_body_identity")
  /\ remaining' = remaining - 1
  /\ IF remaining > 1
     THEN /\ Marks("body") /\ Advance
          /\ UNCHANGED <<state, handler>>
     ELSE /\ Complete(OnBody(codec, Append(piece, Byte)), flags)
          /\ NoMark
  /\ UNCHANGED <<header, flags>>

ChunkSize ==
  /\ \/ /\ Takes("s_chunk_size_start")
        /\ Goto("s_chunk_size")
        /\ remaining' = Byte.i
     \/ /\ Takes("s_chunk_size")
        /\ Class = "size"
        /\ remaining' = 16 * remaining + Byte.i
        /\ UNCHANGED state
     \/ /\ Takes("s_chunk_size")
        /\ Class = "cr"
        /\ Goto("s_chunk_size_almost_done")
        /\ UNCHANGED remaining
  /\ Advance
  /\ UNCHANGED <<header, flags, marks, handler>>

\* After the last chunk come a trailer and the end of the message.
ChunkSizeAlmostDone ==
  /\ Takes("s_chunk_size_almost_done")
  /\ IF remaining = 0
     THEN Goto("s_header_field_start") /\ flags' = flags \cup {"trailing"}
     ELSE Goto("s_chunk_data") /\ UNCHANGED flags
  /\ Advance
  /\ UNCHANGED <<header, remaining, marks, handler>>

ChunkData ==
  /\ Takes("s_chunk_data")
  /\ Marks("body")
  /\ remaining' = remaining - 1
  /\ Goto(IF remaining = 1 THEN "s_chunk_data_almost_done" ELSE state)
  /\ Advance
  /\ UNCHANGED <<header, flags, handler>>

ChunkDataDone ==
  /\ \/ /\ Takes("s_chunk_data_almost_done")
        /\ Goto("s_chunk_data_done") /\ CallBack
     \/ /\ Takes("s_chunk_data_done")
        /\ Goto("s_chunk_size_start")
        /\ UNCHANGED <<codec, marks>>
  /\ Advance
  /\ UNCHANGED <<header, flags, remaining, out, upgraded, status>>

---------------------------------------------------------------------------
(* HTTPHandler::OnData.                                                    *)

\* A read begins, and with it http_parser_execute: what it is in the middle of
\* begins with its first byte.
Read ==
  /\ status = "open" /\ ~reading /\ ~upgraded /\ inFlight # <<>>
  /\ reading' = TRUE /\ ahead' = Unknown /\ first' = TRUE
  /\ mark' = CASE state = "s_req_url" -> "url"
               [] state = "s_header_field" -> "header_field"
               [] state = "s_header_value" -> "header_value"
               [] OTHER -> "none"
  /\ piece' = <<>>
  /\ cut' = cut \cup
       CASE (Class = "url" /\ Byte.i > 1) \/ Byte.kind = "url" -> {<<Byte.req, "url">>}
         [] Class = "body" /\ Byte.i > 1 -> {<<Byte.req, "body">>}
         [] OTHER -> {}
  /\ UNCHANGED <<requests, inFlight, parser, handler>>

\* The read ends: the callbacks for what the parser is in the middle of are
\* made, and all of it has been parsed.
EndOfRead ==
  /\ status = "open" /\ reading
  /\ ahead = 0 \/ (ahead = Unknown /\ ~first)
  /\ CallBack
  /\ reading' = FALSE /\ ahead' = Unknown /\ first' = TRUE
  /\ UNCHANGED <<requests, inFlight, parser, out, upgraded, status, cut>>

\* An error in a byte closes the connection.  The bytes from there on are put
\* back for another round, where the parser returns 0, which drops them, unless
\* it does so at once.
Fail ==
  /\ status = "open" /\ reading
  /\ ahead # 0 /\ inFlight # <<>>
  /\ Class \notin Accepts(state)
  /\ \E n \in (IF ahead = Unknown THEN 1..Len(inFlight) ELSE {ahead}) :
       status' = IF ~first /\ n > CheapPrepend THEN "terminated" ELSE "closing"
  /\ UNCHANGED <<requests, inFlight, reading, ahead, first, parser, marks, codec, out, upgraded,
                 cut>>

HttpNext ==
  \/ BlankLine \/ StartReq \/ ReqMethod \/ SpacesBeforeUrl \/ Url \/ Version
  \/ ReqLineAlmostDone
  \/ HeaderFieldStart \/ HeaderField \/ DiscardWs \/ HeaderValueStart \/ HeaderValue
  \/ HeaderAlmostDone \/ EndOfHeaders \/ HeadersAlmostDone
  \/ BodyIdentity \/ ChunkSize \/ ChunkSizeAlmostDone \/ ChunkData \/ ChunkDataDone
  \/ Read \/ EndOfRead \/ Fail

HttpSpec == HttpInit /\ [][HttpNext]_httpVars

---------------------------------------------------------------------------
(* What the requests mean, whatever the reads were.                        *)

Wholly == IF inFlight = <<>> THEN Len(requests) ELSE Byte.req - 1

UrlOf(k) == Part(k, "url", 0, requests[k].url)
BodyOf(k) == Joined([j \in DOMAIN requests[k].body |-> Part(k, "body", j, requests[k].body[j])],
                    Len(requests[k].body))
HeaderOf(k, h) ==
  LET kind == requests[k].headers[h] IN <<Text(NameBytes(k, kind)), ValueBytes(k, h, kind)>>

Closes(k) == ~requests[k].version \/ HasHeader(requests[k], "close")
AsksUpgrade(k) == HasHeader(requests[k], "upgrade") /\ HasHeader(requests[k], "switch")

\* A byte that is not allowed where it is, or comes after the last request.
Refused(b) ==
  \/ b.class = "bad"
  \/ b.req > 1 /\ Closes(b.req - 1) /\ b.class \notin {"cr", "lf"}

---------------------------------------------------------------------------
(* Properties.                                                             *)

Within(m) ==
  CASE m = "url" -> {"s_req_url"}
    [] m = "header_field" -> {"s_header_field"}
    [] m = "header_value" -> {"s_header_value"}
    [] m = "body" -> {"s_body_identity", "s_chunk_data", "s_chunk_data_almost_done"}

\* A mark is only set while a read is being parsed that is in the middle of what
\* it marks.
MarksInPlace ==
  /\ mark \in {"none", "url", "header_field", "header_value", "body"}
  /\ mark # "none" => reading /\ state \in Within(mark)
  /\ mark = "none" => piece = <<>>

\* The parser is in a body only while bytes of it are missing, as the assertions
\* at http_parser.c:1904 and 2038 say.
HttpTypeOK ==
  /\ \A k \in DOMAIN requests : requests[k] \in RequestSet
  /\ \A j \in DOMAIN inFlight : inFlight[j].req \in DOMAIN requests
  /\ reading \in BOOLEAN /\ first \in BOOLEAN
  /\ ahead \in Nat \cup {Unknown} /\ (ahead > CheapPrepend => status = "terminated")
  /\ MarksInPlace
  /\ remaining \in Nat \cup {Unknown}
  /\ state \in {"s_body_identity", "s_chunk_data"} => remaining > 0
  /\ state = "s_chunk_data_almost_done" => remaining = 0
  /\ header \in HeaderKinds
  /\ flags \subseteq {"upgrade", "switch", "close", "chunked", "trailing", "0.9"}
  /\ upgraded \in BOOLEAN /\ status \in {"open", "closing", "terminated"}

\* What was marked is never replaced by another mark, which would lose bytes: a
\* callback takes it first (the assertion at http_parser.c:2088 that at most one
\* mark is set).
OneMarkAtATime == [][mark' # mark => mark = "none" \/ mark' = "none"]_httpVars

\* However TCP cuts and joins requests, each is handed over once, when its last
\* byte has been read, and as it was sent, but for what the code gets wrong: a
\* URL or body that a read or a chunk has cut keeps its last piece only
\* (http_codec.cc:65), the first header of a later request has a wrong name
\* (http_codec.cc:80), and one without body or headers has those of an earlier
\* one (http_request.cc:86).
RequestsArrive ==
  /\ Len(out) = Wholly
  /\ \A k \in DOMAIN out :
       LET r == requests[k]
           values == {x[2] : x \in out[k].headers}
           valuesOf(j) == {HeaderOf(j, h)[2] : h \in DOMAIN requests[j].headers}
       IN  /\ <<k, "url">> \notin cut => out[k].url = UrlOf(k)
           /\ Len(r.body) = 1 /\ <<k, "body">> \notin cut => out[k].body = BodyOf(k)
           /\ r.body = <<>> => out[k].body \in {<<>>} \cup {out[j].body : j \in 1..(k - 1)}
           /\ \A h \in DOMAIN r.headers :
                \/ h = 1 /\ k > 1
                \/ \E j \in 1..(h - 1) : r.headers[j] = r.headers[h]
                \/ HeaderOf(k, h) \in out[k].headers
           /\ IF r.headers # <<>>
              THEN values \subseteq valuesOf(k)
              ELSE values \subseteq {<<>>} \cup UNION {valuesOf(j) : j \in 1..(k - 1)}
           /\ out[k].upgrade = AsksUpgrade(k)

\* The connection is closed, or the process ends by the assertion of
\* Buffer::prepend, for a byte that is not allowed and for no other; only after an
\* upgrade may that assertion also fail for what follows in the same read.
ClosedForCause ==
  /\ status = "closing" => Refused(Byte)
  /\ status = "terminated" =>
       \/ Refused(Byte)
       \/ Byte.req > 1 /\ AsksUpgrade(Byte.req - 1) /\ Len(out) = Byte.req - 1
  /\ \A k \in DOMAIN out : requests[k].bad = 0 /\ (k > 1 => ~Closes(k - 1))
=============================================================================
