---------------------------- MODULE MCHttpStream ----------------------------
(* HttpStream with the requests a client sends. *)
EXTENDS HttpStream

Plain == [blank |-> FALSE, url |-> 2, version |-> TRUE, headers |-> <<"general">>,
          body |-> <<>>, eol |-> "crlf", bad |-> 0]

MCRequests ==
  {Plain,
   [Plain EXCEPT !.blank = TRUE, !.headers = <<>>],
   [Plain EXCEPT !.headers = <<"folded", "empty", "late", "general", "general">>],
   [Plain EXCEPT !.headers = <<"general", "length">>, !.body = <<2>>],
   [Plain EXCEPT !.headers = <<"length">>],
   [Plain EXCEPT !.headers = <<"chunked">>, !.body = <<2, 1>>],
   [Plain EXCEPT !.headers = <<"upgrade", "switch">>],
   [Plain EXCEPT !.headers = <<"upgrade", "switch", "length">>, !.body = <<1>>],
   [Plain EXCEPT !.headers = <<"empty", "close">>],
   [Plain EXCEPT !.version = FALSE, !.headers = <<>>],
   [Plain EXCEPT !.eol = "lf", !.headers = <<"empty", "folded">>],
   [Plain EXCEPT !.eol = "lf", !.version = FALSE]}
  \* a spoiled method, URL, version, header name, Content-Length and chunk size
  \cup {[Plain EXCEPT !.bad = i] : i \in {1, 5, 7, 11}}
  \cup {[Plain EXCEPT !.headers = <<"length">>, !.body = <<2>>, !.bad = 15],
        [Plain EXCEPT !.headers = <<"chunked">>, !.body = <<1>>, !.bad = 21]}
=============================================================================
