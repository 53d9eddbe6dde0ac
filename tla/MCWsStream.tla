----------------------------- MODULE MCWsStream -----------------------------
(* WsStream with the frames a client sends. *)
EXTENDS WsStream

MCFrames ==
       [op : {"text", "continuation"}, fin : BOOLEAN, key : {"random"}, len : {1}]
  \cup [op : {"text"}, fin : {TRUE}, key : {"random"}, len : {0, 3}]
  \cup [op : {"text"}, fin : {TRUE}, key : {"none", "zero"}, len : {1}]
  \cup [op : {"binary"}, fin : {FALSE}, key : {"random"}, len : {1}]
  \cup [op : {"ping"}, fin : BOOLEAN, key : {"random"}, len : {0}]
  \cup [op : {"close"}, fin : {TRUE}, key : {"random"}, len : {1}]
  \cup [op : {"reserved"}, fin : {TRUE}, key : {"random"}, len : {1}]
=============================================================================
