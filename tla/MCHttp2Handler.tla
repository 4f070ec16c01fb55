---------------------------- MODULE MCHttp2Handler ----------------------------
(* Two streams, bodies of two bytes sent back one byte a frame.            *)
EXTENDS Http2Handler

Streams == Permutations(StreamIds)

===============================================================================
