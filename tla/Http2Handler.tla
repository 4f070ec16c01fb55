----------------------------- MODULE Http2Handler -----------------------------
(***************************************************************************)
(* HTTP/2 on one connection (protocol/source/protocol_handler.cpp,         *)
(* Http2Handler; http2_stream.cpp): on_read() appends what TLS decrypted   *)
(* to plaintext_buffer_ and handles one complete frame after the other; a  *)
(* request is answered, on its stream, by the handler of the frame that    *)
(* completes it.                                                           *)
(*                                                                         *)
(* A frame is the unit of input, since read_frame() leaves an incomplete   *)
(* one where it is.  The client interleaves its streams as RFC 9113 lets   *)
(* it, and starts with frames: the connection preface is not modelled.     *)
(* This is the build with OpenSSL.  settings_, last_stream_id_ and         *)
(* recv_window are written and never read, and are left out; so are        *)
(* send_window_update_frame() and send_rst_stream_frame(), which nothing   *)
(* calls, and the CONTINUATION frames of a response, whose two headers     *)
(* always fit one frame.                                                   *)
(***************************************************************************)
EXTENDS Naturals, Sequences, SequencesExt

CONSTANTS StreamIds,      \* streams a client may open
          MaxFrameSize,   \* local_settings_.max_frame_size
          InitialWindow,  \* HTTP2_DEFAULT_INITIAL_WINDOW_SIZE
          MaxWindow,      \* MAX_WINDOW
          Increments,     \* values of WINDOW_UPDATE frames
          SplitHeads,     \* TRUE: END_STREAM may come on a HEADERS frame
                          \* whose header block a CONTINUATION ends
          MaxAhead,       \* bound: frames on_read() is behind the client
          MaxBody,        \* bound: bytes of a request's body
          MaxExtra,       \* bound: frames that are no part of a good request
          MaxFails        \* bound: tls_handler_->write() calls that fail

ASSUME Http2Assumption ==
  /\ 0 \notin StreamIds
  /\ MaxFrameSize \in Nat \ {0}
  /\ InitialWindow \in Nat /\ MaxWindow \in Nat /\ InitialWindow <= MaxWindow
  /\ Increments \subseteq 0 .. MaxWindow
  /\ SplitHeads \in BOOLEAN
  /\ MaxAhead \in Nat /\ MaxBody \in Nat /\ MaxExtra \in Nat /\ MaxFails \in Nat

VARIABLES
  client,             \* history: what the client has sent on each stream
  extra,              \* history: frames it has sent besides
  wire,               \* frames TLS has and on_read() has not read
  tls,                \* "handshake", "open" or "closed"
  pc,                 \* where on_read() is
  plaintext,          \* plaintext_buffer_
  streams,            \* streams_, id |-> Http2Stream
  settings_ack_sent,
  settings_ack_received,
  replying,           \* the stream handle_complete_request() works on, 0 if none
  offset,             \* send_data_frame()
  out,                \* frames written to TLS, stream |-> sequence
  fails

clientVars == <<client, extra>>
settingsVars == <<settings_ack_sent, settings_ack_received>>
replyVars == <<replying, offset>>
vars == <<clientVars, wire, tls, pc, plaintext, streams, settingsVars, replyVars, out, fails>>

StreamStates == {"IDLE", "OPEN", "HALF_CLOSED_REMOTE", "CLOSED"}

(* A byte of a body knows its stream and its place there.                  *)
OK == <<0, 0>>
Bytes == StreamIds \X Nat \cup {OK}

Frame(type, s, flags, data, val) ==
  [type |-> type, stream |-> s, flags |-> flags, data |-> data, val |-> val]

NoStreams == [s \in {} |-> 0]

(* init(): SETTINGS is handed to TLS before the handshake, which refuses   *)
(* it, and nobody looks at the result.                                     *)
Init ==
  /\ client = [s \in StreamIds |-> [phase |-> "idle", ended |-> FALSE, body |-> 0, good |-> TRUE]]
  /\ extra = 0
  /\ wire = <<>> /\ tls = "handshake" /\ pc = "idle" /\ plaintext = <<>>
  /\ streams = NoStreams
  /\ settings_ack_sent = FALSE /\ settings_ack_received = FALSE
  /\ replying = 0 /\ offset = 0
  /\ out = [s \in StreamIds \cup {0} |-> <<>>] /\ fails = 0

-------------------------------------------------------------------------------
(* The client: header blocks are not interrupted, nothing follows the end  *)
(* of a stream or its reset.  Header blocks that do not decode and DATA on *)
(* an idle stream are all it does wrong.                                   *)
BlockOpen == \E s \in StreamIds : client[s].phase = "head"

Extra == extra < MaxExtra /\ extra' = extra + 1

(* A frame sent while on_read() is at work waits for the next call, as it   *)
(* would if it were sent after it.                                         *)
Transmit(f) ==
  /\ tls = "open" /\ pc = "idle"
  /\ Len(wire) < MaxAhead
  /\ wire' = Append(wire, f)
  /\ UNCHANGED <<tls, pc, plaintext, streams, settingsVars, replyVars, out, fails>>

ClientHeaders(s, flags, decodes) ==
  /\ ~BlockOpen /\ client[s].phase = "idle"
  /\ flags = {"END_STREAM"} => SplitHeads
  /\ client' = [client EXCEPT ![s] =
       [@ EXCEPT !.phase = IF "END_HEADERS" \notin flags THEN "head"
                           ELSE IF "END_STREAM" \in flags THEN "done" ELSE "body",
                 !.ended = "END_STREAM" \in flags,
                 !.good = decodes]]
  /\ IF decodes THEN UNCHANGED extra ELSE Extra
  /\ Transmit(Frame("HEADERS", s, flags, <<>>, IF decodes THEN 1 ELSE 0))

ClientContinuation(s, decodes) ==
  /\ client[s].phase = "head"
  /\ client' = [client EXCEPT ![s] =
       [@ EXCEPT !.phase = IF client[s].ended THEN "done" ELSE "body",
                 !.good = client[s].good /\ decodes]]
  /\ IF decodes THEN UNCHANGED extra ELSE Extra
  /\ Transmit(Frame("CONTINUATION", s, {"END_HEADERS"}, <<>>, IF decodes THEN 1 ELSE 0))

ClientData(s, n, flags) ==
  /\ ~BlockOpen /\ client[s].phase = "body"
  /\ client[s].body + n <= MaxBody
  /\ client' = [client EXCEPT ![s] =
       [@ EXCEPT !.phase = IF "END_STREAM" \in flags THEN "done" ELSE "body",
                 !.ended = "END_STREAM" \in flags,
                 !.body = client[s].body + n]]
  /\ Transmit(Frame("DATA", s, flags, [j \in 1 .. n |-> <<s, client[s].body + j>>], 0))
  /\ UNCHANGED extra

ClientReset(s) ==
  /\ ~BlockOpen /\ client[s].phase \in {"body", "done"}
  /\ client' = [client EXCEPT ![s].phase = "reset"]
  /\ Extra
  /\ Transmit(Frame("RST_STREAM", s, {}, <<>>, 0))

(* DATA on a stream that was never opened.                                 *)
ClientStray(s) ==
  /\ ~BlockOpen /\ client[s].phase = "idle"
  /\ Extra
  /\ Transmit(Frame("DATA", s, {"END_STREAM"}, <<>>, 0))
  /\ UNCHANGED client

ClientOther(f) ==
  /\ ~BlockOpen
  /\ Extra
  /\ Transmit(f)
  /\ UNCHANGED client

OtherFrames ==
  {Frame(t, 0, {}, <<>>, 0) : t \in {"PING", "GOAWAY"}}
  \cup {Frame("SETTINGS", 0, {}, <<>>, n) : n \in 0 .. 1}
  \cup {Frame("WINDOW_UPDATE", s, {}, <<>>, n) : s \in StreamIds \cup {0}, n \in Increments}

(* continue_handshake() has succeeded.                                     *)
Handshake ==
  /\ tls = "handshake" /\ pc = "idle"
  /\ tls' = "open"
  /\ UNCHANGED <<clientVars, wire, pc, plaintext, streams, settingsVars, replyVars, out, fails>>

-------------------------------------------------------------------------------
(* write_frame(): header and payload in two writes, either of which may    *)
(* fail.                                                                   *)
WriteFrame(f, payload, whole) ==
  out' = [out EXCEPT ![f.stream] =
            Append(@, [type |-> f.type, flags |-> f.flags, data |-> payload, whole |-> whole])]

Written(f) == WriteFrame(f, f.data, TRUE) /\ UNCHANGED fails

WriteFails(f) ==
  /\ fails < MaxFails /\ fails' = fails + 1
  /\ UNCHANGED out \/ (f.data # <<>> /\ WriteFrame(f, <<>>, FALSE))

(* on_read(): what TLS has goes to plaintext_buffer_.                      *)
OnRead ==
  /\ pc = "idle" /\ tls = "open" /\ wire # <<>>
  /\ plaintext' = plaintext \o wire
  /\ wire' = <<>>
  /\ pc' = "loop"
  /\ UNCHANGED <<clientVars, tls, streams, settingsVars, replyVars, out, fails>>

(* No complete frame is left.                                              *)
NeedMore ==
  /\ pc = "loop" /\ plaintext = <<>>
  /\ pc' = "idle"
  /\ UNCHANGED <<clientVars, wire, tls, plaintext, streams, settingsVars, replyVars, out, fails>>

(* read_frame(): the frame is skipped whatever its handler returns, and an *)
(* error ends on_read() with the rest still buffered.                      *)
Reads(type) ==
  /\ pc = "loop" /\ plaintext # <<>>
  /\ Head(plaintext).type = type
  /\ plaintext' = Tail(plaintext)
  /\ UNCHANGED <<clientVars, wire, tls>>

Done == pc' = "loop" /\ UNCHANGED replyVars
Fail == pc' = "idle" /\ UNCHANGED replyVars

(* handle_complete_request() begins.                                       *)
CompleteRequest(s) ==
  /\ pc' = "send headers"
  /\ replying' = s /\ offset' = 0

(* Http2Stream::init().                                                    *)
NewStream == [state |-> "IDLE", body |-> <<>>, send_window |-> InitialWindow]

(* streams_[s] = st.                                                       *)
SetStream(s, st) ==
  streams' = [t \in DOMAIN streams \cup {s} |-> IF t = s THEN st ELSE streams[t]]

HandleSettings ==
  /\ Reads("SETTINGS")
  /\ LET ack == Frame("SETTINGS", 0, {"ACK"}, <<>>, 0) IN
     CASE Head(plaintext).val = 0 ->
            /\ settings_ack_received' = TRUE
            /\ Done
            /\ UNCHANGED <<settings_ack_sent, out, fails>>
       [] Head(plaintext).val # 0 /\ settings_ack_sent ->
            Done /\ UNCHANGED <<settingsVars, out, fails>>
       [] OTHER ->
            /\ settings_ack_sent' = TRUE
            /\ (Written(ack) /\ Done) \/ (WriteFails(ack) /\ Fail)
            /\ UNCHANGED settings_ack_received
  /\ UNCHANGED streams

(* A header block that does not decode leaves its stream OPEN.             *)
HandleHeaders ==
  /\ Reads("HEADERS")
  /\ LET f == Head(plaintext)
         s == f.stream
         st == IF s \in DOMAIN streams THEN streams[s] ELSE NewStream
         opened == [st EXCEPT !.state = IF @ = "IDLE" THEN "OPEN" ELSE @]
     IN  CASE f.val = 0 -> SetStream(s, opened) /\ Fail
           [] f.val # 0 /\ f.flags = {"END_HEADERS", "END_STREAM"} ->
                /\ SetStream(s, [opened EXCEPT !.state = "HALF_CLOSED_REMOTE"])
                /\ CompleteRequest(s)
           [] OTHER -> SetStream(s, opened) /\ Done
  /\ UNCHANGED <<settingsVars, out, fails>>

(* An empty DATA frame does not end its stream.                            *)
EndsWithData(f) == "END_STREAM" \in f.flags /\ f.data # <<>>

EndsStream(f) == "END_STREAM" \in f.flags

HandleData ==
  /\ Reads("DATA")
  /\ LET f == Head(plaintext)
         s == f.stream
     IN  IF s \notin DOMAIN streams
           THEN Fail /\ UNCHANGED streams
           ELSE LET st == [streams[s] EXCEPT !.body = @ \o f.data] IN
                IF EndsStream(f)
                  THEN /\ SetStream(s, [st EXCEPT !.state = "HALF_CLOSED_REMOTE"])
                       /\ CompleteRequest(s)
                  ELSE SetStream(s, st) /\ Done
  /\ UNCHANGED <<settingsVars, out, fails>>

(* The end of a header block taken for the end of the request.             *)
EndOfBlockCompletes(f) == "END_HEADERS" \in f.flags

ContinuationCompletes(f) ==
  /\ "END_HEADERS" \in f.flags
  /\ streams[f.stream].state = "HALF_CLOSED_REMOTE"

HandleContinuation ==
  /\ Reads("CONTINUATION")
  /\ LET f == Head(plaintext) IN
     IF f.stream \notin DOMAIN streams \/ f.val = 0
       THEN Fail
       ELSE IF ContinuationCompletes(f) THEN CompleteRequest(f.stream) ELSE Done
  /\ UNCHANGED <<streams, settingsVars, out, fails>>

AddToWindow(window, incr) ==
  IF window > MaxWindow - incr THEN MaxWindow ELSE window + incr

(* Stream 0 stands for every stream there is.                              *)
HandleWindowUpdate ==
  /\ Reads("WINDOW_UPDATE")
  /\ LET f == Head(plaintext) IN
     IF f.val = 0
       THEN Fail /\ UNCHANGED streams
       ELSE /\ streams' = [s \in DOMAIN streams |->
                 IF f.stream \in {0, s}
                   THEN [streams[s] EXCEPT !.send_window = AddToWindow(@, f.val)]
                   ELSE streams[s]]
            /\ Done
  /\ UNCHANGED <<settingsVars, out, fails>>

HandleRstStream ==
  /\ Reads("RST_STREAM")
  /\ LET s == Head(plaintext).stream IN
     streams' = [t \in DOMAIN streams |->
                   IF t = s THEN [streams[t] EXCEPT !.state = "CLOSED"] ELSE streams[t]]
  /\ Done
  /\ UNCHANGED <<settingsVars, out, fails>>

(* The result of the write is dropped.                                     *)
HandlePing ==
  /\ Reads("PING")
  /\ LET ack == Frame("PING", 0, {"ACK"}, <<>>, 0) IN Written(ack) \/ WriteFails(ack)
  /\ Done
  /\ UNCHANGED <<streams, settingsVars>>

HandleGoaway ==
  /\ Reads("GOAWAY")
  /\ Done
  /\ UNCHANGED <<streams, settingsVars, out, fails>>

-------------------------------------------------------------------------------
(* handle_complete_request(): HEADERS, and DATA whatever became of them.   *)
SendHeaders ==
  /\ pc = "send headers"
  /\ LET f == Frame("HEADERS", replying, {"END_HEADERS"}, <<>>, 1) IN
     Written(f) \/ WriteFails(f)
  /\ pc' = "send data"
  /\ UNCHANGED <<clientVars, wire, tls, plaintext, streams, settingsVars, replyVars>>

(* The body is echoed; a request without one is answered OK.               *)
ReplyBody(s) == IF streams[s].body = <<>> THEN <<OK>> ELSE streams[s].body

(* Off by one: the flag is set one byte early.                             *)
LastChunkEarly(to, len) == to + 1 >= len

LastChunk(to, len) == to = len

(* One turn of send_data_frame(); the first write that fails ends it.      *)
SendData ==
  /\ pc = "send data"
  /\ LET data == ReplyBody(replying)
         to == IF offset + MaxFrameSize < Len(data) THEN offset + MaxFrameSize ELSE Len(data)
         f == Frame("DATA", replying, IF LastChunk(to, Len(data)) THEN {"END_STREAM"} ELSE {},
                    SubSeq(data, offset + 1, to), 0)
     IN  \/ /\ Written(f)
            /\ IF to < Len(data)
                 THEN offset' = to /\ UNCHANGED <<pc, replying>>
                 ELSE offset' = 0 /\ pc' = "loop" /\ replying' = 0
         \/ /\ WriteFails(f)
            /\ offset' = 0 /\ pc' = "loop" /\ replying' = 0
  /\ UNCHANGED <<clientVars, wire, tls, plaintext, streams, settingsVars>>

(* close(): TLS is closed, the streams are dropped, the input stays.       *)
Close ==
  /\ pc = "idle" /\ tls # "closed"
  /\ tls' = "closed"
  /\ streams' = NoStreams
  /\ settings_ack_sent' = FALSE /\ settings_ack_received' = FALSE
  /\ UNCHANGED <<clientVars, wire, pc, plaintext, replyVars, out, fails>>

ClientStep ==
  \/ \E s \in StreamIds :
       \/ \E flags \in SUBSET {"END_HEADERS", "END_STREAM"}, ok \in BOOLEAN : ClientHeaders(s, flags, ok)
       \/ \E ok \in BOOLEAN : ClientContinuation(s, ok)
       \/ \E n \in 0 .. MaxBody, flags \in SUBSET {"END_STREAM"} : ClientData(s, n, flags)
       \/ ClientReset(s) \/ ClientStray(s)
  \/ \E f \in OtherFrames : ClientOther(f)

Next ==
  \/ ClientStep \/ Handshake \/ OnRead \/ NeedMore
  \/ HandleSettings \/ HandleHeaders \/ HandleData \/ HandleContinuation
  \/ HandleWindowUpdate \/ HandleRstStream \/ HandlePing \/ HandleGoaway
  \/ SendHeaders \/ SendData \/ Close

Spec == Init /\ [][Next]_vars

-------------------------------------------------------------------------------
TypeOK ==
  /\ tls \in {"handshake", "open", "closed"}
  /\ pc \in {"idle", "loop", "send headers", "send data"}
  /\ DOMAIN streams \subseteq StreamIds
  /\ \A s \in DOMAIN streams :
       streams[s] \in [state : StreamStates, body : Seq(Bytes), send_window : 0 .. MaxWindow]
  /\ settings_ack_sent \in BOOLEAN /\ settings_ack_received \in BOOLEAN
  /\ replying \in DOMAIN streams \cup {0} /\ offset \in 0 .. MaxBody
  /\ fails \in 0 .. MaxFails
  /\ DOMAIN out = StreamIds \cup {0}
  /\ \A s \in DOMAIN out : \A i \in DOMAIN out[s] : out[s][i].data \in Seq(Bytes)

(* What the client must get on a stream where it has sent n bytes.         *)
ReplyTo(s, n) == IF n = 0 THEN <<OK>> ELSE [j \in 1 .. n |-> <<s, j>>]

Expected(s) == ReplyTo(s, client[s].body)

Ends(f) == f.type = "DATA" /\ "END_STREAM" \in f.flags /\ f.whole

(* The frames cut the reply up: cut[i] bytes of it are out with frame i,   *)
(* all of them with END_STREAM.                                            *)
CutsUp(frames, reply, cut) ==
  /\ cut[0] = 0
  /\ \A i \in DOMAIN frames :
       /\ cut[i - 1] <= cut[i]
       /\ frames[i].data = SubSeq(reply, cut[i - 1] + 1, cut[i])
       /\ Ends(frames[i]) => cut[i] = Len(reply)

(* Nothing is written on a stream before its request is complete, and what *)
(* is written there is the start of that request's own body, all of it     *)
(* before END_STREAM: with the streams interleaved frame by frame, and     *)
(* whatever writes failed, no byte strays to another stream, is sent twice *)
(* or is left out.                                                         *)
EchoesItsOwn ==
  \A s \in StreamIds :
    /\ out[s] # <<>> => client[s].ended
    /\ \E cut \in [0 .. Len(out[s]) -> 0 .. Len(Expected(s))] :
         CutsUp(out[s], Expected(s), cut)

(* As long as no write fails a stream carries HEADERS and then DATA, up to *)
(* a single END_STREAM: no request is answered a second time, however its  *)
(* headers and its body were split into frames.                            *)
RepliesWellFormed ==
  fails = 0 =>
    \A s \in StreamIds : \A i \in DOMAIN out[s] :
      /\ out[s][i].type = "HEADERS" <=> i = 1
      /\ Ends(out[s][i]) => i = Len(out[s])

(* When all the input has been handled every request that was completed    *)
(* has been answered to its end: none is forgotten because its END_STREAM  *)
(* came with the headers or with the body, what else was sent meanwhile or *)
(* what the handler refused before.  One place of END_STREAM is excluded   *)
(* (~SplitHeads) because there the request is forgotten: a HEADERS frame   *)
(* that a CONTINUATION follows.                                            *)
AnsweredWhenEnded ==
  tls = "open" /\ pc = "idle" /\ wire = <<>> /\ plaintext = <<>> /\ fails = 0 =>
    \A s \in StreamIds :
      client[s].phase = "done" /\ client[s].good =>
        \E i \in DOMAIN out[s] : Ends(out[s][i])

===============================================================================
