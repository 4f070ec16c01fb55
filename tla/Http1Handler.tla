----------------------------- MODULE Http1Handler -----------------------------
(***************************************************************************)
(* HTTP/1.1 on one connection (protocol/source/protocol_handler.cpp,       *)
(* Http1Handler; http_parser.cpp): on_read() takes what TLS has decrypted, *)
(* appends it to plaintext_buffer_ and runs the parse state machine until  *)
(* it needs more input, has answered a request or has given up.            *)
(*                                                                         *)
(* A line ending in CRLF and a byte of a body are the units of input:      *)
(* read_line() leaves an incomplete line where it is.  Each unit remembers *)
(* which request of the client it belongs to, which the handler never      *)
(* looks at.  A client says the truth about the length of its bodies, may  *)
(* send its next request before it has the reply, and may send requests    *)
(* the server must refuse.                                                 *)
(***************************************************************************)
EXTENDS Naturals, Sequences, SequencesExt

CONSTANTS Shapes,        \* requests a client may send
          MaxHeaders,    \* MAX_HEADERS
          TempSize,      \* TEMP_BUFFER_SIZE, in units of input
          WholeHeads,    \* TRUE: no read ends between request line and blank line
          MaxRequests,   \* bound: requests on the connection
          MaxFails       \* bound: tls_handler_->write() calls that fail

LineKinds == {"line", "bad line"}
HeaderKinds == {"length", "bad length", "chunked", "other", "junk"}
Units == [req : Nat, is : LineKinds \cup HeaderKinds \cup {"blank", "byte"}, val : Nat]

ASSUME Http1Assumption ==
  /\ MaxHeaders \in Nat /\ TempSize \in Nat \ {0} /\ WholeHeads \in BOOLEAN
  /\ MaxRequests \in Nat /\ MaxFails \in Nat
  /\ Shapes \subseteq [line : LineKinds, headers : Seq(HeaderKinds), body : Nat]
  /\ \A s \in Shapes : s.body > 0 => "length" \in Range(s.headers)

VARIABLES
  requests,        \* history: what the client has sent
  wire,            \* input TLS has and on_read() has not read
  tls,             \* "open", "failed" or "closed"
  pc,              \* where on_read() is: not called, the loop, parse_headers()
  plaintext,       \* plaintext_buffer_
  state,           \* state_
  headers,         \* request_.headers, kind |-> value
  header_count,
  content_length,  \* request_.content_length
  body,            \* request_.body
  responses,       \* written to TLS
  fails

requestVars == <<headers, header_count, content_length, body>>
vars == <<requests, wire, tls, pc, plaintext, state, requestVars, responses, fails>>

States == {"EXPECT_REQUEST_LINE", "EXPECT_HEADERS", "EXPECT_BODY", "EXPECT_COMPLETE", "ERROR"}

Unit(k, kind, v) == [req |-> k, is |-> kind, val |-> v]

(* The bytes of request k, in order.                                       *)
Body(k, s) == [j \in 1 .. s.body |-> Unit(k, "byte", j)]

Encoded(k, s) ==
  <<Unit(k, s.line, 0)>>
  \o [j \in DOMAIN s.headers |-> Unit(k, s.headers[j], IF s.headers[j] = "length" THEN s.body ELSE 0)]
  \o <<Unit(k, "blank", 0)>>
  \o Body(k, s)

NoHeaders == [h \in {} |-> 0]

Init ==
  /\ requests = <<>> /\ wire = <<>> /\ tls = "open"
  /\ pc = "idle" /\ plaintext = <<>>
  /\ state = "EXPECT_REQUEST_LINE"
  /\ headers = NoHeaders /\ header_count = 0 /\ content_length = 0 /\ body = <<>>
  /\ responses = <<>> /\ fails = 0

-------------------------------------------------------------------------------
(* The client.                                                             *)
Send(s) ==
  /\ Len(requests) < MaxRequests
  /\ tls = "open"
  /\ requests' = Append(requests, s)
  /\ wire' = wire \o Encoded(Len(requests) + 1, s)
  /\ UNCHANGED <<tls, pc, plaintext, state, requestVars, responses, fails>>

(* reset() that keeps the body of the request.                             *)
ResetKeepingBody ==
  /\ state' = "EXPECT_REQUEST_LINE"
  /\ headers' = NoHeaders /\ header_count' = 0 /\ content_length' = 0
  /\ UNCHANGED body

(* reset(): the input already buffered stays.                              *)
Reset ==
  /\ state' = "EXPECT_REQUEST_LINE"
  /\ headers' = NoHeaders /\ header_count' = 0 /\ content_length' = 0 /\ body' = <<>>

(* ERROR, a 400 that is written or not, and out.                           *)
Reject ==
  /\ state' = "ERROR"
  /\ pc' = "idle"
  /\ \/ /\ responses' = Append(responses, [status |-> 400, body |-> <<>>])
        /\ UNCHANGED fails
     \/ /\ fails < MaxFails /\ fails' = fails + 1
        /\ UNCHANGED responses
  /\ UNCHANGED <<requests, wire, tls, requestVars>>

(* on_read(): TLS decrypts up to a temporary buffer full, maybe no more    *)
(* than the beginning of a line (n = 0).  In ERROR each call answers 400   *)
(* once more: the input bounds the calls.                                  *)
OnRead(n) ==
  /\ pc = "idle" /\ tls = "open"
  /\ wire # <<>> /\ n <= TempSize
  /\ state = "ERROR" => n > 0
  /\ WholeHeads /\ n < Len(wire) => wire[n + 1].is \in LineKinds \cup {"byte"}
  /\ plaintext' = plaintext \o SubSeq(wire, 1, n)
  /\ wire' = SubSeq(wire, n + 1, Len(wire))
  /\ pc' = "loop"
  /\ UNCHANGED <<requests, tls, state, requestVars, responses, fails>>

(* TLS fails, or has been closed: ERROR, and a 400 that can be written     *)
(* only if TLS still accepts data.  (In ERROR it would do so once more.)   *)
OnReadFails ==
  /\ pc = "idle" /\ state # "ERROR"
  /\ state' = "ERROR"
  /\ tls' = IF tls = "open" THEN "failed" ELSE tls
  /\ \/ tls = "open" /\ responses' = Append(responses, [status |-> 400, body |-> <<>>])
     \/ UNCHANGED responses
  /\ UNCHANGED <<requests, wire, pc, plaintext, requestVars, fails>>

(* close(): TLS is closed, the state machine reset.                        *)
Close ==
  /\ pc = "idle" /\ tls # "closed"
  /\ tls' = "closed"
  /\ Reset
  /\ UNCHANGED <<requests, wire, pc, plaintext, responses, fails>>

-------------------------------------------------------------------------------
(* read_line(): everything up to the first line end, if there is one.      *)
LineEnds == {j \in DOMAIN plaintext : plaintext[j].is # "byte"}
LineLength == CHOOSE j \in LineEnds : \A e \in LineEnds : j <= e
DropLine == plaintext' = SubSeq(plaintext, LineLength + 1, Len(plaintext))

(* No complete line: back to the caller, the state as it is.               *)
NeedMore ==
  /\ \/ pc = "loop" /\ state = "EXPECT_REQUEST_LINE"
     \/ pc = "headers"
  /\ LineEnds = {}
  /\ pc' = "idle"
  /\ UNCHANGED <<requests, wire, tls, plaintext, state, requestVars, responses, fails>>

(* EXPECT_REQUEST_LINE.  A line that begins with stray bytes may parse or  *)
(* not, whatever follows them.                                             *)
RequestLine ==
  /\ pc = "loop" /\ state = "EXPECT_REQUEST_LINE"
  /\ LineEnds # {}
  /\ DropLine
  /\ \/ /\ LineLength > 1 \/ plaintext[1].is = "line"
        /\ state' = "EXPECT_HEADERS"
        /\ UNCHANGED <<requests, wire, tls, pc, requestVars, responses, fails>>
     \/ /\ LineLength > 1 \/ plaintext[1].is # "line"
        /\ Reject

(* EXPECT_HEADERS: parse_headers() starts afresh ...                       *)
HeadersBegin ==
  /\ pc = "loop" /\ state = "EXPECT_HEADERS"
  /\ pc' = "headers"
  /\ headers' = NoHeaders /\ header_count' = 0
  /\ UNCHANGED <<requests, wire, tls, plaintext, state, content_length, body, responses, fails>>

(* The last header allowed is refused.                                     *)
TooManyEarly == header_count + 1 >= MaxHeaders

TooMany == header_count >= MaxHeaders

(* ... takes one line after the other ...                                  *)
HeaderLine ==
  /\ pc = "headers" /\ LineEnds # {}
  /\ plaintext[LineLength].is # "blank"
  /\ DropLine
  /\ IF TooMany \/ plaintext[LineLength].is = "junk"
       THEN Reject
       ELSE LET u == plaintext[LineLength] IN
            /\ headers' = [h \in DOMAIN headers \cup {u.is} |->
                             IF h = u.is THEN u.val ELSE headers[h]]
            /\ header_count' = header_count + 1
            /\ UNCHANGED <<requests, wire, tls, pc, state, content_length, body, responses, fails>>

(* ... up to the blank one: chunked bodies and lengths that do not parse   *)
(* are refused, no length means no body.                                   *)
HeadersEnd ==
  /\ pc = "headers" /\ LineEnds # {}
  /\ plaintext[LineLength].is = "blank"
  /\ DropLine
  /\ IF {"chunked", "bad length"} \cap DOMAIN headers # {}
       THEN Reject
       ELSE LET n == IF "length" \in DOMAIN headers THEN headers["length"] ELSE 0 IN
            /\ content_length' = n
            /\ state' = IF n > 0 THEN "EXPECT_BODY" ELSE "EXPECT_COMPLETE"
            /\ pc' = "loop"
            /\ UNCHANGED <<requests, wire, tls, headers, header_count, body, responses, fails>>

(* EXPECT_BODY: no more than what is missing.                              *)
ReadBody ==
  /\ pc = "loop" /\ state = "EXPECT_BODY"
  /\ LET remaining == content_length - Len(body)
         to_read == IF Len(plaintext) < remaining THEN Len(plaintext) ELSE remaining
     IN  /\ body' = body \o SubSeq(plaintext, 1, to_read)
         /\ plaintext' = SubSeq(plaintext, to_read + 1, Len(plaintext))
         /\ IF Len(body') = content_length
              THEN state' = "EXPECT_COMPLETE" /\ UNCHANGED pc
              ELSE pc' = "idle" /\ UNCHANGED state
  /\ UNCHANGED <<requests, wire, tls, headers, header_count, content_length, responses, fails>>

(* EXPECT_COMPLETE: the body is echoed ("OK" when there is none).  When    *)
(* the write fails the request stays, for the next on_read().              *)
CompleteRequest ==
  /\ pc = "loop" /\ state = "EXPECT_COMPLETE"
  /\ pc' = "idle"
  /\ \/ /\ responses' = Append(responses, [status |-> 200, body |-> body])
        /\ Reset
        /\ UNCHANGED fails
     \/ /\ fails < MaxFails /\ fails' = fails + 1
        /\ UNCHANGED <<responses, state, requestVars>>
  /\ UNCHANGED <<requests, wire, tls, plaintext>>

(* ERROR: every further on_read() answers 400 again.                       *)
StillInError ==
  /\ pc = "loop" /\ state = "ERROR"
  /\ Reject
  /\ UNCHANGED plaintext

Next ==
  \/ \E s \in Shapes : Send(s)
  \/ \E n \in 0 .. Len(wire) : OnRead(n)
  \/ OnReadFails \/ Close
  \/ NeedMore \/ RequestLine
  \/ HeadersBegin \/ HeaderLine \/ HeadersEnd
  \/ ReadBody \/ CompleteRequest \/ StillInError

Spec == Init /\ [][Next]_vars

-------------------------------------------------------------------------------
TypeOK ==
  /\ requests \in Seq(Shapes)
  /\ wire \in Seq(Units) /\ plaintext \in Seq(Units) /\ body \in Seq(Units)
  /\ tls \in {"open", "failed", "closed"}
  /\ pc \in {"idle", "loop", "headers"}
  /\ state \in States
  /\ DOMAIN headers \subseteq HeaderKinds /\ Range(headers) \subseteq Nat
  /\ header_count \in 0 .. MaxHeaders /\ content_length \in Nat /\ fails \in 0 .. MaxFails
  /\ responses \in Seq([status : {200, 400}, body : Seq(Units)])

WellFormed(s) ==
  /\ s.line = "line"
  /\ Len(s.headers) <= MaxHeaders
  /\ Range(s.headers) \subseteq {"length", "other"}

Answered(k) == k \in DOMAIN responses /\ responses[k].status = 200

(* Replies come in the order of the requests, one for each, and echo       *)
(* exactly the body of the request they answer: no byte of one request     *)
(* shows up in the reply to another, wherever bodies were cut, however     *)
(* many requests were sent ahead and whatever writes failed.  Only heads   *)
(* must come whole (WholeHeads): one cut by a read loses its first headers *)
(* and with them its body, which breaks this.                              *)
RepliesInOrder ==
  \A k \in DOMAIN responses :
    Answered(k) =>
      /\ k <= Len(requests) /\ WellFormed(requests[k])
      /\ responses[k].body = Body(k, requests[k])

(* The connection is given up only for a reason, the first request not     *)
(* answered being malformed (or TLS having failed), and then for good:     *)
(* what follows a refused head is never taken for a request.  Like         *)
(* RepliesInOrder it is claimed with WholeHeads.                           *)
RejectsOnlyBad ==
  /\ state = "ERROR" /\ tls = "open" =>
       \E k \in 1 .. Len(requests) :
         /\ ~WellFormed(requests[k]) /\ ~Answered(k)
         /\ \A j \in 1 .. k - 1 : Answered(j)
  /\ \A i, j \in DOMAIN responses :
       i <= j /\ responses[i].status = 400 => responses[j].status = 400

===============================================================================
