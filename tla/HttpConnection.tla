--------------------------- MODULE HttpConnection ---------------------------
(***************************************************************************)
(* One connection of the HTTP server under AsioHttp/HttpServer: the class  *)
(* http::server2::connection (connection.cpp), from start() until the last *)
(* shared_ptr to it is gone.  Every handler of a connection runs on the    *)
(* one thread of its io_context, so an action is one whole handler.        *)
(*                                                                         *)
(* The bytes a client sends are abstracted to units numbered 1, 2, 3, ...  *)
(* in the order they are sent: the header of the first request, its body,  *)
(* the header of a second, pipelined request, its body.  A unit stands for *)
(* a run of bytes and all lengths are counted in units.  TCP delivers them *)
(* in order, cut into segments anywhere.  Bodies are text without a zero   *)
(* byte (the code appends buffer_ as a C string).                          *)
(***************************************************************************)
EXTENDS Integers, Sequences

CONSTANTS
  Clients,        \* what a client may send: records [first, second]
  BufSize,        \* the largest segment one read returns (sizeof buffer_ - 1)
  RawBodyLen,     \* values an uninitialised m_nBodyLen may hold
  CallbackReplies \* does the notifier call AsyncReply inside OnAPItrigger?

Request == [hdr: Nat, body: Nat, hasLen: BOOLEAN, keep: BOOLEAN, valid: BOOLEAN]

ASSUME ClientsAssumption ==
  /\ Clients \subseteq [first: Request, second: Request]
  /\ \A c \in Clients : c.first.hdr > 0
ASSUME BufSizeAssumption == BufSize \in Nat \ {0}
ASSUME RawBodyLenAssumption == RawBodyLen \subseteq Int /\ RawBodyLen # {}
ASSUME CallbackRepliesAssumption == CallbackReplies \in BOOLEAN

VARIABLES
  client,       \* the requests this client sends, fixed
  got,          \* units the socket has delivered so far
  reads,        \* async_read_some operations outstanding
  writes,       \* async_write operations outstanding, each with its reply's version
                \* and what m_bKeepAlive was (history) when it began
  parser,       \* request_parser_.state_
  request_,     \* what the headers collected in it say: [keep, hasLen, body]
  m_bKeepAlive,
  m_bKeepRead,
  m_nBodyLen,
  m_strData,    \* the units it holds
  replyVersion, \* number of assignments made to reply_
  handled,      \* history: the body passed to each HandleHttpReq call
  hdrSegment,   \* history: the segment in which the first header ended
  shut,         \* socket_.shutdown(shutdown_both) was called
  freed         \* the object was deleted by a second owner

net == <<client, got>>
io == <<reads, writes, shut, freed>>
flags == <<parser, request_, m_bKeepAlive, m_bKeepRead, m_nBodyLen>>
history == <<handled, hdrSegment>>
vars == <<client, got, reads, writes, parser, request_, m_bKeepAlive, m_bKeepRead,
          m_nBodyLen, m_strData, replyVersion, handled, hdrSegment, shut, freed>>

Size(r) == r.hdr + r.body
Total(c) == Size(c.first) + Size(c.second)

ParserStates == {"method_start", "partial", "expecting_newline_3"}

-----------------------------------------------------------------------------
(* request_parser::parse over a segment of n units.  Once a request is     *)
(* complete state_ stays expecting_newline_3, where consume() only looks   *)
(* at the first byte of the segment: newline says whether it is '\n'.      *)
FirstOfRequest(i) == i = 1 \/ i = Size(client.first) + 1

HeaderEnd == IF got < Size(client.first) THEN client.first.hdr
                                         ELSE Size(client.first) + client.second.hdr
Parsed == IF got < Size(client.first) THEN client.first ELSE client.second

ParseResult(n, newline) ==
  IF parser = "expecting_newline_3"
  THEN IF newline /\ ~FirstOfRequest(got + 1) THEN "true" ELSE "false"
  ELSE IF got < HeaderEnd /\ got + n >= HeaderEnd
       THEN IF Parsed.valid THEN "true" ELSE "false"
       ELSE "indeterminate"

\* Mutant: parse() calls reset() when it has an answer.
ParserAfter_Reset(result) == IF result = "indeterminate" THEN "partial" ELSE "method_start"

ParserAfter(result) ==
  CASE result = "true"          -> "expecting_newline_3"
    [] result = "false"         -> parser
    [] result = "indeterminate" -> "partial"

\* Mutant: request_ is cleared between two requests but the parser is not.
RequestAfter_Cleared ==
  IF parser = "expecting_newline_3"
  THEN [keep |-> FALSE, hasLen |-> FALSE, body |-> 0]
  ELSE [keep |-> Parsed.keep, hasLen |-> Parsed.hasLen, body |-> Parsed.body]

\* Mutant: connections persist unless told otherwise, as in HTTP/1.1.
RequestAfter_Persistent ==
  [keep |-> TRUE, hasLen |-> Parsed.hasLen, body |-> Parsed.body]

(* The headers in request_ after a completed parse.  It is never cleared:  *)
(* what is parsed adds to it, and of two lengths the later counts.  In     *)
(* expecting_newline_3 the parser adds nothing.                            *)
RequestAfter ==
  IF parser = "expecting_newline_3" THEN request_
  ELSE [keep   |-> request_.keep \/ Parsed.keep,
        hasLen |-> request_.hasLen \/ Parsed.hasLen,
        body   |-> IF Parsed.hasLen THEN Parsed.body ELSE request_.body]

(* atoi of Content-Length over every header collected so far; the member   *)
(* keeps what it held when no such header is there.                        *)
\* Mutant: the header name is not lowered, so Content-Length is not found.
BodyLenAfter_Missed == m_nBodyLen

BodyLenAfter == IF RequestAfter.hasLen THEN RequestAfter.body ELSE m_nBodyLen

(* int compared with size_t: a negative length is converted to a huge one. *)
Exceeds(len, bytes) == len < 0 \/ len > bytes

(* m_strData.erase(0, length - m_nBodyLen): the last len units remain.     *)
\* Mutant: the front of what has been read is taken for the body.
LastUnits_Front(s, len) == IF len <= Len(s) THEN SubSeq(s, 1, len) ELSE <<>>

LastUnits(s, len) == IF len <= Len(s) THEN SubSeq(s, Len(s) - len + 1, Len(s)) ELSE <<>>

Segment(n) == [j \in 1 .. n |-> got + j]

-----------------------------------------------------------------------------
\* start_accept builds the object, handle_accept calls start().
Init ==
  /\ client \in Clients
  /\ got = 0
  /\ reads = 1
  /\ writes = {}
  /\ parser = "method_start"
  /\ request_ = [keep |-> FALSE, hasLen |-> FALSE, body |-> 0]
  /\ m_bKeepAlive = FALSE
  /\ m_bKeepRead = FALSE
  /\ m_nBodyLen \in RawBodyLen
  /\ m_strData = <<>>
  /\ replyVersion = 0
  /\ handled = <<>>
  /\ hdrSegment = [from |-> 0, to |-> 0]
  /\ shut = FALSE
  /\ freed = FALSE

(* An outstanding read completes with n bytes and without an error.        *)
Receive(n) ==
  /\ reads > 0 /\ ~shut /\ ~freed
  /\ got + n <= Total(client)
  /\ got' = got + n
  /\ UNCHANGED <<client, shut>>

(* reply_ is assigned and async_write is given buffers that point into it. *)
WriteReply(kind, keep) ==
  /\ replyVersion' = replyVersion + 1
  /\ writes' = writes \cup {[kind |-> kind, version |-> replyVersion + 1, keep |-> keep]}

(* The callback runs to its end and reply_ is written.  A notifier may call *)
(* AsyncReply for a request with a body: server::AsyncReply wraps the raw   *)
(* pointer in a second shared_ptr, writes from a reply on its stack, and    *)
(* deletes the connection when that shared_ptr goes out of scope.           *)
Serve(body, keep) ==
  /\ handled' = Append(handled, body)
  /\ \/ /\ freed' = FALSE
        /\ WriteReply("ok", keep)
     \/ /\ CallbackReplies /\ body # <<>>
        /\ freed' = TRUE
        /\ replyVersion' = replyVersion
        /\ writes' = writes \cup {[kind |-> "async", version |-> 0, keep |-> keep]}

(* handle_read, m_bKeepRead, the body is not complete yet: lines 83-96.    *)
KeepReading(n) ==
  /\ m_bKeepRead
  /\ Receive(n)
  /\ m_strData' = m_strData \o Segment(n)
  /\ Len(m_strData') # m_nBodyLen
  /\ reads' = reads
  /\ UNCHANGED <<flags, history, writes, replyVersion, freed>>

(* handle_read, m_bKeepRead, the body is complete: lines 87-127.  There is *)
(* no start() on this path, whatever m_bKeepAlive says.                    *)
FinishBody(n) ==
  /\ m_bKeepRead
  /\ Receive(n)
  /\ LET all == m_strData \o Segment(n) IN
     /\ Len(all) = m_nBodyLen
     /\ m_strData' = LastUnits(all, m_nBodyLen)
     /\ Serve(LastUnits(all, m_nBodyLen), m_bKeepAlive)
  /\ m_bKeepRead' = FALSE
  /\ reads' = reads - 1
  /\ UNCHANGED <<parser, request_, m_bKeepAlive, m_nBodyLen, hdrSegment>>

(* What a completed parse does first, lines 135-158.                       *)
ParseRequest(n, newline) ==
  /\ ~m_bKeepRead
  /\ Receive(n)
  /\ ParseResult(n, newline) = "true"
  /\ parser' = ParserAfter("true")
  /\ request_' = RequestAfter
  /\ m_bKeepAlive' = RequestAfter.keep
  /\ m_nBodyLen' = BodyLenAfter
  /\ hdrSegment' = IF hdrSegment.to = 0 THEN [from |-> got, to |-> got + n] ELSE hdrSegment

(* Lines 160-165: wait for the body.  The segment is not kept.             *)
AwaitBody(n, newline) ==
  /\ ParseRequest(n, newline)
  /\ Exceeds(BodyLenAfter, n)
  /\ m_bKeepRead' = TRUE
  /\ reads' = reads
  /\ UNCHANGED <<writes, m_strData, replyVersion, handled, freed>>

(* Lines 167-200 and 216-219: answer at once and, if the client asked to   *)
(* keep the connection, read on.                                           *)
ServeRequest(n, newline) ==
  /\ ParseRequest(n, newline)
  /\ ~Exceeds(BodyLenAfter, n)
  /\ m_bKeepRead' = FALSE
  /\ LET body == LastUnits(m_strData \o Segment(n), BodyLenAfter) IN
     /\ m_strData' = body
     /\ Serve(body, RequestAfter.keep)
  /\ reads' = IF m_bKeepAlive' THEN reads ELSE reads - 1

(* Lines 202-208 and 216-219.                                              *)
RejectRequest(n, newline) ==
  /\ ~m_bKeepRead
  /\ Receive(n)
  /\ ParseResult(n, newline) = "false"
  /\ WriteReply("bad_request", m_bKeepAlive)
  /\ reads' = IF m_bKeepAlive THEN reads ELSE reads - 1
  /\ UNCHANGED <<flags, history, m_strData, freed>>

(* Lines 209-219: the header goes on in the next segment.  An extra read   *)
(* would be started for a connection already marked keep-alive.            *)
ReadMoreHeader(n, newline) ==
  /\ ~m_bKeepRead
  /\ Receive(n)
  /\ ParseResult(n, newline) = "indeterminate"
  /\ parser' = ParserAfter("indeterminate")
  /\ reads' = IF m_bKeepAlive THEN reads + 1 ELSE reads
  /\ UNCHANGED <<request_, m_bKeepAlive, m_bKeepRead, m_nBodyLen, history, writes,
                 m_strData, replyVersion, freed>>

(* handle_read with an error (end of file, reset, shutdown): nothing.      *)
\* Mutant: the completion is delivered although no read is outstanding.
ReadFails_Spurious ==
  /\ ~freed
  /\ reads' = reads - 1
  /\ UNCHANGED <<net, writes, shut, freed, flags, m_strData, replyVersion, history>>

ReadFails ==
  /\ reads > 0 /\ ~freed
  /\ reads' = reads - 1
  /\ UNCHANGED <<net, writes, shut, freed, flags, m_strData, replyVersion, history>>

(* handle_write and handle_Async_write: a finished reply closes a          *)
(* connection that is not keep-alive.                                      *)
\* Mutant: the early return for a keep-alive connection is missing.
WriteDone_Closes(w) ==
  /\ w \in writes /\ ~freed
  /\ writes' = writes \ {w}
  /\ shut' = (shut \/ w.kind # "async")
  /\ UNCHANGED <<net, reads, freed, flags, m_strData, replyVersion, history>>

WriteDone(w) ==
  /\ w \in writes /\ ~freed
  /\ writes' = writes \ {w}
  /\ shut' = (shut \/ (w.kind # "async" /\ ~m_bKeepAlive))
  /\ UNCHANGED <<net, reads, freed, flags, m_strData, replyVersion, history>>

WriteFails(w) ==
  /\ w \in writes /\ ~freed
  /\ writes' = writes \ {w}
  /\ UNCHANGED <<net, reads, shut, freed, flags, m_strData, replyVersion, history>>

HandleRead(n, newline) ==
  \/ KeepReading(n)
  \/ FinishBody(n)
  \/ AwaitBody(n, newline)
  \/ ServeRequest(n, newline)
  \/ RejectRequest(n, newline)
  \/ ReadMoreHeader(n, newline)

Next ==
  \/ \E n \in 1 .. BufSize, newline \in BOOLEAN : HandleRead(n, newline)
  \/ ReadFails
  \/ \E w \in writes : WriteDone(w) \/ WriteFails(w)

(* The io_context runs the completion handlers it is owed; the client goes *)
(* on sending what it has to send.  Neither excludes an error.             *)
Fairness ==
  /\ WF_vars(\E n \in 1 .. BufSize, newline \in BOOLEAN : HandleRead(n, newline))
  /\ WF_vars(\E w \in writes : WriteDone(w) \/ WriteFails(w))

Spec == Init /\ [][Next]_vars
FairSpec == Spec /\ Fairness

-----------------------------------------------------------------------------
TypeOK ==
  /\ client \in Clients
  /\ got \in 0 .. Total(client)
  /\ reads \in Nat
  /\ writes \subseteq [kind: {"ok", "bad_request", "async"}, version: Nat, keep: BOOLEAN]
  /\ parser \in ParserStates
  /\ request_ \in [keep: BOOLEAN, hasLen: BOOLEAN, body: Nat]
  /\ m_bKeepAlive \in BOOLEAN
  /\ m_bKeepRead \in BOOLEAN
  /\ m_nBodyLen \in Int
  /\ m_strData \in Seq(Nat)
  /\ replyVersion \in Nat
  /\ handled \in Seq(Seq(Nat))
  /\ hdrSegment \in [from: Nat, to: Nat]
  /\ shut \in BOOLEAN
  /\ freed \in BOOLEAN

(* The shared_ptr references that keep the object alive are the ones bound *)
(* into the completion handlers.                                           *)
Referenced == reads > 0 \/ writes # {}

(* buffer_ is one array: a second async_read_some outstanding on the       *)
(* connection would write into the segment a handler is still parsing.     *)
(* handle_read starts a read on three paths and falls into a fourth start. *)
AtMostOneRead == reads <= 1

(* The two ways of cutting a request the code caters for: all of it in one *)
(* segment, or the body in later segments of its own and longer than the   *)
(* segment that ends the header.                                           *)
CleanlyCut ==
  LET r == client.first IN
  /\ r.hasLen /\ r.valid
  /\ \/ hdrSegment.to = Size(r)
     \/ hdrSegment.to = r.hdr /\ r.body > hdrSegment.to - hdrSegment.from

(* For a request so cut, OnAPItrigger is given exactly the body that was   *)
(* sent, although it is recovered by counting back from the end of what    *)
(* has been read (m_strData.erase), over one segment or several.           *)
BodyIntact ==
  CleanlyCut /\ handled # <<>>
    => handled[1] = [j \in 1 .. client.first.body |-> client.first.hdr + j]

(* ... and it is handed over by the time its last unit has been read,      *)
(* unless bytes of a next request came in the same segment: no such        *)
(* request is left waiting for bytes that never come.                      *)
CompleteRequestIsServed ==
  CleanlyCut /\ got = Size(client.first) => handled # <<>>

(* A client that did not ask for keep-alive gets one reply, through one    *)
(* call of the callback: handle_read reads on only for keep-alive.         *)
OneExchange ==
  ~client.first.keep => Len(handled) <= 1 /\ replyVersion <= 1

(* handle_write closes the connection, or leaves it open, by m_bKeepAlive  *)
(* as it is when the write completes.  On a keep-alive connection another  *)
(* segment may have come in between, for which handle_read clears the flag *)
(* and sets it again from request_: every reply ends as it was begun.      *)
ReplyEndsAsBegun == \A w \in writes : w.kind # "async" => w.keep = m_bKeepAlive

(* handle_write never shuts down the socket under a read in flight.        *)
NoReadOnShutSocket == shut => reads = 0

Phase == IF writes # {} THEN "replying" ELSE IF reads > 0 THEN "reading" ELSE "over"

E == INSTANCE Exchange WITH phase <- Phase, open <- Referenced /\ ~shut /\ ~freed

(* A client that does not ask for keep-alive has one exchange: after its   *)
(* reply has begun nothing is read, and its connection is closed in the    *)
(* end, by handle_write or with the last reference.                        *)
OneShotIsAnExchange ==
  /\ ~client.first.keep => E!Init
  /\ [][~client.first.keep => [E!Next]_(E!vars)]_vars

(* A request that reached the callback is answered and its connection is   *)
(* then released, unless the client keeps it open.                         *)
ReleasedAfterReply == handled # <<>> /\ ~client.first.keep ~> ~Referenced

-----------------------------------------------------------------------------
(* What a comment says and this code does not do.                          *)

(* connection.cpp: the object is destroyed when all shared_ptr references  *)
(* to it have disappeared.                                                 *)
DestroyedWhenUnreferenced == freed => ~Referenced
=============================================================================
