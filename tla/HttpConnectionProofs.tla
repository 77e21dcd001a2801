------------------------ MODULE HttpConnectionProofs ------------------------
(* Safety of one HTTP connection, for every client and every buffer size.  *)
EXTENDS HttpConnection, SequenceTheorems, TLAPS

(* What a segment of n units holds.                                        *)
LEMMA SegmentProperties ==
  ASSUME NEW n \in Nat, got \in Nat
  PROVE  /\ Segment(n) \in Seq(Nat)
         /\ Len(Segment(n)) = n
         /\ \A j \in 1 .. n : Segment(n)[j] = got + j
BY DEF Segment

(* LastUnits returns a suffix of the length it is asked for.               *)
LEMMA LastUnitsProperties ==
  ASSUME NEW s \in Seq(Nat), NEW len \in Nat
  PROVE  /\ LastUnits(s, len) \in Seq(Nat)
         /\ len <= Len(s) => /\ Len(LastUnits(s, len)) = len
                             /\ \A j \in 1 .. len :
                                  LastUnits(s, len)[j] = s[Len(s) - len + j]
<1>1. CASE len <= Len(s)
  <2>1. \A i \in Len(s) - len + 1 .. Len(s) : s[i] \in Nat
    BY <1>1, ElementOfSeq
  <2>2. LastUnits(s, len) = SubSeq(s, Len(s) - len + 1, Len(s))
    BY <1>1 DEF LastUnits
  <2>. DEFINE t == SubSeq(s, Len(s) - len + 1, Len(s))
  <2>3. /\ t \in Seq(Nat)
        /\ Len(t) = IF Len(s) - len + 1 <= Len(s) THEN Len(s) - (Len(s) - len + 1) + 1 ELSE 0
        /\ \A i \in 1 .. Len(s) - (Len(s) - len + 1) + 1 : t[i] = s[Len(s) - len + 1 + i - 1]
    BY <2>1, SubSeqProperties
  <2>. QED BY <2>2, <2>3, LenProperties
<1>2. CASE ~(len <= Len(s))
  BY <1>2 DEF LastUnits
<1>. QED BY <1>1, <1>2

(* Lengths of the requests a client sends are natural numbers.             *)
LEMMA ClientProperties ==
  ASSUME client \in Clients
  PROVE  /\ client.first \in Request
         /\ client.second \in Request
         /\ Size(client.first) \in Nat
         /\ Size(client.second) \in Nat
         /\ Total(client) \in Nat
         /\ client.first.hdr > 0
BY ClientsAssumption DEF Request, Size, Total

(* What the headers say keeps its type, and the length is an integer.      *)
LEMMA RequestType ==
  ASSUME TypeOK
  PROVE  RequestAfter \in [keep: BOOLEAN, hasLen: BOOLEAN, body: Nat]
<1>1. Parsed \in Request
  BY ClientProperties DEF TypeOK, Parsed
<1>2. /\ (request_.keep \/ Parsed.keep) \in BOOLEAN
      /\ (request_.hasLen \/ Parsed.hasLen) \in BOOLEAN
      /\ (IF Parsed.hasLen THEN Parsed.body ELSE request_.body) \in Nat
  BY <1>1 DEF TypeOK, Request
<1>. QED BY <1>2 DEF TypeOK, RequestAfter

LEMMA BodyLenType ==
  ASSUME TypeOK
  PROVE  BodyLenAfter \in Int
<1>1. RequestAfter.body \in Nat
  BY RequestType
<1>. QED BY <1>1 DEF TypeOK, BodyLenAfter

(* The parser stays within its states.                                     *)
LEMMA ParserType ==
  ASSUME TypeOK, NEW n, NEW newline
  PROVE  ParserAfter(ParseResult(n, newline)) \in ParserStates
BY DEF TypeOK, ParserAfter, ParseResult, ParserStates

(* The callback and the reply keep their variables typed.                  *)
LEMMA ServeType ==
  ASSUME TypeOK, NEW body \in Seq(Nat), NEW keep \in BOOLEAN, Serve(body, keep)
  PROVE  /\ writes' \subseteq [kind: {"ok", "bad_request", "async"}, version: Nat, keep: BOOLEAN]
         /\ replyVersion' \in Nat
         /\ handled' \in Seq(Seq(Nat))
         /\ freed' \in BOOLEAN
<1>. DEFINE Kinds == {"ok", "bad_request", "async"}
<1>1. handled' \in Seq(Seq(Nat))
  <2>1. handled \in Seq(Seq(Nat)) /\ handled' = Append(handled, body)
    BY DEF TypeOK, Serve
  <2>2. Append(handled, body) \in Seq(Seq(Nat))
    BY <2>1, AppendProperties
  <2>. QED BY <2>1, <2>2, Zenon
<1>2. replyVersion' \in Nat
  BY DEF TypeOK, Serve, WriteReply
<1>4. freed' \in BOOLEAN
  BY Zenon DEF Serve
<1>3. \E w \in [kind: Kinds, version: Nat, keep: BOOLEAN] : writes' = writes \cup {w}
  <2>1. /\ [kind |-> "ok", version |-> replyVersion + 1, keep |-> keep]
              \in [kind: Kinds, version: Nat, keep: BOOLEAN]
        /\ [kind |-> "async", version |-> 0, keep |-> keep]
              \in [kind: Kinds, version: Nat, keep: BOOLEAN]
    BY DEF TypeOK
  <2>. QED BY <2>1 DEF Serve, WriteReply
<1>. QED BY <1>1, <1>2, <1>3, <1>4 DEF TypeOK

(* What an arriving segment leaves typed.                                  *)
LEMMA ReceiveType ==
  ASSUME TypeOK, NEW n \in 1 .. BufSize, Receive(n)
  PROVE  /\ client' \in Clients
         /\ got' \in 0 .. Total(client')
         /\ shut' \in BOOLEAN
         /\ reads \in Nat \ {0}
         /\ m_strData \o Segment(n) \in Seq(Nat)
         /\ n \in Nat
         /\ hdrSegment \in [from: Nat, to: Nat]
         /\ [from |-> got, to |-> got + n] \in [from: Nat, to: Nat]
<1>1. got \in Nat /\ n \in Nat /\ Total(client) \in Nat
  BY ClientProperties, BufSizeAssumption DEF TypeOK
<1>2. Segment(n) \in Seq(Nat)
  BY <1>1, SegmentProperties
<1>. QED
  BY <1>1, <1>2 DEF TypeOK, Receive

(* Each handler of the connection keeps every variable typed.              *)
LEMMA TypeStep ==
  ASSUME TypeOK, [Next]_vars
  PROVE  TypeOK'
<1>1. ASSUME NEW n \in 1 .. BufSize, NEW newline \in BOOLEAN, HandleRead(n, newline)
      PROVE  TypeOK'
  <2>1. CASE KeepReading(n)
    BY <2>1, ReceiveType DEF TypeOK, KeepReading, flags, history
  <2>2. CASE FinishBody(n)
    <3>. DEFINE all == m_strData \o Segment(n)
    <3>1. Receive(n) /\ all \in Seq(Nat)
      BY <2>2, ReceiveType DEF FinishBody
    <3>2. Len(all) = m_nBodyLen /\ m_strData' = LastUnits(all, m_nBodyLen)
          /\ Serve(LastUnits(all, m_nBodyLen), m_bKeepAlive)
      BY <2>2 DEF FinishBody
    <3>3. LastUnits(all, m_nBodyLen) \in Seq(Nat)
      <4>1. m_nBodyLen \in Nat
        BY <3>1, <3>2, LenProperties
      <4>. QED BY <3>1, <4>1, LastUnitsProperties
    <3>4. reads' \in Nat
      BY <2>2, <3>1, ReceiveType DEF FinishBody
    <3>. QED BY <2>2, <3>1, <3>2, <3>3, <3>4, ReceiveType, ServeType
             DEF TypeOK, FinishBody
  <2>3. ASSUME ParseRequest(n, newline)
        PROVE  /\ Receive(n)
               /\ parser' \in ParserStates
               /\ request_' \in [keep: BOOLEAN, hasLen: BOOLEAN, body: Nat]
               /\ m_bKeepAlive' \in BOOLEAN
               /\ m_nBodyLen' \in Int
               /\ hdrSegment' \in [from: Nat, to: Nat]
    BY <2>3, ReceiveType, RequestType, BodyLenType
       DEF ParseRequest, ParserAfter, ParserStates, TypeOK, Request
  <2>4. CASE AwaitBody(n, newline)
    BY <2>3, <2>4, ReceiveType DEF TypeOK, AwaitBody
  <2>5. CASE ServeRequest(n, newline)
    <3>. DEFINE body == LastUnits(m_strData \o Segment(n), BodyLenAfter)
    <3>1. Receive(n)
      BY <2>3, <2>5 DEF ServeRequest
    <3>2. BodyLenAfter \in Nat
      BY <2>5, BodyLenType DEF ServeRequest, Exceeds
    <3>3. body \in Seq(Nat)
      BY <3>1, <3>2, ReceiveType, LastUnitsProperties
    <3>4. /\ m_strData' = body /\ Serve(body, RequestAfter.keep) /\ m_bKeepRead' = FALSE
          /\ RequestAfter.keep \in BOOLEAN
      BY <2>5, RequestType DEF ServeRequest
    <3>5. reads' \in Nat
      BY <2>5, <3>1, ReceiveType DEF ServeRequest
    <3>. QED BY <2>3, <2>5, <3>1, <3>3, <3>4, <3>5, ReceiveType, ServeType
             DEF TypeOK, ServeRequest
  <2>6. CASE RejectRequest(n, newline)
    <3>1. Receive(n) /\ reads' \in Nat
      BY <2>6, ReceiveType DEF RejectRequest
    <3>. QED BY <2>6, <3>1, ReceiveType
             DEF TypeOK, RejectRequest, WriteReply, flags, history
  <2>7. CASE ReadMoreHeader(n, newline)
    <3>1. Receive(n) /\ reads' \in Nat
      BY <2>7, ReceiveType DEF ReadMoreHeader
    <3>. QED BY <2>7, <3>1, ReceiveType
             DEF TypeOK, ReadMoreHeader, ParserAfter, ParserStates, history
  <2>. QED BY <1>1, <2>1, <2>2, <2>4, <2>5, <2>6, <2>7 DEF HandleRead
<1>2. CASE ReadFails
  BY <1>2 DEF TypeOK, ReadFails, net, flags, history
<1>3. ASSUME NEW w \in writes, WriteDone(w) \/ WriteFails(w)
      PROVE  TypeOK'
  BY <1>3 DEF TypeOK, WriteDone, WriteFails, net, flags, history
<1>4. CASE UNCHANGED vars
  BY <1>4 DEF TypeOK, vars
<1>. QED BY <1>1, <1>2, <1>3, <1>4 DEF Next

(* Every variable of the connection keeps its type.                        *)
THEOREM TypeCorrect == Spec => []TypeOK
<1>1. Init => TypeOK
  <2>. SUFFICES ASSUME Init PROVE TypeOK
    OBVIOUS
  <2>1. Total(client) \in Nat
    BY ClientProperties DEF Init
  <2>2. got \in 0 .. Total(client) /\ m_nBodyLen \in Int /\ parser \in ParserStates
    BY <2>1, RawBodyLenAssumption DEF Init, ParserStates
  <2>3. m_strData \in Seq(Nat) /\ handled \in Seq(Seq(Nat))
    BY EmptySeq DEF Init
  <2>4. /\ hdrSegment \in [from: Nat, to: Nat] /\ reads \in Nat /\ replyVersion \in Nat
        /\ request_ \in [keep: BOOLEAN, hasLen: BOOLEAN, body: Nat]
    BY DEF Init
  <2>. QED BY <2>2, <2>3, <2>4 DEF Init, TypeOK
<1>2. TypeOK /\ [Next]_vars => TypeOK'
  BY TypeStep
<1>. QED BY <1>1, <1>2, PTL DEF Spec

(***************************************************************************)
(* The control invariant.  One read is outstanding or none; the flags are  *)
(* set only by a completed parse, so the parser can no longer ask for more *)
(* once a connection is keep-alive; a connection that is not keep-alive    *)
(* has either a read outstanding or its reply under way; and request_      *)
(* holds nothing, or what the first header said, for ever after.           *)
(***************************************************************************)
Collected ==
  IF parser = "expecting_newline_3"
  THEN /\ request_.keep <=> client.first.keep
       /\ request_.hasLen <=> client.first.hasLen
       /\ client.first.hasLen => request_.body = client.first.body
  ELSE ~request_.keep /\ ~request_.hasLen

Control ==
  /\ Collected
  /\ reads > 0 /\ parser # "expecting_newline_3" => got < client.first.hdr
  /\ ReplyEndsAsBegun
  /\ reads \in {0, 1}
  /\ m_bKeepAlive \/ m_bKeepRead => parser = "expecting_newline_3"
  /\ m_bKeepAlive => client.first.keep
  /\ shut => ~m_bKeepAlive
  /\ ~m_bKeepAlive /\ (writes # {} \/ shut) => reads = 0
  /\ ~client.first.keep =>
       /\ reads > 0 => Len(handled) = 0 /\ replyVersion = 0
       /\ Len(handled) <= 1 /\ replyVersion <= 1

ControlInv == TypeOK /\ Control

(* One call of the callback, at most one reply.                            *)
LEMMA ServeCounts ==
  ASSUME TypeOK, NEW body \in Seq(Nat), NEW keep \in BOOLEAN, Serve(body, keep)
  PROVE  /\ Len(handled') = Len(handled) + 1
         /\ replyVersion' \in {replyVersion, replyVersion + 1}
<1>1. Len(handled') = Len(handled) + 1
  <2>. DEFINE T == Seq(Nat)
  <2>1. handled \in Seq(T) /\ body \in T /\ handled' = Append(handled, body)
    BY DEF TypeOK, Serve
  <2>. HIDE DEF T
  <2>. QED BY <2>1, AppendProperties
<1>2. replyVersion' \in {replyVersion, replyVersion + 1}
  BY DEF Serve, WriteReply
<1>. QED BY <1>1, <1>2

(* A completed parse finds the first header, now or again, and nothing     *)
(* else: in expecting_newline_3 the parser adds no headers to request_.    *)
LEMMA HeadersOfFirst ==
  ASSUME ControlInv, reads > 0
  PROVE  /\ RequestAfter.keep <=> client.first.keep
         /\ RequestAfter.hasLen <=> client.first.hasLen
         /\ client.first.hasLen => RequestAfter.body = client.first.body
         /\ BodyLenAfter = IF client.first.hasLen THEN client.first.body ELSE m_nBodyLen
<1>. USE DEF ControlInv, Control, Collected
<1>1. CASE parser = "expecting_newline_3"
  BY <1>1 DEF RequestAfter, BodyLenAfter
<1>2. CASE parser # "expecting_newline_3"
  <2>1. client.first.hdr \in Nat /\ client.first.body \in Nat /\ got \in Nat
    BY ClientProperties DEF TypeOK, Request
  <2>2. got < Size(client.first)
    BY <1>2, <2>1 DEF Size
  <2>3. Parsed = client.first
    BY <2>2 DEF Parsed
  <2>. QED BY <1>2, <2>3 DEF RequestAfter, BodyLenAfter
<1>. QED BY <1>1, <1>2

(* A reply begins under the flag that holds from then on.                  *)
LEMMA ReplyBegins ==
  ASSUME TypeOK, ReplyEndsAsBegun, NEW body, NEW keep \in BOOLEAN,
         Serve(body, keep) \/ \E kind : WriteReply(kind, keep),
         m_bKeepAlive' = keep, writes = {} \/ m_bKeepAlive = keep
  PROVE  ReplyEndsAsBegun'
<1>1. PICK kind, version :
        writes' = writes \cup {[kind |-> kind, version |-> version, keep |-> keep]}
  BY DEF Serve, WriteReply
<1>2. ASSUME NEW w \in writes', w.kind # "async"
      PROVE  w.keep = m_bKeepAlive'
  <2>1. CASE w \in writes
    BY <1>2, <2>1 DEF ReplyEndsAsBegun
  <2>2. CASE w = [kind |-> kind, version |-> version, keep |-> keep]
    BY <2>2
  <2>. QED BY <1>1, <2>1, <2>2
<1>. QED BY <1>2 DEF ReplyEndsAsBegun

(* A handler keeps the control invariant.                                  *)
LEMMA ControlStep ==
  ASSUME ControlInv, [Next]_vars
  PROVE  Control'
<1>. USE DEF ControlInv
<1>0. replyVersion \in Nat /\ Len(handled) \in Nat /\ m_bKeepAlive \in BOOLEAN
      /\ client.first.keep \in BOOLEAN /\ client.first.hdr \in Nat /\ got \in Nat
  BY LenProperties, ClientProperties DEF TypeOK, Request
<1>1. ASSUME NEW n \in 1 .. BufSize, NEW newline \in BOOLEAN, HandleRead(n, newline)
      PROVE  Control'
  <2>0. ASSUME Receive(n)
        PROVE  reads = 1 /\ ~shut /\ client' = client /\ shut' = shut /\ got' = got + n
               /\ (m_bKeepAlive \/ writes = {})
               /\ (~client.first.keep => Len(handled) = 0 /\ replyVersion = 0)
    BY <1>0, <2>0 DEF Receive, Control
  <2>1. CASE KeepReading(n)
    BY <2>0, <2>1 DEF Control, Collected, ReplyEndsAsBegun, KeepReading, flags, history
  <2>2. CASE FinishBody(n)
    <3>. DEFINE all == m_strData \o Segment(n)
                body == LastUnits(all, m_nBodyLen)
    <3>1. Receive(n) /\ Len(all) = m_nBodyLen /\ Serve(body, m_bKeepAlive) /\ m_bKeepRead
      BY <2>2 DEF FinishBody
    <3>2. m_nBodyLen \in Nat /\ all \in Seq(Nat)
      BY <3>1, ReceiveType, LenProperties
    <3>3. body \in Seq(Nat)
      BY <3>2, LastUnitsProperties
    <3>4. /\ reads' = 0 /\ parser' = parser /\ request_' = request_
          /\ m_bKeepAlive' = m_bKeepAlive /\ ~m_bKeepRead'
      BY <2>0, <2>2, <3>1 DEF FinishBody
    <3>5. ReplyEndsAsBegun'
      BY <1>0, <3>1, <3>4, ReplyBegins DEF Control
    <3>6. Collected'
      BY <2>0, <3>1, <3>4 DEF Control, Collected
    <3>7. Len(handled') = Len(handled) + 1 /\ replyVersion' \in {replyVersion, replyVersion + 1}
      BY <1>0, <3>1, <3>3, ServeCounts
    <3>. QED BY <1>0, <2>0, <3>1, <3>4, <3>5, <3>6, <3>7 DEF Control
  <2>3. ASSUME ParseRequest(n, newline)
        PROVE  /\ Receive(n)
               /\ parser' = "expecting_newline_3"
               /\ request_' = RequestAfter
               /\ m_bKeepAlive' = RequestAfter.keep
               /\ m_bKeepAlive' \in BOOLEAN
               /\ m_bKeepAlive' <=> client.first.keep
               /\ writes = {} \/ m_bKeepAlive = m_bKeepAlive'
               /\ Collected'
    <3>1. /\ Receive(n) /\ parser' = "expecting_newline_3" /\ request_' = RequestAfter
          /\ m_bKeepAlive' = RequestAfter.keep
      BY <2>3 DEF ParseRequest, ParserAfter
    <3>2. /\ RequestAfter.keep \in BOOLEAN
          /\ RequestAfter.keep <=> client.first.keep
          /\ RequestAfter.hasLen <=> client.first.hasLen
          /\ client.first.hasLen => RequestAfter.body = client.first.body
      BY <2>0, <3>1, RequestType, HeadersOfFirst
    <3>3. m_bKeepAlive => RequestAfter.keep
      BY <3>2 DEF Control
    <3>4. m_bKeepAlive => m_bKeepAlive = m_bKeepAlive'
      BY <1>0, <3>1, <3>2, <3>3, Zenon
    <3>. QED BY <2>0, <3>1, <3>2, <3>4 DEF Collected
  <2>4. CASE AwaitBody(n, newline)
    <3>1. ParseRequest(n, newline) /\ writes' = writes
      BY <2>4 DEF AwaitBody
    <3>2. ReplyEndsAsBegun'
      BY <2>3, <3>1 DEF Control, ReplyEndsAsBegun
    <3>. QED BY <1>0, <2>0, <2>3, <2>4, <3>1, <3>2 DEF Control, AwaitBody
  <2>5. CASE ServeRequest(n, newline)
    <3>. DEFINE body == LastUnits(m_strData \o Segment(n), BodyLenAfter)
    <3>1. /\ ParseRequest(n, newline) /\ Receive(n) /\ ~m_bKeepRead'
          /\ Serve(body, RequestAfter.keep)
      BY <2>3, <2>5 DEF ServeRequest
    <3>2. BodyLenAfter \in Nat
      BY <2>5, BodyLenType DEF ServeRequest, Exceeds
    <3>3. body \in Seq(Nat)
      BY <3>1, <3>2, ReceiveType, LastUnitsProperties
    <3>4. reads' = IF client.first.keep THEN 1 ELSE 0
      BY <2>0, <2>3, <2>5, <3>1 DEF ServeRequest
    <3>5. ReplyEndsAsBegun'
      <4>1. Serve(body, m_bKeepAlive')
        BY <2>3, <3>1
      <4>. QED BY <2>3, <3>1, <4>1, ReplyBegins DEF Control
    <3>6. Len(handled') = Len(handled) + 1 /\ replyVersion' \in {replyVersion, replyVersion + 1}
      BY <2>3, <3>1, <3>3, ServeCounts
    <3>. QED BY <1>0, <2>0, <2>3, <3>1, <3>4, <3>5, <3>6 DEF Control
  <2>6. CASE RejectRequest(n, newline)
    <3>1. /\ Receive(n) /\ WriteReply("bad_request", m_bKeepAlive)
          /\ UNCHANGED <<parser, request_, m_bKeepAlive, m_bKeepRead, handled>>
          /\ reads' = IF m_bKeepAlive THEN reads ELSE reads - 1
      BY <2>6 DEF RejectRequest, flags, history
    <3>2. ReplyEndsAsBegun'
      BY <1>0, <3>1, ReplyBegins DEF Control
    <3>3. Collected'
      BY <2>0, <3>1 DEF Control, Collected
    <3>4. replyVersion' = replyVersion + 1
      BY <3>1 DEF WriteReply
    <3>. QED BY <1>0, <2>0, <3>1, <3>2, <3>3, <3>4 DEF Control
  <2>7. CASE ReadMoreHeader(n, newline)
    <3>1. parser # "expecting_newline_3"
      BY <2>7 DEF ReadMoreHeader, ParseResult
    <3>2. /\ Receive(n) /\ parser' = "partial" /\ reads' = reads
          /\ ~(got < HeaderEnd /\ got + n >= HeaderEnd)
          /\ UNCHANGED <<request_, m_bKeepAlive, m_bKeepRead, writes, handled, replyVersion>>
      BY <2>7, <3>1 DEF ReadMoreHeader, ParseResult, ParserAfter, Control, history
    <3>3. got' < client.first.hdr
      <4>1. got < client.first.hdr /\ client.first.body \in Nat /\ n \in Nat
        BY <2>0, <3>1, <3>2, ClientProperties, BufSizeAssumption DEF Control, Request, TypeOK
      <4>2. HeaderEnd = client.first.hdr
        BY <1>0, <4>1 DEF HeaderEnd, Size
      <4>. QED BY <1>0, <2>0, <3>2, <4>1, <4>2
    <3>4. Collected' /\ ReplyEndsAsBegun'
      BY <2>0, <3>1, <3>2 DEF Control, Collected, ReplyEndsAsBegun
    <3>. QED BY <1>0, <2>0, <3>1, <3>2, <3>3, <3>4 DEF Control
  <2>. QED BY <1>1, <2>1, <2>2, <2>4, <2>5, <2>6, <2>7 DEF HandleRead
<1>2. CASE ReadFails
  BY <1>0, <1>2 DEF Control, Collected, ReplyEndsAsBegun, ReadFails, net, flags, history
<1>3. ASSUME NEW w \in writes, WriteDone(w) \/ WriteFails(w)
      PROVE  Control'
  <2>1. /\ reads' = reads /\ parser' = parser /\ client' = client /\ got' = got
        /\ request_' = request_ /\ writes' \subseteq writes
        /\ m_bKeepAlive' = m_bKeepAlive /\ m_bKeepRead' = m_bKeepRead
        /\ replyVersion' = replyVersion /\ handled' = handled
        /\ writes # {}
    BY <1>3 DEF WriteDone, WriteFails, net, flags, history
  <2>2. shut' => shut \/ ~m_bKeepAlive
    BY <1>3 DEF WriteDone, WriteFails
  <2>. QED BY <1>0, <2>1, <2>2 DEF Control, Collected, ReplyEndsAsBegun
<1>4. CASE UNCHANGED vars
  BY <1>4 DEF Control, Collected, ReplyEndsAsBegun, vars
<1>. QED BY <1>1, <1>2, <1>3, <1>4 DEF Next

(* The control invariant holds throughout.                                 *)
LEMMA ControlInvariant == Spec => []ControlInv
<1>1. Init => Control
  BY ClientProperties, EmptySeq DEF Init, Control, Collected, ReplyEndsAsBegun
<1>2. ControlInv /\ [Next]_vars => Control'
  BY ControlStep
<1>. QED BY <1>1, <1>2, TypeCorrect, PTL DEF Spec, ControlInv

(* handle_read never has two reads outstanding on the one buffer_,         *)
(* however the bytes are cut and whatever the client asks for.             *)
THEOREM OneReadAtATime == Spec => []AtMostOneRead
<1>1. ControlInv => AtMostOneRead
  BY DEF ControlInv, Control, AtMostOneRead
<1>. QED BY <1>1, ControlInvariant, PTL

(* handle_write never shuts down a socket under a read in flight.          *)
THEOREM ShutSocketIsNotRead == Spec => []NoReadOnShutSocket
<1>1. ControlInv => NoReadOnShutSocket
  BY DEF ControlInv, Control, NoReadOnShutSocket
<1>. QED BY <1>1, ControlInvariant, PTL

(* Without keep-alive there is one callback and one reply.                 *)
THEOREM OneExchangeOnly == Spec => []OneExchange
<1>1. ControlInv => OneExchange
  BY DEF ControlInv, Control, OneExchange
<1>. QED BY <1>1, ControlInvariant, PTL

(* handle_write closes the connection, or leaves it open, as it was when   *)
(* the reply began: handle_read clears the flag for each segment that      *)
(* comes meanwhile, but finds the headers of the first request again.      *)
THEOREM RepliesEndAsBegun == Spec => []ReplyEndsAsBegun
<1>1. ControlInv => ReplyEndsAsBegun
  BY DEF ControlInv, Control
<1>. QED BY <1>1, ControlInvariant, PTL

(***************************************************************************)
(* The data invariant.  Before the first header is complete nothing is     *)
(* kept in m_strData; while the body of a cleanly cut request is awaited,  *)
(* m_strData holds exactly the body units read so far.                     *)
(***************************************************************************)
Data ==
  /\ hdrSegment.to = 0 <=> parser # "expecting_newline_3"
  /\ hdrSegment.to = 0 => handled = <<>> /\ m_strData = <<>>
  /\ hdrSegment.to # 0 => /\ hdrSegment.from < client.first.hdr
                          /\ client.first.hdr <= hdrSegment.to
                          /\ hdrSegment.to <= got
  /\ CleanlyCut /\ handled = <<>> =>
       /\ m_bKeepRead
       /\ hdrSegment.to = client.first.hdr
       /\ m_nBodyLen = client.first.body
       /\ Len(m_strData) = got - client.first.hdr
       /\ Len(m_strData) # client.first.body
       /\ \A j \in 1 .. Len(m_strData) : m_strData[j] = client.first.hdr + j
  /\ BodyIntact

DataInv == ControlInv /\ Data

(* The first body handed over stays the first.                             *)
LEMMA FirstBodyStays ==
  ASSUME TypeOK, NEW body \in Seq(Nat), NEW keep \in BOOLEAN, Serve(body, keep)
  PROVE  /\ handled' # <<>>
         /\ handled # <<>> => handled'[1] = handled[1]
         /\ handled = <<>> => handled'[1] = body
<1>1. handled \in Seq(Seq(Nat)) /\ handled' = Append(handled, body)
  BY DEF TypeOK, Serve
<1>2. handled # <<>> => Len(handled) \in Nat \ {0}
  BY <1>1, EmptySeq
<1>. QED BY <1>1, <1>2, AppendProperties, EmptySeq

(* The units of a cleanly cut request a handler passes on are its body.    *)
LEMMA SameBody ==
  ASSUME TypeOK, NEW s \in Seq(Nat), Len(s) = client.first.body,
         \A j \in 1 .. Len(s) : s[j] = client.first.hdr + j
  PROVE  s = [j \in 1 .. client.first.body |-> client.first.hdr + j]
<1>1. s \in [1 .. Len(s) -> Nat]
  BY LenProperties
<1>. QED BY <1>1

(* Where the parse of the first request ends, and what is true then.       *)
LEMMA FirstParse ==
  ASSUME DataInv, NEW n \in 1 .. BufSize, NEW newline \in BOOLEAN,
         ParseRequest(n, newline), hdrSegment.to = 0
  PROVE  /\ got < client.first.hdr
         /\ client.first.hdr <= got + n
         /\ hdrSegment' = [from |-> got, to |-> got + n]
         /\ handled = <<>> /\ m_strData = <<>>
<1>1. got < client.first.hdr
  BY DEF DataInv, ControlInv, Control, Data, ParseRequest, Receive
<1>2. client.first.hdr \in Nat /\ client.first.body \in Nat /\ got \in Nat /\ n \in Nat
  BY ClientProperties, BufSizeAssumption DEF DataInv, ControlInv, TypeOK, Request
<1>3. got < Size(client.first) /\ HeaderEnd = client.first.hdr
  BY <1>1, <1>2 DEF HeaderEnd, Size
<1>4. parser # "expecting_newline_3"
  BY DEF DataInv, Data
<1>5. client.first.hdr <= got + n
  BY <1>2, <1>3, <1>4 DEF ParseRequest, ParseResult
<1>. QED BY <1>1, <1>5 DEF DataInv, Data, ParseRequest

(* Consecutive units appended to consecutive units are consecutive.        *)
LEMMA Consecutive ==
  ASSUME NEW s \in Seq(Nat), NEW t \in Seq(Nat), NEW a \in Nat,
         \A j \in 1 .. Len(s) : s[j] = a + j,
         \A j \in 1 .. Len(t) : t[j] = a + Len(s) + j
  PROVE  /\ s \o t \in Seq(Nat)
         /\ Len(s \o t) = Len(s) + Len(t)
         /\ \A j \in 1 .. Len(s \o t) : (s \o t)[j] = a + j
<1>1. Len(s) \in Nat /\ Len(t) \in Nat
  BY LenProperties
<1>2. /\ s \o t \in Seq(Nat)
      /\ Len(s \o t) = Len(s) + Len(t)
      /\ \A i \in 1 .. Len(s) + Len(t) :
           (s \o t)[i] = IF i <= Len(s) THEN s[i] ELSE t[i - Len(s)]
  BY ConcatProperties
<1>3. ASSUME NEW j \in 1 .. Len(s) + Len(t), ~(j <= Len(s))
      PROVE  t[j - Len(s)] = a + j
  <2>1. j - Len(s) \in 1 .. Len(t)
    BY <1>1, <1>3
  <2>. QED BY <1>1, <2>1
<1>. QED BY <1>1, <1>2, <1>3

(* A segment continues the units read before it.                           *)
LEMMA ContinueSegment ==
  ASSUME got \in Nat, NEW n \in Nat, NEW s \in Seq(Nat), NEW a \in Nat,
         Len(s) = got - a,
         \A j \in 1 .. Len(s) : s[j] = a + j
  PROVE  /\ Len(s \o Segment(n)) = got + n - a
         /\ \A j \in 1 .. Len(s \o Segment(n)) : (s \o Segment(n))[j] = a + j
<1>1. /\ Segment(n) \in Seq(Nat) /\ Len(Segment(n)) = n
      /\ \A j \in 1 .. n : Segment(n)[j] = got + j
  BY SegmentProperties
<1>2. \A j \in 1 .. Len(Segment(n)) : Segment(n)[j] = a + Len(s) + j
  BY <1>1
<1>. QED BY <1>1, <1>2, Consecutive

(* The last units of a segment.                                            *)
LEMMA SegmentSuffix ==
  ASSUME got \in Nat, NEW n \in Nat, NEW len \in 0 .. n
  PROVE  /\ Len(LastUnits(Segment(n), len)) = len
         /\ \A j \in 1 .. len : LastUnits(Segment(n), len)[j] = got + n - len + j
<1>1. /\ Segment(n) \in Seq(Nat) /\ Len(Segment(n)) = n
      /\ \A j \in 1 .. n : Segment(n)[j] = got + j
  BY SegmentProperties
<1>2. /\ Len(LastUnits(Segment(n), len)) = len
      /\ \A j \in 1 .. len : LastUnits(Segment(n), len)[j] = Segment(n)[n - len + j]
  <2>. DEFINE t == Segment(n)
  <2>1. t \in Seq(Nat) /\ Len(t) = n /\ len \in Nat /\ len <= n
    BY <1>1
  <2>. HIDE DEF t
  <2>2. /\ Len(LastUnits(t, len)) = len
        /\ \A j \in 1 .. len : LastUnits(t, len)[j] = t[Len(t) - len + j]
    BY <2>1, LastUnitsProperties
  <2>. QED BY <2>1, <2>2 DEF t
<1>3. \A j \in 1 .. len : n - len + j \in 1 .. n
  OBVIOUS
<1>. QED BY <1>1, <1>2, <1>3

(* LastUnits of the full length is the whole sequence.                     *)
LEMMA LastUnitsFull ==
  ASSUME NEW s \in Seq(Nat)
  PROVE  LastUnits(s, Len(s)) = s
BY LenProperties, SubSeqFull DEF LastUnits

(* A handler keeps the data invariant.                                     *)
LEMMA DataStep ==
  ASSUME DataInv, ControlInv', [Next]_vars
  PROVE  Data'
<1>. USE DEF DataInv, ControlInv
<1>0. /\ client.first.hdr \in Nat /\ client.first.body \in Nat
      /\ Size(client.first) = client.first.hdr + client.first.body
      /\ got \in Nat /\ hdrSegment.from \in Nat /\ hdrSegment.to \in Nat
      /\ reads \in {0, 1}
  BY ClientProperties DEF TypeOK, Request, Size, Control
<1>1. ASSUME NEW n \in 1 .. BufSize, NEW newline \in BOOLEAN, HandleRead(n, newline)
      PROVE  Data'
  <2>0. ASSUME Receive(n)
        PROVE  client' = client /\ got' = got + n /\ n \in Nat \ {0} /\ reads = 1
               /\ Segment(n) \in Seq(Nat) /\ Len(Segment(n)) = n
               /\ \A j \in 1 .. n : Segment(n)[j] = got + j
    <3>1. client' = client /\ got' = got + n /\ n \in Nat \ {0} /\ reads = 1
      BY <1>0, <2>0, BufSizeAssumption DEF Receive
    <3>. QED BY <1>0, <3>1, SegmentProperties
  <2>1. CASE KeepReading(n)
    <3>. DEFINE all == m_strData \o Segment(n)
    <3>1. /\ Receive(n) /\ m_strData' = all /\ Len(all) # m_nBodyLen
          /\ parser' = parser /\ m_bKeepRead /\ m_bKeepRead' /\ m_nBodyLen' = m_nBodyLen
          /\ handled' = handled /\ hdrSegment' = hdrSegment /\ reads' = reads
      BY <2>1 DEF KeepReading, flags, history
    <3>2. parser = "expecting_newline_3" /\ hdrSegment.to # 0
      BY <3>1 DEF Data, Control
    <3>3. CleanlyCut' <=> CleanlyCut
      BY <2>0, <3>1 DEF CleanlyCut
    <3>4. BodyIntact'
      BY <2>0, <3>1, <3>3 DEF Data, BodyIntact
    <3>5. ASSUME CleanlyCut, handled = <<>>
          PROVE  /\ Len(m_strData') = got' - client.first.hdr
                 /\ \A j \in 1 .. Len(m_strData') : m_strData'[j] = client.first.hdr + j
      <4>1. /\ m_strData \in Seq(Nat) /\ Len(m_strData) = got - client.first.hdr
            /\ \A j \in 1 .. Len(m_strData) : m_strData[j] = client.first.hdr + j
        BY <3>5 DEF Data, TypeOK
      <4>2. client.first.hdr \in Nat /\ n \in Nat /\ got \in Nat /\ got' = got + n
        BY <1>0, <2>0, <3>1
      <4>3. /\ Len(all) = got + n - client.first.hdr
            /\ \A j \in 1 .. Len(all) : all[j] = client.first.hdr + j
        BY <4>1, <4>2, ContinueSegment
      <4>. HIDE DEF all
      <4>. QED BY <3>1, <4>2, <4>3
    <3>6. /\ client' = client /\ m_nBodyLen' = m_nBodyLen /\ Len(m_strData') # m_nBodyLen
          /\ hdrSegment.to <= got => hdrSegment.to <= got'
      BY <1>0, <2>0, <3>1
    <3>. HIDE DEF all
    <3>. QED BY <3>1, <3>2, <3>3, <3>4, <3>5, <3>6 DEF Data
  <2>2. CASE FinishBody(n)
    <3>. DEFINE all == m_strData \o Segment(n)
                body == LastUnits(all, m_nBodyLen)
    <3>1. /\ Receive(n) /\ Len(all) = m_nBodyLen /\ Serve(body, m_bKeepAlive)
          /\ m_bKeepAlive \in BOOLEAN
          /\ parser' = parser /\ m_bKeepRead /\ hdrSegment' = hdrSegment
      BY <2>2 DEF FinishBody, TypeOK
    <3>2. parser = "expecting_newline_3" /\ hdrSegment.to # 0
      BY <3>1 DEF Data, Control
    <3>3. CleanlyCut' <=> CleanlyCut
      BY <2>0, <3>1 DEF CleanlyCut
    <3>4. all \in Seq(Nat) /\ m_nBodyLen \in Nat
      BY <3>1, ReceiveType, LenProperties
    <3>5. body = all
      BY <3>1, <3>4, LastUnitsFull
    <3>6. ASSUME CleanlyCut, handled = <<>>
          PROVE  body = [j \in 1 .. client.first.body |-> client.first.hdr + j]
      <4>1. /\ m_strData \in Seq(Nat) /\ Len(m_strData) = got - client.first.hdr
            /\ \A j \in 1 .. Len(m_strData) : m_strData[j] = client.first.hdr + j
            /\ m_nBodyLen = client.first.body
        BY <3>6 DEF Data, TypeOK
      <4>2. client.first.hdr \in Nat /\ n \in Nat /\ got \in Nat
        BY <1>0, <2>0, <3>1
      <4>3. \A j \in 1 .. Len(all) : all[j] = client.first.hdr + j
        BY <4>1, <4>2, ContinueSegment
      <4>. HIDE DEF all
      <4>4. all = [j \in 1 .. client.first.body |-> client.first.hdr + j]
        BY <3>1, <3>4, <4>1, <4>3, SameBody
      <4>. QED BY <3>5, <4>4
    <3>7. /\ handled' # <<>>
          /\ handled # <<>> => handled'[1] = handled[1]
          /\ handled = <<>> => handled'[1] = body
      BY <3>1, <3>4, <3>5, FirstBodyStays
    <3>8. BodyIntact'
      BY <2>0, <3>1, <3>3, <3>6, <3>7 DEF Data, BodyIntact
    <3>. HIDE DEF all, body
    <3>. QED BY <1>0, <2>0, <3>1, <3>2, <3>7, <3>8 DEF Data
  <2>3. CASE ParseRequest(n, newline) /\ AwaitBody(n, newline)
    <3>1. /\ Receive(n) /\ parser' = "expecting_newline_3" /\ m_nBodyLen' = BodyLenAfter
          /\ hdrSegment' = IF hdrSegment.to = 0 THEN [from |-> got, to |-> got + n]
                                                ELSE hdrSegment
          /\ Exceeds(BodyLenAfter, n) /\ m_bKeepRead'
          /\ m_strData' = m_strData /\ handled' = handled /\ ~m_bKeepRead
      BY <2>3 DEF ParseRequest, ParserAfter, AwaitBody
    <3>2. CASE hdrSegment.to = 0
      <4>1. /\ got < client.first.hdr /\ client.first.hdr <= got + n
            /\ hdrSegment'.from = got /\ hdrSegment'.to = got + n
            /\ handled = <<>> /\ m_strData = <<>>
        BY <2>3, <3>2, FirstParse
      <4>2. ASSUME CleanlyCut'
            PROVE  /\ hdrSegment'.to = client.first.hdr
                   /\ m_nBodyLen' = client.first.body
                   /\ client.first.body > 0
        BY <1>0, <2>0, <3>1, <4>1, <4>2, HeadersOfFirst DEF CleanlyCut, Exceeds
      <4>. QED BY <1>0, <2>0, <3>1, <4>1, <4>2, EmptySeq DEF Data, BodyIntact
    <3>3. CASE hdrSegment.to # 0
      <4>1. CleanlyCut' <=> CleanlyCut
        BY <2>0, <3>1, <3>3 DEF CleanlyCut
      <4>. QED BY <1>0, <2>0, <3>1, <3>3, <4>1 DEF Data, BodyIntact
    <3>. QED BY <3>2, <3>3
  <2>4. CASE ParseRequest(n, newline) /\ ServeRequest(n, newline)
    <3>. DEFINE all == m_strData \o Segment(n)
                body == LastUnits(all, BodyLenAfter)
    <3>1. /\ Receive(n) /\ parser' = "expecting_newline_3"
          /\ hdrSegment' = IF hdrSegment.to = 0 THEN [from |-> got, to |-> got + n]
                                                ELSE hdrSegment
          /\ ~Exceeds(BodyLenAfter, n) /\ Serve(body, RequestAfter.keep) /\ ~m_bKeepRead
          /\ RequestAfter.keep \in BOOLEAN
      BY <2>4, RequestType DEF ParseRequest, ParserAfter, ServeRequest
    <3>2. all \in Seq(Nat) /\ BodyLenAfter \in Nat /\ BodyLenAfter <= n
      BY <2>0, <3>1, ReceiveType, BodyLenType DEF Exceeds
    <3>3. body \in Seq(Nat)
      BY <3>2, LastUnitsProperties
    <3>4. handled' # <<>>
      BY <3>1, <3>3, FirstBodyStays
    <3>5. CASE hdrSegment.to = 0
      <4>1. /\ got < client.first.hdr /\ client.first.hdr <= got + n
            /\ hdrSegment'.from = got /\ hdrSegment'.to = got + n
            /\ handled = <<>> /\ m_strData = <<>>
        BY <2>4, <3>5, FirstParse
      <4>2. all = Segment(n)
        BY <2>0, <3>1, <4>1, ConcatEmptySeq
      <4>3. ASSUME CleanlyCut'
            PROVE  body = [j \in 1 .. client.first.body |-> client.first.hdr + j]
        <5>1. BodyLenAfter = client.first.body /\ got + n = Size(client.first)
          BY <1>0, <2>0, <3>1, <3>2, <4>1, <4>3, HeadersOfFirst DEF CleanlyCut
        <5>2. Len(body) = client.first.body
              /\ \A j \in 1 .. Len(body) : body[j] = client.first.hdr + j
          <6>1. n \in Nat /\ got \in Nat /\ client.first.body \in 0 .. n
            BY <1>0, <2>0, <3>1, <3>2, <5>1
          <6>2. body = LastUnits(Segment(n), client.first.body)
            BY <4>2, <5>1
          <6>. HIDE DEF body
          <6>3. /\ Len(body) = client.first.body
                /\ \A j \in 1 .. client.first.body :
                     body[j] = got + n - client.first.body + j
            BY <6>1, <6>2, SegmentSuffix
          <6>4. got + n - client.first.body = client.first.hdr
            BY <1>0, <5>1, <6>1
          <6>. QED BY <6>3, <6>4
        <5>. QED BY <3>3, <5>2, SameBody
      <4>4. BodyIntact'
        BY <2>0, <3>1, <3>3, <4>1, <4>3, FirstBodyStays DEF BodyIntact
      <4>. QED BY <1>0, <2>0, <3>1, <3>4, <4>1, <4>4 DEF Data
    <3>6. CASE hdrSegment.to # 0
      <4>1. CleanlyCut' <=> CleanlyCut
        BY <2>0, <3>1, <3>6 DEF CleanlyCut
      <4>2. BodyIntact'
        BY <2>0, <3>1, <3>3, <4>1, FirstBodyStays DEF Data, BodyIntact
      <4>. QED BY <1>0, <2>0, <3>1, <3>4, <3>6, <4>2 DEF Data
    <3>. QED BY <3>5, <3>6
  <2>5. CASE RejectRequest(n, newline)
    <3>1. /\ Receive(n) /\ parser' = parser /\ ~m_bKeepRead /\ m_bKeepRead' = m_bKeepRead
          /\ handled' = handled /\ hdrSegment' = hdrSegment /\ m_strData' = m_strData
          /\ (~m_bKeepAlive => reads' = 0)
      BY <1>0, <2>0, <2>5 DEF RejectRequest, flags, history
    <3>2. CleanlyCut' <=> CleanlyCut
      BY <2>0, <3>1 DEF CleanlyCut
    <3>. QED BY <1>0, <2>0, <3>1, <3>2 DEF Data, Control, BodyIntact
  <2>6. CASE ReadMoreHeader(n, newline)
    <3>1. /\ Receive(n) /\ parser' = "partial" /\ ~m_bKeepRead
          /\ handled' = handled /\ hdrSegment' = hdrSegment /\ m_strData' = m_strData
          /\ parser # "expecting_newline_3" /\ ~(got < HeaderEnd /\ got + n >= HeaderEnd)
      BY <2>6 DEF ReadMoreHeader, ParseResult, ParserAfter, history
    <3>2. got < client.first.hdr /\ HeaderEnd = client.first.hdr
      BY <1>0, <2>0, <3>1 DEF Control, HeaderEnd
    <3>3. got' < client.first.hdr
      BY <1>0, <2>0, <3>1, <3>2
    <3>4. CleanlyCut' <=> CleanlyCut
      BY <2>0, <3>1 DEF CleanlyCut
    <3>. QED BY <1>0, <2>0, <3>1, <3>3, <3>4 DEF Data, BodyIntact
  <2>. QED BY <1>1, <2>1, <2>2, <2>3, <2>4, <2>5, <2>6
           DEF HandleRead, AwaitBody, ServeRequest
<1>2. ASSUME ReadFails \/ (\E w \in writes : WriteDone(w) \/ WriteFails(w)) \/ UNCHANGED vars
      PROVE  Data'
  <2>1. /\ client' = client /\ got' = got /\ (reads' > 0 => reads > 0) /\ parser' = parser
        /\ m_bKeepRead' = m_bKeepRead /\ m_nBodyLen' = m_nBodyLen
        /\ m_strData' = m_strData /\ handled' = handled /\ hdrSegment' = hdrSegment
    BY <1>0, <1>2 DEF ReadFails, WriteDone, WriteFails, net, flags, history, vars
  <2>2. CleanlyCut' <=> CleanlyCut
    BY <2>1 DEF CleanlyCut
  <2>. QED BY <2>1, <2>2 DEF Data, BodyIntact
<1>. QED BY <1>1, <1>2 DEF Next

(* The data invariant holds throughout.                                    *)
LEMMA DataInvariant == Spec => []DataInv
<1>1. Init => Data
  <2>. SUFFICES ASSUME Init PROVE Data
    OBVIOUS
  <2>1. client.first.hdr > 0 /\ client.first.hdr \in Nat /\ client.first.body \in Nat
    BY ClientProperties DEF Init, Request
  <2>2. ~CleanlyCut
    BY <2>1 DEF Init, CleanlyCut, Size
  <2>. QED BY <2>1, <2>2 DEF Init, Data, BodyIntact
<1>2. DataInv /\ ControlInv' /\ [Next]_vars => Data'
  BY DataStep
<1>. QED BY <1>1, <1>2, ControlInvariant, PTL DEF Spec, DataInv

(* A cleanly cut request is handed over with exactly the body sent.        *)
THEOREM BodyIsIntact == Spec => []BodyIntact
<1>1. DataInv => BodyIntact
  BY DEF DataInv, Data
<1>. QED BY <1>1, DataInvariant, PTL

(* A cleanly cut request never waits for units that have all been read.    *)
THEOREM CompleteIsServed == Spec => []CompleteRequestIsServed
<1>1. DataInv => CompleteRequestIsServed
  <2>. SUFFICES ASSUME DataInv, CleanlyCut, got = Size(client.first)
                PROVE  handled # <<>>
    BY DEF CompleteRequestIsServed
  <2>1. client.first.hdr \in Nat /\ client.first.body \in Nat
    BY ClientProperties DEF DataInv, ControlInv, TypeOK, Request
  <2>. QED BY <2>1 DEF DataInv, Data, Size
<1>. QED BY <1>1, DataInvariant, PTL

-----------------------------------------------------------------------------
(* Without keep-alive the connection implements Exchange.                  *)

Open == Referenced /\ ~shut /\ ~freed

LEMMA ExchangeBegins ==
  ASSUME Init
  PROVE  E!Init
<1>1. Phase = "reading"
  BY DEF Init, Phase
<1>2. Referenced
  BY DEF Init, Referenced
<1>3. (Referenced /\ ~shut /\ ~freed) = TRUE
  BY <1>2, Zenon DEF Init
<1>. QED BY <1>1, <1>3 DEF E!Init

(* How the steps of the connection look to its client.                     *)
LEMMA ExchangeSteps ==
  /\ Phase' = Phase /\ (Open' <=> Open) => UNCHANGED E!vars
  /\ Phase = "reading" /\ Open /\ Phase' = "replying" => E!Reply
  /\ Phase = "replying" /\ Phase' = Phase /\ ~Open' => E!Close
  /\ Phase' = "over" /\ ~Open' => E!End
<1>1. Phase' = Phase /\ (Open' <=> Open) => UNCHANGED E!vars
  BY Zenon DEF Open, E!vars
<1>2. Phase = "reading" /\ Open /\ Phase' = "replying" => E!Reply
  <2>1. Open => (Referenced /\ ~shut /\ ~freed)' \in {Referenced /\ ~shut /\ ~freed, FALSE}
    BY Zenon DEF Open
  <2>. QED BY <2>1 DEF E!Reply
<1>3. ~Open' => (Referenced /\ ~shut /\ ~freed)' = FALSE
  BY Zenon DEF Open
<1>. QED BY <1>1, <1>2, <1>3 DEF E!Close, E!End

LEMMA ExchangeStep ==
  ASSUME ControlInv, ControlInv', ~client.first.keep, [Next]_vars
  PROVE  [E!Next]_(E!vars)
<1>1. /\ ~m_bKeepAlive /\ reads \in {0, 1}
      /\ writes # {} \/ shut => reads = 0
  BY DEF ControlInv, Control
<1>2. ASSUME NEW n \in 1 .. BufSize, NEW newline \in BOOLEAN, HandleRead(n, newline)
      PROVE  [E!Next]_(E!vars)
  <2>1. Receive(n)
    BY <1>2 DEF HandleRead, KeepReading, FinishBody, AwaitBody, ServeRequest, ParseRequest,
       RejectRequest, ReadMoreHeader
  <2>2. reads = 1 /\ writes = {} /\ ~shut /\ ~freed /\ ~shut' /\ client' = client
    BY <1>1, <2>1 DEF Receive
  <2>3. Phase = "reading" /\ Open
    BY <2>2 DEF Phase, Open, Referenced
  <2>4. CASE FinishBody(n) \/ ServeRequest(n, newline) \/ RejectRequest(n, newline)
    <3>1. writes' # {}
      BY <2>4 DEF FinishBody, ServeRequest, RejectRequest, Serve, WriteReply
    <3>2. Phase' = "replying"
      BY <3>1 DEF Phase
    <3>. QED BY <2>3, <3>2, ExchangeSteps DEF E!Next
  <2>5. CASE KeepReading(n) \/ AwaitBody(n, newline) \/ ReadMoreHeader(n, newline)
    <3>1. reads' = reads /\ writes' = writes /\ freed' = freed
      BY <1>1, <2>5 DEF KeepReading, AwaitBody, ReadMoreHeader
    <3>2. Phase' = Phase /\ Open'
      BY <2>2, <3>1 DEF Phase, Open, Referenced
    <3>. QED BY <2>3, <3>2, ExchangeSteps
  <2>. QED BY <1>2, <2>4, <2>5 DEF HandleRead
<1>3. CASE ReadFails
  <2>1. reads' = 0 /\ writes' = {}
    BY <1>1, <1>3 DEF ReadFails
  <2>2. Phase' = "over" /\ ~Open'
    BY <2>1 DEF Phase, Open, Referenced
  <2>. QED BY <2>2, ExchangeSteps DEF E!Next
<1>4. ASSUME NEW w \in writes, WriteDone(w) \/ WriteFails(w) PROVE [E!Next]_(E!vars)
  <2>1. writes # {} /\ reads = 0 /\ reads' = 0
    BY <1>1, <1>4 DEF WriteDone, WriteFails
  <2>5. ~freed /\ ~freed' /\ (shut => shut')
    <3>1. freed' = freed /\ (WriteFails(w) => shut' = shut)
      BY <1>4 DEF WriteDone, WriteFails
    <3>2. ~freed /\ (WriteDone(w) => (shut => shut'))
      BY <1>4, Zenon DEF WriteDone, WriteFails
    <3>3. {freed, freed', shut, shut'} \subseteq BOOLEAN
      BY DEF ControlInv, TypeOK
    <3>. QED BY <1>4, <3>1, <3>2, <3>3
  <2>2. Phase = "replying"
    BY <2>1 DEF Phase
  <2>3. CASE writes' = {}
    <3>1. Phase' = "over" /\ ~Open'
      BY <2>1, <2>3 DEF Phase, Open, Referenced
    <3>. QED BY <3>1, ExchangeSteps DEF E!Next
  <2>4. CASE writes' # {}
    <3>1. Phase' = Phase /\ (Open' => Open)
      BY <2>1, <2>2, <2>4, <2>5 DEF Phase, Open, Referenced
    <3>. QED BY <2>2, <3>1, ExchangeSteps DEF E!Next
  <2>. QED BY <2>3, <2>4
<1>5. CASE UNCHANGED vars
  <2>1. Phase' = Phase /\ (Open' <=> Open)
    BY <1>5 DEF vars, Phase, Open, Referenced
  <2>. QED BY <2>1, ExchangeSteps
<1>. QED BY <1>2, <1>3, <1>4, <1>5 DEF Next

(* For every client that does not ask for keep-alive, however its bytes    *)
(* are cut and whoever deletes the object: the connection is one exchange, *)
(* and nothing is read after its reply has begun.                          *)
THEOREM WithoutKeepAliveOneExchange ==
  Spec => OneShotIsAnExchange /\ (~client.first.keep => E!Spec)
<1>1. Init => E!Init
  BY ExchangeBegins
<1>2. ControlInv /\ ControlInv' /\ [Next]_vars => [~client.first.keep => [E!Next]_(E!vars)]_vars
  BY ExchangeStep
<1>3. Spec => OneShotIsAnExchange
  BY <1>1, <1>2, ControlInvariant, PTL DEF Spec, OneShotIsAnExchange
<1>4. Spec => (~client.first.keep => E!Spec)
  <2>1. ~client.first.keep /\ [Next]_vars => ~client.first.keep'
    BY DEF Next, vars, HandleRead, KeepReading, FinishBody, AwaitBody, ServeRequest,
       ParseRequest, RejectRequest, ReadMoreHeader, ReadFails, WriteDone, WriteFails,
       Receive, net
  <2>2. ~client.first.keep /\ ControlInv /\ ControlInv' /\ [Next]_vars => [E!Next]_(E!vars)
    BY ExchangeStep
  <2>. QED BY <1>1, <2>1, <2>2, ControlInvariant, PTL DEF Spec, E!Spec
<1>. QED BY <1>3, <1>4
-----------------------------------------------------------------------------
(* What ReleasedAfterReply promises without fairness.                      *)

OneWrite == ~client.first.keep => \A v, w \in writes : v = w

LEMMA OneWriteStep ==
  ASSUME ControlInv, OneWrite, [Next]_vars
  PROVE  OneWrite'
<1>. USE DEF OneWrite
<1>1. ASSUME NEW n \in 1 .. BufSize, NEW newline \in BOOLEAN, HandleRead(n, newline)
      PROVE  OneWrite'
  <2>1. Receive(n)
    BY <1>1 DEF HandleRead, KeepReading, FinishBody, AwaitBody, ServeRequest, ParseRequest,
       RejectRequest, ReadMoreHeader
  <2>2. client' = client /\ (~client.first.keep => writes = {})
    BY <2>1 DEF Receive, ControlInv, Control
  <2>3. writes' = writes \/ \E w : writes' = writes \cup {w}
    <3>1. ASSUME NEW body, NEW keep, Serve(body, keep) PROVE \E w : writes' = writes \cup {w}
      BY <3>1 DEF Serve, WriteReply
    <3>2. ASSUME NEW kind, NEW keep, WriteReply(kind, keep) PROVE \E w : writes' = writes \cup {w}
      BY <3>2 DEF WriteReply
    <3>3. CASE FinishBody(n) \/ ServeRequest(n, newline)
      BY <3>1, <3>3 DEF FinishBody, ServeRequest
    <3>4. CASE RejectRequest(n, newline)
      BY <3>2, <3>4 DEF RejectRequest
    <3>5. CASE KeepReading(n) \/ AwaitBody(n, newline) \/ ReadMoreHeader(n, newline)
      BY <3>5 DEF KeepReading, AwaitBody, ReadMoreHeader
    <3>. QED BY <1>1, <3>3, <3>4, <3>5 DEF HandleRead
  <2>. QED BY <2>2, <2>3
<1>2. CASE ReadFails \/ (\E w \in writes : WriteDone(w) \/ WriteFails(w)) \/ UNCHANGED vars
  <2>1. client' = client /\ writes' \subseteq writes
    BY <1>2 DEF ReadFails, WriteDone, WriteFails, net, vars
  <2>. QED BY <2>1
<1>. QED BY <1>1, <1>2 DEF Next

(* A connection that has answered does nothing more but to let go of       *)
(* itself.                                                                 *)
AnsweredIsReleased ==
  [][handled # <<>> /\ ~client.first.keep => Referenced /\ ~Referenced']_vars

(* The safety part of ReleasedAfterReply: after the callback has been run  *)
(* for a client without keep-alive, the connection has one step left, the  *)
(* completion of its reply, and nothing refers to it afterwards.           *)
THEOREM ReplyIsTheLastStep == Spec => AnsweredIsReleased
<1>1. Init => OneWrite
  BY DEF Init, OneWrite
<1>2. ASSUME ControlInv, OneWrite, Next, handled # <<>>, ~client.first.keep
      PROVE  Referenced /\ ~Referenced'
  <2>1. reads = 0
    <3>1. handled \in Seq(Seq(Nat)) /\ Len(handled) # 0
      BY <1>2, EmptySeq DEF ControlInv, TypeOK
    <3>. QED BY <1>2, <3>1 DEF ControlInv, Control
  <2>2. ~ReadFails /\ \A n \in 1 .. BufSize, newline \in BOOLEAN : ~HandleRead(n, newline)
    BY <2>1 DEF ReadFails, HandleRead, KeepReading, FinishBody, AwaitBody, ServeRequest,
       ParseRequest, RejectRequest, ReadMoreHeader, Receive
  <2>3. PICK w \in writes : WriteDone(w) \/ WriteFails(w)
    BY <1>2, <2>2 DEF Next
  <2>4. writes' = writes \ {w} /\ reads' = reads
    BY <2>3 DEF WriteDone, WriteFails
  <2>5. writes' = {}
    BY <1>2, <2>4 DEF OneWrite
  <2>. QED BY <2>1, <2>3, <2>4, <2>5 DEF Referenced
<1>3. ControlInv /\ OneWrite /\ [Next]_vars
        => [handled # <<>> /\ ~client.first.keep => Referenced /\ ~Referenced']_vars
  BY <1>2
<1>. QED BY <1>1, <1>3, OneWriteStep, ControlInvariant, PTL DEF Spec, AnsweredIsReleased
=============================================================================
