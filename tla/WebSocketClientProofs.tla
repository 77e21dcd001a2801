----------------------- MODULE WebSocketClientProofs -----------------------
(***************************************************************************)
(* Proofs about the WebSocket client, for any number of messages: its      *)
(* types, the life of its connection as its two threads see it, and that   *)
(* no message is shown as sent that was not.                               *)
(***************************************************************************)
EXTENDS WebSocketClient, FiniteSetTheorems, TLAPS

(* The list of messages is as typed, and longer by at most one.            *)
LEMMA OneMoreMessage ==
  ASSUME NEW messages \in Seq({">>", "<<"}), NEW m \in {">>", "<<"}
  PROVE  Append(messages, m) \in Seq({">>", "<<"})
OBVIOUS

LEMMA CountsStep ==
  ASSUME queued \in 0 .. MaxMessages, [Next]_vars
  PROVE  /\ queued' \in 0 .. MaxMessages
         /\ queued' = IF send THEN queued + 1 ELSE queued
<1>1. MaxMessages \in Nat
  BY MaxMessagesAssumption
<1>2. CASE send
  BY <1>1, <1>2 DEF send
<1>3. CASE ~send
  BY <1>3 DEF Next, vars, Main, Handlers, mainVars, CWebSocketClient, connect,
     record_send_message, show, quit, close, Destroy, join, Handshake, on_open, on_fail,
     ConnectionEnds, CloseEnds, on_close, on_message, RunReturns
<1>. QED BY <1>2, <1>3

(* Only push_back of either thread changes the list.                       *)
LEMMA MessagesStep ==
  ASSUME [Next]_vars
  PROVE  \/ m_messages' = m_messages
         \/ record_send_message
         \/ on_message /\ m_messages' = Append(m_messages, "<<")
BY DEF Next, vars, Main, Handlers, mainVars, CWebSocketClient, connect, send, show, quit,
   close, Destroy, join, Handshake, on_open, on_fail, ConnectionEnds, CloseEnds, on_close,
   on_message, RunReturns

(* Every variable of the client keeps its type.                            *)
THEOREM TypeCorrect == Spec => []TypeOK
<1>1. Init => TypeOK
  <2> SUFFICES ASSUME Init PROVE TypeOK
    OBVIOUS
  <2>1. queued \in 0 .. MaxMessages /\ m_messages \in Seq({">>", "<<"})
    BY MaxMessagesAssumption DEF Init
  <2>2. perpetual \in BOOLEAN
    BY Zenon DEF Init
  <2>. QED BY <2>1, <2>2 DEF Init, TypeOK
<1>2. TypeOK /\ [Next]_vars => TypeOK'
  <2> SUFFICES ASSUME TypeOK, [Next]_vars PROVE TypeOK'
    OBVIOUS
  <2>1. queued' \in 0 .. MaxMessages
    BY CountsStep DEF TypeOK
  <2>2. m_messages' \in Seq({">>", "<<"})
    BY MessagesStep, OneMoreMessage DEF TypeOK, record_send_message
  <2>3. perpetual' \in BOOLEAN
    BY DEF TypeOK, Next, vars, Main, Handlers, mainVars, CWebSocketClient, connect, send,
       record_send_message, show, quit, close, Destroy, join, Handshake, on_open, on_fail,
       ConnectionEnds, CloseEnds, on_close, on_message, RunReturns
  <2>. DEFINE Rest ==
         /\ main \in {"new", "connect", "command", "record", "show", "quit", "destroy",
                      "join", "done", "crashed"}
         /\ network \in {"none", "running", "ended"}
         /\ conn \in {"none", "connecting", "opened", "open", "closing", "closed", "failed",
                      "gone"}
         /\ m_status \in {"none", "Connecting", "Open", "Failed", "Closed"}
  <2>4. CASE Main
    <3>1. Rest'
      BY <2>4 DEF TypeOK, Main, CWebSocketClient, connect, send, record_send_message, show,
         quit, close, CloseIfOpen, Destroy, join
    <3>. QED BY <2>1, <2>2, <2>3, <3>1 DEF TypeOK
  <2>5. CASE Handlers \/ ConnectionEnds
    <3>1. Rest'
      BY <2>5 DEF TypeOK, Handlers, mainVars, Goes, Handshake, on_open, on_fail,
         ConnectionEnds, CloseEnds, on_close, RunReturns
    <3>. QED BY <2>1, <2>2, <2>3, <3>1 DEF TypeOK
  <2>6. CASE on_message \/ UNCHANGED vars
    <3>1. Rest'
      BY <2>6 DEF TypeOK, on_message, vars
    <3>. QED BY <2>1, <2>2, <2>3, <3>1 DEF TypeOK
  <2>. QED BY <2>4, <2>5, <2>6 DEF Next
<1>. QED BY <1>1, <1>2, PTL DEF Spec

-----------------------------------------------------------------------------
(* What a push_back adds to the messages that are shown as sent.           *)
LEMMA SentIsFinite ==
  ASSUME NEW messages \in Seq({">>", "<<"})
  PROVE  IsFiniteSet(Sent(messages)) /\ Cardinality(Sent(messages)) \in Nat
<1>1. Len(messages) \in Nat /\ DOMAIN messages = 1 .. Len(messages)
  OBVIOUS
<1>2. IsFiniteSet(1 .. Len(messages))
  BY <1>1, FS_Interval
<1>3. Sent(messages) \subseteq 1 .. Len(messages)
  BY <1>1 DEF Sent
<1>. QED BY <1>2, <1>3, FS_Subset, FS_CardinalityType

LEMMA SentOfMore ==
  ASSUME NEW messages \in Seq({">>", "<<"})
  PROVE  /\ Cardinality(Sent(Append(messages, ">>"))) = Cardinality(Sent(messages)) + 1
         /\ Sent(Append(messages, "<<")) = Sent(messages)
<1> DEFINE n == Len(messages)
<1>1. n \in Nat /\ DOMAIN messages = 1 .. n
  OBVIOUS
<1>2. ASSUME NEW m \in {">>", "<<"}
      PROVE  /\ DOMAIN Append(messages, m) = 1 .. n + 1
             /\ Append(messages, m)[n + 1] = m
             /\ \A i \in 1 .. n : Append(messages, m)[i] = messages[i]
  OBVIOUS
<1>. HIDE DEF n
<1>3. 1 .. n + 1 = 1 .. n \cup {n + 1} /\ n + 1 \notin 1 .. n
  BY <1>1
<1>4. Sent(Append(messages, ">>")) = Sent(messages) \cup {n + 1}
  BY <1>1, <1>2, <1>3 DEF Sent
<1>5. n + 1 \notin Sent(messages)
  BY <1>1, <1>3 DEF Sent
<1>6. Cardinality(Sent(Append(messages, ">>"))) = Cardinality(Sent(messages)) + 1
  BY <1>4, <1>5, SentIsFinite, FS_AddElement
<1>7. Sent(Append(messages, "<<")) = Sent(messages)
  BY <1>1, <1>2, <1>3 DEF Sent
<1>. QED BY <1>6, <1>7

(* For any number of messages and whatever the handlers do meanwhile: the  *)
(* list shows no more messages as sent than were given to an open          *)
(* connection, because only what has been given to one is recorded.        *)
THEOREM ShownMessagesWereSent == Spec => []ShownWasSent
<1>1. Init => ShownWasSent
  <2> SUFFICES ASSUME Init PROVE ShownWasSent
    OBVIOUS
  <2>1. Sent(m_messages) = {}
    BY DEF Init, Sent
  <2>2. Cardinality(Sent(m_messages)) = 0
    BY <2>1, FS_EmptySet
  <2>. QED BY <2>2 DEF Init, ShownWasSent
<1>2. TypeOK /\ TypeOK' /\ ShownWasSent /\ [Next]_vars => ShownWasSent'
  <2> SUFFICES ASSUME TypeOK, TypeOK', ShownWasSent, [Next]_vars PROVE ShownWasSent'
    OBVIOUS
  <2> DEFINE shown == Cardinality(Sent(m_messages))
  <2>1. /\ queued \in Nat /\ queued' \in Nat /\ m_messages \in Seq({">>", "<<"})
        /\ queued' = IF send THEN queued + 1 ELSE queued
    BY CountsStep, MaxMessagesAssumption DEF TypeOK
  <2>2. shown \in Nat /\ shown + (IF main = "record" THEN 1 ELSE 0) <= queued
    BY <2>1, SentIsFinite DEF ShownWasSent
  <2>3. CASE record_send_message
    <3>1. main = "record" /\ main' = "command" /\ ~send
      BY <2>3 DEF record_send_message, send
    <3>2. shown' = shown + 1
      BY <2>1, <2>3, SentOfMore DEF record_send_message
    <3>. QED BY <2>1, <2>2, <3>1, <3>2 DEF ShownWasSent
  <2>4. CASE on_message /\ m_messages' = Append(m_messages, "<<")
    <3>1. main' \in {main, "command", "crashed"} /\ queued' = queued
      BY <2>4 DEF on_message
    <3>2. shown' = shown
      BY <2>1, <2>4, SentOfMore
    <3>. QED BY <2>1, <2>2, <3>1, <3>2 DEF ShownWasSent
  <2>5. CASE m_messages' = m_messages
    <3>1. shown' = shown
      BY <2>5
    <3>2. main' = "record" => main = "record" \/ send
      BY DEF Next, vars, Main, Handlers, mainVars, CWebSocketClient, connect, send, show,
         record_send_message, quit, close, Destroy, join, Handshake, on_open, on_fail,
         ConnectionEnds, CloseEnds, on_close, on_message, RunReturns
    <3>3. send => main # "record"
      BY DEF send
    <3>. QED BY <2>1, <2>2, <3>1, <3>2, <3>3 DEF ShownWasSent
  <2>. QED BY <2>3, <2>4, <2>5, MessagesStep
<1>. QED BY <1>1, <1>2, TypeCorrect, PTL DEF Spec

-----------------------------------------------------------------------------
(* The life of the connection.                                             *)

(* What m_status says of the connection: the handlers write it after the   *)
(* library has changed the connection, so it lags behind, but never past   *)
(* the handler that is due.                                                *)
StatusAgrees ==
  /\ m_status = "none" <=> conn = "none"
  /\ m_status = "Connecting" <=> conn \in {"connecting", "opened", "failed"}
  /\ m_status = "Open" <=> conn \in {"open", "closing", "closed"}
  /\ m_status \in {"Failed", "Closed"} <=> conn = "gone"

(* The connection is made once, by connect, while the endpoint is          *)
(* perpetual; the network thread ends only after the destructor.           *)
Life ==
  /\ conn = "none" <=> main \in {"new", "connect"}
  /\ perpetual = TRUE <=> main \notin {"new", "join", "done"}
  /\ network = "none" <=> main = "new"
  /\ network = "ended" => conn = "gone" /\ main \in {"join", "done"}
  /\ main = "done" => network = "ended"

LEMMA LifeAlways == Spec => [](StatusAgrees /\ Life)
<1>1. Init => StatusAgrees /\ Life
  BY DEF Init, StatusAgrees, Life
<1>2. TypeOK /\ StatusAgrees /\ Life /\ [Next]_vars => (StatusAgrees /\ Life)'
  <2> SUFFICES ASSUME TypeOK, StatusAgrees, Life, [Next]_vars PROVE (StatusAgrees /\ Life)'
    OBVIOUS
  <2> USE DEF TypeOK, StatusAgrees, Life
  <2>1. CASE CWebSocketClient \/ connect \/ join
    BY <2>1 DEF CWebSocketClient, connect, join
  <2>2. CASE send \/ record_send_message \/ show \/ quit
    BY <2>2 DEF send, record_send_message, show, quit
  <2>3. CASE close \/ Destroy
    BY <2>3 DEF close, Destroy, CloseIfOpen
  <2>4. CASE Handlers \/ ConnectionEnds
    BY <2>4 DEF Handlers, Handshake, on_open, on_fail, CloseEnds, on_close, RunReturns,
       ConnectionEnds, Goes, Alive, mainVars
  <2>5. CASE on_message \/ UNCHANGED vars
    BY <2>5 DEF on_message, Alive, vars
  <2>. QED BY <2>1, <2>2, <2>3, <2>4, <2>5 DEF Next, Main
<1>. QED BY <1>1, <1>2, TypeCorrect, PTL DEF Spec

(* The status that the main thread reads, without a lock, names the        *)
(* connection's state up to the one handler that is still to come.         *)
THEOREM StatusTellsTheConnection == Spec => []StatusAgrees
BY LifeAlways, PTL

Ending == {"closing", "closed", "gone"}

(* The destructor leaves no connection open behind it: unless it is still  *)
(* being made, the connection is then on its way to on_close ...           *)
DestroyCloses == Destroy /\ m_status # "Connecting" => conn' \in Ending

(* ... stays so whatever either thread does ...                            *)
EndingGoesOn == conn \in Ending => conn' \in Ending

(* ... and join comes back for no other reason than its end.               *)
JoinAfterEnd == join => conn = "gone" /\ ~perpetual

(* Leaving the client ends its connection, in these three steps.           *)
THEOREM DestructorClosesConnection ==
  Spec => [][DestroyCloses]_vars /\ [][EndingGoesOn]_vars /\ [][JoinAfterEnd]_vars
<1>1. TypeOK /\ StatusAgrees /\ Life /\ [Next]_vars
        => [DestroyCloses]_vars /\ [EndingGoesOn]_vars /\ [JoinAfterEnd]_vars
  <2> SUFFICES ASSUME TypeOK, StatusAgrees, Life, Next
               PROVE  DestroyCloses /\ EndingGoesOn /\ JoinAfterEnd
    OBVIOUS
  <2>1. DestroyCloses
    BY DEF DestroyCloses, TypeOK, StatusAgrees, Life, Destroy, CloseIfOpen, Ending
  <2>2. EndingGoesOn
    BY DEF EndingGoesOn, Ending, Life, Next, Main, Handlers, mainVars, CWebSocketClient,
       connect, send, show, record_send_message, quit, close, Destroy, CloseIfOpen, join,
       Handshake, on_open, on_fail, ConnectionEnds, CloseEnds, on_close, on_message,
       RunReturns, Goes
  <2>3. JoinAfterEnd
    <3>1. join => conn = "gone" /\ perpetual # TRUE
      BY DEF join, Life
    <3>. QED BY <3>1 DEF JoinAfterEnd, TypeOK
  <2>. QED BY <2>1, <2>2, <2>3
<1>. QED BY <1>1, LifeAlways, TypeCorrect, PTL DEF Spec
=============================================================================
