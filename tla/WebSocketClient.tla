-------------------------- MODULE WebSocketClient --------------------------
(***************************************************************************)
(* The WebSocket client (httpwebsocketclient/WebSocketClient.cpp and its   *)
(* main): the main thread connects, sends and shows messages until it is   *)
(* told to quit; the endpoint's thread runs the handlers, which write the  *)
(* status and the messages that the main thread reads without a lock.      *)
(*                                                                         *)
(* The library websocketpp is external.  What the client relies on: the    *)
(* handlers run on the thread that is in run(); a connection is marked     *)
(* open before on_open, and is over before on_close or on_fail; connecting *)
(* and closing are ended by a timer if the server does not answer; and     *)
(* run() returns when the endpoint is not perpetual and has no connection. *)
(* The URI is fixed and well formed, so there always is a connection.      *)
(*                                                                         *)
(* Reading the status while a handler writes it gives what it was before   *)
(* or after, or a mixture that is not "Open" either.                       *)
(***************************************************************************)
EXTENDS Integers, Sequences, FiniteSets

CONSTANT MaxMessages \* bound: messages sent, and messages shown

ASSUME MaxMessagesAssumption == MaxMessages \in Nat

VARIABLES
  main,       \* where the main thread is
  perpetual,  \* the endpoint keeps run() going without a connection
  network,    \* the thread in run(): "none", "running" or "ended"
  conn,       \* "none", "connecting", "opened" (on_open to come), "open", "closing",
              \* "closed" (on_close to come), "failed" (on_fail to come), "gone"
  m_status,
  m_messages, \* ">>" for a message sent and "<<" for one received
  queued      \* history: how many messages were given to an open connection

mainVars == <<main, perpetual, queued>>
vars == <<main, perpetual, network, conn, m_status, m_messages, queued>>

Init ==
  /\ main = "new"
  /\ perpetual = FALSE /\ network = "none"
  /\ conn = "none" /\ m_status = "none"
  /\ m_messages = <<>> /\ queued = 0

-----------------------------------------------------------------------------
(* The main thread.                                                        *)

CWebSocketClient ==
  /\ main = "new" /\ main' = "connect"
  /\ perpetual' = TRUE /\ network' = "running"
  /\ UNCHANGED <<conn, m_status, m_messages, queued>>

connect ==
  /\ main = "connect" /\ main' = "command"
  /\ conn' = "connecting" /\ m_status' = "Connecting"
  /\ UNCHANGED <<perpetual, network, m_messages, queued>>

IsOpen == conn \in {"opened", "open"}

\* Mutant: a message is recorded whether or not it could be sent.
send_Unchecked ==
  /\ main = "command" /\ Len(m_messages) < 2 * MaxMessages /\ queued < MaxMessages
  /\ main' = "record"
  /\ queued' = IF IsOpen THEN queued + 1 ELSE queued
  /\ UNCHANGED <<perpetual, network, conn, m_status, m_messages>>

(* A message for a connection that is not open is reported and forgotten.  *)
send ==
  /\ main = "command" /\ queued < MaxMessages
  /\ IsOpen
  /\ main' = "record"
  /\ queued' = queued + 1
  /\ UNCHANGED <<perpetual, network, conn, m_status, m_messages>>

\* Mutant: the message is recorded without its mark.
record_send_message_NoMark ==
  /\ main = "record" /\ main' = "command"
  /\ m_messages' = Append(m_messages, "")
  /\ UNCHANGED <<perpetual, network, conn, m_status, queued>>

record_send_message ==
  /\ main = "record" /\ main' = "command"
  /\ m_messages' = Append(m_messages, ">>")
  /\ UNCHANGED <<perpetual, network, conn, m_status, queued>>

show ==
  /\ \/ main = "command" /\ main' = "show"
     \/ main = "show" /\ main' = "command"
  /\ UNCHANGED <<perpetual, network, conn, m_status, m_messages, queued>>

quit ==
  /\ main = "command" /\ main' = "quit"
  /\ UNCHANGED <<perpetual, network, conn, m_status, m_messages, queued>>

(* Closing a connection that is not open gives an error code.              *)
CloseIfOpen == conn' = IF m_status = "Open" /\ conn = "open" THEN "closing" ELSE conn

close ==
  /\ main = "quit" /\ main' = "destroy"
  /\ CloseIfOpen
  /\ UNCHANGED <<perpetual, network, m_status, m_messages, queued>>

\* Mutant: the endpoint stays perpetual.
Destroy_Perpetual ==
  /\ main = "destroy" /\ main' = "join"
  /\ CloseIfOpen
  /\ UNCHANGED <<perpetual, network, m_status, m_messages, queued>>

(* ~CWebSocketClient up to join.                                           *)
Destroy ==
  /\ main = "destroy" /\ main' = "join"
  /\ perpetual' = FALSE
  /\ CloseIfOpen
  /\ UNCHANGED <<network, m_status, m_messages, queued>>

join ==
  /\ main = "join" /\ network = "ended"
  /\ main' = "done"
  /\ UNCHANGED <<perpetual, network, conn, m_status, m_messages, queued>>

Main ==
  \/ CWebSocketClient \/ connect \/ send \/ record_send_message \/ show
  \/ quit \/ close \/ Destroy \/ join

-----------------------------------------------------------------------------
(* The endpoint's thread.                                                  *)

Alive == network = "running" /\ main # "crashed"

Goes(from, to) == Alive /\ conn = from /\ conn' = to

Handshake ==
  /\ Goes("connecting", "opened") \/ Goes("connecting", "failed")
  /\ UNCHANGED <<mainVars, network, m_status, m_messages>>

on_open ==
  /\ Goes("opened", "open") /\ m_status' = "Open"
  /\ UNCHANGED <<mainVars, network, m_messages>>

on_fail ==
  /\ Goes("failed", "gone") /\ m_status' = "Failed"
  /\ UNCHANGED <<mainVars, network, m_messages>>

(* The server closes the connection, or it fails.                          *)
ConnectionEnds ==
  /\ Goes("open", "closed")
  /\ UNCHANGED <<mainVars, network, m_status, m_messages>>

(* The server's answer to a close, or the timer.                           *)
CloseEnds ==
  /\ Goes("closing", "closed")
  /\ UNCHANGED <<mainVars, network, m_status, m_messages>>

on_close ==
  /\ Goes("closed", "gone") /\ m_status' = "Closed"
  /\ UNCHANGED <<mainVars, network, m_messages>>

(* While the main thread is in its own push_back either message may be     *)
(* lost or the program may crash; while it shows the messages it may crash.*)
on_message ==
  /\ Alive /\ conn = "open" /\ Len(m_messages) < 2 * MaxMessages
  /\ \/ m_messages' = Append(m_messages, "<<") /\ UNCHANGED main
     \/ main = "record" /\ UNCHANGED <<m_messages, main>>
     \/ main = "record" /\ main' = "command" /\ m_messages' = Append(m_messages, "<<")
     \/ main \in {"record", "show"} /\ main' = "crashed" /\ UNCHANGED m_messages
  /\ UNCHANGED <<perpetual, queued, network, conn, m_status>>

RunReturns ==
  /\ Alive /\ ~perpetual /\ conn = "gone"
  /\ network' = "ended"
  /\ UNCHANGED <<mainVars, conn, m_status, m_messages>>

Handlers == Handshake \/ on_open \/ on_fail \/ CloseEnds \/ on_close \/ RunReturns

Next == Main \/ Handlers \/ ConnectionEnds \/ on_message

(* The server need not close a connection nor send anything.               *)
Spec == Init /\ [][Next]_vars /\ WF_vars(close \/ Destroy \/ join) /\ WF_vars(Handlers)

-----------------------------------------------------------------------------
TypeOK ==
  /\ main \in {"new", "connect", "command", "record", "show", "quit", "destroy", "join",
               "done", "crashed"}
  /\ perpetual \in BOOLEAN
  /\ network \in {"none", "running", "ended"}
  /\ conn \in {"none", "connecting", "opened", "open", "closing", "closed", "failed", "gone"}
  /\ m_status \in {"none", "Connecting", "Open", "Failed", "Closed"}
  /\ m_messages \in Seq({">>", "<<"})
  /\ queued \in 0 .. MaxMessages

Sent(messages) == {i \in DOMAIN messages : messages[i] = ">>"}

(* The list that is shown names no message as sent that was not given to   *)
(* an open connection, whatever the handlers do in between.                *)
ShownWasSent ==
  Cardinality(Sent(m_messages)) + (IF main = "record" THEN 1 ELSE 0) <= queued

(* Once the connection has been up or has failed, quitting ends: close or  *)
(* the destructor closes an open connection and the endpoint's thread      *)
(* returns.  (While it is still being made neither closes it, and join     *)
(* waits for the server to do so.)                                         *)
QuitEnds ==
  (main = "quit" /\ m_status # "Connecting") ~> main \in {"done", "crashed"}
=============================================================================
