-------------------------- MODULE WebSocketServer --------------------------
(***************************************************************************)
(* The WebSocket server (httpwebsocket/WebSocketServer.cpp): the main      *)
(* thread sends each line it reads to every connection in the table        *)
(* g_maphdl, while the network thread adds and removes connections in      *)
(* on_open and on_close.  The table is guarded by m_action_lock; the state *)
(* of a connection is not.                                                 *)
(*                                                                         *)
(* The library websocketpp is external.  What the server relies on: it     *)
(* calls the handlers on the thread that is in run(); it marks a           *)
(* connection open and then calls on_open, marks it closed and later calls *)
(* on_close, after which the connection is freed; send to one that is not  *)
(* open, or get_con_from_hdl of one that is freed, throws an object that   *)
(* is not an error_code; and what a message handler throws leaves through  *)
(* the handler of a read, which held the connection and starts no other.   *)
(*                                                                         *)
(* stopserver and DestroyWebSocketServer are called by nobody.             *)
(***************************************************************************)
EXTENDS Integers, Sequences

CONSTANTS
  Conns,       \* the connections that clients make
  MaxMessages, \* bound: lines that main reads
  NULL

ASSUME NULLAssumption == NULL \notin Conns
ASSUME MaxMessagesAssumption == MaxMessages \in Nat

VARIABLES
  main,     \* "start", "input", in the loop "visit" and "send", "quit" or "crashed"
  todo, it, \* the connections the loop has yet to visit, and the one it is at
  said,     \* the number of messages so far
  network,  \* the thread: "none", "setup", "running" or "ended"
  listening,
  conn,     \* "new", "connecting", "open", "ending" (closed, on_close to come), "gone"
  opening,  \* the connection whose on_open is to run next, or NULL
  g_maphdl, \* the connections in the table
  sent,     \* history: the messages queued on each connection
  since     \* history: how many messages there were before it was in the table

mainVars == <<main, todo, it, said, sent>>
netVars == <<network, listening, conn, opening, g_maphdl, since>>
vars == <<main, todo, it, said, sent, network, listening, conn, opening, g_maphdl, since>>

Init ==
  /\ main = "start" /\ todo = {} /\ it = NULL /\ said = 0
  /\ network = "none" /\ listening = FALSE
  /\ conn = [c \in Conns |-> "new"]
  /\ opening = NULL
  /\ g_maphdl = {}
  /\ sent = [c \in Conns |-> <<>>]
  /\ since = [c \in Conns |-> 0]

(* m_action_lock is held by sendmsgtoweb throughout its loop.              *)
Locked == main \in {"visit", "send"}

Alive == main \notin {"quit", "crashed"}

-----------------------------------------------------------------------------
(* The main thread.                                                        *)

startserver ==
  /\ main = "start" /\ main' = "input"
  /\ network' = "setup"
  /\ UNCHANGED <<todo, it, said, sent, listening, conn, opening, g_maphdl, since>>

sendmsgtoweb ==
  /\ main = "input" /\ said < MaxMessages
  /\ main' = "visit" /\ said' = said + 1 /\ todo' = g_maphdl
  /\ UNCHANGED <<it, sent, netVars>>

\* Mutant: a connection that is not open ends the loop.
Visit_Break(c) ==
  /\ main = "visit" /\ c \in todo
  /\ CASE conn[c] = "gone" -> main' = "crashed" /\ UNCHANGED <<it, todo>>
       [] conn[c] = "open" -> main' = "send" /\ it' = c /\ todo' = todo \ {c}
       [] OTHER -> todo' = {} /\ UNCHANGED <<main, it>>
  /\ UNCHANGED <<said, sent, netVars>>

(* get_con_from_hdl and the question whether the connection is open.       *)
Visit(c) ==
  /\ main = "visit" /\ c \in todo
  /\ CASE conn[c] = "gone" -> main' = "crashed" /\ UNCHANGED <<it, todo>>
       [] conn[c] = "open" -> main' = "send" /\ it' = c /\ todo' = todo \ {c}
       [] OTHER -> todo' = todo \ {c} /\ UNCHANGED <<main, it>>
  /\ UNCHANGED <<said, sent, netVars>>

\* Mutant: the message is the one before.
Send_Stale ==
  /\ main = "send"
  /\ IF conn[it] = "open"
     THEN main' = "visit" /\ sent' = [sent EXCEPT ![it] = Append(@, said - 1)]
     ELSE main' = "crashed" /\ UNCHANGED sent
  /\ it' = NULL
  /\ UNCHANGED <<todo, said, netVars>>

(* send, which asks again; what it throws is not caught.                   *)
Send ==
  /\ main = "send"
  /\ IF conn[it] = "open"
     THEN main' = "visit" /\ sent' = [sent EXCEPT ![it] = Append(@, said)]
     ELSE main' = "crashed" /\ UNCHANGED sent
  /\ it' = NULL
  /\ UNCHANGED <<todo, said, netVars>>

Unlock ==
  /\ main = "visit" /\ todo = {}
  /\ main' = "input"
  /\ UNCHANGED <<todo, it, said, sent, netVars>>

Quit ==
  /\ main = "input" /\ main' = "quit"
  /\ UNCHANGED <<todo, it, said, sent, netVars>>

-----------------------------------------------------------------------------
(* The network thread.                                                     *)

Listen ==
  /\ Alive /\ network = "setup"
  /\ \/ network' = "running" /\ listening' = TRUE
     \/ network' = "ended" /\ UNCHANGED listening  \* the port is taken
  /\ UNCHANGED <<mainVars, conn, opening, g_maphdl, since>>

(* A step between two handlers.                                            *)
Running == Alive /\ network = "running" /\ opening = NULL

To(c, state) == conn' = [conn EXCEPT ![c] = state]

Accept(c) ==
  /\ Running /\ listening /\ conn[c] = "new"
  /\ To(c, "connecting")
  /\ UNCHANGED <<mainVars, network, listening, opening, g_maphdl, since>>

(* A handshake that fails; there is no on_fail handler.                    *)
HandshakeFails(c) ==
  /\ Running /\ conn[c] = "connecting"
  /\ To(c, "gone")
  /\ UNCHANGED <<mainVars, network, listening, opening, g_maphdl, since>>

Open(c) ==
  /\ Running /\ conn[c] = "connecting"
  /\ To(c, "open")
  /\ opening' = c
  /\ UNCHANGED <<mainVars, network, listening, g_maphdl, since>>

on_open ==
  /\ Alive /\ opening # NULL /\ ~Locked
  /\ g_maphdl' = g_maphdl \cup {opening}
  /\ since' = [since EXCEPT ![opening] = said]
  /\ opening' = NULL
  /\ UNCHANGED <<mainVars, network, listening, conn>>

(* The client closes the connection, or it fails.                          *)
Terminate(c) ==
  /\ Running /\ conn[c] = "open"
  /\ To(c, "ending")
  /\ UNCHANGED <<mainVars, network, listening, opening, g_maphdl, since>>

\* Mutant: the handler does not take the lock.
on_close_NoLock(c) ==
  /\ Running /\ conn[c] = "ending"
  /\ g_maphdl' = g_maphdl \ {c}
  /\ To(c, "gone")
  /\ UNCHANGED <<mainVars, network, listening, opening, since>>

\* Mutant: the connection is not erased.
on_close_NoErase(c) ==
  /\ Running /\ conn[c] = "ending" /\ ~Locked
  /\ To(c, "gone")
  /\ UNCHANGED <<mainVars, network, listening, opening, g_maphdl, since>>

on_close(c) ==
  /\ Running /\ conn[c] = "ending" /\ ~Locked
  /\ g_maphdl' = g_maphdl \ {c}
  /\ To(c, "gone")
  /\ UNCHANGED <<mainVars, network, listening, opening, since>>

(* "stop-listening" from a client.  When the server does not listen any    *)
(* more, stop_listening throws, and thread() returns.  The connection is   *)
(* then freed without on_close, unless something else holds it: a message  *)
(* being written, or main, which is about to send it one.                  *)
on_message(c) ==
  /\ Running /\ conn[c] = "open"
  /\ IF listening
     THEN listening' = FALSE /\ UNCHANGED <<network, conn>>
     ELSE /\ network' = "ended" /\ UNCHANGED listening
          /\ conn' = conn \/ (it # c /\ To(c, "gone"))
  /\ UNCHANGED <<mainVars, opening, g_maphdl, since>>

(* run() returns when there is nothing left to wait for.                   *)
RunReturns ==
  /\ Running /\ ~listening
  /\ \A c \in Conns : conn[c] \in {"new", "gone"}
  /\ network' = "ended"
  /\ UNCHANGED <<mainVars, listening, conn, opening, g_maphdl, since>>

Next ==
  \/ startserver \/ sendmsgtoweb \/ Send \/ Unlock \/ Quit
  \/ Listen \/ on_open \/ RunReturns
  \/ \E c \in Conns :
       \/ Visit(c) \/ Accept(c) \/ HandshakeFails(c) \/ Open(c)
       \/ Terminate(c) \/ on_close(c) \/ on_message(c)

(* The loop is not stopped midway, and a handler that waits for the lock   *)
(* gets it when main waits for the next line.                              *)
Fairness ==
  /\ WF_vars((\E c \in Conns : Visit(c)) \/ Send \/ Unlock)
  /\ WF_vars(on_open)
  /\ \A c \in Conns : SF_vars(on_close(c))

Spec == Init /\ [][Next]_vars /\ Fairness

-----------------------------------------------------------------------------
TypeOK ==
  /\ main \in {"start", "input", "visit", "send", "quit", "crashed"}
  /\ todo \subseteq Conns /\ it \in Conns \cup {NULL}
  /\ said \in 0 .. MaxMessages
  /\ network \in {"none", "setup", "running", "ended"}
  /\ listening \in BOOLEAN
  /\ conn \in [Conns -> {"new", "connecting", "open", "ending", "gone"}]
  /\ opening \in Conns \cup {NULL}
  /\ g_maphdl \subseteq Conns
  /\ sent \in [Conns -> Seq(1 .. MaxMessages)]
  /\ since \in [Conns -> 0 .. MaxMessages]

(* The loop comes to no handle of a connection that has been freed: what   *)
(* it has yet to visit is in the table, and on_close frees a connection    *)
(* only after taking it out.  The one exception is the connection whose    *)
(* "stop-listening" ended the network thread: its handle stays, and the    *)
(* next message ends the program.                                          *)
Stale == {c \in g_maphdl : conn[c] = "gone"}

HandlesAlive ==
  /\ Locked => todo \subseteq g_maphdl
  /\ network # "ended" => Stale = {}
  /\ \A c, d \in Stale : c = d

(* A connection that is open has been sent every message since it came     *)
(* into the table, each once and in order; only the message of a loop that *)
(* has yet to come to it is missing.                                       *)
Pending(c) == IF main \in {"visit", "send"} /\ (c \in todo \/ c = it) THEN 1 ELSE 0

NothingMissed ==
  \A c \in g_maphdl :
    Alive /\ conn[c] = "open" =>
      sent[c] = [i \in 1 .. said - since[c] - Pending(c) |-> since[c] + i]

(* A connection that has closed leaves the table, unless the network       *)
(* thread or the program has ended.                                        *)
TableForgets ==
  \A c \in Conns :
    conn[c] = "ending" ~> (c \notin g_maphdl \/ network = "ended" \/ ~Alive)

(* A message that cannot be sent is reported, and the program goes on.     *)
FailedSendReported == main # "crashed"
=============================================================================
