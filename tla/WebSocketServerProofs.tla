----------------------- MODULE WebSocketServerProofs -----------------------
(***************************************************************************)
(* Proofs about the WebSocket server, for any number of connections and    *)
(* messages: the loop of sendmsgtoweb comes to no connection that has been *)
(* freed but to the one that ended the network thread, and no open one     *)
(* misses a message while it is in the table.                              *)
(***************************************************************************)
EXTENDS WebSocketServer, TLAPS

-----------------------------------------------------------------------------
(* The inductive invariant.                                                *)

(* Where the loop is.  It runs only after a message has been read, and     *)
(* the network thread is not there before startserver.                     *)
Loop ==
  /\ main = "start" => network = "none"
  /\ Locked => said > 0 /\ todo \subseteq g_maphdl
  /\ main \in {"start", "input"} => todo = {}
  /\ main = "send" => it \in g_maphdl /\ it \notin todo
  /\ main # "send" => it = NULL

(* What the table says of a connection, and of the one whose on_open is to *)
(* run.  One that has been freed is there only when the network thread has *)
(* ended, and was the last that thread touched.                            *)
Table ==
  /\ \A c \in g_maphdl : conn[c] \in {"open", "ending", "gone"}
  /\ network # "ended" => \A c \in g_maphdl : conn[c] # "gone"
  /\ \A c, d \in g_maphdl : conn[c] = "gone" /\ conn[d] = "gone" => c = d
  /\ opening # NULL => conn[opening] = "open" /\ opening \notin g_maphdl

(* A connection that has not been in the table has been sent nothing.      *)
Unsent ==
  \A c \in Conns :
    conn[c] \in {"new", "connecting"} \/ c = opening => sent[c] = <<>>

(* What NothingMissed takes away from the number of messages is there.     *)
Counted ==
  \A c \in g_maphdl : since[c] + Pending(c) <= said

IInv == TypeOK /\ Loop /\ Table /\ Unsent /\ Counted /\ NothingMissed

-----------------------------------------------------------------------------
(* One more message makes the messages from k + 1 to k + n those to        *)
(* k + n + 1.                                                              *)
LEMMA OneMore ==
  ASSUME NEW n \in Nat, NEW k \in Int
  PROVE  Append([i \in 1 .. n |-> k + i], k + n + 1) = [i \in 1 .. n + 1 |-> k + i]
<1> DEFINE s == [i \in 1 .. n |-> k + i]
           t == [i \in 1 .. n + 1 |-> k + i]
<1>1. s \in Seq(Int) /\ Len(s) = n
  OBVIOUS
<1>2. t \in Seq(Int) /\ Len(t) = n + 1
  OBVIOUS
<1>3. Append(s, k + n + 1) \in Seq(Int) /\ Len(Append(s, k + n + 1)) = n + 1
  BY <1>1
<1>4. ASSUME NEW i \in 1 .. n + 1 PROVE Append(s, k + n + 1)[i] = t[i]
  BY <1>1
<1>. QED BY <1>2, <1>3, <1>4

LEMMA InitInv == Init => IInv
<1> SUFFICES ASSUME Init PROVE IInv
  OBVIOUS
<1> USE MaxMessagesAssumption, NULLAssumption DEF Init
<1>1. TypeOK
  <2>1. sent \in [Conns -> Seq(1 .. MaxMessages)]
    OBVIOUS
  <2>2. since \in [Conns -> 0 .. MaxMessages] /\ said \in 0 .. MaxMessages
    OBVIOUS
  <2>. QED BY <2>1, <2>2 DEF TypeOK
<1>2. Loop /\ Table /\ Unsent /\ Counted /\ NothingMissed
  BY DEF Loop, Locked, Table, Unsent, Counted, NothingMissed
<1>. QED BY <1>1, <1>2 DEF IInv

LEMMA TypesStep == TypeOK /\ Loop /\ [Next]_vars => TypeOK'
<1> SUFFICES ASSUME TypeOK, Loop, [Next]_vars PROVE TypeOK'
  OBVIOUS
<1> USE MaxMessagesAssumption DEF TypeOK
<1>1. CASE startserver
  BY <1>1 DEF startserver
<1>2. CASE sendmsgtoweb
  BY <1>2 DEF sendmsgtoweb, netVars
<1>3. CASE Send
  <2>1. said \in 1 .. MaxMessages /\ it \in Conns
    BY <1>3 DEF Send, Loop, Locked
  <2>2. Append(sent[it], said) \in Seq(1 .. MaxMessages)
    BY <2>1
  <2>. HIDE DEF TypeOK
  <2>3. sent' \in [Conns -> Seq(1 .. MaxMessages)]
    <3>1. CASE sent' = sent
      BY <3>1 DEF TypeOK
    <3>2. CASE sent' = [sent EXCEPT ![it] = Append(@, said)]
      BY <3>2, <2>2 DEF TypeOK
    <3>. QED BY <1>3, <3>1, <3>2 DEF Send
  <2>. USE DEF TypeOK
  <2>. QED BY <1>3, <2>3 DEF Send, netVars
<1>4. CASE Unlock
  BY <1>4 DEF Unlock, netVars
<1>5. CASE Quit
  BY <1>5 DEF Quit, netVars
<1>6. CASE Listen
  BY <1>6 DEF Listen, mainVars
<1>7. CASE on_open
  BY <1>7 DEF on_open, mainVars
<1>8. CASE RunReturns
  BY <1>8 DEF RunReturns, mainVars
<1>9. ASSUME NEW c \in Conns, Visit(c) PROVE TypeOK'
  BY <1>9 DEF Visit, netVars
<1>10. ASSUME NEW c \in Conns, Accept(c) \/ HandshakeFails(c) \/ Terminate(c)
       PROVE  TypeOK'
  BY <1>10 DEF Accept, HandshakeFails, Terminate, To, mainVars
<1>11. ASSUME NEW c \in Conns, Open(c) PROVE TypeOK'
  BY <1>11 DEF Open, To, mainVars
<1>12. ASSUME NEW c \in Conns, on_close(c) PROVE TypeOK'
  BY <1>12 DEF on_close, To, mainVars
<1>13. ASSUME NEW c \in Conns, on_message(c) PROVE TypeOK'
  BY <1>13 DEF on_message, Running, To, mainVars
<1>14. CASE UNCHANGED vars
  BY <1>14 DEF vars
<1>. QED
  BY <1>1, <1>2, <1>3, <1>4, <1>5, <1>6, <1>7, <1>8, <1>9, <1>10, <1>11, <1>12, <1>13,
     <1>14 DEF Next

(* on_close, which frees a connection, waits for the lock; so what the     *)
(* loop has yet to visit stays in the table.                               *)
LEMMA TableStep ==
  TypeOK /\ Loop /\ Table /\ [Next]_vars => Loop' /\ Table'
<1> SUFFICES ASSUME TypeOK, Loop, Table, [Next]_vars PROVE Loop' /\ Table'
  OBVIOUS
<1> USE NULLAssumption DEF TypeOK, Loop, Locked, Table
<1>1. CASE startserver
  BY <1>1 DEF startserver
<1>2. CASE sendmsgtoweb
  BY <1>2 DEF sendmsgtoweb, netVars
<1>3. CASE Send
  BY <1>3 DEF Send, netVars
<1>4. CASE Unlock
  BY <1>4 DEF Unlock, netVars
<1>5. CASE Quit
  BY <1>5 DEF Quit, netVars
<1>6. CASE Listen
  BY <1>6 DEF Listen, mainVars
<1>7. CASE on_open
  BY <1>7 DEF on_open, mainVars
<1>8. CASE RunReturns
  BY <1>8 DEF RunReturns, Running, mainVars
<1>9. ASSUME NEW c \in Conns, Visit(c) PROVE Loop' /\ Table'
  BY <1>9 DEF Visit, netVars
<1>10. ASSUME NEW c \in Conns, Accept(c) \/ HandshakeFails(c) \/ Terminate(c)
       PROVE  Loop' /\ Table'
  BY <1>10 DEF Accept, HandshakeFails, Terminate, Running, To, mainVars
<1>11. ASSUME NEW c \in Conns, Open(c) PROVE Loop' /\ Table'
  BY <1>11 DEF Open, Running, To, mainVars
<1>12. ASSUME NEW c \in Conns, on_close(c) PROVE Loop' /\ Table'
  BY <1>12 DEF on_close, Running, To, mainVars
<1>13. ASSUME NEW c \in Conns, on_message(c) PROVE Loop' /\ Table'
  <2>1. network = "running" /\ network' \in {"running", "ended"} /\ opening = NULL
    BY <1>13 DEF on_message, Running
  <2>2. UNCHANGED <<main, todo, it, said, opening, g_maphdl>>
    BY <1>13 DEF on_message, mainVars
  <2>3. CASE conn' = conn
    BY <2>1, <2>2, <2>3
  <2>4. CASE network' = "ended" /\ conn' = [conn EXCEPT ![c] = "gone"]
    <3>1. \A d \in Conns : conn'[d] = IF d = c THEN "gone" ELSE conn[d]
      BY <2>4
    <3>. QED BY <2>1, <2>2, <2>4, <3>1
  <2>. QED BY <1>13, <2>3, <2>4 DEF on_message, To
<1>14. CASE UNCHANGED vars
  BY <1>14 DEF vars
<1>. QED
  BY <1>1, <1>2, <1>3, <1>4, <1>5, <1>6, <1>7, <1>8, <1>9, <1>10, <1>11, <1>12, <1>13,
     <1>14 DEF Next

LEMMA UnsentStep ==
  TypeOK /\ Loop /\ Table /\ Unsent /\ [Next]_vars => Unsent'
<1> SUFFICES ASSUME TypeOK, Loop, Table, Unsent, [Next]_vars PROVE Unsent'
  OBVIOUS
<1> USE NULLAssumption DEF TypeOK, Unsent
<1>1. CASE startserver
  BY <1>1 DEF startserver
<1>2. CASE sendmsgtoweb
  BY <1>2 DEF sendmsgtoweb, netVars
<1>3. CASE Send
  <2>1. it \in g_maphdl /\ it # opening /\ conn[it] \notin {"new", "connecting"}
    BY <1>3 DEF Send, Loop, Table
  <2>2. \A c \in Conns : c # it => sent'[c] = sent[c]
    BY <1>3 DEF Send
  <2>. QED BY <1>3, <2>1, <2>2 DEF Send, netVars
<1>4. CASE Unlock
  BY <1>4 DEF Unlock, netVars
<1>5. CASE Quit
  BY <1>5 DEF Quit, netVars
<1>6. CASE Listen
  BY <1>6 DEF Listen, mainVars
<1>7. CASE on_open
  BY <1>7 DEF on_open, mainVars
<1>8. CASE RunReturns
  BY <1>8 DEF RunReturns, mainVars
<1>9. ASSUME NEW c \in Conns, Visit(c) PROVE Unsent'
  BY <1>9 DEF Visit, netVars
<1>10. ASSUME NEW c \in Conns, Accept(c) \/ HandshakeFails(c) \/ Terminate(c)
       PROVE  Unsent'
  BY <1>10 DEF Accept, HandshakeFails, Terminate, To, mainVars
<1>11. ASSUME NEW c \in Conns, Open(c) PROVE Unsent'
  BY <1>11 DEF Open, Running, To, mainVars
<1>12. ASSUME NEW c \in Conns, on_close(c) PROVE Unsent'
  BY <1>12 DEF on_close, To, mainVars
<1>13. ASSUME NEW c \in Conns, on_message(c) PROVE Unsent'
  BY <1>13 DEF on_message, Running, To, mainVars
<1>14. CASE UNCHANGED vars
  BY <1>14 DEF vars
<1>. QED
  BY <1>1, <1>2, <1>3, <1>4, <1>5, <1>6, <1>7, <1>8, <1>9, <1>10, <1>11, <1>12, <1>13,
     <1>14 DEF Next

(* A step that changes nothing of the messages, and neither opens a        *)
(* connection of the table nor adds one to it.                             *)
LEMMA NothingSent ==
  ASSUME UNCHANGED mainVars, UNCHANGED since, g_maphdl' \subseteq g_maphdl,
         \A c \in g_maphdl' : conn'[c] = "open" => conn[c] = "open",
         Counted, NothingMissed
  PROVE  Counted' /\ NothingMissed'
  BY DEF mainVars, Counted, NothingMissed, Pending, Alive

LEMMA MissedStep ==
  TypeOK /\ Loop /\ Table /\ Unsent /\ Counted /\ NothingMissed /\ [Next]_vars
    => Counted' /\ NothingMissed'
<1> SUFFICES ASSUME TypeOK, Loop, Table, Unsent, Counted, NothingMissed, [Next]_vars
             PROVE  Counted' /\ NothingMissed'
  OBVIOUS
<1>0. /\ said \in Nat /\ NULL \notin g_maphdl /\ g_maphdl \subseteq Conns
      /\ \A c \in Conns : since[c] \in Nat
  BY NULLAssumption, MaxMessagesAssumption DEF TypeOK
<1>1. CASE startserver
  BY <1>1, NULLAssumption DEF startserver, Counted, NothingMissed, Pending, Alive, Loop, TypeOK
<1>2. CASE sendmsgtoweb
  <2>. USE <1>2 DEF sendmsgtoweb, netVars, TypeOK
  <2>1. \A c \in g_maphdl : Pending(c) = 0 /\ Pending(c)' = 1
    BY NULLAssumption DEF Pending, Loop
  <2>2. Counted'
    BY <2>1 DEF Counted
  <2>3. \A c \in g_maphdl :
          said' - since'[c] - Pending(c)' = said - since[c] - Pending(c)
    BY <2>1
  <2>4. NothingMissed'
    BY <2>3 DEF NothingMissed, Alive
  <2>. QED BY <2>2, <2>4
<1>3. CASE Send
  <2>. USE <1>3 DEF Send, netVars
  <2>1. it \in g_maphdl /\ it \in Conns /\ it \notin todo
    BY DEF Loop, TypeOK
  <2>2. \A c \in g_maphdl : c # it => Pending(c)' = Pending(c) \/ main' = "crashed"
    BY <1>0 DEF Pending
  <2>3. \A c \in g_maphdl : c = it => Pending(c) = 1 /\ Pending(c)' = 0
    BY <1>0, <2>1 DEF Pending
  <2>4. main' = "crashed" => \A c \in g_maphdl : Pending(c)' = 0
    BY DEF Pending
  <2>5. \A c \in g_maphdl :
          Pending(c) \in {0, 1} /\ Pending(c)' \in {0, 1} /\ Pending(c)' <= Pending(c)
    <3>1. \A c \in g_maphdl : Pending(c) \in {0, 1} /\ Pending(c)' \in {0, 1}
      BY DEF Pending
    <3>. QED BY <2>2, <2>3, <2>4, <3>1
  <2>6. Counted'
    <3>1. g_maphdl' = g_maphdl /\ since' = since /\ said' = said
      OBVIOUS
    <3>. QED BY <1>0, <2>5, <3>1 DEF Counted
  <2>7. CASE main' = "crashed"
    BY <2>6, <2>7 DEF NothingMissed, Alive
  <2>8. CASE main' = "visit"
    <3>. DEFINE n == said - since[it] - 1
                k == since[it]
    <3>1. conn[it] = "open" /\ sent' = [sent EXCEPT ![it] = Append(@, said)]
      BY <2>8
    <3>2. n \in Nat /\ k \in Int /\ said = k + n + 1
      BY <2>1, <2>3 DEF Counted, TypeOK
    <3>3. sent[it] = [i \in 1 .. n |-> k + i]
      BY <2>1, <2>3, <3>1 DEF NothingMissed, Alive
    <3>4. sent'[it] = Append(sent[it], said)
      BY <2>1, <3>1 DEF TypeOK
    <3>. HIDE DEF n, k
    <3>5. sent'[it] = [i \in 1 .. n + 1 |-> k + i]
      BY <3>2, <3>3, <3>4, OneMore
    <3>6. \A c \in g_maphdl : c = it => n + 1 = said' - since'[c] - Pending(c)'
      BY <1>0, <2>1, <2>3 DEF n
    <3>7. \A c \in g_maphdl : c # it => sent'[c] = sent[c] /\ Pending(c)' = Pending(c)
      BY <2>2, <2>8, <3>1 DEF TypeOK
    <3>8. ASSUME NEW c \in g_maphdl, conn[c] = "open"
          PROVE  sent'[c] = [i \in 1 .. said' - since'[c] - Pending(c)' |-> since'[c] + i]
      <4>1. CASE c = it
        <5>1. since'[it] = k
          BY DEF k
        <5>. QED BY <3>5, <3>6, <4>1, <5>1, Zenon
      <4>2. CASE c # it
        BY <3>7, <3>8, <4>2 DEF NothingMissed, Alive
      <4>. QED BY <4>1, <4>2
    <3>9. NothingMissed'
      BY <3>8 DEF NothingMissed
    <3>. QED BY <2>6, <3>9
  <2>. QED BY <2>6, <2>7, <2>8
<1>4. CASE Unlock
  <2>. USE <1>4 DEF Unlock, netVars
  <2>1. \A c \in g_maphdl : Pending(c) = 0 /\ Pending(c)' = 0
    BY <1>0 DEF Pending, Loop
  <2>2. g_maphdl' = g_maphdl /\ since' = since /\ said' = said
    OBVIOUS
  <2>3. Counted'
    BY <1>0, <2>1, <2>2 DEF Counted
  <2>4. \A c \in g_maphdl :
          said' - since'[c] - Pending(c)' = said - since[c] - Pending(c)
    BY <2>1, <2>2
  <2>5. NothingMissed'
    BY <2>4 DEF NothingMissed, Alive
  <2>. QED BY <2>3, <2>5
<1>5. CASE Quit
  BY <1>5 DEF Quit, netVars, Counted, NothingMissed, Pending, Alive, Loop, TypeOK
<1>6. CASE Listen
  BY <1>6, NothingSent DEF Listen
<1>7. CASE on_open
  <2>. USE <1>7 DEF on_open, mainVars
  <2>1. \A c \in Conns : Pending(c) = 0 /\ Pending(c)' = 0
    BY DEF Pending, Locked
  <2>2. opening \in Conns /\ sent[opening] = <<>> /\ opening \notin g_maphdl
    BY DEF Unsent, Table, TypeOK
  <2>3. since'[opening] = said /\ \A c \in g_maphdl : since'[c] = since[c]
    BY <2>2 DEF TypeOK
  <2>4. Counted'
    BY <2>1, <2>2, <2>3 DEF Counted, TypeOK
  <2>5. ASSUME NEW c \in g_maphdl', conn'[c] = "open"
        PROVE  sent'[c] = [i \in 1 .. said' - since'[c] - Pending(c)' |-> since'[c] + i]
    <3>1. CASE c = opening
      <4>1. said' - since'[c] - Pending(c)' = 0
        BY <2>1, <2>2, <2>3, <3>1 DEF TypeOK
      <4>2. sent'[c] = <<>>
        BY <2>2, <3>1
      <4>. QED BY <4>1, <4>2
    <3>2. CASE c \in g_maphdl
      <4>1. conn[c] = "open" /\ Alive /\ sent' = sent /\ since'[c] = since[c]
        BY <2>3, <2>5, <3>2 DEF Alive
      <4>2. said' - since'[c] - Pending(c)' = said - since[c] - Pending(c)
        BY <1>0, <2>1, <3>2, <4>1
      <4>3. sent[c] = [i \in 1 .. said - since[c] - Pending(c) |-> since[c] + i]
        BY <3>2, <4>1 DEF NothingMissed
      <4>. QED BY <4>1, <4>2, <4>3, Zenon
    <3>. QED BY <3>1, <3>2
  <2>6. NothingMissed'
    BY <2>5 DEF NothingMissed
  <2>. QED BY <2>4, <2>6
<1>8. CASE RunReturns
  BY <1>8, NothingSent DEF RunReturns
<1>9. ASSUME NEW c \in Conns, Visit(c) PROVE Counted' /\ NothingMissed'
  <2>. USE <1>9 DEF Visit, netVars
  <2>1. it = NULL /\ c \in g_maphdl
    BY DEF Loop, Locked
  <2>2. \A d \in g_maphdl :
          /\ Pending(d) \in {0, 1} /\ Pending(d)' \in {0, 1} /\ Pending(d)' <= Pending(d)
          /\ conn[d] = "open" /\ main' # "crashed" => Pending(d)' = Pending(d)
    BY <2>1, NULLAssumption DEF Pending, TypeOK
  <2>3. Counted'
    <3>1. g_maphdl' = g_maphdl /\ since' = since /\ said' = said
      OBVIOUS
    <3>. QED BY <1>0, <2>2, <3>1 DEF Counted
  <2>4. NothingMissed'
    BY <2>2 DEF NothingMissed, Alive
  <2>. QED BY <2>3, <2>4
<1>10. ASSUME NEW c \in Conns, Accept(c) \/ HandshakeFails(c) \/ Terminate(c)
       PROVE  Counted' /\ NothingMissed'
  BY <1>10, NothingSent DEF Accept, HandshakeFails, Terminate, To, TypeOK
<1>11. ASSUME NEW c \in Conns, Open(c) PROVE Counted' /\ NothingMissed'
  BY <1>11, NothingSent DEF Open, To, Table, TypeOK
<1>12. ASSUME NEW c \in Conns, on_close(c) PROVE Counted' /\ NothingMissed'
  BY <1>12, NothingSent DEF on_close, To, TypeOK
<1>13. ASSUME NEW c \in Conns, on_message(c) PROVE Counted' /\ NothingMissed'
  BY <1>13, NothingSent DEF on_message, To, TypeOK
<1>14. CASE UNCHANGED vars
  BY <1>14, NothingSent DEF vars, mainVars
<1>. QED
  BY <1>1, <1>2, <1>3, <1>4, <1>5, <1>6, <1>7, <1>8, <1>9, <1>10, <1>11, <1>12, <1>13,
     <1>14 DEF Next

-----------------------------------------------------------------------------
LEMMA InvAlways == Spec => []IInv
<1>1. IInv /\ [Next]_vars => IInv'
  BY TypesStep, TableStep, UnsentStep, MissedStep DEF IInv
<1>. QED BY InitInv, <1>1, PTL DEF Spec

(* Every variable of the WebSocket server keeps its type.                  *)
THEOREM TypeCorrect == Spec => []TypeOK
<1>1. IInv => TypeOK
  BY DEF IInv
<1>. QED BY <1>1, InvAlways, PTL

(* sendmsgtoweb asks for no connection that has been freed, but perhaps    *)
(* for the one whose message ended the network thread: its lock keeps what *)
(* it has yet to visit in the table, and the rest of the table is alive.   *)
THEOREM LoopFindsConnections == Spec => []HandlesAlive
<1>1. IInv => HandlesAlive
  BY DEF IInv, Loop, Table, HandlesAlive, Stale
<1>. QED BY <1>1, InvAlways, PTL

(* A connection that is open has been sent every message since on_open,    *)
(* each once and in order, however connections open and end meanwhile.     *)
THEOREM NoMessageIsMissed == Spec => []NothingMissed
<1>1. IInv => NothingMissed
  BY DEF IInv
<1>. QED BY <1>1, InvAlways, PTL
-----------------------------------------------------------------------------
(* What TableForgets promises without fairness.                            *)

(* The table holds every connection that is open or has on_close to come;  *)
(* one is missing while its on_open is to run.  As long as the network     *)
(* thread has not ended it holds no other.                                 *)
TableComplete ==
  \A c \in Conns :
    /\ conn[c] \in {"open", "ending"} => c \in g_maphdl \/ c = opening
    /\ c \in g_maphdl \/ c = opening =>
         conn[c] \in {"open", "ending"} \/ network = "ended"

LEMMA TableCompleteStep ==
  ASSUME IInv, TableComplete, [Next]_vars
  PROVE  TableComplete'
<1>. USE NULLAssumption DEF IInv, TypeOK, TableComplete
<1>1. CASE startserver \/ sendmsgtoweb \/ Send \/ Unlock \/ Quit \/ \E c \in Conns : Visit(c)
  BY <1>1 DEF startserver, sendmsgtoweb, Send, Unlock, Quit, Visit, netVars, Loop
<1>2. CASE Listen \/ RunReturns \/ \E c \in Conns : on_message(c)
  <2>1. g_maphdl' = g_maphdl /\ opening' = opening
    BY <1>2 DEF Listen, RunReturns, on_message
  <2>2. CASE Listen \/ RunReturns
    <3>1. conn' = conn /\ network \in {"setup", "running"}
      BY <2>2 DEF Listen, RunReturns, Running
    <3>. QED BY <2>1, <3>1
  <2>3. ASSUME NEW c \in Conns, on_message(c) PROVE TableComplete'
    <3>1. \/ conn' = conn
          \/ network' = "ended" /\ conn' = [conn EXCEPT ![c] = "gone"]
      BY <2>3 DEF on_message, To
    <3>2. network = "running"
      BY <2>3 DEF on_message, Running
    <3>. QED BY <2>1, <3>1, <3>2
  <2>. QED BY <1>2, <2>2, <2>3
<1>3. CASE on_open
  BY <1>3 DEF on_open
<1>4. ASSUME NEW c \in Conns, Accept(c) \/ HandshakeFails(c) \/ Terminate(c) \/ on_close(c)
      PROVE  TableComplete'
  <2>1. opening = NULL /\ opening' = NULL /\ network' = network
    BY <1>4 DEF Accept, HandshakeFails, Terminate, on_close, Running
  <2>2. \A d \in Conns : d # c => conn'[d] = conn[d]
    BY <1>4 DEF Accept, HandshakeFails, Terminate, on_close, To
  <2>3. \/ conn[c] \in {"new", "connecting"} /\ conn'[c] \in {"connecting", "gone"}
           /\ g_maphdl' = g_maphdl
        \/ conn[c] = "open" /\ conn'[c] = "ending" /\ g_maphdl' = g_maphdl
        \/ conn[c] = "ending" /\ conn'[c] = "gone" /\ g_maphdl' = g_maphdl \ {c}
    BY <1>4 DEF Accept, HandshakeFails, Terminate, on_close, To
  <2>. QED BY <2>1, <2>2, <2>3
<1>5. ASSUME NEW c \in Conns, Open(c) PROVE TableComplete'
  <2>1. opening = NULL /\ opening' = c /\ g_maphdl' = g_maphdl /\ network' = network
    BY <1>5 DEF Open, Running
  <2>2. conn'[c] = "open" /\ \A d \in Conns : d # c => conn'[d] = conn[d]
    BY <1>5 DEF Open, To
  <2>. QED BY <2>1, <2>2
<1>6. CASE UNCHANGED vars
  BY <1>6 DEF vars
<1>. QED BY <1>1, <1>2, <1>3, <1>4, <1>5, <1>6 DEF Next

(* No connection is forgotten while it lives, for any number of them, so a *)
(* message goes to every one that is open, but for one whose on_open is to *)
(* run; and none is kept when it is gone, unless a second "stop-listening" *)
(* ended the network thread.                                               *)
THEOREM TableIsComplete == Spec => []TableComplete
<1>1. Init => TableComplete
  BY NULLAssumption DEF Init, TableComplete
<1>. QED BY <1>1, TableCompleteStep, InvAlways, PTL DEF Spec

(* The loop that holds the lock comes nearer to its end with each step of  *)
(* the main thread, and the network thread does not touch it.              *)
LoopGoesOn ==
  Locked =>
    \/ ~Locked'
    \/ todo' \subseteq todo /\ todo' # todo
    \/ main = "send" /\ main' = "visit" /\ todo' = todo
    \/ UNCHANGED <<main, todo, it>>

(* A closed connection waits for on_close and for nothing else.            *)
EndingWaits ==
  \A c \in Conns : conn[c] = "ending" =>
    \/ conn'[c] = "ending" /\ c \in g_maphdl'
    \/ conn'[c] = "gone" /\ c \notin g_maphdl'

(* The safety part of TableForgets: the lock that on_close waits for is    *)
(* given back after at most two steps for each connection, whatever        *)
(* happens on the network meanwhile.                                       *)
THEOREM LockIsGivenBack == Spec => [][LoopGoesOn /\ EndingWaits]_vars
<1>1. ASSUME IInv, Next PROVE LoopGoesOn
  <2>1. CASE startserver \/ sendmsgtoweb \/ Quit
    BY <2>1 DEF startserver, sendmsgtoweb, Quit, LoopGoesOn, Locked
  <2>2. CASE Send
    BY <2>2 DEF Send, LoopGoesOn, Locked
  <2>3. CASE Unlock
    BY <2>3 DEF Unlock, LoopGoesOn, Locked
  <2>4. ASSUME NEW c \in Conns, Visit(c) PROVE LoopGoesOn
    <3>1. main' = "crashed" \/ todo' = todo \ {c}
      BY <2>4 DEF Visit
    <3>. QED BY <2>4, <3>1 DEF Visit, LoopGoesOn, Locked
  <2>5. CASE \/ Listen \/ on_open \/ RunReturns
             \/ \E c \in Conns : \/ Accept(c) \/ HandshakeFails(c) \/ Open(c) \/ Terminate(c)
                                 \/ on_close(c) \/ on_message(c)
    <3>1. main' = main /\ todo' = todo /\ it' = it
      BY <2>5 DEF Listen, on_open, RunReturns, Accept, HandshakeFails, Open, Terminate,
         on_close, on_message, mainVars
    <3>. QED BY <3>1 DEF LoopGoesOn
  <2>. QED BY <1>1, <2>1, <2>2, <2>3, <2>4, <2>5 DEF Next
<1>2. ASSUME IInv, TableComplete, TableComplete', Next PROVE EndingWaits
  <2>. SUFFICES ASSUME NEW c \in Conns, conn[c] = "ending"
                PROVE  \/ conn'[c] = "ending" /\ c \in g_maphdl'
                       \/ conn'[c] = "gone" /\ c \notin g_maphdl'
    BY DEF EndingWaits
  <2>1. c \in g_maphdl
    BY <1>2, NULLAssumption DEF TableComplete, IInv, Table
  <2>2. CASE on_close(c)
    BY <1>2, <2>2 DEF on_close, To, IInv, TypeOK
  <2>3. CASE ~on_close(c)
    <3>1. conn'[c] = conn[c]
      BY <1>2, <2>3 DEF Next, startserver, sendmsgtoweb, Send, Unlock, Quit, Listen, on_open,
         RunReturns, Visit, Accept, HandshakeFails, Open, Terminate, on_close, on_message,
         To, netVars, IInv, TypeOK
    <3>2. c \in g_maphdl'
      BY <1>2, <2>1, <2>3 DEF Next, startserver, sendmsgtoweb, Send, Unlock, Quit, Listen,
         on_open, RunReturns, Visit, Accept, HandshakeFails, Open, Terminate, on_close,
         on_message, netVars
    <3>. QED BY <3>1, <3>2
  <2>. QED BY <2>2, <2>3
<1>3. IInv /\ TableComplete /\ TableComplete' /\ [Next]_vars => [LoopGoesOn /\ EndingWaits]_vars
  BY <1>1, <1>2
<1>. QED BY <1>3, InvAlways, TableIsComplete, PTL DEF Spec
=============================================================================
