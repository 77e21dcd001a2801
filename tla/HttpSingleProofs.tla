-------------------------- MODULE HttpSingleProofs --------------------------
(***************************************************************************)
(* Proofs about the single-threaded HTTP server: its types, that a         *)
(* connection is kept exactly as long as its socket is open and something  *)
(* is outstanding on it, that a stopped server has none and waits for      *)
(* nothing, and that each connection is an Exchange.                       *)
(***************************************************************************)
EXTENDS HttpSingle, FiniteSetTheorems, TLAPS

(* TypeOK without the cardinality.                                         *)
Types ==
  /\ running \in BOOLEAN /\ acceptorOpen \in BOOLEAN
  /\ accept \in Results \cup {"none"}
  /\ accepted \subseteq Conns
  /\ signals \in {"waiting", "ok", "none"}
  /\ fresh \subseteq Conns /\ connections_ \subseteq Conns
  /\ socket \in [Conns -> BOOLEAN]
  /\ op \in [Conns -> {"none", "read", "write"}]
  /\ result \in [Conns -> Results]

(* A connection that was accepted waits for its handler exactly when the   *)
(* accept operation has succeeded.                                         *)
OneAccepted ==
  /\ IF accept = "ok" THEN \E c \in Conns : accepted = {c} ELSE accepted = {}
  /\ accepted \cap fresh = {}

(* A connection that is not started has nothing outstanding, and nothing   *)
(* has been aborted on it.                                                 *)
Untouched ==
  \A c \in fresh \cup accepted : op[c] = "none" /\ result[c] = "waiting"

IInv == Types /\ OneAccepted /\ Untouched /\ ConnectionsServed /\ NoneAfterStop

-----------------------------------------------------------------------------
LEMMA InitInv == Init => IInv
  BY DEF Init, IInv, Types, OneAccepted, Untouched, ConnectionsServed, NoneAfterStop, Results

LEMMA TypesStep == Types /\ [Next]_vars => Types'
<1> SUFFICES ASSUME Types, [Next]_vars PROVE Types'
  OBVIOUS
<1> USE DEF Types, Results
<1>1. CASE AcceptFails
  BY <1>1 DEF AcceptFails, connVars
<1>2. CASE Signal
  BY <1>2 DEF Signal, connVars
<1>3. CASE OnAccept
  BY <1>3 DEF OnAccept, StartAccepted, connVars
<1>4. CASE OnSignal
  BY <1>4 DEF OnSignal, StopAll
<1>5. CASE Return
  BY <1>5 DEF Return, connVars
<1>6. ASSUME NEW c \in Conns, Arrive(c) PROVE Types'
  BY <1>6 DEF Arrive, connVars
<1>7. ASSUME NEW c \in Conns, Finish(c) PROVE Types'
  BY <1>7 DEF Finish, serverVars
<1>8. ASSUME NEW c \in Conns, OnRead(c) PROVE Types'
  BY <1>8 DEF OnRead, Begin, Stop, Drop, serverVars
<1>9. ASSUME NEW c \in Conns, OnWrite(c) PROVE Types'
  BY <1>9 DEF OnWrite, Stop, Drop, serverVars
<1>10. CASE UNCHANGED vars
  BY <1>10 DEF vars
<1>. QED
  BY <1>1, <1>2, <1>3, <1>4, <1>5, <1>6, <1>7, <1>8, <1>9, <1>10 DEF Next

(* The accepted connection is the one of the operation that succeeded.     *)
LEMMA AcceptedStep ==
  Types /\ OneAccepted /\ Untouched /\ ConnectionsServed /\ [Next]_vars
    => OneAccepted' /\ Untouched'
<1> SUFFICES ASSUME Types, OneAccepted, Untouched, ConnectionsServed, [Next]_vars
             PROVE  OneAccepted' /\ Untouched'
  OBVIOUS
<1> USE DEF Types, Results, OneAccepted, Untouched
<1>1. CASE AcceptFails
  BY <1>1 DEF AcceptFails, connVars
<1>2. CASE Signal
  BY <1>2 DEF Signal, connVars
<1>3. CASE OnAccept
  BY <1>3 DEF OnAccept, StartAccepted, connVars
<1>4. CASE OnSignal
  BY <1>4 DEF OnSignal, StopAll, ConnectionsServed
<1>5. CASE Return
  BY <1>5 DEF Return, connVars
<1>6. ASSUME NEW c \in Conns, Arrive(c) PROVE OneAccepted' /\ Untouched'
  BY <1>6 DEF Arrive, connVars
<1>7. ASSUME NEW c \in Conns, Finish(c) PROVE OneAccepted' /\ Untouched'
  BY <1>7 DEF Finish, serverVars
<1>8. ASSUME NEW c \in Conns, OnRead(c) PROVE OneAccepted' /\ Untouched'
  BY <1>8 DEF OnRead, Begin, Stop, Drop, serverVars
<1>9. ASSUME NEW c \in Conns, OnWrite(c) PROVE OneAccepted' /\ Untouched'
  BY <1>9 DEF OnWrite, Stop, Drop, serverVars
<1>10. CASE UNCHANGED vars
  BY <1>10 DEF vars
<1>. QED
  BY <1>1, <1>2, <1>3, <1>4, <1>5, <1>6, <1>7, <1>8, <1>9, <1>10 DEF Next

LEMMA ServedStep ==
  Types /\ OneAccepted /\ Untouched /\ ConnectionsServed /\ [Next]_vars
    => ConnectionsServed'
<1> SUFFICES ASSUME Types, OneAccepted, Untouched, ConnectionsServed, [Next]_vars
             PROVE  ConnectionsServed'
  OBVIOUS
<1> USE DEF Types, Results, ConnectionsServed
<1>1. CASE AcceptFails
  BY <1>1 DEF AcceptFails, connVars
<1>2. CASE Signal
  BY <1>2 DEF Signal, connVars
<1>3. CASE OnAccept
  BY <1>3 DEF OnAccept, StartAccepted, connVars, Untouched
<1>4. CASE OnSignal
  BY <1>4 DEF OnSignal, StopAll
<1>5. CASE Return
  BY <1>5 DEF Return, connVars
<1>6. ASSUME NEW c \in Conns, Arrive(c) PROVE ConnectionsServed'
  BY <1>6 DEF Arrive, connVars
<1>7. ASSUME NEW c \in Conns, Finish(c) PROVE ConnectionsServed'
  BY <1>7 DEF Finish, serverVars
<1>8. ASSUME NEW c \in Conns, OnRead(c) PROVE ConnectionsServed'
  BY <1>8 DEF OnRead, Begin, Stop, Drop, serverVars
<1>9. ASSUME NEW c \in Conns, OnWrite(c) PROVE ConnectionsServed'
  BY <1>9 DEF OnWrite, Stop, Drop, serverVars
<1>10. CASE UNCHANGED vars
  BY <1>10 DEF vars
<1>. QED
  BY <1>1, <1>2, <1>3, <1>4, <1>5, <1>6, <1>7, <1>8, <1>9, <1>10 DEF Next

(* Only an accept handler starts a connection, and it asks whether the     *)
(* acceptor is open.                                                       *)
LEMMA NoneStep ==
  Types /\ ConnectionsServed /\ NoneAfterStop /\ [Next]_vars => NoneAfterStop'
<1> SUFFICES ASSUME Types, ConnectionsServed, NoneAfterStop, [Next]_vars
             PROVE  NoneAfterStop'
  OBVIOUS
<1> USE DEF Types, Results, NoneAfterStop
<1>1. CASE AcceptFails
  BY <1>1 DEF AcceptFails, connVars
<1>2. CASE Signal
  BY <1>2 DEF Signal, connVars
<1>3. CASE OnAccept
  BY <1>3 DEF OnAccept, connVars
<1>4. CASE OnSignal
  BY <1>4 DEF OnSignal, StopAll, ConnectionsServed
<1>5. CASE Return
  BY <1>5 DEF Return, connVars
<1>6. ASSUME NEW c \in Conns, Arrive(c) PROVE NoneAfterStop'
  BY <1>6 DEF Arrive, connVars
<1>7. ASSUME NEW c \in Conns, Finish(c) PROVE NoneAfterStop'
  BY <1>7 DEF Finish, serverVars
<1>8. ASSUME NEW c \in Conns, OnRead(c) PROVE NoneAfterStop'
  BY <1>8 DEF OnRead, Begin, Stop, Drop, serverVars
<1>9. ASSUME NEW c \in Conns, OnWrite(c) PROVE NoneAfterStop'
  BY <1>9 DEF OnWrite, Stop, Drop, serverVars
<1>10. CASE UNCHANGED vars
  BY <1>10 DEF vars
<1>. QED
  BY <1>1, <1>2, <1>3, <1>4, <1>5, <1>6, <1>7, <1>8, <1>9, <1>10 DEF Next

-----------------------------------------------------------------------------
LEMMA InvAlways == Spec => []IInv
<1>1. IInv /\ [Next]_vars => IInv'
  BY TypesStep, AcceptedStep, ServedStep, NoneStep DEF IInv
<1>. QED BY InitInv, <1>1, PTL DEF Spec

(* Every variable keeps its type, and at most one accepted connection      *)
(* waits for do_accept's handler.                                          *)
THEOREM TypeCorrect == Spec => []TypeOK
<1>1. IInv => TypeOK
  <2> SUFFICES ASSUME IInv PROVE TypeOK
    OBVIOUS
  <2>1. Cardinality(accepted) = IF accept = "ok" THEN 1 ELSE 0
    BY FS_EmptySet, FS_Singleton DEF IInv, OneAccepted
  <2>. QED BY <2>1 DEF IInv, Types, TypeOK
<1>. QED BY <1>1, InvAlways, PTL

(* For any number of connections: one is in connection_manager's set       *)
(* exactly while its socket is open, and then something is outstanding     *)
(* that will end it.                                                       *)
THEOREM EveryConnectionIsServed == Spec => []ConnectionsServed
<1>1. IInv => ConnectionsServed
  BY DEF IInv
<1>. QED BY <1>1, InvAlways, PTL

(* After stop_all no connection is left, and none is started by an accept  *)
(* handler that was queued when the acceptor was closed.                   *)
THEOREM NoConnectionAfterStop == Spec => []NoneAfterStop
<1>1. IInv => NoneAfterStop
  BY DEF IInv
<1>. QED BY <1>1, InvAlways, PTL

-----------------------------------------------------------------------------
(* Each connection implements Exchange.                                    *)

LEMMA ExchangeBegins ==
  ASSUME Init, NEW c \in Conns
  PROVE  E(c)!Init
BY DEF Init, E!Init, Phase

(* What a handler leaves of a connection other than its own.               *)
LEMMA ExchangeSame ==
  ASSUME NEW c \in Conns, op'[c] = op[c], socket'[c] = socket[c],
         c \in (fresh \cup accepted)' <=> c \in fresh \cup accepted
  PROVE  UNCHANGED E(c)!vars
BY DEF E!vars, Phase

LEMMA ExchangeStep ==
  ASSUME IInv, [Next]_vars, NEW c \in Conns
  PROVE  [E(c)!Next]_(E(c)!vars)
<1> USE DEF IInv, Types, Results, E!Next, E!vars
<1>1. CASE AcceptFails \/ Signal \/ Return \/ UNCHANGED vars
  BY <1>1, ExchangeSame DEF AcceptFails, Signal, Return, connVars, vars
<1>2. CASE OnAccept
  <2>1. CASE c \in accepted /\ acceptorOpen
    <3>1. op[c] = "none" /\ op'[c] = "read" /\ socket'[c] = TRUE
      BY <1>2, <2>1 DEF OnAccept, StartAccepted, Untouched
    <3>. QED BY <2>1, <3>1 DEF E!Begin, Phase
  <2>2. CASE c \in accepted /\ ~acceptorOpen
    <3>1. /\ op[c] = "none" /\ UNCHANGED <<op, socket, fresh>> /\ accepted' = {}
          /\ c \notin fresh /\ socket[c] = FALSE
      BY <1>2, <2>2 DEF OnAccept, connVars, Untouched, OneAccepted, ConnectionsServed
    <3>. QED BY <3>1 DEF E!End, Phase
  <2>3. CASE c \notin accepted
    <3>1. op'[c] = op[c] /\ socket'[c] = socket[c] /\ fresh' = fresh /\ accepted' = {}
      BY <1>2, <2>3 DEF OnAccept, StartAccepted, connVars
    <3>. QED BY <2>3, <3>1, ExchangeSame
  <2>. QED BY <2>1, <2>2, <2>3
<1>3. CASE OnSignal
  <2>1. op' = op /\ fresh' = fresh /\ accepted' = accepted /\ socket'[c] \in {socket[c], FALSE}
    BY <1>3 DEF OnSignal, StopAll
  <2>2. Phase(c)' = Phase(c)
    BY <2>1 DEF Phase
  <2>3. socket'[c] # socket[c] => Phase(c) \in {"reading", "replying"} /\ socket'[c] = FALSE
    BY <2>1 DEF ConnectionsServed, Phase
  <2>. QED BY <2>1, <2>2, <2>3 DEF E!Close
<1>4. ASSUME NEW d \in Conns, Arrive(d) \/ Finish(d) PROVE [E(c)!Next]_(E(c)!vars)
  <2>1. /\ UNCHANGED <<op, socket>>
        /\ c \in (fresh \cup accepted)' <=> c \in fresh \cup accepted
    BY <1>4 DEF Arrive, Finish, connVars, serverVars, OneAccepted
  <2>. QED BY <2>1, ExchangeSame
<1>5. ASSUME NEW d \in Conns, d # c, OnRead(d) \/ OnWrite(d) PROVE [E(c)!Next]_(E(c)!vars)
  <2>1. op'[c] = op[c] /\ socket'[c] = socket[c] /\ fresh' = fresh /\ accepted' = accepted
    BY <1>5 DEF OnRead, OnWrite, Begin, Stop, Drop, serverVars
  <2>. QED BY <2>1, ExchangeSame
<1>6. CASE OnRead(c) \/ OnWrite(c)
  <2>1. /\ op[c] \in {"read", "write"} /\ c \notin fresh \cup accepted
        /\ fresh' = fresh /\ accepted' = accepted
    BY <1>6 DEF OnRead, OnWrite, Untouched, serverVars
  <2>2. \/ op[c] = "read" /\ Begin(c, "write")
        \/ op[c] = "read" /\ Begin(c, "read")
        \/ Stop(c)
        \/ Drop(c) /\ result[c] = "aborted"
    BY <1>6 DEF OnRead, OnWrite
  <2>3. CASE op[c] = "read" /\ Begin(c, "write")
    BY <2>1, <2>3 DEF Begin, Phase, E!Reply
  <2>4. CASE op[c] = "read" /\ Begin(c, "read")
    <3>1. op'[c] = op[c] /\ socket'[c] = socket[c]
      BY <2>4 DEF Begin
    <3>. QED BY <2>1, <3>1, ExchangeSame
  <2>5. CASE Stop(c)
    BY <2>1, <2>5 DEF Stop, Phase, E!End
  <2>6. CASE Drop(c) /\ result[c] = "aborted"
    <3>1. op'[c] = "none" /\ socket'[c] = FALSE
      BY <2>6 DEF Drop, ConnectionsServed
    <3>. QED BY <2>1, <3>1 DEF Phase, E!End
  <2>. QED BY <2>2, <2>3, <2>4, <2>5, <2>6
<1>. QED BY <1>1, <1>2, <1>3, <1>4, <1>5, <1>6 DEF Next

(* For any number of connections, each is one exchange: its request is     *)
(* read, at most one reply is written, and its socket, once closed, stays  *)
(* closed, whatever handlers are queued when the signal comes.             *)
THEOREM EveryConnectionIsAnExchange ==
  Spec => EachIsAnExchange /\ \A c \in Conns : E(c)!Spec
<1>1. Spec => \A c \in Conns : E(c)!Spec
  <2> SUFFICES ASSUME NEW c \in Conns PROVE Spec => E(c)!Spec
    OBVIOUS
  <2>1. Init => E(c)!Init
    BY ExchangeBegins
  <2>2. IInv /\ [Next]_vars => [E(c)!Next]_(E(c)!vars)
    BY ExchangeStep
  <2>. QED BY <2>1, <2>2, InvAlways, PTL DEF Spec, E!Spec
<1>2. Spec => EachIsAnExchange
  <2>1. Init => \A c \in Conns : E(c)!Init
    BY ExchangeBegins
  <2>2. IInv /\ [Next]_vars => [\A c \in Conns : [E(c)!Next]_(E(c)!vars)]_vars
    BY ExchangeStep
  <2>. QED BY <2>1, <2>2, InvAlways, PTL DEF Spec, EachIsAnExchange
<1>. QED BY <1>1, <1>2

-----------------------------------------------------------------------------
(* Why run() returns: StopEnds without its fairness.                       *)

(* An operation on a closed socket has its handler queued.                 *)
ClosedIsQueued ==
  \A c \in Conns : op[c] # "none" /\ ~socket[c] => result[c] # "waiting"

(* Once stop_all ran the server waits for nothing but its own handlers ... *)
OnlyHandlersAreLeft ==
  ~acceptorOpen =>
    /\ signals = "none" /\ accept # "waiting"
    /\ \A c \in Conns : op[c] # "none" => result[c] # "waiting"

(* ... so that every step is one of theirs, or the return of run().        *)
OnlyHandlersRun ==
  ~acceptorOpen => OnAccept \/ Return \/ \E c \in Conns : OnRead(c) \/ OnWrite(c)

LEMMA QueuedStep ==
  ASSUME IInv, ClosedIsQueued, [Next]_vars
  PROVE  ClosedIsQueued'
<1> USE DEF IInv, Types, Results, ClosedIsQueued
<1>1. CASE AcceptFails \/ Signal \/ Return \/ UNCHANGED vars
  BY <1>1 DEF AcceptFails, Signal, Return, connVars, vars
<1>2. CASE OnAccept
  BY <1>2 DEF OnAccept, StartAccepted, connVars
<1>3. CASE OnSignal
  <2> SUFFICES ASSUME NEW c \in Conns, op'[c] # "none", ~socket'[c]
               PROVE  result'[c] # "waiting"
    BY DEF ClosedIsQueued
  <2>1. op[c] # "none" /\ result'[c] \in IF c \in connections_ THEN Closed(c) ELSE {result[c]}
    BY <1>3 DEF OnSignal, StopAll
  <2>2. c \in connections_ => result'[c] # "waiting"
    BY <2>1 DEF Closed
  <2>3. c \notin connections_ => ~socket[c] /\ result'[c] = result[c]
    BY <2>1 DEF ConnectionsServed
  <2>. QED BY <2>1, <2>2, <2>3
<1>4. ASSUME NEW c \in Conns, Arrive(c) \/ Finish(c) PROVE ClosedIsQueued'
  BY <1>4 DEF Arrive, Finish, connVars, serverVars
<1>5. ASSUME NEW c \in Conns, OnRead(c) PROVE ClosedIsQueued'
  BY <1>5 DEF OnRead, Begin, Stop, Drop, serverVars
<1>6. ASSUME NEW c \in Conns, OnWrite(c) PROVE ClosedIsQueued'
  BY <1>6 DEF OnWrite, Stop, Drop, serverVars
<1>. QED BY <1>1, <1>2, <1>3, <1>4, <1>5, <1>6 DEF Next

(* The acceptor is closed, and the accept operation with it, by the        *)
(* handler of the only signal.                                             *)
AcceptorClosed == ~acceptorOpen => signals = "none" /\ accept # "waiting"

LEMMA AcceptorStep ==
  ASSUME Types, AcceptorClosed, [Next]_vars
  PROVE  AcceptorClosed'
<1> USE DEF Types, Results, AcceptorClosed
<1>1. CASE AcceptFails \/ Signal \/ Return \/ UNCHANGED vars
  BY <1>1 DEF AcceptFails, Signal, Return, vars
<1>2. CASE OnAccept \/ OnSignal
  BY <1>2 DEF OnAccept, OnSignal
<1>3. ASSUME NEW c \in Conns, Arrive(c) \/ Finish(c) \/ OnRead(c) \/ OnWrite(c)
      PROVE  AcceptorClosed'
  BY <1>3 DEF Arrive, Finish, OnRead, OnWrite, serverVars
<1>. QED BY <1>1, <1>2, <1>3 DEF Next

(* For any number of connections: after the signal's handler the server    *)
(* needs no client and no signal any more, only that the handlers that are *)
(* queued are run.                                                         *)
THEOREM NothingIsAwaitedAfterStop == Spec => []OnlyHandlersAreLeft /\ [][OnlyHandlersRun]_vars
<1>1. Init => ClosedIsQueued /\ AcceptorClosed
  BY DEF Init, ClosedIsQueued, AcceptorClosed
<1>2. IInv /\ ClosedIsQueued /\ AcceptorClosed /\ [Next]_vars
        => ClosedIsQueued' /\ AcceptorClosed'
  BY QueuedStep, AcceptorStep DEF IInv
<1>3. IInv /\ ClosedIsQueued /\ AcceptorClosed => OnlyHandlersAreLeft
  BY DEF IInv, NoneAfterStop, ClosedIsQueued, AcceptorClosed, OnlyHandlersAreLeft
<1>4. OnlyHandlersAreLeft /\ [Next]_vars => [OnlyHandlersRun]_vars
  <2> SUFFICES ASSUME OnlyHandlersAreLeft, Next, ~acceptorOpen PROVE OnlyHandlersRun
    BY DEF OnlyHandlersRun
  <2>1. ~AcceptFails /\ ~Signal /\ ~OnSignal
    BY DEF OnlyHandlersAreLeft, AcceptFails, Signal, OnSignal
  <2>2. \A c \in Conns : ~Arrive(c) /\ ~Finish(c)
    BY DEF OnlyHandlersAreLeft, Arrive, Finish
  <2>. QED BY <2>1, <2>2 DEF Next, OnlyHandlersRun
<1>. QED BY <1>1, <1>2, <1>3, <1>4, InvAlways, PTL DEF Spec

(* How many handlers a connection has still to run once its socket is      *)
(* closed: one that has read a request finds out only at its next          *)
(* operation.                                                              *)
HandlersLeft(c) == IF op[c] = "none" THEN 0 ELSE IF result[c] = "ok" THEN 2 ELSE 1

(* Each step of a stopped server is the last accept handler, the return of *)
(* run(), or a handler after which its connection has fewer to run and the *)
(* others as many as before.                                               *)
StopGoesOn ==
  ~acceptorOpen =>
    \/ accept # "none" /\ accept' = "none" /\ UNCHANGED connVars
    \/ running = TRUE /\ running' = FALSE /\ UNCHANGED connVars
    \/ \E c \in Conns : /\ HandlersLeft(c)' < HandlersLeft(c)
                       /\ \A d \in Conns \ {c} : HandlersLeft(d)' = HandlersLeft(d)

(* With the fairness of StopEnds this is why run() returns: no connection  *)
(* runs more than two handlers after the signal's.                         *)
THEOREM StopMakesProgress == Spec => [][StopGoesOn]_vars
<1>1. IInv /\ OnlyHandlersRun /\ ~acceptorOpen => StopGoesOn
  <2> SUFFICES ASSUME IInv, OnlyHandlersRun, ~acceptorOpen PROVE StopGoesOn
    OBVIOUS
  <2>1. CASE OnAccept
    BY <2>1 DEF OnAccept, StopGoesOn
  <2>2. CASE Return
    BY <2>2, Zenon DEF Return, StopGoesOn
  <2>3. ASSUME NEW c \in Conns, OnRead(c) \/ OnWrite(c) PROVE StopGoesOn
    <3>1. op[c] \in {"read", "write"} /\ result[c] \in {"ok", "error", "aborted"}
      BY <2>3 DEF OnRead, OnWrite, IInv, Types, Results
    <3>2. \/ result[c] = "ok" /\ Begin(c, "write")
          \/ result[c] = "ok" /\ Begin(c, "read")
          \/ Stop(c)
          \/ Drop(c)
      BY <2>3, <3>1 DEF OnRead, OnWrite
    <3>3. \A d \in Conns \ {c} : op'[d] = op[d] /\ result'[d] = result[d]
      BY <3>2 DEF Begin, Stop, Drop, IInv, Types
    <3>4. op'[c] = "none" \/ (result[c] = "ok" /\ result'[c] = "error")
      BY <3>2 DEF Begin, Stop, Drop, IInv, Types, NoneAfterStop
    <3>5. HandlersLeft(c)' < HandlersLeft(c)
      BY <3>1, <3>4 DEF HandlersLeft
    <3>6. \A d \in Conns \ {c} : HandlersLeft(d)' = HandlersLeft(d)
      BY <3>3 DEF HandlersLeft, IInv, Types
    <3>. QED BY <3>5, <3>6 DEF StopGoesOn
  <2>. QED BY <2>1, <2>2, <2>3 DEF OnlyHandlersRun
<1>2. IInv /\ [OnlyHandlersRun]_vars => [StopGoesOn]_vars
  BY <1>1 DEF StopGoesOn
<1>. QED BY <1>2, InvAlways, NothingIsAwaitedAfterStop, PTL DEF Spec
=============================================================================
