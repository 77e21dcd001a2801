----------------------------- MODULE HttpSingle -----------------------------
(***************************************************************************)
(* The single-threaded HTTP server (AsioHttp/AsioHttp): one thread in      *)
(* io_context::run() accepts connections, reads a request from each,       *)
(* writes the reply and closes it; a signal stops everything.              *)
(*                                                                         *)
(* Handlers run one at a time.  An operation is "waiting", and once it is  *)
(* finished its handler is queued with a result.  Closing a socket aborts  *)
(* what is waiting, but not a handler that is queued already; an operation *)
(* begun on a closed socket fails, which is not the same as being aborted. *)
(* asio is external.                                                       *)
(***************************************************************************)
EXTENDS Integers, FiniteSets

CONSTANT Conns \* the connections that clients make

VARIABLES
  running,      \* run() has not returned
  acceptorOpen,
  accept,       \* the accept operation: its result, "waiting" or "none"
  accepted,     \* the connection accepted, while the handler is queued
  signals,      \* the wait for a signal: "waiting", "ok" or "none"
  fresh,        \* connections that have not been accepted
  connections_,
  socket,       \* per connection: open
  op,           \* per connection: the operation "read" or "write", or "none"
  result        \* per connection: of op; "waiting", "ok", "error" or "aborted"

serverVars == <<running, acceptorOpen, accept, accepted, signals, fresh>>
connVars == <<connections_, socket, op, result>>
vars == <<running, acceptorOpen, accept, accepted, signals, fresh, connections_,
          socket, op, result>>

(* The constructor of server, which ends with do_accept.                   *)
Init ==
  /\ running = TRUE /\ acceptorOpen = TRUE
  /\ accept = "waiting" /\ accepted = {} /\ signals = "waiting"
  /\ fresh = Conns
  /\ connections_ = {}
  /\ socket = [c \in Conns |-> FALSE]
  /\ op = [c \in Conns |-> "none"]
  /\ result = [c \in Conns |-> "waiting"]

-----------------------------------------------------------------------------
(* What asio finishes.                                                     *)

Arrive(c) ==
  /\ running /\ accept = "waiting" /\ c \in fresh
  /\ accept' = "ok" /\ accepted' = {c} /\ fresh' = fresh \ {c}
  /\ UNCHANGED <<running, acceptorOpen, signals, connVars>>

AcceptFails ==
  /\ running /\ accept = "waiting"
  /\ accept' = "error"
  /\ UNCHANGED <<running, acceptorOpen, accepted, signals, fresh, connVars>>

Signal ==
  /\ running /\ signals = "waiting"
  /\ signals' = "ok"
  /\ UNCHANGED <<running, acceptorOpen, accept, accepted, fresh, connVars>>

Finish(c) ==
  /\ running /\ op[c] # "none" /\ result[c] = "waiting"
  /\ \E r \in {"ok", "error"} : result' = [result EXCEPT ![c] = r]
  /\ UNCHANGED <<serverVars, connections_, socket, op>>

-----------------------------------------------------------------------------
(* The handlers.                                                           *)

Results == {"waiting", "ok", "error", "aborted"}

(* What closing its socket does to the operation of a connection; a write  *)
(* of several parts may fail at the next part.                             *)
Closed(c) ==
  IF result[c] # "waiting" THEN {result[c]}
  ELSE IF op[c] = "write" THEN {"aborted", "error"} ELSE {"aborted"}

Begin(c, o) ==
  /\ op' = [op EXCEPT ![c] = o]
  /\ result' = [result EXCEPT ![c] = IF socket[c] THEN "waiting" ELSE "error"]
  /\ UNCHANGED <<connections_, socket>>

\* Mutant: the connection is not closed.
Stop_KeepOpen(c) ==
  /\ connections_' = connections_ \ {c}
  /\ op' = [op EXCEPT ![c] = "none"]
  /\ UNCHANGED <<socket, result>>

(* connection_manager::stop in the handler of c's only operation.          *)
Stop(c) ==
  /\ connections_' = connections_ \ {c}
  /\ socket' = [socket EXCEPT ![c] = FALSE]
  /\ op' = [op EXCEPT ![c] = "none"]
  /\ UNCHANGED result

(* An aborted operation has no more to do: its connection was stopped.     *)
Drop(c) ==
  /\ op' = [op EXCEPT ![c] = "none"]
  /\ UNCHANGED <<connections_, socket, result>>

\* Mutant: any error is taken for an abort.
OnRead_DropErrors(c) ==
  /\ running /\ op[c] = "read" /\ result[c] # "waiting"
  /\ IF result[c] = "ok" THEN Begin(c, "write") \/ Begin(c, "read") ELSE Drop(c)
  /\ UNCHANGED serverVars

(* A whole request, good or bad, is answered; of a part more is read.      *)
OnRead(c) ==
  /\ running /\ op[c] = "read" /\ result[c] # "waiting"
  /\ CASE result[c] = "ok" -> Begin(c, "write") \/ Begin(c, "read")
       [] result[c] = "error" -> Stop(c)
       [] result[c] = "aborted" -> Drop(c)
  /\ UNCHANGED serverVars

OnWrite(c) ==
  /\ running /\ op[c] = "write" /\ result[c] # "waiting"
  /\ IF result[c] = "aborted" THEN Drop(c) ELSE Stop(c)
  /\ UNCHANGED serverVars

StartAccepted ==
  /\ connections_' = connections_ \cup accepted
  /\ socket' = [c \in Conns |-> c \in accepted \/ socket[c]]
  /\ op' = [c \in Conns |-> IF c \in accepted THEN "read" ELSE op[c]]
  /\ UNCHANGED result

\* Mutant: the handler does not ask whether the acceptor is open.
OnAccept_NoCheck ==
  /\ running /\ accept \notin {"none", "waiting"}
  /\ StartAccepted
  /\ accept' = IF acceptorOpen THEN "waiting" ELSE "none"
  /\ accepted' = {}
  /\ UNCHANGED <<running, acceptorOpen, signals, fresh>>

\* Mutant: the handler keeps the socket after it has handed it on.
OnAccept_KeepSocket ==
  /\ running /\ accept \notin {"none", "waiting"}
  /\ IF acceptorOpen
     THEN accept' = "waiting" /\ StartAccepted
     ELSE accept' = "none" /\ UNCHANGED connVars
  /\ UNCHANGED <<running, acceptorOpen, signals, fresh, accepted>>

OnAccept ==
  /\ running /\ accept \notin {"none", "waiting"}
  /\ IF acceptorOpen
     THEN accept' = "waiting" /\ StartAccepted
     ELSE accept' = "none" /\ UNCHANGED connVars
  /\ accepted' = {}
  /\ UNCHANGED <<running, acceptorOpen, signals, fresh>>

StopAll ==
  /\ connections_' = {}
  /\ socket' = [c \in Conns |-> socket[c] /\ c \notin connections_]
  /\ result' \in {r \in [Conns -> Results] :
                    \A c \in Conns :
                      r[c] \in IF c \in connections_ THEN Closed(c) ELSE {result[c]}}
  /\ UNCHANGED op

\* Mutant: the acceptor is not closed.
OnSignal_KeepAccepting ==
  /\ running /\ signals = "ok"
  /\ signals' = "none"
  /\ StopAll
  /\ UNCHANGED <<running, acceptorOpen, accept, accepted, fresh>>

(* The acceptor is closed and every connection is stopped.                 *)
OnSignal ==
  /\ running /\ signals = "ok"
  /\ signals' = "none"
  /\ acceptorOpen' = FALSE
  /\ accept' = IF accept = "waiting" THEN "aborted" ELSE accept
  /\ StopAll
  /\ UNCHANGED <<running, accepted, fresh>>

(* run() returns when nothing is outstanding.                              *)
Return ==
  /\ running /\ accept = "none" /\ signals = "none"
  /\ \A c \in Conns : op[c] = "none"
  /\ running' = FALSE
  /\ UNCHANGED <<acceptorOpen, accept, accepted, signals, fresh, connVars>>

Next ==
  \/ AcceptFails \/ Signal \/ OnAccept \/ OnSignal \/ Return
  \/ \E c \in Conns : Arrive(c) \/ Finish(c) \/ OnRead(c) \/ OnWrite(c)

(* A queued handler is run; the system need not finish an operation.       *)
Fairness ==
  /\ WF_vars(OnAccept) /\ WF_vars(OnSignal) /\ WF_vars(Return)
  /\ \A c \in Conns : WF_vars(OnRead(c)) /\ WF_vars(OnWrite(c))

Spec == Init /\ [][Next]_vars /\ Fairness

-----------------------------------------------------------------------------
TypeOK ==
  /\ running \in BOOLEAN /\ acceptorOpen \in BOOLEAN
  /\ accept \in Results \cup {"none"}
  /\ accepted \subseteq Conns /\ Cardinality(accepted) = IF accept = "ok" THEN 1 ELSE 0
  /\ signals \in {"waiting", "ok", "none"}
  /\ fresh \subseteq Conns /\ connections_ \subseteq Conns
  /\ socket \in [Conns -> BOOLEAN]
  /\ op \in [Conns -> {"none", "read", "write"}]
  /\ result \in [Conns -> Results]

(* The set is the connections whose sockets are open, and each of them has *)
(* an operation outstanding: none is kept that waits for nothing.          *)
ConnectionsServed ==
  \A c \in Conns :
    /\ c \in connections_ <=> socket[c]
    /\ socket[c] => op[c] # "none" /\ result[c] # "aborted"

(* Once the server was stopped it has no connection and gets none, though  *)
(* an accept handler may be queued behind the signal's.                    *)
NoneAfterStop ==
  ~acceptorOpen => connections_ = {} /\ \A c \in Conns : ~socket[c]

(* When the server is stopped run() returns.                               *)
StopEnds == (signals = "ok") ~> ~running

Phase(c) ==
  IF op[c] = "read" THEN "reading"
  ELSE IF op[c] = "write" THEN "replying"
  ELSE IF c \in fresh \cup accepted THEN "new" ELSE "over"

E(c) == INSTANCE Exchange WITH phase <- Phase(c), open <- socket[c]

(* Each connection is one exchange: its request is read, one reply written *)
(* and the socket closed for good, whenever the signal comes.              *)
EachIsAnExchange ==
  /\ \A c \in Conns : E(c)!Init
  /\ [][\A c \in Conns : [E(c)!Next]_(E(c)!vars)]_vars
=============================================================================
