------------------------------ MODULE Exchange ------------------------------
(***************************************************************************)
(* What a connection of an HTTP server promises to a client that does not  *)
(* ask for keep-alive, whatever the server does to keep the promise: the   *)
(* request is read, then at most one reply is written, nothing is read     *)
(* once the reply has begun, and a connection that is over has been closed *)
(* and is never used again.  It may be closed at any time.                 *)
(*                                                                         *)
(* HttpSingle implements it for each of its connections, HttpConnection    *)
(* for the clients that do not ask for keep-alive.                         *)
(***************************************************************************)
VARIABLES
  phase, \* "new", "reading" a request, "replying", or "over": nothing is outstanding
  open   \* the connection's socket is open

vars == <<phase, open>>

Init ==
  \/ phase = "new" /\ open = FALSE
  \/ phase = "reading" /\ open = TRUE

Begin ==
  /\ phase = "new"
  /\ phase' = "reading" /\ open' = TRUE

Reply ==
  /\ phase = "reading"
  /\ phase' = "replying"
  /\ open' \in {open, FALSE}

Close ==
  /\ phase \in {"reading", "replying"}
  /\ open' = FALSE
  /\ UNCHANGED phase

End == phase' = "over" /\ open' = FALSE

Next == Begin \/ Reply \/ Close \/ End

Spec == Init /\ [][Next]_vars
=============================================================================
