------------------------- MODULE MCHttpConnection -------------------------
(* TLC instance of HttpConnection: headers of two units, bodies of none,   *)
(* one or three, with and without Content-Length and keep-alive.           *)
EXTENDS HttpConnection

MCRequest(hdrs, bodies) ==
  [hdr: hdrs, body: bodies, hasLen: BOOLEAN, keep: BOOLEAN, valid: BOOLEAN]

MCClients ==
  {c \in [first: MCRequest({2}, {0, 1, 3}), second: MCRequest({0, 2}, {0, 1})] :
     /\ c.first.body > 0 => c.first.hasLen
     /\ c.second.hdr = 0 => c.second = [hdr |-> 0, body |-> 0, hasLen |-> FALSE,
                                        keep |-> FALSE, valid |-> TRUE]
     /\ c.second.hdr > 0 => c.second.valid /\ c.second.hasLen}

MCRawBodyLen == {-1, 0, 2, 7}
=============================================================================
