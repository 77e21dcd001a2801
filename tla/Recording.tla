----------------------------- MODULE Recording -----------------------------
(***************************************************************************)
(* How a recorder may be used for one recording, whatever the handshake    *)
(* between the threads that use it: packets are written to it one at a     *)
(* time of each kind; it is closed only after the recording was told to    *)
(* stop, when no packet is being written; and after that none is written.  *)
(*                                                                         *)
(* RecordStream implements it while there is one recording.  It is what    *)
(* FileRecord takes for granted of the callers of WriteVideo, WriteAudio   *)
(* and Close.                                                              *)
(***************************************************************************)
CONSTANT Kind \* of packets, each with a thread of its own

VARIABLES
  stage,  \* "new", "recording", "stopping" or "closed"
  writing \* the kinds of which a packet is being written

vars == <<stage, writing>>

Init == stage = "new" /\ writing = {}

Start ==
  /\ stage = "new" /\ stage' = "recording"
  /\ UNCHANGED writing

Stop ==
  /\ stage = "recording" /\ stage' = "stopping"
  /\ UNCHANGED writing

(* A thread may not have noticed yet that it is to stop.                   *)
Begin(k) ==
  /\ stage \in {"recording", "stopping"} /\ k \notin writing
  /\ writing' = writing \cup {k}
  /\ UNCHANGED stage

End(k) ==
  /\ k \in writing
  /\ writing' = writing \ {k}
  /\ UNCHANGED stage

Close ==
  /\ stage = "stopping" /\ writing = {}
  /\ stage' = "closed"
  /\ UNCHANGED writing

Next == Start \/ Stop \/ Close \/ \E k \in Kind : Begin(k) \/ End(k)

Spec == Init /\ [][Next]_vars
=============================================================================
