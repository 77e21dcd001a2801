------------------------------- MODULE Track -------------------------------
(***************************************************************************)
(* What one track of a recorded file promises, whatever the recorder does  *)
(* to keep the promise: the track holds back the newest frame, and from    *)
(* the moment recording begins every frame that is pushed out by a newer   *)
(* one is in the file, once and in the order of time.  Frames that are not *)
(* newer are dropped.  The one thing that may go wrong is the content of   *)
(* the frame held back: its time stays, but it may be spoilt.              *)
(*                                                                         *)
(* FileRecord implements it, for the pictures and for the sound.           *)
(***************************************************************************)
EXTENDS Integers, Sequences

VARIABLES
  stage, \* "before" the header, "recording", or "over"
  held,  \* the time of the frame held back, 0 when there is none
  whole, \* its content is what was received
  file   \* the frames in the file: records [time, whole]

vars == <<stage, held, whole, file>>

Init ==
  /\ stage = "before"
  /\ held = 0
  /\ whole = FALSE
  /\ file = <<>>

Begin ==
  /\ stage = "before" /\ stage' = "recording"
  /\ UNCHANGED <<held, whole, file>>

(* A newer frame: the one held back goes into the file.                    *)
Take ==
  /\ stage # "over"
  /\ stage' \in {stage, "recording"}
  /\ held' \in Nat /\ held' > held
  /\ whole' = TRUE
  /\ file' = IF held > 0 /\ stage' = "recording"
             THEN Append(file, [time |-> held, whole |-> whole])
             ELSE file

(* A frame that is not newer.                                              *)
Spoil ==
  /\ stage # "over"
  /\ whole' = FALSE
  /\ UNCHANGED <<stage, held, file>>

(* The file is closed; the frame held back does not get into it.           *)
End ==
  /\ stage' = "over" /\ held' = 0 /\ whole' = FALSE
  /\ UNCHANGED file

Next == Begin \/ Take \/ Spoil \/ End

Spec == Init /\ [][Next]_vars

-----------------------------------------------------------------------------
(* The times in a track go up, and the frame held back is newer than all   *)
(* of them.                                                                *)
TimesGoUp ==
  /\ \A i, j \in DOMAIN file : i < j => file[i].time < file[j].time
  /\ stage # "over" => \A i \in DOMAIN file : file[i].time < held
=============================================================================
