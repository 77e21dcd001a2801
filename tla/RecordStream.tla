---------------------------- MODULE RecordStream ----------------------------
(***************************************************************************)
(* Starting and stopping a recording of a live stream: the dialog of       *)
(* FFmpegrecord/MFCtest (MFCtestDlg.cpp), the class CNetStream that        *)
(* receives video and audio (NetStream.cpp) and the entry, lock and Close  *)
(* of the recorder CAVFileRecord (AVFileRecord.cpp).                       *)
(*                                                                         *)
(* The receiving library is external: every stream it opens delivers video *)
(* on one thread and audio on another, one packet at a time.  Neither      *)
(* CNetStream nor the dialog holds a lock, so each read or write of a      *)
(* shared member is a step; CAVFileRecord has one critical section.  The   *)
(* members are taken to be sequentially consistent.                        *)
(***************************************************************************)
EXTENDS Naturals

CONSTANTS MaxSessions, \* how often the start button is pressed at most
          NULL

ASSUME MaxSessionsAssumption == MaxSessions \in Nat \ {0}
ASSUME NULLAssumption == NULL \notin Nat

Session == 1 .. MaxSessions
Kind == {"video", "audio"}
Thread == Kind \X Session
Free == <<"none", 0>>

VARIABLES
  ui,           \* what the dialog's thread does next
  session,      \* recordings started so far; the latest is the current one
  live,         \* the streams that deliver packets
  m_bGetStream,
  m_precord,    \* the recorder of a session, or NULL
  m_bStop,      \* m_bVideoStop and m_bAudioStop
  pc,           \* where each receiving thread is in its callback
  target,       \* the recorder a thread's call is on
  mp4,          \* sessions whose recorder has an m_pMP4Stream
  started,      \* sessions whose recorder has m_bStartStream set
  lock,         \* owner of each recorder's m_KCritSecAV
  closes,       \* history: Close calls finished on each recorder
  crashed       \* a NULL pointer was followed

uiVars == <<ui, session, live, m_bGetStream>>
recorder == <<mp4, started, lock, closes>>
vars == <<ui, session, live, m_bGetStream, m_precord, m_bStop, pc, target, mp4,
          started, lock, closes, crashed>>

-----------------------------------------------------------------------------
Init ==
  /\ ui = "idle"
  /\ session = 0
  /\ live = {}
  /\ m_bGetStream = FALSE
  /\ m_precord = NULL
  /\ m_bStop = [k \in Kind |-> FALSE]
  /\ pc = [t \in Thread |-> "idle"]
  /\ target = [t \in Thread |-> NULL]
  /\ mp4 = {}
  /\ started = {}
  /\ lock = [s \in Session |-> Free]
  /\ closes = [s \in Session |-> 0]
  /\ crashed = FALSE

(* OnBnClickedButton1: create the recorder and open the file; the result   *)
(* of Open is not looked at.                                               *)
StartRecord ==
  /\ ui = "idle" /\ session < MaxSessions /\ ~crashed
  /\ session' = session + 1
  /\ ui' = "setGetStream"
  /\ mp4' \in {mp4, mp4 \cup {session + 1}}
  /\ UNCHANGED <<live, m_bGetStream, m_precord, m_bStop, pc, target, started, lock,
                 closes, crashed>>

(* SetReadStreamNotify(m_precord), one assignment at a time.               *)
SetGetStream ==
  /\ ui = "setGetStream" /\ ~crashed
  /\ m_bGetStream' = TRUE
  /\ ui' = "setRecord"
  /\ UNCHANGED <<session, live, m_precord, m_bStop, pc, target, recorder, crashed>>

SetRecord ==
  /\ ui = "setRecord" /\ ~crashed
  /\ m_precord' = session
  /\ ui' = "clearAudio"
  /\ UNCHANGED <<session, live, m_bGetStream, m_bStop, pc, target, recorder, crashed>>

ClearStop(k, from, to) ==
  /\ ui = from /\ ~crashed
  /\ m_bStop' = [m_bStop EXCEPT ![k] = FALSE]
  /\ ui' = to
  /\ UNCHANGED <<session, live, m_bGetStream, m_precord, pc, target, recorder, crashed>>

(* openNete: a further stream; the one of an earlier session stays open.   *)
OpenNete ==
  /\ ui = "openNete" /\ ~crashed
  /\ live' \in {live, live \cup {session}}
  /\ ui' = "idle"
  /\ UNCHANGED <<session, m_bGetStream, m_precord, m_bStop, pc, target, recorder, crashed>>

(* OnBnClickedButton2: SetReadStreamNotify(NULL).                          *)
StopRecord ==
  /\ ui = "idle" /\ session > 0 /\ m_bGetStream /\ ~crashed
  /\ m_bGetStream' = FALSE
  /\ UNCHANGED <<ui, session, live, m_precord, m_bStop, pc, target, recorder, crashed>>

-----------------------------------------------------------------------------
Goto(t, from, to) ==
  /\ pc[t] = from /\ ~crashed
  /\ pc' = [pc EXCEPT ![t] = to]

Crash(t) == pc' = pc /\ crashed' = TRUE

\* Mutant: the test of m_bGetStream is inverted.
Callback_Inverted(t) ==
  /\ t[2] \in live
  /\ Goto(t, "idle", IF m_bGetStream THEN "stop" ELSE "check")
  /\ UNCHANGED <<uiVars, m_precord, m_bStop, target, recorder, crashed>>

(* A packet arrives: the first read of m_bGetStream.                       *)
Callback(t) ==
  /\ t[2] \in live
  /\ Goto(t, "idle", IF m_bGetStream THEN "check" ELSE "stop")
  /\ UNCHANGED <<uiVars, m_precord, m_bStop, target, recorder, crashed>>

(* if (m_precord) ...                                                      *)
CheckRecord(t) ==
  /\ Goto(t, "check", IF m_precord # NULL THEN "call" ELSE "idle")
  /\ UNCHANGED <<uiVars, m_precord, m_bStop, target, recorder, crashed>>

(* ... m_precord->WriteVideo or m_precord->WriteAudio, m_precord read      *)
(* again.  WriteAudio takes the lock at once, WriteVideo looks first.      *)
CallWrite(t) ==
  /\ pc[t] = "call" /\ ~crashed
  /\ target' = [target EXCEPT ![t] = m_precord]
  /\ IF m_precord = NULL
     THEN Crash(t)
     ELSE /\ pc' = [pc EXCEPT ![t] = IF t[1] = "video" THEN "hasStream" ELSE "lock"]
          /\ UNCHANGED crashed
  /\ UNCHANGED <<uiVars, m_precord, m_bStop, recorder>>

\* Mutant: WriteVideo does not look, as WriteAudio does not.
HasStream_Unchecked(t) ==
  /\ Goto(t, "hasStream", "startStream")
  /\ UNCHANGED <<uiVars, m_precord, m_bStop, target, recorder, crashed>>

(* WriteVideo without the lock: m_pMP4Stream, then m_bStartStream, which a *)
(* key frame sets.                                                         *)
HasStream(t) ==
  /\ Goto(t, "hasStream", IF target[t] \in mp4 THEN "startStream" ELSE "idle")
  /\ UNCHANGED <<uiVars, m_precord, m_bStop, target, recorder, crashed>>

StartStream(t) ==
  /\ \E keyFrame \in BOOLEAN :
       /\ started' = IF keyFrame THEN started \cup {target[t]} ELSE started
       /\ Goto(t, "startStream", IF target[t] \in started' THEN "lock" ELSE "idle")
  /\ UNCHANGED <<uiVars, m_precord, m_bStop, target, mp4, lock, closes, crashed>>

\* Mutant: the critical section is entered without waiting.
Acquire_NoWait(t, from, to) ==
  /\ Goto(t, from, to)
  /\ lock' = [lock EXCEPT ![target[t]] = t]
  /\ UNCHANGED <<uiVars, m_precord, m_bStop, target, mp4, started, closes, crashed>>

(* KAutoLock.                                                              *)
Acquire(t, from, to) ==
  /\ Goto(t, from, to)
  /\ lock[target[t]] = Free
  /\ lock' = [lock EXCEPT ![target[t]] = t]
  /\ UNCHANGED <<uiVars, m_precord, m_bStop, target, mp4, started, closes, crashed>>

(* The body of WriteVideo and WriteAudio follows m_pMP4Stream unchecked.   *)
Write(t) ==
  /\ pc[t] = "write" /\ ~crashed
  /\ IF target[t] \notin mp4 /\ (t[1] = "audio" => target[t] \in started)
     THEN Crash(t) /\ UNCHANGED lock
     ELSE /\ pc' = [pc EXCEPT ![t] = "idle"]
          /\ lock' = [lock EXCEPT ![target[t]] = Free]
          /\ UNCHANGED crashed
  /\ UNCHANGED <<uiVars, m_precord, m_bStop, target, mp4, started, closes>>

-----------------------------------------------------------------------------
\* Mutant: a thread clears the other one's flag instead of setting its own.
SetStop_Wrong(t) ==
  /\ Goto(t, "stop", "readVideoStop")
  /\ m_bStop' = [k \in Kind |-> k # t[1]]
  /\ UNCHANGED <<uiVars, m_precord, target, recorder, crashed>>

(* The callback saw m_bGetStream false: it notes that it has stopped and,  *)
(* if the other one has too, closes the recording.                         *)
SetStop(t) ==
  /\ Goto(t, "stop", "readVideoStop")
  /\ m_bStop' = [m_bStop EXCEPT ![t[1]] = TRUE]
  /\ UNCHANGED <<uiVars, m_precord, target, recorder, crashed>>

\* Mutant: one stopped callback is enough.
ReadStop_Any(t, k, from, to) ==
  /\ Goto(t, from, IF m_bStop["video"] \/ m_bStop["audio"] THEN to ELSE "idle")
  /\ UNCHANGED <<uiVars, m_precord, m_bStop, target, recorder, crashed>>

ReadStop(t, k, from, to) ==
  /\ Goto(t, from, IF m_bStop[k] THEN to ELSE "idle")
  /\ UNCHANGED <<uiVars, m_precord, m_bStop, target, recorder, crashed>>

CheckClose(t) ==
  /\ Goto(t, "checkClose", IF m_precord # NULL THEN "callClose" ELSE "clearRecord")
  /\ UNCHANGED <<uiVars, m_precord, m_bStop, target, recorder, crashed>>

CallClose(t) ==
  /\ pc[t] = "callClose" /\ ~crashed
  /\ target' = [target EXCEPT ![t] = m_precord]
  /\ IF m_precord = NULL
     THEN Crash(t)
     ELSE pc' = [pc EXCEPT ![t] = "closeLock"] /\ UNCHANGED crashed
  /\ UNCHANGED <<uiVars, m_precord, m_bStop, recorder>>

(* CAVFileRecord::Close under the lock.                                    *)
Close(t) ==
  /\ Goto(t, "close", "clearRecord")
  /\ mp4' = mp4 \ {target[t]}
  /\ started' = started \ {target[t]}
  /\ closes' = [closes EXCEPT ![target[t]] = @ + 1]
  /\ lock' = [lock EXCEPT ![target[t]] = Free]
  /\ UNCHANGED <<uiVars, m_precord, m_bStop, target, crashed>>

\* Mutant: the recorder that has been closed is kept.
ClearRecord_Forgotten(t) ==
  /\ Goto(t, "clearRecord", "idle")
  /\ UNCHANGED <<uiVars, m_precord, m_bStop, target, recorder, crashed>>

(* m_precord = NULL, which is what keeps the next packet from closing the  *)
(* recording again: m_bGetStream and the two flags stay as they are.       *)
ClearRecord(t) ==
  /\ Goto(t, "clearRecord", "idle")
  /\ m_precord' = NULL
  /\ UNCHANGED <<uiVars, m_bStop, target, recorder, crashed>>

FinishClick ==
  \/ SetGetStream \/ SetRecord
  \/ ClearStop("audio", "clearAudio", "clearVideo")
  \/ ClearStop("video", "clearVideo", "openNete")
  \/ OpenNete

Dialog == StartRecord \/ StopRecord \/ FinishClick

Receive(t) ==
  \/ Callback(t) \/ CheckRecord(t) \/ CallWrite(t) \/ HasStream(t) \/ StartStream(t)
  \/ Acquire(t, "lock", "write") \/ Write(t)
  \/ SetStop(t)
  \/ ReadStop(t, "video", "readVideoStop", "readAudioStop")
  \/ ReadStop(t, "audio", "readAudioStop", "checkClose")
  \/ CheckClose(t) \/ CallClose(t)
  \/ Acquire(t, "closeLock", "close") \/ Close(t) \/ ClearRecord(t)

Next == Dialog \/ \E t \in Thread : Receive(t)

(* The dialog's thread finishes the function it is in; a live stream goes  *)
(* on delivering packets, and a receiving thread runs its callback.  Nobody *)
(* has to press a button.                                                  *)
Fairness == WF_vars(FinishClick) /\ \A t \in Thread : WF_vars(Receive(t))

Spec == Init /\ [][Next]_vars
FairSpec == Spec /\ Fairness

-----------------------------------------------------------------------------
Places == {"idle", "check", "call", "hasStream", "startStream", "lock", "write", "stop",
           "readVideoStop", "readAudioStop", "checkClose", "callClose", "closeLock",
           "close", "clearRecord"}
UiPlaces == {"idle", "setGetStream", "setRecord", "clearAudio", "clearVideo", "openNete"}

TypeOK ==
  /\ ui \in UiPlaces
  /\ session \in 0 .. MaxSessions
  /\ live \subseteq Session
  /\ m_bGetStream \in BOOLEAN
  /\ m_precord \in Session \cup {NULL}
  /\ m_bStop \in [Kind -> BOOLEAN]
  /\ pc \in [Thread -> Places]
  /\ target \in [Thread -> Session \cup {NULL}]
  /\ mp4 \subseteq Session
  /\ started \subseteq Session
  /\ lock \in [Session -> Thread \cup {Free}]
  /\ closes \in [Session -> Nat]
  /\ crashed \in BOOLEAN

InWrite(t) == pc[t] \in {"check", "call", "hasStream", "startStream", "lock", "write"}
InClose(t) == pc[t] \in {"checkClose", "callClose", "closeLock", "close", "clearRecord"}

(* WriteVideo looks at m_pMP4Stream before it takes the lock and           *)
(* WriteAudio does not look at it at all: only the handshake of the two    *)
(* stop flags keeps Close away from a packet that is being written.  It    *)
(* does, as long as the program has made one recording.                    *)
NoWriteDuringClose ==
  session <= 1 => \A t, u \in Thread : InWrite(t) => ~InClose(u) /\ closes[1] = 0

(* The same handshake is what makes the unchecked m_pMP4Stream of the      *)
(* locked bodies safe.                                                     *)
WriteHasStream ==
  session <= 1 => \A t \in Thread :
    pc[t] = "write" /\ (t[1] = "video" \/ target[t] \in started) => target[t] \in mp4

(* A recording is closed only after the stop button.                       *)
ClosedOnlyAfterStop ==
  session <= 1 /\ (\E t \in Thread : InClose(t)) => ~m_bGetStream /\ session = 1

(* Both callbacks may find both flags up, and either goes on receiving     *)
(* packets that find them up again; the recording is closed twice at most  *)
(* even so.                                                                *)
ClosedTwiceAtMost == session <= 1 => closes[1] <= 2

RecordingStage ==
  IF session = 0 THEN "new"
  ELSE IF closes[1] > 0 THEN "closed"
  ELSE IF m_bGetStream \/ ui = "setGetStream" THEN "recording" ELSE "stopping"

Writing == {k \in Kind : pc[<<k, 1>>] \in {"hasStream", "startStream", "lock", "write"}}

R == INSTANCE Recording WITH stage <- RecordingStage, writing <- Writing

(* As long as the program has made one recording, the three threads use    *)
(* its recorder as a Recording, although none of them holds a lock between *)
(* its tests and its call.                                                 *)
OneIsARecording ==
  /\ R!Init
  /\ [][session' <= 1 => [R!Next]_(R!vars)]_vars

(* The stop button works: the file gets its trailer, unless it is started  *)
(* again or the process dies on the way.                                   *)
StoppedIsClosed ==
  (session = 1 /\ ~m_bGetStream /\ ui = "idle" /\ live = {1})
    ~> (closes[1] > 0 \/ m_bGetStream \/ session > 1)

(* Write and Close free and follow the same buffers: whatever the flags    *)
(* do, and however often the buttons are pressed, no two of them are in    *)
(* their bodies on one recorder.                                           *)
ExclusiveSection ==
  \A t, u \in Thread :
    t # u /\ {pc[t], pc[u]} \subseteq {"write", "close"} => target[t] # target[u]
=============================================================================
