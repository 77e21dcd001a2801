------------------------- MODULE RecordStreamProofs -------------------------
(***************************************************************************)
(* Safety of the recording handshake.  Types and the critical section are  *)
(* proved for any number of recordings; the handshake of the stop flags,   *)
(* which only works for the first recording, for a program that may go on  *)
(* to make any number of them.                                             *)
(***************************************************************************)
EXTENDS RecordStream, TLAPS

(* A call that is under way has a recorder, and the dialog is in the       *)
(* middle of a function only once there is a recording.                    *)
OnRecorder == {"hasStream", "startStream", "lock", "write", "closeLock", "close"}
TypeInv ==
  /\ TypeOK
  /\ ui # "idle" => session \in Session
  /\ \A t \in Thread : pc[t] \in OnRecorder => target[t] \in Session

(* A thread in the section of a recorder is the owner of its lock.         *)
LockInv == \A t \in Thread : pc[t] \in {"write", "close"} => lock[target[t]] = t

(* Nothing happens before the first recording ...                          *)
Before ==
  session = 0 =>
    /\ ui = "idle" /\ live = {} /\ ~m_bGetStream /\ mp4 = {} /\ started = {}
    /\ \A k \in Kind : ~m_bStop[k]
    /\ \A t \in Thread : pc[t] = "idle"
    /\ closes[1] = 0

InStop(t) == pc[t] \in {"stop", "readVideoStop", "readAudioStop"} \/ InClose(t)

(* ... and during it a raised flag is final: it says that the stop button  *)
(* was pressed and that its thread will not write again, and a thread that *)
(* closes has seen both.                                                   *)
Stopped ==
  /\ live \subseteq {1} /\ (live # {} => ui = "idle")
  /\ \A t \in Thread : pc[t] # "idle" => t[2] \in live
  /\ \A k \in Kind : m_bStop[k] => ~m_bGetStream /\ live # {}
  /\ \A t \in Thread : InStop(t) => ~m_bGetStream
Flags ==
  /\ \A t \in Thread : InWrite(t) => ~m_bStop[t[1]]
  /\ \A t \in Thread : pc[t] = "readAudioStop" => m_bStop["video"]
  /\ \A t \in Thread : InClose(t) => \A k \in Kind : m_bStop[k]
  /\ closes[1] > 0 => \A k \in Kind : m_bStop[k]
Streams ==
  /\ started \subseteq mp4
  /\ \A t \in Thread :
       pc[t] = "startStream" \/ (t[1] = "video" /\ pc[t] \in {"lock", "write"})
         => target[t] \in mp4
First == session = 1 => Stopped /\ Flags /\ Streams
Handshake == Before /\ First

-----------------------------------------------------------------------------
(* The recorder pointers are the numbers of the recordings.                *)
LEMMA SessionProperties ==
  /\ 1 \in Session
  /\ Session \subseteq Nat
  /\ NULL \notin Session
  /\ Free \notin Thread
BY MaxSessionsAssumption, NULLAssumption DEF Session, Free, Thread, Kind

(* The next recording is one of those that may be made.                    *)
LEMMA NextSession ==
  ASSUME session \in 0 .. MaxSessions, session < MaxSessions
  PROVE  session + 1 \in Session /\ session + 1 \in 0 .. MaxSessions
BY MaxSessionsAssumption DEF Session

(* Counting one more Close on a recorder.                                  *)
LEMMA CountUp ==
  ASSUME NEW f \in [Session -> Nat], NEW s
  PROVE  [f EXCEPT ![s] = f[s] + 1] \in [Session -> Nat]
<1>1. \A x \in Session : f[x] + 1 \in Nat
  OBVIOUS
<1>. QED BY <1>1

(* A thread is known by what it delivers and by its stream.                *)
LEMMA ThreadProperties ==
  ASSUME NEW t \in Thread
  PROVE  t[1] \in Kind /\ t[2] \in Session
BY DEF Thread

LEMMA ThreadEqual ==
  ASSUME NEW t \in Thread, NEW u \in Thread, t[1] = u[1], t[2] = u[2]
  PROVE  t = u
BY DEF Thread

-----------------------------------------------------------------------------
LEMMA TypeInit == Init => TypeInv
<1>. SUFFICES ASSUME Init PROVE TypeInv
  OBVIOUS
<1>1. session \in 0 .. MaxSessions
  BY MaxSessionsAssumption DEF Init
<1>2. m_bStop \in [Kind -> BOOLEAN]
  BY Zenon DEF Init
<1>3. pc \in [Thread -> Places] /\ \A t \in Thread : pc[t] = "idle"
  BY DEF Init, Places
<1>4. lock \in [Session -> Thread \cup {Free}] /\ closes \in [Session -> Nat]
  BY DEF Init
<1>. QED
  BY <1>1, <1>2, <1>3, <1>4 DEF Init, TypeInv, TypeOK, UiPlaces, OnRecorder

(* The dialog's steps keep every variable typed.                           *)
LEMMA TypeDialog ==
  ASSUME TypeInv, Dialog
  PROVE  TypeInv'
<1>. USE SessionProperties DEF TypeInv, TypeOK, UiPlaces
<1>1. CASE StartRecord
  <2>1. session' \in Session /\ session' \in 0 .. MaxSessions
    BY <1>1, NextSession DEF StartRecord
  <2>. QED BY <1>1, <2>1 DEF StartRecord
<1>2. CASE StopRecord
  BY <1>2 DEF StopRecord, recorder
<1>3. CASE SetGetStream
  BY <1>3 DEF SetGetStream, recorder
<1>4. CASE SetRecord
  BY <1>4 DEF SetRecord, recorder
<1>5. CASE ClearStop("audio", "clearAudio", "clearVideo")
  BY <1>5 DEF ClearStop, recorder, Kind
<1>6. CASE ClearStop("video", "clearVideo", "openNete")
  BY <1>6 DEF ClearStop, recorder, Kind
<1>7. CASE OpenNete
  BY <1>7 DEF OpenNete, recorder
<1>. QED BY <1>1, <1>2, <1>3, <1>4, <1>5, <1>6, <1>7 DEF Dialog, FinishClick

(* So do the callbacks'.                                                   *)
LEMMA TypeReceive ==
  ASSUME TypeInv, NEW t \in Thread, Receive(t)
  PROVE  TypeInv'
<1>. USE SessionProperties
     DEF TypeInv, TypeOK, Places, OnRecorder, Goto, Crash, uiVars, recorder
<1>1. CASE Callback(t)
  BY <1>1 DEF Callback
<1>2. CASE CheckRecord(t)
  BY <1>2 DEF CheckRecord
<1>3. CASE CallWrite(t)
  BY <1>3 DEF CallWrite
<1>4. CASE HasStream(t)
  BY <1>4 DEF HasStream
<1>5. CASE StartStream(t)
  BY <1>5 DEF StartStream
<1>6. CASE Acquire(t, "lock", "write")
  BY <1>6 DEF Acquire
<1>7. CASE Write(t)
  BY <1>7 DEF Write
<1>8. CASE SetStop(t)
  <2>1. t[1] \in Kind
    BY ThreadProperties
  <2>2. m_bStop' \in [Kind -> BOOLEAN]
    BY <1>8, <2>1 DEF SetStop
  <2>. QED BY <1>8, <2>2 DEF SetStop
<1>9. CASE ReadStop(t, "video", "readVideoStop", "readAudioStop")
  BY <1>9 DEF ReadStop
<1>10. CASE ReadStop(t, "audio", "readAudioStop", "checkClose")
  BY <1>10 DEF ReadStop
<1>11. CASE CheckClose(t)
  BY <1>11 DEF CheckClose
<1>12. CASE CallClose(t)
  BY <1>12 DEF CallClose
<1>13. CASE Acquire(t, "closeLock", "close")
  BY <1>13 DEF Acquire
<1>14. CASE Close(t)
  <2>1. closes' = [closes EXCEPT ![target[t]] = closes[target[t]] + 1]
    BY <1>14 DEF Close
  <2>2. closes' \in [Session -> Nat]
    BY <2>1, CountUp
  <2>3. lock' \in [Session -> Thread \cup {Free}]
    BY <1>14 DEF Close
  <2>4. pc' \in [Thread -> Places]
    BY <1>14 DEF Close
  <2>. QED BY <1>14, <2>2, <2>3, <2>4 DEF Close
<1>15. CASE ClearRecord(t)
  BY <1>15 DEF ClearRecord
<1>. QED BY <1>1, <1>2, <1>3, <1>4, <1>5, <1>6, <1>7, <1>8, <1>9, <1>10, <1>11,
            <1>12, <1>13, <1>14, <1>15 DEF Receive

LEMMA TypeStep == TypeInv /\ [Next]_vars => TypeInv'
<1>1. TypeInv /\ UNCHANGED vars => TypeInv'
  BY DEF TypeInv, TypeOK, vars
<1>. QED BY <1>1, TypeDialog, TypeReceive DEF Next

(* Every variable keeps its type, however many recordings are made.        *)
THEOREM TypeCorrect == Spec => []TypeOK
<1>1. TypeInv => TypeOK
  BY DEF TypeInv
<1>. QED BY <1>1, TypeInit, TypeStep, PTL DEF Spec

-----------------------------------------------------------------------------
(* A step that takes and gives back no lock and brings no thread into a    *)
(* section keeps the lock invariant.                                       *)
LEMMA LockKept ==
  ASSUME LockInv, lock' = lock,
         \A t \in Thread : pc'[t] \in {"write", "close"} =>
                              pc'[t] = pc[t] /\ target'[t] = target[t]
  PROVE  LockInv'
BY DEF LockInv

(* Entering a section: the lock was free, so no other thread was in it.    *)
LEMMA LockEntered ==
  ASSUME TypeInv, LockInv, NEW t \in Thread, NEW from \in OnRecorder, NEW to,
         Acquire(t, from, to)
  PROVE  LockInv'
<1>. SUFFICES ASSUME NEW u \in Thread, pc'[u] \in {"write", "close"}
              PROVE  lock'[target'[u]] = u
  BY DEF LockInv
<1>. USE DEF TypeInv, TypeOK, LockInv, Acquire, Goto
<1>1. target[t] \in Session
  OBVIOUS
<1>2. CASE u = t
  BY <1>1, <1>2
<1>3. CASE u # t
  <2>1. pc[u] \in {"write", "close"} /\ lock[target[u]] = u
    BY <1>3
  <2>2. target[u] # target[t]
    BY <2>1, SessionProperties
  <2>. QED BY <2>1, <2>2
<1>. QED BY <1>2, <1>3

(* Leaving a section: the lock that is given back was nobody else's.       *)
LEMMA LockLeft ==
  ASSUME TypeInv, LockInv, NEW t \in Thread, pc[t] \in {"write", "close"},
         pc' = [pc EXCEPT ![t] = pc'[t]], pc'[t] \notin {"write", "close"},
         target' = target, lock' = [lock EXCEPT ![target[t]] = Free]
  PROVE  LockInv'
<1>. SUFFICES ASSUME NEW u \in Thread, pc'[u] \in {"write", "close"}
              PROVE  lock'[target'[u]] = u
  BY DEF LockInv
<1>1. u # t
  OBVIOUS
<1>2. pc[u] \in {"write", "close"}
  BY <1>1 DEF TypeInv, TypeOK
<1>3. lock[target[u]] = u /\ lock[target[t]] = t
  BY <1>2 DEF LockInv
<1>. QED BY <1>1, <1>3 DEF TypeInv, TypeOK

LEMMA LockReceive ==
  ASSUME TypeInv, LockInv, NEW t \in Thread, Receive(t)
  PROVE  LockInv'
<1>1. CASE \/ Callback(t) \/ CheckRecord(t) \/ CallWrite(t) \/ HasStream(t)
           \/ StartStream(t)
  <2>1. lock' = lock
    BY <1>1 DEF Callback, CheckRecord, CallWrite, HasStream, StartStream, recorder
  <2>2. \A u \in Thread : pc'[u] \in {"write", "close"} =>
                             pc'[u] = pc[u] /\ target'[u] = target[u]
    BY <1>1 DEF Callback, CheckRecord, CallWrite, HasStream, StartStream, Goto, Crash,
                TypeInv, TypeOK
  <2>. QED BY <2>1, <2>2, LockKept
<1>2. CASE Acquire(t, "lock", "write") \/ Acquire(t, "closeLock", "close")
  BY <1>2, LockEntered DEF OnRecorder
<1>3. CASE Write(t)
  <2>1. CASE pc' = pc
    BY <1>3, <2>1, LockKept, LockLeft DEF Write, Crash, TypeInv, TypeOK
  <2>2. CASE pc' # pc
    BY <1>3, <2>2, LockLeft DEF Write, Crash, TypeInv, TypeOK
  <2>. QED BY <2>1, <2>2
<1>4. CASE Close(t)
  BY <1>4, LockLeft DEF Close, Goto, TypeInv, TypeOK
<1>5. CASE \/ SetStop(t)
           \/ ReadStop(t, "video", "readVideoStop", "readAudioStop")
           \/ ReadStop(t, "audio", "readAudioStop", "checkClose")
           \/ CheckClose(t) \/ CallClose(t) \/ ClearRecord(t)
  <2>1. lock' = lock
    BY <1>5 DEF SetStop, ReadStop, CheckClose, CallClose, ClearRecord, recorder
  <2>2. \A u \in Thread : pc'[u] \in {"write", "close"} =>
                             pc'[u] = pc[u] /\ target'[u] = target[u]
    BY <1>5 DEF SetStop, ReadStop, CheckClose, CallClose, ClearRecord, Goto, Crash,
                TypeInv, TypeOK
  <2>. QED BY <2>1, <2>2, LockKept
<1>. QED BY <1>1, <1>2, <1>3, <1>4, <1>5 DEF Receive

LEMMA LockStep == TypeInv /\ LockInv /\ [Next]_vars => LockInv'
<1>1. LockInv /\ UNCHANGED vars => LockInv'
  BY DEF LockInv, vars
<1>2. LockInv /\ Dialog => LockInv'
  BY DEF LockInv, Dialog, FinishClick, StartRecord, StopRecord, SetGetStream, SetRecord,
         ClearStop, OpenNete, recorder
<1>. QED BY <1>1, <1>2, LockReceive DEF Next

(* However often the buttons are pressed, no two threads are in the body   *)
(* of WriteVideo, WriteAudio or Close on one recorder.                     *)
THEOREM CriticalSection == Spec => []ExclusiveSection
<1>1. Init => LockInv
  BY DEF Init, LockInv
<1>2. LockInv => ExclusiveSection
  BY DEF LockInv, ExclusiveSection
<1>. QED BY <1>1, <1>2, TypeInit, TypeStep, LockStep, PTL DEF Spec

-----------------------------------------------------------------------------
LEMMA HandshakeInit == Init => Handshake
BY SessionProperties DEF Init, Handshake, Before, First

(* The dialog starts the first recording from rest, and the stop button is *)
(* the only thing it does to a stream that delivers.                       *)
LEMMA HandshakeDialog ==
  ASSUME TypeInv, Handshake, Dialog
  PROVE  Handshake'
<1>1. CASE StartRecord
  <2>1. session' = session + 1 /\ session \in Nat
    BY <1>1 DEF StartRecord, TypeInv, TypeOK
  <2>2. session' # 0
    BY <2>1
  <2>3. CASE session = 0
    BY <1>1, <2>1, <2>2, <2>3
       DEF StartRecord, Handshake, Before, First, Stopped, Flags, Streams, InWrite, InStop,
           InClose
  <2>4. CASE session # 0
    BY <2>1, <2>2, <2>4 DEF Handshake, Before, First
  <2>. QED BY <2>3, <2>4
<1>2. CASE StopRecord \/ FinishClick
  <2>1. session' = session /\ session # 0
    BY <1>2 DEF StopRecord, FinishClick, SetGetStream, SetRecord, ClearStop, OpenNete,
                Handshake, Before, TypeInv, TypeOK
  <2>2. SUFFICES ASSUME session = 1 PROVE Stopped' /\ Flags' /\ Streams'
    BY <2>1 DEF Handshake, Before, First
  <2>3. Stopped /\ Flags /\ Streams
    BY <2>2 DEF Handshake, First
  <2>. USE <2>2, <2>3 DEF Stopped, Flags, Streams, InWrite, InStop, InClose, recorder
  <2>4. CASE StopRecord
    BY <2>4 DEF StopRecord
  <2>5. CASE SetGetStream
    BY <2>5 DEF SetGetStream
  <2>6. CASE SetRecord
    BY <2>6 DEF SetRecord
  <2>7. CASE \/ ClearStop("audio", "clearAudio", "clearVideo")
             \/ ClearStop("video", "clearVideo", "openNete")
    BY <2>7 DEF ClearStop, TypeInv, TypeOK
  <2>8. CASE OpenNete
    BY <2>8 DEF OpenNete
  <2>. QED BY <1>2, <2>4, <2>5, <2>6, <2>7, <2>8 DEF FinishClick
<1>. QED BY <1>1, <1>2 DEF Dialog

(* A raised flag, and a thread on its way to one, mean the stop button.    *)
LEMMA StoppedReceive ==
  ASSUME TypeInv, Stopped, Flags, Streams, NEW t \in Thread, Receive(t)
  PROVE  Stopped'
<1>. USE DEF Stopped, InStop, InClose, Goto, Crash, uiVars, TypeInv, TypeOK
<1>1. CASE Callback(t)
  BY <1>1 DEF Callback
<1>2. CASE CheckRecord(t)
  BY <1>2 DEF CheckRecord
<1>3. CASE CallWrite(t)
  BY <1>3 DEF CallWrite
<1>4. CASE HasStream(t)
  BY <1>4 DEF HasStream
<1>5. CASE StartStream(t)
  BY <1>5 DEF StartStream
<1>6. CASE Acquire(t, "lock", "write")
  BY <1>6 DEF Acquire
<1>7. CASE Write(t)
  BY <1>7 DEF Write
<1>8. CASE SetStop(t)
  BY <1>8 DEF SetStop
<1>9. CASE ReadStop(t, "video", "readVideoStop", "readAudioStop")
  BY <1>9 DEF ReadStop
<1>10. CASE ReadStop(t, "audio", "readAudioStop", "checkClose")
  BY <1>10 DEF ReadStop
<1>11. CASE CheckClose(t)
  BY <1>11 DEF CheckClose
<1>12. CASE CallClose(t)
  BY <1>12 DEF CallClose
<1>13. CASE Acquire(t, "closeLock", "close")
  BY <1>13 DEF Acquire
<1>14. CASE Close(t)
  BY <1>14 DEF Close
<1>15. CASE ClearRecord(t)
  BY <1>15 DEF ClearRecord
<1>. QED BY <1>1, <1>2, <1>3, <1>4, <1>5, <1>6, <1>7, <1>8,
            <1>9, <1>10, <1>11, <1>12, <1>13, <1>14, <1>15 DEF Receive

(* A thread raises its own flag, when it is not writing; one that closes   *)
(* has seen both.                                                          *)
LEMMA FlagsReceive ==
  ASSUME TypeInv, Stopped, Flags, Streams, NEW t \in Thread, Receive(t)
  PROVE  Flags'
<1>. USE DEF Stopped, Flags, InStop, InWrite, InClose, Goto, Crash, uiVars, recorder, TypeInv, TypeOK
<1>1. CASE Callback(t)
  BY <1>1, ThreadProperties DEF Callback
<1>2. CASE CheckRecord(t)
  BY <1>2 DEF CheckRecord
<1>3. CASE CallWrite(t)
  BY <1>3 DEF CallWrite
<1>4. CASE HasStream(t)
  BY <1>4 DEF HasStream
<1>5. CASE StartStream(t)
  BY <1>5 DEF StartStream
<1>6. CASE Acquire(t, "lock", "write")
  BY <1>6 DEF Acquire
<1>7. CASE Write(t)
  BY <1>7 DEF Write
<1>8. CASE SetStop(t)
  <2>1. t[1] \in Kind /\ \A k \in Kind : m_bStop[k] => m_bStop'[k]
    BY <1>8, ThreadProperties DEF SetStop
  <2>2. \A u \in Thread : InWrite(u)' => ~m_bStop'[u[1]]
    <3>1. SUFFICES ASSUME NEW u \in Thread, InWrite(u)' PROVE ~m_bStop'[u[1]]
      OBVIOUS
    <3>2. u # t /\ InWrite(u)
      BY <1>8, <3>1 DEF SetStop
    <3>3. u[1] # t[1]
      BY <1>8, <3>2, ThreadEqual DEF SetStop
    <3>. QED BY <1>8, <3>2, <3>3, ThreadProperties DEF SetStop
  <2>3. \A u \in Thread : pc'[u] = "readAudioStop" => m_bStop'["video"]
    BY <1>8, <2>1 DEF SetStop, Kind
  <2>4. \A u \in Thread : InClose(u)' => \A k \in Kind : m_bStop'[k]
    BY <1>8, <2>1 DEF SetStop
  <2>5. closes'[1] > 0 => \A k \in Kind : m_bStop'[k]
    BY <1>8, <2>1 DEF SetStop
  <2>. QED BY <2>2, <2>3, <2>4, <2>5
<1>9. CASE ReadStop(t, "video", "readVideoStop", "readAudioStop")
  BY <1>9 DEF ReadStop
<1>10. CASE ReadStop(t, "audio", "readAudioStop", "checkClose")
  BY <1>10 DEF ReadStop, Kind
<1>11. CASE CheckClose(t)
  BY <1>11 DEF CheckClose
<1>12. CASE CallClose(t)
  BY <1>12 DEF CallClose
<1>13. CASE Acquire(t, "closeLock", "close")
  BY <1>13 DEF Acquire
<1>14. CASE Close(t)
  BY <1>14 DEF Close
<1>15. CASE ClearRecord(t)
  BY <1>15 DEF ClearRecord
<1>. QED BY <1>1, <1>2, <1>3, <1>4, <1>5, <1>6, <1>7, <1>8,
            <1>9, <1>10, <1>11, <1>12, <1>13, <1>14, <1>15 DEF Receive

(* The output stream goes away in Close only, when no thread is writing.   *)
LEMMA StreamsReceive ==
  ASSUME TypeInv, Stopped, Flags, Streams, NEW t \in Thread, Receive(t)
  PROVE  Streams'
<1>. USE DEF Flags, Streams, InWrite, InClose, Goto, Crash, recorder, TypeInv, TypeOK
<1>1. CASE Callback(t)
  BY <1>1 DEF Callback
<1>2. CASE CheckRecord(t)
  BY <1>2 DEF CheckRecord
<1>3. CASE CallWrite(t)
  BY <1>3 DEF CallWrite
<1>4. CASE HasStream(t)
  BY <1>4 DEF HasStream
<1>5. CASE StartStream(t)
  BY <1>5 DEF StartStream
<1>6. CASE Acquire(t, "lock", "write")
  BY <1>6 DEF Acquire
<1>7. CASE Write(t)
  BY <1>7 DEF Write
<1>8. CASE SetStop(t)
  BY <1>8 DEF SetStop
<1>9. CASE ReadStop(t, "video", "readVideoStop", "readAudioStop")
  BY <1>9 DEF ReadStop
<1>10. CASE ReadStop(t, "audio", "readAudioStop", "checkClose")
  BY <1>10 DEF ReadStop
<1>11. CASE CheckClose(t)
  BY <1>11 DEF CheckClose
<1>12. CASE CallClose(t)
  BY <1>12 DEF CallClose
<1>13. CASE Acquire(t, "closeLock", "close")
  BY <1>13 DEF Acquire
<1>14. CASE Close(t)
  <2>1. \A u \in Thread : ~InWrite(u)
    BY <1>14, ThreadProperties DEF Close
  <2>. QED BY <1>14, <2>1 DEF Close
<1>15. CASE ClearRecord(t)
  BY <1>15 DEF ClearRecord
<1>. QED BY <1>1, <1>2, <1>3, <1>4, <1>5, <1>6, <1>7, <1>8,
            <1>9, <1>10, <1>11, <1>12, <1>13, <1>14, <1>15 DEF Receive

LEMMA HandshakeReceive ==
  ASSUME TypeInv, Handshake, NEW t \in Thread, Receive(t)
  PROVE  Handshake'
<1>1. session' = session
  BY DEF Receive, Callback, CheckRecord, CallWrite, HasStream, StartStream, Acquire, Write,
         SetStop, ReadStop, CheckClose, CallClose, Close, ClearRecord, uiVars
<1>2. session # 0
  BY DEF Receive, Callback, CheckRecord, CallWrite, HasStream, StartStream, Acquire, Write,
         SetStop, ReadStop, CheckClose, CallClose, Close, ClearRecord, Goto, Handshake, Before
<1>. QED BY <1>1, <1>2, StoppedReceive, FlagsReceive, StreamsReceive
         DEF Handshake, Before, First

LEMMA HandshakeStep == TypeInv /\ Handshake /\ [Next]_vars => Handshake'
<1>1. Handshake /\ UNCHANGED vars => Handshake'
  BY DEF Handshake, Before, First, Stopped, Flags, Streams, InStop, InWrite, InClose, vars
<1>. QED BY <1>1, HandshakeDialog, HandshakeReceive DEF Next

LEMMA HandshakeAlways == Spec => [](TypeInv /\ Handshake)
BY TypeInit, TypeStep, HandshakeInit, HandshakeStep, PTL DEF Spec

(* While there is one recording, no packet is being written when it is     *)
(* closed, nor afterwards.                                                 *)
THEOREM WriteAndCloseApart == Spec => []NoWriteDuringClose
<1>1. ASSUME TypeInv, Handshake PROVE NoWriteDuringClose
  <2>. SUFFICES ASSUME session <= 1, NEW t \in Thread, NEW u \in Thread, InWrite(t)
                PROVE  ~InClose(u) /\ closes[1] = 0
    BY DEF NoWriteDuringClose
  <2>1. session = 1
    BY <1>1 DEF TypeInv, TypeOK, Handshake, Before, InWrite
  <2>2. ~m_bStop[t[1]] /\ t[1] \in Kind
    BY <1>1, <2>1, ThreadProperties DEF Handshake, First, Flags
  <2>3. closes[1] \in Nat
    BY <1>1, SessionProperties DEF TypeInv, TypeOK
  <2>. QED BY <1>1, <2>1, <2>2, <2>3 DEF Handshake, First, Flags
<1>. QED BY <1>1, HandshakeAlways, PTL

(* While there is one recording, the bodies find an output stream.         *)
THEOREM WriteFindsStream == Spec => []WriteHasStream
<1>1. TypeInv /\ Handshake => WriteHasStream
  BY DEF TypeInv, TypeOK, Handshake, Before, First, Streams, WriteHasStream
<1>. QED BY <1>1, HandshakeAlways, PTL

(* While there is one recording, it is closed after the stop button only.  *)
THEOREM CloseNeedsStop == Spec => []ClosedOnlyAfterStop
<1>1. TypeInv /\ Handshake => ClosedOnlyAfterStop
  BY DEF TypeInv, TypeOK, Handshake, Before, First, Stopped, InStop, InClose,
         ClosedOnlyAfterStop
<1>. QED BY <1>1, HandshakeAlways, PTL

-----------------------------------------------------------------------------
(* The use of one recorder is a Recording.                                 *)

(* Calls are on recorders that have been made.                             *)
Targets ==
  /\ m_precord \in (1 .. session) \cup {NULL}
  /\ \A t \in Thread : target[t] \in (1 .. session) \cup {NULL}

LEMMA TargetsStep ==
  ASSUME TypeInv, Targets, [Next]_vars
  PROVE  Targets'
<1> USE DEF TypeInv, TypeOK, Targets
<1>0. session \in Nat
  BY MaxSessionsAssumption
<1>1. CASE StartRecord
  <2>1. 1 .. session \subseteq 1 .. session'
    BY <1>0, <1>1 DEF StartRecord
  <2>2. m_precord' = m_precord /\ target' = target
    BY <1>1 DEF StartRecord
  <2>. QED BY <2>1, <2>2
<1>2. CASE StopRecord \/ FinishClick
  <2>1. CASE SetRecord
    <3>1. session \in 1 .. session
      BY <1>0, <2>1 DEF SetRecord, Session
    <3>. QED BY <2>1, <3>1 DEF SetRecord
  <2>2. CASE ~SetRecord
    BY <1>2, <2>2 DEF StopRecord, FinishClick, SetGetStream, ClearStop, OpenNete
  <2>. QED BY <2>1, <2>2
<1>3. ASSUME NEW t \in Thread, Receive(t) PROVE Targets'
  BY <1>3 DEF Receive, Callback, CheckRecord, CallWrite, HasStream, StartStream, Acquire,
     Write, SetStop, ReadStop, CheckClose, CallClose, Close, ClearRecord, uiVars
<1>4. CASE UNCHANGED vars
  BY <1>4 DEF vars
<1>. QED BY <1>1, <1>2, <1>3, <1>4 DEF Next, Dialog

LEMMA TargetsAlways == Spec => []Targets
<1>1. Init => Targets
  BY DEF Init, Targets
<1>2. TypeInv /\ Targets /\ [Next]_vars => Targets'
  BY TargetsStep
<1>. QED BY <1>1, <1>2, HandshakeAlways, PTL DEF Spec

InBody(t) == pc[t] \in {"hasStream", "startStream", "lock", "write"}

(* The dialog starts and stops the recording and leaves the calls alone.   *)
LEMMA RecordingDialog ==
  ASSUME TypeInv, Handshake, session' <= 1, Dialog
  PROVE  [R!Next]_(R!vars)
<1>1. Writing' = Writing
  BY DEF Dialog, StartRecord, StopRecord, FinishClick, SetGetStream, SetRecord, ClearStop,
     OpenNete, Writing
<1>2. session \in Nat /\ closes[1] \in Nat /\ m_bGetStream \in BOOLEAN
  BY SessionProperties, MaxSessionsAssumption DEF TypeInv, TypeOK
<1>3. CASE StartRecord
  <2>1. session = 0 /\ session' = 1 /\ ui' = "setGetStream" /\ closes' = closes
    BY <1>2, <1>3 DEF StartRecord
  <2>2. closes[1] = 0
    BY <2>1 DEF Handshake, Before
  <2>3. RecordingStage = "new" /\ RecordingStage' = "recording"
    BY <2>1, <2>2 DEF RecordingStage
  <2>. QED BY <1>1, <2>3 DEF R!Next, R!Start
<1>4. CASE StopRecord
  <2>1. session # 0 /\ session' = session /\ closes' = closes /\ ui = "idle" /\ ui' = ui
    BY <1>2, <1>4 DEF StopRecord, recorder
  <2>2. m_bGetStream = TRUE /\ m_bGetStream' = FALSE
    BY <1>2, <1>4 DEF StopRecord
  <2>3. session = 1
    BY <1>2, <2>1
  <2>4. ~(closes[1] > 0)
    <3>1. "video" \in Kind
      BY DEF Kind
    <3>. QED BY <2>2, <2>3, <3>1 DEF Handshake, First, Flags, Stopped
  <2>5. RecordingStage = "recording" /\ RecordingStage' = "stopping"
    BY <2>1, <2>2, <2>3, <2>4 DEF RecordingStage
  <2>. QED BY <1>1, <2>5 DEF R!Next, R!Stop
<1>5. CASE FinishClick
  <2>1. session' = session /\ closes' = closes
    BY <1>5 DEF FinishClick, SetGetStream, SetRecord, ClearStop, OpenNete, recorder
  <2>2. \/ ui = "setGetStream" /\ m_bGetStream' = TRUE
        \/ ui # "setGetStream" /\ ui' # "setGetStream" /\ m_bGetStream' = m_bGetStream
    BY <1>5 DEF FinishClick, SetGetStream, SetRecord, ClearStop, OpenNete
  <2>3. RecordingStage' = RecordingStage
    BY <2>1, <2>2 DEF RecordingStage
  <2>. QED BY <1>1, <2>3 DEF R!vars
<1>. QED BY <1>3, <1>4, <1>5 DEF Dialog

(* A receiving thread begins and ends its own packet.                      *)
LEMMA OwnPacketOnly ==
  ASSUME TypeInv, Handshake, session = 1, NEW t \in Thread, Receive(t)
  PROVE  /\ t[1] \in Kind
         /\ Writing' = IF InBody(t)' THEN Writing \cup {t[1]} ELSE Writing \ {t[1]}
         /\ t[1] \in Writing <=> InBody(t)
<1>1. t[1] \in Kind /\ t[2] \in Session /\ t = <<t[1], t[2]>>
  BY DEF Thread
<1>2. t[2] = 1
  <2>1. pc[t] # "idle" \/ t[2] \in live
    BY DEF Receive, Callback, CheckRecord, CallWrite, HasStream, StartStream, Acquire, Write,
       SetStop, ReadStop, CheckClose, CallClose, Close, ClearRecord, Goto
  <2>. QED BY <2>1 DEF Handshake, First, Stopped
<1>3. t = <<t[1], 1>>
  BY <1>1, <1>2
<1>4. \A k \in Kind : <<k, 1>> \in Thread /\ (k # t[1] => <<k, 1>> # t)
  BY <1>3, SessionProperties DEF Thread
<1>5. \A u \in Thread : u # t => pc'[u] = pc[u]
  BY DEF Receive, Callback, CheckRecord, CallWrite, HasStream, StartStream, Acquire, Write,
     SetStop, ReadStop, CheckClose, CallClose, Close, ClearRecord, Goto, Crash, TypeInv, TypeOK
<1>6. \A k \in Kind : k # t[1] => (k \in Writing' <=> k \in Writing)
  BY <1>4, <1>5 DEF Writing
<1>7. t[1] \in Writing <=> InBody(t)
  BY <1>1, <1>3 DEF Writing, InBody
<1>8. t[1] \in Writing' <=> InBody(t)'
  BY <1>1, <1>3 DEF Writing, InBody
<1>9. Writing \subseteq Kind /\ Writing' \subseteq Kind
  BY DEF Writing
<1>. QED BY <1>1, <1>6, <1>7, <1>8, <1>9

LEMMA RecordingReceive ==
  ASSUME TypeInv, Handshake, Targets, session <= 1, NEW t \in Thread, Receive(t)
  PROVE  [R!Next]_(R!vars)
<1>1. session = 1
  <2>1. session # 0
    BY DEF Receive, Callback, CheckRecord, CallWrite, HasStream, StartStream, Acquire, Write,
       SetStop, ReadStop, CheckClose, CallClose, Close, ClearRecord, Goto, Handshake, Before
  <2>. QED BY <2>1, MaxSessionsAssumption DEF TypeInv, TypeOK
<1>2. /\ Stopped /\ Flags
      /\ UNCHANGED <<session, ui, m_bGetStream>>
      /\ closes[1] \in Nat
  BY <1>1, SessionProperties DEF Handshake, First, Receive, Callback, CheckRecord, CallWrite,
     HasStream, StartStream, Acquire, Write, SetStop, ReadStop, CheckClose, CallClose, Close,
     ClearRecord, uiVars, TypeInv, TypeOK
<1>3. /\ t[1] \in Kind
      /\ Writing' = IF InBody(t)' THEN Writing \cup {t[1]} ELSE Writing \ {t[1]}
      /\ t[1] \in Writing <=> InBody(t)
  BY <1>1, OwnPacketOnly
<1>4. CASE Close(t)
  <2>1. InClose(t) /\ ~InBody(t) /\ ~InBody(t)' /\ closes' = [closes EXCEPT ![target[t]] = @ + 1]
    BY <1>4 DEF Close, Goto, InClose, InBody, TypeInv, TypeOK
  <2>2. target[t] = 1
    <3>1. target[t] \in Session
      BY <1>4 DEF Close, Goto, TypeInv, OnRecorder
    <3>2. target[t] # NULL
      BY <3>1, SessionProperties
    <3>. QED BY <1>1, <3>2 DEF Targets
  <2>3. closes'[1] > 0
    BY <1>2, <2>1, <2>2, SessionProperties DEF TypeInv, TypeOK
  <2>4. Writing = {}
    <3>1. \A u \in Thread : ~InWrite(u)
      BY <1>2, <2>1, ThreadProperties DEF Flags
    <3>2. \A k \in Kind : <<k, 1>> \in Thread
      BY SessionProperties DEF Thread
    <3>. QED BY <3>1, <3>2 DEF Writing, InWrite
  <2>5. Writing' = Writing
    BY <1>3, <2>1, <2>4
  <2>6. ~m_bGetStream /\ ui = "idle"
    BY <1>2, <2>1 DEF Stopped, InStop, InClose
  <2>7. RecordingStage' = "closed" /\ RecordingStage \in {"closed", "stopping"}
    BY <1>1, <1>2, <2>3, <2>6 DEF RecordingStage
  <2>. QED BY <2>4, <2>5, <2>7 DEF R!Next, R!Close, R!vars
<1>5. CASE ~Close(t)
  <2>1. closes' = closes
    BY <1>5 DEF Receive, Callback, CheckRecord, CallWrite, HasStream, StartStream, Acquire,
       Write, SetStop, ReadStop, CheckClose, CallClose, ClearRecord, recorder
  <2>2. RecordingStage' = RecordingStage
    BY <1>2, <2>1 DEF RecordingStage
  <2>3. CASE InBody(t)' /\ ~InBody(t)
    <3>1. pc[t] = "call"
      BY <2>3 DEF Receive, Callback, CheckRecord, CallWrite, HasStream, StartStream, Acquire,
         Write, SetStop, ReadStop, CheckClose, CallClose, Close, ClearRecord, Goto, Crash,
         InBody, TypeInv, TypeOK
    <3>2. ~(closes[1] > 0)
      BY <1>2, <1>3, <3>1 DEF Flags, InWrite
    <3>3. RecordingStage \in {"recording", "stopping"}
      BY <1>1, <3>2 DEF RecordingStage
    <3>4. R!Begin(t[1])
      BY <1>3, <2>2, <2>3, <3>3 DEF R!Begin
    <3>. QED BY <1>3, <3>4 DEF R!Next
  <2>4. CASE ~InBody(t)' /\ InBody(t)
    <3>1. R!End(t[1])
      BY <1>3, <2>2, <2>4 DEF R!End
    <3>. QED BY <1>3, <3>1 DEF R!Next
  <2>5. CASE InBody(t)' <=> InBody(t)
    <3>1. Writing' = Writing
      BY <1>3, <2>5
    <3>. QED BY <2>2, <3>1 DEF R!vars
  <2>. QED BY <2>3, <2>4, <2>5
<1>. QED BY <1>4, <1>5

LEMMA RecordingStep ==
  ASSUME TypeInv, Handshake, Targets, session' <= 1, [Next]_vars
  PROVE  [R!Next]_(R!vars)
<1>1. ASSUME NEW t \in Thread, Receive(t) PROVE [R!Next]_(R!vars)
  <2>1. session' = session
    BY <1>1 DEF Receive, Callback, CheckRecord, CallWrite, HasStream, StartStream, Acquire,
       Write, SetStop, ReadStop, CheckClose, CallClose, Close, ClearRecord, uiVars
  <2>. QED BY <1>1, <2>1, RecordingReceive
<1>2. CASE UNCHANGED vars
  BY <1>2 DEF vars, R!vars, RecordingStage, Writing
<1>. QED BY <1>1, <1>2, RecordingDialog DEF Next

LEMMA RecordingInit == Init => R!Init
BY SessionProperties DEF Init, R!Init, RecordingStage, Writing, Thread

(* As long as the program has made one recording, and so for ever in a     *)
(* program that makes one: packets are written one at a time of each kind, *)
(* the recorder is closed after the stop button only and while nothing is  *)
(* being written, and nothing is written to it afterwards.                 *)
THEOREM OneRecordingIsARecording == Spec => OneIsARecording
<1>1. TypeInv /\ Handshake /\ Targets /\ [Next]_vars
        => [session' <= 1 => [R!Next]_(R!vars)]_vars
  BY RecordingStep
<1>. QED BY <1>1, RecordingInit, HandshakeAlways, TargetsAlways, PTL DEF Spec, OneIsARecording

(* So a program that makes one recording implements Recording.             *)
THEOREM ProgramWithOneRecording ==
  ASSUME MaxSessions = 1
  PROVE  Spec => R!Spec
<1>1. TypeInv /\ TypeInv' /\ Handshake /\ Targets /\ [Next]_vars => [R!Next]_(R!vars)
  <2>1. TypeInv' => session' <= 1
    BY DEF TypeInv, TypeOK
  <2>. QED BY <2>1, RecordingStep
<1>. QED BY <1>1, RecordingInit, HandshakeAlways, TargetsAlways, PTL DEF Spec, R!Spec
-----------------------------------------------------------------------------
(* A callback that may still close the recording: it is about to, or the   *)
(* recorder is there for its next packet.                                  *)
MayClose(t) ==
  pc[t] \in {"closeLock", "close"} \/ (m_precord # NULL /\ pc[t] # "clearRecord")
Owed(k) == IF MayClose(<<k, 1>>) THEN 1 ELSE 0

(* The first recording: each callback has closed it or may, but not both.  *)
Counted ==
  session = 1 =>
    /\ closes[1] + Owed("video") + Owed("audio") <= 2
    /\ ui \in {"setGetStream", "setRecord"} => closes[1] = 0

(* Nobody is in a callback of another stream.                              *)
LEMMA OneStream ==
  ASSUME TypeInv, Handshake, session = 1, NEW t \in Thread, Receive(t)
  PROVE  t = <<"video", 1>> \/ t = <<"audio", 1>>
<1>1. t[2] = 1
  BY DEF Handshake, First, Stopped, Receive, Callback, CheckRecord, CallWrite, HasStream,
     StartStream, Acquire, Write, SetStop, ReadStop, CheckClose, CallClose, Close, ClearRecord,
     Goto
<1>2. t[1] \in {"video", "audio"}
  BY ThreadProperties DEF Kind
<1>3. <<"video", 1>> \in Thread /\ <<"audio", 1>> \in Thread
  BY SessionProperties DEF Thread, Kind
<1>. QED BY <1>1, <1>2, <1>3, ThreadEqual

(* A callback that closes may not do so again; no step but SetRecord gives *)
(* a callback the right to.                                                *)
LEMMA CountedReceive ==
  ASSUME TypeInv, Handshake, Targets, Counted, NEW t \in Thread, Receive(t)
  PROVE  Counted'
<1>1. session' = session /\ ui' = ui
  BY DEF Receive, Callback, CheckRecord, CallWrite, HasStream, StartStream, Acquire, Write,
     SetStop, ReadStop, CheckClose, CallClose, Close, ClearRecord, uiVars
<1>2. SUFFICES ASSUME session = 1 PROVE Counted'
  BY <1>1 DEF Counted
<1>. DEFINE v == <<"video", 1>>
            a == <<"audio", 1>>
<1>3. v \in Thread /\ a \in Thread /\ v # a /\ (t = v \/ t = a)
  BY <1>2, OneStream, SessionProperties DEF Thread, Kind
<1>4. /\ closes[1] \in Nat /\ closes[1] + Owed("video") + Owed("audio") <= 2
      /\ ui \in {"setGetStream", "setRecord"} => closes[1] = 0
  BY <1>2, SessionProperties DEF Counted, TypeInv, TypeOK
<1>5. m_precord' = m_precord \/ m_precord' = NULL
  BY DEF Receive, Callback, CheckRecord, CallWrite, HasStream, StartStream, Acquire, Write,
     SetStop, ReadStop, CheckClose, CallClose, Close, ClearRecord
<1>6. \A u \in Thread : u # t => pc'[u] = pc[u]
  BY DEF Receive, Callback, CheckRecord, CallWrite, HasStream, StartStream, Acquire, Write,
     SetStop, ReadStop, CheckClose, CallClose, Close, ClearRecord, Goto, Crash, TypeInv, TypeOK
<1>7. \A u \in Thread : u # t => (MayClose(u)' => MayClose(u))
  BY <1>5, <1>6 DEF MayClose
<1>8. CASE Close(t)
  <2>1. MayClose(t) /\ ~MayClose(t)' /\ ui = "idle"
    <3>1. pc[t] = "close" /\ pc'[t] = "clearRecord"
      BY <1>8 DEF Close, Goto, TypeInv, TypeOK
    <3>2. ui = "idle"
      BY <1>2, <3>1 DEF Handshake, First, Stopped
    <3>. QED BY <3>1, <3>2 DEF MayClose
  <2>2. target[t] = 1
    <3>1. target[t] \in Session
      BY <1>8 DEF Close, Goto, TypeInv, OnRecorder
    <3>2. target[t] # NULL
      BY <3>1, SessionProperties
    <3>. QED BY <1>2, <3>2 DEF Targets
  <2>3. closes'[1] = closes[1] + 1
    BY <1>8, <2>2, SessionProperties DEF Close, TypeInv, TypeOK
  <2>. QED BY <1>1, <1>3, <1>4, <1>7, <2>1, <2>3 DEF Counted, Owed
<1>9. CASE ~Close(t)
  <2>1. closes' = closes
    BY <1>9 DEF Receive, Callback, CheckRecord, CallWrite, HasStream, StartStream, Acquire,
       Write, SetStop, ReadStop, CheckClose, CallClose, ClearRecord, recorder
  <2>2. MayClose(t)' => MayClose(t)
    BY <1>9 DEF Receive, Callback, CheckRecord, CallWrite, HasStream, StartStream, Acquire,
       Write, SetStop, ReadStop, CheckClose, CallClose, ClearRecord, Goto, Crash, MayClose,
       TypeInv, TypeOK
  <2>. QED BY <1>1, <1>3, <1>4, <1>7, <2>1, <2>2 DEF Counted, Owed
<1>. QED BY <1>8, <1>9

LEMMA CountedDialog ==
  ASSUME TypeInv, Handshake, Targets, Counted, Dialog
  PROVE  Counted'
<1>. USE SessionProperties, MaxSessionsAssumption
<1>1. session \in Nat /\ closes[1] \in Nat /\ closes' = closes /\ pc' = pc
  BY DEF Dialog, StartRecord, StopRecord, FinishClick, SetGetStream, SetRecord, ClearStop,
     OpenNete, recorder, TypeInv, TypeOK
<1>2. CASE StartRecord
  <2>1. SUFFICES ASSUME session = 0 PROVE Counted'
    BY <1>1, <1>2 DEF StartRecord, Counted
  <2>2. closes[1] = 0
    BY <2>1 DEF Handshake, Before
  <2>. QED BY <1>1, <2>2 DEF Counted, Owed
<1>3. CASE StopRecord \/ FinishClick
  <2>1. session' = session
    BY <1>3 DEF StopRecord, FinishClick, SetGetStream, SetRecord, ClearStop, OpenNete
  <2>2. CASE SetRecord
    <3>1. session = 1 => closes[1] = 0
      BY <2>2 DEF SetRecord, Counted
    <3>2. ui' = "clearAudio"
      BY <2>2 DEF SetRecord
    <3>. QED BY <1>1, <2>1, <3>1, <3>2 DEF Counted, Owed
  <2>3. CASE ~SetRecord
    <3>1. m_precord' = m_precord
      BY <1>3, <2>3 DEF StopRecord, FinishClick, SetGetStream, ClearStop, OpenNete
    <3>2. ui' \in {"setGetStream", "setRecord"} => ui \in {"setGetStream", "setRecord"}
      BY <1>3, <2>3 DEF StopRecord, FinishClick, SetGetStream, ClearStop, OpenNete
    <3>. QED BY <1>1, <2>1, <3>1, <3>2 DEF Counted, Owed, MayClose
  <2>. QED BY <2>2, <2>3
<1>. QED BY <1>2, <1>3 DEF Dialog

(* The flags allow one Close for each callback and no third, however many  *)
(* packets find both flags up: m_precord is cleared before the next.       *)
THEOREM NoThirdClose == Spec => []ClosedTwiceAtMost
<1>1. Init => Counted
  BY DEF Init, Counted
<1>2. TypeInv /\ Handshake /\ Targets /\ Counted /\ [Next]_vars => Counted'
  <2>. SUFFICES ASSUME TypeInv, Handshake, Targets, Counted, [Next]_vars PROVE Counted'
    OBVIOUS
  <2>1. CASE UNCHANGED vars
    BY <2>1 DEF vars, Counted, Owed, MayClose
  <2>. QED BY <2>1, CountedDialog, CountedReceive DEF Next
<1>3. TypeInv /\ Handshake /\ Counted => ClosedTwiceAtMost
  <2>. SUFFICES ASSUME TypeInv, Handshake, Counted, session <= 1 PROVE closes[1] <= 2
    BY DEF ClosedTwiceAtMost
  <2>1. session = 0 \/ session = 1
    BY MaxSessionsAssumption DEF TypeInv, TypeOK
  <2>2. closes[1] \in Nat
    BY SessionProperties DEF TypeInv, TypeOK
  <2>. QED BY <2>1, <2>2 DEF Handshake, Before, Counted, Owed
<1>. QED BY <1>1, <1>2, <1>3, HandshakeAlways, TargetsAlways, PTL DEF Spec

-----------------------------------------------------------------------------
(* What the stop button is promised without fairness.                      *)

Closing(t) == pc[t] \in {"readVideoStop", "readAudioStop"} \/ InClose(t)

(* The recording goes from its threads' hands only once it is closed: a    *)
(* thread that found both flags up is still on its way to Close.           *)
Unclosed ==
  session = 1 /\ ~(closes[1] > 0) =>
    /\ ~crashed
    /\ m_precord # NULL \/ ui \in {"setGetStream", "setRecord"}
    /\ \A t \in Thread : pc[t] # "clearRecord"
    /\ (\A k \in Kind : m_bStop[k]) => \E t \in Thread : Closing(t)

(* While there is one recording: when both threads have noticed the stop   *)
(* button, the file is closed or one of the two is about to close it.      *)
StopIsNotLost ==
  session = 1 /\ (\A k \in Kind : m_bStop[k]) =>
    closes[1] > 0 \/ \E t \in Thread : Closing(t)

(* While there is one recording, no NULL is followed before it is closed.  *)
CrashOnlyAfterClose == session = 1 /\ crashed => closes[1] > 0

LEMMA UnclosedDialog ==
  ASSUME TypeInv, Handshake, Unclosed, ~(session = 0 /\ crashed), Dialog
  PROVE  Unclosed'
<1>1. CASE StartRecord
  <2>1. session' = session + 1 /\ session \in Nat
    BY <1>1, MaxSessionsAssumption DEF StartRecord, TypeInv, TypeOK
  <2>2. CASE session = 0
    <3>1. "video" \in Kind
      BY DEF Kind
    <3>. QED BY <1>1, <2>2, <3>1 DEF StartRecord, Handshake, Before, Unclosed
  <2>3. CASE session # 0
    BY <2>1, <2>3 DEF Unclosed
  <2>. QED BY <2>2, <2>3
<1>2. CASE StopRecord \/ FinishClick
  <2>1. session' = session /\ closes' = closes /\ pc' = pc /\ crashed' = crashed
    BY <1>2 DEF StopRecord, FinishClick, SetGetStream, SetRecord, ClearStop, OpenNete, recorder
  <2>2. SUFFICES ASSUME session = 1, ~(closes[1] > 0) PROVE Unclosed'
    BY <2>1 DEF Unclosed
  <2>3. \A k \in Kind : m_bStop'[k] => m_bStop[k]
    BY <1>2 DEF StopRecord, FinishClick, SetGetStream, SetRecord, ClearStop, OpenNete, TypeInv,
       TypeOK
  <2>4. m_precord' # NULL \/ ui' \in {"setGetStream", "setRecord"}
    <3>1. CASE SetRecord
      BY <2>2, <3>1, SessionProperties DEF SetRecord
    <3>2. CASE ~SetRecord
      BY <1>2, <2>2, <3>2 DEF Unclosed, StopRecord, FinishClick, SetGetStream, ClearStop, OpenNete
    <3>. QED BY <3>1, <3>2
  <2>. QED BY <2>1, <2>2, <2>3, <2>4 DEF Unclosed, Closing, InClose
<1>. QED BY <1>1, <1>2 DEF Dialog

(* No packet is handed to a recorder that is missing.                      *)
LEMMA WriteDoesNotCrash ==
  ASSUME TypeInv, Handshake, Unclosed, session = 1, ~(closes[1] > 0), NEW t \in Thread
  PROVE  /\ CallWrite(t) => m_precord # NULL
         /\ Write(t) => crashed' = crashed
<1>1. ASSUME CallWrite(t) PROVE m_precord # NULL
  <2>1. t[2] \in live /\ ui = "idle"
    BY <1>1 DEF CallWrite, Handshake, First, Stopped
  <2>. QED BY <2>1 DEF Unclosed
<1>2. ASSUME Write(t) PROVE crashed' = crashed
  <2>1. target[t] \in started => target[t] \in mp4
    BY DEF Handshake, First, Streams
  <2>2. t[1] = "video" => target[t] \in mp4
    BY <1>2 DEF Write, Handshake, First, Streams
  <2>3. t[1] \in {"video", "audio"}
    BY ThreadProperties DEF Kind
  <2>. QED BY <1>2, <2>1, <2>2, <2>3 DEF Write
<1>. QED BY <1>1, <1>2

LEMMA UnclosedReceive ==
  ASSUME TypeInv, Handshake, Targets, Unclosed, NEW t \in Thread, Receive(t)
  PROVE  Unclosed'
<1>1. session' = session /\ ui' = ui
  BY DEF Receive, Callback, CheckRecord, CallWrite, HasStream, StartStream, Acquire, Write,
         SetStop, ReadStop, CheckClose, CallClose, Close, ClearRecord, uiVars
<1>2. SUFFICES ASSUME session = 1, ~(closes'[1] > 0) PROVE Unclosed'
  BY <1>1 DEF Unclosed
<1>3. ~Close(t)
  <2>. SUFFICES ASSUME Close(t) PROVE FALSE
    OBVIOUS
  <2>1. target[t] = 1
    <3>1. target[t] \in Session
      BY DEF Close, Goto, TypeInv, OnRecorder
    <3>2. target[t] # NULL
      BY <3>1, SessionProperties
    <3>. QED BY <1>2, <3>2 DEF Targets
  <2>2. closes[1] \in Nat
    BY SessionProperties DEF TypeInv, TypeOK
  <2>3. closes'[1] = closes[1] + 1
    BY <2>1, SessionProperties DEF Close, TypeInv, TypeOK
  <2>. QED BY <1>2, <2>2, <2>3
<1>4. closes' = closes
  BY <1>3 DEF Receive, Callback, CheckRecord, CallWrite, HasStream, StartStream, Acquire,
     Write, SetStop, ReadStop, CheckClose, CallClose, ClearRecord, recorder
<1>5. /\ Stopped /\ Flags
      /\ ~crashed
      /\ m_precord # NULL \/ ui \in {"setGetStream", "setRecord"}
      /\ \A u \in Thread : pc[u] # "clearRecord"
      /\ (\A k \in Kind : m_bStop[k]) => \E u \in Thread : Closing(u)
  BY <1>2, <1>4 DEF Handshake, First, Unclosed
<1>6. m_precord' = m_precord
  BY <1>3, <1>5 DEF Receive, Callback, CheckRecord, CallWrite, HasStream, StartStream, Acquire,
     Write, SetStop, ReadStop, CheckClose, CallClose, ClearRecord, Goto
<1>7. pc[t] # "idle" => m_precord # NULL
  BY <1>5 DEF Stopped
<1>8. ~crashed'
  <2>1. CallWrite(t) => m_precord # NULL
    BY <1>2, <1>4, WriteDoesNotCrash
  <2>2. Write(t) => crashed' = crashed
    BY <1>2, <1>4, WriteDoesNotCrash
  <2>. QED BY <1>5, <1>7, <2>1, <2>2 DEF Receive, Callback, CheckRecord, CallWrite, HasStream,
       StartStream, Acquire, SetStop, ReadStop, CheckClose, CallClose, Close, ClearRecord
<1>9. \A u \in Thread : pc'[u] # "clearRecord"
  BY <1>3, <1>5, <1>7 DEF Receive, Callback, CheckRecord, CallWrite, HasStream, StartStream,
     Acquire, Write, SetStop, ReadStop, CheckClose, CallClose, ClearRecord, Goto, Crash,
     TypeInv, TypeOK
<1>10. ASSUME \A k \in Kind : m_bStop'[k] PROVE \E u \in Thread : Closing(u)'
  <2>1. CASE SetStop(t)
    BY <2>1 DEF SetStop, Goto, Closing, TypeInv, TypeOK
  <2>2. CASE ~SetStop(t)
    <3>1. m_bStop' = m_bStop
      BY <2>2 DEF Receive, Callback, CheckRecord, CallWrite, HasStream, StartStream, Acquire,
         Write, SetStop, ReadStop, CheckClose, CallClose, Close, ClearRecord
    <3>2. PICK u \in Thread : Closing(u)
      BY <1>5, <1>10, <3>1
    <3>3. CASE u # t
      <4>1. pc'[u] = pc[u]
        BY <3>3 DEF Receive, Callback, CheckRecord, CallWrite, HasStream, StartStream, Acquire,
           Write, SetStop, ReadStop, CheckClose, CallClose, Close, ClearRecord, Goto, Crash,
           TypeInv, TypeOK
      <4>. QED BY <3>2, <4>1 DEF Closing, InClose
    <3>4. CASE u = t
      <4>1. m_bStop["video"] /\ m_bStop["audio"]
        BY <1>10, <3>1 DEF Kind
      <4>2. Closing(t)'
        BY <1>3, <1>5, <3>2, <3>4, <4>1 DEF Receive, Callback, CheckRecord, CallWrite, HasStream,
           StartStream, Acquire, Write, SetStop, ReadStop, CheckClose, CallClose, ClearRecord,
           Goto, Crash, Closing, InClose, TypeInv, TypeOK
      <4>. QED BY <4>2
    <3>. QED BY <3>3, <3>4
  <2>. QED BY <2>1, <2>2
<1>. QED BY <1>1, <1>5, <1>6, <1>8, <1>9, <1>10 DEF Unclosed

LEMMA UnclosedAlways == Spec => []Unclosed
<1>. DEFINE I == Unclosed /\ ~(session = 0 /\ crashed)
<1>1. Init => I
  BY DEF Init, Unclosed
<1>2. TypeInv /\ Handshake /\ Targets /\ I /\ [Next]_vars => I'
  <2>. SUFFICES ASSUME TypeInv, Handshake, Targets, I, [Next]_vars PROVE I'
    OBVIOUS
  <2>1. CASE UNCHANGED vars
    BY <2>1 DEF vars, Unclosed, Closing, InClose
  <2>2. CASE Dialog
    <3>1. crashed' = crashed /\ session \in Nat /\ session' \in {session, session + 1}
      BY <2>2, MaxSessionsAssumption DEF Dialog, StartRecord, StopRecord, FinishClick,
         SetGetStream, SetRecord, ClearStop, OpenNete, TypeInv, TypeOK
    <3>. QED BY <2>2, <3>1, UnclosedDialog
  <2>3. ASSUME NEW t \in Thread, Receive(t) PROVE I'
    <3>1. session' = session /\ session # 0
      BY <2>3 DEF Receive, Callback, CheckRecord, CallWrite, HasStream, StartStream, Acquire,
         Write, SetStop, ReadStop, CheckClose, CallClose, Close, ClearRecord, Goto, Handshake,
         Before, uiVars
    <3>. QED BY <2>3, <3>1, UnclosedReceive
  <2>. QED BY <2>1, <2>2, <2>3 DEF Next
<1>3. I => Unclosed
  OBVIOUS
<1>. QED BY <1>1, <1>2, <1>3, HandshakeAlways, TargetsAlways, PTL DEF Spec

(* The safety part of StoppedIsClosed: whatever the order of the two       *)
(* callbacks, the second to raise its flag finds both up and goes on to    *)
(* Close, so that a stopped recording needs its threads to run and nothing *)
(* else; and it does not die before.  (It may afterwards: two threads may  *)
(* find both flags up.)                                                    *)
THEOREM StopReachesClose == Spec => [](StopIsNotLost /\ CrashOnlyAfterClose)
<1>1. Unclosed => StopIsNotLost /\ CrashOnlyAfterClose
  BY DEF Unclosed, StopIsNotLost, CrashOnlyAfterClose
<1>. QED BY <1>1, UnclosedAlways, PTL
=============================================================================
