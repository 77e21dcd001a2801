-------------------------- MODULE FileRecordProofs --------------------------
(***************************************************************************)
(* Proofs about the recorder CAVFileRecord, for any times and sizes of     *)
(* frames: what its buffers hold, how its file begins, on which clock the  *)
(* sound is played, and that pictures and sound are each a Track.          *)
(***************************************************************************)
EXTENDS FileRecord, TLAPS

-----------------------------------------------------------------------------
(* The buffers.                                                            *)

(* A frame for a buffer, of whichever kind.                                *)
AnyFrame == Picture \cup Sound

LEMMA FrameFields ==
  ASSUME NEW f \in AnyFrame
  PROVE  f.ts \in Nat /\ f.len \in Nat /\ f # NULL /\ f # Lost
BY TimesAssumption, SizesAssumption, NULLAssumption DEF AnyFrame, Picture, Sound

(* A buffer that has not been allocated is empty.                          *)
Unused(b) == b.data = NULL => b.bufLen = 0 /\ b.len = 0 /\ b.ts = 0

(* What Keep makes of a buffer is a buffer, it holds what it says, and     *)
(* its time never goes back.                                               *)
LEMMA KeepHolds ==
  ASSUME NEW Frames \in SUBSET AnyFrame, NEW b \in Buffer(Frames), NEW f \in Frames,
         NEW slack \in Nat, Holds(b, slack), Unused(b)
  PROVE  /\ Keep(b, f, slack) \in Buffer(Frames)
         /\ Holds(Keep(b, f, slack), slack)
         /\ Unused(Keep(b, f, slack))
<1> DEFINE grow == b.data = NULL \/ b.bufLen < f.len + slack
           room == IF grow THEN [b EXCEPT !.bufLen = f.len + slack, !.data = Lost] ELSE b
<1>1. f.ts \in Nat /\ f.len \in Nat /\ f # NULL /\ f # Lost /\ NULL # Lost
  BY FrameFields, NULLAssumption
<1>2. /\ b.bufLen \in Nat /\ b.len \in Nat /\ b.ts \in Nat
      /\ b.data \in Frames \cup {NULL, Lost}
  BY DEF Buffer
<1>3. room \in Buffer(Frames)
  <2>1. f.len + slack \in Nat
    BY <1>1
  <2>2. [b EXCEPT !.bufLen = f.len + slack, !.data = Lost] \in Buffer(Frames)
    BY <2>1 DEF Buffer
  <2>. QED BY <2>2
<1>4. /\ room.ts = b.ts /\ room.len = b.len /\ room.data # NULL
      /\ f.len + slack <= room.bufLen
      /\ room.data # Lost => room.data = b.data
  <2>1. CASE grow
    <3>1. room = [b EXCEPT !.bufLen = f.len + slack, !.data = Lost]
      BY <2>1
    <3>. HIDE DEF room, grow
    <3>. QED BY <1>1, <1>2, <3>1 DEF Buffer
  <2>2. CASE ~grow
    <3>1. room = b
      BY <2>2
    <3>2. b.data # NULL /\ f.len + slack <= b.bufLen
      BY <1>1, <1>2, <2>2
    <3>. HIDE DEF room, grow
    <3>. QED BY <3>1, <3>2
  <2>. QED BY <2>1, <2>2
<1>5. b.len + slack <= room.bufLen
  <2>1. CASE b.data = NULL
    BY <1>1, <1>2, <2>1 DEF Buffer, Unused
  <2>2. CASE b.data # NULL
    BY <1>1, <1>2, <2>2 DEF Buffer, Holds
  <2>. QED BY <2>1, <2>2
<1>6. CASE f.ts > b.ts
  <2>1. Keep(b, f, slack) = [room EXCEPT !.data = f, !.len = f.len, !.ts = f.ts]
    BY <1>6 DEF Keep
  <2>. HIDE DEF room
  <2>. QED BY <1>1, <1>3, <1>4, <2>1 DEF Buffer, Holds, Unused
<1>7. CASE ~(f.ts > b.ts)
  <2>1. Keep(b, f, slack) = room
    BY <1>7 DEF Keep
  <2>. HIDE DEF room
  <2>2. room.data \notin {NULL, Lost} => b.data \notin {NULL, Lost}
    BY <1>4
  <2>. QED BY <1>3, <1>4, <1>5, <2>1, <2>2 DEF Holds, Unused
<1>. QED BY <1>6, <1>7

(* The time of a buffer, and what is in it, after a frame.                 *)
LEMMA KeepTime ==
  ASSUME NEW Frames \in SUBSET AnyFrame, NEW b \in Buffer(Frames), NEW f \in Frames,
         NEW slack \in Nat
  PROVE  /\ f.ts > b.ts => Keep(b, f, slack).ts = f.ts /\ Keep(b, f, slack).data = f
         /\ ~(f.ts > b.ts) => /\ Keep(b, f, slack).ts = b.ts
                              /\ Keep(b, f, slack).data \in {Lost, b.data}
<1> DEFINE grow == b.data = NULL \/ b.bufLen < f.len + slack
           room == IF grow THEN [b EXCEPT !.bufLen = f.len + slack, !.data = Lost] ELSE b
<1>1. room.ts = b.ts /\ room.data \in {Lost, b.data} /\ DOMAIN room = DOMAIN b
  BY DEF Buffer
<1>2. DOMAIN b = {"data", "bufLen", "len", "ts"}
  BY DEF Buffer
<1>3. CASE f.ts > b.ts
  <2>1. Keep(b, f, slack) = [room EXCEPT !.data = f, !.len = f.len, !.ts = f.ts]
    BY <1>3 DEF Keep
  <2>. HIDE DEF room
  <2>. QED BY <1>1, <1>2, <1>3, <2>1
<1>4. CASE ~(f.ts > b.ts)
  <2>1. Keep(b, f, slack) = room
    BY <1>4 DEF Keep
  <2>. QED BY <1>1, <1>4, <2>1
<1>. QED BY <1>3, <1>4

(* The buffers of the two kinds.                                           *)
Buffers ==
  /\ video \in Buffer(Picture) /\ Holds(video, Slack) /\ Unused(video)
  /\ audio \in Buffer(Sound) /\ Holds(audio, 0) /\ Unused(audio)

LEMMA KindsOfFrames ==
  /\ Picture \in SUBSET AnyFrame /\ Sound \in SUBSET AnyFrame
  /\ NULL \notin Picture /\ NULL \notin Sound /\ NULL # Lost
  /\ Slack \in Nat
BY NULLAssumption DEF AnyFrame, Slack

LEMMA EmptyBuffer ==
  ASSUME NEW Frames
  PROVE  /\ Empty \in Buffer(Frames) /\ Unused(Empty)
         /\ \A n \in Nat : Holds(Empty, n)
BY DEF Empty, Buffer, Unused, Holds

(* A fill frame is a sound.                                                *)
LEMMA FillFrame ==
  ASSUME audio \in Buffer(Sound)
  PROVE  [ts |-> audio.ts + FillStep, len |-> FillLen] \in Sound
<1>1. audio.ts \in Nat
  BY DEF Buffer
<1>2. audio.ts + FillStep \in Nat /\ FillLen \in Nat
  BY <1>1 DEF FillStep, FillLen
<1>. HIDE DEF FillStep, FillLen
<1>. QED BY <1>2 DEF Sound

LEMMA SoundReceived ==
  ASSUME NEW t \in Times, NEW n \in Sounds
  PROVE  [ts |-> t, len |-> n] \in Sound
BY TimesAssumption, SizesAssumption DEF Sound

(* The call that is under way.                                             *)
Calls ==
  /\ file \in {"new", "open", "closed"}
  /\ call \in Picture \cup {NULL} /\ fill \in 0 .. Fills
  /\ call # NULL => file = "open"
  /\ fill > 0 => call # NULL /\ header # "endless"

(* What WriteAudio and the loop in WriteVideo do is to take a sound.       *)
SoundStep ==
  /\ file = "open" /\ header # "endless"
  /\ \E f \in Sound : SoundIn(f)
  /\ UNCHANGED <<file, m_bStartStream, streams, videoVars>>

LEMMA SoundSteps ==
  ASSUME audio \in Buffer(Sound), Calls
  PROVE  /\ FillSound => SoundStep
         /\ \A t \in Times, n \in Sounds : WriteAudio([ts |-> t, len |-> n]) => SoundStep
<1>1. FillSound => SoundStep
  BY FillFrame DEF FillSound, SoundStep, Calls
<1>2. ASSUME NEW t \in Times, NEW n \in Sounds, WriteAudio([ts |-> t, len |-> n])
      PROVE  SoundStep
  BY <1>2, SoundReceived DEF WriteAudio, SoundStep
<1>. QED BY <1>1, <1>2

LEMMA BuffersStep ==
  Buffers /\ Calls /\ [Next]_vars => Buffers'
<1> SUFFICES ASSUME Buffers, Calls, [Next]_vars PROVE Buffers'
  OBVIOUS
<1>1. ASSUME UNCHANGED video, UNCHANGED audio PROVE Buffers'
  BY <1>1 DEF Buffers, Holds, Unused
<1>2. CASE Open
  BY <1>1, <1>2 DEF Open, videoVars, audioVars
<1>3. CASE Close
  BY <1>3, EmptyBuffer, KindsOfFrames DEF Close, Buffers
<1>4. CASE WriteVideo
  <2>1. UNCHANGED audio
    BY <1>4 DEF WriteVideo, audioVars
  <2>2. call \in Picture
    BY <1>4 DEF WriteVideo, Calls
  <2>3. CASE UNCHANGED video
    BY <1>1, <2>1, <2>3
  <2>4. CASE video' = Keep(video, call, Slack)
    <3>1. /\ Keep(video, call, Slack) \in Buffer(Picture)
          /\ Holds(Keep(video, call, Slack), Slack) /\ Unused(Keep(video, call, Slack))
      BY <2>2, KindsOfFrames, KeepHolds DEF Buffers
    <3>. QED BY <2>1, <2>4, <3>1 DEF Buffers
  <2>. QED BY <1>4, <2>3, <2>4 DEF WriteVideo, videoVars
<1>5. CASE SoundStep
  <2>1. PICK f \in Sound : SoundIn(f)
    BY <1>5 DEF SoundStep
  <2>2. UNCHANGED video /\ audio' = Keep(audio, f, 0)
    BY <1>5, <2>1 DEF SoundStep, SoundIn, videoVars
  <2>3. /\ Keep(audio, f, 0) \in Buffer(Sound)
        /\ Holds(Keep(audio, f, 0), 0) /\ Unused(Keep(audio, f, 0))
    BY KindsOfFrames, KeepHolds DEF Buffers
  <2>. QED BY <2>2, <2>3 DEF Buffers
<1>6. ASSUME NEW f \in Picture, CallWriteVideo(f) PROVE Buffers'
  BY <1>1, <1>6 DEF CallWriteVideo, videoVars, audioVars
<1>7. CASE UNCHANGED vars
  BY <1>1, <1>7 DEF vars
<1>. QED
  BY <1>2, <1>3, <1>4, <1>5, <1>6, <1>7, SoundSteps DEF Next, Buffers

-----------------------------------------------------------------------------
(* The flags and what they say.                                            *)

Flags ==
  /\ m_bStartStream \in BOOLEAN /\ m_bInitHeader \in BOOLEAN
  /\ m_pVideoStream \in BOOLEAN /\ m_pAudioStream \in BOOLEAN
  /\ nKeyFrame \in BOOLEAN

(* What WriteHeader leaves behind.                                         *)
HeaderMade ==
  \/ m_pVideoStream' = FALSE /\ m_pAudioStream' = FALSE /\ header' = "none"
  \/ m_pVideoStream' = TRUE /\ m_pAudioStream' = FALSE /\ header' = "none"
  \/ m_pVideoStream' = TRUE /\ m_pAudioStream' = TRUE /\ header' \in {"written", "endless"}

LEMMA HeaderCases ==
  ASSUME NEW f, Header(f)
  PROVE  \/ UNCHANGED streams
         \/ Begins(f) /\ ~m_bInitHeader /\ m_bInitHeader' = TRUE /\ HeaderMade
<1>1. CASE ~(Begins(f) /\ ~m_bInitHeader)
  BY <1>1 DEF Header
<1>2. CASE Begins(f) /\ ~m_bInitHeader
  <2>1. PICK h \in WriteHeader(Second \div (f.ts - video.ts)) :
          m_pVideoStream' = h[1] /\ m_pAudioStream' = h[2] /\ header' = h[3]
    BY <1>2 DEF Header
  <2>2. m_bInitHeader' = TRUE
    BY <1>2 DEF Header
  <2>3. CASE h = <<FALSE, FALSE, "none">>
    BY <1>2, <2>1, <2>2, <2>3, SMT DEF HeaderMade
  <2>4. CASE h = <<TRUE, FALSE, "none">>
    BY <1>2, <2>1, <2>2, <2>4, SMT DEF HeaderMade
  <2>5. CASE h = <<TRUE, TRUE, "written">>
    BY <1>2, <2>1, <2>2, <2>5, SMT DEF HeaderMade
  <2>6. CASE h = <<TRUE, TRUE, "endless">>
    BY <1>2, <2>1, <2>2, <2>6, SMT DEF HeaderMade
  <2>. QED BY <2>3, <2>4, <2>5, <2>6 DEF WriteHeader
<1>. QED BY <1>1, <1>2

LEMMA FlagsStep ==
  Flags /\ call \in Picture \cup {NULL} /\ [Next]_vars => Flags'
<1> SUFFICES ASSUME Flags, call \in Picture \cup {NULL}, [Next]_vars PROVE Flags'
  OBVIOUS
<1>1. CASE Open
  BY <1>1 DEF Open, streams, videoVars, Flags
<1>2. CASE Close
  BY <1>2 DEF Close, Flags
<1>3. CASE WriteVideo
  <2>1. Header(call) /\ call \in Picture /\ m_bStartStream' = m_bStartStream
    BY <1>3 DEF WriteVideo
  <2>2. m_bInitHeader' \in BOOLEAN /\ m_pVideoStream' \in BOOLEAN /\ m_pAudioStream' \in BOOLEAN
    BY <2>1, HeaderCases DEF HeaderMade, streams, Flags
  <2>3. call.key \in BOOLEAN
    BY <2>1 DEF Picture
  <2>4. nKeyFrame' = call.key \/ nKeyFrame' = nKeyFrame
    <3>1. UNCHANGED nKeyFrame \/ nKeyFrame' = IF call.ts > video.ts THEN call.key ELSE nKeyFrame
      BY <1>3, Zenon DEF WriteVideo, videoVars
    <3>. QED BY <3>1, Zenon
  <2>. QED BY <2>1, <2>2, <2>3, <2>4, Zenon DEF Flags
<1>4. CASE FillSound
  BY <1>4 DEF FillSound, streams, videoVars, Flags
<1>5. ASSUME NEW f, WriteAudio(f) PROVE Flags'
  BY <1>5 DEF WriteAudio, streams, videoVars, Flags
<1>6. ASSUME NEW f \in Picture, CallWriteVideo(f) PROVE Flags'
  BY <1>6 DEF CallWriteVideo, streams, videoVars, Flags
<1>7. CASE UNCHANGED vars
  BY <1>7 DEF vars, Flags
<1>. QED BY <1>1, <1>2, <1>3, <1>4, <1>5, <1>6, <1>7 DEF Next

LEMMA CallsStep == Calls /\ [Next]_vars => Calls'
<1> SUFFICES ASSUME Calls, [Next]_vars PROVE Calls'
  OBVIOUS
<1>. USE KindsOfFrames DEF Calls
<1>1. CASE Open
  BY <1>1 DEF Open, streams
<1>2. CASE Close
  BY <1>2 DEF Close
<1>3. CASE WriteVideo
  <2>1. file' = file /\ call # NULL
    BY <1>3 DEF WriteVideo
  <2>2. \/ call' = call /\ fill' = fill /\ fill = 0
        \/ call' = call /\ fill' = Fills /\ header' # "endless"
        \/ call' = NULL /\ fill' = 0
    BY <1>3 DEF WriteVideo
  <2>3. Fills \in Nat
    BY DEF Fills, MAX_AV_SPACETIME
  <2>. HIDE DEF Fills
  <2>. QED BY <2>1, <2>2, <2>3
<1>4. CASE FillSound
  <2>1. Fills \in Nat
    BY DEF Fills, MAX_AV_SPACETIME
  <2>. HIDE DEF Fills
  <2>. QED BY <1>4, <2>1 DEF FillSound, streams
<1>5. ASSUME NEW f, WriteAudio(f) PROVE Calls'
  BY <1>5 DEF WriteAudio, streams
<1>6. ASSUME NEW f \in Picture, CallWriteVideo(f) PROVE Calls'
  BY <1>6 DEF CallWriteVideo, streams
<1>7. CASE UNCHANGED vars
  BY <1>7 DEF vars
<1>. QED BY <1>1, <1>2, <1>3, <1>4, <1>5, <1>6, <1>7 DEF Next

(* The streams are made once, when the header is, and both only with a     *)
(* header.                                                                 *)
Started ==
  /\ m_pAudioStream = TRUE => m_pVideoStream = TRUE /\ header \in {"written", "endless"}
  /\ m_pVideoStream = TRUE => m_bInitHeader = TRUE
  /\ file # "closed" /\ m_bInitHeader = FALSE => header = "none"
  /\ file = "closed" => m_pVideoStream = FALSE /\ m_pAudioStream = FALSE
  /\ header \in {"none", "written", "endless"}

LEMMA StartedStep == Flags /\ Calls /\ Started /\ [Next]_vars => Started'
<1> SUFFICES ASSUME Flags, Calls, Started, [Next]_vars PROVE Started'
  OBVIOUS
<1>1. ASSUME UNCHANGED streams, file' = file \/ (file = "new" /\ file' = "open")
      PROVE  Started'
  BY <1>1 DEF Started, streams
<1>2. CASE Open
  BY <1>1, <1>2 DEF Open
<1>3. CASE Close
  BY <1>3 DEF Close, Started
<1>4. CASE WriteVideo
  <2>1. Header(call) /\ file' = file /\ file = "open"
    BY <1>4 DEF WriteVideo, Calls
  <2>2. CASE UNCHANGED streams
    BY <1>1, <2>1, <2>2
  <2>3. CASE m_bInitHeader' = TRUE /\ HeaderMade
    BY <2>1, <2>3 DEF HeaderMade, Started
  <2>. QED BY <2>1, <2>2, <2>3, HeaderCases
<1>5. CASE FillSound
  BY <1>1, <1>5 DEF FillSound
<1>6. ASSUME NEW f, WriteAudio(f) PROVE Started'
  BY <1>1, <1>6 DEF WriteAudio
<1>7. ASSUME NEW f \in Picture, CallWriteVideo(f) PROVE Started'
  BY <1>1, <1>7 DEF CallWriteVideo
<1>8. CASE UNCHANGED vars
  BY <1>1, <1>8 DEF vars, streams
<1>. QED BY <1>2, <1>3, <1>4, <1>5, <1>6, <1>7, <1>8 DEF Next

-----------------------------------------------------------------------------
(* What is in the file.                                                    *)

PicturePacket == [data : Picture \cup {NULL, Lost}, ts : Nat, key : BOOLEAN, pts : Int]
SoundPacket == [data : Sound \cup {NULL, Lost}, ts : Nat, pts : Int]

PictureOut ==
  [data |-> video.data, ts |-> video.ts, key |-> nKeyFrame,
   pts |-> IF m_nVidoeTime = 0 THEN 0 ELSE video.ts - m_nVidoeTime]

SoundOut == [data |-> audio.data, ts |-> audio.ts, pts |-> SoundTime]

Histories ==
  /\ pictures \in Seq(PicturePacket) /\ m_nVidoeTime \in Nat
  /\ sounds \in Seq(SoundPacket) /\ m_nAudioTime \in Nat
  /\ ulVideoFilstTimestamp \in Nat

(* A step gives the file no picture, or the one held back, and then a      *)
(* newer picture has come and there is a stream.                           *)
PictureGoesOut ==
  /\ Newer(video, call) /\ m_pVideoStream' = TRUE /\ header' # "endless"
  /\ pictures' = Append(pictures, PictureOut)
  /\ m_nVidoeTime' = IF m_nVidoeTime = 0 THEN video.ts ELSE m_nVidoeTime

LEMMA PictureCases ==
  ASSUME Flags, Flags', WriteVideo
  PROVE  \/ /\ UNCHANGED <<pictures, m_nVidoeTime>>
            /\ ~(header' # "endless" /\ Newer(video, call) /\ m_pVideoStream' = TRUE)
         \/ PictureGoesOut
<1>1. CASE header' # "endless" /\ Newer(video, call) /\ m_pVideoStream'
  <2>1. m_pVideoStream' = TRUE
    BY <1>1, Zenon DEF Flags
  <2>2. WriteVideoData
    BY <1>1, Zenon DEF WriteVideo
  <2>. QED BY <1>1, <2>1, <2>2, Zenon DEF WriteVideoData, PictureGoesOut, PictureOut
<1>2. CASE ~(header' # "endless" /\ Newer(video, call) /\ m_pVideoStream')
  <2>1. UNCHANGED <<pictures, m_nVidoeTime>>
    BY <1>2, Zenon DEF WriteVideo, videoVars
  <2>2. m_pVideoStream' = TRUE => m_pVideoStream'
    BY Zenon
  <2>. QED BY <1>2, <2>1, <2>2, Zenon
<1>. QED BY <1>1, <1>2

SoundFollows(f) ==
  /\ Newer(audio, f) /\ m_pAudioStream = TRUE
  /\ sounds' = Append(sounds, SoundOut)
  /\ m_nAudioTime' = IF m_nAudioTime = 0 THEN audio.ts ELSE m_nAudioTime

LEMMA SoundCases ==
  ASSUME NEW f, Flags, SoundIn(f)
  PROVE  UNCHANGED <<sounds, m_nAudioTime>> \/ SoundFollows(f)
<1>1. CASE SoundGoesOut(f)
  <2>1. Newer(audio, f) /\ m_pAudioStream = TRUE
    BY <1>1, Zenon DEF SoundGoesOut, Flags
  <2>. QED BY <1>1, <2>1, Zenon DEF SoundIn, SoundFollows, SoundOut
<1>2. CASE ~SoundGoesOut(f)
  BY <1>2, Zenon DEF SoundIn
<1>. QED BY <1>1, <1>2

LEMMA PacketTypes ==
  ASSUME Buffers, Flags, Histories
  PROVE  PictureOut \in PicturePacket /\ SoundOut \in SoundPacket
<1>1. /\ video.data \in Picture \cup {NULL, Lost} /\ video.ts \in Nat
      /\ audio.data \in Sound \cup {NULL, Lost} /\ audio.ts \in Nat
  BY DEF Buffers, Buffer
<1>2. /\ (IF m_nVidoeTime = 0 THEN 0 ELSE video.ts - m_nVidoeTime) \in Int
      /\ SoundTime \in Int
  BY <1>1 DEF Histories, SoundTime
<1>3. nKeyFrame \in BOOLEAN
  BY DEF Flags
<1>. QED BY <1>1, <1>2, <1>3, Zenon DEF PictureOut, SoundOut, PicturePacket, SoundPacket

LEMMA HistoriesStep ==
  Buffers /\ Flags /\ Flags' /\ Calls /\ Histories /\ [Next]_vars => Histories'
<1> SUFFICES ASSUME Buffers, Flags, Flags', Calls, Histories, [Next]_vars
             PROVE  Histories'
  OBVIOUS
<1>0. video.ts \in Nat /\ audio.ts \in Nat
  BY DEF Buffers, Buffer
<1>1. ASSUME UNCHANGED videoVars, UNCHANGED audioVars PROVE Histories'
  BY <1>1 DEF videoVars, audioVars, Histories
<1>2. CASE Open
  BY <1>1, <1>2 DEF Open
<1>3. CASE Close
  BY <1>3 DEF Close, Histories
<1>4. CASE WriteVideo
  <2>1. UNCHANGED <<sounds, m_nAudioTime>>
    BY <1>4 DEF WriteVideo, audioVars
  <2>2. ulVideoFilstTimestamp' \in Nat
    <3>1. call \in AnyFrame
      BY <1>4 DEF WriteVideo, Calls, AnyFrame
    <3>2. First(call) \in Nat /\ call.ts \in Nat
      BY <3>1, FrameFields DEF First, Histories
    <3>. QED BY <1>4, <3>2 DEF WriteVideo, videoVars, Histories
  <2>3. pictures' \in Seq(PicturePacket) /\ m_nVidoeTime' \in Nat
    <3>1. CASE UNCHANGED <<pictures, m_nVidoeTime>>
      BY <3>1 DEF Histories
    <3>2. CASE PictureGoesOut
      BY <1>0, <3>2, PacketTypes DEF PictureGoesOut, Histories
    <3>. QED BY <1>4, <3>1, <3>2, PictureCases
  <2>. QED BY <2>1, <2>2, <2>3 DEF Histories
<1>5. CASE SoundStep
  <2>1. PICK f \in Sound : SoundIn(f)
    BY <1>5 DEF SoundStep
  <2>2. sounds' \in Seq(SoundPacket) /\ m_nAudioTime' \in Nat
    <3>1. CASE UNCHANGED <<sounds, m_nAudioTime>>
      BY <3>1 DEF Histories
    <3>2. CASE SoundFollows(f)
      BY <1>0, <3>2, PacketTypes DEF SoundFollows, Histories
    <3>. QED BY <2>1, <3>1, <3>2, SoundCases
  <2>. QED BY <1>5, <2>2 DEF SoundStep, videoVars, Histories
<1>6. ASSUME NEW f \in Picture, CallWriteVideo(f) PROVE Histories'
  BY <1>1, <1>6 DEF CallWriteVideo
<1>7. CASE UNCHANGED vars
  BY <1>1, <1>7 DEF vars, videoVars, audioVars
<1>. QED
  BY <1>2, <1>3, <1>4, <1>5, <1>6, <1>7, SoundSteps DEF Next, Buffers

-----------------------------------------------------------------------------
(* How the file begins, and the clocks that time it.                       *)

(* While the file is open the two clocks are the times of the first        *)
(* picture and the first sound in it, and 0 when there is none.            *)
Clocks ==
  /\ pictures = <<>> => m_nVidoeTime = 0
  /\ pictures # <<>> =>
       m_nVidoeTime = pictures[1].ts /\ m_nVidoeTime > 0 /\ m_pVideoStream = TRUE
  /\ m_pVideoStream = TRUE /\ header # "endless" => pictures # <<>>
  /\ sounds = <<>> <=> m_nAudioTime = 0

Begun ==
  /\ file # "closed" => Clocks
  /\ pictures # <<>> => pictures[1].key = TRUE /\ pictures[1].pts = 0
  /\ sounds # <<>> => pictures # <<>> /\ header = "written"
  /\ SoundOnPictureClock

(* A step that leaves the histories, the clocks and the streams alone.     *)
LEMMA BegunSame ==
  ASSUME Begun, UNCHANGED <<pictures, m_nVidoeTime, sounds, m_nAudioTime>>,
         UNCHANGED streams, file' # "closed" => file # "closed"
  PROVE  Begun'
BY DEF Begun, Clocks, SoundOnPictureClock, streams

LEMMA FirstStays ==
  ASSUME NEW Items, NEW s \in Seq(Items), NEW e \in Items
  PROVE  /\ Append(s, e) # <<>>
         /\ s # <<>> => Append(s, e)[1] = s[1]
         /\ s = <<>> => Append(s, e)[1] = e
<1>1. CASE s = <<>>
  BY <1>1
<1>2. CASE s # <<>>
  <2>1. Len(s) >= 1
    BY <1>2
  <2>. QED BY <1>2, <2>1
<1>. QED BY <1>1, <1>2

LEMMA BegunVideo ==
  ASSUME Buffers, Flags, Flags', Calls, Started, Histories, Begun, WriteVideo
  PROVE  Begun'
<1>1. /\ Header(call) /\ header # "endless" /\ file' = file /\ file = "open"
      /\ UNCHANGED <<sounds, m_nAudioTime>>
  BY DEF WriteVideo, Calls, audioVars
<1>2. Clocks
  BY <1>1 DEF Begun
<1>3. CASE pictures # <<>>
  <2>1. UNCHANGED streams
    <3>1. m_pVideoStream = TRUE /\ m_bInitHeader = TRUE
      BY <1>2, <1>3 DEF Clocks, Started
    <3>. QED BY <1>1, <3>1, HeaderCases
  <2>2. CASE UNCHANGED <<pictures, m_nVidoeTime>>
    BY <1>1, <2>1, <2>2, BegunSame
  <2>3. CASE PictureGoesOut
    <3>1. pictures' # <<>> /\ pictures'[1] = pictures[1]
      BY <1>3, <2>3, PacketTypes, FirstStays DEF PictureGoesOut, Histories
    <3>2. m_nVidoeTime' = m_nVidoeTime
      BY <1>2, <1>3, <2>3 DEF PictureGoesOut, Clocks
    <3>. QED BY <1>1, <1>2, <1>3, <2>1, <3>1, <3>2
             DEF Begun, Clocks, SoundOnPictureClock, streams
  <2>. QED BY <2>2, <2>3, PictureCases
<1>4. CASE pictures = <<>>
  <2>1. m_nVidoeTime = 0 /\ m_pVideoStream = FALSE /\ sounds = <<>>
    BY <1>1, <1>2, <1>4 DEF Clocks, Begun, Flags
  <2>2. CASE UNCHANGED streams
    <3>1. ~PictureGoesOut
      BY <2>1, <2>2 DEF PictureGoesOut, streams
    <3>2. UNCHANGED <<pictures, m_nVidoeTime>>
      BY <3>1, PictureCases
    <3>. QED BY <1>1, <2>2, <3>2, BegunSame
  <2>3. CASE Begins(call) /\ HeaderMade
    <3>1. CASE PictureGoesOut
      <4>1. /\ pictures' # <<>> /\ pictures'[1] = PictureOut
            /\ m_nVidoeTime' = video.ts /\ m_pVideoStream' = TRUE
        BY <1>4, <2>1, <3>1, PacketTypes, FirstStays DEF PictureGoesOut, Histories
      <4>2. video.ts > 0
        BY <3>1 DEF PictureGoesOut, Newer
      <4>3. PictureOut.ts = video.ts /\ PictureOut.pts = 0
        BY <2>1 DEF PictureOut
      <4>4. PictureOut.key = TRUE
        <5>1. nKeyFrame = TRUE
          BY <2>3, Zenon DEF Begins, Flags
        <5>. QED BY <5>1 DEF PictureOut
      <4>5. SoundOnPictureClock'
        BY <1>1, <2>1 DEF SoundOnPictureClock
      <4>. QED BY <1>1, <1>2, <2>1, <4>1, <4>2, <4>3, <4>4, <4>5 DEF Begun, Clocks
    <3>2. CASE UNCHANGED <<pictures, m_nVidoeTime>> /\ ~(header' # "endless" /\ m_pVideoStream' = TRUE)
      BY <1>1, <1>2, <1>4, <2>1, <3>2 DEF Begun, Clocks, SoundOnPictureClock
    <3>. QED BY <2>3, <3>1, <3>2, PictureCases DEF Begins
  <2>. QED BY <1>1, <2>2, <2>3, HeaderCases
<1>. QED BY <1>3, <1>4

LEMMA BegunSound ==
  ASSUME Buffers, Flags, Started, Histories, Begun, SoundStep
  PROVE  Begun'
<1>1. /\ file' = file /\ file = "open" /\ header # "endless"
      /\ UNCHANGED streams /\ UNCHANGED <<pictures, m_nVidoeTime>>
  BY DEF SoundStep, videoVars
<1>2. Clocks
  BY <1>1 DEF Begun
<1>3. PICK f \in Sound : SoundIn(f)
  BY DEF SoundStep
<1>4. CASE UNCHANGED <<sounds, m_nAudioTime>>
  BY <1>1, <1>4, BegunSame
<1>5. CASE SoundFollows(f)
  <2>1. pictures # <<>> /\ header = "written"
    BY <1>1, <1>2, <1>5 DEF SoundFollows, Started, Clocks
  <2>2. sounds' # <<>> /\ sounds' = Append(sounds, SoundOut) /\ SoundOut.ts = audio.ts
    BY <1>5, PacketTypes, FirstStays DEF SoundFollows, Histories, SoundOut
  <2>3. m_nAudioTime' # 0
    BY <1>5 DEF SoundFollows, Newer
  <2>4. sounds # <<>> => SoundOut.pts = audio.ts - pictures[1].ts
    BY <1>2, <2>1 DEF Clocks, SoundOut, SoundTime
  <2>5. ASSUME NEW i \in 2 .. Len(sounds')
        PROVE  sounds'[i].pts = sounds'[i].ts - pictures[1].ts
    <3>1. Len(sounds') = Len(sounds) + 1 /\ Len(sounds) \in Nat
      BY <2>2 DEF Histories
    <3>2. CASE i = Len(sounds) + 1
      <4>1. sounds'[i] = SoundOut /\ sounds # <<>>
        BY <2>2, <3>1, <3>2 DEF Histories
      <4>. QED BY <2>2, <2>4, <4>1
    <3>3. CASE i # Len(sounds) + 1
      <4>1. i \in 2 .. Len(sounds) /\ sounds'[i] = sounds[i]
        BY <2>2, <3>1, <3>3 DEF Histories
      <4>. QED BY <4>1 DEF Begun, SoundOnPictureClock
    <3>. QED BY <3>2, <3>3
  <2>6. SoundOnPictureClock'
    BY <1>1, <2>5 DEF SoundOnPictureClock
  <2>. QED BY <1>1, <1>2, <2>1, <2>2, <2>3, <2>6 DEF Begun, Clocks, streams
<1>. QED BY <1>3, <1>4, <1>5, SoundCases

LEMMA BegunStep ==
  Buffers /\ Flags /\ Flags' /\ Calls /\ Started /\ Histories /\ Begun /\ [Next]_vars
    => Begun'
<1> SUFFICES ASSUME Buffers, Flags, Flags', Calls, Started, Histories, Begun, [Next]_vars
             PROVE  Begun'
  OBVIOUS
<1>1. ASSUME UNCHANGED videoVars, UNCHANGED audioVars, UNCHANGED streams,
             file' # "closed" => file # "closed"
      PROVE  Begun'
  BY <1>1, BegunSame DEF videoVars, audioVars
<1>2. CASE Open
  BY <1>1, <1>2 DEF Open
<1>3. CASE Close
  BY <1>3 DEF Close, Begun, SoundOnPictureClock
<1>4. ASSUME NEW f \in Picture, CallWriteVideo(f) PROVE Begun'
  BY <1>1, <1>4 DEF CallWriteVideo
<1>5. CASE UNCHANGED vars
  BY <1>1, <1>5 DEF vars, videoVars, audioVars, streams
<1>. QED
  BY <1>2, <1>3, <1>4, <1>5, BegunVideo, BegunSound, SoundSteps DEF Next, Buffers

-----------------------------------------------------------------------------
IInv == Buffers /\ Flags /\ Calls /\ Started /\ Histories /\ Begun

LEMMA InitInv == Init => IInv
<1> SUFFICES ASSUME Init PROVE IInv
  OBVIOUS
<1>1. Buffers
  BY EmptyBuffer, KindsOfFrames DEF Init, Buffers
<1>2. Flags
  BY Zenon DEF Init, Flags
<1>3. Calls
  BY DEF Init, Calls, Fills, MAX_AV_SPACETIME
<1>4. Started
  BY DEF Init, Started
<1>5. Histories
  BY DEF Init, Histories
<1>6. Begun
  BY DEF Init, Begun, Clocks, SoundOnPictureClock
<1>. QED BY <1>1, <1>2, <1>3, <1>4, <1>5, <1>6 DEF IInv

LEMMA InvAlways == Spec => []IInv
<1>1. IInv /\ [Next]_vars => Calls' /\ Flags'
  BY CallsStep, FlagsStep DEF IInv, Calls
<1>2. IInv /\ [Next]_vars => Buffers' /\ Started' /\ Histories' /\ Begun'
  BY <1>1, BuffersStep, StartedStep, HistoriesStep, BegunStep DEF IInv
<1>3. IInv /\ [Next]_vars => IInv'
  BY <1>1, <1>2 DEF IInv
<1>. QED BY InitInv, <1>3, PTL DEF Spec

(* Every variable of the recorder keeps its type.                          *)
THEOREM TypeCorrect == Spec => []TypeOK
<1>1. IInv => TypeOK
  BY Zenon DEF IInv, TypeOK, Buffers, Flags, Calls, Started, Histories,
               PicturePacket, SoundPacket
<1>. QED BY <1>1, InvAlways, PTL

(* Whatever the sizes and the order of the frames: the lengths the code    *)
(* copies never exceed what it has allocated, and a buffer with a frame in *)
(* it has that frame's time and length.                                    *)
THEOREM BuffersHoldTheirFrames == Spec => []BufferHoldsFrame
<1>1. IInv => BufferHoldsFrame
  BY DEF IInv, Buffers, BufferHoldsFrame
<1>. QED BY <1>1, InvAlways, PTL

(* The file begins with a key frame that is played at time 0; no sound is  *)
(* in it before, nor without a header.                                     *)
THEOREM KeyFrameIsFirst == Spec => []FileBeginsWithKeyFrame
<1>1. IInv => FileBeginsWithKeyFrame
  BY Zenon DEF IInv, Begun, FileBeginsWithKeyFrame
<1>. QED BY <1>1, InvAlways, PTL

(* From the second on, the sounds are played on the clock of the pictures. *)
THEOREM SoundKeepsPictureClock == Spec => []SoundOnPictureClock
<1>1. IInv => SoundOnPictureClock
  BY DEF IInv, Begun
<1>. QED BY <1>1, InvAlways, PTL

-----------------------------------------------------------------------------
(* The refinement: pictures and sounds are each a track.                   *)

LEMMA PacketsOfNone == Packets(<<>>) = <<>>
BY DEF Packets

LEMMA PacketsOfMore ==
  ASSUME NEW Items, NEW s \in Seq(Items), NEW e \in Items
  PROVE  Packets(Append(s, e)) = Append(Packets(s), [time |-> e.ts, whole |-> Whole(e)])
<1> DEFINE t == Append(s, e)
           w == Packets(t)
           v == Append(Packets(s), [time |-> e.ts, whole |-> Whole(e)])
<1>1. Len(s) \in Nat /\ DOMAIN s = 1 .. Len(s) /\ DOMAIN t = 1 .. Len(s) + 1
  OBVIOUS
<1>2. /\ DOMAIN Packets(s) = 1 .. Len(s) /\ DOMAIN w = 1 .. Len(s) + 1
      /\ Len(Packets(s)) = Len(s)
  BY <1>1 DEF Packets
<1>3. \A i \in 1 .. Len(s) : t[i] = s[i]
  OBVIOUS
<1>4. t[Len(s) + 1] = e
  OBVIOUS
<1>5. \A i \in 1 .. Len(s) + 1 : w[i] = [time |-> t[i].ts, whole |-> Whole(t[i])]
  BY <1>1 DEF Packets
<1>6. \A i \in 1 .. Len(s) : Packets(s)[i] = [time |-> s[i].ts, whole |-> Whole(s[i])]
  BY <1>1 DEF Packets
<1>. DEFINE Pairs == {Packets(s)[i] : i \in 1 .. Len(s)}
                       \cup {[time |-> e.ts, whole |-> Whole(e)]}
<1>7. Packets(s) \in Seq(Pairs) /\ [time |-> e.ts, whole |-> Whole(e)] \in Pairs
  <2>1. Packets(s) = [i \in 1 .. Len(s) |-> Packets(s)[i]]
    BY <1>1 DEF Packets
  <2>2. \A i \in 1 .. Len(s) : Packets(s)[i] \in Pairs
    OBVIOUS
  <2>. HIDE DEF Pairs
  <2>3. Packets(s) \in [1 .. Len(s) -> Pairs]
    BY <2>1, <2>2
  <2>4. Packets(s) \in Seq(Pairs)
    BY <1>1, <2>3
  <2>. QED BY <2>4 DEF Pairs
<1>. HIDE DEF Pairs
<1>8. DOMAIN v = 1 .. Len(s) + 1
  BY <1>2, <1>7
<1>9. \A i \in 1 .. Len(s) : v[i] = Packets(s)[i]
  BY <1>2, <1>7
<1>10. v[Len(s) + 1] = [time |-> e.ts, whole |-> Whole(e)]
  BY <1>2, <1>7
<1>11. v = [i \in 1 .. Len(s) + 1 |-> v[i]]
  BY <1>7, <1>8
<1>12. w = [i \in 1 .. Len(s) + 1 |-> w[i]]
  BY <1>1 DEF Packets
<1>. HIDE DEF t, w, v
<1>13. ASSUME NEW i \in 1 .. Len(s) + 1 PROVE w[i] = v[i]
  <2>1. CASE i = Len(s) + 1
    BY <1>1, <1>4, <1>5, <1>10, <2>1
  <2>2. CASE i # Len(s) + 1
    <3>1. i \in 1 .. Len(s)
      BY <1>1, <2>2
    <3>. QED BY <1>3, <1>5, <1>6, <1>9, <3>1
  <2>. QED BY <2>1, <2>2
<1>14. w = v
  BY <1>11, <1>12, <1>13
<1>. QED BY <1>14 DEF t, w, v

(* A newer frame is held back whole; another leaves the buffer as it was,  *)
(* or spoils it.                                                           *)
LEMMA KeepWhole ==
  ASSUME NEW Frames \in SUBSET AnyFrame, NEW b \in Buffer(Frames), NEW f \in Frames,
         NEW slack \in Nat
  PROVE  /\ f.ts > b.ts => /\ Keep(b, f, slack).ts = f.ts
                           /\ Whole(Keep(b, f, slack)) = TRUE
         /\ ~(f.ts > b.ts) => /\ Keep(b, f, slack).ts = b.ts
                              /\ Whole(Keep(b, f, slack)) \in {FALSE, Whole(b)}
<1>1. f # NULL /\ f # Lost
  BY FrameFields
<1>2. CASE f.ts > b.ts
  <2>1. Keep(b, f, slack).ts = f.ts /\ Keep(b, f, slack).data = f
    BY <1>2, KeepTime
  <2>2. Whole(Keep(b, f, slack))
    BY <1>1, <2>1 DEF Whole
  <2>. QED BY <1>2, <2>1, <2>2, Zenon
<1>3. CASE ~(f.ts > b.ts)
  <2>1. Keep(b, f, slack).ts = b.ts /\ Keep(b, f, slack).data \in {Lost, b.data}
    BY <1>3, KeepTime
  <2>2. CASE Keep(b, f, slack).data = Lost
    <3>1. ~Whole(Keep(b, f, slack))
      BY <2>2 DEF Whole
    <3>2. Whole(Keep(b, f, slack)) = FALSE
      BY <3>1, Zenon DEF Whole
    <3>3. Whole(Keep(b, f, slack)) \in {FALSE, Whole(b)}
      BY <3>2
    <3>. QED BY <1>3, <2>1, <3>3, Zenon
  <2>3. CASE Keep(b, f, slack).data = b.data
    <3>1. Whole(Keep(b, f, slack)) = Whole(b)
      BY <2>1, <2>3, Zenon DEF Whole
    <3>. QED BY <1>3, <2>1, <3>1, Zenon
  <2>. QED BY <2>1, <2>2, <2>3
<1>. QED BY <1>2, <1>3

LEMMA PicturesBegin == Init => P!Init
<1> SUFFICES ASSUME Init PROVE P!Init
  OBVIOUS
<1>1. Packets(pictures) = <<>>
  BY PacketsOfNone DEF Init
<1>2. video.ts = 0 /\ video.data = NULL
  BY DEF Init, Empty
<1>3. Whole(video) = FALSE
  BY <1>2, Zenon DEF Whole
<1>4. Stage(m_pVideoStream) = "before"
  <2>1. ~m_pVideoStream /\ file = "new"
    BY Zenon DEF Init
  <2>. QED BY <2>1 DEF Stage
<1>. QED BY <1>1, <1>2, <1>3, <1>4 DEF P!Init

(* A step in which a track is not concerned.                               *)
LEMMA PicturesSame ==
  ASSUME UNCHANGED <<video, pictures, m_pVideoStream>>,
         (file' = "closed") <=> (file = "closed")
  PROVE  UNCHANGED P!vars
BY DEF P!vars, Stage, Whole, Packets

LEMMA PicturesWrite ==
  ASSUME IInv, IInv', WriteVideo
  PROVE  [P!Next]_(P!vars)
<1>1. /\ Buffers /\ Flags /\ Flags' /\ Calls /\ Started /\ Histories
      /\ file = "open" /\ file' = "open" /\ call \in Picture /\ Header(call)
  BY DEF IInv, WriteVideo, Calls
<1>2. /\ m_pVideoStream \in BOOLEAN /\ m_pVideoStream' \in BOOLEAN
      /\ m_pVideoStream = TRUE => UNCHANGED streams
  BY <1>1, HeaderCases DEF Flags, Started
<1>3. /\ Stage(m_pVideoStream) = IF m_pVideoStream = TRUE THEN "recording" ELSE "before"
      /\ Stage(m_pVideoStream)' = IF m_pVideoStream' = TRUE THEN "recording" ELSE "before"
  BY <1>1, <1>2 DEF Stage
<1>4. /\ Stage(m_pVideoStream) # "over"
      /\ Stage(m_pVideoStream)' \in {Stage(m_pVideoStream), "recording"}
  BY <1>2, <1>3 DEF streams
<1>5. CASE header' = "endless"
  <2>1. UNCHANGED <<video, pictures>>
    BY <1>5 DEF WriteVideo, videoVars
  <2>2. UNCHANGED <<video.ts, Whole(video), Packets(pictures)>>
    BY <2>1 DEF Whole, Packets
  <2>3. CASE Stage(m_pVideoStream)' = Stage(m_pVideoStream)
    BY <2>2, <2>3 DEF P!vars
  <2>4. CASE Stage(m_pVideoStream)' # Stage(m_pVideoStream)
    <3>1. Stage(m_pVideoStream) = "before" /\ Stage(m_pVideoStream)' = "recording"
      BY <1>3, <1>4, <2>4
    <3>. QED BY <2>2, <3>1 DEF P!Next, P!Begin
  <2>. QED BY <2>3, <2>4
<1>6. CASE header' # "endless"
  <2>1. video' = Keep(video, call, Slack)
    BY <1>6 DEF WriteVideo
  <2>2. video \in Buffer(Picture) /\ Picture \in SUBSET AnyFrame /\ Slack \in Nat
    BY <1>1, KindsOfFrames DEF Buffers
  <2>3. video.ts \in Nat /\ call.ts \in Nat
    BY <1>1, <2>2, FrameFields DEF Buffer
  <2>4. CASE call.ts > video.ts
    <3>1. video'.ts = call.ts /\ Whole(video)' = TRUE
      <4>1. video'.ts = call.ts /\ Whole(Keep(video, call, Slack)) = TRUE
        BY <1>1, <2>1, <2>2, <2>4, KeepWhole
      <4>2. Whole(video)' = Whole(Keep(video, call, Slack))
        BY <2>1, Zenon DEF Whole
      <4>. QED BY <4>1, <4>2, Zenon
    <3>2. Newer(video, call) <=> video.ts > 0
      BY <1>1, <2>3, <2>4 DEF Newer, Buffers, Unused
    <3>3. CASE PictureGoesOut
      <4>1. /\ pictures' = Append(pictures, PictureOut) /\ video.ts > 0
            /\ Stage(m_pVideoStream)' = "recording"
        BY <1>3, <3>2, <3>3 DEF PictureGoesOut
      <4>2. PictureOut.ts = video.ts /\ Whole(PictureOut) = Whole(video)
        BY DEF PictureOut, Whole
      <4>3. PictureOut \in PicturePacket /\ pictures \in Seq(PicturePacket)
        BY <1>1, PacketTypes DEF Histories
      <4>4. Packets(pictures)' =
              Append(Packets(pictures), [time |-> video.ts, whole |-> Whole(video)])
        <5>1. Packets(pictures)' = Packets(pictures')
          BY DEF Packets, Whole
        <5>2. Packets(Append(pictures, PictureOut)) =
                Append(Packets(pictures), [time |-> PictureOut.ts, whole |-> Whole(PictureOut)])
          BY <4>3, PacketsOfMore
        <5>. QED BY <4>1, <4>2, <5>1, <5>2, Zenon
      <4>5. P!Take
        BY <1>4, <2>3, <2>4, <3>1, <4>1, <4>4 DEF P!Take
      <4>. QED BY <4>5 DEF P!Next
    <3>4. CASE ~PictureGoesOut
      <4>1. UNCHANGED pictures /\ ~(Newer(video, call) /\ m_pVideoStream' = TRUE)
        BY <1>1, <1>6, <3>4, PictureCases
      <4>2. Packets(pictures)' = Packets(pictures)
        BY <4>1 DEF Packets, Whole
      <4>3. ~(video.ts > 0 /\ Stage(m_pVideoStream)' = "recording")
        BY <1>2, <1>3, <3>2, <4>1
      <4>4. P!Take
        BY <1>4, <2>3, <2>4, <3>1, <4>2, <4>3 DEF P!Take
      <4>. QED BY <4>4 DEF P!Next
    <3>. QED BY <3>3, <3>4
  <2>5. CASE ~(call.ts > video.ts)
    <3>1. video'.ts = video.ts /\ Whole(video)' \in {FALSE, Whole(video)}
      <4>1. video'.ts = video.ts /\ Whole(Keep(video, call, Slack)) \in {FALSE, Whole(video)}
        BY <1>1, <2>1, <2>2, <2>5, KeepWhole
      <4>2. Whole(video)' = Whole(Keep(video, call, Slack))
        BY <2>1, Zenon DEF Whole
      <4>. QED BY <4>1, <4>2, Zenon
    <3>2. ~Newer(video, call)
      BY <2>5 DEF Newer
    <3>3. UNCHANGED streams /\ UNCHANGED pictures
      BY <1>1, <3>2, HeaderCases, PictureCases DEF Begins, PictureGoesOut
    <3>4. Stage(m_pVideoStream)' = Stage(m_pVideoStream) /\ Packets(pictures)' = Packets(pictures)
      BY <1>1, <3>3 DEF Stage, Packets, Whole, streams
    <3>5. CASE Whole(video)' = FALSE
      BY <1>4, <3>1, <3>4, <3>5 DEF P!Next, P!Spoil
    <3>6. CASE Whole(video)' = Whole(video)
      BY <3>1, <3>4, <3>6 DEF P!vars
    <3>. QED BY <3>1, <3>5, <3>6
  <2>. QED BY <2>4, <2>5
<1>. QED BY <1>5, <1>6

LEMMA PicturesStep == IInv /\ IInv' /\ [Next]_vars => [P!Next]_(P!vars)
<1> SUFFICES ASSUME IInv, IInv', [Next]_vars PROVE [P!Next]_(P!vars)
  OBVIOUS
<1>1. CASE Open
  BY <1>1, PicturesSame DEF Open, streams, videoVars
<1>2. CASE Close
  <2>1. Stage(m_pVideoStream)' = "over" /\ video'.ts = 0
    BY <1>2 DEF Close, Stage, Empty
  <2>2. Whole(video)' = FALSE
    BY <1>2, Zenon DEF Close, Empty, Whole
  <2>3. Packets(pictures)' = Packets(pictures)
    BY <1>2 DEF Close, Packets, Whole
  <2>. QED BY <2>1, <2>2, <2>3 DEF P!Next, P!End
<1>3. CASE SoundStep
  BY <1>3, PicturesSame DEF SoundStep, streams, videoVars
<1>4. ASSUME NEW f \in Picture, CallWriteVideo(f) PROVE UNCHANGED P!vars
  BY <1>4, PicturesSame DEF CallWriteVideo, streams, videoVars
<1>5. CASE UNCHANGED vars
  BY <1>5, PicturesSame DEF vars
<1>. QED
  BY <1>1, <1>2, <1>3, <1>4, <1>5, PicturesWrite, SoundSteps DEF Next, IInv, Buffers

(* For any pictures, of any sizes and in any order of time: since the      *)
(* recording began each has been written once, in the order of time, but   *)
(* for the newest.                                                         *)
THEOREM PicturesImplementTrack == Spec => PicturesAreATrack
<1>1. Spec => []IInv
  BY InvAlways
<1>. QED BY <1>1, PicturesBegin, PicturesStep, PTL DEF Spec, P!Spec, PicturesAreATrack

-----------------------------------------------------------------------------
LEMMA SoundsBegin == Init => S!Init
<1> SUFFICES ASSUME Init PROVE S!Init
  OBVIOUS
<1>1. Packets(sounds) = <<>>
  BY PacketsOfNone DEF Init
<1>2. audio.ts = 0 /\ audio.data = NULL
  BY DEF Init, Empty
<1>3. Whole(audio) = FALSE
  BY <1>2, Zenon DEF Whole
<1>4. Stage(m_pAudioStream) = "before"
  <2>1. ~m_pAudioStream /\ file = "new"
    BY Zenon DEF Init
  <2>. QED BY <2>1 DEF Stage
<1>. QED BY <1>1, <1>2, <1>3, <1>4 DEF S!Init

LEMMA SoundsSame ==
  ASSUME UNCHANGED <<audio, sounds, m_pAudioStream>>,
         (file' = "closed") <=> (file = "closed")
  PROVE  UNCHANGED S!vars
BY DEF S!vars, Stage, Whole, Packets

(* The header, which a picture brings, begins the track of the sound.      *)
LEMMA SoundsWrite ==
  ASSUME IInv, IInv', WriteVideo
  PROVE  [S!Next]_(S!vars)
<1>1. /\ Flags /\ Flags' /\ Started /\ Started' /\ file = "open" /\ file' = "open"
      /\ Header(call)
  BY DEF IInv, WriteVideo, Calls
<1>2. UNCHANGED <<audio, sounds>>
  BY DEF WriteVideo, audioVars
<1>3. CASE m_pAudioStream' = m_pAudioStream
  BY <1>1, <1>2, <1>3, SoundsSame
<1>4. CASE m_pAudioStream' # m_pAudioStream
  <2>1. m_pAudioStream = FALSE /\ m_pAudioStream' = TRUE
    <3>1. m_pAudioStream # TRUE
      BY <1>1, <1>4, HeaderCases DEF Started, streams
    <3>2. m_pAudioStream \in BOOLEAN /\ m_pAudioStream' \in BOOLEAN
      BY <1>1 DEF Flags
    <3>. QED BY <1>4, <3>1, <3>2
  <2>2. Stage(m_pAudioStream) = "before" /\ Stage(m_pAudioStream)' = "recording"
    BY <1>1, <2>1 DEF Stage
  <2>3. UNCHANGED <<audio.ts, Whole(audio), Packets(sounds)>>
    BY <1>2 DEF Whole, Packets
  <2>. QED BY <2>2, <2>3 DEF S!Next, S!Begin
<1>. QED BY <1>3, <1>4

LEMMA SoundsTake ==
  ASSUME IInv, SoundStep
  PROVE  [S!Next]_(S!vars)
<1>1. /\ Buffers /\ Flags /\ Histories
      /\ file = "open" /\ file' = "open" /\ m_pAudioStream' = m_pAudioStream
  BY DEF IInv, SoundStep, streams
<1>2. PICK f \in Sound : SoundIn(f)
  BY DEF SoundStep
<1>3. m_pAudioStream \in BOOLEAN
  BY <1>1 DEF Flags
<1>4. /\ Stage(m_pAudioStream) = IF m_pAudioStream = TRUE THEN "recording" ELSE "before"
      /\ Stage(m_pAudioStream)' = Stage(m_pAudioStream)
  BY <1>1, <1>3 DEF Stage
<1>5. audio' = Keep(audio, f, 0)
  BY <1>2 DEF SoundIn
<1>6. audio \in Buffer(Sound) /\ Sound \in SUBSET AnyFrame /\ 0 \in Nat
  BY <1>1, KindsOfFrames DEF Buffers
<1>7. audio.ts \in Nat /\ f.ts \in Nat
  BY <1>6, FrameFields DEF Buffer
<1>8. Whole(audio)' = Whole(Keep(audio, f, 0))
  BY <1>5, Zenon DEF Whole
<1>9. CASE f.ts > audio.ts
  <2>1. audio'.ts = f.ts /\ Whole(audio)' = TRUE
    <3>1. audio'.ts = f.ts /\ Whole(Keep(audio, f, 0)) = TRUE
      BY <1>5, <1>6, <1>9, KeepWhole
    <3>. QED BY <1>8, <3>1, Zenon
  <2>2. Newer(audio, f) <=> audio.ts > 0
    BY <1>1, <1>7, <1>9 DEF Newer, Buffers, Unused
  <2>3. CASE SoundGoesOut(f)
    <3>1. sounds' = Append(sounds, SoundOut)
      BY <1>2, <2>3 DEF SoundIn, SoundOut
    <3>2. audio.ts > 0 /\ Stage(m_pAudioStream)' = "recording"
      <4>1. Newer(audio, f) /\ m_pAudioStream = TRUE
        BY <1>3, <2>3, Zenon DEF SoundGoesOut
      <4>. QED BY <1>4, <2>2, <4>1
    <3>3. SoundOut.ts = audio.ts /\ Whole(SoundOut) = Whole(audio)
      BY DEF SoundOut, Whole
    <3>4. SoundOut \in SoundPacket /\ sounds \in Seq(SoundPacket)
      BY <1>1, PacketTypes DEF Histories
    <3>5. Packets(sounds)' =
            Append(Packets(sounds), [time |-> audio.ts, whole |-> Whole(audio)])
      <4>1. Packets(sounds)' = Packets(sounds')
        BY DEF Packets, Whole
      <4>2. Packets(Append(sounds, SoundOut)) =
              Append(Packets(sounds), [time |-> SoundOut.ts, whole |-> Whole(SoundOut)])
        BY <3>4, PacketsOfMore
      <4>. QED BY <3>1, <3>3, <4>1, <4>2, Zenon
    <3>6. S!Take
      BY <1>4, <1>7, <1>9, <2>1, <3>2, <3>5 DEF S!Take
    <3>. QED BY <3>6 DEF S!Next
  <2>4. CASE ~SoundGoesOut(f)
    <3>1. sounds' = sounds
      BY <1>2, <2>4 DEF SoundIn
    <3>2. Packets(sounds)' = Packets(sounds)
      BY <3>1 DEF Packets, Whole
    <3>3. ~(audio.ts > 0 /\ Stage(m_pAudioStream)' = "recording")
      <4>1. ~(Newer(audio, f) /\ m_pAudioStream = TRUE)
        BY <2>4, Zenon DEF SoundGoesOut
      <4>. QED BY <1>3, <1>4, <2>2, <4>1
    <3>4. S!Take
      BY <1>4, <1>7, <1>9, <2>1, <3>2, <3>3 DEF S!Take
    <3>. QED BY <3>4 DEF S!Next
  <2>. QED BY <2>3, <2>4
<1>10. CASE ~(f.ts > audio.ts)
  <2>1. audio'.ts = audio.ts /\ Whole(audio)' \in {FALSE, Whole(audio)}
    <3>1. audio'.ts = audio.ts /\ Whole(Keep(audio, f, 0)) \in {FALSE, Whole(audio)}
      BY <1>5, <1>6, <1>10, KeepWhole
    <3>. QED BY <1>8, <3>1, Zenon
  <2>2. sounds' = sounds
    BY <1>2, <1>10 DEF SoundIn, SoundGoesOut, Newer
  <2>3. Packets(sounds)' = Packets(sounds)
    BY <2>2 DEF Packets, Whole
  <2>4. CASE Whole(audio)' = FALSE
    BY <1>4, <2>1, <2>3, <2>4 DEF S!Next, S!Spoil
  <2>5. CASE Whole(audio)' = Whole(audio)
    BY <1>4, <2>1, <2>3, <2>5 DEF S!vars
  <2>. QED BY <2>1, <2>4, <2>5
<1>. QED BY <1>9, <1>10

LEMMA SoundsStep == IInv /\ IInv' /\ [Next]_vars => [S!Next]_(S!vars)
<1> SUFFICES ASSUME IInv, IInv', [Next]_vars PROVE [S!Next]_(S!vars)
  OBVIOUS
<1>1. CASE Open
  BY <1>1, SoundsSame DEF Open, streams, audioVars
<1>2. CASE Close
  <2>1. Stage(m_pAudioStream)' = "over" /\ audio'.ts = 0
    BY <1>2 DEF Close, Stage, Empty
  <2>2. Whole(audio)' = FALSE
    BY <1>2, Zenon DEF Close, Empty, Whole
  <2>3. Packets(sounds)' = Packets(sounds)
    BY <1>2 DEF Close, Packets, Whole
  <2>. QED BY <2>1, <2>2, <2>3 DEF S!Next, S!End
<1>3. ASSUME NEW f \in Picture, CallWriteVideo(f) PROVE UNCHANGED S!vars
  BY <1>3, SoundsSame DEF CallWriteVideo, streams, audioVars
<1>4. CASE UNCHANGED vars
  BY <1>4, SoundsSame DEF vars
<1>. QED
  BY <1>1, <1>2, <1>3, <1>4, SoundsWrite, SoundsTake, SoundSteps DEF Next, IInv, Buffers

(* The same for the sound, received or filled in.                          *)
THEOREM SoundsImplementTrack == Spec => SoundsAreATrack
<1>1. Spec => []IInv
  BY InvAlways
<1>. QED BY <1>1, SoundsBegin, SoundsStep, PTL DEF Spec, S!Spec, SoundsAreATrack

-----------------------------------------------------------------------------
(* What a track's promise says of the order of time.                       *)

TrackFrame == [time : Nat, whole : BOOLEAN]

(* The times of the frames go up, and none is above t.                     *)
GoUpBelow(frames, t) ==
  /\ \A i, j \in DOMAIN frames : i < j => frames[i].time < frames[j].time
  /\ \A i \in DOMAIN frames : frames[i].time < t

(* The frame held back goes behind the others and below a newer one.       *)
LEMMA FrameOnTop ==
  ASSUME NEW frames \in Seq(TrackFrame), NEW old \in Nat, NEW new \in Nat, NEW w \in BOOLEAN,
         GoUpBelow(frames, old), old < new
  PROVE  GoUpBelow(Append(frames, [time |-> old, whole |-> w]), new)
<1> DEFINE more == Append(frames, [time |-> old, whole |-> w])
           n == Len(frames)
<1>1. n \in Nat /\ DOMAIN frames = 1 .. n
  OBVIOUS
<1>2. DOMAIN more = 1 .. n + 1 /\ more[n + 1].time = old
  OBVIOUS
<1>3. \A i \in 1 .. n : more[i] = frames[i] /\ frames[i].time < old
  BY <1>1 DEF GoUpBelow
<1>4. \A i \in 1 .. n : frames[i].time \in Nat
  <2> SUFFICES ASSUME NEW i \in 1 .. n PROVE frames[i].time \in Nat
    OBVIOUS
  <2>1. frames[i] \in TrackFrame
    BY <1>1
  <2>. QED BY <2>1 DEF TrackFrame
<1>. HIDE DEF more, n
<1>5. \A i \in 1 .. n + 1 : i = n + 1 \/ i \in 1 .. n
  BY <1>1
<1>6. \A i, j \in 1 .. n + 1 : i < j => i \in 1 .. n
  BY <1>1
<1>7. \A i \in 1 .. n + 1 : more[i].time \in Nat /\ more[i].time <= old
  BY <1>2, <1>3, <1>4, <1>5
<1>8. \A i, j \in 1 .. n + 1 : i < j => more[i].time < more[j].time
  BY <1>1, <1>2, <1>3, <1>5, <1>6 DEF GoUpBelow
<1>9. \A i \in 1 .. n + 1 : more[i].time < new
  BY <1>7
<1>10. GoUpBelow(more, new)
  BY <1>2, <1>8, <1>9 DEF GoUpBelow
<1>. QED BY <1>10 DEF more

(* A frame that is held back but not written leaves them below a newer one.*)
LEMMA FrameBelowNewer ==
  ASSUME NEW frames \in Seq(TrackFrame), NEW old \in Nat, NEW new \in Nat,
         GoUpBelow(frames, old), old < new
  PROVE  GoUpBelow(frames, new)
<1> SUFFICES ASSUME NEW i \in DOMAIN frames PROVE frames[i].time < new
  BY DEF GoUpBelow
<1>1. frames[i] \in TrackFrame
  OBVIOUS
<1>. QED BY <1>1 DEF TrackFrame, GoUpBelow

(* What a track sees of the recorder has the types it expects.             *)
LEMMA TrackFrames ==
  ASSUME IInv
  PROVE  /\ Packets(pictures) \in Seq(TrackFrame) /\ Packets(sounds) \in Seq(TrackFrame)
         /\ video.ts \in Nat /\ audio.ts \in Nat
         /\ Whole(video) \in BOOLEAN /\ Whole(audio) \in BOOLEAN
<1>1. \A b : Whole(b) \in BOOLEAN
  BY Zenon DEF Whole
<1>2. video.ts \in Nat /\ audio.ts \in Nat
  BY DEF IInv, Buffers, Buffer
<1>3. pictures \in Seq(PicturePacket) /\ sounds \in Seq(SoundPacket)
  BY DEF IInv, Histories
<1>4. ASSUME NEW packets, \A i \in DOMAIN packets : packets[i].ts \in Nat,
             NEW n \in Nat, DOMAIN packets = 1 .. n
      PROVE  Packets(packets) \in Seq(TrackFrame)
  <2>1. \A i \in 1 .. n : [time |-> packets[i].ts, whole |-> Whole(packets[i])] \in TrackFrame
    BY <1>1, <1>4 DEF TrackFrame
  <2>2. Packets(packets) = [i \in 1 .. n |->
                              [time |-> packets[i].ts, whole |-> Whole(packets[i])]]
    BY <1>4, Zenon DEF Packets
  <2>3. Packets(packets) \in [1 .. n -> TrackFrame]
    BY <2>1, <2>2
  <2>. QED BY <2>3
<1>5. \A i \in DOMAIN pictures : pictures[i].ts \in Nat
  <2> SUFFICES ASSUME NEW i \in DOMAIN pictures PROVE pictures[i].ts \in Nat
    OBVIOUS
  <2>1. pictures[i] \in PicturePacket
    BY <1>3
  <2>. QED BY <2>1 DEF PicturePacket
<1>6. \A i \in DOMAIN sounds : sounds[i].ts \in Nat
  <2> SUFFICES ASSUME NEW i \in DOMAIN sounds PROVE sounds[i].ts \in Nat
    OBVIOUS
  <2>1. sounds[i] \in SoundPacket
    BY <1>3
  <2>. QED BY <2>1 DEF SoundPacket
<1>7. /\ Len(pictures) \in Nat /\ DOMAIN pictures = 1 .. Len(pictures)
      /\ Len(sounds) \in Nat /\ DOMAIN sounds = 1 .. Len(sounds)
  BY <1>3
<1>8. Packets(pictures) \in Seq(TrackFrame)
  BY <1>4, <1>5, <1>7, Zenon
<1>9. Packets(sounds) \in Seq(TrackFrame)
  BY <1>4, <1>6, <1>7, Zenon
<1>. QED BY <1>1, <1>2, <1>8, <1>9

(* The frames are in the order of time from a step of the track to the     *)
(* next, whatever the recorder does.                                       *)
LEMMA PicturesGoUpStep ==
  ASSUME IInv, IInv', P!TimesGoUp, [P!Next]_(P!vars)
  PROVE  P!TimesGoUp'
<1> DEFINE frames == Packets(pictures)
           held == video.ts
           stage == Stage(m_pVideoStream)
           ok(s, f, h) == /\ \A i, j \in DOMAIN f : i < j => f[i].time < f[j].time
                          /\ s # "over" => \A i \in DOMAIN f : f[i].time < h
<1>1. frames \in Seq(TrackFrame) /\ held \in Nat /\ held' \in Nat /\ Whole(video) \in BOOLEAN
  BY TrackFrames DEF IInv, Buffers, Buffer
<1>2. ok(stage, frames, held)
  BY DEF P!TimesGoUp
<1>3. ok(stage', frames', held') => P!TimesGoUp'
  BY DEF P!TimesGoUp
<1>4. /\ P!Begin => stage = "before" /\ held' = held /\ frames' = frames
      /\ P!Spoil => stage' = stage /\ held' = held /\ frames' = frames
      /\ P!End => stage' = "over" /\ frames' = frames
      /\ UNCHANGED P!vars => stage' = stage /\ held' = held /\ frames' = frames
      /\ P!Take => /\ stage # "over" /\ held < held'
                   /\ \/ frames' = frames
                      \/ frames' = Append(frames, [time |-> held, whole |-> Whole(video)])
  BY DEF P!Begin, P!Spoil, P!End, P!Take, P!vars
<1>. HIDE DEF frames, held, stage
<1>5. CASE P!Take
  <2>1. GoUpBelow(frames, held)
    BY <1>2, <1>4, <1>5 DEF GoUpBelow
  <2>2. GoUpBelow(frames', held')
    BY <1>1, <1>4, <1>5, <2>1, FrameOnTop, FrameBelowNewer
  <2>. QED BY <1>3, <2>2 DEF GoUpBelow
<1>6. CASE P!Begin \/ P!Spoil \/ P!End \/ UNCHANGED P!vars
  BY <1>2, <1>3, <1>4, <1>6
<1>. QED BY <1>5, <1>6 DEF P!Next

LEMMA SoundsGoUpStep ==
  ASSUME IInv, IInv', S!TimesGoUp, [S!Next]_(S!vars)
  PROVE  S!TimesGoUp'
<1> DEFINE frames == Packets(sounds)
           held == audio.ts
           stage == Stage(m_pAudioStream)
           ok(s, f, h) == /\ \A i, j \in DOMAIN f : i < j => f[i].time < f[j].time
                          /\ s # "over" => \A i \in DOMAIN f : f[i].time < h
<1>1. frames \in Seq(TrackFrame) /\ held \in Nat /\ held' \in Nat /\ Whole(audio) \in BOOLEAN
  BY TrackFrames DEF IInv, Buffers, Buffer
<1>2. ok(stage, frames, held)
  BY DEF S!TimesGoUp
<1>3. ok(stage', frames', held') => S!TimesGoUp'
  BY DEF S!TimesGoUp
<1>4. /\ S!Begin => stage = "before" /\ held' = held /\ frames' = frames
      /\ S!Spoil => stage' = stage /\ held' = held /\ frames' = frames
      /\ S!End => stage' = "over" /\ frames' = frames
      /\ UNCHANGED S!vars => stage' = stage /\ held' = held /\ frames' = frames
      /\ S!Take => /\ stage # "over" /\ held < held'
                   /\ \/ frames' = frames
                      \/ frames' = Append(frames, [time |-> held, whole |-> Whole(audio)])
  BY DEF S!Begin, S!Spoil, S!End, S!Take, S!vars
<1>. HIDE DEF frames, held, stage
<1>5. CASE S!Take
  <2>1. GoUpBelow(frames, held)
    BY <1>2, <1>4, <1>5 DEF GoUpBelow
  <2>2. GoUpBelow(frames', held')
    BY <1>1, <1>4, <1>5, <2>1, FrameOnTop, FrameBelowNewer
  <2>. QED BY <1>3, <2>2 DEF GoUpBelow
<1>6. CASE S!Begin \/ S!Spoil \/ S!End \/ UNCHANGED S!vars
  BY <1>2, <1>3, <1>4, <1>6
<1>. QED BY <1>5, <1>6 DEF S!Next

(* The pictures in the file, and the sounds, are in the order in which     *)
(* they were recorded, whatever the order in which they came, and the      *)
(* frame held back is newer than all of them.                              *)
THEOREM RecordedOrder == Spec => [](P!TimesGoUp /\ S!TimesGoUp)
<1>1. Init => P!TimesGoUp /\ S!TimesGoUp
  <2>1. Init => pictures = <<>> /\ sounds = <<>>
    BY DEF Init
  <2>2. Init => Packets(pictures) = <<>> /\ Packets(sounds) = <<>>
    BY <2>1, PacketsOfNone, Zenon
  <2>. QED BY <2>2 DEF P!TimesGoUp, S!TimesGoUp
<1>2. /\ IInv /\ IInv' /\ P!TimesGoUp /\ [P!Next]_(P!vars) => P!TimesGoUp'
      /\ IInv /\ IInv' /\ S!TimesGoUp /\ [S!Next]_(S!vars) => S!TimesGoUp'
  BY PicturesGoUpStep, SoundsGoUpStep
<1>. QED BY <1>1, <1>2, InvAlways, PicturesStep, SoundsStep, PTL DEF Spec
=============================================================================
