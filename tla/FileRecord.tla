----------------------------- MODULE FileRecord -----------------------------
(***************************************************************************)
(* The recorder CAVFileRecord (FFmpegrecord/AVFileRecord.cpp): how the     *)
(* pictures and the sound it is given become the packets of one MP4 file.  *)
(* Each kind has one frame held back in a buffer; a newer frame pushes it  *)
(* into the file.  The first two pictures give the frame rate that the     *)
(* header needs.  Times are milliseconds.                                  *)
(*                                                                         *)
(* Pictures come on one thread and sound on another.  WriteVideo marks the *)
(* stream as started before it takes the critical section, so it is two    *)
(* steps; the bodies under the lock are one step each, except that the     *)
(* fill frames are a step each, with the lock held.  Close comes when no   *)
(* WriteVideo is under way: its callers use it as a Recording, as          *)
(* RecordStream!OneIsARecording states.                                    *)
(* Memory is taken to be available: a malloc that fails is left out.       *)
(***************************************************************************)
EXTENDS Integers, Sequences

CONSTANTS
  Times,    \* the times of the frames that are received
  Pictures, \* the sizes of pictures
  Sounds,   \* the sizes of sound frames
  NULL, Lost

ASSUME TimesAssumption == Times \subseteq Nat
ASSUME SizesAssumption == Pictures \subseteq Nat /\ Sounds \subseteq Nat

Second == 1000
MAX_AV_SPACETIME == 100
Slack == 512        \* how much larger than a picture its buffer is made
FillLen == 6        \* the size of g_ucAudioFillInFrame
FillStep == 970     \* 22 * 44.1, cut to an integer
Fills == MAX_AV_SPACETIME \div 20

Picture == [ts : Times, len : Pictures, key : BOOLEAN]
Sound == [ts : Nat, len : Nat]

ASSUME NULLAssumption ==
  NULL \notin Picture \cup Sound /\ Lost \notin Picture \cup Sound /\ NULL # Lost

VARIABLES
  file,           \* "new", "open", "closed": m_pFormatCtx and m_pMP4Stream
  m_bStartStream,
  m_bInitHeader,
  header,         \* history: avformat_write_header has "written" it or is "endless"
  m_pVideoStream, m_pAudioStream,
  video, audio,   \* the buffers: what is in them, their size, its length and time
  nKeyFrame,
  ulVideoFilstTimestamp,
  m_nVidoeTime, m_nAudioTime,
  call,           \* the picture of a WriteVideo under way, or NULL
  fill,           \* fill frames it has yet to write, with the lock held
  pictures, sounds \* history: packets given to av_interleaved_write_frame

streams == <<m_bInitHeader, header, m_pVideoStream, m_pAudioStream>>
videoVars == <<video, nKeyFrame, ulVideoFilstTimestamp, m_nVidoeTime, pictures>>
audioVars == <<audio, m_nAudioTime, sounds>>
vars == <<file, m_bStartStream, m_bInitHeader, header, m_pVideoStream, m_pAudioStream,
          video, audio, nKeyFrame, ulVideoFilstTimestamp, m_nVidoeTime, m_nAudioTime,
          call, fill, pictures, sounds>>

Empty == [data |-> NULL, bufLen |-> 0, len |-> 0, ts |-> 0]

Init ==
  /\ file = "new"
  /\ m_bStartStream = FALSE /\ m_bInitHeader = FALSE
  /\ header = "none"
  /\ m_pVideoStream = FALSE /\ m_pAudioStream = FALSE
  /\ video = Empty /\ audio = Empty
  /\ nKeyFrame = TRUE
  /\ ulVideoFilstTimestamp = 0
  /\ m_nVidoeTime = 0 /\ m_nAudioTime = 0
  /\ call = NULL /\ fill = 0
  /\ pictures = <<>> /\ sounds = <<>>

-----------------------------------------------------------------------------
(* The buffers.                                                            *)

(* A frame pushes out the one held back if it is newer.                    *)
Newer(b, f) == b.ts > 0 /\ b.data # NULL /\ f.ts > b.ts

\* Mutant: a frame that is not newer is copied as well.
Keep_Late(b, f, slack) ==
  LET room == IF b.data = NULL \/ b.bufLen < f.len + slack
              THEN [b EXCEPT !.bufLen = f.len + slack, !.data = Lost]
              ELSE b
  IN [room EXCEPT !.data = f, !.len = f.len, !.ts = f.ts]

\* Mutant: only a newer frame makes the buffer larger, and after it is copied.
Keep_GrowAfter(b, f, slack) ==
  IF b.data = NULL
  THEN [b EXCEPT !.bufLen = f.len + slack, !.data = f, !.len = f.len, !.ts = f.ts]
  ELSE IF f.ts > b.ts THEN [b EXCEPT !.data = f, !.len = f.len, !.ts = f.ts] ELSE b

(* The buffer after a frame: it is freed and made anew when it is too      *)
(* small, for a late frame too, which is then not copied into it.          *)
Keep(b, f, slack) ==
  LET room == IF b.data = NULL \/ b.bufLen < f.len + slack
              THEN [b EXCEPT !.bufLen = f.len + slack, !.data = Lost]
              ELSE b
  IN IF f.ts > b.ts THEN [room EXCEPT !.data = f, !.len = f.len, !.ts = f.ts] ELSE room

-----------------------------------------------------------------------------
(* Open.  When it fails nothing has changed.                               *)
Open ==
  /\ file = "new"
  /\ file' = "open"
  /\ UNCHANGED <<m_bStartStream, streams, videoVars, audioVars, call, fill>>

(* The part of WriteVideo before the lock.                                 *)
CallWriteVideo(f) ==
  /\ file = "open" /\ call = NULL
  /\ m_bStartStream' = (m_bStartStream \/ f.key)
  /\ m_bStartStream'
  /\ call' = f
  /\ UNCHANGED <<file, streams, videoVars, audioVars, fill>>

First(f) == IF ulVideoFilstTimestamp = 0 THEN f.ts ELSE ulVideoFilstTimestamp

\* Mutant: the header does not wait for a key frame.
Begins_AnyFrame(f) == Newer(video, f) /\ First(f) = video.ts

(* The picture held back is a key frame and the first of the stream.       *)
Begins(f) == Newer(video, f) /\ First(f) = video.ts /\ nKeyFrame

(* WriteHeader: what it leaves in m_pVideoStream, m_pAudioStream and in    *)
(* the file.  add_video_stream or avformat_write_header may fail, or       *)
(* add_audio_stream.  With a frame rate of 0 avformat_write_header does    *)
(* not come back (movenc.c doubles a time scale of 0 until it is large).   *)
WriteHeader(rate) ==
  {<<FALSE, FALSE, "none">>, <<TRUE, FALSE, "none">>,
   <<TRUE, TRUE, IF rate = 0 THEN "endless" ELSE "written">>}

Header(f) ==
  IF Begins(f) /\ ~m_bInitHeader
  THEN /\ m_bInitHeader' = TRUE
       /\ \E h \in WriteHeader(Second \div (f.ts - video.ts)) :
            m_pVideoStream' = h[1] /\ m_pAudioStream' = h[2] /\ header' = h[3]
  ELSE UNCHANGED streams

(* Recording and playing time of the picture held back, which               *)
(* WriteVideoData puts into the file.                                      *)
WriteVideoData ==
  /\ m_nVidoeTime' = IF m_nVidoeTime = 0 THEN video.ts ELSE m_nVidoeTime
  /\ pictures' = Append(pictures,
       [data |-> video.data, ts |-> video.ts, key |-> nKeyFrame,
        pts |-> IF m_nVidoeTime = 0 THEN 0 ELSE video.ts - m_nVidoeTime])

(* The sound lags behind the pictures, and the gap is filled.              *)
TooFarApart ==
  /\ audio.ts > 0 /\ video.ts > audio.ts
  /\ video.ts - audio.ts > MAX_AV_SPACETIME

(* The part of WriteVideo under the lock.  The fill frames come after the  *)
(* picture is kept here, and before it in the code: they do not meet.      *)
WriteVideo ==
  /\ call # NULL /\ fill = 0 /\ header # "endless"
  /\ Header(call)
  /\ IF header' = "endless"
     THEN UNCHANGED <<videoVars, call, fill>>
     ELSE /\ IF Newer(video, call) /\ m_pVideoStream'
             THEN WriteVideoData
             ELSE UNCHANGED <<m_nVidoeTime, pictures>>
          /\ video' = Keep(video, call, Slack)
          /\ nKeyFrame' = IF call.ts > video.ts THEN call.key ELSE nKeyFrame
          /\ ulVideoFilstTimestamp' =
               IF Newer(video, call) /\ ~Begins(call) THEN call.ts ELSE First(call)
          /\ IF Newer(video, call) /\ TooFarApart
             THEN fill' = Fills /\ UNCHANGED call
             ELSE call' = NULL /\ UNCHANGED fill
  /\ UNCHANGED <<file, m_bStartStream, audioVars>>

\* Mutant: later sounds are timed from the first sound.
SoundTime_OwnClock == audio.ts - m_nAudioTime

(* Where the sound held back is played: the first in the file at 0, later  *)
(* ones as long after the first picture as they were recorded.             *)
SoundTime == IF m_nAudioTime = 0 THEN 0 ELSE audio.ts - m_nVidoeTime

\* Mutant: sound is written before there is a header.
SoundGoesOut_NoHeader(f) == Newer(audio, f)

SoundGoesOut(f) == Newer(audio, f) /\ m_pAudioStream

(* WriteAudio under the lock, with WriteAudioData on the sound held back.  *)
SoundIn(f) ==
  /\ IF SoundGoesOut(f)
     THEN /\ m_nAudioTime' = IF m_nAudioTime = 0 THEN audio.ts ELSE m_nAudioTime
          /\ sounds' = Append(sounds, [data |-> audio.data, ts |-> audio.ts,
                                       pts |-> SoundTime])
     ELSE UNCHANGED <<m_nAudioTime, sounds>>
  /\ audio' = Keep(audio, f, 0)

\* Mutant: the loop writes one fill frame too many.
FillSound_OneMore ==
  /\ call # NULL /\ fill >= 0
  /\ SoundIn([ts |-> audio.ts + FillStep, len |-> FillLen])
  /\ fill' = fill - 1
  /\ call' = IF fill = 0 THEN NULL ELSE call
  /\ UNCHANGED <<file, m_bStartStream, streams, videoVars>>

FillSound ==
  /\ fill > 0
  /\ SoundIn([ts |-> audio.ts + FillStep, len |-> FillLen])
  /\ fill' = fill - 1
  /\ call' = IF fill = 1 THEN NULL ELSE call
  /\ UNCHANGED <<file, m_bStartStream, streams, videoVars>>

WriteAudio(f) ==
  /\ file = "open" /\ fill = 0 /\ header # "endless"
  /\ m_bStartStream
  /\ SoundIn(f)
  /\ UNCHANGED <<file, m_bStartStream, streams, videoVars, call, fill>>

(* Close: the trailer is written and all memory is given back; the frames  *)
(* held back are not written.                                              *)
Close ==
  /\ file = "open" /\ call = NULL
  /\ file' = "closed"
  /\ m_bStartStream' = FALSE /\ m_bInitHeader' = FALSE
  /\ m_pVideoStream' = FALSE /\ m_pAudioStream' = FALSE
  /\ m_nVidoeTime' = 0 /\ m_nAudioTime' = 0
  /\ video' = Empty /\ audio' = Empty
  /\ nKeyFrame' = TRUE /\ ulVideoFilstTimestamp' = 0
  /\ UNCHANGED <<header, call, fill, pictures, sounds>>

Next ==
  \/ Open \/ Close \/ WriteVideo \/ FillSound
  \/ \E f \in Picture : CallWriteVideo(f)
  \/ \E t \in Times, n \in Sounds : WriteAudio([ts |-> t, len |-> n])

Spec == Init /\ [][Next]_vars

-----------------------------------------------------------------------------
Buffer(Frames) ==
  [data : Frames \cup {NULL, Lost}, bufLen : Nat, len : Nat, ts : Nat]

TypeOK ==
  /\ file \in {"new", "open", "closed"}
  /\ m_bStartStream \in BOOLEAN /\ m_bInitHeader \in BOOLEAN
  /\ header \in {"none", "written", "endless"}
  /\ m_pVideoStream \in BOOLEAN /\ m_pAudioStream \in BOOLEAN
  /\ video \in Buffer(Picture) /\ audio \in Buffer(Sound)
  /\ nKeyFrame \in BOOLEAN
  /\ ulVideoFilstTimestamp \in Nat
  /\ m_nVidoeTime \in Nat /\ m_nAudioTime \in Nat
  /\ call \in Picture \cup {NULL}
  /\ fill \in 0 .. Fills
  /\ pictures \in Seq([data : Picture \cup {NULL, Lost}, ts : Nat, key : BOOLEAN, pts : Int])
  /\ sounds \in Seq([data : Sound \cup {NULL, Lost}, ts : Nat, pts : Int])

(* The lengths that memcpy and WriteVideoData use never exceed the buffer  *)
(* allocated for the frame held back, and when the buffer holds a frame    *)
(* its time and length are that frame's.                                   *)
Holds(b, slack) ==
  /\ b.data # NULL => b.len + slack <= b.bufLen
  /\ b.data \notin {NULL, Lost} => b.data.ts = b.ts /\ b.data.len = b.len

BufferHoldsFrame == Holds(video, Slack) /\ Holds(audio, 0)

(* Nothing is in the file before a picture that was marked as a key frame  *)
(* and is played at time 0.                                                *)
FileBeginsWithKeyFrame ==
  /\ sounds # <<>> => pictures # <<>> /\ header = "written"
  /\ pictures # <<>> => pictures[1].key /\ pictures[1].pts = 0

(* After its first, every sound in the file is played as long after the    *)
(* first picture as it was recorded.                                       *)
SoundOnPictureClock ==
  \A i \in 2 .. Len(sounds) : sounds[i].pts = sounds[i].ts - pictures[1].ts

Whole(b) == b.data \notin {NULL, Lost} /\ b.data.ts = b.ts

Stage(stream) ==
  IF file = "closed" THEN "over" ELSE IF stream THEN "recording" ELSE "before"

Packets(packets) ==
  [i \in DOMAIN packets |-> [time |-> packets[i].ts, whole |-> Whole(packets[i])]]

P == INSTANCE Track WITH stage <- Stage(m_pVideoStream), held <- video.ts,
                         whole <- Whole(video), file <- Packets(pictures)

S == INSTANCE Track WITH stage <- Stage(m_pAudioStream), held <- audio.ts,
                         whole <- Whole(audio), file <- Packets(sounds)

(* Every picture received since the recording began is in the file once,   *)
(* in the order of time, when a newer one has come; only the newest is     *)
(* missing.                                                                *)
PicturesAreATrack == P!Spec

(* The same for the sound, whether received or filled in.                  *)
SoundsAreATrack == S!Spec

(* The sounds given to av_interleaved_write_frame go up in time.           *)
SoundsGoUp ==
  \A i, j \in DOMAIN sounds : i < j => sounds[i].pts < sounds[j].pts
=============================================================================
