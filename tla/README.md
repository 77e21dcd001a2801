# A specification of wcm

wcm is a collection of C++ programs, most of them for Windows. Some have a core of their own
that is hard to test: an HTTP server on asio and the thread wrapper it runs on, the
single-threaded server it came from, a recorder that writes a live stream to an MP4 file, and a
WebSocket server and client. This directory holds TLA+ modules of these, the TLC configurations
that check them on small instances, and proofs, checked with TLAPS, of invariants for every
value of the constants.

`PROJECT.json` says for every definition which lines of the source it translates, and lists the
runs, the mutants that show each property can fail, the hazards and the theorems.

## 1. Inventory

Paths are below `src/C++`. Most of the tree is third-party code (boost, asio, websocketpp,
rapidjson, curl, ffmpeg); it is modelled only by what the code here relies on.

### HTTP server (`AsioHttp/HttpServer`)

| part | state | operations | interacts with |
|---|---|---|---|
| `connection` | one `buffer_`, the parser's state, `m_bKeepAlive`, `m_bKeepRead`, `m_nBodyLen`, `m_strData`, `reply_` | `start`, `handle_read`, `handle_write`, `AsyncReply` | the socket, through completion handlers that hold the only `shared_ptr`s to it; `chttpserver::HandleHttpReq`, a callback on the same thread |
| `server`, `io_context_pool` | an acceptor, ten io_contexts, a thread each | constructor (listens), `run`, `stop`, `handle_accept`, SIGINT | connections are dealt round robin to the io_contexts |
| `chttpserver` | `m_pserver`, the registered paths | `StartHttpServer`, `StopHttpServer`, `ThreadProcMain`, `AsyncReply` | is a `KThread`; reads and deletes `m_pserver` on the application's thread, makes it on its own |
| `KThread` | a thread handle, an event (Windows) or a semaphore and a flag (POSIX) | `StartThread`, `WaitForStop`, `ThreadProc` | derived classes override `ThreadProcMain` |

What is hard here: a request is cut into segments anywhere, and the code counts lengths in
segments; a connection lives only through the handlers outstanding on it; replies are written
from a member while the next request is read; the application stops a server that another
thread may be about to create, run or use; the event that says a thread has ended is reset
after the thread has been let run.

What makes it correct: one read at a time on the one buffer; the body given to the callback is
the body that was sent; a request that is complete is answered; a connection is released, once,
after its reply; `WaitForStop` returns when and only when `ThreadProcMain` is over; nothing of
the server runs when `StopHttpServer` has returned.

### Stream recorder (`FFmpegrecord`)

| part | state | operations | interacts with |
|---|---|---|---|
| dialog (`MFCtest/MFCtestDlg.cpp`) | its recorder and stream | two buttons: start, stop | `CNetStream`, on the dialog's thread |
| `CNetStream` (`MFCtest/NetStream.cpp`) | `m_bGetStream`, `m_precord`, `m_bVideoStop`, `m_bAudioStop`, none of them under a lock | `SetReadStreamNotify`, the two callbacks | the receiving library calls it back on a video thread and an audio thread; it calls the recorder |
| `CAVFileRecord` (`FFmpegrecord/AVFileRecord.cpp`) | the output format, one buffered frame of each kind, timestamps, one critical section | `Open`, `WriteVideo`, `WriteAudio`, `Close` | ffmpeg's muxer |

What is hard: the stop button only clears a flag, and the two callbacks agree through two more
flags on who closes the file; `WriteVideo` tests and sets members before it takes the lock;
the file's timestamps come from frames held back by one, that may be late or far apart.

What makes it correct: nothing is written to a file while it is closed or afterwards, a stopped
recording is closed; the file begins with a key frame, and has every newer frame, once and in
order.

### WebSocket programs (`httpwebsocket`)

| part | state | operations | interacts with |
|---|---|---|---|
| server (`WebSocketServer.cpp`) | `g_maphdl`, the table of connections, under `m_action_lock` | `startserver`, `sendmsgtoweb`; the handlers `on_open`, `on_close`, `on_message` | main sends each line it reads to every connection; websocketpp calls the handlers on the network thread |
| client (`WebSocketClient.cpp`) | the status and the list of messages, under no lock | `connect`, `send`, `show`, `close`, the destructor; `on_open`, `on_fail`, `on_close`, `on_message` | main uses what the endpoint's thread writes, and at the end waits for that thread |

What is hard here: the lock guards the table but not the connections in it, which end on the
other thread; what the library throws is not what is caught; quitting depends on a status that
another thread is about to change.

What makes it correct: the loop meets no connection that has been freed (but one, see
WebSocketServer below), whoever is open gets every message, closed ones are forgotten; what is
shown as sent was sent; quitting ends.

### Single-threaded HTTP server (`AsioHttp/AsioHttp`)

`connection_manager` keeps the set of connections, each with one operation outstanding; a signal
closes the acceptor and all of them. What is hard: handlers that were queued before the signal's
and run after it. What makes it correct: the set is the open connections, none is left that waits
for nothing, none is started after the stop, and `run()` returns.

### Other programs

* `AsioHttp/httpDemo`: the application of the server. Its callback starts a task (a thread, like
  `KThread`) from its stack and replies through `AsyncReply`.
* `AsioHttp/httpserver3`: an earlier state of `HttpServer`.
* `sip/src`: a server and a client that loop over the events of eXosip.
* `AIServerTestDemo`, `AnalysisMP4File`, `Usingffmpeg`, `AsioHttp/httpclient`: sequential
  programs around a library.
* `CommandMode`, `ObeserverMode`, `SingleClass`, `TestTemplate`, `Findwindow`, `GetAllWin`,
  `SystemSet`, `ParamTest`, `TestReadFile`, `stdinstdoutTest`, `bmp2H264`, `test`, `testPE`:
  exercises, each of one thread and a screenful.

`PROJECT.json` lists each of them with the reason it is not modelled.

## 2. Modules

    HttpConnection <-- MCHttpConnection            one connection, its TLC instance
    HttpConnection, HttpSingle ==> Exchange        what a client without keep-alive is promised
    KThread <== HttpServer                         the server is a KThread (INSTANCE)
    RecordStream                                   dialog, callbacks, recorder's lock
    RecordStream ==> Recording                     how a recorder may be used
    FileRecord ==> Track                           the recorder's file; what a track promises
    WebSocketServer, WebSocketClient, HttpSingle   one program each
    HttpConnectionProofs, RecordStreamProofs, KThreadProofs <== HttpServerProofs
    FileRecordProofs, HttpSingleProofs, WebSocketServerProofs, WebSocketClientProofs

### HttpConnection

An action is one whole handler, because all handlers of a connection run on the one thread of
its io_context. The client is a constant of the behaviour: one request, or two pipelined ones,
as lengths of header and body and the flags the code looks at. Bytes are numbered units and
`got` counts those delivered; each `HandleRead` takes the next `n` of them, for any `n` up to
the buffer's size, so every way of cutting the stream into segments happens.

`KeepReading` and `FinishBody` are the two ends of the `m_bKeepRead` branch. `AwaitBody`,
`ServeRequest`, `RejectRequest` and `ReadMoreHeader` are the branches after the parser, each
with the `if (m_bKeepAlive) start()` that follows them. `reads` and `writes` are the operations
outstanding; the object is alive while there is one (`Referenced`). A write remembers which
assignment of `reply_` its buffers were taken from, and what `m_bKeepAlive` was. The parser is its verdict: a header that
goes on, is complete, or is invalid; it is never reset, so after a complete request its state is
`expecting_newline_3` and the next segment is judged by its first byte. `request_` is the headers the
flags are computed from after every verdict; it is never cleared either, and the parser in
`expecting_newline_3` adds nothing to it (`RequestAfter`), so each later segment finds the first
request's `Connection` and `Content-Length` again. `m_nBodyLen` starts with
any value of `RawBodyLen`, because the constructor leaves it uninitialised. `Serve` is the
callback and the reply; where `CallbackReplies` is true the callback may call `AsyncReply`, whose
second owner deletes the connection.

Left out: the text of replies and headers; bodies that contain a zero byte, which the code
reads as C strings; a segment that fills the 8192 bytes of `buffer_`, whose terminating zero
would fall outside (`BufSize` is the size less one); the point inside an invalid header at which the
parser gives up (the model gives up at its end).

### Exchange and Recording

Two abstract specifications of a few lines. `Exchange` is what a client that does not ask for
keep-alive is promised by either server: a request is read, at most one reply is written, nothing is
read once the reply has begun, what is over has been closed and is never used again. `HttpConnection`
maps its outstanding reads and writes to it (`Phase`, and `Referenced`, `shut`, `freed` for the open
socket), `HttpSingle` the operation and the socket of each connection.

`Recording` is how a recorder may be used: started, told to stop, packets of each kind one at a
time, closed after the stop when none is being written, and nothing afterwards. `RecordStream` maps
the session, the stop button and the `Close` calls to its stage (`RecordingStage`) and the threads
inside `WriteVideo` and `WriteAudio` to `writing` (`Writing`).

### KThread

Both builds in one module, `WIN32` says which. The owner's calls are a program counter,
`owner`, and each child that was created is a number with its own place in `ThreadProc`. On
Windows `StartThread` is `CreateThread` or `KeepThread` (the handle is still there) and then
`ResetEvent`; on POSIX `PthreadCreate` and then `StartSemWait`. `WaitForStop` is `WaitEvent`
and `WaitHandle`, or `WaitSem` and `Join`. A creation that fails changes nothing and is not a step.

### HttpServer

`T == INSTANCE KThread WITH WIN32 <- TRUE` is the server's thread: `StartHttpServer` is
`T!StartThread`, the end of `ThreadProcMain` is `T!MainReturns`, `StopHttpServer` ends in
`T!CallWaitForStop`. Around it, `stop` is the place in `StopHttpServer` and `main` the place of
each thread in `ThreadProcMain`: construct (which may throw), check `m_pserver`, run, join the
pool. The ten threads of the pool are abstracted to `busy`: whether some of them
is in a handler of the server, which is what joining them waits for. `m_pserver` is
nothing or garbage at first, because the constructor leaves it uninitialised; a call through
garbage, through nothing, or on a deleted server sets `crashed`, where undefined behaviour may
or may not do so; nothing happens after that.

### RecordStream

No member of `CNetStream` is under a lock, so each read or write of one is a step: a callback
reads `m_bGetStream`, then `m_precord`, then `m_precord` again for the call; or sets its stop
flag, reads both flags, reads `m_precord`, reads it again for `Close`, clears it. The steps of
the start button come one assignment at a time too. Of the recorder there are the check of `m_pMP4Stream` and of
`m_bStartStream` before the lock, the lock, the locked bodies and `Close`. A NULL that is
followed sets `crashed`. Plain `bool`s and pointers are taken to be sequentially consistent.
Not modelled: the dialog's OK button, which deletes everything at the end of the process, and
the destructor it calls; what the locked bodies compute, which is FileRecord.

### FileRecord and Track

One recording, from `Open` to `Close`. A frame is its time, its length and whether it is a key
frame; a buffer (`video`, `audio`) is what is in it, how much was allocated, and the length and
time the code keeps beside it. What is in it can be `Lost`: `Keep` frees the buffer for a larger
frame before it looks whether that frame is newer. `CallWriteVideo` is the part of `WriteVideo`
before the lock, `WriteVideo` the part under it, with `WriteHeader` (which fails, or succeeds, or
with a frame rate of 0 never returns, because the muxer doubles a time scale of 0 until it is
large) and `WriteVideoData`. The fill frames are steps of their own, with the lock held;
they come after the picture is kept where the code writes them before, and touch
only the sound. `pictures` and `sounds` are the packets given to the muxer.
What it takes for granted of its callers, one packet of each kind at a time and `Close` when no
write is under way, is `Recording`, which `RecordStream` implements while there is one recording.

`Track` is the promise: a frame is held back, a newer one pushes it into the file, one that is not
newer is dropped and at worst spoils the content of the frame held back. `P` and `S` map the
pictures and the sound of `FileRecord` to it.

Left out: a `malloc` that fails; the width and height; conversion of milliseconds to the muxer's
time base; 32-bit wrap of the timestamps (a recording of 49 days).

### WebSocketServer

`main` is the main thread's place in its loop, `network` the thread in `run()`, `conn` the state of
each connection in the library and `opening` the one that is open but whose `on_open` is still to
run, during which the network thread does nothing else. `sendmsgtoweb` takes the lock and copies
nothing: `todo` is the rest of the table, which cannot change while the lock is held (`Locked`).
`Visit` is `get_con_from_hdl` with the test of the state, `Send` the send, which tests again; a failure
there, or a handle that has expired, throws what line 161 does not catch, and `main` is `crashed`. A second
"stop-listening" throws through the read handler that holds its connection. The network thread ends, and the
connection is freed without `on_close`, unless main holds it for a send or a message to it is still being
written. Its handle stays in the table (`Stale`), and the next message finds it expired and ends
the program. Every other connection stays as it was, in the table for good.

### WebSocketClient

`main` is where the main thread is; `conn` has the places where a handler is still to run apart
("opened", "closed", "failed"), because the status is behind the connection there. `close` and the
destructor each ask for the status and close (`CloseIfOpen`); `join` waits for `RunReturns`.
`on_message` during a `push_back` of the main thread may lose either message or crash, and may
crash during `show`; nothing happens after that.

### HttpSingle

Each connection has at most one operation, with its result once its handler is queued. `StopAll`
closes sockets: what waits is aborted, what is queued keeps its result, and `Begin` on a closed
socket fails at once. A handler is one step. The signal may come at any time.

## 3. Runs

| run | question | bounds |
|---|---|---|
| `http_connection` | reads never overlap, a cleanly cut request reaches the callback intact and is answered, the socket is not shut under a read, every reply ends under the keep-alive flag it began with, a connection without keep-alive implements `Exchange` and is released | 80 clients: headers of 2 units, bodies of 0, 1 or 3, a second request (with or without keep-alive) or none; segments up to 6 units |
| `http_second_owner` | violated: a connection is destroyed when its references are gone (`connection.cpp`) | same, the callback replies |
| `kthread_windows` | one `ThreadProcMain` at a time; `WaitForStop` waits; it returns when it found the thread running | 6 threads |
| `kthread_posix` | the last two, with overlapping threads; the semaphore never counts above two | 4 threads |
| `http_server` | nothing runs when `StopHttpServer` returns; a server found running is brought down | 3 threads |
| `record_stream` | no write during or after `Close`, the bodies find their stream, the locked bodies exclude each other, the recorder is used as a `Recording`, it is closed twice at most (once for each callback), a stopped recording is closed | one recording |
| `file_record` | buffers hold what they say, the file begins with a key frame at 0, sound is on the pictures' clock, both tracks implement `Track` | frames at 0, 40, 200, 1200 ms, two sizes of each kind |
| `file_sound_times` | violated: times of the packets of a stream go up (`avformat.h`) | same |
| `websocket_server` | the loop meets no freed connection but the one whose message ended the network thread, an open one misses nothing, a closed one is forgotten | 2 connections, 3 messages |
| `websocket_send_failure` | violated: a message that cannot be sent is reported (`WebSocketServer.cpp`) | same |
| `websocket_client` | only what was sent is listed as sent; quitting ends | 3 messages sent, 6 shown |
| `http_single` | the set is the open connections, nothing is left or started after the stop, `run()` returns | 3 connections |

**Why the bounds are enough.** A body of 3 units is longer than a header of 2, so the test
`m_nBodyLen > bytes_transferred` goes both ways for a header that ends its segment, and a body
of 1 is shorter; with 6 units a segment holds any first request whole, and bytes of the next
after it. `RawBodyLen` has a negative length, zero, and lengths that do and do not fit. A second
request is enough for what a first one leaves behind in the parser, the flags and `reply_`.
For the thread, a second one is created only when the first has been waited for on Windows, and
three show every state the handle and the event can be in; six only repeat them. On POSIX two
threads overlap and four are two cycles of that. For a server three threads are a first start, a
restart, and a restart of that. With one recording each of the two callbacks can run any number
of times. With two, the flags of the second are
cleared while callbacks of the first still test them, and the handshake no longer keeps `Close`
and a write apart: the properties are stated for one (`session <= 1`), all but `ExclusiveSection`.

The four times have a gap of 40 (rate 25), gaps above `MAX_AV_SPACETIME`, one of exactly 1000 (rate 1)
and one above it (rate 0), and 0, which the code takes for "none". Frames come in any order,
so late ones are among them; of two sizes one is larger than the other, and the sizes of sound
are on both sides of a fill frame's. Each kind of frame can be kept three times (one with the time 0 is not newer than
an empty buffer): a first, a buffered and a newer one. In the WebSocket server one connection can end while the loop is at the
other or before it; a third one (checked with one property less) adds nothing but time. A second
`stop-listening` needs one connection. Three connections of the single-threaded server are one
in each operation and one that is queued.

**Clean cuts.** `BodyIntact` and `CompleteRequestIsServed` speak of a request that arrives
whole in one segment, or whose header ends a segment shorter than the body. Those are the two
cases `handle_read` distinguishes. A request cut in another way is explored by every run and is
not promised anything: a body that begins in the segment that ends the header is dropped by `AwaitBody`, and the connection
waits for bytes that were already read.

**Deadlock** is not checked anywhere: a connection ends, an owner need not call again once
`MaxThreads` is reached, a process that has followed a bad pointer or thrown what nobody catches
stops, as do a closed recording and a server whose `run()` has returned.

**Fairness.** A handler that asio owes is run, and the client sends what it has to
send (`HttpConnection`); neither excludes an error. A function that was entered is executed, and
`ThreadProcMain` returns, which `Thread.h` makes the owner's duty (`KThread`); `HttpServer`
replaces that last assumption by the server's own code, where the function returns when the pool
has been stopped and handlers end. A live stream keeps delivering packets on both threads
(`RecordStream`): that is what the code relies on for the file to be closed at all. Nobody is
assumed to press a button, call a function or send a signal. The loop of `sendmsgtoweb` goes on, and a handler that
waits for its lock gets it at last (`WebSocketServer`): the lock is free while main waits for a line, so
`on_close` has strong fairness. A queued handler is run (`HttpSingle`), an operation on an open socket need
not finish. The client's library ends a connection that is being made or closed, by a timer if need be
(`WebSocketClient`); a server need not close one that is open.

**Liveness where the code may hang.** `RunningIsAwaited` is about a `WaitForStop` that finds the
thread still in its function. Without that condition it would not hold: a thread
that returns before `StartThread` resets the event is waited for without end. `StopEndsRunningServer`
has the same kind of condition, and so has to exclude a second server made by a restarted thread.
`QuitEnds` is about a quit that finds the connection up or failed: one that finds it "Connecting" closes nothing, and
if the connection then opens, `join` waits for the server to end it. `TableForgets` excludes a network thread that has
ended, after which nothing leaves the table.
On POSIX the second `StartThread` of an object waits for its thread to end, and the next
`WaitForStop` for a signal already consumed; the run reaches it, and no property denies it.

## 4. Proofs

The assumptions are the ones declared by the modules: a buffer of at least one unit, requests
that have a header, a set of values for uninitialised memory that is not empty, at least one
thread, at least one recording, NULL is not a number, times and sizes of frames are natural numbers,
NULL is no connection and no frame. No bound of a run is among them.

* **HttpConnectionProofs.** `TypeCorrect` first. `ControlInv` then counts: there is one read or none, none
  once the socket is shut, a connection that is not keep-alive stops reading when it replies, what `request_` has collected
  stays as the first complete header left it (`Collected`), and every reply under way was begun with the flag as it is. It gives
  `OneReadAtATime`, `ShutSocketIsNotRead`, `OneExchangeOnly` and `RepliesEndAsBegun`, and, step by step, the refinement
  `WithoutKeepAliveOneExchange`. `OneReadAtATime` needs it: the branch for a
  header that goes on would start two reads if the flag were set before the header is complete,
  which the parser's state excludes. `DataInv` says what `m_strData` holds at each stage of a
  cleanly cut request, as consecutive unit numbers, and gives `BodyIsIntact` and `CompleteIsServed`.
* **KThreadProofs.** `IInv` is the type, the numbering of threads (`Numbered`), what the handle
  and each place of the owner say about the threads before the latest (`HandleInv`), and, for POSIX, that the
  semaphore plus the thread ends it will still get account for what has been taken (`SemInv`).
  The two waits of `WaitForStop` alone are not inductive; with the others they give
  `WaitForStopIsAWait` and, for Windows, `OneThread`.
* **HttpServerProofs.** `ServerThreadIsKThread` is a refinement: every step of the server is a
  step of `KThread` or leaves its variables alone. So `KThread`'s invariant holds of the
  server without a new proof (`P == INSTANCE KThreadProofs`), and with `BusyInv`, a busy pool
  belongs to a thread in its join, `StopWaitsForAll` follows.
* **RecordStreamProofs.** `LockInv`, a thread in a locked body owns that recorder's lock, gives
  `CriticalSection` for any number of recordings. For one recording `Handshake` describes the
  time before it and during it (`Stopped`, `Flags`, `Streams`): a thread whose flag is up is not
  writing, a thread past the test has both flags up, and the stream is there until `Close`.
  From it come `WriteAndCloseApart`, `WriteFindsStream` and `CloseNeedsStop`. `Counted` weighs the closes made
  against those a callback still may make (`MayClose`, `Owed`); with it `NoThirdClose`. With `Targets`, calls
  are on recorders that were made, the steps map to those of `Recording` (`OneRecordingIsARecording`;
  `ProgramWithOneRecording` is the plain refinement for a program that makes one).
* **FileRecordProofs.** `KeepHolds` is about one buffer and one frame of any size: what is in the
  buffer fits in what is allocated. The invariant is made of parts proved on top of
  each other: `Buffers`, `Flags`, `Calls` (the lock of a `WriteVideo` under way), `Started` (a stream is made
  once, with the header), `Histories`, and `Begun`: while the file is open the two clocks are the
  times of its first picture and first sound. Without `Begun` neither the beginning of the file nor
  `SoundOnPictureClock` is inductive. Then `PicturesStep` and `SoundsStep` map every step to a step
  of `Track` or a stutter; `KeepWhole` says when a frame held back is spoilt and
  `PacketsOfMore` that appending and mapping commute. `RecordedOrder`, that the times of the frames in
  the file go up, then follows from the steps of `Track` (`FrameOnTop`, `FrameBelowNewer`).
* **WebSocketServerProofs.** `Loop` and `Table` say that what the loop has yet to visit is in the table
  and that what is in it is alive while the network thread runs, with one exception at most afterwards
  (`Stale`): `on_close` frees a connection only with the lock, and a `stop_listening` that throws frees one and is the last step
  of that thread. `Unsent` (a connection that has
  not been in the table was sent nothing) is what `NothingMissed` needs at `on_open`, and `Counted` keeps
  its sequence from having a negative length.
* **HttpSingleProofs.** `OneAccepted` and `Untouched`: the connection an accept handler is queued
  for is a new one, on which nothing has been aborted. With them the set of connections, the open
  sockets and the outstanding operations agree, and each connection implements `Exchange`
  (`EveryConnectionIsAnExchange`).
* **WebSocketClientProofs.** `ShownMessagesWereSent` rests on how one more entry changes the number of
  those sent (`SentOfMore`); a lost update of the list only takes entries away. `StatusAgrees` and `Life`
  relate the status, which is read without a lock, to the connection.

**Liveness.** What must happen eventually is only model-checked, because the last step of such a proof
needs ENABLED. The rest of the argument is proved, for every value of the constants: what has been
begun is not undone, somebody has a step to take, and each step leaves less to do. What remains
for the fairness of the run is that the step is taken.

| property | proved part |
|---|---|
| `ReleasedAfterReply` | `ReplyIsTheLastStep`: a connection that has answered has one step left, and is released by it |
| `RunningIsAwaited` | `WaitIsNotLost`: the signal is there or to come (`Awaited`), at most five steps are left (`WaitGoesOn`) |
| `StopEndsRunningServer` | `StopBringsServerDown`: from the moment the only server is found (`GoingDown`), the application, its thread or a handler can go on, and what they have left to do falls |
| `StoppedIsClosed` | `StopReachesClose`: the callback that raises the second flag goes on to `Close`; `Unclosed` says that no NULL is followed before |
| `TableForgets` | `LockIsGivenBack`: the loop that holds the lock shrinks, a closed connection waits for `on_close` only. It uses `TableIsComplete`: the connections that live are in the table, and no others until the network thread ends |
| `QuitEnds` | `DestructorClosesConnection`: unless it is being made the connection is closed, stays so, and `join` returns only after its end |
| `StopEnds` | `NothingIsAwaitedAfterStop`, `StopMakesProgress`: only queued handlers are left, at most two for each connection |

Not proved either: what the code breaks (the three runs that expect a violation).

## 5. Plan

The order is by how much of the system depends on a part. Done: the connection, the thread, the
server, the recording handshake; the recorder's file with the abstract
track it implements; the WebSocket server and client; the single-threaded server; the abstract
exchange and recording that the servers and the handshake implement. Each has its proofs.

Next:

* The recording handshake with a second recording: which of its guarantees return once every callback of
  the first has seen the cleared flags.

### Not modelled

* `stopserver` and `DestroyWebSocketServer`, which nothing calls.
* `HttpDemo`: its callback destroys the task whose thread is running, and what follows is not
  defined by the language; `AsyncReply` from such a thread goes with it.
* The SIP programs: what they rely on, eXosip, is not in the tree but for its headers, so the order of events
  would be a guess.
* `RegAPIpath` and the lookup in `HandleHttpReq` (a set that is filled before the start), the round robin over
  io_contexts and request handlers (the handlers have no state).
* The dialog's OK button; conversions, parsers' character classes, file layout; the sequential
  programs, exercises and libraries.

The number of runs is kept to a dozen and a property is kept only while it says something no other
does. Four comments that the code does not keep to were checked earlier and gave way: `reply.hpp:52`
(the reply must not change while it is written), `request_parser.hpp:32` (400 means invalid data),
`Thread.h:19` (when `WaitForStop` blocks) and `IFFmpegrecord.h:48` (a recording is closed once). The models still
contain those behaviours, and `PROJECT.json` lists them as hazards.
