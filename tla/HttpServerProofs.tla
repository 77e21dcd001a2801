-------------------------- MODULE HttpServerProofs --------------------------
(***************************************************************************)
(* The server's thread is a KThread, so what was proved about WaitForStop  *)
(* holds of StopHttpServer.                                                *)
(***************************************************************************)
EXTENDS HttpServer, TLAPS

P == INSTANCE KThreadProofs WITH WIN32 <- TRUE

(* A handler runs on a pool thread, and the pool is joined by a thread     *)
(* that is still in ThreadProcMain.                                        *)
BusyInv == \A c \in busy : c \in Child /\ thread[c] = "main" /\ main[c] = "join"

-----------------------------------------------------------------------------
(* The assumptions of KThread hold of its instances.                       *)
LEMMA InstanceAssumptions == TRUE \in BOOLEAN /\ MaxThreads \in Nat \ {0}
BY MaxThreadsAssumption

(* P and T are the same module.                                            *)
LEMMA SameStart == T!StartThread <=> P!StartThread
BY DEF T!StartThread, P!StartThread, T!CreateThread, P!CreateThread, T!KeepThread,
       P!KeepThread, T!ResetEvent, P!ResetEvent, T!PthreadCreate, P!PthreadCreate,
       T!StartSemWait, P!StartSemWait, T!Create, P!Create, T!None, P!None, T!windows,
       P!windows, T!posix, P!posix

LEMMA SameStop ==
  /\ T!CallWaitForStop <=> P!CallWaitForStop
  /\ T!WaitEvent <=> P!WaitEvent
  /\ T!WaitHandle <=> P!WaitHandle
BY DEF T!CallWaitForStop, P!CallWaitForStop, T!WaitEvent, P!WaitEvent, T!WaitHandle,
       P!WaitHandle, T!None, P!None, T!windows, P!windows, T!posix, P!posix

LEMMA SameThread ==
  ASSUME NEW c \in Child
  PROVE  /\ T!MainReturns(c) <=> P!MainReturns(c)
         /\ T!Signal(c) <=> P!Signal(c)
         /\ T!Terminate(c) <=> P!Terminate(c)
         /\ c \in P!Child
BY DEF T!MainReturns, P!MainReturns, T!Signal, P!Signal, T!Terminate, P!Terminate,
       T!windows, P!windows, T!posix, P!posix, Child, T!Child, P!Child

LEMMA InitThread == Init => P!Init
BY DEF Init, T!Init, P!Init, T!Child, P!Child, T!None, P!None

(* Every step of the server is a step of its thread or leaves it alone.    *)
LEMMA StepThread ==
  ASSUME [Next]_vars
  PROVE  P!Next \/ UNCHANGED threadVars
<1>1. CASE StartHttpServer
  BY <1>1, SameStart DEF StartHttpServer, P!Next
<1>2. CASE NothingToStop \/ ClearAndWait \/ WaitForStop
  BY <1>2, SameStop DEF NothingToStop, ClearAndWait, WaitForStop, P!Next, P!WaitForStop
<1>3. CASE StopHttpServer \/ StopServer \/ DeleteServer
  BY <1>3 DEF StopHttpServer, StopServer, DeleteServer
<1>4. ASSUME NEW c \in Child, ReturnFromMain(c) \/ ThreadEnds(c)
      PROVE  P!Next
  BY <1>4, SameThread DEF ReturnFromMain, ThreadEnds, P!Next, P!ThreadProc
<1>5. ASSUME NEW c \in Child,
             \/ Construct(c) \/ CheckServer(c) \/ Run(c) \/ Joined(c)
             \/ HandlerStarts(c) \/ HandlerEnds(c) \/ Interrupt(c)
      PROVE  UNCHANGED threadVars
  BY <1>5 DEF Construct, CheckServer, Run, Joined, HandlerStarts, HandlerEnds, Interrupt
<1>6. CASE UNCHANGED vars
  BY <1>6 DEF vars
<1>. QED BY <1>1, <1>2, <1>3, <1>4, <1>5, <1>6 DEF Next, Stopping, ThreadProc

(* The thread of the server is a KThread of the Windows build.             *)
THEOREM ServerThreadIsKThread == Spec => P!Spec
<1>1. [Next]_vars => [P!Next]_(P!vars)
  BY StepThread DEF threadVars, P!vars
<1>. QED BY <1>1, InitThread, PTL DEF Spec, P!Spec

-----------------------------------------------------------------------------
(* The server's own variables, and the server StopHttpServer is about.     *)
ServerInv ==
  /\ stop \in {"out", "stop", "delete", "clear"}
  /\ m_pserver \in Child \cup {NULL, Garbage}
  /\ main \in [Child -> {"construct", "check", "run", "join", "return"}]
  /\ stopped \subseteq Child /\ deleted \subseteq Child /\ busy \subseteq Child
  /\ crashed \in BOOLEAN
  /\ stop # "out" => m_pserver \in Child

LEMMA ServerInit == Init => ServerInv
<1>. SUFFICES ASSUME Init PROVE ServerInv
  OBVIOUS
<1>1. main \in [Child -> {"construct", "check", "run", "join", "return"}]
  BY DEF Init
<1>. QED BY <1>1 DEF Init, ServerInv

LEMMA ServerStep == ServerInv /\ [Next]_vars => ServerInv'
<1>. SUFFICES ASSUME ServerInv, [Next]_vars PROVE ServerInv'
  OBVIOUS
<1>. USE DEF ServerInv, serverVars
<1>1. CASE StartHttpServer
  BY <1>1 DEF StartHttpServer
<1>2. CASE NothingToStop \/ WaitForStop
  BY <1>2 DEF NothingToStop, WaitForStop
<1>3. CASE StopHttpServer
  BY <1>3 DEF StopHttpServer
<1>4. CASE StopServer \/ DeleteServer \/ ClearAndWait
  BY <1>4 DEF StopServer, DeleteServer, ClearAndWait
<1>5. ASSUME NEW c \in Child, Construct(c) \/ CheckServer(c) \/ Joined(c)
      PROVE  ServerInv'
  BY <1>5 DEF Construct, CheckServer, Joined, Goto
<1>6. ASSUME NEW c \in Child, Run(c)
      PROVE  ServerInv'
  <2>1. crashed' \in BOOLEAN
    BY <1>6, Zenon DEF Run
  <2>. QED BY <1>6, <2>1 DEF Run, Goto
<1>7. ASSUME NEW c \in Child, ReturnFromMain(c) \/ ThreadEnds(c)
      PROVE  ServerInv'
  BY <1>7 DEF ReturnFromMain, ThreadEnds
<1>8. ASSUME NEW c \in Child, HandlerStarts(c) \/ HandlerEnds(c) \/ Interrupt(c)
      PROVE  ServerInv'
  BY <1>8 DEF HandlerStarts, HandlerEnds, Interrupt
<1>9. CASE UNCHANGED vars
  BY <1>9 DEF vars
<1>. QED BY <1>1, <1>2, <1>3, <1>4, <1>5, <1>6, <1>7, <1>8, <1>9
         DEF Next, Stopping, ThreadProc

-----------------------------------------------------------------------------
LEMMA BusyInit == Init => BusyInv
BY DEF Init, BusyInv

(* Starting a thread is no business of the ones in ThreadProcMain.         *)
LEMMA MainKept ==
  ASSUME P!IInv, StartHttpServer
  PROVE  \A c \in Child : thread[c] = "main" => thread'[c] = "main"
<1>1. P!StartThread
  BY SameStart DEF StartHttpServer
<1>2. ASSUME NEW to, P!Create(to)
      PROVE  \A c \in Child : thread[c] = "main" => thread'[c] = "main"
  <2>1. P!TypeOK /\ P!Numbered
    BY DEF P!IInv
  <2>2. thread[created'] = "none" /\ \A c \in P!Child : c # created' => thread'[c] = thread[c]
    BY <1>2, <2>1, InstanceAssumptions, P!CreateProperties
  <2>. QED BY <2>2 DEF Child, T!Child, P!Child
<1>. QED BY <1>1, <1>2
         DEF P!StartThread, P!CreateThread, P!PthreadCreate, P!KeepThread, P!ResetEvent,
             P!StartSemWait

(* A thread leaves the join only when no handler is running.               *)
LEMMA BusyStep == BusyInv /\ ServerInv /\ P!IInv /\ [Next]_vars => BusyInv'
<1>. SUFFICES ASSUME BusyInv, ServerInv, P!IInv, [Next]_vars PROVE BusyInv'
  OBVIOUS
<1>. USE DEF BusyInv, ServerInv, serverVars, threadVars
<1>0. thread \in [Child -> P!ThreadPlaces]
  BY DEF P!IInv, P!TypeOK, Child, T!Child, P!Child
<1>1. CASE StartHttpServer
  BY <1>1, MainKept DEF StartHttpServer
<1>2. CASE NothingToStop \/ ClearAndWait \/ WaitForStop
  BY <1>2 DEF NothingToStop, ClearAndWait, WaitForStop, T!CallWaitForStop, T!WaitEvent,
              T!WaitHandle
<1>3. CASE StopHttpServer \/ StopServer \/ DeleteServer
  BY <1>3 DEF StopHttpServer, StopServer, DeleteServer
<1>4. ASSUME NEW c \in Child, Construct(c) \/ CheckServer(c) \/ Run(c) \/ Joined(c)
      PROVE  BusyInv'
  BY <1>4 DEF Construct, CheckServer, Run, Joined, In, Goto
<1>5. ASSUME NEW c \in Child, ReturnFromMain(c) \/ ThreadEnds(c)
      PROVE  BusyInv'
  BY <1>0, <1>5 DEF ReturnFromMain, ThreadEnds, In, T!MainReturns, T!Signal, T!Terminate
<1>6. ASSUME NEW c \in Child, HandlerStarts(c) \/ HandlerEnds(c) \/ Interrupt(c)
      PROVE  BusyInv'
  BY <1>6 DEF HandlerStarts, HandlerEnds, Interrupt, In
<1>7. CASE UNCHANGED vars
  BY <1>7 DEF vars
<1>. QED BY <1>1, <1>2, <1>3, <1>4, <1>5, <1>6, <1>7 DEF Next, Stopping, ThreadProc

-----------------------------------------------------------------------------
(* When StopHttpServer returns, nothing runs that could reach the object   *)
(* the application deletes next: no handler and no ThreadProcMain.         *)
THEOREM StopWaitsForAll == Spec => NothingRunsAfterStop
<1>1. Spec => []P!IInv /\ P!WaitForStopWaits
  BY InstanceAssumptions, ServerThreadIsKThread, P!InvAlways, P!WaitForStopIsAWait, PTL
<1>2. Spec => []ServerInv
  BY ServerInit, ServerStep, PTL DEF Spec
<1>3. Spec => []BusyInv
  BY <1>1, <1>2, BusyInit, BusyStep, PTL DEF Spec
<1>4. BusyInv /\ [(owner \in P!Waiting /\ owner' = "idle") => P!AllOut]_(P!vars)
        => [(owner \in T!Waiting /\ owner' = "idle") => Quiet]_vars
  BY DEF BusyInv, P!AllOut, P!vars, vars, threadVars, Quiet, P!Waiting, T!Waiting,
         P!InMain, T!InMain, Child, T!Child, P!Child
<1>. QED BY <1>1, <1>3, <1>4, PTL DEF P!WaitForStopWaits, NothingRunsAfterStop

(* Every variable of the server keeps its type.                            *)
THEOREM TypeCorrect == Spec => []TypeOK
<1>1. Spec => []P!TypeOK
  BY InstanceAssumptions, ServerThreadIsKThread, P!TypeCorrect, PTL
<1>2. Spec => []ServerInv
  BY ServerInit, ServerStep, PTL DEF Spec
<1>3. P!TypeOK /\ ServerInv => TypeOK
  BY DEF P!TypeOK, ServerInv, TypeOK, T!TypeOK, T!OwnerPlaces, P!OwnerPlaces,
         T!ThreadPlaces, P!ThreadPlaces, T!Child, P!Child
<1>. QED BY <1>1, <1>2, <1>3, PTL
-----------------------------------------------------------------------------
(* What StopEndsRunningServer promises without fairness.                   *)

(* The application is in a function of the thread only when it is not in   *)
(* the first half of StopHttpServer, and a server that can be found has    *)
(* been constructed.                                                       *)
CallInv ==
  /\ stop # "out" => owner = "idle"
  /\ m_pserver \in Child => main[m_pserver] # "construct"

(* StopHttpServer has found server c, the one of the latest thread; that   *)
(* thread's signal is still to come or there; and once StopServer is done  *)
(* nothing else has to happen for run() to return.                         *)
SignalToCome(c) == m_hThread = c /\ (T!InMain(c) \/ m_evStop)
GoingDown(c) ==
  /\ c = created /\ crashed = FALSE
  /\ thread[c] = "main" => main[c] # "construct"
  /\ stop # "stop" => c \in stopped
  /\ \/ stop # "out" /\ m_pserver = c /\ SignalToCome(c)
     \/ stop = "out" /\ owner = "waitEvent" /\ SignalToCome(c)
     \/ stop = "out" /\ owner = "waitHandle"

(* The application, the thread or a handler of the server has a step to    *)
(* take.                                                                   *)
CanGoOn(c) ==
  \/ stop # "out"
  \/ owner = "waitEvent" /\ m_evStop
  \/ owner = "waitHandle" /\ thread[hThread] = "ended"
  \/ thread[c] = "main" /\ main[c] \in {"check", "run", "return"}
  \/ thread[c] = "main" /\ main[c] = "join" /\ c \in stopped \ busy
  \/ thread[c] \in {"returned", "signalled"}
  \/ c \in busy

(* What the three have left to do.                                         *)
AppLeft ==
  IF stop = "stop" THEN 5 ELSE IF stop = "delete" THEN 4 ELSE IF stop = "clear" THEN 3
  ELSE IF owner = "waitEvent" THEN 2 ELSE IF owner = "waitHandle" THEN 1 ELSE 0
ThreadLeft(c) ==
  IF thread[c] = "main"
  THEN IF main[c] = "check" THEN 6 ELSE IF main[c] = "run" THEN 5
       ELSE IF main[c] = "join" THEN 4 ELSE 3
  ELSE IF thread[c] = "returned" THEN 2 ELSE IF thread[c] = "signalled" THEN 1 ELSE 0
HandlerLeft(c) == IF c \notin stopped THEN 2 ELSE IF c \in busy THEN 1 ELSE 0

(* Until StopHttpServer returns one of them has less to do after every     *)
(* step and none has more.  Only before the io_contexts are stopped a      *)
(* handler may come or go.                                                 *)
GoesDown(c) ==
  GoingDown(c) =>
    \/ GoingDown(c)'
    \/ crashed'
    \/ stop' = "out" /\ owner' = "idle"
DownGoesOn(c) ==
  GoingDown(c) =>
    \/ AppLeft' < AppLeft /\ ThreadLeft(c)' = ThreadLeft(c) /\ HandlerLeft(c)' <= HandlerLeft(c)
    \/ AppLeft' = AppLeft /\ ThreadLeft(c)' < ThreadLeft(c) /\ HandlerLeft(c)' = HandlerLeft(c)
    \/ AppLeft' = AppLeft /\ ThreadLeft(c)' = ThreadLeft(c) /\ HandlerLeft(c)' < HandlerLeft(c)
    \/ /\ c \notin stopped
       /\ HandlerStarts(c) \/ HandlerEnds(c)
       /\ AppLeft' = AppLeft /\ ThreadLeft(c)' = ThreadLeft(c)
Down == \A c \in Child : GoesDown(c) /\ DownGoesOn(c)

(* A server found running is on its way down from the start, and is never  *)
(* left with nobody to go on.                                              *)
DownFromTheStart ==
  /\ stop = "stop" /\ ~crashed /\ OnlyServer(m_pserver) => GoingDown(m_pserver)
  /\ \A c \in Child : GoingDown(c) => CanGoOn(c)

LEMMA CallInit == Init => CallInv
BY MaxThreadsAssumption DEF Init, T!Init, CallInv, Child, T!Child, NULL, Garbage

LEMMA CallStep == CallInv /\ ServerInv /\ [Next]_vars => CallInv'
<1>. SUFFICES ASSUME CallInv, ServerInv, [Next]_vars PROVE CallInv'
  OBVIOUS
<1>. USE DEF CallInv, ServerInv, serverVars, threadVars
<1>1. CASE StartHttpServer
  BY <1>1 DEF StartHttpServer
<1>2. CASE StopHttpServer \/ StopServer \/ DeleteServer
  BY <1>2 DEF StopHttpServer, StopServer, DeleteServer
<1>3. CASE NothingToStop \/ WaitForStop
  BY <1>3 DEF NothingToStop, WaitForStop, T!WaitEvent, T!WaitHandle
<1>4. CASE ClearAndWait
  BY <1>4, MaxThreadsAssumption DEF ClearAndWait, Child, T!Child, NULL
<1>5. ASSUME NEW c \in Child, Construct(c) \/ CheckServer(c) \/ Run(c) \/ Joined(c)
      PROVE  CallInv'
  BY <1>5 DEF Construct, CheckServer, Run, Joined, Goto
<1>6. ASSUME NEW c \in Child, ReturnFromMain(c) \/ ThreadEnds(c)
      PROVE  CallInv'
  BY <1>6 DEF ReturnFromMain, ThreadEnds, T!MainReturns, T!Signal, T!Terminate
<1>7. ASSUME NEW c \in Child, HandlerStarts(c) \/ HandlerEnds(c) \/ Interrupt(c)
      PROVE  CallInv'
  BY <1>7 DEF HandlerStarts, HandlerEnds, Interrupt
<1>8. CASE UNCHANGED vars
  BY <1>8 DEF vars
<1>. QED BY <1>1, <1>2, <1>3, <1>4, <1>5, <1>6, <1>7, <1>8 DEF Next, Stopping, ThreadProc

Inv == P!IInv /\ ServerInv /\ BusyInv /\ CallInv

LEMMA InvAlways == Spec => []Inv
<1>1. Spec => []P!IInv
  BY InstanceAssumptions, ServerThreadIsKThread, P!InvAlways, PTL
<1>2. Spec => []ServerInv
  BY ServerInit, ServerStep, PTL DEF Spec
<1>. QED BY <1>1, <1>2, BusyInit, BusyStep, CallInit, CallStep, PTL DEF Spec, Inv

(* The threads of a server, by the handles that refer to them.             *)
LEMMA Handles ==
  ASSUME Inv
  PROVE  /\ thread \in [Child -> {"none", "main", "returned", "signalled", "ended"}]
         /\ owner \in {"idle", "reset", "waitEvent", "waitHandle"}
         /\ owner = "waitHandle" => hThread = created /\ hThread # 0
         /\ owner # "waitHandle" => hThread = 0
         /\ \A d \in Child :
              /\ d # 0
              /\ d # created => thread[d] \in {"none", "ended"}
              /\ d = created => thread[d] # "none"
              /\ d = created /\ thread[d] # "ended" /\ owner # "waitHandle" => m_hThread = d
<1>. USE DEF Inv, P!IInv, P!TypeOK, P!Numbered, P!HandleInv, P!None, Child, T!Child, P!Child,
             P!ThreadPlaces
<1>1. created \in 0 .. MaxThreads
  OBVIOUS
<1>2. m_hThread \in {0, created} /\ hThread \in {0, created}
  OBVIOUS
<1>3. \A d \in Child : d # 0 /\ (thread[d] = "none" <=> d > created)
  BY MaxThreadsAssumption
<1>4. \A d \in Child : d <= created /\ d # m_hThread /\ d # hThread => thread[d] = "ended"
  OBVIOUS
<1>5. \A d \in Child : d # created => thread[d] \in {"none", "ended"}
  BY <1>1, <1>2, <1>3, <1>4, MaxThreadsAssumption
<1>6. \A d \in Child : d = created => thread[d] # "none"
  BY <1>1, <1>3, MaxThreadsAssumption
<1>7. owner = "waitHandle" <=> hThread # 0
  OBVIOUS
<1>8. ASSUME NEW d \in Child, d = created, thread[d] # "ended", owner # "waitHandle"
      PROVE  m_hThread = d
  BY <1>1, <1>2, <1>3, <1>4, <1>7, <1>8, MaxThreadsAssumption
<1>. QED BY <1>2, <1>3, <1>5, <1>6, <1>7, <1>8

(* The application's steps.                                                *)
LEMMA DownApp ==
  ASSUME Inv, NEW c \in Child, GoingDown(c),
         StartHttpServer \/ StopHttpServer \/ NothingToStop \/ Stopping
  PROVE  /\ GoingDown(c)' \/ (stop' = "out" /\ owner' = "idle")
         /\ AppLeft' < AppLeft
         /\ ThreadLeft(c)' = ThreadLeft(c) /\ HandlerLeft(c)' <= HandlerLeft(c)
<1>. USE DEF GoingDown, AppLeft, ThreadLeft, HandlerLeft, SignalToCome, T!InMain, threadVars,
             serverVars
<1>0. c # 0 /\ (stop # "out" => owner = "idle")
  BY Handles DEF Inv, CallInv
<1>1. ~(StartHttpServer \/ StopHttpServer \/ NothingToStop)
  BY DEF StartHttpServer, T!StartThread, T!CreateThread, T!KeepThread, T!ResetEvent,
         T!PthreadCreate, T!StartSemWait, StopHttpServer, NothingToStop, T!CallWaitForStop
<1>2. CASE StopServer
  BY <1>2 DEF StopServer
<1>3. CASE DeleteServer
  BY <1>3 DEF DeleteServer
<1>4. CASE ClearAndWait
  BY <1>4 DEF ClearAndWait, T!CallWaitForStop, T!windows, T!posix
<1>5. CASE WaitForStop
  BY <1>0, <1>5 DEF WaitForStop, T!WaitEvent, T!WaitHandle, T!None, T!posix
<1>. QED BY <1>1, <1>2, <1>3, <1>4, <1>5 DEF Stopping

(* The thread's.                                                           *)
LEMMA DownThread ==
  ASSUME Inv, NEW c \in Child, GoingDown(c), NEW d \in Child, ThreadProc(d)
  PROVE  /\ GoingDown(c)' \/ crashed'
         /\ AppLeft' = AppLeft
         /\ ThreadLeft(c)' < ThreadLeft(c) /\ HandlerLeft(c)' = HandlerLeft(c)
<1>1. thread[d] \in {"main", "returned", "signalled"}
  BY DEF ThreadProc, Construct, CheckServer, Run, Joined, ReturnFromMain, ThreadEnds, In,
         T!MainReturns, T!Signal, T!Terminate
<1>2. d = c
  BY <1>1, Handles DEF GoingDown
<1>3. thread \in [Child -> {"none", "main", "returned", "signalled", "ended"}]
  BY Handles
<1>4. main \in [Child -> {"construct", "check", "run", "join", "return"}]
  BY DEF Inv, ServerInv
<1>. USE DEF GoingDown, AppLeft, ThreadLeft, HandlerLeft, SignalToCome, T!InMain, threadVars,
             serverVars
<1>5. CASE Construct(d) \/ CheckServer(d) \/ Joined(d)
  BY <1>2, <1>4, <1>5 DEF Construct, CheckServer, Joined, In, Goto
<1>6. CASE Run(d)
  <2>1. crashed' = TRUE \/ crashed' = FALSE
    BY <1>6, Zenon DEF Run
  <2>. QED BY <1>2, <1>4, <1>6, <2>1 DEF Run, In, Goto
<1>7. CASE ReturnFromMain(d)
  BY <1>2, <1>3, <1>7 DEF ReturnFromMain, In, T!MainReturns, T!windows, T!posix
<1>8. CASE ThreadEnds(d)
  <2>1. CASE T!Signal(d)
    <3>1. m_evStop' = TRUE
      BY <2>1, Zenon DEF T!Signal
    <3>2. /\ thread[c] = "returned" /\ thread'[c] = "signalled"
          /\ UNCHANGED <<owner, created, m_hThread, hThread, stop, m_pserver, serverVars, crashed>>
      BY <1>2, <1>3, <1>8, <2>1 DEF ThreadEnds, T!Signal
    <3>. QED BY <3>1, <3>2
  <2>2. CASE T!Terminate(d)
    BY <1>2, <1>3, <1>8, <2>2 DEF ThreadEnds, T!Terminate, T!windows, T!posix
  <2>. QED BY <1>8, <2>1, <2>2 DEF ThreadEnds
<1>. QED BY <1>5, <1>6, <1>7, <1>8 DEF ThreadProc

(* The pool's.                                                             *)
LEMMA DownHandler ==
  ASSUME Inv, NEW c \in Child, GoingDown(c), NEW d \in Child,
         HandlerStarts(d) \/ HandlerEnds(d) \/ Interrupt(d)
  PROVE  /\ GoingDown(c)' \/ crashed'
         /\ AppLeft' = AppLeft /\ ThreadLeft(c)' = ThreadLeft(c)
         /\ \/ HandlerLeft(c)' < HandlerLeft(c)
            \/ c \notin stopped /\ (HandlerStarts(c) \/ HandlerEnds(c))
<1>1. thread[d] = "main"
  BY DEF HandlerStarts, HandlerEnds, Interrupt, In, Inv, BusyInv
<1>2. d = c
  BY <1>1, Handles DEF GoingDown
<1>. USE DEF GoingDown, AppLeft, ThreadLeft, HandlerLeft, SignalToCome, T!InMain, threadVars,
             serverVars
<1>3. CASE HandlerStarts(d)
  BY <1>2, <1>3 DEF HandlerStarts
<1>4. CASE HandlerEnds(d)
  <2>1. crashed' = TRUE \/ crashed' = FALSE
    BY <1>4, Zenon DEF HandlerEnds
  <2>2. /\ c \in busy /\ busy' = busy \ {c}
        /\ UNCHANGED <<threadVars, stop, m_pserver, main, stopped, deleted>>
    BY <1>2, <1>4 DEF HandlerEnds
  <2>3. HandlerLeft(c)' < HandlerLeft(c) \/ (c \notin stopped /\ HandlerEnds(c))
    BY <1>2, <1>4, <2>2
  <2>4. AppLeft' = AppLeft /\ ThreadLeft(c)' = ThreadLeft(c)
    BY <2>2
  <2>5. GoingDown(c)' \/ crashed'
    BY <2>1, <2>2
  <2>. QED BY <2>3, <2>4, <2>5
<1>5. CASE Interrupt(d)
  BY <1>2, <1>5 DEF Interrupt
<1>. QED BY <1>3, <1>4, <1>5

LEMMA DownStep == Inv /\ [Next]_vars => [Down]_vars
<1>. SUFFICES ASSUME Inv, Next, NEW c \in Child, GoingDown(c)
              PROVE  GoesDown(c) /\ DownGoesOn(c)
  BY DEF Down, GoesDown, DownGoesOn
<1>1. CASE StartHttpServer \/ StopHttpServer \/ NothingToStop \/ Stopping
  BY <1>1, DownApp DEF GoesDown, DownGoesOn
<1>2. ASSUME NEW d \in Child, ThreadProc(d) PROVE GoesDown(c) /\ DownGoesOn(c)
  BY <1>2, DownThread DEF GoesDown, DownGoesOn
<1>3. ASSUME NEW d \in Child, HandlerStarts(d) \/ HandlerEnds(d) \/ Interrupt(d)
      PROVE  GoesDown(c) /\ DownGoesOn(c)
  <2>1. /\ GoingDown(c)' \/ crashed'
        /\ AppLeft' = AppLeft /\ ThreadLeft(c)' = ThreadLeft(c)
        /\ \/ HandlerLeft(c)' < HandlerLeft(c)
           \/ c \notin stopped /\ (HandlerStarts(c) \/ HandlerEnds(c))
    BY <1>3, DownHandler
  <2>. QED BY <2>1 DEF GoesDown, DownGoesOn
<1>. QED BY <1>1, <1>2, <1>3 DEF Next

(* The safety part of StopEndsRunningServer: from the moment in which      *)
(* StopHttpServer finds the only server, every step but the handlers that  *)
(* come before its stop leaves less to do, and there is always someone who *)
(* can take the next one.                                                  *)
THEOREM StopBringsServerDown == Spec => []DownFromTheStart /\ [][Down]_vars
<1>1. Inv => DownFromTheStart
  <2>. SUFFICES ASSUME Inv PROVE DownFromTheStart
    OBVIOUS
  <2>1. ASSUME stop = "stop", ~crashed, OnlyServer(m_pserver) PROVE GoingDown(m_pserver)
    <3>1. m_pserver \in Child /\ owner = "idle" /\ crashed = FALSE
      BY <2>1 DEF Inv, ServerInv, CallInv
    <3>2. thread[m_pserver] = "main" /\ main[m_pserver] # "construct"
      BY <2>1, <3>1 DEF OnlyServer, Inv, CallInv
    <3>3. m_pserver = created
      BY <3>1, <3>2, Handles
    <3>4. m_hThread = m_pserver
      BY <3>1, <3>2, <3>3, Handles
    <3>. QED BY <2>1, <3>1, <3>2, <3>3, <3>4 DEF GoingDown, SignalToCome, T!InMain
  <2>2. ASSUME NEW c \in Child, GoingDown(c) PROVE CanGoOn(c)
    <3>1. thread[c] \in {"main", "returned", "signalled", "ended"}
      BY <2>2, Handles DEF GoingDown
    <3>2. main[c] \in {"construct", "check", "run", "join", "return"}
      BY DEF Inv, ServerInv
    <3>3. owner = "waitHandle" => hThread = c
      BY <2>2, Handles DEF GoingDown
    <3>. QED BY <2>2, <3>1, <3>2, <3>3 DEF GoingDown, CanGoOn, SignalToCome, T!InMain
  <2>. QED BY <2>1, <2>2 DEF DownFromTheStart
<1>. QED BY <1>1, DownStep, InvAlways, PTL DEF Spec
=============================================================================
