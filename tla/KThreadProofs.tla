--------------------------- MODULE KThreadProofs ---------------------------
(***************************************************************************)
(* WaitForStop waits: proved for both builds, any number of threads and    *)
(* any sequence of calls.                                                  *)
(***************************************************************************)
EXTENDS KThread, TLAPS

(* The threads not created yet are those above the latest.                 *)
Numbered == \A c \in Child : thread[c] = "none" <=> c > created

(* Windows: the object refers to the latest thread or to none, and every   *)
(* thread it does not refer to has ended.                                  *)
HandleInv ==
  WIN32 =>
    /\ owner \in {"idle", "reset", "waitEvent", "waitHandle"}
    /\ m_hThread \in {None, created} /\ hThread \in {None, created}
    /\ owner = "waitHandle" <=> hThread # None
    /\ hThread # None => m_hThread = None
    /\ \A c \in Child :
         c <= created /\ c # m_hThread /\ c # hThread => thread[c] = "ended"

(* POSIX: the value of the semaphore and the threads that have not posted  *)
(* it are together at most one, and at most two while StartThread, having  *)
(* created a thread, waits for it.                                         *)
SemInv ==
  ~WIN32 =>
    /\ owner \in {"idle", "semWait", "waitSem", "join"}
    /\ m_hThread = created
    /\ m_semWaitForStop <= 2
    /\ owner # "semWait" => m_semWaitForStop <= 1
    /\ owner = "join" => \A c \in Child : ~InMain(c)
    /\ \A c \in Child : InMain(c) =>
         /\ m_semWaitForStop <= 1
         /\ owner # "semWait" => m_semWaitForStop = 0
    /\ \A c, d \in Child : InMain(c) /\ InMain(d) /\ c # d =>
         /\ owner = "semWait" /\ m_semWaitForStop = 0
         /\ \A e \in Child : InMain(e) => e = c \/ e = d

IInv == TypeOK /\ Numbered /\ HandleInv /\ SemInv

-----------------------------------------------------------------------------
LEMMA ChildProperties ==
  /\ Child \subseteq Nat \ {0}
  /\ MaxThreads \in Nat \ {0}
  /\ \A n \in Nat : n < MaxThreads => n + 1 \in Child
BY MaxThreadsAssumption DEF Child

LEMMA CreateProperties ==
  ASSUME TypeOK, Numbered, NEW to, Create(to)
  PROVE  /\ created \in Nat /\ created' = created + 1 /\ m_hThread' = created + 1
         /\ created' \in Child /\ created' \in 0 .. MaxThreads
         /\ thread' \in [Child -> ThreadPlaces]
         /\ thread[created'] = "none" /\ thread'[created'] = "main"
         /\ \A c \in Child : c # created' => thread'[c] = thread[c]
<1>. USE DEF TypeOK, Create
<1>1. created \in Nat /\ created' = created + 1
  OBVIOUS
<1>2. created' \in Child /\ created' \in 0 .. MaxThreads
  BY <1>1, ChildProperties
<1>3. thread' = [thread EXCEPT ![created'] = "main"]
  BY <1>1
<1>4. thread[created'] = "none"
  BY <1>1, <1>2 DEF Numbered
<1>. QED BY <1>1, <1>2, <1>3, <1>4 DEF ThreadPlaces

LEMMA SemProperties ==
  ASSUME m_semWaitForStop \in 0 .. 2
  PROVE  /\ m_semWaitForStop \in Nat
         /\ m_semWaitForStop > 0 => m_semWaitForStop - 1 \in 0 .. 2
         /\ m_semWaitForStop <= 1 => m_semWaitForStop + 1 \in 0 .. 2
OBVIOUS

LEMMA InitInv == Init => IInv
BY ChildProperties
   DEF Init, IInv, TypeOK, Numbered, HandleInv, SemInv, OwnerPlaces, ThreadPlaces, None,
       InMain

(* A new thread: on Windows the one before it has ended, on POSIX at most  *)
(* one is left.                                                            *)
LEMMA CreateInv ==
  ASSUME IInv, CreateThread \/ PthreadCreate
  PROVE  IInv'
<1>. DEFINE c == created'
<1>1. /\ created \in Nat /\ c = created + 1 /\ m_hThread' = c
      /\ c \in Child /\ c \in 0 .. MaxThreads
      /\ thread' \in [Child -> ThreadPlaces]
      /\ thread[c] = "none" /\ thread'[c] = "main"
      /\ \A d \in Child : d # c => thread'[d] = thread[d]
  BY CreateProperties DEF IInv, CreateThread, PthreadCreate
<1>2. /\ UNCHANGED <<hThread, m_evStop, m_semWaitForStop, m_bThreadStopped>>
      /\ owner = "idle"
      /\ owner' = IF WIN32 THEN "reset" ELSE "semWait"
      /\ WIN32 => m_hThread = None
  BY DEF CreateThread, PthreadCreate, Create, windows, posix
<1>. HIDE DEF c
<1>3. hThread' \in 0 .. c
  BY <1>1, <1>2 DEF IInv, TypeOK
<1>4. TypeOK'
  BY <1>1, <1>2, <1>3 DEF IInv, TypeOK, OwnerPlaces, c
<1>5. Numbered'
  BY <1>1, ChildProperties DEF IInv, Numbered, c
<1>6. HandleInv'
  <2>1. CASE WIN32
    BY <1>1, <1>2, <2>1, ChildProperties DEF IInv, HandleInv, None, c
  <2>. QED BY <2>1 DEF HandleInv
<1>7. SemInv'
  BY <1>1, <1>2 DEF IInv, TypeOK, SemInv, InMain, c
<1>. QED BY <1>4, <1>5, <1>6, <1>7 DEF IInv

(* Every variable keeps its type.                                          *)
LEMMA TypeOwner ==
  ASSUME IInv, KeepThread \/ ResetEvent \/ StartSemWait \/ WaitForStop
  PROVE  TypeOK'
<1>. USE DEF IInv, TypeOK, HandleInv, SemInv, InMain, OwnerPlaces, ThreadPlaces, None, windows, posix
<1>1. CASE KeepThread
  BY <1>1 DEF KeepThread
<1>2. CASE ResetEvent
  BY <1>2 DEF ResetEvent
<1>3. CASE StartSemWait
  BY <1>3, SemProperties DEF StartSemWait
<1>4. CASE CallWaitForStop
  BY <1>4 DEF CallWaitForStop
<1>5. CASE WaitEvent
  BY <1>5 DEF WaitEvent
<1>6. CASE WaitHandle
  BY <1>6 DEF WaitHandle
<1>7. CASE WaitSem
  BY <1>7, SemProperties DEF WaitSem
<1>8. CASE Join
  BY <1>8 DEF Join
<1>. QED BY <1>1, <1>2, <1>3, <1>4, <1>5, <1>6, <1>7, <1>8 DEF WaitForStop

LEMMA TypeThread ==
  ASSUME IInv, NEW c \in Child, ThreadProc(c)
  PROVE  TypeOK'
<1>. USE DEF IInv, TypeOK, HandleInv, SemInv, InMain, OwnerPlaces, ThreadPlaces, None, windows, posix
<1>1. CASE MainReturns(c)
  BY <1>1 DEF MainReturns
<1>2. CASE Signal(c)
  BY <1>2, SemProperties DEF Signal
<1>3. CASE Terminate(c)
  BY <1>3 DEF Terminate
<1>. QED BY <1>1, <1>2, <1>3 DEF ThreadProc

(* Threads are created in order.                                           *)
LEMMA NumberedOwner ==
  ASSUME IInv, KeepThread \/ ResetEvent \/ StartSemWait \/ WaitForStop
  PROVE  Numbered'
<1>. USE DEF IInv, TypeOK, Numbered, ThreadPlaces, windows, posix
<1>1. CASE KeepThread
  BY <1>1 DEF KeepThread
<1>2. CASE ResetEvent
  BY <1>2 DEF ResetEvent
<1>3. CASE StartSemWait
  BY <1>3 DEF StartSemWait
<1>4. CASE CallWaitForStop
  BY <1>4 DEF CallWaitForStop
<1>5. CASE WaitEvent
  BY <1>5 DEF WaitEvent
<1>6. CASE WaitHandle
  BY <1>6 DEF WaitHandle
<1>7. CASE WaitSem
  BY <1>7 DEF WaitSem
<1>8. CASE Join
  BY <1>8 DEF Join
<1>. QED BY <1>1, <1>2, <1>3, <1>4, <1>5, <1>6, <1>7, <1>8 DEF WaitForStop

LEMMA NumberedThread ==
  ASSUME IInv, NEW c \in Child, ThreadProc(c)
  PROVE  Numbered'
<1>. USE DEF IInv, TypeOK, Numbered, ThreadPlaces, windows, posix
<1>1. CASE MainReturns(c)
  BY <1>1 DEF MainReturns
<1>2. CASE Signal(c)
  BY <1>2 DEF Signal
<1>3. CASE Terminate(c)
  BY <1>3 DEF Terminate
<1>. QED BY <1>1, <1>2, <1>3 DEF ThreadProc

(* The Windows build refers to one thread at a time.                       *)
LEMMA HandleOwner ==
  ASSUME IInv, KeepThread \/ ResetEvent \/ StartSemWait \/ WaitForStop
  PROVE  HandleInv'
<1>. USE DEF IInv, TypeOK, Numbered, HandleInv, None, windows, posix
<1>1. CASE KeepThread
  BY <1>1 DEF KeepThread
<1>2. CASE ResetEvent
  BY <1>2 DEF ResetEvent
<1>3. CASE StartSemWait
  BY <1>3 DEF StartSemWait
<1>4. CASE CallWaitForStop
  BY <1>4 DEF CallWaitForStop
<1>5. CASE WaitEvent
  BY <1>5 DEF WaitEvent
<1>6. CASE WaitHandle
  BY <1>6 DEF WaitHandle
<1>7. CASE WaitSem
  BY <1>7 DEF WaitSem
<1>8. CASE Join
  BY <1>8 DEF Join
<1>. QED BY <1>1, <1>2, <1>3, <1>4, <1>5, <1>6, <1>7, <1>8 DEF WaitForStop

LEMMA HandleThread ==
  ASSUME IInv, NEW c \in Child, ThreadProc(c)
  PROVE  HandleInv'
<1>. USE DEF IInv, TypeOK, Numbered, HandleInv, None, windows, posix
<1>1. CASE MainReturns(c)
  BY <1>1 DEF MainReturns
<1>2. CASE Signal(c)
  BY <1>2 DEF Signal
<1>3. CASE Terminate(c)
  BY <1>3 DEF Terminate
<1>. QED BY <1>1, <1>2, <1>3 DEF ThreadProc

(* The POSIX build counts the threads that have not ended.                *)
LEMMA SemOwner ==
  ASSUME IInv, KeepThread \/ ResetEvent \/ StartSemWait \/ WaitForStop
  PROVE  SemInv'
<1>. USE DEF IInv, TypeOK, Numbered, SemInv, InMain, windows, posix
<1>1. CASE KeepThread
  BY <1>1 DEF KeepThread
<1>2. CASE ResetEvent
  BY <1>2 DEF ResetEvent
<1>3. CASE StartSemWait
  BY <1>3, SemProperties DEF StartSemWait
<1>4. CASE CallWaitForStop
  BY <1>4 DEF CallWaitForStop
<1>5. CASE WaitEvent
  BY <1>5 DEF WaitEvent
<1>6. CASE WaitHandle
  BY <1>6 DEF WaitHandle
<1>7. CASE WaitSem
  BY <1>7, SemProperties DEF WaitSem
<1>8. CASE Join
  BY <1>8 DEF Join
<1>. QED BY <1>1, <1>2, <1>3, <1>4, <1>5, <1>6, <1>7, <1>8 DEF WaitForStop

LEMMA SemThread ==
  ASSUME IInv, NEW c \in Child, ThreadProc(c)
  PROVE  SemInv'
<1>. USE DEF IInv, TypeOK, Numbered, SemInv, InMain, windows, posix
<1>1. CASE MainReturns(c)
  BY <1>1 DEF MainReturns
<1>2. CASE Signal(c)
  BY <1>2, SemProperties DEF Signal
<1>3. CASE Terminate(c)
  BY <1>3 DEF Terminate
<1>. QED BY <1>1, <1>2, <1>3 DEF ThreadProc

LEMMA StepInv == IInv /\ [Next]_vars => IInv'
<1>1. IInv /\ UNCHANGED vars => IInv'
  BY DEF IInv, TypeOK, Numbered, HandleInv, SemInv, InMain, vars
<1>2. ASSUME IInv, StartThread \/ WaitForStop PROVE IInv'
  BY <1>2, CreateInv, TypeOwner, NumberedOwner, HandleOwner, SemOwner DEF IInv, StartThread
<1>3. ASSUME IInv, NEW c \in Child, ThreadProc(c) PROVE IInv'
  BY <1>3, TypeThread, NumberedThread, HandleThread, SemThread DEF IInv
<1>. QED BY <1>1, <1>2, <1>3 DEF Next

LEMMA InvAlways == Spec => []IInv
BY InitInv, StepInv, PTL DEF Spec

-----------------------------------------------------------------------------
(* Every variable of a KThread keeps its type, in both builds.             *)
THEOREM TypeCorrect == Spec => []TypeOK
<1>1. IInv => TypeOK
  BY DEF IInv
<1>. QED BY <1>1, InvAlways, PTL

(* In the Windows build ThreadProcMain is never run twice at a time.       *)
THEOREM OneThread == WIN32 /\ Spec => []OneThreadAtATime
<1>1. WIN32 /\ IInv => OneThreadAtATime
  BY ChildProperties
     DEF IInv, TypeOK, Numbered, HandleInv, OneThreadAtATime, InMain, None, ThreadPlaces
<1>2. CASE WIN32
  BY <1>1, <1>2, InvAlways, PTL
<1>. QED BY <1>2

(* When WaitForStop returns, in either build and after any sequence of     *)
(* calls, no ThreadProcMain is running and the latest thread is gone.      *)
THEOREM WaitForStopIsAWait == Spec => WaitForStopWaits
<1>1. ASSUME IInv, [Next]_vars, owner \in Waiting, owner' = "idle"
      PROVE  AllOut
  <2>. USE ChildProperties
       DEF IInv, TypeOK, Numbered, HandleInv, SemInv, Waiting, AllOut, InMain, None,
           ThreadPlaces
  <2>1. CASE WaitEvent
    BY <1>1, <2>1 DEF WaitEvent
  <2>2. CASE WaitHandle
    BY <1>1, <2>2 DEF WaitHandle
  <2>3. CASE Join
    BY <1>1, <2>3 DEF Join
  <2>4. CASE CreateThread \/ KeepThread \/ ResetEvent \/ PthreadCreate \/ StartSemWait
    BY <1>1, <2>4
       DEF CreateThread, KeepThread, ResetEvent, PthreadCreate, StartSemWait, Create
  <2>5. CASE CallWaitForStop \/ WaitSem \/ \E c \in Child : ThreadProc(c)
    BY <1>1, <2>5
       DEF CallWaitForStop, WaitSem, ThreadProc, MainReturns, Signal, Terminate
  <2>. QED
    BY <1>1, <2>1, <2>2, <2>3, <2>4, <2>5 DEF Next, StartThread, WaitForStop, vars
<1>2. IInv /\ [Next]_vars => [(owner \in Waiting /\ owner' = "idle") => AllOut]_vars
  BY <1>1
<1>. QED BY <1>2, InvAlways, PTL DEF Spec, WaitForStopWaits
-----------------------------------------------------------------------------
(* What RunningIsAwaited promises without fairness.                        *)

(* WaitForStop is waiting for the latest thread, whose signal is still to  *)
(* come or there.                                                          *)
Awaited ==
  /\ owner \in Waiting /\ created \in Child
  /\ owner = "waitEvent" => m_hThread = created /\ (InMain(created) \/ m_evStop)
  /\ owner = "waitSem" => InMain(created) \/ m_semWaitForStop > 0

(* The thread has something left to do, or the wait is over.               *)
CanGoOn ==
  \/ thread[created] \in {"main", "returned", "signalled"}
  \/ owner = "waitEvent" /\ m_evStop
  \/ owner = "waitHandle" /\ thread[hThread] = "ended"
  \/ owner = "waitSem" /\ m_semWaitForStop > 0
  \/ owner = "join" /\ thread[m_hThread] = "ended"

(* How many steps the thread and WaitForStop have left.                    *)
ThreadLeft ==
  IF thread[created] = "main" THEN 3
  ELSE IF thread[created] = "returned" THEN 2
  ELSE IF thread[created] = "signalled" THEN 1 ELSE 0
OwnerLeft ==
  IF owner \in {"waitEvent", "waitSem"} THEN 2
  ELSE IF owner \in {"waitHandle", "join"} THEN 1 ELSE 0

(* The two have at most five steps to take, and until they are taken only  *)
(* an older thread may take any.                                           *)
WaitGoesOn ==
  Awaited =>
    /\ Awaited' \/ owner' = "idle"
    /\ \/ ThreadLeft' + OwnerLeft' < ThreadLeft + OwnerLeft
       \/ /\ \E c \in Child \ {created} : ThreadProc(c)
          /\ ThreadLeft' + OwnerLeft' = ThreadLeft + OwnerLeft

(* A signal that comes after StartThread has returned is not lost: a       *)
(* WaitForStop that finds the thread in its function is never left with    *)
(* nothing to wait for.                                                    *)
AwaitedFromTheStart ==
  /\ owner \in {"waitEvent", "waitSem"} /\ m_hThread # None /\ InMain(created) => Awaited
  /\ Awaited => CanGoOn

(* A sum falls when a part of it does and the other stays.                 *)
LEMMA SumFalls ==
  ASSUME NEW m \in Nat, NEW n \in Nat, NEW x \in Nat, NEW y \in Nat
  PROVE  /\ x = m /\ y < n => x + y < m + n
         /\ x < m /\ y = n => x + y < m + n
OBVIOUS

LEMMA AwaitedOwner ==
  ASSUME IInv, Awaited, StartThread \/ WaitForStop
  PROVE  /\ Awaited' \/ owner' = "idle"
         /\ ThreadLeft' = ThreadLeft /\ OwnerLeft' < OwnerLeft
<1>. USE DEF Awaited, Waiting, ThreadLeft, OwnerLeft
<1>1. CASE WaitEvent
  BY <1>1 DEF WaitEvent, Child, None
<1>2. CASE WaitHandle
  BY <1>2 DEF WaitHandle
<1>3. CASE WaitSem
  BY <1>3 DEF WaitSem
<1>4. CASE Join
  BY <1>4 DEF Join
<1>5. ~(StartThread \/ CallWaitForStop)
  BY DEF StartThread, CreateThread, KeepThread, ResetEvent, PthreadCreate, StartSemWait,
         CallWaitForStop
<1>. QED BY <1>1, <1>2, <1>3, <1>4, <1>5 DEF WaitForStop

LEMMA AwaitedThread ==
  ASSUME IInv, Awaited, NEW c \in Child, ThreadProc(c)
  PROVE  /\ Awaited' /\ OwnerLeft' = OwnerLeft
         /\ c = created => ThreadLeft' < ThreadLeft
         /\ c # created => ThreadLeft' = ThreadLeft
<1>1. UNCHANGED <<owner, created, m_hThread>>
  BY DEF ThreadProc, MainReturns, Signal, Terminate
<1>2. \A d \in Child : d # c => thread'[d] = thread[d]
  BY DEF ThreadProc, MainReturns, Signal, Terminate, IInv, TypeOK
<1>3. \/ thread[c] = "main" /\ thread'[c] = "returned"
      \/ thread[c] = "returned" /\ thread'[c] = "signalled"
      \/ thread[c] = "signalled" /\ thread'[c] = "ended"
  BY DEF ThreadProc, MainReturns, Signal, Terminate, IInv, TypeOK
<1>4. thread[c] = "returned" => (WIN32 => m_evStop') /\ (~WIN32 => m_semWaitForStop' > 0)
  <2>. SUFFICES ASSUME thread[c] = "returned"
                PROVE  (WIN32 => m_evStop') /\ (~WIN32 => m_semWaitForStop' > 0)
    OBVIOUS
  <2>1. Signal(c)
    BY DEF ThreadProc, MainReturns, Signal, Terminate
  <2>2. WIN32 => m_evStop'
    BY <2>1, Zenon DEF Signal
  <2>3. ~WIN32 => m_semWaitForStop' > 0
    <3>1. ~WIN32 => m_semWaitForStop' = m_semWaitForStop + 1
      BY <2>1 DEF Signal
    <3>. QED BY <3>1, SemProperties DEF IInv, TypeOK
  <2>. QED BY <2>2, <2>3
<1>5. (m_evStop => m_evStop') /\ (m_semWaitForStop > 0 => m_semWaitForStop' > 0)
  <2>1. CASE Signal(c)
    <3>1. m_evStop => m_evStop'
      BY <2>1, Zenon DEF Signal
    <3>2. m_semWaitForStop' \in {m_semWaitForStop, m_semWaitForStop + 1}
      BY <2>1 DEF Signal
    <3>. QED BY <3>1, <3>2, SemProperties DEF IInv, TypeOK
  <2>2. CASE MainReturns(c) \/ Terminate(c)
    BY <2>2 DEF MainReturns, Terminate, windows, posix
  <2>. QED BY <2>1, <2>2 DEF ThreadProc
<1>6. Awaited'
  <2>1. CASE owner = "waitEvent"
    <3>1. WIN32
      BY <2>1 DEF IInv, SemInv
    <3>2. InMain(created)' \/ m_evStop'
      BY <1>1, <1>2, <1>3, <1>4, <1>5, <2>1, <3>1 DEF Awaited, InMain
    <3>. QED BY <1>1, <2>1, <3>2 DEF Awaited
  <2>2. CASE owner = "waitSem"
    <3>1. ~WIN32
      BY <2>2 DEF IInv, HandleInv
    <3>2. InMain(created)' \/ m_semWaitForStop' > 0
      BY <1>1, <1>2, <1>3, <1>4, <1>5, <2>2, <3>1 DEF Awaited, InMain
    <3>. QED BY <1>1, <2>2, <3>2 DEF Awaited
  <2>. QED BY <1>1, <2>1, <2>2 DEF Awaited
<1>7. created \in Child
  BY DEF Awaited
<1>. QED BY <1>1, <1>2, <1>3, <1>6, <1>7 DEF OwnerLeft, ThreadLeft

(* The safety part of RunningIsAwaited, in both builds.                    *)
THEOREM WaitIsNotLost == Spec => []AwaitedFromTheStart /\ [][WaitGoesOn]_vars
<1>1. IInv => AwaitedFromTheStart
  <2>. SUFFICES ASSUME IInv PROVE AwaitedFromTheStart
    OBVIOUS
  <2>1. ASSUME owner \in {"waitEvent", "waitSem"}, m_hThread # None, InMain(created)
        PROVE  Awaited
    <3>1. created \in Child
      BY <2>1, MaxThreadsAssumption DEF IInv, TypeOK, Child, None
    <3>2. owner = "waitEvent" => m_hThread = created
      BY <2>1 DEF IInv, HandleInv, SemInv
    <3>. QED BY <2>1, <3>1, <3>2 DEF Awaited, Waiting
  <2>2. ASSUME Awaited PROVE CanGoOn
    <3>1. thread[created] # "none" /\ thread[created] \in ThreadPlaces
      BY <2>2, ChildProperties DEF Awaited, IInv, Numbered, TypeOK
    <3>2. owner = "waitHandle" => hThread = created
      BY DEF IInv, HandleInv, SemInv
    <3>3. owner = "join" => m_hThread = created
      BY DEF IInv, HandleInv, SemInv
    <3>. QED BY <2>2, <3>1, <3>2, <3>3 DEF CanGoOn, Awaited, Waiting, ThreadPlaces, InMain
  <2>. QED BY <2>1, <2>2 DEF AwaitedFromTheStart
<1>2. IInv /\ [Next]_vars => [WaitGoesOn]_vars
  <2>. SUFFICES ASSUME IInv, Next, Awaited
                PROVE  WaitGoesOn
    BY DEF WaitGoesOn
  <2>0. /\ ThreadLeft \in Nat /\ OwnerLeft \in Nat
        /\ ThreadLeft' \in Nat /\ OwnerLeft' \in Nat
    BY DEF ThreadLeft, OwnerLeft
  <2>1. CASE StartThread \/ WaitForStop
    <3>1. /\ Awaited' \/ owner' = "idle"
          /\ ThreadLeft' = ThreadLeft /\ OwnerLeft' < OwnerLeft
      BY <2>1, AwaitedOwner
    <3>2. ThreadLeft' + OwnerLeft' < ThreadLeft + OwnerLeft
      BY <2>0, <3>1, SumFalls
    <3>. QED BY <3>1, <3>2 DEF WaitGoesOn
  <2>2. ASSUME NEW c \in Child, ThreadProc(c) PROVE WaitGoesOn
    <3>0. /\ Awaited' /\ OwnerLeft' = OwnerLeft
          /\ c = created => ThreadLeft' < ThreadLeft
          /\ c # created => ThreadLeft' = ThreadLeft
      BY <2>2, AwaitedThread
    <3>1. CASE c = created
      <4>1. ThreadLeft' + OwnerLeft' < ThreadLeft + OwnerLeft
        BY <2>0, <3>0, <3>1, SumFalls
      <4>. QED BY <3>0, <4>1 DEF WaitGoesOn
    <3>2. CASE c # created
      <4>1. \E d \in Child \ {created} : ThreadProc(d)
        BY <2>2, <3>2
      <4>2. ThreadLeft' + OwnerLeft' = ThreadLeft + OwnerLeft
        BY <3>0, <3>2
      <4>. QED BY <3>0, <4>1, <4>2 DEF WaitGoesOn
    <3>. QED BY <3>1, <3>2
  <2>. QED BY <2>1, <2>2 DEF Next
<1>. QED BY <1>1, <1>2, InvAlways, PTL DEF Spec
=============================================================================
