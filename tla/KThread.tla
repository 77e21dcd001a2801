------------------------------ MODULE KThread ------------------------------
(***************************************************************************)
(* KThread (HttpServer/Thread.cpp): an object that runs its virtual        *)
(* ThreadProcMain on a thread of its own.  The Windows build signals the   *)
(* end of that function with a manual-reset event, the POSIX build with a  *)
(* semaphore that starts at 1; WIN32 says which one is modelled.           *)
(*                                                                         *)
(* One thread owns the object and calls StartThread and WaitForStop, in    *)
(* any order and as often as it likes.  Every child created is a number,   *)
(* in order of creation.                                                   *)
(***************************************************************************)
EXTENDS Naturals

CONSTANTS WIN32, MaxThreads

ASSUME WIN32Assumption == WIN32 \in BOOLEAN
ASSUME MaxThreadsAssumption == MaxThreads \in Nat \ {0}

Child == 1 .. MaxThreads
None == 0    \* no thread handle

VARIABLES
  owner,            \* where the owner is in StartThread or WaitForStop
  created,          \* children created so far; the latest is the current one
  thread,           \* how far each child is in ThreadProc
  m_hThread,        \* the child the object refers to (POSIX: m_thread)
  hThread,          \* WaitForStop's local copy of the handle
  m_evStop,         \* Windows: the event is signalled
  m_semWaitForStop, \* POSIX: the semaphore's value
  m_bThreadStopped  \* POSIX: WaitForStop has nothing to wait for

windows == <<hThread, m_evStop>>
posix == <<m_semWaitForStop, m_bThreadStopped>>
vars == <<owner, created, thread, m_hThread, hThread, m_evStop, m_semWaitForStop,
          m_bThreadStopped>>

Init ==
  /\ owner = "idle"
  /\ created = 0
  /\ thread = [c \in Child |-> "none"]
  /\ m_hThread = None
  /\ hThread = None
  /\ m_evStop = TRUE
  /\ m_semWaitForStop = 1
  /\ m_bThreadStopped = TRUE

-----------------------------------------------------------------------------
(* CreateThread and pthread_create.  When they fail, StartThread returns   *)
(* false and nothing has changed.                                          *)
Create(to) ==
  /\ created < MaxThreads
  /\ created' = created + 1
  /\ thread' = [thread EXCEPT ![created + 1] = "main"]
  /\ m_hThread' = created + 1
  /\ owner' = to

\* Mutant: the handle is not looked at.
CreateThread_Always ==
  /\ WIN32 /\ owner = "idle"
  /\ Create("reset")
  /\ UNCHANGED <<windows, posix>>

(* StartThread on Windows: a new thread unless the object has a handle.    *)
CreateThread ==
  /\ WIN32 /\ owner = "idle" /\ m_hThread = None
  /\ Create("reset")
  /\ UNCHANGED <<windows, posix>>

KeepThread ==
  /\ WIN32 /\ owner = "idle" /\ m_hThread # None
  /\ owner' = "reset"
  /\ UNCHANGED <<created, thread, m_hThread, windows, posix>>

(* ResetEvent, after the child has been let run; StartThread returns true. *)
ResetEvent ==
  /\ owner = "reset"
  /\ m_evStop' = FALSE
  /\ owner' = "idle"
  /\ UNCHANGED <<created, thread, m_hThread, hThread, posix>>

(* StartThread on POSIX: always a new thread ...                           *)
PthreadCreate ==
  /\ ~WIN32 /\ owner = "idle"
  /\ Create("semWait")
  /\ UNCHANGED <<windows, posix>>

\* Mutant: StartThread does not take the semaphore.
StartSemWait_Skip ==
  /\ owner = "semWait"
  /\ m_bThreadStopped' = FALSE
  /\ owner' = "idle"
  /\ UNCHANGED <<created, thread, m_hThread, windows, m_semWaitForStop>>

(* ... and then the semaphore, which the child's end will give back.       *)
StartSemWait ==
  /\ owner = "semWait" /\ m_semWaitForStop > 0
  /\ m_semWaitForStop' = m_semWaitForStop - 1
  /\ m_bThreadStopped' = FALSE
  /\ owner' = "idle"
  /\ UNCHANGED <<created, thread, m_hThread, windows>>

-----------------------------------------------------------------------------
(* ThreadProc on the child: ThreadProcMain returns, the end is signalled,  *)
(* and the thread is gone.                                                 *)
MainReturns(c) ==
  /\ thread[c] = "main"
  /\ thread' = [thread EXCEPT ![c] = "returned"]
  /\ UNCHANGED <<owner, created, m_hThread, windows, posix>>

\* Mutant: the end is not signalled.
Signal_Forgotten(c) ==
  /\ thread[c] = "returned"
  /\ thread' = [thread EXCEPT ![c] = "signalled"]
  /\ UNCHANGED <<owner, created, m_hThread, windows, posix>>

Signal(c) ==
  /\ thread[c] = "returned"
  /\ thread' = [thread EXCEPT ![c] = "signalled"]
  /\ m_evStop' = (WIN32 \/ m_evStop)
  /\ m_semWaitForStop' = IF WIN32 THEN m_semWaitForStop ELSE m_semWaitForStop + 1
  /\ UNCHANGED <<owner, created, m_hThread, hThread, m_bThreadStopped>>

Terminate(c) ==
  /\ thread[c] = "signalled"
  /\ thread' = [thread EXCEPT ![c] = "ended"]
  /\ UNCHANGED <<owner, created, m_hThread, windows, posix>>

-----------------------------------------------------------------------------
(* WaitForStop.  On POSIX it returns at once when m_bThreadStopped.        *)
CallWaitForStop ==
  /\ owner = "idle" /\ (WIN32 \/ ~m_bThreadStopped)
  /\ owner' = IF WIN32 THEN "waitEvent" ELSE "waitSem"
  /\ UNCHANGED <<created, thread, m_hThread, windows, posix>>

(* Windows: wait for the event, take the handle, wait for the thread.      *)
WaitEvent ==
  /\ owner = "waitEvent" /\ m_evStop
  /\ owner' = IF m_hThread = None THEN "idle" ELSE "waitHandle"
  /\ hThread' = m_hThread
  /\ m_hThread' = None
  /\ UNCHANGED <<created, thread, m_evStop, posix>>

\* Mutant: the handle is closed without waiting for the thread.
WaitHandle_Skip ==
  /\ owner = "waitHandle"
  /\ owner' = "idle"
  /\ hThread' = None
  /\ UNCHANGED <<created, thread, m_hThread, m_evStop, posix>>

WaitHandle ==
  /\ owner = "waitHandle" /\ thread[hThread] = "ended"
  /\ owner' = "idle"
  /\ hThread' = None
  /\ UNCHANGED <<created, thread, m_hThread, m_evStop, posix>>

(* POSIX: take the semaphore, then join.                                   *)
WaitSem ==
  /\ owner = "waitSem" /\ m_semWaitForStop > 0
  /\ m_semWaitForStop' = m_semWaitForStop - 1
  /\ m_bThreadStopped' = TRUE
  /\ owner' = "join"
  /\ UNCHANGED <<created, thread, m_hThread, windows>>

Join ==
  /\ owner = "join" /\ thread[m_hThread] = "ended"
  /\ owner' = "idle"
  /\ UNCHANGED <<created, thread, m_hThread, windows, posix>>

StartThread == CreateThread \/ KeepThread \/ ResetEvent \/ PthreadCreate \/ StartSemWait
ThreadProc(c) == MainReturns(c) \/ Signal(c) \/ Terminate(c)
WaitForStop == CallWaitForStop \/ WaitEvent \/ WaitHandle \/ WaitSem \/ Join

Next == StartThread \/ WaitForStop \/ \E c \in Child : ThreadProc(c)

(* A function that has been entered is run; the owner need not enter one.  *)
(* ThreadProcMain returns: that is what Thread.h asks of the owner before  *)
(* it calls WaitForStop.                                                   *)
Fairness ==
  /\ WF_vars(ResetEvent \/ StartSemWait \/ WaitEvent \/ WaitHandle \/ WaitSem \/ Join)
  /\ \A c \in Child : WF_vars(ThreadProc(c))

Spec == Init /\ [][Next]_vars
FairSpec == Spec /\ Fairness

-----------------------------------------------------------------------------
OwnerPlaces == {"idle", "reset", "semWait", "waitEvent", "waitHandle", "waitSem", "join"}
ThreadPlaces == {"none", "main", "returned", "signalled", "ended"}

(* The semaphore holds at most the end of one thread and what StartThread  *)
(* is about to take.                                                       *)
TypeOK ==
  /\ owner \in OwnerPlaces
  /\ created \in 0 .. MaxThreads
  /\ thread \in [Child -> ThreadPlaces]
  /\ m_hThread \in 0 .. created
  /\ hThread \in 0 .. created
  /\ m_evStop \in BOOLEAN
  /\ m_semWaitForStop \in 0 .. 2
  /\ m_bThreadStopped \in BOOLEAN

InMain(c) == thread[c] \in {"main", "returned"}
Waiting == {"waitEvent", "waitHandle", "waitSem", "join"}

AllOut ==
  /\ \A c \in Child : ~InMain(c)
  /\ created > 0 => thread[created] = "ended"

(* When WaitForStop returns, no ThreadProcMain is running on the object,   *)
(* however many StartThread calls came before, and the thread the object   *)
(* knows is gone: the owner destroys the object next.                      *)
WaitForStopWaits ==
  [][(owner \in Waiting /\ owner' = "idle") => AllOut]_vars

(* A WaitForStop that finds the thread still running ends with it: a stop  *)
(* signal that comes after StartThread has returned is not lost.           *)
RunningIsAwaited ==
  (owner \in {"waitEvent", "waitSem"} /\ m_hThread # None /\ InMain(created))
    ~> owner = "idle"

(* The Windows build creates no thread while the object refers to one, and *)
(* drops the reference only to wait for it: ThreadProcMain is never run    *)
(* twice at a time.  (On POSIX it may be.)                                 *)
OneThreadAtATime ==
  \A c, d \in Child : InMain(c) /\ InMain(d) => c = d
=============================================================================
