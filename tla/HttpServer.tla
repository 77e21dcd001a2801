----------------------------- MODULE HttpServer -----------------------------
(***************************************************************************)
(* The life of the HTTP server (AsioHttp/HttpServer): chttpserver, which   *)
(* the application starts and stops (HttpServer.cpp), the thread it is as  *)
(* a KThread in the Windows build, http::server2::server (server.cpp) and  *)
(* the pool of threads that runs its handlers (io_context_pool.cpp).  The  *)
(* server made by a thread goes by the number of that thread.  What a      *)
(* connection does is in HttpConnection; here a handler only comes and     *)
(* goes.                                                                   *)
(***************************************************************************)
EXTENDS Naturals

CONSTANT MaxThreads

ASSUME MaxThreadsAssumption == MaxThreads \in Nat \ {0}

VARIABLES owner, created, thread, m_hThread, hThread, m_evStop, m_semWaitForStop,
          m_bThreadStopped

T == INSTANCE KThread WITH WIN32 <- TRUE

Child == T!Child
NULL == 0
Garbage == MaxThreads + 1    \* the constructor does not set m_pserver

VARIABLES
  stop,      \* where the application is in StopHttpServer, before WaitForStop
  m_pserver,
  main,      \* where each thread is in ThreadProcMain
  stopped,   \* servers whose io_contexts have been stopped
  deleted,   \* servers that have been deleted
  busy,      \* servers with a pool thread in a handler
  crashed    \* memory of a deleted server, or no memory at all, was used

threadVars == <<owner, created, thread, m_hThread, hThread, m_evStop, m_semWaitForStop,
                m_bThreadStopped>>
serverVars == <<main, stopped, deleted, busy>>
vars == <<threadVars, stop, m_pserver, serverVars, crashed>>

Init ==
  /\ T!Init
  /\ stop = "out"
  /\ m_pserver \in {NULL, Garbage}
  /\ main = [c \in Child |-> "construct"]
  /\ stopped = {} /\ deleted = {} /\ busy = {}
  /\ crashed = FALSE

-----------------------------------------------------------------------------
(* The application.                                                        *)
StartHttpServer ==
  /\ stop = "out" /\ ~crashed
  /\ T!StartThread
  /\ UNCHANGED <<stop, m_pserver, serverVars, crashed>>

\* Mutant: m_pserver is not looked at.
StopHttpServer_Unchecked ==
  /\ stop = "out" /\ owner = "idle" /\ ~crashed
  /\ stop' = "stop"
  /\ UNCHANGED <<threadVars, m_pserver, serverVars, crashed>>

(* if (m_pserver): with nothing to stop, StopHttpServer goes on to wait.   *)
StopHttpServer ==
  /\ stop = "out" /\ owner = "idle" /\ m_pserver # NULL /\ ~crashed
  /\ IF m_pserver = Garbage
     THEN crashed' = TRUE /\ UNCHANGED stop
     ELSE stop' = "stop" /\ UNCHANGED crashed
  /\ UNCHANGED <<threadVars, m_pserver, serverVars>>

NothingToStop ==
  /\ stop = "out" /\ m_pserver = NULL /\ ~crashed
  /\ T!CallWaitForStop
  /\ UNCHANGED <<stop, m_pserver, serverVars, crashed>>

\* Mutant: the io_contexts are not stopped.
StopServer_Skip ==
  /\ stop = "stop" /\ ~crashed
  /\ stop' = "delete"
  /\ UNCHANGED <<threadVars, m_pserver, serverVars, crashed>>

(* m_pserver->stop(), delete m_pserver, m_pserver = nullptr, WaitForStop.  *)
StopServer ==
  /\ stop = "stop" /\ ~crashed
  /\ stopped' = stopped \cup {m_pserver}
  /\ stop' = "delete"
  /\ UNCHANGED <<threadVars, m_pserver, main, deleted, busy, crashed>>

DeleteServer ==
  /\ stop = "delete" /\ ~crashed
  /\ deleted' = deleted \cup {m_pserver}
  /\ stop' = "clear"
  /\ UNCHANGED <<threadVars, m_pserver, main, stopped, busy, crashed>>

ClearAndWait ==
  /\ stop = "clear" /\ ~crashed
  /\ m_pserver' = NULL
  /\ T!CallWaitForStop
  /\ stop' = "out"
  /\ UNCHANGED <<serverVars, crashed>>

WaitForStop ==
  /\ ~crashed
  /\ T!WaitEvent \/ T!WaitHandle
  /\ UNCHANGED <<stop, m_pserver, serverVars, crashed>>

-----------------------------------------------------------------------------
(* ThreadProcMain on thread c.  The constructor opens the port and starts  *)
(* to accept; it throws when it cannot, and the thread function returns.   *)
In(c, place) == thread[c] = "main" /\ main[c] = place /\ ~crashed
Goto(c, place) == main' = [main EXCEPT ![c] = place]

Construct(c) ==
  /\ In(c, "construct")
  /\ \/ Goto(c, "return") /\ UNCHANGED m_pserver
     \/ Goto(c, "check") /\ m_pserver' = c
  /\ UNCHANGED <<threadVars, stop, stopped, deleted, busy, crashed>>

CheckServer(c) ==
  /\ In(c, "check")
  /\ Goto(c, IF m_pserver = NULL THEN "return" ELSE "run")
  /\ UNCHANGED <<threadVars, stop, m_pserver, stopped, deleted, busy, crashed>>

(* run() on m_pserver: starts the pool's threads, each in its io_context,  *)
(* and joins them.                                                         *)
Run(c) ==
  /\ In(c, "run")
  /\ Goto(c, "join")
  /\ crashed' \in IF m_pserver \in deleted THEN BOOLEAN ELSE {m_pserver = NULL}
  /\ UNCHANGED <<threadVars, stop, m_pserver, stopped, deleted, busy>>

\* Mutant: run() returns without joining the pool.
Joined_Detached(c) ==
  /\ In(c, "join")
  /\ Goto(c, "return")
  /\ UNCHANGED <<threadVars, stop, m_pserver, stopped, deleted, busy, crashed>>

Joined(c) ==
  /\ In(c, "join") /\ c \in stopped /\ c \notin busy
  /\ Goto(c, "return")
  /\ UNCHANGED <<threadVars, stop, m_pserver, stopped, deleted, busy, crashed>>

ReturnFromMain(c) ==
  /\ In(c, "return")
  /\ T!MainReturns(c)
  /\ UNCHANGED <<stop, m_pserver, serverVars, crashed>>

ThreadEnds(c) ==
  /\ ~crashed
  /\ T!Signal(c) \/ T!Terminate(c)
  /\ UNCHANGED <<stop, m_pserver, serverVars, crashed>>

-----------------------------------------------------------------------------
(* A pool thread runs a handler unless its io_context is stopped; the      *)
(* handler uses the server to its end (handle_accept, start_accept).       *)
HandlerStarts(c) ==
  /\ In(c, "join") /\ c \notin stopped \cup busy
  /\ busy' = busy \cup {c}
  /\ UNCHANGED <<threadVars, stop, m_pserver, main, stopped, deleted, crashed>>

HandlerEnds(c) ==
  /\ c \in busy /\ ~crashed
  /\ busy' = busy \ {c}
  /\ crashed' \in IF c \in deleted THEN BOOLEAN ELSE {FALSE}
  /\ UNCHANGED <<threadVars, stop, m_pserver, main, stopped, deleted>>

(* SIGINT or SIGTERM: the signal handler stops the io_contexts too.        *)
Interrupt(c) ==
  /\ In(c, "join") /\ c \notin stopped
  /\ stopped' = stopped \cup {c}
  /\ UNCHANGED <<threadVars, stop, m_pserver, main, deleted, busy, crashed>>

-----------------------------------------------------------------------------
Stopping == StopServer \/ DeleteServer \/ ClearAndWait \/ WaitForStop
ThreadProc(c) ==
  \/ Construct(c) \/ CheckServer(c) \/ Run(c) \/ Joined(c) \/ ReturnFromMain(c)
  \/ ThreadEnds(c)

Next ==
  \/ StartHttpServer \/ StopHttpServer \/ NothingToStop \/ Stopping
  \/ \E c \in Child :
       ThreadProc(c) \/ HandlerStarts(c) \/ HandlerEnds(c) \/ Interrupt(c)

(* StopHttpServer, once entered, and ThreadProcMain are run, and handlers  *)
(* end: none of them waits for anything.  Nobody has to start, stop or     *)
(* interrupt the server.                                                   *)
Fairness ==
  /\ WF_vars(Stopping)
  /\ \A c \in Child : WF_vars(ThreadProc(c)) /\ WF_vars(HandlerEnds(c))

Spec == Init /\ [][Next]_vars
FairSpec == Spec /\ Fairness

-----------------------------------------------------------------------------
TypeOK ==
  /\ T!TypeOK
  /\ stop \in {"out", "stop", "delete", "clear"}
  /\ m_pserver \in Child \cup {NULL, Garbage}
  /\ main \in [Child -> {"construct", "check", "run", "join", "return"}]
  /\ stopped \subseteq Child /\ deleted \subseteq Child /\ busy \subseteq Child
  /\ crashed \in BOOLEAN

(* StopServer of the demo deletes the chttpserver as soon as               *)
(* StopHttpServer returns: by then no handler runs, so none can reach the  *)
(* object, and no thread is in ThreadProcMain.                             *)
Quiet == busy = {} /\ \A c \in Child : ~T!InMain(c)
NothingRunsAfterStop ==
  [][(owner \in T!Waiting /\ owner' = "idle") => Quiet]_vars

(* A server that StopHttpServer finds running, and that is the only one,   *)
(* is brought down, and StopHttpServer returns.                            *)
OnlyServer(c) == \A d \in Child : thread[d] = "main" <=> d = c
StopEndsRunningServer ==
  (stop = "stop" /\ OnlyServer(m_pserver))
    ~> ((stop = "out" /\ owner = "idle") \/ crashed)
=============================================================================
