--------------------------- MODULE LifecycleProofs ---------------------------
(***************************************************************************)
(* Theorems about Lifecycle, for every number of io threads and every set  *)
(* of loops: whoever calls stop(), and however often, the server shuts     *)
(* down once, takes its game with it and outlives none of its threads.     *)
(***************************************************************************)
EXTENDS Lifecycle, TLAPS

-----------------------------------------------------------------------------
(* The inductive invariant.                                                *)

BeforeServer  == {"config", "constructed", "failed"}
BeforeRun     == BeforeServer \cup {"published"}
BeforeLaunch  == BeforeRun \cup {"launch"}
BeforeThreads == BeforeLaunch \cup {"launched", "start"}
Destroyed     == {"destroyed", "exited"}
Destroying    == {"destroy"} \cup Destroyed

\* Each caller is inside stop() only where its own program calls it.
CallersInv ==
    /\ main # "destroy" => stop["main"] = "none"
    /\ main \in BeforeServer \cup Destroyed => stop["signal"] = "none"
    /\ console # "stopping" => stop["console"] = "none"
    /\ \A t \in IoThreads : io[t] # "reply" => stop[t] = "none"

\* Threads exist between StartThreads and JoinAll.
ThreadsInv ==
    /\ main \in BeforeThreads => console = "unstarted" /\ \A t \in IoThreads : io[t] = "unstarted"
    /\ main \in Destroying => Finished

\* A thread that is past the exchange of the flag, or past onShutdown.
PastFlag(t) == stop[t] \in {"event", "terminate", "wait", "ioc"}
PastEvent(t) == stop[t] \in {"terminate", "wait", "ioc"}

\* The flag, the thread that took it and onShutdown follow each other.
FlagInv ==
    /\ shutdowns \in {0, 1}
    /\ main \in BeforeRun => ~m_running /\ shutdowns = 0
    /\ \A t, u \in Stoppers : PastFlag(t) /\ PastFlag(u) => t = u
    /\ \A t \in Stoppers : PastFlag(t) => ~m_running /\ main \notin BeforeRun
    /\ \A t \in Stoppers : stop[t] = "event" => shutdowns = 0
    /\ \A t \in Stoppers : PastEvent(t) => shutdowns = 1
    /\ m_running => shutdowns = 0
    /\ main \notin BeforeRun =>
         m_running \/ shutdowns = 1 \/ \E t \in Stoppers : stop[t] = "event"
    /\ main = "destroy" /\ stop["main"] # "exchange" => ~m_running
    /\ main \in Destroyed => shutdowns = 1

\* The game is known by its process id until it was waited for.
GameInv ==
    /\ main \in BeforeLaunch => headless = "none"
    /\ main \in BeforeLaunch \cup {"launched"} => ~m_pid
    /\ main \notin BeforeLaunch \cup {"launched"} => m_pid \/ headless \in {"none", "ended"}
    /\ \A t \in Stoppers : stop[t] = "ioc" /\ ~late => headless = "ended"
    /\ shutdowns = 1 /\ ~late =>
         headless = "ended" \/ \E t \in Stoppers : stop[t] \in {"terminate", "wait"}

Inv == TypeOK /\ CallersInv /\ ThreadsInv /\ FlagInv /\ GameInv

-----------------------------------------------------------------------------
(* The invariant is inductive.                                             *)

LEMMA InvInit == Init => Inv
<1> SUFFICES ASSUME Init PROVE Inv
  OBVIOUS
<1> USE LifecycleAssumption
    DEF Init, Stoppers, BeforeServer, BeforeRun, BeforeLaunch, BeforeThreads, Destroyed, Destroying
<1>1. TypeOK
  BY DEF TypeOK, StopSteps, AllLoops
<1>2. CallersInv /\ ThreadsInv
  BY DEF CallersInv, ThreadsInv
<1>3. FlagInv
  BY DEF FlagInv, PastFlag, PastEvent
<1>4. GameInv
  BY DEF GameInv
<1> QED
  BY <1>1, <1>2, <1>3, <1>4 DEF Inv

\* Outside stop() a thread only waits or works: once all of them are, nobody is.
LEMMA NobodyInStop ==
    ASSUME TypeOK, CallersInv, ThreadsInv,
           main \in BeforeThreads \cup Destroying,
           stop["main"] = "none", stop["signal"] = "none"
    PROVE  \A t \in Stoppers : stop[t] = "none"
  BY LifecycleAssumption
  DEF TypeOK, CallersInv, ThreadsInv, Stoppers, Finished, BeforeThreads, BeforeLaunch,
      BeforeRun, BeforeServer, Destroying, Destroyed

\* A step of stop() keeps each conjunct.
LEMMA InvStop == ASSUME Inv, NEW t \in Stoppers, StopStep(t) PROVE Inv'
<1> USE LifecycleAssumption
    DEF Inv, TypeOK, CallersInv, ThreadsInv, FlagInv, GameInv, Stoppers, StopSteps,
        BeforeServer, BeforeRun, BeforeLaunch, BeforeThreads, Destroyed, Destroying,
        PastFlag, PastEvent, Finished, GoesOn, gameVars, threadVars
<1>1. CASE Exchange(t)
  <2>1. TypeOK'
    <3>1. stop' \in [Stoppers -> StopSteps] /\ m_running' \in BOOLEAN
      BY <1>1 DEF Exchange, TakesFlag
    <3>2. (\E u \in Stoppers : stop'[u] # "none") => main \notin {"config", "constructed", "failed"}
      BY <1>1 DEF Exchange, TakesFlag
    <3> QED
      BY <1>1, <3>1, <3>2 DEF Exchange
  <2>2. CallersInv'
    BY <1>1 DEF Exchange, TakesFlag
  <2>3. ThreadsInv'
    BY <1>1 DEF Exchange, TakesFlag
  <2>4. FlagInv'
    BY <1>1 DEF Exchange, TakesFlag
  <2>5. GameInv'
    BY <1>1 DEF Exchange, TakesFlag
  <2> QED
    BY <2>1, <2>2, <2>3, <2>4, <2>5 DEF Inv
<1>2. CASE ShutdownEvent(t)
  BY <1>2 DEF ShutdownEvent
<1>3. CASE Terminate(t)
  <2>1. TypeOK'
    BY <1>3 DEF Terminate
  <2>2. CallersInv'
    BY <1>3 DEF Terminate
  <2>3. ThreadsInv'
    BY <1>3 DEF Terminate
  <2>4. FlagInv'
    BY <1>3 DEF Terminate
  <2>5. GameInv'
    BY <1>3 DEF Terminate
  <2> QED
    BY <2>1, <2>2, <2>3, <2>4, <2>5 DEF Inv
<1>4. CASE WaitPid(t)
  <2>1. TypeOK'
    BY <1>4 DEF WaitPid, HasEnded
  <2>2. CallersInv'
    BY <1>4 DEF WaitPid, HasEnded
  <2>3. ThreadsInv'
    BY <1>4 DEF WaitPid, HasEnded
  <2>4. FlagInv'
    BY <1>4 DEF WaitPid, HasEnded
  <2>5. GameInv'
    BY <1>4 DEF WaitPid, HasEnded
  <2> QED
    BY <2>1, <2>2, <2>3, <2>4, <2>5 DEF Inv
<1>5. CASE StopIoc(t)
  BY <1>5 DEF StopIoc, StopsIoc
<1> QED
  BY <1>1, <1>2, <1>3, <1>4, <1>5 DEF StopStep

\* A step of the main thread keeps each conjunct.
LEMMA InvMain == ASSUME Inv, MainStep PROVE Inv'
<1> USE LifecycleAssumption
    DEF Inv, TypeOK, CallersInv, ThreadsInv, FlagInv, GameInv, Stoppers, StopSteps,
        BeforeServer, BeforeRun, BeforeLaunch, BeforeThreads, Destroyed, Destroying,
        PastFlag, PastEvent, Finished, MainAt, gameVars, threadVars, stopVars
<1>1. CASE Construct
  BY <1>1 DEF Construct
<1>2. CASE Publish
  BY <1>2 DEF Publish
<1>3. CASE SetRunning
  BY <1>3, NobodyInStop DEF SetRunning, AllLoops
<1>4. CASE Launch
  BY <1>4, NobodyInStop DEF Launch
<1>5. CASE SetPid
  BY <1>5 DEF SetPid
<1>6. CASE StartThreads
  BY <1>6 DEF StartThreads, AllLoops
<1>7. CASE JoinAll
  BY <1>7 DEF JoinAll, Call, AllJoined
<1>8. CASE Destroy
  BY <1>8, NobodyInStop DEF Destroy
<1>9. CASE Exit
  BY <1>9 DEF Exit
<1> QED
  BY <1>1, <1>2, <1>3, <1>4, <1>5, <1>6, <1>7, <1>8, <1>9, MainStep DEF MainStep

\* The signal handler, the loops, the console, RCON and the game touch no flag:
\* they call stop(), return from it, or end.
LEMMA InvOthers ==
    ASSUME Inv,
           \/ Signal \/ ConsoleLine \/ ConsoleEnds \/ HeadlessEnds
           \/ \E l \in AllLoops : LoopEnds(l)
           \/ \E t \in IoThreads :
                RconAccept(t) \/ RconPassword(t) \/ RconCommand(t) \/ RconReply(t) \/ IoEnds(t)
    PROVE  Inv'
<1> USE LifecycleAssumption
    DEF Inv, TypeOK, CallersInv, ThreadsInv, FlagInv, GameInv, Stoppers, StopSteps,
        BeforeServer, BeforeRun, BeforeLaunch, BeforeThreads, Destroyed, Destroying,
        PastFlag, PastEvent, Finished, Call, gameVars, threadVars, stopVars
<1>1. CASE Signal
  <2>1. TypeOK'
    <3>1. stop' \in [Stoppers -> StopSteps] /\ crashed' \in BOOLEAN
      BY <1>1 DEF Signal
    <3>2. main \notin {"config", "constructed", "failed"}
      BY <1>1 DEF Signal, ServerKnown
    <3> QED
      BY <1>1, <3>1, <3>2 DEF Signal
  <2>2. CallersInv'
    BY <1>1 DEF Signal, ServerKnown
  <2>3. ThreadsInv'
    BY <1>1 DEF Signal, ServerKnown
  <2>4. FlagInv'
    BY <1>1 DEF Signal, ServerKnown
  <2>5. GameInv'
    BY <1>1 DEF Signal, ServerKnown
  <2> QED
    BY <2>1, <2>2, <2>3, <2>4, <2>5 DEF Inv
<1>2. CASE ConsoleLine
  <2>1. TypeOK'
    BY <1>2 DEF ConsoleLine
  <2>2. CallersInv'
    BY <1>2 DEF ConsoleLine
  <2>3. ThreadsInv'
    BY <1>2 DEF ConsoleLine
  <2>4. FlagInv'
    BY <1>2 DEF ConsoleLine
  <2>5. GameInv'
    BY <1>2 DEF ConsoleLine
  <2> QED
    BY <2>1, <2>2, <2>3, <2>4, <2>5 DEF Inv
<1>3. CASE ConsoleEnds
  BY <1>3 DEF ConsoleEnds
<1>4. CASE HeadlessEnds
  BY <1>4 DEF HeadlessEnds
<1>5. ASSUME NEW l \in AllLoops, LoopEnds(l) PROVE Inv'
  BY <1>5 DEF LoopEnds
<1>6. ASSUME NEW t \in IoThreads, RconAccept(t) PROVE Inv'
  BY <1>6 DEF RconAccept, IoFree
<1>7. ASSUME NEW t \in IoThreads, RconPassword(t) PROVE Inv'
  BY <1>7 DEF RconPassword, IoFree
<1>8. ASSUME NEW t \in IoThreads, RconCommand(t) PROVE Inv'
  <2>1. TypeOK'
    BY <1>8 DEF RconCommand, IoFree
  <2>2. CallersInv'
    BY <1>8 DEF RconCommand, IoFree
  <2>3. ThreadsInv'
    BY <1>8 DEF RconCommand, IoFree
  <2>4. FlagInv'
    BY <1>8 DEF RconCommand, IoFree
  <2>5. GameInv'
    BY <1>8 DEF RconCommand, IoFree
  <2> QED
    BY <2>1, <2>2, <2>3, <2>4, <2>5 DEF Inv
<1>9. ASSUME NEW t \in IoThreads, RconReply(t) PROVE Inv'
  BY <1>9 DEF RconReply
<1>10. ASSUME NEW t \in IoThreads, IoEnds(t) PROVE Inv'
  BY <1>10 DEF IoEnds
<1> QED
  BY <1>1, <1>2, <1>3, <1>4, <1>5, <1>6, <1>7, <1>8, <1>9, <1>10

\* Every step of the server keeps the invariant.
LEMMA InvNext == Inv /\ [Next]_vars => Inv'
<1> SUFFICES ASSUME Inv, [Next]_vars PROVE Inv'
  OBVIOUS
<1>1. CASE UNCHANGED vars
  BY <1>1
  DEF vars, stopVars, gameVars, threadVars, Inv, TypeOK, CallersInv, ThreadsInv, FlagInv,
      GameInv, PastFlag, PastEvent, Finished
<1>2. CASE Next
  BY <1>2, InvStop, InvMain, InvOthers DEF Next
<1> QED
  BY <1>1, <1>2

LEMMA Invariance == Spec => []Inv
  BY InvInit, InvNext, PTL DEF Spec

-----------------------------------------------------------------------------
(* What follows from it.                                                   *)

\* Every reachable state of the server is well typed, and nobody is in stop()
\* before g_server is set.
THEOREM TypeCorrect == Spec => []TypeOK
<1>1. Inv => TypeOK
  BY DEF Inv
<1> QED
  BY <1>1, Invariance, PTL

\* onShutdown is fired once: the console, RCON, signals and the destructor meet
\* in one atomic exchange of m_running.
THEOREM ShutsDownOnce == Spec => []ShutdownOnce
<1>1. Inv => ShutdownOnce
  BY DEF Inv, FlagInv, ShutdownOnce, Destroyed
<1> QED
  BY <1>1, Invariance, PTL

\* The headless game ends before the server, unless terminate() came before
\* launch() had stored its process id.
THEOREM GameGoesFirst == Spec => []NoOrphanGame
<1>1. Inv => NoOrphanGame
  <2> SUFFICES ASSUME Inv, main = "exited", ~late PROVE headless \in {"none", "ended"}
    BY DEF NoOrphanGame
  <2>1. \A t \in Stoppers : stop[t] = "none"
    BY NobodyInStop DEF Inv, CallersInv, Destroyed, Destroying
  <2> QED
    BY <2>1 DEF Inv, FlagInv, GameInv, Destroyed
<1> QED
  BY <1>1, Invariance, PTL

\* No thread runs, and none but the destructor's own and a signal's is inside
\* stop(), when run() has returned and the members are destroyed.
THEOREM ThreadsGoFirst == Spec => []JoinedBeforeDestroyed
<1>1. Inv => JoinedBeforeDestroyed
  BY LifecycleAssumption
  DEF Inv, CallersInv, ThreadsInv, JoinedBeforeDestroyed, Destroying, Destroyed, Finished, Stoppers
<1> QED
  BY <1>1, Invariance, PTL

=============================================================================
