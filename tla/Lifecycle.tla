------------------------------ MODULE Lifecycle ------------------------------
(***************************************************************************)
(* How the dedicated server starts and stops: main(), GameServer::run and  *)
(* stop, the threads that run() starts and joins, the console, RCON, the   *)
(* signal handler and the headless game that the server launches.          *)
(*                                                                         *)
(* stop() is called by the console thread, by an RCON command on an io     *)
(* thread, by the signal handler and by the destructor; its steps can      *)
(* interleave with every other thread.  The handler runs on the main       *)
(* thread, which the kernel prefers and which waits for it.                *)
(***************************************************************************)
EXTENDS Naturals, FiniteSets

CONSTANTS
    IoThreads, \* threads in m_ioc.run()
    Loops      \* vehicleSyncLoop and, by configuration, aiTrafficLoop and
               \* heartbeatLoop

\* authorityNegotiationLoop is started later, when AI traffic is configured.
AllLoops == Loops \cup {"authority"}
Stoppers == {"main", "signal", "console"} \cup IoThreads

ASSUME LifecycleAssumption ==
    /\ IsFiniteSet(IoThreads) /\ IoThreads # {} /\ IsFiniteSet(Loops)
    /\ {"main", "signal", "console"} \cap IoThreads = {}

VARIABLES
    main,      \* where the main thread stands
    stop,      \* thread -> where it stands in stop(), "none" outside
    console,   \* the console thread
    io,        \* io thread -> where it stands
    loops,     \* loops that are running
    m_running,
    stopped,   \* m_ioc was stopped
    headless,  \* the headless game: "none", "running", "killed", "ended"
    m_pid,     \* the launcher has its process id
    rcon,      \* an RCON connection
    crashed,   \* an exception left an io thread, or memory was gone
    shutdowns, \* history: how often onShutdown was fired
    late       \* history: terminate() came before the process id was known

stopVars == <<stop, m_running, stopped, shutdowns, late>>
gameVars == <<headless, m_pid>>
threadVars == <<console, io, loops, rcon>>
vars == <<main, stopVars, gameVars, threadVars, crashed>>

Init ==
    /\ main = "config" /\ stop = [t \in Stoppers |-> "none"]
    /\ console = "unstarted" /\ io = [t \in IoThreads |-> "unstarted"] /\ loops = {}
    /\ m_running = FALSE /\ stopped = FALSE
    /\ headless = "none" /\ m_pid = FALSE
    /\ rcon = "none" /\ crashed = FALSE /\ shutdowns = 0 /\ late = FALSE

-----------------------------------------------------------------------------
(* stop(), by whoever calls it.                                            *)

Call(t) == stop' = [stop EXCEPT ![t] = "exchange"]
GoesOn(t, step) == stop' = [stop EXCEPT ![t] = step]

\* MUTANT: the flag is read, not exchanged.
TestsOnly(t) ==
    GoesOn(t, IF m_running THEN "event" ELSE "none") /\ UNCHANGED m_running

\* if (!m_running.exchange(false)) return;
TakesFlag(t) ==
    GoesOn(t, IF m_running THEN "event" ELSE "none") /\ m_running' = FALSE

Exchange(t) ==
    /\ stop[t] = "exchange"
    /\ TakesFlag(t)
    /\ UNCHANGED <<main, stopped, shutdowns, late, gameVars, threadVars, crashed>>

ShutdownEvent(t) ==
    /\ stop[t] = "event"
    /\ shutdowns' = shutdowns + 1
    /\ GoesOn(t, "terminate")
    /\ UNCHANGED <<main, m_running, stopped, late, gameVars, threadVars, crashed>>

\* HeadlessLauncher::terminate sends SIGTERM ...
Terminate(t) ==
    /\ stop[t] = "terminate"
    /\ GoesOn(t, IF m_pid THEN "wait" ELSE "ioc")
    /\ headless' = IF m_pid /\ headless = "running" THEN "killed" ELSE headless
    /\ late' = ~m_pid
    /\ UNCHANGED <<main, m_running, stopped, shutdowns, m_pid, threadVars, crashed>>

\* MUTANT: the process is not waited for.
NeedNotHaveEnded == TRUE

HasEnded == headless = "ended"

\* ... and waits for the process.
WaitPid(t) ==
    /\ stop[t] = "wait" /\ HasEnded
    /\ m_pid' = FALSE
    /\ GoesOn(t, "ioc")
    /\ UNCHANGED <<main, m_running, stopped, shutdowns, late, headless, threadVars, crashed>>

\* MUTANT: the io_context goes on.
LeavesIocRunning == UNCHANGED stopped

StopsIoc == stopped' = TRUE

StopIoc(t) ==
    /\ stop[t] = "ioc"
    /\ StopsIoc
    /\ GoesOn(t, "none")
    /\ UNCHANGED <<main, m_running, shutdowns, late, gameVars, threadVars, crashed>>

StopStep(t) == Exchange(t) \/ ShutdownEvent(t) \/ Terminate(t) \/ WaitPid(t) \/ StopIoc(t)

-----------------------------------------------------------------------------
(* The main thread.                                                        *)

MainAt(here, next) ==
    /\ main = here /\ stop["signal"] = "none"
    /\ main' = next

\* ServerConfig::load and the constructor may throw: main returns 1.
Construct ==
    /\ MainAt("config", "constructed") \/ MainAt("config", "failed")
    /\ UNCHANGED <<stopVars, gameVars, threadVars, crashed>>

\* g_server = &server
Publish ==
    /\ MainAt("constructed", "published")
    /\ UNCHANGED <<stopVars, gameVars, threadVars, crashed>>

\* run() begins.
SetRunning ==
    /\ MainAt("published", "launch")
    /\ m_running' = TRUE
    /\ loops' = Loops
    /\ UNCHANGED <<stop, stopped, shutdowns, late, gameVars, console, io, rcon, crashed>>

\* launch() finds the game and forks, or does not.
Launch ==
    /\ \/ MainAt("launch", "launched") /\ headless' = "running"
       \/ MainAt("launch", "start") /\ UNCHANGED headless
    /\ UNCHANGED <<stopVars, m_pid, threadVars, crashed>>

SetPid ==
    /\ MainAt("launched", "start")
    /\ m_pid' = TRUE
    /\ UNCHANGED <<stopVars, headless, threadVars, crashed>>

\* The last threads start; onInit is fired.
StartThreads ==
    /\ MainAt("start", "join")
    /\ loops' \in {loops, loops \cup {"authority"}}
    /\ console' = "getline" /\ io' = [t \in IoThreads |-> "run"]
    /\ UNCHANGED <<stopVars, gameVars, rcon, crashed>>

Finished == loops = {} /\ console = "done" /\ \A t \in IoThreads : io[t] = "done"

\* MUTANT: the console thread is not waited for.
FinishedButConsole == loops = {} /\ \A t \in IoThreads : io[t] = "done"

AllJoined == Finished

\* All threads are joined; the destructor calls stop() again.
JoinAll ==
    /\ MainAt("join", "destroy") /\ AllJoined
    /\ Call("main")
    /\ UNCHANGED <<m_running, stopped, shutdowns, late, gameVars, threadVars, crashed>>

Destroy ==
    /\ MainAt("destroy", "destroyed") /\ stop["main"] = "none"
    /\ UNCHANGED <<stopVars, gameVars, threadVars, crashed>>

Exit ==
    /\ MainAt("destroyed", "exited")
    /\ UNCHANGED <<stopVars, gameVars, threadVars, crashed>>

MainStep ==
    Construct \/ Publish \/ SetRunning \/ Launch \/ SetPid \/ StartThreads \/ JoinAll
      \/ Destroy \/ Exit

\* MUTANT: g_server is not tested.
AlwaysCalls == TRUE

\* if (g_server)
ServerKnown == main \notin {"config", "constructed"}

\* SIGINT or SIGTERM; g_server is never reset.
Signal ==
    /\ stop["signal"] = "none" /\ main \notin {"failed", "exited"} /\ ServerKnown
    /\ IF main = "destroyed" THEN crashed' \in BOOLEAN /\ UNCHANGED stop
                             ELSE Call("signal") /\ UNCHANGED crashed
    /\ UNCHANGED <<main, m_running, stopped, shutdowns, late, gameVars, threadVars>>

-----------------------------------------------------------------------------
(* The other threads.                                                      *)

\* while (m_running) in every loop
LoopEnds(l) ==
    /\ l \in loops /\ ~m_running
    /\ loops' = loops \ {l}
    /\ UNCHANGED <<main, stopVars, gameVars, console, io, rcon, crashed>>

\* Console::run: "stop" ends the loop after stop(), end of input ends it without;
\* any other line leaves the lifecycle alone.
ConsoleLine ==
    /\ console = "getline"
    /\ \/ console' = "stopping" /\ Call("console")
       \/ console' = "done" /\ UNCHANGED stop
    /\ UNCHANGED <<main, m_running, stopped, shutdowns, late, gameVars, io, loops, rcon, crashed>>

ConsoleEnds ==
    /\ console = "stopping" /\ stop["console"] = "none"
    /\ console' = "done"
    /\ UNCHANGED <<main, stopVars, gameVars, io, loops, rcon, crashed>>

IoFree(t) == io[t] = "run" /\ ~stopped

\* remote_endpoint() throws when the peer has gone; nothing catches it.
RconAccept(t) ==
    /\ IoFree(t) /\ rcon = "none"
    /\ rcon' = "connected" /\ crashed' \in BOOLEAN
    /\ UNCHANGED <<main, stopVars, gameVars, console, io, loops>>

\* The password is read and answered with a write that throws on an error.
RconPassword(t) ==
    /\ IoFree(t) /\ rcon = "connected"
    /\ rcon' \in {"none", "auth"} /\ crashed' \in BOOLEAN
    /\ UNCHANGED <<main, stopVars, gameVars, console, io, loops>>

RconCommand(t) ==
    /\ IoFree(t) /\ rcon = "auth"
    /\ rcon' = "none"
    /\ \/ io' = [io EXCEPT ![t] = "reply"] /\ Call(t)
       \/ io' = [io EXCEPT ![t] = "reply"] /\ UNCHANGED stop
       \/ UNCHANGED <<io, stop>>
    /\ UNCHANGED <<main, m_running, stopped, shutdowns, late, gameVars, console, loops, crashed>>

\* The reply may throw, and readCmd is a reference to a function object that
\* went out of scope: the next read may start, or anything may happen.
RconReply(t) ==
    /\ io[t] = "reply" /\ stop[t] = "none"
    /\ io' = [io EXCEPT ![t] = "run"]
    /\ rcon' \in {"none", "auth"} /\ crashed' \in BOOLEAN
    /\ UNCHANGED <<main, stopVars, gameVars, console, loops>>

IoEnds(t) ==
    /\ io[t] = "run" /\ stopped
    /\ io' = [io EXCEPT ![t] = "done"]
    /\ UNCHANGED <<main, stopVars, gameVars, console, loops, rcon, crashed>>

\* The game ends, by itself or because of SIGTERM.
HeadlessEnds ==
    /\ headless \in {"running", "killed"}
    /\ headless' = "ended"
    /\ UNCHANGED <<main, stopVars, m_pid, threadVars, crashed>>

Next ==
    /\ ~crashed
    /\ \/ MainStep \/ Signal
       \/ \E t \in Stoppers : StopStep(t)
       \/ \E l \in AllLoops : LoopEnds(l)
       \/ ConsoleLine \/ ConsoleEnds
       \/ \E t \in IoThreads :
            RconAccept(t) \/ RconPassword(t) \/ RconCommand(t) \/ RconReply(t) \/ IoEnds(t)
       \/ HeadlessEnds

Spec == Init /\ [][Next]_vars

\* Threads make progress, the main thread also between signals; the console may
\* wait for input for ever, RCON need not be used, and a game that got SIGTERM
\* ends.
Fairness ==
    /\ SF_vars(~crashed /\ MainStep)
    /\ \A t \in Stoppers : WF_vars(~crashed /\ StopStep(t))
    /\ \A l \in AllLoops : WF_vars(~crashed /\ LoopEnds(l))
    /\ WF_vars(~crashed /\ ConsoleEnds)
    /\ \A t \in IoThreads : WF_vars(~crashed /\ (RconReply(t) \/ IoEnds(t)))
    /\ WF_vars(~crashed /\ headless = "killed" /\ HeadlessEnds)

FairSpec == Spec /\ Fairness

-----------------------------------------------------------------------------
(* Properties.                                                             *)

StopSteps == {"none", "exchange", "event", "terminate", "wait", "ioc"}

\* The values of the variables; nobody is in stop() before there is a server.
TypeOK ==
    /\ main \in {"config", "constructed", "failed", "published", "launch", "launched",
                 "start", "join", "destroy", "destroyed", "exited"}
    /\ stop \in [Stoppers -> StopSteps]
    /\ console \in {"unstarted", "getline", "stopping", "done"}
    /\ io \in [IoThreads -> {"unstarted", "run", "reply", "done"}]
    /\ loops \subseteq AllLoops
    /\ m_running \in BOOLEAN /\ stopped \in BOOLEAN
    /\ headless \in {"none", "running", "killed", "ended"} /\ m_pid \in BOOLEAN
    /\ rcon \in {"none", "connected", "auth"} /\ crashed \in BOOLEAN
    /\ shutdowns \in Nat /\ late \in BOOLEAN
    /\ (\E t \in Stoppers : stop[t] # "none")
         => main \notin {"config", "constructed", "failed"}

\* Plugins rely on one onShutdown: however many threads call stop() at once, it
\* is fired at most once, and exactly once when the server exits.
ShutdownOnce == shutdowns <= 1 /\ (main = "exited" => shutdowns = 1)

\* stop() takes the headless game down: it does not outlive the server, unless
\* a signal came before launch() had stored its process id.
NoOrphanGame == main = "exited" /\ ~late => headless \in {"none", "ended"}

\* run() joins every thread before the members are destroyed: none of them runs,
\* or is inside stop(), when the destructor does.
JoinedBeforeDestroyed ==
    main \in {"destroy", "destroyed", "exited"} =>
      Finished /\ \A t \in Stoppers \ {"main", "signal"} : stop[t] = "none"

\* A stop() that took the flag leads to the end of the process, unless the
\* console thread still waits for a line: nothing wakes it up.
StopCompletes ==
    shutdowns > 0 ~> main = "exited" \/ crashed \/ console = "getline"

=============================================================================
