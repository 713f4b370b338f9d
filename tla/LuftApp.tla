------------------------------ MODULE LuftApp ------------------------------
(***************************************************************************)
(* The luft program (luft/src/app/main.cpp): the main thread steps the     *)
(* simulation to keep up with the clock, publishes telemetry, serves the   *)
(* window and shuts everything down; the network thread polls for commands *)
(* and applies them to the same engine; a signal raises g_quit_flag.       *)
(*                                                                         *)
(* What NetworkService does with its sockets is module LuftNetwork; here a *)
(* poll may bring a command, also one that was under way when main stopped *)
(* the service.                                                            *)
(***************************************************************************)
EXTENDS SimulationEngine

CONSTANTS AppHorizon,        \* bound on the clock, in steps
          MaxStepsPerFrame,  \* kMaxStepsPerFrame
          MaxSimTimes,       \* values of config.max_sim_time, 0 is none
          TelemetryInterval, \* telemetry_interval, in steps
          MaxCommands        \* bound on the commands the network brings

ASSUME AppAssumption ==
    /\ {AppHorizon, MaxStepsPerFrame, MaxCommands} \subseteq Nat
    /\ TelemetryInterval \in Nat \ {0}
    /\ MaxSimTimes \subseteq Nat

SimCommands == {"Start", "Pause", "Resume", "Reset", "Stop"}

VARIABLES networking,   \* the network service was started
          windowed,     \* there is a user interface
          max_sim_time, \* config.max_sim_time
          wallTime,     \* the clock, in steps
          quit,         \* g_quit_flag
          mainPc,       \* the main thread's program counter
          elapsed,      \* main's reading of the clock in this frame
          steps,        \* steps_this_frame
          nextTelemetry,\* next_telemetry
          netPc,        \* the network thread's program counter
          commands,     \* history: commands so far
          masked        \* history: a command has taken the engine out of Error

appVars == <<simVars, networking, windowed, max_sim_time, wallTime, quit, mainPc, elapsed, steps,
             nextTelemetry, netPc, commands, masked>>

config == <<networking, windowed, max_sim_time>>

\* From line 318 on: initialized and started, network thread and all.
AppInit ==
    /\ networking \in BOOLEAN /\ windowed \in BOOLEAN
    /\ max_sim_time \in MaxSimTimes
    /\ simState = "Initialized" /\ simTime = 0
    /\ wallTime = 0
    /\ quit = FALSE
    /\ mainPc = "start"
    /\ elapsed = 0 /\ steps = 0 /\ nextTelemetry = 0
    /\ netPc = IF networking THEN "test" ELSE "exited"
    /\ commands = 0
    /\ masked = FALSE

AppTick ==
    /\ wallTime < AppHorizon
    /\ wallTime' = wallTime + 1
    /\ UNCHANGED <<simVars, config, quit, mainPc, elapsed, steps, nextTelemetry, netPc, commands, masked>>

Signal ==
    /\ ~quit
    /\ quit' = TRUE
    /\ UNCHANGED <<simVars, config, wallTime, mainPc, elapsed, steps, nextTelemetry, netPc, commands, masked>>

-----------------------------------------------------------------------------
(* The main thread                                                         *)

MainAt(from, to) == mainPc = from /\ mainPc' = to

MainStart ==
    /\ MainAt("start", "test")
    /\ Start
    /\ UNCHANGED <<config, wallTime, quit, elapsed, steps, nextTelemetry, netPc, commands, masked>>

MainTest ==
    /\ MainAt("test", IF quit THEN "stop" ELSE "steps")
    /\ elapsed' = wallTime
    /\ steps' = 0
    /\ UNCHANGED <<simVars, config, wallTime, quit, nextTelemetry, netPc, commands, masked>>

\* The condition of the inner loop; step() looks at the state again.
MainBehind ==
    /\ MainAt("steps", IF simTime < elapsed /\ simState = "Running" /\ steps < MaxStepsPerFrame
                       THEN "step" ELSE "error")
    /\ UNCHANGED <<simVars, config, wallTime, quit, elapsed, steps, nextTelemetry, netPc, commands, masked>>

MainStep(valid) ==
    /\ MainAt("step", "steps")
    /\ StepEngine(valid)
    /\ steps' = steps + 1
    /\ UNCHANGED <<config, wallTime, quit, elapsed, nextTelemetry, netPc, commands, masked>>

\* Mutant: the error is not looked for.
MainErrorIgnored ==
    /\ MainAt("error", "limit")
    /\ UNCHANGED <<simVars, config, wallTime, quit, elapsed, steps, nextTelemetry, netPc, commands, masked>>

MainError ==
    /\ MainAt("error", IF simState = "Error" THEN "stop" ELSE "limit")
    /\ UNCHANGED <<simVars, config, wallTime, quit, elapsed, steps, nextTelemetry, netPc, commands, masked>>

MainLimit ==
    /\ MainAt("limit", IF max_sim_time > 0 /\ simTime >= max_sim_time THEN "stop" ELSE "publish")
    /\ UNCHANGED <<simVars, config, wallTime, quit, elapsed, steps, nextTelemetry, netPc, commands, masked>>

\* A reset puts sim_time_ back to 0 and leaves next_telemetry where it is.
MainPublish ==
    /\ MainAt("publish", IF windowed THEN "window" ELSE "test")
    /\ nextTelemetry' = nextTelemetry + (IF simTime >= nextTelemetry THEN TelemetryInterval ELSE 0)
    /\ UNCHANGED <<simVars, config, wallTime, quit, elapsed, steps, netPc, commands, masked>>

MainWindowClosed ==
    /\ MainAt("window", "stop")
    /\ UNCHANGED <<simVars, config, wallTime, quit, elapsed, steps, nextTelemetry, netPc, commands, masked>>

\* A command in one critical section; Reset is initialize here and start in
\* another (the two calls of dispatch_sim_command and of main's buttons).
Obey(command) ==
    /\ CASE command = "Start"  -> Start
         [] command = "Pause"  -> Pause
         [] command = "Resume" -> Resume
         [] command = "Stop"   -> StopEngine
         [] command = "Reset"  -> Initialize
    /\ masked' = (masked \/ (simState = "Error" /\ simState' # "Error"))

MainButton(command) ==
    /\ MainAt("window", IF command = "Reset" THEN "restart" ELSE "test")
    /\ commands < MaxCommands
    /\ commands' = commands + 1
    /\ Obey(command)
    /\ UNCHANGED <<config, wallTime, quit, elapsed, steps, nextTelemetry, netPc>>

MainNoButton ==
    /\ MainAt("window", "test")
    /\ UNCHANGED <<simVars, config, wallTime, quit, elapsed, steps, nextTelemetry, netPc, commands, masked>>

MainRestart ==
    /\ MainAt("restart", "test")
    /\ Start
    /\ UNCHANGED <<config, wallTime, quit, elapsed, steps, nextTelemetry, netPc, commands, masked>>

MainStop ==
    /\ MainAt("stop", "close")
    /\ StopEngine
    /\ UNCHANGED <<config, wallTime, quit, elapsed, steps, nextTelemetry, netPc, commands, masked>>

\* NetworkService::stop: a poll under way goes on with what it has read.
MainClose ==
    /\ MainAt("close", "join")
    /\ netPc' = IF netPc = "poll" THEN "late" ELSE netPc
    /\ UNCHANGED <<simVars, config, wallTime, quit, elapsed, steps, nextTelemetry, commands, masked>>

MainJoin ==
    /\ MainAt("join", "exited")
    /\ netPc = "exited"
    /\ UNCHANGED <<simVars, config, wallTime, quit, elapsed, steps, nextTelemetry, netPc, commands, masked>>

MainFrame ==
    \/ MainStart
    \/ MainTest
    \/ MainBehind
    \/ \E valid \in BOOLEAN : MainStep(valid)
    \/ MainError
    \/ MainLimit
    \/ MainPublish
    \/ MainRestart
    \/ MainStop
    \/ MainClose
    \/ MainJoin

MainWindow ==
    \/ MainWindowClosed
    \/ MainNoButton
    \/ \E command \in SimCommands : MainButton(command)

-----------------------------------------------------------------------------
(* The network thread                                                      *)

\* The condition of its loop.  Once the service is closed poll returns at once.
NetTest ==
    /\ netPc = "test"
    /\ netPc' = CASE quit -> "exited"
                  [] ~quit /\ mainPc \in {"join", "exited"} -> "test"
                  [] OTHER -> "poll"
    /\ UNCHANGED <<simVars, config, wallTime, quit, mainPc, elapsed, steps, nextTelemetry, commands, masked>>

NetCommand(command) ==
    /\ netPc \in {"poll", "late"}
    /\ commands < MaxCommands
    /\ commands' = commands + 1
    /\ Obey(command)
    /\ netPc' = IF command = "Reset" THEN "restart" ELSE netPc
    /\ UNCHANGED <<config, wallTime, quit, mainPc, elapsed, steps, nextTelemetry>>

NetRestart ==
    /\ netPc = "restart"
    /\ Start
    /\ netPc' = IF mainPc \in {"join", "exited"} THEN "late" ELSE "poll"
    /\ UNCHANGED <<config, wallTime, quit, mainPc, elapsed, steps, nextTelemetry, commands, masked>>

NetReturn ==
    /\ netPc \in {"poll", "late"}
    /\ netPc' = "test"
    /\ UNCHANGED <<simVars, config, wallTime, quit, mainPc, elapsed, steps, nextTelemetry, commands, masked>>

NetThread == NetTest \/ NetRestart \/ NetReturn \/ \E command \in SimCommands : NetCommand(command)

AppNext == AppTick \/ Signal \/ MainFrame \/ MainWindow \/ NetThread

\* Both threads take their steps and time passes; a poll returns, the number
\* of commands it can bring being bounded.  No signal and no button has to come.
AppFairness ==
    /\ WF_appVars(AppTick)
    /\ WF_appVars(MainFrame \/ MainWindow)
    /\ WF_appVars(NetThread)

AppSpec == AppInit /\ [][AppNext]_appVars /\ AppFairness

-----------------------------------------------------------------------------
(***************************************************************************)
(* Properties                                                              *)
(***************************************************************************)

ShuttingDown == mainPc \in {"stop", "close", "join", "exited"}

\* A signal ends the program, and so do a diverged simulation, the time limit
\* and a closed window; except that a command which takes the engine out of
\* Error before main looks makes main go on, and that without a signal the
\* network thread never ends (main.cpp:289), so that a program with a network
\* that leaves its loop by break (lines 353, 360, 386) waits in join for good.
AppExits ==
    /\ quit ~> (mainPc = "exited")
    /\ (simState = "Error") ~> (ShuttingDown \/ masked)
    /\ (ShuttingDown /\ ~networking) ~> (mainPc = "exited")
=============================================================================
