----------------------------- MODULE Scheduler -----------------------------
(***************************************************************************)
(* conc::Scheduler (cunk/src/scheduler/Scheduler.cpp): a thread that runs  *)
(* tasks at their deadlines.  schedule_once and schedule_periodic push     *)
(* under the mutex and notify; start and shutdown belong to one managing   *)
(* thread, and shutdown clears running_ and notifies without the mutex.    *)
(*                                                                         *)
(* A condition wait is three steps: the predicate, evaluated with the      *)
(* mutex held; blocking, which releases the mutex; waking up, which takes  *)
(* it again.  The deadline of the timed wait is a reference into the       *)
(* vector of the heap, read anew each time the wait begins again: after a  *)
(* push it is the new first task's, or whatever the freed vector now holds *)
(* (Never stands for a value the clock will not reach).                    *)
(***************************************************************************)
EXTENDS Integers, FiniteSets

CONSTANTS SchedTasks,    \* the tasks scheduled, each by one call
          SchedDelays,   \* delays given to schedule_once and schedule_periodic
          SchedInterval, \* interval of a periodic task
          Horizon        \* bound on the clock

ASSUME HorizonAssumption  == Horizon \in Nat
ASSUME IntervalAssumption == SchedInterval \in Nat \ {0}
ASSUME DelaysAssumption   == SchedDelays \subseteq Nat

VARIABLES time,        \* Clock::now()
          timers,      \* queue_: the pending tasks [id, deadline, interval]
          schedRunning,\* running_
          schedPc,     \* scheduler_loop's program counter; it holds mutex_ in Locked
          current,     \* the task it runs
          wakeAt,      \* the deadline its timed wait ends at
          calls,       \* each task's schedule call: "none", "pushed" or "done"
          manager,     \* the managing thread's program counter
          dispatched,  \* history: the tasks that have run
          missed,      \* history: shutdown notified a thread about to block
          disturbed    \* history: a task was scheduled during this timed wait

schedVars == <<time, timers, schedRunning, schedPc, current, wakeAt, calls, manager,
               dispatched, missed, disturbed>>

Never   == Horizon + 1
NoTimer == [id |-> "none", deadline |-> 0, interval |-> 0]

\* The scheduler thread's steps that hold the mutex.
Locked == {"look", "blockEmpty", "blockTimed"}

First == CHOOSE t \in timers : \A u \in timers : t.deadline <= u.deadline

SchedInit ==
    /\ time = 0
    /\ timers = {}
    /\ schedRunning = FALSE
    /\ schedPc = "none"
    /\ current = NoTimer
    /\ wakeAt = Never
    /\ calls = [i \in SchedTasks |-> "none"]
    /\ manager = "new"
    /\ dispatched = {}
    /\ missed = FALSE
    /\ disturbed = FALSE

SchedTick ==
    /\ time < Horizon
    /\ time' = time + 1
    /\ UNCHANGED <<timers, schedRunning, schedPc, current, wakeAt, calls, manager,
                   dispatched, missed, disturbed>>

-----------------------------------------------------------------------------
(* schedule_once (interval 0) and schedule_periodic                        *)

SchedulePush(i, delay, interval) ==
    /\ calls[i] = "none"
    /\ schedPc \notin Locked
    /\ time + delay <= Horizon
    /\ timers' = timers \cup {[id |-> i, deadline |-> time + delay, interval |-> interval]}
    /\ calls' = [calls EXCEPT ![i] = "pushed"]
    /\ disturbed' = (disturbed \/ schedPc \in {"asleepTimed", "wakenTimed"})
    /\ UNCHANGED <<time, schedRunning, schedPc, current, wakeAt, manager, dispatched, missed>>

\* A notification wakes the thread if it sleeps.
Notify == schedPc' = CASE schedPc = "asleepEmpty" -> "wakenEmpty"
                       [] schedPc = "asleepTimed" -> "wakenTimed"
                       [] OTHER -> schedPc

ScheduleNotify(i) ==
    /\ calls[i] = "pushed"
    /\ calls' = [calls EXCEPT ![i] = "done"]
    /\ Notify
    /\ UNCHANGED <<time, timers, schedRunning, current, wakeAt, manager, dispatched, missed, disturbed>>

-----------------------------------------------------------------------------
(* start and shutdown                                                      *)

SchedStart ==
    /\ manager = "new"
    /\ manager' = "started"
    /\ schedRunning' = TRUE
    /\ schedPc' = "test"
    /\ UNCHANGED <<time, timers, current, wakeAt, calls, dispatched, missed, disturbed>>

ShutdownStore ==
    /\ manager = "started"
    /\ manager' = "notify"
    /\ schedRunning' = FALSE
    /\ UNCHANGED <<time, timers, schedPc, current, wakeAt, calls, dispatched, missed, disturbed>>

ShutdownNotify ==
    /\ manager = "notify"
    /\ manager' = "join"
    /\ Notify
    /\ missed' = (schedPc \in {"blockEmpty", "blockTimed"})
    /\ UNCHANGED <<time, timers, schedRunning, current, wakeAt, calls, dispatched, disturbed>>

ShutdownJoin ==
    /\ manager = "join"
    /\ schedPc = "exited"
    /\ manager' = "joined"
    /\ UNCHANGED <<time, timers, schedRunning, schedPc, current, wakeAt, calls, dispatched,
                   missed, disturbed>>

-----------------------------------------------------------------------------
(* scheduler_loop                                                          *)

LoopTest ==
    /\ schedPc = "test"
    /\ schedPc' = IF schedRunning THEN "look" ELSE "exited"
    /\ UNCHANGED <<time, timers, schedRunning, current, wakeAt, calls, manager, dispatched,
                   missed, disturbed>>

\* With the mutex: a due task is taken, its next period pushed before it runs;
\* otherwise the thread is about to wait, for a task or for the first deadline.
LoopLook ==
    /\ schedPc = "look"
    /\ IF timers # {} /\ First.deadline <= time
       THEN /\ current' = First
            /\ timers' = (timers \ {First}) \cup
                 (IF First.interval > 0
                  THEN {[First EXCEPT !.deadline = @ + First.interval]} ELSE {})
            /\ schedPc' = "run"
            /\ UNCHANGED wakeAt
       ELSE /\ wakeAt' = IF timers = {} THEN Never ELSE First.deadline
            /\ schedPc' = CASE ~schedRunning -> "test"
                            [] schedRunning /\ timers = {} -> "blockEmpty"
                            [] OTHER -> "blockTimed"
            /\ UNCHANGED <<current, timers>>
    /\ UNCHANGED <<time, schedRunning, calls, manager, dispatched, missed, disturbed>>

LoopRun ==
    /\ schedPc = "run"
    /\ dispatched' = dispatched \cup {current.id}
    /\ current' = NoTimer
    /\ schedPc' = "test"
    /\ UNCHANGED <<time, timers, schedRunning, wakeAt, calls, manager, missed, disturbed>>

LoopBlock ==
    /\ schedPc \in {"blockEmpty", "blockTimed"}
    /\ schedPc' = IF schedPc = "blockEmpty" THEN "asleepEmpty" ELSE "asleepTimed"
    /\ UNCHANGED <<time, timers, schedRunning, current, wakeAt, calls, manager, dispatched,
                   missed, disturbed>>

\* Mutant: the predicate forgets the stop.
LoopWakenEmptyTimers ==
    /\ schedPc = "wakenEmpty"
    /\ schedPc' = IF timers # {} THEN "test" ELSE "blockEmpty"
    /\ UNCHANGED <<time, timers, schedRunning, current, wakeAt, calls, manager, dispatched,
                   missed, disturbed>>

\* Mutant: the predicate forgets the tasks.
LoopWakenEmptyStop ==
    /\ schedPc = "wakenEmpty"
    /\ schedPc' = IF ~schedRunning THEN "test" ELSE "blockEmpty"
    /\ UNCHANGED <<time, timers, schedRunning, current, wakeAt, calls, manager, dispatched,
                   missed, disturbed>>

\* The untimed wait, notified: the predicate again, with the mutex.
LoopWakenEmpty ==
    /\ schedPc = "wakenEmpty"
    /\ schedPc' = IF ~schedRunning \/ timers # {} THEN "test" ELSE "blockEmpty"
    /\ UNCHANGED <<time, timers, schedRunning, current, wakeAt, calls, manager, dispatched,
                   missed, disturbed>>

\* The timed wait, notified before its time: it begins again unless the
\* scheduler stops.  After a push the deadline it reads is the one it had, the
\* new first task's, or that of a freed vector.
LoopWakenTimed ==
    /\ schedPc = "wakenTimed"
    /\ schedPc' = IF ~schedRunning THEN "test" ELSE "blockTimed"
    /\ wakeAt' \in IF disturbed THEN {wakeAt, First.deadline, Never} ELSE {wakeAt}
    /\ disturbed' = (disturbed /\ schedRunning)
    /\ UNCHANGED <<time, timers, schedRunning, current, calls, manager, dispatched, missed>>

LoopTimeout ==
    /\ schedPc = "asleepTimed"
    /\ wakeAt <= time
    /\ schedPc' = "test"
    /\ disturbed' = FALSE
    /\ UNCHANGED <<time, timers, schedRunning, current, wakeAt, calls, manager, dispatched, missed>>

SchedulerLoop ==
    \/ LoopTest
    \/ LoopLook
    \/ LoopRun
    \/ LoopBlock
    \/ LoopWakenEmpty
    \/ LoopWakenTimed
    \/ LoopTimeout

Schedule(i) ==
    \/ \E d \in SchedDelays, n \in {0, SchedInterval} : SchedulePush(i, d, n)
    \/ ScheduleNotify(i)

SchedNext ==
    \/ SchedTick
    \/ SchedStart
    \/ ShutdownStore
    \/ ShutdownNotify
    \/ ShutdownJoin
    \/ SchedulerLoop
    \/ \E i \in SchedTasks : Schedule(i)

\* Time passes, and a thread that can take a step does: the scheduler's, a
\* caller between its push and its notification, the manager inside shutdown.
\* Nobody has to call schedule or shutdown.
SchedFairness ==
    /\ WF_schedVars(SchedTick)
    /\ WF_schedVars(SchedulerLoop)
    /\ WF_schedVars(ShutdownNotify)
    /\ WF_schedVars(ShutdownJoin)
    /\ \A i \in SchedTasks : WF_schedVars(ScheduleNotify(i))

SchedSpec == SchedInit /\ [][SchedNext]_schedVars /\ SchedFairness

-----------------------------------------------------------------------------
(***************************************************************************)
(* Properties                                                              *)
(***************************************************************************)

\* shutdown returns, unless its notification came in the instant between the
\* thread's last look at running_ and its falling asleep, which the store
\* without the mutex allows (line 81), and the thread waits for no deadline or
\* for a garbage one: then join waits for good.
ShutdownJoins ==
    (manager = "notify") ~>
        (manager = "joined" \/ (missed /\ schedPc \in {"asleepEmpty", "asleepTimed"} /\ wakeAt > Horizon))

\* A scheduled task runs, unless the scheduler is shut down or somebody
\* schedules while its thread sleeps: that wait reads its deadline through a
\* reference into the reallocated heap (line 146).
ScheduledRuns ==
    \A i \in SchedTasks :
        (schedRunning /\ calls[i] # "none") ~> (i \in dispatched \/ ~schedRunning \/ disturbed)
=============================================================================
