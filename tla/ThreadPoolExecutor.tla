------------------------- MODULE ThreadPoolExecutor -------------------------
(***************************************************************************)
(* conc::ThreadPoolExecutor (cunk/src/executor/ThreadPoolExecutor.cpp):    *)
(* workers with a queue each, work stealing, a global overflow queue and a *)
(* shutdown that drains.  The queues are MPMCQueues, taken at the level of *)
(* their abstract specification TicketQueue: claiming and publishing a     *)
(* position are two steps, taking and releasing one are two steps.         *)
(*                                                                         *)
(* Tasks are submitted from outside the pool and return (an exception is   *)
(* swallowed, which is the same).  task_count is written and never read.   *)
(* submit's notify_one has no effect: a worker it wakes finds the wait's   *)
(* predicate, stop_, false and goes back to waiting.                       *)
(***************************************************************************)
EXTENDS Tickets, Sequences, FiniteSets

CONSTANTS N,               \* worker threads
          Submitters,      \* threads that call submit
          MaxTasks,        \* bound on the tasks submitted in a behaviour
          WorkerCapacity,  \* worker_queue_size, after rounding up
          GlobalCapacity   \* global_queue_size, after rounding up

ASSUME PoolAssumption ==
    /\ N \in Nat \ {0}
    /\ WorkerCapacity \in Nat /\ WorkerCapacity >= 2
    /\ GlobalCapacity \in Nat /\ GlobalCapacity >= 2
    /\ MaxTasks \in Nat

\* Tasks are numbered in the order of their submissions.
Tasks  == 1 .. MaxTasks
NoTask == 0                          \* an empty std::function

Workers     == 0 .. N - 1
Global      == N                     \* global_queue_
Queues      == 0 .. N
Capacity(q) == IF q = Global THEN GlobalCapacity ELSE WorkerCapacity

VARIABLES stop,         \* stop_
          next_worker,  \* next_worker_
          queue,        \* the queues: accepted tasks, positions taken, positions
                        \* being written and being read
          sub,          \* locals of each submit
          worker,       \* locals of each worker_loop
          manager,      \* the thread that calls shutdown
          outcome,      \* history: what became of each submission
          runs,         \* history: how often each task was invoked
          overlap       \* history: the tasks in submit when stop_ was set

poolVars == <<stop, next_worker, queue>>
histVars == <<outcome, runs, overlap>>
vars     == <<poolVars, sub, worker, manager, histVars>>

Init ==
    /\ stop = FALSE
    /\ next_worker = 0
    /\ queue = [q \in Queues |-> [log |-> << >>, taken |-> 0, writing |-> {}, reading |-> {}]]
    /\ sub = [s \in Submitters |-> [pc |-> "idle", task |-> NoTask, q |-> 0, pos |-> 0]]
    /\ worker = [w \in Workers |-> [pc |-> "top", back |-> "top", i |-> 1, q |-> w, pos |-> 0]]
    /\ manager = "idle"
    /\ outcome = [t \in Tasks |-> "none"]
    /\ runs = [t \in Tasks |-> 0]
    /\ overlap = {}

-----------------------------------------------------------------------------
(* submit                                                                  *)

HasRoom(q) == Room(Len(queue[q].log), queue[q].taken, queue[q].reading, Capacity(q))
HasTask(q) == Ready(Len(queue[q].log), queue[q].taken, queue[q].writing)

\* The check of stop_ and the choice of a worker.
SubmitBegin(s, t) ==
    /\ sub[s].pc = "idle"
    /\ outcome[t] = "none"
    /\ \A u \in 1 .. t - 1 : outcome[u] # "none"
    /\ IF stop
       THEN /\ outcome' = [outcome EXCEPT ![t] = "rejected"]
            /\ UNCHANGED <<sub, next_worker>>
       ELSE /\ sub' = [sub EXCEPT ![s] = [pc |-> "push", task |-> t, q |-> next_worker % N, pos |-> 0]]
            /\ next_worker' = next_worker + 1
            /\ outcome' = [outcome EXCEPT ![t] = "pending"]
    /\ UNCHANGED <<stop, queue, worker, manager, runs, overlap>>

\* The submitter's task gets the next position of queue q.
ClaimPosition(s, q, f) ==
    /\ queue' = [queue EXCEPT ![q].log = Append(@, f), ![q].writing = @ \cup {Len(queue[q].log)}]
    /\ sub' = [sub EXCEPT ![s].pc = "publish", ![s].q = q, ![s].pos = Len(queue[q].log)]

\* Mutant: the capacity of the worker's queue is not checked.
SubmitPushUnchecked(s) ==
    /\ sub[s].pc = "push"
    /\ ClaimPosition(s, sub[s].q, sub[s].task)
    /\ UNCHANGED <<stop, next_worker, worker, manager, histVars>>

\* try_push takes its argument by value: once it has failed, the task is gone
\* and what goes to the overflow queue is an empty function.
SubmitPush(s) ==
    /\ sub[s].pc = "push"
    /\ \/ HasRoom(sub[s].q) /\ ClaimPosition(s, sub[s].q, sub[s].task)
       \/ ~HasRoom(sub[s].q) /\ sub' = [sub EXCEPT ![s].pc = "overflow"] /\ UNCHANGED queue
    /\ UNCHANGED <<stop, next_worker, worker, manager, histVars>>

SubmitOverflow(s) ==
    /\ sub[s].pc = "overflow"
    /\ \/ HasRoom(Global) /\ ClaimPosition(s, Global, NoTask) /\ UNCHANGED outcome
       \/ /\ ~HasRoom(Global)
          /\ sub' = [sub EXCEPT ![s].pc = "idle"]
          /\ outcome' = [outcome EXCEPT ![sub[s].task] = "dropped"]
          /\ UNCHANGED queue
    /\ UNCHANGED <<stop, next_worker, worker, manager, runs, overlap>>

\* Mutant: the store that publishes the position is missing.
SubmitUnpublished(s) ==
    /\ sub[s].pc = "publish"
    /\ sub' = [sub EXCEPT ![s].pc = "idle"]
    /\ outcome' = [outcome EXCEPT ![sub[s].task] = "queued"]
    /\ UNCHANGED <<stop, next_worker, queue, worker, manager, runs, overlap>>

\* The queue's release store makes the position visible; submit returns.
SubmitPublish(s) ==
    /\ sub[s].pc = "publish"
    /\ queue' = [queue EXCEPT ![sub[s].q].writing = @ \ {sub[s].pos}]
    /\ sub' = [sub EXCEPT ![s].pc = "idle"]
    /\ outcome' = [outcome EXCEPT ![sub[s].task] = "queued"]
    /\ UNCHANGED <<stop, next_worker, worker, manager, runs, overlap>>

-----------------------------------------------------------------------------
(* worker_loop                                                             *)

Goto(w, pc) == worker' = [worker EXCEPT ![w].pc = pc]

\* Mutant: a task is executed from the queue and left in it.
PopKeeps(w, q, back) ==
    /\ HasTask(q)
    /\ queue' = [queue EXCEPT ![q].reading = @ \cup {queue[q].taken}]
    /\ worker' = [worker EXCEPT ![w] = [pc |-> "run", back |-> back, i |-> 1,
                                        q |-> q, pos |-> queue[q].taken]]

\* try_pop of queue q finds a task (the worker continues at back once it has
\* run it) or does not.
Pop(w, q, back) ==
    /\ HasTask(q)
    /\ queue' = [queue EXCEPT ![q].taken = @ + 1, ![q].reading = @ \cup {queue[q].taken}]
    /\ worker' = [worker EXCEPT ![w] = [pc |-> "run", back |-> back, i |-> 1,
                                        q |-> q, pos |-> queue[q].taken]]

PopFails(q) == ~HasTask(q) /\ UNCHANGED queue

\* The slot is released and the task runs; an empty function throws and the
\* exception is swallowed.
Execute(w) ==
    LET f == queue[worker[w].q].log[worker[w].pos + 1]
    IN  /\ worker[w].pc = "run"
        /\ queue' = [queue EXCEPT ![worker[w].q].reading = @ \ {worker[w].pos}]
        /\ runs' = IF f = NoTask THEN runs ELSE [runs EXCEPT ![f] = @ + 1]
        /\ Goto(w, worker[w].back)
        /\ UNCHANGED <<stop, next_worker, sub, manager, outcome, overlap>>

CheckStop(w) ==
    /\ worker[w].pc = "top"
    /\ Goto(w, IF stop THEN "drain_own" ELSE "own")
    /\ UNCHANGED <<poolVars, sub, manager, histVars>>

TryOwn(w) ==
    /\ worker[w].pc = "own"
    /\ \/ Pop(w, w, "top")
       \/ /\ PopFails(w)
          /\ worker' = [worker EXCEPT ![w].pc = IF N > 1 THEN "steal" ELSE "global", ![w].i = 1]
    /\ UNCHANGED <<stop, next_worker, sub, manager, histVars>>

\* One victim of try_steal, in round-robin order.
TrySteal(w) ==
    LET victim == (w + worker[w].i) % N
    IN  /\ worker[w].pc = "steal"
        /\ \/ Pop(w, victim, "top")
           \/ /\ PopFails(victim)
              /\ worker' = [worker EXCEPT ![w].pc = IF worker[w].i + 1 < N THEN "steal" ELSE "global",
                                          ![w].i = @ + 1]
        /\ UNCHANGED <<stop, next_worker, sub, manager, histVars>>

TryGlobal(w) ==
    /\ worker[w].pc = "global"
    /\ \/ Pop(w, Global, "top")
       \/ PopFails(Global) /\ Goto(w, "sleep")
    /\ UNCHANGED <<stop, next_worker, sub, manager, histVars>>

\* wait_for evaluates its predicate, and then blocks: stop_ can be set and
\* notified between the two, because shutdown does not take wake_mutex_.
Sleep(w) ==
    /\ \/ worker[w].pc = "sleep" /\ Goto(w, IF stop THEN "top" ELSE "blocking")
       \/ worker[w].pc = "blocking" /\ Goto(w, "blocked")
    /\ UNCHANGED <<poolVars, sub, manager, histVars>>

\* Mutant: an untimed wait.
WaitForever(w) == worker[w].pc = "blocked" /\ FALSE /\ UNCHANGED vars

\* 100 microseconds have passed.
Timeout(w) ==
    /\ worker[w].pc = "blocked"
    /\ Goto(w, "top")
    /\ UNCHANGED <<poolVars, sub, manager, histVars>>

\* Mutant: a worker leaves with its own queue undrained.
DrainGlobalOnly(w) ==
    /\ worker[w].pc = "drain_own"
    /\ Goto(w, "drain_global")
    /\ UNCHANGED <<poolVars, sub, manager, histVars>>

DrainOwn(w) ==
    /\ worker[w].pc = "drain_own"
    /\ \/ Pop(w, w, "drain_own")
       \/ PopFails(w) /\ Goto(w, "drain_global")
    /\ UNCHANGED <<stop, next_worker, sub, manager, histVars>>

DrainGlobal(w) ==
    /\ worker[w].pc = "drain_global"
    /\ \/ Pop(w, Global, "drain_global")
       \/ PopFails(Global) /\ Goto(w, "exited")
    /\ UNCHANGED <<stop, next_worker, sub, manager, histVars>>

WorkerStep(w) ==
    \/ CheckStop(w) \/ TryOwn(w) \/ TrySteal(w) \/ TryGlobal(w)
    \/ Sleep(w) \/ Timeout(w) \/ Execute(w)
    \/ DrainOwn(w) \/ DrainGlobal(w)

SubmitStep(s) == SubmitPush(s) \/ SubmitOverflow(s) \/ SubmitPublish(s)

-----------------------------------------------------------------------------
(* shutdown, called once                                                   *)

InSubmit == {sub[s].task : s \in {x \in Submitters : sub[x].pc # "idle"}}

Stop ==
    /\ manager = "idle"
    /\ stop' = TRUE
    /\ overlap' = InSubmit
    /\ manager' = "notify"
    /\ UNCHANGED <<next_worker, queue, sub, worker, outcome, runs>>

\* notify_all, without the mutex: it reaches the workers that block already.
NotifyAll ==
    /\ manager = "notify"
    /\ manager' = "join"
    /\ worker' = [w \in Workers |-> IF worker[w].pc = "blocked"
                                    THEN [worker[w] EXCEPT !.pc = "sleep"] ELSE worker[w]]
    /\ UNCHANGED <<poolVars, sub, histVars>>

Join ==
    /\ manager = "join"
    /\ \A w \in Workers : worker[w].pc = "exited"
    /\ manager' = "done"
    /\ UNCHANGED <<poolVars, sub, worker, histVars>>

Next ==
    \/ \E s \in Submitters : (\E t \in Tasks : SubmitBegin(s, t)) \/ SubmitStep(s)
    \/ \E w \in Workers : WorkerStep(w)
    \/ Stop \/ NotifyAll \/ Join

Spec == Init /\ [][Next]_vars

\* Threads that are inside a call keep running; nobody has to call submit or
\* shutdown.  A timed wait ends.
Fairness ==
    /\ \A s \in Submitters : WF_vars(SubmitStep(s))
    /\ \A w \in Workers : WF_vars(WorkerStep(w))
    /\ WF_vars(NotifyAll \/ Join)

FairSpec == Spec /\ Fairness

(***************************************************************************)
(* Properties                                                              *)
(***************************************************************************)

\* The type of every variable; the positions claimed and not released never
\* span more than a lap of the ring.
TypeOK ==
    /\ stop \in BOOLEAN
    /\ next_worker \in 0 .. MaxTasks
    /\ \A q \in Queues :
          LET r == queue[q]
          IN  /\ r.log \in Seq(Tasks \cup {NoTask})
              /\ r.taken \in 0 .. Len(r.log)
              /\ r.writing \subseteq r.taken .. Len(r.log) - 1
              /\ r.reading \subseteq Len(r.log) - Capacity(q) .. r.taken - 1
    /\ \A s \in Submitters :
          /\ sub[s].pc \in {"idle", "push", "overflow", "publish"}
          /\ sub[s].task \in Tasks \cup {NoTask}
          /\ sub[s].q \in Queues
          /\ sub[s].pc = "publish" => sub[s].pos \in queue[sub[s].q].writing
    /\ \A w \in Workers :
          /\ worker[w].pc \in {"top", "own", "steal", "global", "sleep", "blocking", "blocked", "run",
                               "drain_own", "drain_global", "exited"}
          /\ worker[w].back \in {"top", "drain_own", "drain_global"}
          /\ worker[w].i \in 1 .. N
          /\ worker[w].q \in Queues
          /\ worker[w].pc = "run" => worker[w].pos \in queue[worker[w].q].reading
    /\ manager \in {"idle", "notify", "join", "done"}
    /\ outcome \in [Tasks -> {"none", "pending", "queued", "dropped", "rejected"}]
    /\ runs \in [Tasks -> Nat]
    /\ overlap \subseteq Tasks

\* A task in a queue has not run; a task taken from one is in the hands of
\* exactly one worker or has run exactly once, whether the owner or a thief
\* popped it, in the loop or in the drain.
ExactlyOnce ==
    \A q \in Queues : \A i \in 0 .. Len(queue[q].log) - 1 :
        LET t      == queue[q].log[i + 1]
            inHand == {w \in Workers : worker[w].pc = "run" /\ worker[w].q = q /\ worker[w].pos = i}
        IN  t # NoTask =>
              runs[t] + Cardinality(inHand) = IF i < queue[q].taken THEN 1 ELSE 0

\* When shutdown has returned, a task left in a worker's queue is one whose
\* submit overlapped the shutdown, or was accepted behind such a task.
\* Everything else was drained.
DrainedAtShutdown ==
    manager = "done" =>
        /\ \A w \in Workers : \A i \in queue[w].taken + 1 .. Len(queue[w].log) :
              \E j \in 1 .. i : queue[w].log[j] \in overlap
        /\ queue[Global].taken < Len(queue[Global].log) => overlap # {}

\* shutdown returns, although its notification can miss a worker that is
\* about to block: the timed wait is what saves it.
ShutdownReturns == manager = "notify" ~> manager = "done"

\* A task accepted by a worker's queue is run, unless submits were under way
\* when the pool was shut down.
EventuallyRun ==
    \A t \in Tasks :
        (outcome[t] = "queued" /\ \E w \in Workers : \E i \in 1 .. Len(queue[w].log) : queue[w].log[i] = t)
            ~> (runs[t] = 1 \/ overlap # {})

\* ThreadPoolExecutor.h:8 says the global queue is for when a worker's queue
\* is full: a task that submit has queued is in a queue or has been in one.
NoTaskLost ==
    \A t \in Tasks : outcome[t] = "queued" =>
        \E q \in Queues : \E i \in 1 .. Len(queue[q].log) : queue[q].log[i] = t
=============================================================================
