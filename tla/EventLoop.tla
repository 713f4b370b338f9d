----------------------------- MODULE EventLoop -----------------------------
(***************************************************************************)
(* conc::EventLoop (cunk/src/event/EventLoop.cpp): events dispatched from  *)
(* any thread wait in a bounded queue; one thread runs the loop (run,      *)
(* run_for or run_one) and calls the handlers registered for the event's   *)
(* type.  stop comes from any thread; on and off come before the loop runs *)
(* or from inside a handler, as IEventLoop.h asks.                         *)
(*                                                                         *)
(* The queue keeps what TicketQueue, which MPMCQueueProofs shows that      *)
(* MPMCQueue implements, promises of it: a push claims its place and       *)
(* publishes it later, and a pop takes the oldest place and releases it    *)
(* later; in between a pop or a push may fail though the queue is neither  *)
(* empty nor full.                                                         *)
(*                                                                         *)
(* Both waits are limited to one millisecond, so a waiting thread always   *)
(* looks again, notified or not.  A handler that throws is one that        *)
(* returns: the loop swallows the exception.                               *)
(***************************************************************************)
EXTENDS Integers, Sequences, FiniteSets

CONSTANTS LoopEvents,    \* the events dispatched, each at most once
          LoopTypes,     \* the event types
          LoopTypeOf(_), \* the type of an event, Event::type_id
          LoopHandlers,  \* the handlers registered, each at most once
          LoopCapacity,  \* capacity of queue_
          LoopMaxRuns    \* bound on the calls of run, run_for and run_one

ASSUME LoopCapacityAssumption == LoopCapacity \in Nat /\ LoopCapacity >= 2
ASSUME LoopMaxRunsAssumption  == LoopMaxRuns \in Nat

VARIABLES pending,      \* queue_: the events waiting
          publishing,   \* those of them whose try_push has claimed a place and not published it
          handlers,     \* handlers_: the type each handler is registered for
          loopRunning,  \* running_
          stopFlag,     \* stop_flag_
          loopPc,       \* the loop thread's program counter
          loopMode,     \* the call it executes: "run", "run_for" or "run_one"
          inHand,       \* the event it processes
          matched,      \* process_one's snapshot of the handlers still to call
          runs,         \* history: calls so far
          offered,      \* history: the events dispatched
          delivered,    \* history: the calls made, as <<handler, event>>
          removed,      \* history: the handlers given to off
          lateCalls,    \* history: calls of each handler after its off
          forgotten     \* history: line 53 or 79 has cleared a stop

loopVars == <<pending, publishing, handlers, loopRunning, stopFlag, loopPc, loopMode, inHand, matched,
              runs, offered, delivered, removed, lateCalls, forgotten>>

NoType  == "none"
NoEvent == "none"

ASSUME LoopTypesAssumption ==
    /\ NoType \notin LoopTypes
    /\ \A e \in LoopEvents : LoopTypeOf(e) \in LoopTypes

LoopInit ==
    /\ pending = <<>>
    /\ publishing = {}
    /\ handlers = [h \in LoopHandlers |-> NoType]
    /\ loopRunning = FALSE
    /\ stopFlag = FALSE
    /\ loopPc = "idle"
    /\ loopMode = "none"
    /\ inHand = NoEvent
    /\ matched = {}
    /\ runs = 0
    /\ offered = {}
    /\ delivered = {}
    /\ removed = {}
    /\ lateCalls = [h \in LoopHandlers |-> 0]
    /\ forgotten = FALSE

\* Where the caller of on and off may be: outside the loop, or in a handler.
InHandlerOrOutside == loopPc = "idle" \/ (loopPc = "call" /\ \E c \in delivered : c[2] = inHand)

On(h, type) ==
    /\ InHandlerOrOutside
    /\ handlers[h] = NoType /\ h \notin removed
    /\ handlers' = [handlers EXCEPT ![h] = type]
    /\ UNCHANGED <<pending, publishing, loopRunning, stopFlag, loopPc, loopMode, inHand, matched, runs,
                   offered, delivered, removed, lateCalls, forgotten>>

Off(h) ==
    /\ InHandlerOrOutside
    /\ handlers[h] # NoType
    /\ handlers' = [handlers EXCEPT ![h] = NoType]
    /\ removed' = removed \cup {h}
    /\ UNCHANGED <<pending, publishing, loopRunning, stopFlag, loopPc, loopMode, inHand, matched, runs,
                   offered, delivered, lateCalls, forgotten>>

\* try_push finds room: while the loop's thread still holds the place it has
\* taken, the ring is short of that place.
HasRoom == Len(pending) + (IF loopPc = "release" THEN 1 ELSE 0) < LoopCapacity

\* dispatch: the result of the push is ignored, a full queue drops the event.
Dispatch(e) ==
    /\ e \notin offered
    /\ offered' = offered \cup {e}
    /\ IF HasRoom
       THEN /\ pending' = Append(pending, e)
            /\ publishing' = publishing \cup {e}
       ELSE UNCHANGED <<pending, publishing>>
    /\ UNCHANGED <<handlers, loopRunning, stopFlag, loopPc, loopMode, inHand, matched, runs,
                   delivered, removed, lateCalls, forgotten>>

\* The end of dispatch's try_push.
DispatchPublish(e) ==
    /\ e \in publishing
    /\ publishing' = publishing \ {e}
    /\ UNCHANGED <<pending, handlers, loopRunning, stopFlag, loopPc, loopMode, inHand, matched,
                   runs, offered, delivered, removed, lateCalls, forgotten>>

Stop ==
    /\ ~stopFlag
    /\ stopFlag' = TRUE
    /\ UNCHANGED <<pending, publishing, handlers, loopRunning, loopPc, loopMode, inHand, matched, runs,
                   offered, delivered, removed, lateCalls, forgotten>>

-----------------------------------------------------------------------------
(* run, run_for and run_one                                                *)

RunCall(mode) ==
    /\ loopPc = "idle" /\ runs < LoopMaxRuns
    /\ runs' = runs + 1
    /\ loopMode' = mode
    /\ loopPc' = IF mode = "run_one" THEN "pop" ELSE "reset"
    /\ loopRunning' = (loopRunning \/ mode # "run_one")
    /\ UNCHANGED <<pending, publishing, handlers, stopFlag, inHand, matched, offered, delivered, removed,
                   lateCalls, forgotten>>

RunReset ==
    /\ loopPc = "reset"
    /\ loopPc' = "test"
    /\ stopFlag' = FALSE
    /\ forgotten' = (forgotten \/ stopFlag)
    /\ UNCHANGED <<pending, publishing, handlers, loopRunning, loopMode, inHand, matched, runs, offered,
                   delivered, removed, lateCalls>>

\* Mutant: the stop flag is not part of the loop's condition.
RunTestDeadline ==
    /\ loopPc = "test"
    /\ loopPc' \in IF loopMode = "run_for" THEN {"pop", "end"} ELSE {"pop"}
    /\ UNCHANGED <<pending, publishing, handlers, loopRunning, stopFlag, loopMode, inHand, matched, runs,
                   offered, delivered, removed, lateCalls, forgotten>>

\* The condition of the loop; the deadline of run_for may have passed.
RunTest ==
    /\ loopPc = "test"
    /\ loopPc' \in CASE stopFlag -> {"end"}
                     [] ~stopFlag /\ loopMode = "run_for" -> {"pop", "end"}
                     [] OTHER -> {"pop"}
    /\ UNCHANGED <<pending, publishing, handlers, loopRunning, stopFlag, loopMode, inHand, matched, runs,
                   offered, delivered, removed, lateCalls, forgotten>>

\* The wait: a notification, one millisecond, or the deadline of run_for.
RunWait ==
    /\ loopPc = "wait"
    /\ loopPc' \in IF loopMode = "run_for" THEN {"test", "end"} ELSE {"test"}
    /\ UNCHANGED <<pending, publishing, handlers, loopRunning, stopFlag, loopMode, inHand, matched, runs,
                   offered, delivered, removed, lateCalls, forgotten>>

RunEnd ==
    /\ loopPc = "end"
    /\ loopPc' = "idle"
    /\ loopRunning' = FALSE
    /\ UNCHANGED <<pending, publishing, handlers, stopFlag, loopMode, inHand, matched, runs, offered,
                   delivered, removed, lateCalls, forgotten>>

-----------------------------------------------------------------------------
(* process_one: pop, snapshot the handlers under the lock, call them       *)

ProcessPop ==
    /\ loopPc = "pop"
    /\ IF pending = <<>> \/ Head(pending) \in publishing
       THEN /\ loopPc' = IF loopMode = "run_one" THEN "idle" ELSE "wait"
            /\ UNCHANGED <<pending, inHand>>
       ELSE /\ loopPc' = "release"
            /\ inHand' = Head(pending)
            /\ pending' = Tail(pending)
    /\ UNCHANGED <<publishing, handlers, loopRunning, stopFlag, loopMode, matched, runs, offered,
                   delivered, removed, lateCalls, forgotten>>

\* The end of try_pop: the place can be claimed again.
ProcessRelease ==
    /\ loopPc = "release"
    /\ loopPc' = "snapshot"
    /\ UNCHANGED <<pending, publishing, handlers, loopRunning, stopFlag, loopMode, inHand, matched,
                   runs, offered, delivered, removed, lateCalls, forgotten>>

\* Mutant: the snapshot is a member that nobody clears.
ProcessSnapshotKept ==
    /\ loopPc = "snapshot"
    /\ loopPc' = "call"
    /\ matched' = {h \in LoopHandlers : handlers[h] = LoopTypeOf(inHand)}
                  \cup {c[1] : c \in {d \in delivered : d[2] # inHand}}
    /\ UNCHANGED <<pending, publishing, handlers, loopRunning, stopFlag, loopMode, inHand, runs, offered,
                   delivered, removed, lateCalls, forgotten>>

ProcessSnapshot ==
    /\ loopPc = "snapshot"
    /\ loopPc' = "call"
    /\ matched' = {h \in LoopHandlers : handlers[h] = LoopTypeOf(inHand)}
    /\ UNCHANGED <<pending, publishing, handlers, loopRunning, stopFlag, loopMode, inHand, runs, offered,
                   delivered, removed, lateCalls, forgotten>>

\* Mutant: an exception of a handler leaves the loop over the handlers.
ProcessCallThrows(h) ==
    /\ loopPc = "call" /\ h \in matched
    /\ matched' \in {matched \ {h}, {}}
    /\ delivered' = delivered \cup {<<h, inHand>>}
    /\ lateCalls' = [lateCalls EXCEPT ![h] = @ + (IF h \in removed THEN 1 ELSE 0)]
    /\ UNCHANGED <<pending, publishing, handlers, loopRunning, stopFlag, loopPc, loopMode, inHand, runs,
                   offered, removed, forgotten>>

ProcessCall(h) ==
    /\ loopPc = "call" /\ h \in matched
    /\ matched' = matched \ {h}
    /\ delivered' = delivered \cup {<<h, inHand>>}
    /\ lateCalls' = [lateCalls EXCEPT ![h] = @ + (IF h \in removed THEN 1 ELSE 0)]
    /\ UNCHANGED <<pending, publishing, handlers, loopRunning, stopFlag, loopPc, loopMode, inHand, runs,
                   offered, removed, forgotten>>

ProcessDone ==
    /\ loopPc = "call" /\ matched = {}
    /\ inHand' = NoEvent
    /\ loopPc' = IF loopMode = "run_one" THEN "idle" ELSE "test"
    /\ UNCHANGED <<pending, publishing, handlers, loopRunning, stopFlag, loopMode, matched, runs, offered,
                   delivered, removed, lateCalls, forgotten>>

ProcessOne ==
    \/ ProcessPop
    \/ ProcessRelease
    \/ ProcessSnapshot
    \/ \E h \in LoopHandlers : ProcessCall(h)
    \/ ProcessDone

Run == RunReset \/ RunTest \/ RunWait \/ RunEnd

LoopNext ==
    \/ \E h \in LoopHandlers : Off(h) \/ \E type \in LoopTypes : On(h, type)
    \/ \E e \in LoopEvents : Dispatch(e) \/ DispatchPublish(e)
    \/ Stop
    \/ \E mode \in {"run", "run_for", "run_one"} : RunCall(mode)
    \/ Run
    \/ ProcessOne

\* The loop's thread takes its steps, and a dispatch that has begun ends; nobody
\* has to call anything.
LoopFairness ==
    /\ WF_loopVars(Run \/ ProcessOne)
    /\ \A e \in LoopEvents : WF_loopVars(DispatchPublish(e))

LoopSpec == LoopInit /\ [][LoopNext]_loopVars /\ LoopFairness

-----------------------------------------------------------------------------
(***************************************************************************)
(* Properties                                                              *)
(***************************************************************************)

\* stop ends the loop, unless run or run_for clears the flag after it: running_
\* is already true at line 52, so a thread that has seen the loop run may still
\* have its stop forgotten at line 53.
StopEndsRun == (stopFlag /\ loopRunning) ~> (~loopRunning \/ forgotten)

\* An event in the queue reaches every handler registered for its type while
\* the loop runs, whatever the other handlers do, unless the handler is removed
\* or the loop ends first.
QueuedReachesHandler ==
    \A e \in LoopEvents, h \in LoopHandlers :
        (loopRunning /\ handlers[h] = LoopTypeOf(e) /\ \E i \in DOMAIN pending : pending[i] = e)
            ~> (<<h, e>> \in delivered \/ h \in removed \/ ~loopRunning)

\* A handler that removes itself or another is called at most once more: for
\* the event in hand, whose handlers process_one has already copied (line 125).
OffEndsCalls == \A h \in LoopHandlers : lateCalls[h] <= 1
=============================================================================
