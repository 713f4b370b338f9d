------------------------ MODULE MCCunkCoordination ------------------------
(***************************************************************************)
(* Instances for TLC of cunk's coordination primitives.  They share no     *)
(* state: each behaviour exercises one of them and leaves the others in an *)
(* initial state, so that one run explores their sum, not their product.   *)
(***************************************************************************)
EXTENDS Scheduler, EventLoop, AsyncTask, BackpressuredQueue

CONSTANTS e1, e2, e3, x, y, h1, h2

VARIABLE exercised

vars == <<schedVars, loopVars, asyncVars, pushVars, exercised>>

\* An event is no more than its type and its place among the others, a handler
\* no more than its place: they are named in the order in which they come.
NamedInOrder ==
    /\ e3 \in offered => e2 \in offered
    /\ e2 \in offered => e1 \in offered
    /\ handlers[h2] # NoType => handlers[h1] # NoType \/ h1 \in removed

Init ==
    /\ exercised \in {"scheduler", "loop", "async", "push"}
    /\ SchedInit /\ LoopInit /\ AsyncInit /\ PushInit
    /\ exercised # "push" => strategy = "Reject" /\ timed

Next ==
    /\ UNCHANGED exercised
    /\ \/ /\ exercised = "scheduler" /\ SchedNext
          /\ UNCHANGED <<loopVars, asyncVars, pushVars>>
       \/ /\ exercised = "loop" /\ LoopNext /\ NamedInOrder'
          /\ UNCHANGED <<schedVars, asyncVars, pushVars>>
       \/ /\ exercised = "async" /\ AsyncNext
          /\ UNCHANGED <<schedVars, loopVars, pushVars>>
       \/ /\ exercised = "push" /\ PushNext
          /\ UNCHANGED <<schedVars, loopVars, asyncVars>>

\* The fairness of the parts.  A part that is not exercised keeps its initial
\* state, where none of the steps below is enabled but the clock's.
Fairness ==
    /\ WF_vars(exercised = "scheduler" /\ SchedTick /\ UNCHANGED <<loopVars, asyncVars, pushVars, exercised>>)
    /\ WF_vars(SchedulerLoop /\ UNCHANGED <<loopVars, asyncVars, pushVars, exercised>>)
    /\ WF_vars(ShutdownNotify /\ UNCHANGED <<loopVars, asyncVars, pushVars, exercised>>)
    /\ WF_vars(ShutdownJoin /\ UNCHANGED <<loopVars, asyncVars, pushVars, exercised>>)
    /\ \A i \in SchedTasks :
           WF_vars(ScheduleNotify(i) /\ UNCHANGED <<loopVars, asyncVars, pushVars, exercised>>)
    /\ WF_vars((Run \/ ProcessOne) /\ UNCHANGED <<schedVars, asyncVars, pushVars, exercised>>)
    /\ \A e \in LoopEvents :
           WF_vars(DispatchPublish(e) /\ UNCHANGED <<schedVars, asyncVars, pushVars, exercised>>)
    /\ \A t \in Completer :
           WF_vars(Complete(t) /\ UNCHANGED <<schedVars, loopVars, pushVars, exercised>>)
    /\ WF_vars(GetReturn /\ UNCHANGED <<schedVars, loopVars, pushVars, exercised>>)

Spec == Init /\ [][Next]_vars /\ Fairness

\* Events of different types: a handler can be registered for one and not the
\* other.  The third event can meet the full queue.
MCTypeOf(e) == IF e = e2 THEN y ELSE x
=============================================================================
