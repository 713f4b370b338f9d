----------------------------- MODULE AsyncTask -----------------------------
(***************************************************************************)
(* conc::AsyncTask and Promise (cunk/include/concurrency/async/AsyncTask.h)*)
(* : a chain of tasks 1..ChainLength, task i + 1 made by then() on task i. *)
(* The producer completes task 1 with a value or an exception; the         *)
(* consumer chains the others and waits for some with get().  A completion *)
(* runs the continuation on its own thread, which completes the next task, *)
(* so that either thread may come to complete any task but the first.      *)
(*                                                                         *)
(* The critical sections of the shared state's mutex are single steps.     *)
(* AsyncTask<void> has the same steps and no value to move.                *)
(***************************************************************************)
EXTENDS Integers, FiniteSets

CONSTANT ChainLength

ASSUME ChainLengthAssumption == ChainLength \in Nat \ {0}

Chain     == 1..ChainLength
Completer == {"producer", "consumer"}

VARIABLES value,        \* SharedState::value of each task: "none", "there" or "moved"
          exception,    \* SharedState::exception is set
          ready,        \* SharedState::ready
          continuation, \* SharedState::continuation is set
          linked,       \* how many tasks the consumer has chained
          completing,   \* each thread's place in set_value, set_exception and then
          awaiting,     \* the task the consumer's get waits for, 0 if none
          taken,        \* history: the tasks whose get has returned
          arguments     \* history: what the function of task i + 1 was given for task i's value

asyncVars == <<value, exception, ready, continuation, linked, completing, awaiting, taken, arguments>>

\* No call, or the task it is about, the next step and the outcome it carries.
Idle == [task |-> 0, step |-> "idle", outcome |-> "none"]

AsyncInit ==
    /\ value = [i \in Chain |-> "none"]
    /\ exception = [i \in Chain |-> FALSE]
    /\ ready = [i \in Chain |-> FALSE]
    /\ continuation = [i \in Chain |-> FALSE]
    /\ linked = 1
    /\ completing = [t \in Completer |-> Idle]
    /\ awaiting = 0
    /\ taken = {}
    /\ arguments = [i \in Chain |-> "none"]

At(t, step) == completing[t].step = step

-----------------------------------------------------------------------------
(* Promise::set_value and set_exception, from either thread                *)

Promise(outcome) ==
    /\ At("producer", "idle") /\ ~ready[1]
    /\ completing' = [completing EXCEPT !["producer"] =
                         [task |-> 1, step |-> "set", outcome |-> outcome]]
    /\ UNCHANGED <<value, exception, ready, continuation, linked, awaiting, taken, arguments>>

\* Mutant: the continuation is looked for before the lock is taken.
SetValueEarly(t) ==
    LET i == completing[t].task
    IN  /\ completing[t].outcome = "value" /\ completing[t].step \in {"set", "store", "bare"}
        /\ IF At(t, "set")
           THEN /\ completing' = [completing EXCEPT ![t].step = IF continuation[i] THEN "store" ELSE "bare"]
                /\ UNCHANGED <<value, ready>>
           ELSE /\ value' = [value EXCEPT ![i] = "there"]
                /\ ready' = [ready EXCEPT ![i] = TRUE]
                /\ completing' = [completing EXCEPT ![t] =
                                     IF At(t, "store") THEN [@ EXCEPT !.step = "continue"] ELSE Idle]
        /\ UNCHANGED <<exception, continuation, linked, awaiting, taken, arguments>>

\* Under the lock: the value, the ready flag and the continuation taken out.
SetValue(t) ==
    LET i == completing[t].task
    IN  /\ At(t, "set") /\ completing[t].outcome = "value"
        /\ value' = [value EXCEPT ![i] = "there"]
        /\ ready' = [ready EXCEPT ![i] = TRUE]
        /\ continuation' = [continuation EXCEPT ![i] = FALSE]
        /\ completing' = [completing EXCEPT ![t] =
                             IF continuation[i] THEN [@ EXCEPT !.step = "continue"] ELSE Idle]
        /\ UNCHANGED <<exception, linked, awaiting, taken, arguments>>

\* The continuation is left where it is.
SetException(t) ==
    LET i == completing[t].task
    IN  /\ At(t, "set") /\ completing[t].outcome = "exception"
        /\ exception' = [exception EXCEPT ![i] = TRUE]
        /\ ready' = [ready EXCEPT ![i] = TRUE]
        /\ completing' = [completing EXCEPT ![t] = Idle]
        /\ UNCHANGED <<value, continuation, linked, awaiting, taken, arguments>>

\* The continuation, with no lock held: it moves the value out, calls the
\* function, and completes the next task with its result or its exception.
RunContinuation(t) ==
    LET i == completing[t].task
    IN  /\ At(t, "continue")
        /\ arguments' = [arguments EXCEPT ![i] = IF value[i] = "none" THEN "garbage" ELSE value[i]]
        /\ value' = [value EXCEPT ![i] = IF @ = "none" THEN @ ELSE "moved"]
        /\ \E outcome \in {"value", "exception"} :
               completing' = [completing EXCEPT ![t] =
                                 [task |-> i + 1, step |-> "set", outcome |-> outcome]]
        /\ UNCHANGED <<exception, ready, continuation, linked, awaiting, taken>>

-----------------------------------------------------------------------------
(* The consumer: then and get                                              *)

ConsumerFree == At("consumer", "idle") /\ awaiting = 0

\* Under the lock: store the continuation, or run it here.  A task that holds
\* an exception is ready too, and its value is then read though it is not there.
Then ==
    /\ ConsumerFree
    /\ linked < ChainLength
    /\ linked' = linked + 1
    /\ IF ready[linked]
       THEN /\ completing' = [completing EXCEPT !["consumer"] =
                                 [task |-> linked, step |-> "continue", outcome |-> "none"]]
            /\ UNCHANGED continuation
       ELSE /\ continuation' = [continuation EXCEPT ![linked] = TRUE]
            /\ UNCHANGED completing
    /\ UNCHANGED <<value, exception, ready, awaiting, taken, arguments>>

GetWait(i) ==
    /\ ConsumerFree
    /\ i <= linked /\ i \notin taken
    /\ awaiting' = i
    /\ UNCHANGED <<value, exception, ready, continuation, linked, completing, taken, arguments>>

GetReturn ==
    /\ awaiting # 0 /\ ready[awaiting]
    /\ awaiting' = 0
    /\ taken' = taken \cup {awaiting}
    /\ value' = IF exception[awaiting] THEN value ELSE [value EXCEPT ![awaiting] = "moved"]
    /\ UNCHANGED <<exception, ready, continuation, linked, completing, arguments>>

Complete(t) == SetValue(t) \/ SetException(t) \/ RunContinuation(t)

AsyncNext ==
    \/ \E outcome \in {"value", "exception"} : Promise(outcome)
    \/ \E t \in Completer : Complete(t)
    \/ Then
    \/ \E i \in Chain : GetWait(i)
    \/ GetReturn

\* A thread inside a call goes on; nobody has to make one.
AsyncFairness ==
    /\ \A t \in Completer : WF_asyncVars(Complete(t))
    /\ WF_asyncVars(GetReturn)

AsyncSpec == AsyncInit /\ [][AsyncNext]_asyncVars /\ AsyncFairness

-----------------------------------------------------------------------------
(***************************************************************************)
(* Properties                                                              *)
(***************************************************************************)

\* The function chained to a task runs only once the task is complete, and is
\* given the value set_value stored: the completion and then() cannot both run
\* the continuation, nor one of them before the other is through.  Two cases are
\* left out because the code does otherwise: a task that holds an exception is
\* ready too, and its function reads a value that is not there (then, line 133),
\* and a get() on the same task may move the value out first.
ArgumentsSet ==
    \A i \in Chain : arguments[i] \in {"none", "there"} \/ exception[i] \/ i \in taken

\* A task that gets a value makes the task chained to it ready, on whichever
\* thread meets the other, and the function in between is given that value: the
\* completion and then() can neither miss nor overtake each other.  After an
\* exception the next task is never ready (set_exception, line 295, leaves the
\* continuation), so that nothing is claimed of it.
ChainAdvances ==
    /\ \A i \in 1..(ChainLength - 1) : (linked > i /\ value[i] # "none") ~> ready[i + 1]
    /\ []ArgumentsSet
=============================================================================
