---------------------------- MODULE RateLimiter ----------------------------
(***************************************************************************)
(* sor::risk::RateLimiter (sor/risk/rate_limiter.cpp): a counter of the    *)
(* orders of the current second, shared without a lock.  try_acquire is    *)
(* called by the gateway's order and execution threads before they take    *)
(* the risk manager's mutex (risk_manager.cpp:50); set_max_rate is called  *)
(* by whoever changes the limits, under that mutex, so one at a time.      *)
(*                                                                         *)
(* One action per access to the clock or to a shared member.               *)
(***************************************************************************)
EXTENDS Integers, FiniteSets

CONSTANTS RateThreads,   \* threads that call try_acquire
          Rates,         \* values given to set_max_rate
          LastSecond     \* bound on the clock

ASSUME RatesAssumption       == Rates \subseteq Nat \ {0}
ASSUME LastSecondAssumption  == LastSecond \in Nat
ASSUME RateThreadsAssumption == IsFiniteSet(RateThreads)

VARIABLES clock,            \* steady_clock, in seconds
          window_start, count, max_per_second,
          acquire,          \* program counter and locals of each try_acquire
          setRate,          \* program counter and local of set_max_rate
          granted,          \* history: acquisitions since the last reset of the counter
          disturbed         \* history: what overlapped that reset

rateVars == <<clock, window_start, count, max_per_second, acquire, setRate, granted, disturbed>>

NoCall == [pc |-> "idle", now |-> 0, expected |-> 0]

RateInit ==
    /\ clock = 0
    /\ window_start = 0
    /\ count = 0
    /\ max_per_second \in Rates
    /\ acquire = [t \in RateThreads |-> NoCall]
    /\ setRate = [pc |-> "idle", now |-> 0]
    /\ granted = 0
    /\ disturbed = "nothing"

RateTick ==
    /\ clock < LastSecond
    /\ clock' = clock + 1
    /\ UNCHANGED <<window_start, count, max_per_second, acquire, setRate, granted, disturbed>>

Goto(t, pc) == acquire' = [acquire EXCEPT ![t].pc = pc]
Return(t)   == acquire' = [acquire EXCEPT ![t] = NoCall]

InCall == {t \in RateThreads : acquire[t].pc # "idle"}

\* What a call of t that rolls the second over meets: a change of the limit
\* (which leaves a skewed counter for good), another call, or nothing.
Meets(t) == CASE disturbed = "limits" \/ setRate.pc # "idle" -> "limits"
              [] disturbed # "limits" /\ setRate.pc = "idle" /\ InCall # {t} -> "calls"
              [] OTHER -> "nothing"

-----------------------------------------------------------------------------
(* try_acquire                                                             *)

AcquireClock(t) ==
    /\ acquire[t].pc = "idle"
    /\ acquire' = [acquire EXCEPT ![t] = [pc |-> "load", now |-> clock, expected |-> 0]]
    /\ disturbed' = IF disturbed = "limits" \/ setRate.pc # "idle" THEN "limits"
                    ELSE IF \E u \in RateThreads : acquire[u].pc = "store" THEN "calls"
                    ELSE disturbed
    /\ UNCHANGED <<clock, window_start, count, max_per_second, setRate, granted>>

AcquireLoad(t) ==
    /\ acquire[t].pc = "load"
    /\ acquire' = [acquire EXCEPT ![t].expected = window_start,
                                  ![t].pc = IF acquire[t].now > window_start THEN "cas" ELSE "add"]
    /\ UNCHANGED <<clock, window_start, count, max_per_second, setRate, granted, disturbed>>

\* One caller wins the new second; the others count as if it had begun.
AcquireWindow(t) ==
    /\ acquire[t].pc = "cas"
    /\ IF window_start = acquire[t].expected
       THEN /\ window_start' = acquire[t].now
            /\ Goto(t, "store")
            /\ granted' = 0
            /\ disturbed' = Meets(t)
       ELSE /\ Goto(t, "add")
            /\ UNCHANGED <<window_start, granted, disturbed>>
    /\ UNCHANGED <<clock, count, max_per_second, setRate>>

\* Mutant: the winner's own order is not counted.
AcquireStoreZero(t) ==
    /\ acquire[t].pc = "store"
    /\ count' = 0
    /\ granted' = granted + 1
    /\ Return(t)
    /\ UNCHANGED <<clock, window_start, max_per_second, setRate, disturbed>>

AcquireStore(t) ==
    /\ acquire[t].pc = "store"
    /\ count' = 1
    /\ granted' = granted + 1
    /\ Return(t)
    /\ UNCHANGED <<clock, window_start, max_per_second, setRate, disturbed>>

AcquireCount(t) ==
    /\ acquire[t].pc = "add"
    /\ count' = count + 1
    /\ IF count >= max_per_second
       THEN Goto(t, "undo") /\ UNCHANGED granted
       ELSE Return(t) /\ granted' = granted + 1
    /\ UNCHANGED <<clock, window_start, max_per_second, setRate, disturbed>>

AcquireUndo(t) ==
    /\ acquire[t].pc = "undo"
    /\ count' = count - 1
    /\ Return(t)
    /\ UNCHANGED <<clock, window_start, max_per_second, setRate, granted, disturbed>>

TryAcquire(t) ==
    \/ AcquireClock(t)
    \/ AcquireLoad(t)
    \/ AcquireWindow(t)
    \/ AcquireStore(t)
    \/ AcquireCount(t)
    \/ AcquireUndo(t)

-----------------------------------------------------------------------------
(* set_max_rate, which ends with reset                                     *)

SetMaxRate ==
    /\ setRate.pc = "idle"
    /\ max_per_second' \in Rates \ {max_per_second}
    /\ setRate' = [pc |-> "count", now |-> 0]
    /\ granted' = 0
    /\ disturbed' = IF disturbed = "limits" \/ InCall # {} THEN "limits" ELSE "nothing"
    /\ UNCHANGED <<clock, window_start, count, acquire>>

ResetCount ==
    /\ setRate.pc = "count"
    /\ count' = 0
    /\ setRate' = [setRate EXCEPT !.pc = "clock"]
    /\ UNCHANGED <<clock, window_start, max_per_second, acquire, granted, disturbed>>

ResetClock ==
    /\ setRate.pc = "clock"
    /\ setRate' = [pc |-> "window", now |-> clock]
    /\ UNCHANGED <<clock, window_start, count, max_per_second, acquire, granted, disturbed>>

ResetWindow ==
    /\ setRate.pc = "window"
    /\ window_start' = setRate.now
    /\ setRate' = [pc |-> "idle", now |-> 0]
    /\ UNCHANGED <<clock, count, max_per_second, acquire, granted, disturbed>>

ChangeRate == SetMaxRate \/ ResetCount \/ ResetClock \/ ResetWindow

RateNext == RateTick \/ ChangeRate \/ \E t \in RateThreads : TryAcquire(t)

RateSpec == RateInit /\ [][RateNext]_rateVars

-----------------------------------------------------------------------------
(***************************************************************************)
(* Properties                                                              *)
(***************************************************************************)

\* try_acquire keeps its limit in every second whose counter was reset while
\* no other call was under way.  In the others it does not: what was counted
\* before the winner's store at line 37 is forgotten, and a refused call that
\* undoes its count after the store makes room for one more.  Each thread may
\* once be such a late winner, and each winner lets the limit through and one
\* more for every other thread: fewer than that together, unless the limit
\* itself was ever changed while calls were under way.
RateLimitKept ==
    /\ disturbed = "nothing" => granted <= max_per_second
    /\ disturbed = "calls" => granted < Cardinality(RateThreads) *
                                          (max_per_second + Cardinality(RateThreads) - 1)
=============================================================================
