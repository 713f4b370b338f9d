------------------------ MODULE BackpressuredQueue ------------------------
(***************************************************************************)
(* conc::BackpressuredQueue                                                *)
(* (cunk/include/concurrency/backpressure/BackpressurePolicy.h): push with *)
(* one of three policies over a bounded queue, by several producers.       *)
(*                                                                         *)
(* Every attempt gives the item away: try_push takes it by value, so after *)
(* an attempt that fails, the push holds a moved-from item (empty, for the *)
(* types that a move empties), and it is that one a later attempt enters.  *)
(***************************************************************************)
EXTENDS Integers, Sequences

CONSTANTS PushThreads,   \* the producers
          PushMax,       \* bound on the pushes of each
          PushCapacity,  \* capacity of the queue
          SpinCount      \* config_.spin_count

ASSUME PushCapacityAssumption == PushCapacity \in Nat \ {0}
ASSUME SpinCountAssumption    == SpinCount \in Nat

Strategies == {"Drop", "Reject", "Block"}

VARIABLES strategy,  \* config_.strategy
          timed,     \* config_.block_timeout is not 0
          slots,     \* the queue: entries [from, number, whole]
          pushPc,    \* each producer's program counter in push
          spins,     \* its spin iterations
          whole,     \* its item has not been moved from
          number,    \* history: its pushes so far
          failed,    \* history: the pushes one of whose attempts failed, as <<producer, number>>
          accepted,  \* history: the pushes that returned true
          refused,   \* history: the pushes that returned false
          received   \* history: what the consumer has popped

pushVars == <<strategy, timed, slots, pushPc, spins, whole, number, failed, accepted, refused,
              received>>

PushInit ==
    /\ strategy \in Strategies
    /\ timed \in BOOLEAN
    /\ slots = <<>>
    /\ pushPc = [p \in PushThreads |-> "idle"]
    /\ spins = [p \in PushThreads |-> 0]
    /\ whole = [p \in PushThreads |-> TRUE]
    /\ number = [p \in PushThreads |-> 0]
    /\ failed = {}
    /\ accepted = {}
    /\ refused = {}
    /\ received = <<>>

PushCall(p) ==
    /\ pushPc[p] = "idle" /\ number[p] < PushMax
    /\ number' = [number EXCEPT ![p] = @ + 1]
    /\ whole' = [whole EXCEPT ![p] = TRUE]
    /\ spins' = [spins EXCEPT ![p] = 0]
    /\ pushPc' = [pushPc EXCEPT ![p] = "first"]
    /\ UNCHANGED <<strategy, timed, slots, failed, accepted, refused, received>>

\* Mutant: a push is tried again whatever the policy.
AfterFailureRetries(p) ==
    IF pushPc[p] \in {"first", "spin"} /\ spins[p] < SpinCount THEN "spin" ELSE "yield"

\* What a push does after a failed attempt: return false, or try again.
AfterFailure(p) ==
    CASE strategy # "Block" -> "idle"
      [] strategy = "Block" /\ pushPc[p] \in {"first", "spin"} /\ spins[p] < SpinCount -> "spin"
      [] OTHER -> "yield"

Entry(p) == [from |-> p, number |-> number[p], whole |-> whole[p]]

\* Mutant: the spin phase does not return when its attempt succeeds.
AttemptAgain(p) ==
    /\ pushPc[p] \in {"first", "spin", "yield"}
    /\ whole' = [whole EXCEPT ![p] = FALSE]
    /\ IF Len(slots) < PushCapacity
       THEN /\ slots' = Append(slots, Entry(p))
            /\ accepted' = accepted \cup {<<p, number[p]>>}
            /\ pushPc' = [pushPc EXCEPT ![p] = IF @ = "spin" THEN "yield" ELSE "idle"]
            /\ UNCHANGED <<spins, failed, refused>>
       ELSE /\ pushPc' = [pushPc EXCEPT ![p] = AfterFailure(p)]
            /\ failed' = failed \cup {<<p, number[p]>>}
            /\ spins' = [spins EXCEPT ![p] = IF AfterFailure(p) = "spin" THEN @ + 1 ELSE @]
            /\ refused' = IF AfterFailure(p) = "idle" THEN refused \cup {<<p, number[p]>>} ELSE refused
            /\ UNCHANGED <<slots, accepted>>
    /\ UNCHANGED <<strategy, timed, number, received>>

\* One try_push: first, in the spin phase or in the yield phase.
Attempt(p) ==
    /\ pushPc[p] \in {"first", "spin", "yield"}
    /\ whole' = [whole EXCEPT ![p] = FALSE]
    /\ IF Len(slots) < PushCapacity
       THEN /\ slots' = Append(slots, Entry(p))
            /\ accepted' = accepted \cup {<<p, number[p]>>}
            /\ pushPc' = [pushPc EXCEPT ![p] = "idle"]
            /\ UNCHANGED <<spins, failed, refused>>
       ELSE /\ pushPc' = [pushPc EXCEPT ![p] = AfterFailure(p)]
            /\ failed' = failed \cup {<<p, number[p]>>}
            /\ spins' = [spins EXCEPT ![p] = IF AfterFailure(p) = "spin" THEN @ + 1 ELSE @]
            /\ refused' = IF AfterFailure(p) = "idle" THEN refused \cup {<<p, number[p]>>} ELSE refused
            /\ UNCHANGED <<slots, accepted>>
    /\ UNCHANGED <<strategy, timed, number, received>>

\* The deadline of the yield phase.
TimeOut(p) ==
    /\ pushPc[p] = "yield" /\ timed
    /\ pushPc' = [pushPc EXCEPT ![p] = "idle"]
    /\ refused' = refused \cup {<<p, number[p]>>}
    /\ UNCHANGED <<strategy, timed, slots, spins, whole, number, failed, accepted, received>>

PopEntry ==
    /\ slots # <<>>
    /\ received' = Append(received, Head(slots))
    /\ slots' = Tail(slots)
    /\ UNCHANGED <<strategy, timed, pushPc, spins, whole, number, failed, accepted, refused>>

PushNext ==
    \/ \E p \in PushThreads : PushCall(p) \/ Attempt(p) \/ TimeOut(p)
    \/ PopEntry

PushSpec == PushInit /\ [][PushNext]_pushVars

-----------------------------------------------------------------------------
(***************************************************************************)
(* Properties                                                              *)
(***************************************************************************)

Arrived == received \o slots
Label(entry) == <<entry.from, entry.number>>

\* A push that returns true has entered exactly one item, one that returns
\* false has entered none, whatever the policy, however often it tried and
\* whoever else pushes or pops.  The item that enters is the caller's, and not
\* one emptied by a move, but for a blocking push whose earlier attempt failed
\* (lines 104 to 149): a blocking push that never failed enters its own.
PushEntersOnce ==
    /\ \A i, j \in DOMAIN Arrived : Label(Arrived[i]) = Label(Arrived[j]) => i = j
    /\ {Label(Arrived[i]) : i \in DOMAIN Arrived} = accepted
    /\ accepted \cap refused = {}
    /\ \A i \in DOMAIN Arrived :
           Arrived[i].whole \/ (strategy = "Block" /\ Label(Arrived[i]) \in failed)
=============================================================================
