----------------------------- MODULE SPSCQueue -----------------------------
(***************************************************************************)
(* sor::SPSCQueue (sor/core/spsc_queue.h): one producer, one consumer, and *)
(* indices into the ring itself: head_ = tail_ means empty, so one slot is *)
(* never used.  One action per access to a member the other side writes.   *)
(***************************************************************************)
EXTENDS Integers, Sequences

CONSTANTS SpscProducer, SpscConsumer, SpscItems, SpscNoItem, SpscCapacity,
          SpscMaxPush   \* bound on the accepted pushes

ASSUME SpscCapacityAssumption == SpscCapacity \in Nat /\ SpscCapacity >= 2
ASSUME SpscNoItemAssumption   == SpscNoItem \notin SpscItems

VARIABLES head, tail, buffer,
          pushing,      \* program counter and item of try_push
          popping,      \* program counter and result of try_pop
          tape, drawn   \* history: the accepted items; how many were taken

spscVars == <<head, tail, buffer, pushing, popping, tape, drawn>>

Follow(i) == (i + 1) % SpscCapacity     \* (i + 1) & MASK

SpscInit ==
    /\ head = 0
    /\ tail = 0
    /\ buffer = [i \in 0 .. SpscCapacity - 1 |-> SpscNoItem]
    /\ pushing = [pc |-> "idle", item |-> SpscNoItem]
    /\ popping = [pc |-> "idle", item |-> SpscNoItem]
    /\ tape = << >>
    /\ drawn = 0

\* Mutant: the full test is forgotten.
SpscPushUnchecked ==
    /\ pushing.pc = "idle"
    /\ Len(tape) < SpscMaxPush
    /\ \E v \in SpscItems : /\ pushing' = [pc |-> "write", item |-> v]
                            /\ tape' = Append(tape, v)
    /\ UNCHANGED <<head, tail, buffer, popping, drawn>>

\* try_push: the ring has room.  (When it has not, the call returns false and
\* changes nothing.)
SpscPushCheck ==
    /\ pushing.pc = "idle"
    /\ Len(tape) < SpscMaxPush
    /\ Follow(tail) # head
    /\ \E v \in SpscItems : /\ pushing' = [pc |-> "write", item |-> v]
                            /\ tape' = Append(tape, v)
    /\ UNCHANGED <<head, tail, buffer, popping, drawn>>

SpscPushWrite ==
    /\ pushing.pc = "write"
    /\ buffer' = [buffer EXCEPT ![tail] = pushing.item]
    /\ pushing' = [pushing EXCEPT !.pc = "publish"]
    /\ UNCHANGED <<head, tail, popping, tape, drawn>>

SpscPushPublish ==
    /\ pushing.pc = "publish"
    /\ tail' = Follow(tail)
    /\ pushing' = [pc |-> "idle", item |-> SpscNoItem]
    /\ UNCHANGED <<head, buffer, popping, tape, drawn>>

\* try_pop: the ring is not empty.
SpscPopCheck ==
    /\ popping.pc = "idle"
    /\ head # tail
    /\ popping' = [popping EXCEPT !.pc = "move"]
    /\ drawn' = drawn + 1
    /\ UNCHANGED <<head, tail, buffer, pushing, tape>>

SpscPopMove ==
    /\ popping.pc = "move"
    /\ popping' = [pc |-> "release", item |-> buffer[head]]
    /\ buffer' = [buffer EXCEPT ![head] = SpscNoItem]
    /\ UNCHANGED <<head, tail, pushing, tape, drawn>>

SpscPopRelease ==
    /\ popping.pc = "release"
    /\ head' = Follow(head)
    /\ popping' = [popping EXCEPT !.pc = "idle"]
    /\ UNCHANGED <<tail, buffer, pushing, tape, drawn>>

SpscNext ==
    \/ SpscPushCheck
    \/ SpscPushWrite
    \/ SpscPushPublish
    \/ SpscPopCheck
    \/ SpscPopMove
    \/ SpscPopRelease

SpscSpec == SpscInit /\ [][SpscNext]_spscVars

-----------------------------------------------------------------------------
SpscTickets == INSTANCE TicketQueue WITH
    Producers <- {SpscProducer},
    Consumers <- {SpscConsumer},
    Items     <- SpscItems,
    NoItem    <- SpscNoItem,
    Capacity  <- SpscCapacity - 1,
    log       <- tape,
    taken     <- drawn,
    writing   <- [p \in {SpscProducer} |-> IF pushing.pc # "idle" THEN Len(tape) - 1 ELSE -1],
    reading   <- [c \in {SpscConsumer} |-> IF popping.pc # "idle" THEN drawn - 1 ELSE -1],
    result    <- [c \in {SpscConsumer} |-> popping.item]

\* With one slot spared the two indices alone make a queue of Capacity - 1
\* items: none is lost, repeated or overwritten, round the ring and beyond.
SpscImplementsTicketQueue == SpscTickets!Spec
=============================================================================
