----------------------------- MODULE MPSCQueue -----------------------------
(***************************************************************************)
(* sor::MPSCQueue (sor/core/mpsc_queue.h): the ring the gateway's order,   *)
(* cancel and report queues are made of.  Producers claim a position by a  *)
(* compare-exchange of write_pos_; the one consumer owns read_pos_ and     *)
(* gives a cell back, by its sequence, before it advances read_pos_.       *)
(*                                                                         *)
(* One action per access to a shared member; positions are natural numbers.*)
(***************************************************************************)
EXTENDS Integers, Sequences

CONSTANTS MpscProducers, MpscConsumer, MpscItems, MpscNoItem, MpscCapacity,
          MpscMaxPush   \* bound on the accepted pushes

ASSUME MpscCapacityAssumption == MpscCapacity \in Nat \ {0}
ASSUME MpscMaxPushAssumption  == MpscMaxPush \in Nat
ASSUME MpscNoItemAssumption   == MpscNoItem \notin MpscItems

VARIABLES write_pos, read_pos,
          cells,        \* cells_: sequence and data
          push,         \* program counter and locals of each try_push
          pop,          \* program counter and result of try_pop
          accepted      \* history: the items in the order of their positions

mpscVars == <<write_pos, read_pos, cells, push, pop, accepted>>

Cell(pos)  == pos % MpscCapacity        \* pos & MASK
NoPush     == [pc |-> "idle", pos |-> 0, item |-> MpscNoItem]

MpscInit ==
    /\ write_pos = 0
    /\ read_pos = 0
    /\ cells = [i \in 0 .. MpscCapacity - 1 |-> [sequence |-> i, data |-> MpscNoItem]]
    /\ push = [p \in MpscProducers |-> NoPush]
    /\ pop = [pc |-> "idle", item |-> MpscNoItem]
    /\ accepted = << >>

-----------------------------------------------------------------------------
(* try_push_impl                                                           *)

MpscPushCall(p, v) ==
    /\ push[p].pc = "idle"
    /\ Len(accepted) < MpscMaxPush
    /\ push' = [push EXCEPT ![p] = [pc |-> "load", pos |-> 0, item |-> v]]
    /\ UNCHANGED <<write_pos, read_pos, cells, pop, accepted>>

MpscPushLoad(p) ==
    /\ push[p].pc = "load"
    /\ push' = [push EXCEPT ![p].pos = write_pos, ![p].pc = "check"]
    /\ UNCHANGED <<write_pos, read_pos, cells, pop, accepted>>

\* The cell is free for pos, still full from the lap before, or taken already.
MpscPushCheck(p) ==
    LET diff == cells[Cell(push[p].pos)].sequence - push[p].pos
    IN  /\ push[p].pc = "check"
        /\ push' = [push EXCEPT ![p] = CASE diff = 0 -> [push[p] EXCEPT !.pc = "claim"]
                                         [] diff < 0 -> NoPush
                                         [] diff > 0 -> [push[p] EXCEPT !.pc = "load"]]
        /\ UNCHANGED <<write_pos, read_pos, cells, pop, accepted>>

MpscPushClaim(p) ==
    /\ push[p].pc = "claim"
    /\ write_pos = push[p].pos
    /\ Len(accepted) < MpscMaxPush
    /\ write_pos' = write_pos + 1
    /\ accepted' = Append(accepted, push[p].item)
    /\ push' = [push EXCEPT ![p].pc = "write"]
    /\ UNCHANGED <<read_pos, cells, pop>>

\* compare_exchange_weak fails, possibly spuriously, and reloads pos.
MpscPushClaimFail(p) ==
    /\ push[p].pc = "claim"
    /\ push' = [push EXCEPT ![p].pos = write_pos, ![p].pc = "check"]
    /\ UNCHANGED <<write_pos, read_pos, cells, pop, accepted>>

MpscPushWrite(p) ==
    /\ push[p].pc = "write"
    /\ cells' = [cells EXCEPT ![Cell(push[p].pos)].data = push[p].item]
    /\ push' = [push EXCEPT ![p].pc = "publish"]
    /\ UNCHANGED <<write_pos, read_pos, pop, accepted>>

MpscPushPublish(p) ==
    /\ push[p].pc = "publish"
    /\ cells' = [cells EXCEPT ![Cell(push[p].pos)].sequence = push[p].pos + 1]
    /\ push' = [push EXCEPT ![p] = NoPush]
    /\ UNCHANGED <<write_pos, read_pos, pop, accepted>>

MpscPush(p) ==
    \/ \E v \in MpscItems : MpscPushCall(p, v)
    \/ MpscPushLoad(p)
    \/ MpscPushCheck(p)
    \/ MpscPushClaim(p)
    \/ MpscPushClaimFail(p)
    \/ MpscPushWrite(p)
    \/ MpscPushPublish(p)

-----------------------------------------------------------------------------
(* try_pop, by the one consumer                                            *)

MpscPopCheck ==
    /\ pop.pc = "idle"
    /\ cells[Cell(read_pos)].sequence = read_pos + 1
    /\ pop' = [pop EXCEPT !.pc = "move"]
    /\ UNCHANGED <<write_pos, read_pos, cells, push, accepted>>

MpscPopMove ==
    /\ pop.pc = "move"
    /\ pop' = [pc |-> "release", item |-> cells[Cell(read_pos)].data]
    /\ cells' = [cells EXCEPT ![Cell(read_pos)].data = MpscNoItem]
    /\ UNCHANGED <<write_pos, read_pos, push, accepted>>

\* Mutant: the sequence is advanced by a lap from the published value.
MpscPopReleaseFar ==
    /\ pop.pc = "release"
    /\ cells' = [cells EXCEPT ![Cell(read_pos)].sequence = @ + MpscCapacity]
    /\ pop' = [pop EXCEPT !.pc = "advance"]
    /\ UNCHANGED <<write_pos, read_pos, push, accepted>>

MpscPopRelease ==
    /\ pop.pc = "release"
    /\ cells' = [cells EXCEPT ![Cell(read_pos)].sequence = read_pos + MpscCapacity]
    /\ pop' = [pop EXCEPT !.pc = "advance"]
    /\ UNCHANGED <<write_pos, read_pos, push, accepted>>

MpscPopAdvance ==
    /\ pop.pc = "advance"
    /\ read_pos' = read_pos + 1
    /\ pop' = [pop EXCEPT !.pc = "idle"]
    /\ UNCHANGED <<write_pos, cells, push, accepted>>

MpscPop == MpscPopCheck \/ MpscPopMove \/ MpscPopRelease \/ MpscPopAdvance

MpscNext ==
    \/ \E p \in MpscProducers : MpscPush(p)
    \/ MpscPop

MpscSpec == MpscInit /\ [][MpscNext]_mpscVars

-----------------------------------------------------------------------------
(***************************************************************************)
(* Properties                                                              *)
(***************************************************************************)

\* The consumer's position, or nothing: it is busy with a cell from the check
\* of its sequence until it has given the cell back.
MpscReading == IF pop.pc \in {"move", "release"} THEN read_pos ELSE -1

MpscTickets == INSTANCE TicketQueue WITH
    Producers <- MpscProducers,
    Consumers <- {MpscConsumer},
    Items     <- MpscItems,
    NoItem    <- MpscNoItem,
    Capacity  <- MpscCapacity,
    log       <- accepted,
    taken     <- IF pop.pc = "idle" THEN read_pos ELSE read_pos + 1,
    writing   <- [p \in MpscProducers |-> IF push[p].pc \in {"write", "publish"} THEN push[p].pos ELSE -1],
    reading   <- [c \in {MpscConsumer} |-> MpscReading],
    result    <- [c \in {MpscConsumer} |-> pop.item]

\* Every accepted order, cancel or report leaves the queue once, in the order
\* of acceptance and as it was pushed, whichever producers stall in between.
MpscImplementsTicketQueue == MpscTickets!Spec
=============================================================================
