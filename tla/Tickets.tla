------------------------------ MODULE Tickets ------------------------------
(***************************************************************************)
(* What a bounded queue of positions promises to a caller of try_push and  *)
(* try_pop: the two conditions MPMCQueue decides by the sequence number of *)
(* a slot, said without slots.  Positions count from 0.                    *)
(***************************************************************************)
EXTENDS Integers

\* try_push succeeds: the ring is not full, and no consumer is still reading
\* the position one lap back.
Room(claimed, taken, reading, capacity) ==
    /\ claimed < taken + capacity
    /\ claimed - capacity \notin reading

\* try_pop succeeds: there is a claimed position, and its producer has
\* published it.
Ready(claimed, taken, writing) ==
    /\ taken < claimed
    /\ taken \notin writing
=============================================================================
