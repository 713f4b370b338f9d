---------------------------- MODULE TicketQueue ----------------------------
(***************************************************************************)
(* The abstract specification of conc::MPMCQueue: an unbounded tape of     *)
(* items, handed out in the order in which they were accepted.  A producer *)
(* claims the next position and later publishes it; a consumer takes the   *)
(* oldest untaken position, moves the item out and releases the position.  *)
(* A position is claimed only once the one a lap earlier is released: that *)
(* is all that is left of the ring.  There are no slots, no sequence       *)
(* numbers and no retries.                                                 *)
(***************************************************************************)
EXTENDS Tickets, Sequences

CONSTANTS Producers, Consumers, Items, NoItem, Capacity

VARIABLES log,       \* the accepted items, in order
          taken,     \* how many positions consumers have taken
          writing,   \* the position each producer has claimed and not published
          reading,   \* the position each consumer has taken and not released
          result     \* the item each consumer moved out last

vars == <<log, taken, writing, reading, result>>

None == -1

Init ==
    /\ log = << >>
    /\ taken = 0
    /\ writing = [p \in Producers |-> None]
    /\ reading = [c \in Consumers |-> None]
    /\ result = [c \in Consumers |-> NoItem]

\* The positions the threads of one role are busy with.
Busy(f) == {f[x] : x \in DOMAIN f} \ {None}

\* try_push accepts v.
Claim(p, v) ==
    /\ writing[p] = None
    /\ Room(Len(log), taken, Busy(reading), Capacity)
    /\ log' = Append(log, v)
    /\ writing' = [writing EXCEPT ![p] = Len(log)]
    /\ UNCHANGED <<taken, reading, result>>

\* try_push returns true: the item can be taken.
Publish(p) ==
    /\ writing[p] # None
    /\ writing' = [writing EXCEPT ![p] = None]
    /\ UNCHANGED <<log, taken, reading, result>>

\* try_pop takes the oldest position.
Take(c) ==
    /\ reading[c] = None
    /\ Ready(Len(log), taken, Busy(writing))
    /\ taken' = taken + 1
    /\ reading' = [reading EXCEPT ![c] = taken]
    /\ UNCHANGED <<log, writing, result>>

MoveOut(c) ==
    /\ reading[c] # None
    /\ result' = [result EXCEPT ![c] = log[reading[c] + 1]]
    /\ UNCHANGED <<log, taken, writing, reading>>

\* try_pop returns the item.
Release(c) ==
    /\ reading[c] # None
    /\ result[c] = log[reading[c] + 1]
    /\ reading' = [reading EXCEPT ![c] = None]
    /\ UNCHANGED <<log, taken, writing, result>>

Next ==
    \/ \E p \in Producers : (\E v \in Items : Claim(p, v)) \/ Publish(p)
    \/ \E c \in Consumers : Take(c) \/ MoveOut(c) \/ Release(c)

Spec == Init /\ [][Next]_vars
=============================================================================
