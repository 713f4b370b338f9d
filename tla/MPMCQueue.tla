----------------------------- MODULE MPMCQueue -----------------------------
(***************************************************************************)
(* conc::MPMCQueue (cunk/include/concurrency/queue/MPMCQueue.h): a bounded *)
(* ring of slots, each with an atomic sequence number, shared by any       *)
(* number of producers and consumers without a lock.                       *)
(*                                                                         *)
(* One action per atomic access: the load of head_/tail_, the load of the  *)
(* slot's sequence with the three-way branch on its difference from the    *)
(* position, the compare-exchange (which may fail spuriously, it is the    *)
(* weak form), the plain access to the slot's data, and the store that     *)
(* publishes or releases the slot.  Accesses are interleaved sequentially  *)
(* consistently: every data access is ordered by an acquire load and a     *)
(* release store of the slot's sequence.  Positions are natural numbers:   *)
(* the size_t counters would need 2^63 operations to reach their sign bit. *)
(***************************************************************************)
EXTENDS Integers, Sequences

CONSTANTS Producers,  \* threads that call try_push
          Consumers,  \* threads that call try_pop
          Observers,  \* threads that call size_approx
          Items,      \* values of the element type T
          NoItem,     \* a default-constructed or moved-from T
          Capacity,   \* capacity_, after rounding up
          MaxPush     \* bound on the successful pushes of a behaviour

ASSUME CapacityAssumption == Capacity \in Nat /\ Capacity >= 2
ASSUME MaxPushAssumption  == MaxPush \in Nat
ASSUME NoItemAssumption   == NoItem \notin Items

VARIABLES head,       \* head_: next position to push
          tail,       \* tail_: next position to pop
          sequence,   \* slots_[i].sequence
          data,       \* slots_[i].data
          pushPc, pushPos, item,      \* locals of each try_push
          popPc, popPos, result,      \* locals of each try_pop
          obsPc, obsHead, approx,     \* locals and result of size_approx
          log         \* history: the items in the order their CAS on head_ won

slotVars == <<sequence, data>>
pushVars == <<pushPc, pushPos, item>>
popVars  == <<popPc, popPos, result>>
obsVars  == <<obsPc, obsHead, approx>>
vars     == <<head, tail, slotVars, pushVars, popVars, obsVars, log>>

Slots   == 0 .. Capacity - 1
Slot(p) == p % Capacity               \* pos & mask_, capacity_ a power of two

Init ==
    /\ head = 0
    /\ tail = 0
    /\ sequence = [i \in Slots |-> i]
    /\ data = [i \in Slots |-> NoItem]
    /\ pushPc = [p \in Producers |-> "idle"]
    /\ pushPos = [p \in Producers |-> 0]
    /\ item = [p \in Producers |-> NoItem]
    /\ popPc = [c \in Consumers |-> "idle"]
    /\ popPos = [c \in Consumers |-> 0]
    /\ result = [c \in Consumers |-> NoItem]
    /\ obsPc = [o \in Observers |-> "idle"]
    /\ obsHead = [o \in Observers |-> 0]
    /\ approx = [o \in Observers |-> 0]
    /\ log = << >>

-----------------------------------------------------------------------------
(* try_push                                                                *)

PushBegin(p, v) ==
    /\ pushPc[p] = "idle"
    /\ head < MaxPush
    /\ pushPc' = [pushPc EXCEPT ![p] = "check"]
    /\ pushPos' = [pushPos EXCEPT ![p] = head]
    /\ item' = [item EXCEPT ![p] = v]
    /\ UNCHANGED <<head, tail, slotVars, popVars, obsVars, log>>

\* Mutant: a position another producer has overtaken is taken for a full ring.
PushCheckNoReload(p) ==
    LET diff == sequence[Slot(pushPos[p])] - pushPos[p]
    IN  /\ pushPc[p] = "check"
        /\ pushPc' = [pushPc EXCEPT ![p] = IF diff = 0 THEN "cas" ELSE "idle"]
        /\ UNCHANGED <<head, tail, slotVars, pushPos, item, popVars, obsVars, log>>

\* The load of the slot's sequence and the branch on diff.
PushCheck(p) ==
    LET diff == sequence[Slot(pushPos[p])] - pushPos[p]
    IN  /\ pushPc[p] = "check"
        /\ pushPc' = [pushPc EXCEPT ![p] = IF diff = 0 THEN "cas"
                                           ELSE IF diff < 0 THEN "idle"
                                           ELSE "reload"]
        /\ UNCHANGED <<head, tail, slotVars, pushPos, item, popVars, obsVars, log>>

PushReload(p) ==
    /\ pushPc[p] = "reload"
    /\ pushPc' = [pushPc EXCEPT ![p] = "check"]
    /\ pushPos' = [pushPos EXCEPT ![p] = head]
    /\ UNCHANGED <<head, tail, slotVars, item, popVars, obsVars, log>>

\* Mutant: head_ is stored without comparing it with pos.
PushStoreHead(p) ==
    /\ pushPc[p] = "cas"
    /\ head < MaxPush
    /\ head' = pushPos[p] + 1
    /\ log' = Append(log, item[p])
    /\ pushPc' = [pushPc EXCEPT ![p] = "write"]
    /\ UNCHANGED <<tail, slotVars, pushPos, item, popVars, obsVars>>

\* The guard on MaxPush is the model's bound, not the code's.
PushCasWin(p) ==
    /\ pushPc[p] = "cas"
    /\ head = pushPos[p]
    /\ head < MaxPush
    /\ head' = head + 1
    /\ log' = Append(log, item[p])
    /\ pushPc' = [pushPc EXCEPT ![p] = "write"]
    /\ UNCHANGED <<tail, slotVars, pushPos, item, popVars, obsVars>>

\* A failed or spuriously failing compare-exchange reloads pos.
PushCasFail(p) ==
    /\ pushPc[p] = "cas"
    /\ pushPc' = [pushPc EXCEPT ![p] = "check"]
    /\ pushPos' = [pushPos EXCEPT ![p] = head]
    /\ UNCHANGED <<head, tail, slotVars, item, popVars, obsVars, log>>

PushWrite(p) ==
    /\ pushPc[p] = "write"
    /\ data' = [data EXCEPT ![Slot(pushPos[p])] = item[p]]
    /\ pushPc' = [pushPc EXCEPT ![p] = "publish"]
    /\ UNCHANGED <<head, tail, sequence, pushPos, item, popVars, obsVars, log>>

PushPublish(p) ==
    /\ pushPc[p] = "publish"
    /\ sequence' = [sequence EXCEPT ![Slot(pushPos[p])] = pushPos[p] + 1]
    /\ pushPc' = [pushPc EXCEPT ![p] = "idle"]
    /\ UNCHANGED <<head, tail, data, pushPos, item, popVars, obsVars, log>>

-----------------------------------------------------------------------------
(* try_pop                                                                 *)

PopBegin(c) ==
    /\ popPc[c] = "idle"
    /\ popPc' = [popPc EXCEPT ![c] = "check"]
    /\ popPos' = [popPos EXCEPT ![c] = tail]
    /\ UNCHANGED <<head, tail, slotVars, pushVars, result, obsVars, log>>

PopCheck(c) ==
    LET diff == sequence[Slot(popPos[c])] - (popPos[c] + 1)
    IN  /\ popPc[c] = "check"
        /\ popPc' = [popPc EXCEPT ![c] = IF diff = 0 THEN "cas"
                                         ELSE IF diff < 0 THEN "idle"
                                         ELSE "reload"]
        /\ UNCHANGED <<head, tail, slotVars, pushVars, popPos, result, obsVars, log>>

PopReload(c) ==
    /\ popPc[c] = "reload"
    /\ popPc' = [popPc EXCEPT ![c] = "check"]
    /\ popPos' = [popPos EXCEPT ![c] = tail]
    /\ UNCHANGED <<head, tail, slotVars, pushVars, result, obsVars, log>>

\* Mutant: tail_ is stored without comparing it with pos.
PopStoreTail(c) ==
    /\ popPc[c] = "cas"
    /\ tail' = popPos[c] + 1
    /\ popPc' = [popPc EXCEPT ![c] = "read"]
    /\ UNCHANGED <<head, slotVars, pushVars, popPos, result, obsVars, log>>

PopCasWin(c) ==
    /\ popPc[c] = "cas"
    /\ tail = popPos[c]
    /\ tail' = tail + 1
    /\ popPc' = [popPc EXCEPT ![c] = "read"]
    /\ UNCHANGED <<head, slotVars, pushVars, popPos, result, obsVars, log>>

PopCasFail(c) ==
    /\ popPc[c] = "cas"
    /\ popPc' = [popPc EXCEPT ![c] = "check"]
    /\ popPos' = [popPos EXCEPT ![c] = tail]
    /\ UNCHANGED <<head, tail, slotVars, pushVars, result, obsVars, log>>

\* T result = std::move(slot.data) leaves a moved-from value in the slot.
PopRead(c) ==
    /\ popPc[c] = "read"
    /\ result' = [result EXCEPT ![c] = data[Slot(popPos[c])]]
    /\ data' = [data EXCEPT ![Slot(popPos[c])] = NoItem]
    /\ popPc' = [popPc EXCEPT ![c] = "release"]
    /\ UNCHANGED <<head, tail, sequence, pushVars, popPos, obsVars, log>>

\* Mutant: the released slot is marked one position too far.
PopReleaseOffByOne(c) ==
    /\ popPc[c] = "release"
    /\ sequence' = [sequence EXCEPT ![Slot(popPos[c])] = popPos[c] + Capacity + 1]
    /\ popPc' = [popPc EXCEPT ![c] = "idle"]
    /\ UNCHANGED <<head, tail, data, pushVars, popPos, result, obsVars, log>>

PopRelease(c) ==
    /\ popPc[c] = "release"
    /\ sequence' = [sequence EXCEPT ![Slot(popPos[c])] = popPos[c] + Capacity]
    /\ popPc' = [popPc EXCEPT ![c] = "idle"]
    /\ UNCHANGED <<head, tail, data, pushVars, popPos, result, obsVars, log>>

-----------------------------------------------------------------------------
(* size_approx: two separate loads                                         *)

SizeLoadHead(o) ==
    /\ obsPc[o] = "idle"
    /\ obsHead' = [obsHead EXCEPT ![o] = head]
    /\ obsPc' = [obsPc EXCEPT ![o] = "tail"]
    /\ UNCHANGED <<head, tail, slotVars, pushVars, popVars, approx, log>>

\* Mutant: the difference is returned without the comparison, and wraps.
SizeLoadTailUnclamped(o) ==
    /\ obsPc[o] = "tail"
    /\ approx' = [approx EXCEPT ![o] = (obsHead[o] - tail) % 2^16]
    /\ obsPc' = [obsPc EXCEPT ![o] = "idle"]
    /\ UNCHANGED <<head, tail, slotVars, pushVars, popVars, obsHead, log>>

SizeLoadTail(o) ==
    /\ obsPc[o] = "tail"
    /\ approx' = [approx EXCEPT ![o] = IF obsHead[o] >= tail
                                       THEN obsHead[o] - tail ELSE 0]
    /\ obsPc' = [obsPc EXCEPT ![o] = "idle"]
    /\ UNCHANGED <<head, tail, slotVars, pushVars, popVars, obsHead, log>>

-----------------------------------------------------------------------------

Push(p) ==
    \/ \E v \in Items : PushBegin(p, v)
    \/ PushCheck(p)
    \/ PushReload(p)
    \/ PushCasWin(p)
    \/ PushCasFail(p)
    \/ PushWrite(p)
    \/ PushPublish(p)

Pop(c) ==
    \/ PopBegin(c)
    \/ PopCheck(c)
    \/ PopReload(c)
    \/ PopCasWin(c)
    \/ PopCasFail(c)
    \/ PopRead(c)
    \/ PopRelease(c)

SizeApprox(o) == SizeLoadHead(o) \/ SizeLoadTail(o)

Next ==
    \/ \E p \in Producers : Push(p)
    \/ \E c \in Consumers : Pop(c)
    \/ \E o \in Observers : SizeApprox(o)

Spec == Init /\ [][Next]_vars

-----------------------------------------------------------------------------
(* Who owns what                                                           *)

\* Producer p has claimed position pushPos[p] and not yet published it.
Pushing(p) == pushPc[p] \in {"write", "publish"}
\* Consumer c has claimed position popPos[c] and not yet released it.
Popping(c) == popPc[c] \in {"read", "release"}

(***************************************************************************)
(* Properties                                                              *)
(***************************************************************************)

\* The type of every variable.
TypeOK ==
    /\ head \in Nat
    /\ tail \in Nat
    /\ sequence \in [Slots -> Nat]
    /\ data \in [Slots -> Items \cup {NoItem}]
    /\ pushPc \in [Producers -> {"idle", "check", "reload", "cas", "write", "publish"}]
    /\ pushPos \in [Producers -> Nat]
    /\ item \in [Producers -> Items \cup {NoItem}]
    /\ popPc \in [Consumers -> {"idle", "check", "reload", "cas", "read", "release"}]
    /\ popPos \in [Consumers -> Nat]
    /\ result \in [Consumers -> Items \cup {NoItem}]
    /\ obsPc \in [Observers -> {"idle", "tail"}]
    /\ obsHead \in [Observers -> Nat]
    /\ approx \in [Observers -> Nat]
    /\ log \in Seq(Items \cup {NoItem})

\* The plain (non-atomic) data member of a slot is never touched by two
\* threads at once: between the CAS that claims a position and the store
\* that publishes or releases it, the slot belongs to that thread alone.
SlotExclusive ==
    /\ \A p, q \in Producers :
          Pushing(p) /\ Pushing(q) /\ p # q => Slot(pushPos[p]) # Slot(pushPos[q])
    /\ \A c, d \in Consumers :
          Popping(c) /\ Popping(d) /\ c # d => Slot(popPos[c]) # Slot(popPos[d])
    /\ \A p \in Producers, c \in Consumers :
          Pushing(p) /\ Popping(c) => Slot(pushPos[p]) # Slot(popPos[c])

\* FIFO: the value a consumer moved out of the slot it claimed is the value
\* whose push won that same position, never an older lap's or a moved-from one.
PopReturnsPushed ==
    \A c \in Consumers :
        popPc[c] = "release" => result[c] = log[popPos[c] + 1]

\* The ring never holds more than Capacity claimed positions, and consumers
\* never overtake producers.
Bounded == tail <= head /\ head <= tail + Capacity

\* size_approx loads head_ before tail_, so what it returns never exceeds
\* the capacity however many operations run between the two loads.
ApproxWithinCapacity == \A o \in Observers : approx[o] <= Capacity

PushFails(p) == pushPc[p] = "check" /\ pushPc'[p] = "idle"
PopFails(c)  == popPc[c] = "check" /\ popPc'[c] = "idle"

\* try_push gives up only if, at the load that decided it, the ring was full
\* or the consumer of the slot's previous lap had claimed but not released it;
\* try_pop only if the ring was empty at the load that decided it, or the
\* producer of the oldest position had claimed but not published it.
FailuresJustified ==
    [][/\ \A p \in Producers : PushFails(p) =>
             /\ pushPos[p] = head
             /\ \/ head = tail + Capacity
                \/ \E c \in Consumers : Popping(c) /\ popPos[c] = head - Capacity
       /\ \A c \in Consumers : PopFails(c) =>
             /\ popPos[c] = tail
             /\ \/ head = tail
                \/ \E p \in Producers : Pushing(p) /\ pushPos[p] = tail]_vars

-----------------------------------------------------------------------------
(***************************************************************************)
(* The inductive invariant behind the properties above.                    *)
(***************************************************************************)

\* The positions the Capacity slots currently stand for: each slot serves
\* exactly one position of the window that starts at tail.
Window == tail .. tail + Capacity - 1

\* A claimed position has one producer, lies between tail and head, and its
\* slot still carries the sequence that let the producer in.
PushersOwn ==
    /\ \A p \in Producers : Pushing(p) =>
          /\ tail <= pushPos[p] /\ pushPos[p] < head
          /\ sequence[Slot(pushPos[p])] = pushPos[p]
          /\ item[p] = log[pushPos[p] + 1]
          /\ pushPc[p] = "publish" => data[Slot(pushPos[p])] = item[p]
    /\ \A p, q \in Producers :
          Pushing(p) /\ Pushing(q) /\ p # q => pushPos[p] # pushPos[q]

\* A position taken by a consumer is younger than one lap, its slot is still
\* marked published, and the item is in the slot until the consumer moves it.
PoppersOwn ==
    /\ \A c \in Consumers : Popping(c) =>
          /\ head <= popPos[c] + Capacity /\ popPos[c] < tail
          /\ sequence[Slot(popPos[c])] = popPos[c] + 1
          /\ popPc[c] = "read" => data[Slot(popPos[c])] = log[popPos[c] + 1]
          /\ popPc[c] = "release" => result[c] = log[popPos[c] + 1]
    /\ \A c, d \in Consumers :
          Popping(c) /\ Popping(d) /\ c # d => popPos[c] # popPos[d]

\* A slot whose position is claimed is being written or holds the pushed item.
ClaimedSlots ==
    \A x \in Window : x < head =>
        \/ /\ sequence[Slot(x)] = x
           /\ \E p \in Producers : Pushing(p) /\ pushPos[p] = x
        \/ /\ sequence[Slot(x)] = x + 1
           /\ data[Slot(x)] = log[x + 1]

\* A slot whose position is unclaimed is free or still being read one lap back.
FreeSlots ==
    \A x \in Window : head <= x =>
        \/ sequence[Slot(x)] = x
        \/ /\ sequence[Slot(x)] = x - Capacity + 1
           /\ \E c \in Consumers : Popping(c) /\ popPos[c] = x - Capacity

\* What a thread remembers of a check it made before other threads moved on.
StaleReads ==
    /\ \A p \in Producers :
          /\ pushPos[p] <= head
          /\ pushPc[p] = "cas" /\ pushPos[p] = head => sequence[Slot(head)] = head
    /\ \A c \in Consumers :
          /\ popPos[c] <= tail
          /\ popPc[c] = "cas" /\ popPos[c] = tail => sequence[Slot(tail)] = tail + 1
    /\ \A o \in Observers : obsHead[o] <= tail + Capacity

IInv ==
    /\ TypeOK
    /\ Bounded
    /\ Len(log) = head
    /\ PushersOwn
    /\ PoppersOwn
    /\ ClaimedSlots
    /\ FreeSlots
    /\ StaleReads
    /\ ApproxWithinCapacity

-----------------------------------------------------------------------------
(***************************************************************************)
(* The ring implements the queue without a ring: a position is being       *)
(* written or read from the compare-exchange that claims it to the store   *)
(* that publishes or releases it.                                          *)
(***************************************************************************)

Writing == [p \in Producers |-> IF Pushing(p) THEN pushPos[p] ELSE -1]
Reading == [c \in Consumers |-> IF Popping(c) THEN popPos[c] ELSE -1]

Abstract == INSTANCE TicketQueue WITH taken <- tail, writing <- Writing, reading <- Reading

\* try_push and try_pop behave as operations on a bounded FIFO of positions:
\* items leave in the order they were accepted, each exactly once, and no
\* accepted item is overwritten before it has been moved out.
ImplementsTicketQueue == Abstract!Spec
=============================================================================
