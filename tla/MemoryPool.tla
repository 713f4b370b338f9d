----------------------------- MODULE MemoryPool -----------------------------
(***************************************************************************)
(* sor::MemoryPool (sor/core/memory_pool.h): a fixed number of slots whose *)
(* free ones form a linked stack.  The head of the stack is one word that  *)
(* holds the index of the first free slot and a tag that every successful  *)
(* exchange increments; the link of a free slot is stored in the slot      *)
(* itself, in the bytes its user owns while it is allocated.               *)
(*                                                                         *)
(* One action per atomic access.  Tags wrap at TagModulus (2^32 in the     *)
(* code).  The one assumption is that no loop iteration is overtaken by    *)
(* TagModulus or more successful exchanges (NotLapped): that is what the   *)
(* width of the tag buys.                                                  *)
(***************************************************************************)
EXTENDS Integers, Sequences, FiniteSets

CONSTANTS PoolSize,      \* number of slots
          PoolThreads,   \* threads that call allocate and deallocate
          TagModulus,    \* number of different tags
          CountModulus   \* number of values of available_

ASSUME PoolThreadsAssumption == IsFiniteSet(PoolThreads)
ASSUME PoolSizeAssumption == PoolSize \in Nat /\ PoolSize > 0
ASSUME TagAssumption == TagModulus \in Nat /\ TagModulus > 1
ASSUME CountAssumption == CountModulus \in Nat /\ CountModulus > PoolSize

VARIABLES free_head,   \* free_head_: index and tag
          next,        \* the link stored at the beginning of each slot
          available,   \* available_
          held,        \* the slots each thread has allocated and not given back
          op,          \* program counter and locals of each thread's call
          overtaken,   \* history: exchanges since the thread loaded free_head_
          freeList     \* history: the free slots, first one first

poolVars == <<free_head, next, available, held, op, overtaken, freeList>>

SlotIds  == 0 .. PoolSize - 1
SENTINEL == PoolSize
Heads    == [index : SlotIds \cup {SENTINEL}, tag : 0 .. TagModulus - 1]
Idle     == [pc |-> "idle", slot |-> 0, old |-> [index |-> 0, tag |-> 0], nxt |-> 0]

PoolInit ==
    /\ free_head = [index |-> 0, tag |-> 0]
    /\ next = [s \in SlotIds |-> s + 1]
    /\ available = PoolSize
    /\ held = [t \in PoolThreads |-> {}]
    /\ op = [t \in PoolThreads |-> Idle]
    /\ overtaken = [t \in PoolThreads |-> 0]
    /\ freeList = [i \in 1 .. PoolSize |-> i - 1]

NotLapped == \A t \in PoolThreads : overtaken[t] < TagModulus - 1

\* Mutant: the tag is carried over instead of incremented.
ExchangeUntagged(t, index) ==
    /\ NotLapped
    /\ free_head' = [index |-> index, tag |-> op[t].old.tag]
    /\ overtaken' = [u \in PoolThreads |-> 0]

\* free_head_ is exchanged: every call under way that loaded it before is
\* now behind by one more.  The exchanging call itself has no use for it.
Exchange(t, index) ==
    /\ NotLapped
    /\ free_head' = [index |-> index, tag |-> (op[t].old.tag + 1) % TagModulus]
    /\ overtaken' = [u \in PoolThreads |->
                       IF u = t \/ op[u].pc \notin {"next", "take", "link", "put"}
                       THEN 0 ELSE overtaken[u] + 1]

\* What a call does with a freshly loaded head: allocate gives up on an empty
\* stack and returns nullptr.
Loaded(t, pc, slot) ==
    /\ op' = [op EXCEPT ![t] =
                IF pc = "next" /\ free_head.index = SENTINEL THEN Idle
                ELSE [pc |-> pc, slot |-> slot, old |-> free_head, nxt |-> 0]]
    /\ overtaken' = [overtaken EXCEPT ![t] = 0]

-----------------------------------------------------------------------------
(* allocate                                                                *)

AllocateLoad(t) ==
    /\ op[t].pc = "idle"
    /\ Loaded(t, "next", 0)
    /\ UNCHANGED <<free_head, next, available, held, freeList>>

AllocateNext(t) ==
    /\ op[t].pc = "next"
    /\ op' = [op EXCEPT ![t].pc = "take", ![t].nxt = next[op[t].old.index]]
    /\ UNCHANGED <<free_head, next, available, held, overtaken, freeList>>

AllocateTake(t) ==
    /\ op[t].pc = "take"
    /\ free_head = op[t].old
    /\ Exchange(t, op[t].nxt)
    /\ held' = [held EXCEPT ![t] = @ \cup {op[t].old.index}]
    /\ freeList' = Tail(freeList)
    /\ op' = [op EXCEPT ![t] = [Idle EXCEPT !.pc = "subtract"]]
    /\ UNCHANGED <<next, available>>

\* compare_exchange_weak fails, possibly spuriously, and reloads the head.
AllocateRetry(t) ==
    /\ op[t].pc = "take"
    /\ Loaded(t, "next", 0)
    /\ UNCHANGED <<free_head, next, available, held, freeList>>

AllocateCount(t) ==
    /\ op[t].pc = "subtract"
    /\ available' = (available - 1) % CountModulus
    /\ op' = [op EXCEPT ![t] = Idle]
    /\ UNCHANGED <<free_head, next, held, overtaken, freeList>>

\* The owner of a slot writes its object, over the link.
Use(t) ==
    /\ \E s \in held[t], x \in SlotIds \cup {SENTINEL} : next' = [next EXCEPT ![s] = x]
    /\ UNCHANGED <<free_head, available, held, op, overtaken, freeList>>

-----------------------------------------------------------------------------
(* deallocate                                                              *)

DeallocateLoad(t) ==
    /\ op[t].pc = "idle"
    /\ \E s \in held[t] : /\ held' = [held EXCEPT ![t] = @ \ {s}]
                          /\ Loaded(t, "link", s)
    /\ UNCHANGED <<free_head, next, available, freeList>>

DeallocateLink(t) ==
    /\ op[t].pc = "link"
    /\ next' = [next EXCEPT ![op[t].slot] = op[t].old.index]
    /\ op' = [op EXCEPT ![t].pc = "put"]
    /\ UNCHANGED <<free_head, available, held, overtaken, freeList>>

DeallocatePut(t) ==
    /\ op[t].pc = "put"
    /\ free_head = op[t].old
    /\ Exchange(t, op[t].slot)
    /\ freeList' = <<op[t].slot>> \o freeList
    /\ op' = [op EXCEPT ![t] = [Idle EXCEPT !.pc = "add"]]
    /\ UNCHANGED <<next, available, held>>

DeallocateRetry(t) ==
    /\ op[t].pc = "put"
    /\ Loaded(t, "link", op[t].slot)
    /\ UNCHANGED <<free_head, next, available, held, freeList>>

DeallocateCount(t) ==
    /\ op[t].pc = "add"
    /\ available' = (available + 1) % CountModulus
    /\ op' = [op EXCEPT ![t] = Idle]
    /\ UNCHANGED <<free_head, next, held, overtaken, freeList>>

Allocate(t) ==
    \/ AllocateLoad(t)
    \/ AllocateNext(t)
    \/ AllocateTake(t)
    \/ AllocateRetry(t)
    \/ AllocateCount(t)

Deallocate(t) ==
    \/ DeallocateLoad(t)
    \/ DeallocateLink(t)
    \/ DeallocatePut(t)
    \/ DeallocateRetry(t)
    \/ DeallocateCount(t)

PoolNext == \E t \in PoolThreads : Allocate(t) \/ Deallocate(t) \/ Use(t)

PoolSpec == PoolInit /\ [][PoolNext]_poolVars

-----------------------------------------------------------------------------
(***************************************************************************)
(* Properties                                                              *)
(***************************************************************************)

\* The slots that are neither free nor in another thread's hands: allocated
\* by t, or on t's way back to the stack.
Hands(t) == held[t] \cup (IF op[t].pc \in {"link", "put"} THEN {op[t].slot} ELSE {})

\* The link a slot at position i of the free list must have; position 0 is
\* the head of the stack.
Follower(i) == IF i < Len(freeList) THEN freeList[i + 1] ELSE SENTINEL

\* allocate never hands out a slot that somebody holds, and no slot is ever
\* lost: whatever a thread that was preempted between its loads and its
\* exchange saw, the stack links exactly the slots nobody holds, each once.
\* available() is off by exactly the calls between their exchange and their
\* count (so this unsigned number may wrap below zero for a moment).
PoolPartition ==
    /\ free_head.index = Follower(0)
    /\ \A i \in 1 .. Len(freeList) : next[freeList[i]] = Follower(i)
    /\ \A i, j \in 1 .. Len(freeList) : freeList[i] = freeList[j] => i = j
    /\ \A t, u \in PoolThreads : t # u => Hands(t) \cap Hands(u) = {}
    /\ \A s \in SlotIds :
          (\E i \in 1 .. Len(freeList) : freeList[i] = s)
            <=> \A t \in PoolThreads : s \notin Hands(t)
    /\ available = (Len(freeList)
                     + Cardinality({t \in PoolThreads : op[t].pc = "subtract"})
                     - Cardinality({t \in PoolThreads : op[t].pc = "add"})) % CountModulus
=============================================================================
