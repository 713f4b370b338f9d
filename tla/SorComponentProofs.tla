------------------------- MODULE SorComponentProofs -------------------------
(***************************************************************************)
(* Components below the sor gateway, for every value of their constants:   *)
(* the free list of MemoryPool holds exactly the slots nobody has,         *)
(* RateLimiter exceeds its limit only where calls overlap, and then by a   *)
(* bounded number, a BookSide holds the best of its quotes, and SPSCQueue  *)
(* and MPSCQueue hand out what was pushed, in order.                       *)
(***************************************************************************)
EXTENDS MemoryPool, RateLimiter, BookSide, MPSCQueue, SPSCQueue, FiniteSetTheorems,
        SequenceTheorems, TLAPS

-----------------------------------------------------------------------------
(* Positions and their indices in a ring of C slots, and counters that     *)
(* wrap at C.                                                              *)

(* A position and its index. *)
LEMMA ModDef ==
  ASSUME NEW C \in Nat, C > 0, NEW x \in Int
  PROVE  /\ x % C \in 0 .. C - 1
         /\ x \div C \in Int
         /\ x = C * (x \div C) + (x % C)
  OBVIOUS

(* A number below the ring's size that is a multiple of it is 0. *)
LEMMA SmallMultiple ==
  ASSUME NEW C \in Nat, C > 0, NEW k \in Int, NEW d \in Int,
         C * k = d, d < C, -C < d
  PROVE  d = 0
<1>1. CASE k >= 1
  <2>1. C * k >= C
    BY <1>1
  <2>. QED
    BY <2>1
<1>2. CASE k <= -1
  <2>1. C * k <= -C
    BY <1>2
  <2>. QED
    BY <2>1
<1>3. CASE k = 0
  BY <1>3
<1>. QED
  BY <1>1, <1>2, <1>3

(* An index determines the position up to multiples of the ring's size. *)
LEMMA ModUnique ==
  ASSUME NEW C \in Nat, C > 0, NEW x \in Int, NEW r \in 0 .. C - 1, NEW k \in Int,
         x = C * k + r
  PROVE  x % C = r
<1> DEFINE a == x \div C
           s == x % C
<1>1. a \in Int /\ s \in 0 .. C - 1 /\ x = C * a + s
  BY ModDef
<1> HIDE DEF a, s
<1>2. /\ a - k \in Int /\ r - s \in Int
      /\ C * (a - k) = r - s /\ r - s < C /\ -C < r - s
  BY <1>1
<1>3. r - s = 0
  BY <1>1, <1>2, SmallMultiple
<1>. QED
  BY <1>1, <1>3 DEF s

(* Different positions of one lap have different indices. *)
LEMMA ModInjective ==
  ASSUME NEW C \in Nat, C > 0, NEW x \in Int, NEW y \in Int,
         x < y + C, y < x + C, x % C = y % C
  PROVE  x = y
<1> DEFINE a == x \div C
           b == y \div C
           r == x % C
<1>1. a \in Int /\ b \in Int /\ r \in Int /\ x = C * a + r /\ y = C * b + r
  BY ModDef
<1> HIDE DEF a, b, r
<1>2. /\ a - b \in Int /\ x - y \in Int
      /\ C * (a - b) = x - y /\ x - y < C /\ -C < x - y
  BY <1>1
<1>3. x - y = 0
  BY <1>2, SmallMultiple
<1>. QED
  BY <1>3

(* A position and the one a lap later share an index. *)
LEMMA ModShift ==
  ASSUME NEW C \in Nat, C > 0, NEW x \in Int
  PROVE  (x + C) % C = x % C
<1> DEFINE a == x \div C
           r == x % C
<1>1. a \in Int /\ r \in 0 .. C - 1 /\ x = C * a + r
  BY ModDef
<1> HIDE DEF a, r
<1>2. x + C = C * (a + 1) + r
  BY <1>1
<1>3. (x + C) % C = r
  BY <1>1, <1>2, ModUnique
<1>. QED
  BY <1>3 DEF r

(* Counting on from an index is counting on from the position. *)
LEMMA ModAdd ==
  ASSUME NEW C \in Nat, C > 0, NEW x \in Int, NEW d \in Int
  PROVE  ((x % C) + d) % C = (x + d) % C
<1> DEFINE a == x \div C
           r == x % C
           b == (r + d) \div C
           s == (r + d) % C
<1>1. a \in Int /\ r \in 0 .. C - 1 /\ x = C * a + r
  BY ModDef
<1>2. b \in Int /\ s \in 0 .. C - 1 /\ r + d = C * b + s
  BY <1>1, ModDef
<1> HIDE DEF a, r, b, s
<1>3. x + d \in Int /\ a + b \in Int /\ x + d = C * (a + b) + s
  BY <1>1, <1>2
<1>4. (x + d) % C = s
  BY <1>2, <1>3, ModUnique
<1>. QED
  BY <1>4 DEF s, r

(* The index after the index of x is the index of the position after x. *)
LEMMA ModNext ==
  ASSUME NEW C \in Nat, C > 0, NEW x \in Int
  PROVE  ((x % C) + 1) % C = (x + 1) % C
<1>1. 1 \in Int
  OBVIOUS
<1>. QED
  BY <1>1, ModAdd

(* In the first lap a position is its index. *)
LEMMA ModSmall ==
  ASSUME NEW C \in Nat, C > 0, NEW x \in 0 .. C - 1
  PROVE  x % C = x
<1>1. x = C * 0 + x
  OBVIOUS
<1>. QED
  BY <1>1, ModUnique

-----------------------------------------------------------------------------
(* The memory pool.                                                        *)

Active == {"next", "take", "link", "put"}   \* a loaded head is in use
Links  == SlotIds \cup {SENTINEL}
Calls  == [pc : Active \cup {"idle", "subtract", "add"}, slot : SlotIds, old : Heads, nxt : Links]

PoolTypeOK ==
    /\ free_head \in Heads
    /\ next \in [SlotIds -> Links]
    /\ available \in Int
    /\ held \in [PoolThreads -> SUBSET SlotIds]
    /\ op \in [PoolThreads -> Calls]
    /\ overtaken \in [PoolThreads -> 0 .. TagModulus - 1]
    /\ freeList \in Seq(SlotIds)

\* What a call that has locals l, has been overtaken by n exchanges and whose
\* thread holds the slots h may rely on.  The tag counts the exchanges: as
\* long as there was none, the loaded head and the link behind it are current.
Fits(l, n, h) ==
    /\ l.pc \in Active =>
          /\ free_head.tag = (l.old.tag + n) % TagModulus
          /\ n = 0 => free_head = l.old
    /\ l.pc \in {"next", "take"} => l.old.index \in SlotIds
    /\ l.pc = "take" /\ n = 0 => l.nxt = next[l.old.index]
    /\ l.pc \in {"link", "put"} => l.slot \notin h
    /\ l.pc = "put" => next[l.slot] = l.old.index

PoolCalls == \A t \in PoolThreads : Fits(op[t], overtaken[t], held[t])

PoolIInv == PoolTypeOK /\ PoolCalls /\ PoolPartition

(* The links of the free list, apart from its length. *)
FreeChain ==
    /\ free_head.index = Follower(0)
    /\ \A i \in 1 .. Len(freeList) : next[freeList[i]] = Follower(i)
    /\ \A i, j \in 1 .. Len(freeList) : freeList[i] = freeList[j] => i = j

HandsDisjoint == \A t, u \in PoolThreads : t # u => Hands(t) \cap Hands(u) = {}

Free(s) == \E i \in 1 .. Len(freeList) : freeList[i] = s

FreeUnlessHeld == \A s \in SlotIds : Free(s) <=> \A t \in PoolThreads : s \notin Hands(t)

Subtracting == {t \in PoolThreads : op[t].pc = "subtract"}
Adding      == {t \in PoolThreads : op[t].pc = "add"}
Counted     == available = (Len(freeList) + Cardinality(Subtracting) - Cardinality(Adding)) % CountModulus

LEMMA PartitionParts ==
  PoolPartition <=> FreeChain /\ HandsDisjoint /\ FreeUnlessHeld /\ Counted
  BY DEF PoolPartition, FreeChain, HandsDisjoint, FreeUnlessHeld, Free, Counted, Subtracting, Adding

LEMMA PartitionPartsNext ==
  PoolPartition' <=> FreeChain' /\ HandsDisjoint' /\ FreeUnlessHeld' /\ Counted'
  BY PartitionParts, PTL

LEMMA SlotFacts ==
  /\ PoolSize \in Nat /\ PoolSize > 0 /\ TagModulus \in Nat /\ TagModulus > 1
  /\ CountModulus \in Nat /\ CountModulus > 0
  /\ SENTINEL \notin SlotIds /\ 0 \in SlotIds /\ SlotIds \subseteq Nat /\ 0 \in 0 .. TagModulus - 1
  BY PoolSizeAssumption, TagAssumption, CountAssumption DEF SlotIds, SENTINEL

LEMMA IdleType == Idle \in Calls
  BY SlotFacts DEF Idle, Calls, Heads, Links

(* A tag loaded now is a current tag. *)
LEMMA TagNow ==
  ASSUME NEW h \in Heads
  PROVE  h.tag \in Nat /\ h.tag = (h.tag + 0) % TagModulus
<1>1. h.tag \in 0 .. TagModulus - 1
  BY DEF Heads
<1>2. h.tag % TagModulus = h.tag
  BY <1>1, SlotFacts, ModSmall
<1>. QED
  BY <1>1, <1>2, SlotFacts

LEMMA PoolInitIInv == PoolInit => PoolIInv
<1> SUFFICES ASSUME PoolInit PROVE PoolIInv
  OBVIOUS
<1>1. /\ Len(freeList) = PoolSize /\ freeList \in Seq(SlotIds)
      /\ \A i \in 1 .. PoolSize : freeList[i] = i - 1
  BY SlotFacts DEF PoolInit, SlotIds
<1>2. PoolTypeOK
  BY <1>1, SlotFacts, IdleType DEF PoolInit, PoolTypeOK, Heads, Links, SENTINEL, SlotIds
<1>3. PoolCalls
  BY DEF PoolInit, PoolCalls, Fits, Idle, Active
<1>4. FreeChain
  BY <1>1, SlotFacts DEF PoolInit, FreeChain, Follower, SENTINEL, SlotIds
<1>5. \A t \in PoolThreads : Hands(t) = {}
  BY DEF PoolInit, Hands, Idle
<1>6. HandsDisjoint
  BY <1>5 DEF HandsDisjoint
<1>7. FreeUnlessHeld
  <2>1. \A s \in SlotIds : s + 1 \in 1 .. PoolSize /\ freeList[s + 1] = s
    BY <1>1, SlotFacts DEF SlotIds
  <2>. QED
    BY <1>1, <1>5, <2>1 DEF FreeUnlessHeld, Free
<1>8. Counted
  <2>1. Subtracting = {} /\ Adding = {}
    BY DEF PoolInit, Subtracting, Adding, Idle
  <2>2. PoolSize % CountModulus = PoolSize
    <3>1. PoolSize \in 0 .. CountModulus - 1
      BY CountAssumption, SlotFacts
    <3>. QED
      BY <3>1, SlotFacts, ModSmall
  <2>3. Cardinality({}) = 0
    BY FS_EmptySet
  <2>. QED
    BY <1>1, <2>1, <2>2, <2>3, SlotFacts DEF PoolInit, Counted
<1>. QED
  BY <1>2, <1>3, <1>4, <1>6, <1>7, <1>8, PartitionParts DEF PoolIInv

(* A step that changes only the locals of one call, and moves slots between *)
(* what its thread holds and what it is giving back.                       *)
LEMMA PoolLocal ==
  ASSUME PoolIInv, NEW t \in PoolThreads,
         NEW l \in Calls, NEW n \in 0 .. TagModulus - 1, NEW h \in SUBSET SlotIds,
         op' = [op EXCEPT ![t] = l],
         overtaken' = [overtaken EXCEPT ![t] = n],
         held' = [held EXCEPT ![t] = h],
         h \cup (IF l.pc \in {"link", "put"} THEN {l.slot} ELSE {}) = Hands(t),
         op[t].pc \notin {"subtract", "add"}, l.pc \notin {"subtract", "add"},
         Fits(l, n, h),
         UNCHANGED <<free_head, next, available, freeList>>
  PROVE  PoolIInv'
<1>1. /\ op'[t] = l /\ overtaken'[t] = n /\ held'[t] = h
      /\ \A u \in PoolThreads \ {t} : op'[u] = op[u] /\ overtaken'[u] = overtaken[u] /\ held'[u] = held[u]
  BY DEF PoolIInv, PoolTypeOK
<1>2. PoolTypeOK'
  BY DEF PoolIInv, PoolTypeOK
<1>3. PoolCalls'
  BY <1>1 DEF PoolIInv, PoolCalls, Fits
<1>4. \A u \in PoolThreads : Hands(u)' = Hands(u)
  BY <1>1 DEF Hands
<1>5. Subtracting' = Subtracting /\ Adding' = Adding
  BY <1>1 DEF Subtracting, Adding
<1>6. FreeChain' /\ HandsDisjoint' /\ FreeUnlessHeld' /\ Counted'
  BY <1>4, <1>5, PartitionParts
     DEF PoolIInv, FreeChain, Follower, HandsDisjoint, FreeUnlessHeld, Free, Counted
<1>. QED
  BY <1>2, <1>3, <1>6, PartitionPartsNext DEF PoolIInv

(* A freshly loaded head: allocate gives up on an empty list. *)
LEMMA LoadedFits ==
  ASSUME PoolIInv, NEW t \in PoolThreads, NEW k \in {"next", "link"}, NEW s \in SlotIds,
         NEW h \in SUBSET SlotIds, k = "link" => s \notin h
  PROVE  LET l == IF k = "next" /\ free_head.index = SENTINEL THEN Idle
                  ELSE [pc |-> k, slot |-> s, old |-> free_head, nxt |-> 0]
         IN  l \in Calls /\ Fits(l, 0, h)
             /\ l.pc \notin {"subtract", "add"}
             /\ (k = "next" => l.pc \notin {"link", "put"})
             /\ (k = "link" => l.pc = "link" /\ l.slot = s)
<1>1. free_head \in Heads /\ free_head.index \in Links
  BY DEF PoolIInv, PoolTypeOK, Heads, Links
<1>2. free_head.tag = (free_head.tag + 0) % TagModulus
  BY <1>1, TagNow
<1>3. CASE k = "next" /\ free_head.index = SENTINEL
  BY <1>3, IdleType DEF Idle, Fits, Active
<1>4. CASE ~(k = "next" /\ free_head.index = SENTINEL)
  <2>1. [pc |-> k, slot |-> s, old |-> free_head, nxt |-> 0] \in Calls
    BY <1>1, SlotFacts DEF Calls, Active, Links
  <2>. QED
    BY <1>1, <1>2, <1>4, <2>1 DEF Fits, Active, Links
<1>. QED
  BY <1>3, <1>4

LEMMA LoadsInv ==
  ASSUME PoolIInv, NEW t \in PoolThreads,
         AllocateLoad(t) \/ AllocateRetry(t) \/ DeallocateLoad(t) \/ DeallocateRetry(t)
  PROVE  PoolIInv'
<1>1. /\ op[t] \in Calls /\ held[t] \in SUBSET SlotIds
      /\ op[t].slot \in SlotIds /\ 0 \in SlotIds /\ 0 \in 0 .. TagModulus - 1
  BY SlotFacts DEF PoolIInv, PoolTypeOK, Calls
<1>2. held = [held EXCEPT ![t] = held[t]]
  BY DEF PoolIInv, PoolTypeOK
<1>3. CASE AllocateLoad(t) \/ AllocateRetry(t)
  <2> DEFINE l == IF "next" = "next" /\ free_head.index = SENTINEL THEN Idle
                  ELSE [pc |-> "next", slot |-> 0, old |-> free_head, nxt |-> 0]
  <2>1. /\ l \in Calls /\ Fits(l, 0, held[t])
        /\ l.pc \notin {"subtract", "add", "link", "put"}
    BY <1>1, LoadedFits
  <2>2. /\ op' = [op EXCEPT ![t] = l] /\ overtaken' = [overtaken EXCEPT ![t] = 0]
        /\ op[t].pc \in {"idle", "take"}
        /\ UNCHANGED <<free_head, next, available, held, freeList>>
    BY <1>3 DEF AllocateLoad, AllocateRetry, Loaded
  <2> HIDE DEF l
  <2>3. held[t] \cup (IF l.pc \in {"link", "put"} THEN {l.slot} ELSE {}) = Hands(t)
    BY <2>1, <2>2 DEF Hands
  <2>4. held' = [held EXCEPT ![t] = held[t]]
    BY <1>2, <2>2
  <2>. QED
    BY <1>1, <2>1, <2>2, <2>3, <2>4, PoolLocal
<1>4. ASSUME NEW s \in SlotIds, NEW h \in SUBSET SlotIds, s \notin h,
             Loaded(t, "link", s), held' = [held EXCEPT ![t] = h], h \cup {s} = Hands(t),
             op[t].pc \in {"idle", "put"},
             UNCHANGED <<free_head, next, available, freeList>>
      PROVE  PoolIInv'
  <2> DEFINE l == IF "link" = "next" /\ free_head.index = SENTINEL THEN Idle
                  ELSE [pc |-> "link", slot |-> s, old |-> free_head, nxt |-> 0]
  <2>1. /\ l \in Calls /\ Fits(l, 0, h) /\ l.pc = "link" /\ l.slot = s
    BY <1>4, LoadedFits
  <2>2. op' = [op EXCEPT ![t] = l] /\ overtaken' = [overtaken EXCEPT ![t] = 0]
    BY <1>4 DEF Loaded
  <2> HIDE DEF l
  <2>3. h \cup (IF l.pc \in {"link", "put"} THEN {l.slot} ELSE {}) = Hands(t)
    BY <1>4, <2>1
  <2>. QED
    BY <1>1, <1>4, <2>1, <2>2, <2>3, PoolLocal
<1>5. CASE DeallocateLoad(t)
  <2>1. PICK s \in held[t] : held' = [held EXCEPT ![t] = @ \ {s}] /\ Loaded(t, "link", s)
    BY <1>5 DEF DeallocateLoad
  <2>2. op[t].pc = "idle" /\ UNCHANGED <<free_head, next, available, freeList>>
    BY <1>5 DEF DeallocateLoad
  <2>3. s \in SlotIds /\ (held[t] \ {s}) \in SUBSET SlotIds /\ (held[t] \ {s}) \cup {s} = Hands(t)
    BY <1>1, <2>2 DEF Hands
  <2>4. held' = [held EXCEPT ![t] = held[t] \ {s}]
    BY <2>1
  <2>. QED
    BY <1>4, <2>1, <2>2, <2>3, <2>4
<1>6. CASE DeallocateRetry(t)
  <2>1. op[t].pc = "put" /\ Loaded(t, "link", op[t].slot)
        /\ UNCHANGED <<free_head, next, available, held, freeList>>
    BY <1>6 DEF DeallocateRetry
  <2>2. op[t].slot \notin held[t] /\ held[t] \cup {op[t].slot} = Hands(t)
    BY <2>1 DEF Hands, PoolIInv, PoolCalls, Fits
  <2>3. held' = [held EXCEPT ![t] = held[t]]
    BY <1>2, <2>1
  <2>. QED
    BY <1>1, <1>4, <2>1, <2>2, <2>3
<1>. QED
  BY <1>3, <1>5, <1>6

LEMMA AllocateNextInv ==
  ASSUME PoolIInv, NEW t \in PoolThreads, AllocateNext(t) PROVE PoolIInv'
<1> DEFINE l == [op[t] EXCEPT !.pc = "take", !.nxt = next[op[t].old.index]]
<1>1. /\ op[t].pc = "next" /\ op' = [op EXCEPT ![t] = l]
      /\ UNCHANGED <<free_head, next, available, held, overtaken, freeList>>
  BY DEF AllocateNext
<1>2. /\ op[t] \in Calls /\ overtaken[t] \in 0 .. TagModulus - 1 /\ held[t] \in SUBSET SlotIds
      /\ overtaken' = [overtaken EXCEPT ![t] = overtaken[t]] /\ held' = [held EXCEPT ![t] = held[t]]
      /\ op[t].old.index \in SlotIds
  BY <1>1 DEF PoolIInv, PoolTypeOK, PoolCalls, Fits
<1>3. /\ l \in Calls /\ l.pc = "take" /\ l.old = op[t].old /\ l.nxt = next[op[t].old.index]
  BY <1>2 DEF Calls, Active, PoolIInv, PoolTypeOK
<1> HIDE DEF l
<1>4. Fits(l, overtaken[t], held[t])
  BY <1>1, <1>3 DEF Fits, Active, PoolIInv, PoolCalls
<1>5. held[t] \cup (IF l.pc \in {"link", "put"} THEN {l.slot} ELSE {}) = Hands(t)
  BY <1>1, <1>3 DEF Hands
<1>. QED
  BY <1>1, <1>2, <1>3, <1>4, <1>5, PoolLocal

(* A slot in somebody's hands is not in the free list. *)
LEMMA HeldNotFree ==
  ASSUME PoolIInv, NEW t \in PoolThreads, NEW s \in Hands(t)
  PROVE  s \in SlotIds /\ \A i \in 1 .. Len(freeList) : freeList[i] # s
<1>1. s \in SlotIds
  BY DEF Hands, PoolIInv, PoolTypeOK, Calls
<1>2. FreeUnlessHeld
  BY PartitionParts DEF PoolIInv
<1>. QED
  BY <1>1, <1>2 DEF FreeUnlessHeld, Free

(* A head nobody has exchanged since it was loaded is the first free slot. *)
LEMMA CurrentHead ==
  ASSUME PoolIInv, free_head.index \in SlotIds
  PROVE  /\ Len(freeList) \in Nat /\ Len(freeList) > 0 /\ freeList \in Seq(SlotIds)
         /\ free_head.index = freeList[1] /\ next[free_head.index] = Follower(1)
<1>1. free_head.index = Follower(0) /\ freeList \in Seq(SlotIds) /\ Len(freeList) \in Nat
  BY PartitionParts DEF PoolIInv, PoolTypeOK, FreeChain
<1>2. Len(freeList) > 0 /\ Follower(0) = freeList[1]
  BY <1>1, SlotFacts DEF Follower
<1>3. 1 \in 1 .. Len(freeList)
  BY <1>1, <1>2
<1>4. next[freeList[1]] = Follower(1)
  BY <1>3, PartitionParts DEF PoolIInv, FreeChain
<1>. QED
  BY <1>1, <1>2, <1>4

(* A thread that writes to a slot of its own disturbs no link of the free   *)
(* list and none that another call relies on.                              *)
LEMMA OwnWrite ==
  ASSUME PoolIInv, NEW t \in PoolThreads, NEW s \in Hands(t), NEW x \in Links,
         next' = [next EXCEPT ![s] = x], UNCHANGED <<free_head, freeList>>
  PROVE  /\ next' \in [SlotIds -> Links]
         /\ FreeChain'
         /\ \A u \in PoolThreads :
               /\ op[u].pc # "put" \/ op[u].slot # s
               /\ op'[u] = op[u] /\ overtaken'[u] = overtaken[u] /\ held'[u] = held[u]
               => Fits(op[u], overtaken[u], held[u])'
<1>1. s \in SlotIds /\ \A i \in 1 .. Len(freeList) : freeList[i] # s
  BY HeldNotFree
<1>2. /\ next' \in [SlotIds -> Links] /\ freeList \in Seq(SlotIds)
      /\ \A r \in SlotIds : r # s => next'[r] = next[r]
  BY <1>1 DEF PoolIInv, PoolTypeOK
<1>3. FreeChain'
  <2>1. \A i \in 1 .. Len(freeList) : freeList[i] \in SlotIds
    BY <1>2
  <2>. QED
    BY <1>1, <1>2, <2>1, PartitionParts DEF PoolIInv, FreeChain, Follower
<1>4. ASSUME NEW u \in PoolThreads, op[u].pc # "put" \/ op[u].slot # s,
             op'[u] = op[u], overtaken'[u] = overtaken[u], held'[u] = held[u]
      PROVE  Fits(op[u], overtaken[u], held[u])'
  <2>1. Fits(op[u], overtaken[u], held[u]) /\ op[u].slot \in SlotIds
    BY DEF PoolIInv, PoolCalls, PoolTypeOK, Calls
  <2>2. op[u].pc = "take" /\ overtaken[u] = 0 => op[u].old.index \in SlotIds /\ op[u].old.index # s
    <3>1. ASSUME op[u].pc = "take", overtaken[u] = 0
          PROVE  op[u].old.index \in SlotIds /\ op[u].old = free_head
      BY <2>1, <3>1 DEF Fits, Active
    <3>2. ASSUME op[u].pc = "take", overtaken[u] = 0
          PROVE  op[u].old.index # s
      <4>1. free_head.index = freeList[1] /\ 1 \in 1 .. Len(freeList)
        BY <3>1, <3>2, CurrentHead
      <4>. QED
        BY <1>1, <3>1, <3>2, <4>1
    <3>. QED
      BY <3>1, <3>2
  <2>. QED
    BY <1>2, <1>4, <2>1, <2>2 DEF Fits
<1>. QED
  BY <1>2, <1>3, <1>4

(* Threads that give back slots give back different ones. *)
LEMMA GivenBackApart ==
  ASSUME PoolIInv, NEW t \in PoolThreads, NEW s \in Hands(t), NEW u \in PoolThreads,
         op[u].pc = "put", u # t \/ s \in held[t]
  PROVE  op[u].slot # s
<1>1. op[u].slot \in Hands(u) /\ op[u].slot \notin held[u]
  BY DEF Hands, PoolIInv, PoolCalls, Fits
<1>2. u # t => Hands(u) \cap Hands(t) = {}
  BY PartitionParts DEF PoolIInv, HandsDisjoint
<1>. QED
  BY <1>1, <1>2

LEMMA UseInv ==
  ASSUME PoolIInv, NEW t \in PoolThreads, Use(t) PROVE PoolIInv'
<1>1. PICK s \in held[t], x \in Links : next' = [next EXCEPT ![s] = x]
  BY DEF Use, Links
<1>2. UNCHANGED <<free_head, available, held, op, overtaken, freeList>>
  BY DEF Use
<1>3. s \in Hands(t)
  BY DEF Hands
<1>4. next' \in [SlotIds -> Links] /\ FreeChain'
  BY <1>1, <1>2, <1>3, OwnWrite
<1>5. PoolCalls'
  <2>1. ASSUME NEW u \in PoolThreads PROVE Fits(op[u], overtaken[u], held[u])'
    <3>1. op[u].pc # "put" \/ op[u].slot # s
      BY <1>3, GivenBackApart
    <3>. QED
      BY <1>1, <1>2, <1>3, <3>1, OwnWrite
  <2>. QED
    BY <2>1 DEF PoolCalls
<1>6. PoolTypeOK'
  BY <1>2, <1>4 DEF PoolIInv, PoolTypeOK
<1>7. HandsDisjoint' /\ FreeUnlessHeld' /\ Counted'
  BY <1>2, PartitionParts
     DEF PoolIInv, HandsDisjoint, FreeUnlessHeld, Free, Hands, Counted, Subtracting, Adding
<1>. QED
  BY <1>4, <1>5, <1>6, <1>7, PartitionPartsNext DEF PoolIInv

LEMMA DeallocateLinkInv ==
  ASSUME PoolIInv, NEW t \in PoolThreads, DeallocateLink(t) PROVE PoolIInv'
<1> DEFINE s == op[t].slot
<1>1. /\ op[t].pc = "link" /\ next' = [next EXCEPT ![s] = op[t].old.index]
      /\ op' = [op EXCEPT ![t].pc = "put"]
      /\ UNCHANGED <<free_head, available, held, overtaken, freeList>>
  BY DEF DeallocateLink
<1>2. /\ s \in Hands(t) /\ s \in SlotIds /\ s \notin held[t]
      /\ op[t] \in Calls /\ op[t].old.index \in Links
  BY <1>1 DEF Hands, PoolIInv, PoolTypeOK, PoolCalls, Fits, Calls, Heads, Links
<1>3. /\ op' \in [PoolThreads -> Calls]
      /\ op'[t].pc = "put" /\ op'[t].slot = s /\ op'[t].old = op[t].old
      /\ \A u \in PoolThreads \ {t} : op'[u] = op[u]
  BY <1>1 DEF PoolIInv, PoolTypeOK, Calls, Active
<1>4. next' \in [SlotIds -> Links] /\ FreeChain'
  BY <1>1, <1>2, OwnWrite
<1>5. PoolCalls'
  <2>1. ASSUME NEW u \in PoolThreads, u # t PROVE Fits(op[u], overtaken[u], held[u])'
    <3>1. op[u].pc # "put" \/ op[u].slot # s
      BY <1>2, <2>1, GivenBackApart
    <3>. QED
      BY <1>1, <1>2, <1>3, <2>1, <3>1, OwnWrite
  <2>2. Fits(op[t], overtaken[t], held[t])'
    <3>1. Fits(op[t], overtaken[t], held[t]) /\ next'[s] = op[t].old.index
      BY <1>1, <1>2 DEF PoolIInv, PoolCalls, PoolTypeOK
    <3>. QED
      BY <1>1, <1>2, <1>3, <3>1 DEF Fits, Active
  <2>. QED
    BY <2>1, <2>2 DEF PoolCalls
<1>6. PoolTypeOK'
  BY <1>1, <1>3, <1>4 DEF PoolIInv, PoolTypeOK
<1>7. /\ \A u \in PoolThreads : Hands(u)' = Hands(u)
      /\ Subtracting' = Subtracting /\ Adding' = Adding
  BY <1>1, <1>3 DEF Hands, Subtracting, Adding
<1>8. HandsDisjoint' /\ FreeUnlessHeld' /\ Counted'
  BY <1>1, <1>7, PartitionParts DEF PoolIInv, HandsDisjoint, FreeUnlessHeld, Free, Counted
<1>. QED
  BY <1>4, <1>5, <1>6, <1>8, PartitionPartsNext DEF PoolIInv

-----------------------------------------------------------------------------
(* available_ is counted after the exchange.                               *)

LEMMA CountFacts ==
  ASSUME PoolTypeOK
  PROVE  /\ IsFiniteSet(Subtracting) /\ Cardinality(Subtracting) \in Nat
         /\ IsFiniteSet(Adding) /\ Cardinality(Adding) \in Nat
         /\ Len(freeList) \in Nat
         /\ Len(freeList) + Cardinality(Subtracting) - Cardinality(Adding) \in Int
<1>1. Subtracting \in SUBSET PoolThreads /\ Adding \in SUBSET PoolThreads
  BY DEF Subtracting, Adding
<1>2. IsFiniteSet(Subtracting) /\ IsFiniteSet(Adding)
  BY <1>1, PoolThreadsAssumption, FS_Subset
<1>3. Cardinality(Subtracting) \in Nat /\ Cardinality(Adding) \in Nat
  BY <1>2, FS_CardinalityType
<1>. QED
  BY <1>2, <1>3 DEF PoolTypeOK

LEMMA CountsInv ==
  ASSUME PoolIInv, NEW t \in PoolThreads, AllocateCount(t) \/ DeallocateCount(t)
  PROVE  PoolIInv'
<1> DEFINE total == Len(freeList) + Cardinality(Subtracting) - Cardinality(Adding)
<1>1. /\ op[t].pc \in {"subtract", "add"} /\ op' = [op EXCEPT ![t] = Idle]
      /\ UNCHANGED <<free_head, next, held, overtaken, freeList>>
  BY DEF AllocateCount, DeallocateCount
<1>2. /\ op' \in [PoolThreads -> Calls] /\ op'[t] = Idle
      /\ \A u \in PoolThreads \ {t} : op'[u] = op[u]
  BY <1>1, IdleType DEF PoolIInv, PoolTypeOK
<1>3. total \in Int /\ available = total % CountModulus /\ available \in Int
  BY CountFacts, PartitionParts DEF PoolIInv, Counted, PoolTypeOK
<1>4. available' \in Int /\ Counted'
  <2>1. CASE AllocateCount(t)
    <3>1. /\ t \in Subtracting /\ Subtracting' = Subtracting \ {t} /\ Adding' = Adding
          /\ available' = (available + (-1)) % CountModulus
      BY <1>2, <1>3, <2>1 DEF AllocateCount, Subtracting, Adding, Idle
    <3>2. Cardinality(Subtracting') = Cardinality(Subtracting) - 1
      BY <3>1, CountFacts, FS_RemoveElement DEF PoolIInv
    <3>3. available' = (total + (-1)) % CountModulus
      <4> HIDE DEF total
      <4>1. -1 \in Int /\ CountModulus \in Nat /\ CountModulus > 0
        BY SlotFacts
      <4>. QED
        BY <1>3, <3>1, <4>1, ModAdd
    <3>4. (total + (-1)) % CountModulus \in Int
      BY <1>3, SlotFacts, ModDef
    <3>. QED
      BY <1>1, <3>1, <3>2, <3>3, <3>4, CountFacts DEF Counted, PoolIInv
  <2>2. CASE DeallocateCount(t)
    <3>1. /\ t \in Adding /\ Adding' = Adding \ {t} /\ Subtracting' = Subtracting
          /\ available' = (available + 1) % CountModulus
      BY <1>2, <2>2 DEF DeallocateCount, Subtracting, Adding, Idle
    <3>2. Cardinality(Adding') = Cardinality(Adding) - 1
      BY <3>1, CountFacts, FS_RemoveElement DEF PoolIInv
    <3>3. available' = (total + 1) % CountModulus
      <4> HIDE DEF total
      <4>1. CountModulus \in Nat /\ CountModulus > 0
        BY SlotFacts
      <4>. QED
        BY <1>3, <3>1, <4>1, ModNext
    <3>4. (total + 1) % CountModulus \in Int
      BY <1>3, SlotFacts, ModDef
    <3>. QED
      BY <1>1, <3>1, <3>2, <3>3, <3>4, CountFacts DEF Counted, PoolIInv
  <2>. QED
    BY <2>1, <2>2
<1>5. PoolTypeOK'
  BY <1>1, <1>2, <1>4 DEF PoolIInv, PoolTypeOK
<1>6. PoolCalls'
  <2>1. Fits(op[t], overtaken[t], held[t])'
    BY <1>2 DEF Fits, Idle, Active
  <2>. QED
    BY <1>1, <1>2, <2>1 DEF PoolIInv, PoolCalls, Fits
<1>7. \A u \in PoolThreads : Hands(u)' = Hands(u)
  BY <1>1, <1>2 DEF Hands, Idle
<1>8. FreeChain' /\ HandsDisjoint' /\ FreeUnlessHeld'
  BY <1>1, <1>7, PartitionParts
     DEF PoolIInv, FreeChain, Follower, HandsDisjoint, FreeUnlessHeld, Free
<1>. QED
  BY <1>4, <1>5, <1>6, <1>8, PartitionPartsNext DEF PoolIInv

-----------------------------------------------------------------------------
(* The exchanges of free_head_.                                            *)

(* The tag has not come back to what it was: if the head is the one that    *)
(* was loaded, no exchange happened since.                                 *)
LEMMA NotOvertaken ==
  ASSUME PoolIInv, NEW t \in PoolThreads, op[t].pc \in Active, free_head = op[t].old
  PROVE  overtaken[t] = 0
<1> DEFINE a == op[t].old.tag
           n == overtaken[t]
<1>1. /\ a \in 0 .. TagModulus - 1 /\ n \in 0 .. TagModulus - 1
      /\ a = (a + n) % TagModulus
  BY DEF PoolIInv, PoolTypeOK, PoolCalls, Fits, Heads
<1> HIDE DEF a, n
<1>2. a % TagModulus = a
  <2>1. TagModulus \in Nat /\ TagModulus > 0
    BY SlotFacts
  <2>. QED
    BY <1>1, <2>1, ModSmall
<1>3. /\ a + n \in Int /\ a \in Int /\ a + n < a + TagModulus /\ a < (a + n) + TagModulus
      /\ (a + n) % TagModulus = a % TagModulus
  BY <1>1, <1>2, SlotFacts
<1>4. a + n = a
  BY <1>3, SlotFacts, ModInjective
<1>. QED
  BY <1>1, <1>4 DEF n

(* Every other call under way is one exchange further behind. *)
LEMMA ExchangeFits ==
  ASSUME PoolIInv, NEW t \in PoolThreads, NEW index \in Links,
         op[t].pc \in Active, free_head = op[t].old, Exchange(t, index), UNCHANGED next
  PROVE  /\ free_head' \in Heads /\ free_head'.index = index
         /\ overtaken' \in [PoolThreads -> 0 .. TagModulus - 1]
         /\ \A u \in PoolThreads : u # t /\ op'[u] = op[u] /\ held'[u] = held[u]
                                     => Fits(op[u], overtaken[u], held[u])'
<1>1. /\ free_head' = [index |-> index, tag |-> (free_head.tag + 1) % TagModulus]
      /\ free_head.tag \in Nat
  BY DEF Exchange, PoolIInv, PoolTypeOK, Heads
<1>2. (free_head.tag + 1) % TagModulus \in 0 .. TagModulus - 1
  BY <1>1, SlotFacts, ModDef
<1>3. free_head' \in Heads /\ free_head'.index = index
      /\ free_head'.tag = (free_head.tag + 1) % TagModulus
  BY <1>1, <1>2 DEF Heads, Links
<1>4. \A u \in PoolThreads : overtaken[u] \in 0 .. TagModulus - 1 /\ overtaken[u] < TagModulus - 1
  BY DEF Exchange, NotLapped, PoolIInv, PoolTypeOK
<1>5. overtaken' \in [PoolThreads -> 0 .. TagModulus - 1]
  BY <1>4, SlotFacts DEF Exchange
<1>6. ASSUME NEW u \in PoolThreads, u # t, op'[u] = op[u], held'[u] = held[u]
      PROVE  Fits(op[u], overtaken[u], held[u])'
  <2>1. CASE op[u].pc \in Active
    <3>1. /\ overtaken'[u] = overtaken[u] + 1 /\ overtaken[u] \in Nat
          /\ Fits(op[u], overtaken[u], held[u]) /\ op[u].old.tag \in Nat
      BY <1>4, <1>6, <2>1 DEF Exchange, Active, PoolIInv, PoolCalls, PoolTypeOK, Calls, Heads
    <3>2. free_head.tag = (op[u].old.tag + overtaken[u]) % TagModulus
      BY <2>1, <3>1 DEF Fits
    <3>3. free_head'.tag = ((op[u].old.tag + overtaken[u]) + 1) % TagModulus
      <4> DEFINE x == op[u].old.tag + overtaken[u]
      <4>1. x \in Int /\ TagModulus \in Nat /\ TagModulus > 0
            /\ free_head'.tag = ((x % TagModulus) + 1) % TagModulus
        BY <1>3, <3>1, <3>2, SlotFacts
      <4> HIDE DEF x
      <4>2. free_head'.tag = (x + 1) % TagModulus
        BY <4>1, ModNext
      <4>. QED
        BY <4>2 DEF x
    <3>4. /\ free_head'.tag = (op'[u].old.tag + overtaken'[u]) % TagModulus
          /\ overtaken'[u] # 0
      BY <1>6, <3>1, <3>3
    <3>. QED
      BY <1>6, <3>1, <3>4 DEF Fits
  <2>2. CASE op[u].pc \notin Active
    BY <1>6, <2>2 DEF Fits, Active
  <2>. QED
    BY <2>1, <2>2
<1>. QED
  BY <1>3, <1>5, <1>6

LEMMA AllocateTakeInv ==
  ASSUME PoolIInv, NEW t \in PoolThreads, AllocateTake(t) PROVE PoolIInv'
<1> DEFINE s == free_head.index
<1>1. /\ op[t].pc = "take" /\ free_head = op[t].old /\ Exchange(t, op[t].nxt)
      /\ held' = [held EXCEPT ![t] = held[t] \cup {s}]
      /\ freeList' = Tail(freeList)
      /\ op' = [op EXCEPT ![t] = [Idle EXCEPT !.pc = "subtract"]]
      /\ UNCHANGED <<next, available>>
  BY DEF AllocateTake
<1>2. overtaken[t] = 0
  BY <1>1, NotOvertaken DEF Active
<1>3. s \in SlotIds /\ op[t].nxt = next[s] /\ op[t].nxt \in Links /\ t \in PoolThreads
  BY <1>1, <1>2 DEF PoolIInv, PoolTypeOK, PoolCalls, Fits, Calls
<1>4. /\ Len(freeList) \in Nat /\ Len(freeList) > 0 /\ freeList \in Seq(SlotIds)
      /\ s = freeList[1] /\ next[s] = Follower(1)
  BY <1>3, CurrentHead
<1>5. /\ freeList' \in Seq(SlotIds) /\ Len(freeList') = Len(freeList) - 1
      /\ \A i \in 1 .. Len(freeList) - 1 : freeList'[i] = freeList[i + 1]
  BY <1>1, <1>4
<1>6. \A i \in 0 .. Len(freeList) - 1 : Follower(i)' = Follower(i + 1)
  BY <1>4, <1>5 DEF Follower
<1>7. /\ free_head' \in Heads /\ free_head'.index = op[t].nxt
      /\ overtaken' \in [PoolThreads -> 0 .. TagModulus - 1]
      /\ \A u \in PoolThreads : u # t /\ op'[u] = op[u] /\ held'[u] = held[u]
                                  => Fits(op[u], overtaken[u], held[u])'
  BY <1>1, <1>3, ExchangeFits DEF Active
<1>8. /\ op' \in [PoolThreads -> Calls] /\ op'[t].pc = "subtract" /\ held'[t] = held[t] \cup {s}
      /\ held' \in [PoolThreads -> SUBSET SlotIds]
      /\ \A u \in PoolThreads \ {t} : op'[u] = op[u] /\ held'[u] = held[u]
  BY <1>1, <1>3, IdleType DEF PoolIInv, PoolTypeOK, Idle, Calls, Active
<1>9. PoolTypeOK'
  BY <1>1, <1>5, <1>7, <1>8 DEF PoolIInv, PoolTypeOK
<1>10. PoolCalls'
  BY <1>7, <1>8 DEF PoolCalls, Fits, Active
<1>11. FreeChain'
  <2>1. (free_head.index = Follower(0))'
    BY <1>3, <1>4, <1>6, <1>7
  <2>2. ASSUME NEW i \in 1 .. Len(freeList) - 1 PROVE next[freeList'[i]] = Follower(i)'
    <3>1. i + 1 \in 1 .. Len(freeList) /\ freeList'[i] = freeList[i + 1] /\ Follower(i)' = Follower(i + 1)
      BY <1>4, <1>5, <1>6
    <3>. QED
      BY <3>1, PartitionParts DEF PoolIInv, FreeChain
  <2>3. ASSUME NEW i \in 1 .. Len(freeList) - 1, NEW j \in 1 .. Len(freeList) - 1,
               freeList'[i] = freeList'[j]
        PROVE  i = j
    <3>1. /\ i + 1 \in 1 .. Len(freeList) /\ j + 1 \in 1 .. Len(freeList)
          /\ freeList[i + 1] = freeList[j + 1]
      <4>1. i + 1 \in 1 .. Len(freeList) /\ freeList'[i] = freeList[i + 1]
        BY <1>4, <1>5
      <4>2. j + 1 \in 1 .. Len(freeList) /\ freeList'[j] = freeList[j + 1]
        BY <1>4, <1>5
      <4>. QED
        BY <2>3, <4>1, <4>2
    <3>2. i + 1 = j + 1
      BY <3>1, PartitionParts DEF PoolIInv, FreeChain
    <3>. QED
      BY <1>4, <3>2
  <2>. QED
    BY <1>1, <1>5, <2>1, <2>2, <2>3 DEF FreeChain
<1>12. \A r \in SlotIds : Free(r)' <=> Free(r) /\ r # s
  <2>1. ASSUME NEW r \in SlotIds, NEW i \in 1 .. Len(freeList), freeList[i] = r, r # s
        PROVE  i - 1 \in 1 .. Len(freeList') /\ freeList'[i - 1] = r
    BY <1>4, <1>5, <2>1
  <2>2. ASSUME NEW i \in 1 .. Len(freeList')
        PROVE  i + 1 \in 1 .. Len(freeList) /\ freeList'[i] = freeList[i + 1] /\ freeList'[i] # s
    <3>1. i + 1 \in 1 .. Len(freeList) /\ freeList'[i] = freeList[i + 1] /\ 1 \in 1 .. Len(freeList)
          /\ i + 1 # 1
      BY <1>4, <1>5
    <3>. QED
      BY <1>4, <3>1, PartitionParts DEF PoolIInv, FreeChain
  <2>. QED
    BY <2>1, <2>2 DEF Free
<1>13. /\ \A u \in PoolThreads \ {t} : Hands(u)' = Hands(u)
       /\ Hands(t)' = Hands(t) \cup {s}
  BY <1>1, <1>8 DEF Hands
<1>14. FreeUnlessHeld /\ HandsDisjoint
  BY PartitionParts DEF PoolIInv
<1>15. \A u \in PoolThreads : s \notin Hands(u)
  <2>1. Free(s)
    BY <1>4 DEF Free
  <2>. QED
    BY <1>3, <1>14, <2>1 DEF FreeUnlessHeld
<1>16. HandsDisjoint'
  BY <1>13, <1>14, <1>15 DEF HandsDisjoint
<1>17. FreeUnlessHeld'
  BY <1>12, <1>13, <1>14 DEF FreeUnlessHeld
<1>18. Counted'
  <2>1. t \notin Subtracting /\ Subtracting' = Subtracting \cup {t} /\ Adding' = Adding
    BY <1>1, <1>8 DEF Subtracting, Adding
  <2>2. Cardinality(Subtracting') = Cardinality(Subtracting) + 1
    BY <2>1, CountFacts, FS_AddElement DEF PoolIInv
  <2>. QED
    BY <1>1, <1>5, <2>1, <2>2, CountFacts, PartitionParts DEF PoolIInv, Counted
<1>. QED
  BY <1>9, <1>10, <1>11, <1>16, <1>17, <1>18, PartitionPartsNext DEF PoolIInv

LEMMA DeallocatePutInv ==
  ASSUME PoolIInv, NEW t \in PoolThreads, DeallocatePut(t) PROVE PoolIInv'
<1> DEFINE s == op[t].slot
<1>1. /\ op[t].pc = "put" /\ free_head = op[t].old /\ Exchange(t, s)
      /\ freeList' = <<s>> \o freeList
      /\ op' = [op EXCEPT ![t] = [Idle EXCEPT !.pc = "add"]]
      /\ UNCHANGED <<next, available, held>>
  BY DEF DeallocatePut
<1>2. /\ s \in SlotIds /\ s \in Links /\ s \notin held[t] /\ s \in Hands(t)
      /\ next[s] = free_head.index
      /\ freeList \in Seq(SlotIds) /\ Len(freeList) \in Nat
  BY <1>1 DEF PoolIInv, PoolTypeOK, PoolCalls, Fits, Calls, Links, Hands
<1>3. \A i \in 1 .. Len(freeList) : freeList[i] # s
  BY <1>2, HeldNotFree
<1>4. /\ freeList' \in Seq(SlotIds) /\ Len(freeList') = Len(freeList) + 1 /\ freeList'[1] = s
      /\ \A i \in 1 .. Len(freeList) : freeList'[i + 1] = freeList[i]
  BY <1>1, <1>2
<1>5. Follower(0)' = s /\ \A i \in 0 .. Len(freeList) : Follower(i + 1)' = Follower(i)
  BY <1>2, <1>4 DEF Follower
<1>6. /\ free_head' \in Heads /\ free_head'.index = s
      /\ overtaken' \in [PoolThreads -> 0 .. TagModulus - 1]
      /\ \A u \in PoolThreads : u # t /\ op'[u] = op[u] /\ held'[u] = held[u]
                                  => Fits(op[u], overtaken[u], held[u])'
  BY <1>1, <1>2, ExchangeFits DEF Active
<1>7. /\ op' \in [PoolThreads -> Calls] /\ op'[t].pc = "add"
      /\ \A u \in PoolThreads \ {t} : op'[u] = op[u]
  BY <1>1, IdleType DEF PoolIInv, PoolTypeOK, Idle, Calls, Active
<1>8. PoolTypeOK'
  BY <1>1, <1>4, <1>6, <1>7 DEF PoolIInv, PoolTypeOK
<1>9. PoolCalls'
  BY <1>1, <1>6, <1>7 DEF PoolCalls, Fits, Active
<1>10. FreeChain /\ FreeUnlessHeld /\ HandsDisjoint
  BY PartitionParts DEF PoolIInv
<1>11. ASSUME NEW i \in 1 .. Len(freeList) + 1
       PROVE  i = 1 \/ (i - 1 \in 1 .. Len(freeList) /\ freeList'[i] = freeList[i - 1]
                         /\ Follower(i)' = Follower(i - 1))
  <2>1. CASE i # 1
    <3>1. i - 1 \in 1 .. Len(freeList) /\ i - 1 \in 0 .. Len(freeList) /\ (i - 1) + 1 = i
      BY <1>2, <2>1
    <3>. QED
      BY <1>4, <1>5, <3>1
  <2>. QED
    BY <2>1
<1>12. FreeChain'
  <2>1. ASSUME NEW i \in 1 .. Len(freeList) + 1 PROVE next[freeList'[i]] = Follower(i)'
    <3>1. CASE i = 1
      <4>1. Follower(1)' = Follower(0)
        BY <1>2, <1>5
      <4>. QED
        BY <1>2, <1>4, <1>10, <3>1, <4>1 DEF FreeChain
    <3>2. CASE i # 1
      BY <1>10, <1>11, <3>2 DEF FreeChain
    <3>. QED
      BY <3>1, <3>2
  <2>2. ASSUME NEW i \in 1 .. Len(freeList) + 1, NEW j \in 1 .. Len(freeList) + 1,
               freeList'[i] = freeList'[j]
        PROVE  i = j
    <3>1. CASE i = 1 \/ j = 1
      BY <1>3, <1>4, <1>11, <2>2, <3>1
    <3>2. CASE i # 1 /\ j # 1
      <4>1. /\ i - 1 \in 1 .. Len(freeList) /\ freeList'[i] = freeList[i - 1]
            /\ j - 1 \in 1 .. Len(freeList) /\ freeList'[j] = freeList[j - 1]
        BY <1>11, <3>2
      <4>2. freeList[i - 1] = freeList[j - 1]
        BY <2>2, <4>1
      <4>3. \A k, l \in 1 .. Len(freeList) : freeList[k] = freeList[l] => k = l
        BY <1>10 DEF FreeChain
      <4>4. i - 1 = j - 1
        BY <4>1, <4>2, <4>3
      <4>. QED
        BY <1>2, <4>4
    <3>. QED
      BY <3>1, <3>2
  <2>. QED
    BY <1>1, <1>4, <1>5, <1>6, <2>1, <2>2 DEF FreeChain
<1>13. \A r \in SlotIds : Free(r)' <=> Free(r) \/ r = s
  <2>1. ASSUME NEW i \in 1 .. Len(freeList)
        PROVE  i + 1 \in 1 .. Len(freeList') /\ freeList'[i + 1] = freeList[i]
    BY <1>2, <1>4
  <2>2. 1 \in 1 .. Len(freeList') /\ freeList'[1] = s
    BY <1>2, <1>4
  <2>. QED
    BY <1>4, <1>11, <2>1, <2>2 DEF Free
<1>14. /\ \A u \in PoolThreads \ {t} : Hands(u)' = Hands(u)
       /\ Hands(t)' = Hands(t) \ {s}
  BY <1>1, <1>2, <1>7 DEF Hands
<1>15. HandsDisjoint'
  BY <1>10, <1>14 DEF HandsDisjoint
<1>16. FreeUnlessHeld'
  BY <1>2, <1>10, <1>13, <1>14 DEF FreeUnlessHeld, HandsDisjoint
<1>17. Counted'
  <2>1. t \notin Adding /\ Adding' = Adding \cup {t} /\ Subtracting' = Subtracting
    BY <1>1, <1>7 DEF Subtracting, Adding
  <2>2. Cardinality(Adding') = Cardinality(Adding) + 1
    BY <2>1, CountFacts, FS_AddElement DEF PoolIInv
  <2>. QED
    BY <1>1, <1>4, <2>1, <2>2, CountFacts, PartitionParts DEF PoolIInv, Counted
<1>. QED
  BY <1>8, <1>9, <1>12, <1>15, <1>16, <1>17, PartitionPartsNext DEF PoolIInv

LEMMA PoolInvariance == PoolSpec => []PoolIInv
<1>1. PoolIInv /\ [PoolNext]_poolVars => PoolIInv'
  <2> SUFFICES ASSUME PoolIInv, [PoolNext]_poolVars PROVE PoolIInv'
    OBVIOUS
  <2>1. ASSUME NEW t \in PoolThreads, Allocate(t) \/ Deallocate(t) \/ Use(t) PROVE PoolIInv'
    BY <2>1, LoadsInv, AllocateNextInv, AllocateTakeInv, CountsInv,
       DeallocateLinkInv, DeallocatePutInv, UseInv DEF Allocate, Deallocate
  <2>2. CASE UNCHANGED poolVars
    BY <2>2 DEF poolVars, PoolIInv, PoolTypeOK, PoolCalls, Fits, PoolPartition, Hands, Follower
  <2>. QED
    BY <2>1, <2>2 DEF PoolNext
<1>. QED
  BY <1>1, PoolInitIInv, PTL DEF PoolSpec

(* allocate never hands out a slot that somebody has, no slot is lost, and  *)
(* available() is off by the calls between exchange and count, for every    *)
(* number of slots and threads and every width of the tag, as long as no    *)
(* call is overtaken by as many exchanges as there are tags.                *)
THEOREM PoolSafety == PoolSpec => []PoolPartition
<1>1. PoolIInv => PoolPartition
  BY DEF PoolIInv
<1>. QED
  BY <1>1, PoolInvariance, PTL

-----------------------------------------------------------------------------
(***************************************************************************)
(* RateLimiter.                                                            *)
(***************************************************************************)

RateCalls == [pc : {"idle", "load", "cas", "store", "add", "undo"}, now : Int, expected : Int]

Threads  == Cardinality(RateThreads)
Storing  == {t \in RateThreads : acquire[t].pc = "store"}
Undoing  == {t \in RateThreads : acquire[t].pc = "undo"}
Late     == Cardinality(Storing)
Standing == count - Cardinality(Undoing)   \* the counter once the refused calls have undone theirs
PerStore == max_per_second + Threads - 1   \* what one late store can let through

RateTypeOK ==
    /\ clock \in Int
    /\ window_start \in Int
    /\ count \in Int
    /\ granted \in Nat
    /\ max_per_second \in Rates
    /\ acquire \in [RateThreads -> RateCalls]
    /\ setRate \in [pc : {"idle", "count", "clock", "window"}, now : Int]
    /\ disturbed \in {"nothing", "calls", "limits"}

\* A change of the limit that no call has met is alone.
LimitAlone == disturbed # "limits" /\ setRate.pc # "idle" => InCall = {}

\* Undisturbed, the counter is what was granted and what will be undone, from
\* the reset on; until the reset nothing is granted.
CountExact ==
    disturbed = "nothing" =>
        IF setRate.pc = "count" THEN granted = 0
        ELSE IF Storing # {} THEN granted = 0 /\ Late = 1 /\ InCall = Storing
        ELSE count = granted + Cardinality(Undoing) /\ granted <= max_per_second

\* Undoing what was forgotten takes the counter below zero, by less than the
\* other threads.
CountBounded ==
    disturbed # "limits" /\ setRate.pc # "count" =>
        /\ Standing <= max_per_second
        /\ Standing >= 0 \/ Standing >= 2 - Threads

\* Disturbed, what was granted, what the counter has room for and what each
\* store to come can add stay below what all threads together may get.
GrantsBudgeted ==
    disturbed = "calls" =>
        /\ setRate.pc = "idle"
        /\ Threads >= 2
        /\ IF Late = Threads THEN granted = 0
           ELSE granted + (max_per_second - Standing) + Late * PerStore
                  <= max_per_second + Threads - 2 + (Threads - 1) * PerStore

RateIInv == RateTypeOK /\ LimitAlone /\ CountExact /\ CountBounded /\ GrantsBudgeted

(* The numbers of the invariant are numbers. *)
LEMMA RateFacts ==
  ASSUME RateTypeOK
  PROVE  /\ IsFiniteSet(Storing) /\ IsFiniteSet(Undoing)
         /\ Late \in Nat /\ Cardinality(Undoing) \in Nat /\ Threads \in Nat
         /\ Late <= Threads
         /\ max_per_second \in Nat /\ max_per_second >= 1
         /\ Standing \in Int /\ PerStore \in Int
<1>1. Storing \in SUBSET RateThreads /\ Undoing \in SUBSET RateThreads
  BY DEF Storing, Undoing
<1>2. IsFiniteSet(Storing) /\ IsFiniteSet(Undoing) /\ Late <= Threads
  BY <1>1, FS_Subset, RateThreadsAssumption DEF Late, Threads
<1>3. Late \in Nat /\ Cardinality(Undoing) \in Nat /\ Threads \in Nat
  BY <1>2, FS_CardinalityType, RateThreadsAssumption DEF Late, Threads
<1>4. max_per_second \in Nat /\ max_per_second >= 1
  BY RatesAssumption DEF RateTypeOK
<1>. QED
  BY <1>2, <1>3, <1>4 DEF RateTypeOK, Standing, PerStore

(* A step of one thread moves that thread only. *)
LEMMA RateMoves ==
  ASSUME RateTypeOK, NEW t \in RateThreads, acquire' \in [RateThreads -> RateCalls],
         \A w \in RateThreads : w # t => acquire'[w] = acquire[w]
  PROVE  /\ Storing' = IF acquire'[t].pc = "store" THEN Storing \cup {t} ELSE Storing \ {t}
         /\ Undoing' = IF acquire'[t].pc = "undo" THEN Undoing \cup {t} ELSE Undoing \ {t}
         /\ InCall' = IF acquire'[t].pc = "idle" THEN InCall \ {t} ELSE InCall \cup {t}
<1>1. ASSUME NEW x \in RateThreads
      PROVE  /\ x \in Storing' <=> acquire'[x].pc = "store"
             /\ x \in Undoing' <=> acquire'[x].pc = "undo"
             /\ x \in InCall' <=> acquire'[x].pc # "idle"
             /\ x \in Storing <=> acquire[x].pc = "store"
             /\ x \in Undoing <=> acquire[x].pc = "undo"
             /\ x \in InCall <=> acquire[x].pc # "idle"
  BY DEF Storing, Undoing, InCall
<1>2. /\ Storing' \subseteq RateThreads /\ Undoing' \subseteq RateThreads /\ InCall' \subseteq RateThreads
      /\ Storing \subseteq RateThreads /\ Undoing \subseteq RateThreads /\ InCall \subseteq RateThreads
  BY DEF Storing, Undoing, InCall
<1>3. Storing' = IF acquire'[t].pc = "store" THEN Storing \cup {t} ELSE Storing \ {t}
  BY <1>1, <1>2
<1>4. Undoing' = IF acquire'[t].pc = "undo" THEN Undoing \cup {t} ELSE Undoing \ {t}
  BY <1>1, <1>2
<1>5. InCall' = IF acquire'[t].pc = "idle" THEN InCall \ {t} ELSE InCall \cup {t}
  BY <1>1, <1>2
<1>. QED
  BY <1>3, <1>4, <1>5

(* A thread that is at another line is none of the winners still to store. *)
LEMMA RateOthers ==
  ASSUME RateTypeOK, NEW t \in RateThreads
  PROVE  /\ acquire[t].pc # "store" => Late < Threads
         /\ acquire[t].pc # "undo" => Cardinality(Undoing) < Threads
<1>1. Storing \in SUBSET RateThreads /\ Undoing \in SUBSET RateThreads
  BY DEF Storing, Undoing
<1>2. acquire[t].pc # "store" => Storing # RateThreads
  BY DEF Storing
<1>3. acquire[t].pc # "undo" => Undoing # RateThreads
  BY DEF Undoing
<1>4. Late <= Threads /\ (Late = Threads => Storing = RateThreads)
  BY <1>1, FS_Subset, RateThreadsAssumption DEF Late, Threads
<1>5. Cardinality(Undoing) <= Threads /\ (Cardinality(Undoing) = Threads => Undoing = RateThreads)
  BY <1>1, FS_Subset, RateThreadsAssumption DEF Threads
<1>. QED
  BY <1>2, <1>3, <1>4, <1>5, RateFacts

LEMMA RateInitIInv == RateInit => RateIInv
<1> SUFFICES ASSUME RateInit PROVE RateIInv
  OBVIOUS
<1>1. RateTypeOK
  BY DEF RateInit, RateTypeOK, RateCalls, NoCall
<1>2. Storing = {} /\ Undoing = {} /\ InCall = {}
  BY DEF RateInit, Storing, Undoing, InCall, NoCall
<1>3. Cardinality(Undoing) = 0
  BY <1>2, FS_EmptySet
<1>. QED
  BY <1>1, <1>2, <1>3, RateFacts
  DEF RateInit, RateIInv, LimitAlone, CountExact, CountBounded, GrantsBudgeted, Standing

LEMMA AcquireClockInv ==
  ASSUME RateIInv, NEW t \in RateThreads, AcquireClock(t)
  PROVE  RateIInv'
<1>1. RateTypeOK
  BY DEF RateIInv
<1>2. RateTypeOK'
  BY <1>1 DEF AcquireClock, RateTypeOK, RateCalls
<1>3. \A w \in RateThreads : w # t => acquire'[w] = acquire[w]
  BY <1>1 DEF AcquireClock, RateTypeOK
<1>4. acquire'[t].pc = "load" /\ acquire[t].pc = "idle"
  BY <1>1 DEF AcquireClock, RateTypeOK
<1>5. t \notin Storing /\ t \notin Undoing /\ t \notin InCall
  BY <1>4 DEF Storing, Undoing, InCall
<1>6. acquire' \in [RateThreads -> RateCalls]
  BY <1>2 DEF RateTypeOK
<1>7. Storing' = Storing /\ Undoing' = Undoing
  BY <1>1, <1>3, <1>4, <1>5, <1>6, RateMoves
<1>8. Late' = Late /\ Cardinality(Undoing)' = Cardinality(Undoing) /\ Standing' = Standing
      /\ PerStore' = PerStore /\ Threads' = Threads
  BY <1>7 DEF AcquireClock, Late, Standing, PerStore, Threads
<1>9. disturbed' = IF disturbed = "limits" \/ setRate.pc # "idle" THEN "limits"
                   ELSE IF Storing # {} THEN "calls" ELSE disturbed
  BY DEF AcquireClock, Storing
<1>10. UNCHANGED <<count, max_per_second, setRate, granted>>
  BY DEF AcquireClock
<1>11. LimitAlone'
  BY <1>9, <1>10 DEF LimitAlone
<1>12. CountExact'
  BY <1>7, <1>8, <1>9, <1>10 DEF RateIInv, CountExact
<1>13. CountBounded'
  BY <1>8, <1>9, <1>10 DEF RateIInv, CountBounded
<1>14. GrantsBudgeted'
  <2> SUFFICES ASSUME disturbed' = "calls" PROVE GrantsBudgeted'
    BY DEF GrantsBudgeted
  <2>1. CASE disturbed = "calls"
    BY <2>1, <1>8, <1>10 DEF RateIInv, GrantsBudgeted
  <2>2. CASE disturbed # "calls"
    <3>1. disturbed = "nothing" /\ setRate.pc = "idle" /\ Storing # {}
      BY <1>1, <1>9, <2>2 DEF RateTypeOK
    <3>2. granted = 0 /\ Late = 1
      BY <3>1 DEF RateIInv, CountExact
    <3>3. Threads >= 2
      BY <1>1, <1>4, <3>2, RateFacts, RateOthers
    <3>4. Standing >= 2 - Threads /\ Standing <= max_per_second
      BY <1>1, <3>1, <3>3, RateFacts DEF RateIInv, CountBounded
    <3>5. PICK K \in Nat, M \in Nat, D \in Int, W \in Int :
             K = Threads /\ M = max_per_second /\ D = Standing /\ W = PerStore
      BY <1>1, RateFacts
    <3>6. W = M + K - 1
      BY <3>5 DEF PerStore
    <3>7. (K - 1) * W >= W
      <4>1. PICK j \in Nat : j = K - 2
        BY <3>3, <3>5
      <4>2. j * W >= 0
        BY <3>3, <3>5, <3>6, <4>1
      <4>3. (K - 1) * W = j * W + W
        BY <3>5, <4>1
      <4>. QED
        BY <4>2, <4>3, <3>5, <4>1
    <3>8. 0 + (M - D) + 1 * W <= M + K - 2 + (K - 1) * W
      BY <3>4, <3>5, <3>7
    <3>. QED
      BY <3>1, <3>2, <3>3, <3>5, <3>8, <1>8, <1>10 DEF GrantsBudgeted
  <2>. QED
    BY <2>1, <2>2
<1>. QED
  BY <1>2, <1>11, <1>12, <1>13, <1>14 DEF RateIInv

(* Lines that only look: the call goes from one to the next. *)
LEMMA AcquireLooksInv ==
  ASSUME RateIInv, NEW t \in RateThreads, acquire[t].pc \in {"load", "cas"},
         acquire' \in [RateThreads -> RateCalls], acquire'[t].pc \in {"cas", "add"},
         \A w \in RateThreads : w # t => acquire'[w] = acquire[w],
         UNCHANGED <<clock, window_start, count, max_per_second, setRate, granted, disturbed>>
  PROVE  RateIInv'
<1>1. RateTypeOK /\ RateTypeOK'
  BY DEF RateIInv, RateTypeOK
<1>2. t \notin Storing /\ t \notin Undoing /\ t \in InCall
  BY DEF Storing, Undoing, InCall
<1>3. acquire'[t].pc # "store" /\ acquire'[t].pc # "undo" /\ acquire'[t].pc # "idle"
  OBVIOUS
<1>4. Storing' = Storing /\ Undoing' = Undoing /\ InCall' = InCall
  <2>1. Storing' = Storing \ {t} /\ Undoing' = Undoing \ {t} /\ InCall' = InCall \cup {t}
    BY <1>1, <1>3, RateMoves
  <2>. QED
    BY <1>2, <2>1
<1>5. Late' = Late /\ Cardinality(Undoing)' = Cardinality(Undoing) /\ Standing' = Standing
      /\ PerStore' = PerStore /\ Threads' = Threads
  BY <1>4 DEF Late, Standing, PerStore, Threads
<1>6. LimitAlone' /\ CountExact'
  BY <1>4, <1>5 DEF RateIInv, LimitAlone, CountExact
<1>7. CountBounded' /\ GrantsBudgeted'
  BY <1>5 DEF RateIInv, CountBounded, GrantsBudgeted
<1>. QED
  BY <1>1, <1>6, <1>7 DEF RateIInv

LEMMA AcquireLoadInv ==
  ASSUME RateIInv, NEW t \in RateThreads, AcquireLoad(t)
  PROVE  RateIInv'
<1>1. RateTypeOK
  BY DEF RateIInv
<1>2. acquire' \in [RateThreads -> RateCalls] /\ acquire'[t].pc \in {"cas", "add"}
  BY <1>1 DEF AcquireLoad, RateTypeOK, RateCalls
<1>3. \A w \in RateThreads : w # t => acquire'[w] = acquire[w]
  BY <1>1 DEF AcquireLoad, RateTypeOK
<1>. QED
  BY <1>2, <1>3, AcquireLooksInv DEF AcquireLoad

LEMMA AcquireWindowInv ==
  ASSUME RateIInv, NEW t \in RateThreads, AcquireWindow(t)
  PROVE  RateIInv'
<1>1. RateTypeOK
  BY DEF RateIInv
<1>2. CASE window_start # acquire[t].expected
  <2>1. acquire' \in [RateThreads -> RateCalls] /\ acquire'[t].pc \in {"cas", "add"}
    BY <1>1, <1>2 DEF AcquireWindow, Goto, RateTypeOK, RateCalls
  <2>2. \A w \in RateThreads : w # t => acquire'[w] = acquire[w]
    BY <1>1, <1>2 DEF AcquireWindow, Goto, RateTypeOK
  <2>. QED
    BY <1>2, <2>1, <2>2, AcquireLooksInv DEF AcquireWindow
<1>3. CASE window_start = acquire[t].expected
  <2>1. acquire' \in [RateThreads -> RateCalls] /\ acquire'[t].pc = "store" /\ acquire[t].pc = "cas"
    BY <1>1, <1>3 DEF AcquireWindow, Goto, RateTypeOK, RateCalls
  <2>2. \A w \in RateThreads : w # t => acquire'[w] = acquire[w]
    BY <1>1, <1>3 DEF AcquireWindow, Goto, RateTypeOK
  <2>3. /\ window_start' = acquire[t].now /\ granted' = 0 /\ disturbed' = Meets(t)
        /\ UNCHANGED <<clock, count, max_per_second, setRate>>
    BY <1>3 DEF AcquireWindow
  <2>4. acquire[t].now \in Int
    BY <1>1 DEF RateTypeOK, RateCalls
  <2>5. RateTypeOK'
    BY <1>1, <2>1, <2>3, <2>4 DEF RateTypeOK, Meets
  <2>6. t \notin Storing /\ t \notin Undoing /\ t \in InCall
    BY <2>1 DEF Storing, Undoing, InCall
  <2>7. Storing' = Storing \cup {t} /\ Undoing' = Undoing /\ InCall' = InCall
    BY <1>1, <2>1, <2>2, <2>6, RateMoves
  <2>8. Late' = Late + 1
    BY <1>1, <2>6, <2>7, RateFacts, FS_AddElement DEF Late
  <2>9. Cardinality(Undoing)' = Cardinality(Undoing) /\ Standing' = Standing
        /\ PerStore' = PerStore /\ Threads' = Threads
    BY <2>3, <2>7 DEF Standing, PerStore, Threads
  <2>10. /\ disturbed = "limits" \/ setRate.pc # "idle" => disturbed' = "limits"
         /\ disturbed # "limits" /\ setRate.pc = "idle" /\ InCall # {t} => disturbed' = "calls"
         /\ disturbed # "limits" /\ setRate.pc = "idle" /\ InCall = {t} => disturbed' = "nothing"
    BY <2>3 DEF Meets
  <2>11. disturbed' # "limits" => disturbed # "limits" /\ setRate.pc = "idle"
    BY <2>10
  <2>12. disturbed' = "nothing" => InCall = {t} /\ setRate.pc = "idle"
    BY <2>10
  <2>13. LimitAlone'
    BY <2>3, <2>11 DEF LimitAlone
  <2>14. CountExact'
    <3> SUFFICES ASSUME disturbed' = "nothing" PROVE CountExact'
      BY DEF CountExact
    <3>1. Storing = {}
      BY <2>6, <2>12 DEF Storing, InCall
    <3>2. Late' = 1
      BY <2>7, <3>1, FS_Singleton DEF Late
    <3>. QED
      BY <2>3, <2>7, <2>12, <3>1, <3>2 DEF CountExact
  <2>15. CountBounded'
    BY <2>3, <2>9, <2>11 DEF RateIInv, CountBounded
  <2>16. GrantsBudgeted'
    <3> SUFFICES ASSUME disturbed' = "calls" PROVE GrantsBudgeted'
      BY DEF GrantsBudgeted
    <3>1. InCall # {t} /\ setRate.pc = "idle"
      BY <2>10
    <3>2. PICK w \in RateThreads : w # t
      BY <2>6, <3>1 DEF InCall
    <3>3. Threads >= 2
      <4>1. {t} \in SUBSET RateThreads /\ {t} # RateThreads
        BY <3>2
      <4>2. Cardinality({t}) = 1
        BY FS_Singleton
      <4>. QED
        BY <4>1, <4>2, FS_Subset, RateThreadsAssumption, RateFacts, <1>1 DEF Threads
    <3>4. Standing >= 2 - Threads /\ Standing <= max_per_second
      BY <1>1, <2>11, <3>1, <3>3, RateFacts DEF RateIInv, CountBounded
    <3>5. Late' <= Threads
      BY <1>1, <2>1, <2>8, RateFacts, RateOthers
    <3>6. CASE Late' = Threads
      BY <2>3, <2>9, <3>1, <3>3, <3>6 DEF GrantsBudgeted
    <3>7. CASE Late' # Threads
      <4>1. PICK K \in Nat, M \in Nat, D \in Int, W \in Int, s \in Nat :
               K = Threads /\ M = max_per_second /\ D = Standing /\ W = PerStore /\ s = Late + 1
        BY <1>1, RateFacts
      <4>2. W = M + K - 1 /\ s <= K - 1 /\ W >= 0
        BY <1>1, <2>8, <3>3, <3>5, <3>7, <4>1, RateFacts DEF PerStore
      <4>3. s * W <= (K - 1) * W
        <5>1. PICK j \in Nat : j = (K - 1) - s
          BY <4>1, <4>2
        <5>2. j * W >= 0
          BY <4>1, <4>2, <5>1
        <5>3. (K - 1) * W = j * W + s * W
          BY <4>1, <5>1
        <5>. QED
          BY <5>2, <5>3, <4>1, <5>1
      <4>4. 0 + (M - D) + s * W <= M + K - 2 + (K - 1) * W
        BY <3>4, <4>1, <4>3
      <4>. QED
        BY <2>3, <2>8, <2>9, <3>1, <3>3, <3>7, <4>1, <4>4 DEF GrantsBudgeted
    <3>. QED
      BY <3>6, <3>7
  <2>. QED
    BY <2>5, <2>13, <2>14, <2>15, <2>16 DEF RateIInv
<1>. QED
  BY <1>2, <1>3

(* The store at line 37: one winner fewer, and the counter starts again at  *)
(* one, less what refused calls will still undo.                            *)
LEMMA AcquireStoreInv ==
  ASSUME RateIInv, NEW t \in RateThreads, AcquireStore(t)
  PROVE  RateIInv'
<1>1. RateTypeOK
  BY DEF RateIInv
<1>2. acquire' \in [RateThreads -> RateCalls] /\ acquire'[t].pc = "idle" /\ acquire[t].pc = "store"
  BY <1>1 DEF AcquireStore, Return, NoCall, RateTypeOK, RateCalls
<1>3. \A w \in RateThreads : w # t => acquire'[w] = acquire[w]
  BY <1>1 DEF AcquireStore, Return, RateTypeOK
<1>4. count' = 1 /\ granted' = granted + 1
      /\ UNCHANGED <<clock, window_start, max_per_second, setRate, disturbed>>
  BY DEF AcquireStore
<1>5. RateTypeOK'
  BY <1>1, <1>2, <1>4 DEF RateTypeOK
<1>6. t \in Storing /\ t \notin Undoing /\ t \in InCall
  BY <1>2 DEF Storing, Undoing, InCall
<1>7. Storing' = Storing \ {t} /\ Undoing' = Undoing \ {t} /\ InCall' = InCall \ {t}
  BY <1>1, <1>2, <1>3, RateMoves
<1>8. Undoing' = Undoing
  BY <1>6, <1>7
<1>9. Late' = Late - 1
  BY <1>1, <1>6, <1>7, RateFacts, FS_RemoveElement DEF Late
<1>10. PICK K \in Nat, M \in Nat, D \in Int, W \in Int, s \in Nat, u \in Nat, g \in Nat :
         /\ K = Threads /\ M = max_per_second /\ D = Standing /\ W = PerStore
         /\ s = Late /\ u = Cardinality(Undoing) /\ g = granted
  BY <1>1, RateFacts DEF RateTypeOK
<1>11. /\ Cardinality(Undoing)' = u /\ Standing' = 1 - u /\ PerStore' = W /\ Threads' = K
       /\ Late' = s - 1 /\ granted' = g + 1 /\ max_per_second' = M
  BY <1>4, <1>8, <1>9, <1>10 DEF Standing, PerStore, Threads
<1>12. M >= 1 /\ u <= K - 1 /\ s <= K /\ W = M + K - 1
  BY <1>1, <1>2, <1>10, RateFacts, RateOthers DEF PerStore
<1>13. LimitAlone'
  BY <1>4, <1>6 DEF RateIInv, LimitAlone
<1>14. CountExact'
  <2> SUFFICES ASSUME disturbed' = "nothing" PROVE CountExact'
    BY DEF CountExact
  <2>1. disturbed = "nothing" /\ setRate.pc = "idle" /\ Storing # {}
    BY <1>4, <1>6 DEF RateIInv, LimitAlone
  <2>2. g = 0 /\ s = 1 /\ InCall = Storing
    BY <1>10, <2>1 DEF RateIInv, CountExact
  <2>3. IsFiniteSet(Storing') /\ Cardinality(Storing') = 0
    <3>1. Storing' = Storing \ {t} /\ IsFiniteSet(Storing)
      BY <1>1, <1>7, RateFacts
    <3>2. Cardinality(Storing) = 1
      BY <1>10, <2>2 DEF Late
    <3>. QED
      BY <1>6, <3>1, <3>2, FS_RemoveElement
  <2>4. Storing' = {}
    BY <2>3, FS_EmptySet
  <2>5. Undoing = {}
    BY <1>6, <1>7, <2>2, <2>4 DEF Undoing, InCall, Storing
  <2>6. u = 0
    BY <1>10, <2>5, FS_EmptySet
  <2>. QED
    BY <1>4, <1>11, <1>12, <2>1, <2>2, <2>4, <2>6 DEF CountExact
<1>15. CountBounded'
  <2>1. 1 - u <= M /\ 1 - u >= 2 - K
    BY <1>10, <1>12
  <2>. QED
    BY <1>11, <2>1 DEF CountBounded
<1>16. GrantsBudgeted'
  <2> SUFFICES ASSUME disturbed' = "calls" PROVE GrantsBudgeted'
    BY DEF GrantsBudgeted
  <2>1. disturbed = "calls" /\ setRate.pc = "idle" /\ K >= 2
    BY <1>4, <1>10 DEF RateIInv, GrantsBudgeted
  <2>2. (g + 1) + (M - (1 - u)) + (s - 1) * W <= M + K - 2 + (K - 1) * W
    <3>1. CASE s = K
      <4>1. g = 0
        BY <1>10, <2>1, <3>1 DEF RateIInv, GrantsBudgeted
      <4>2. u = 0
        <5>1. Storing \in SUBSET RateThreads
          BY DEF Storing
        <5>2. Storing = RateThreads
          BY <1>10, <3>1, <5>1, FS_Subset, RateThreadsAssumption DEF Late, Threads
        <5>3. Undoing = {}
          BY <5>2 DEF Storing, Undoing
        <5>. QED
          BY <1>10, <5>3, FS_EmptySet
      <4>. QED
        BY <1>10, <1>12, <2>1, <3>1, <4>1, <4>2
    <3>2. CASE s # K
      <4>1. g + (M - D) + s * W <= M + K - 2 + (K - 1) * W
        BY <1>10, <2>1, <3>2 DEF RateIInv, GrantsBudgeted
      <4>2. D <= M
        BY <1>10, <2>1 DEF RateIInv, CountBounded
      <4>3. (s - 1) * W = s * W - W
        BY <1>10
      <4>4. PICK a \in Int, b \in Int : a = s * W /\ b = (K - 1) * W
        BY <1>10
      <4>. QED
        BY <1>10, <1>12, <4>1, <4>2, <4>3, <4>4
    <3>. QED
      BY <3>1, <3>2
  <2>3. s - 1 # K
    BY <1>10, <1>12
  <2>. QED
    BY <1>4, <1>11, <2>1, <2>2, <2>3 DEF GrantsBudgeted
<1>. QED
  BY <1>5, <1>13, <1>14, <1>15, <1>16 DEF RateIInv

(* fetch_add and its undoing: what is granted is counted, and what is       *)
(* refused leaves the counter where it stood.                               *)
LEMMA AcquireCountInv ==
  ASSUME RateIInv, NEW t \in RateThreads, AcquireCount(t)
  PROVE  RateIInv'
<1>1. RateTypeOK
  BY DEF RateIInv
<1>2. acquire[t].pc = "add"
  BY DEF AcquireCount
<1>3. t \notin Storing /\ t \notin Undoing /\ t \in InCall
  BY <1>2 DEF Storing, Undoing, InCall
<1>4. disturbed # "limits" => setRate.pc = "idle"
  BY <1>3 DEF RateIInv, LimitAlone
<1>5. disturbed = "nothing" => Storing = {} /\ count = granted + Cardinality(Undoing)
                               /\ granted <= max_per_second
  BY <1>3, <1>4 DEF RateIInv, CountExact
<1>6. PICK K \in Nat, M \in Nat, D \in Int, W \in Int, s \in Nat, u \in Nat, g \in Nat, c \in Int :
         /\ K = Threads /\ M = max_per_second /\ D = Standing /\ W = PerStore /\ c = count
         /\ s = Late /\ u = Cardinality(Undoing) /\ g = granted
  BY <1>1, RateFacts DEF RateTypeOK
<1>7. s < K /\ D = c - u
  BY <1>1, <1>2, <1>6, RateOthers DEF Standing
<1>8. disturbed = "calls" => K >= 2 /\ g + (M - D) + s * W <= M + K - 2 + (K - 1) * W
  BY <1>6, <1>7 DEF RateIInv, GrantsBudgeted
<1>9. /\ \A w \in RateThreads : w # t => acquire'[w] = acquire[w]
      /\ acquire' \in [RateThreads -> RateCalls]
      /\ acquire'[t].pc = IF count >= max_per_second THEN "undo" ELSE "idle"
  BY <1>1 DEF AcquireCount, Goto, Return, NoCall, RateTypeOK, RateCalls
<1>10. count' = c + 1 /\ UNCHANGED <<clock, window_start, max_per_second, setRate, disturbed>>
  BY <1>6 DEF AcquireCount
<1>11. granted' = IF c >= M THEN g ELSE g + 1
  BY <1>6 DEF AcquireCount
<1>12. RateTypeOK'
  BY <1>1, <1>6, <1>9, <1>10, <1>11 DEF RateTypeOK
<1>13. Storing' = Storing /\ Undoing' = IF c >= M THEN Undoing \cup {t} ELSE Undoing
  <2>1. CASE c >= M
    <3>1. Storing' = Storing \ {t} /\ Undoing' = Undoing \cup {t}
      BY <1>1, <1>6, <1>9, <2>1, RateMoves
    <3>. QED
      BY <1>3, <2>1, <3>1
  <2>2. CASE ~ (c >= M)
    <3>1. Storing' = Storing \ {t} /\ Undoing' = Undoing \ {t}
      BY <1>1, <1>6, <1>9, <2>2, RateMoves
    <3>. QED
      BY <1>3, <2>2, <3>1
  <2>. QED
    BY <2>1, <2>2
<1>14. Cardinality(Undoing') = IF c >= M THEN u + 1 ELSE u
  BY <1>1, <1>3, <1>6, <1>13, RateFacts, FS_AddElement
<1>15. /\ PerStore' = W /\ Threads' = K /\ Late' = s /\ max_per_second' = M
       /\ Standing' = IF c >= M THEN D ELSE D + 1
  BY <1>6, <1>7, <1>10, <1>13, <1>14 DEF Standing, PerStore, Threads, Late
<1>16. LimitAlone'
  BY <1>4, <1>10 DEF LimitAlone
<1>17. CountExact'
  BY <1>4, <1>5, <1>6, <1>10, <1>11, <1>13, <1>14, <1>15 DEF CountExact
<1>18. CountBounded'
  <2>1. disturbed # "limits" => D <= M /\ (D >= 0 \/ D >= 2 - K)
    BY <1>4, <1>6 DEF RateIInv, CountBounded
  <2>. QED
    BY <1>6, <1>7, <1>10, <1>15, <2>1 DEF CountBounded
<1>19. GrantsBudgeted'
  <2> SUFFICES ASSUME disturbed' = "calls" PROVE GrantsBudgeted'
    BY DEF GrantsBudgeted
  <2>1. PICK a \in Int, b \in Int : a = s * W /\ b = (K - 1) * W
    BY <1>6
  <2>. QED
    BY <1>4, <1>6, <1>7, <1>8, <1>10, <1>11, <1>15, <2>1 DEF GrantsBudgeted
<1>. QED
  BY <1>12, <1>16, <1>17, <1>18, <1>19 DEF RateIInv

LEMMA AcquireUndoInv ==
  ASSUME RateIInv, NEW t \in RateThreads, AcquireUndo(t)
  PROVE  RateIInv'
<1>1. RateTypeOK
  BY DEF RateIInv
<1>2. acquire[t].pc = "undo"
  BY DEF AcquireUndo
<1>3. t \notin Storing /\ t \in Undoing /\ t \in InCall
  BY <1>2 DEF Storing, Undoing, InCall
<1>4. /\ \A w \in RateThreads : w # t => acquire'[w] = acquire[w]
      /\ acquire' \in [RateThreads -> RateCalls]
      /\ acquire'[t].pc = "idle"
  BY <1>1 DEF AcquireUndo, Return, NoCall, RateTypeOK, RateCalls
<1>5. count' = count - 1
      /\ UNCHANGED <<clock, window_start, max_per_second, setRate, granted, disturbed>>
  BY DEF AcquireUndo
<1>6. RateTypeOK'
  BY <1>1, <1>4, <1>5 DEF RateTypeOK
<1>7. Storing' = Storing \ {t} /\ Undoing' = Undoing \ {t}
  BY <1>1, <1>4, RateMoves
<1>8. Storing' = Storing
  BY <1>3, <1>7
<1>9. Cardinality(Undoing') = Cardinality(Undoing) - 1
  BY <1>1, <1>3, <1>7, RateFacts, FS_RemoveElement
<1>10. Late' = Late /\ PerStore' = PerStore /\ Threads' = Threads
  BY <1>5, <1>8 DEF Late, PerStore, Threads
<1>11. Standing' = Standing
  BY <1>1, <1>5, <1>9, RateFacts DEF Standing, RateTypeOK
<1>12. LimitAlone'
  BY <1>3, <1>5 DEF RateIInv, LimitAlone
<1>13. CountExact'
  <2>1. disturbed = "nothing" => setRate.pc = "idle" /\ Storing = {}
                                 /\ count = granted + Cardinality(Undoing) /\ granted <= max_per_second
    BY <1>3 DEF RateIInv, CountExact, LimitAlone
  <2>2. disturbed = "nothing" => count - 1 = granted + (Cardinality(Undoing) - 1)
    BY <1>1, <2>1, RateFacts DEF RateTypeOK
  <2>. QED
    BY <1>5, <1>8, <1>9, <2>1, <2>2 DEF CountExact
<1>14. CountBounded' /\ GrantsBudgeted'
  BY <1>5, <1>10, <1>11 DEF RateIInv, CountBounded, GrantsBudgeted
<1>. QED
  BY <1>6, <1>12, <1>13, <1>14 DEF RateIInv

(* set_max_rate and the reset it ends with. *)
LEMMA ChangeRateInv ==
  ASSUME RateIInv, ChangeRate
  PROVE  RateIInv'
<1>1. RateTypeOK
  BY DEF RateIInv
<1>2. acquire' = acquire
  BY DEF ChangeRate, SetMaxRate, ResetCount, ResetClock, ResetWindow
<1>3. Storing' = Storing /\ Undoing' = Undoing /\ InCall' = InCall
  BY <1>2 DEF Storing, Undoing, InCall
<1>4. Late' = Late /\ Threads' = Threads /\ Cardinality(Undoing)' = Cardinality(Undoing)
  BY <1>3 DEF Late, Threads
<1>5. RateTypeOK'
  BY <1>1, RatesAssumption
  DEF RateTypeOK, ChangeRate, SetMaxRate, ResetCount, ResetClock, ResetWindow
<1>6. CASE SetMaxRate
  <2>1. /\ setRate'.pc = "count" /\ granted' = 0
        /\ disturbed' = IF disturbed = "limits" \/ InCall # {} THEN "limits" ELSE "nothing"
    BY <1>6 DEF SetMaxRate
  <2>2. LimitAlone' /\ CountExact' /\ CountBounded' /\ GrantsBudgeted'
    BY <1>3, <2>1 DEF LimitAlone, CountExact, CountBounded, GrantsBudgeted
  <2>. QED
    BY <1>5, <2>2 DEF RateIInv
<1>7. CASE ResetCount
  <2>1. /\ setRate.pc = "count" /\ setRate'.pc = "clock" /\ count' = 0
        /\ UNCHANGED <<max_per_second, granted, disturbed>>
    BY <1>1, <1>7 DEF ResetCount, RateTypeOK
  <2>2. disturbed # "limits" => InCall = {}
    BY <2>1 DEF RateIInv, LimitAlone
  <2>3. disturbed # "limits" => Storing = {} /\ Cardinality(Undoing) = 0
    <3>1. InCall = {} => Storing = {} /\ Undoing = {}
      BY DEF InCall, Storing, Undoing
    <3>. QED
      BY <2>2, <3>1, FS_EmptySet
  <2>4. disturbed # "calls"
    BY <2>1 DEF RateIInv, GrantsBudgeted
  <2>5. disturbed = "nothing" => granted = 0
    BY <2>1 DEF RateIInv, CountExact
  <2>6. LimitAlone' /\ GrantsBudgeted'
    BY <1>3, <2>1, <2>2, <2>4 DEF LimitAlone, GrantsBudgeted
  <2>7. CountExact'
    BY <1>1, <1>3, <1>4, <2>1, <2>3, <2>5, RateFacts DEF CountExact
  <2>8. CountBounded'
    BY <1>1, <1>3, <1>4, <2>1, <2>3, RateFacts DEF CountBounded, Standing
  <2>. QED
    BY <1>5, <2>6, <2>7, <2>8 DEF RateIInv
<1>8. CASE ResetClock \/ ResetWindow
  <2>1. /\ setRate.pc \in {"clock", "window"} /\ setRate'.pc \in {"window", "idle"}
        /\ UNCHANGED <<count, max_per_second, granted, disturbed>>
    BY <1>8 DEF ResetClock, ResetWindow
  <2>2. Standing' = Standing
    BY <1>4, <2>1 DEF Standing
  <2>3. disturbed # "calls"
    BY <2>1 DEF RateIInv, GrantsBudgeted
  <2>4. LimitAlone' /\ GrantsBudgeted'
    BY <1>3, <2>1, <2>3 DEF RateIInv, LimitAlone, GrantsBudgeted
  <2>5. CountExact'
    BY <1>3, <1>4, <2>1 DEF RateIInv, CountExact
  <2>6. CountBounded'
    BY <1>4, <2>1, <2>2 DEF RateIInv, CountBounded
  <2>. QED
    BY <1>5, <2>4, <2>5, <2>6 DEF RateIInv
<1>. QED
  BY <1>6, <1>7, <1>8 DEF ChangeRate

LEMMA RateInvariance == RateSpec => []RateIInv
<1>1. RateIInv /\ [RateNext]_rateVars => RateIInv'
  <2> SUFFICES ASSUME RateIInv, [RateNext]_rateVars PROVE RateIInv'
    OBVIOUS
  <2>1. ASSUME NEW t \in RateThreads, TryAcquire(t) PROVE RateIInv'
    BY <2>1, AcquireClockInv, AcquireLoadInv, AcquireWindowInv, AcquireStoreInv, AcquireCountInv,
       AcquireUndoInv DEF TryAcquire
  <2>2. CASE RateTick \/ UNCHANGED rateVars
    <3>1. clock' \in Int
          /\ UNCHANGED <<window_start, count, max_per_second, acquire, setRate, granted, disturbed>>
      BY <2>2 DEF RateTick, rateVars, RateIInv, RateTypeOK
    <3>2. RateTypeOK'
      BY <3>1 DEF RateIInv, RateTypeOK
    <3>3. /\ Storing' = Storing /\ Undoing' = Undoing /\ InCall' = InCall
      BY <3>1 DEF Storing, Undoing, InCall
    <3>4. /\ Late' = Late /\ Cardinality(Undoing)' = Cardinality(Undoing) /\ Standing' = Standing
          /\ PerStore' = PerStore /\ Threads' = Threads
      BY <3>1, <3>3 DEF Late, Standing, PerStore, Threads
    <3>5. LimitAlone' /\ CountExact'
      BY <3>1, <3>3, <3>4 DEF RateIInv, LimitAlone, CountExact
    <3>6. CountBounded' /\ GrantsBudgeted'
      BY <3>1, <3>4 DEF RateIInv, CountBounded, GrantsBudgeted
    <3>. QED
      BY <3>2, <3>5, <3>6 DEF RateIInv
  <2>3. CASE ChangeRate
    BY <2>3, ChangeRateInv
  <2>. QED
    BY <2>1, <2>2, <2>3 DEF RateNext
<1>. QED
  BY <1>1, RateInitIInv, PTL DEF RateSpec

(* try_acquire lets no more than max_per_second orders through a second     *)
(* that was opened while no other call was under way; where calls overlap   *)
(* the store at rate_limiter.cpp:37 it lets through fewer than the limit    *)
(* and one for each other thread, for each thread.  For every number of     *)
(* threads, every set of limits and any interleaving.                       *)
THEOREM RateKept == RateSpec => []RateLimitKept
<1>1. RateIInv => RateLimitKept
  <2> SUFFICES ASSUME RateIInv PROVE RateLimitKept
    OBVIOUS
  <2>1. RateTypeOK
    BY DEF RateIInv
  <2>2. disturbed = "nothing" => granted <= max_per_second
    BY <2>1, RateFacts DEF RateIInv, CountExact
  <2>3. ASSUME disturbed = "calls" PROVE granted < Threads * (max_per_second + Threads - 1)
    <3>1. PICK K \in Nat, M \in Nat, D \in Int, W \in Int, s \in Nat, g \in Nat :
             /\ K = Threads /\ M = max_per_second /\ D = Standing /\ W = PerStore
             /\ s = Late /\ g = granted
      BY <2>1, RateFacts DEF RateTypeOK
    <3>2. W = M + K - 1 /\ M >= 1 /\ K >= 2
      BY <2>1, <2>3, <3>1, RateFacts DEF RateIInv, GrantsBudgeted, PerStore
    <3>3. D <= M
      BY <2>3, <3>1 DEF RateIInv, GrantsBudgeted, CountBounded
    <3>4. K * W >= W
      <4>1. PICK j \in Nat : j = K - 1
        BY <3>1, <3>2
      <4>2. j * W >= 0
        BY <3>1, <3>2, <4>1
      <4>3. K * W = j * W + W
        BY <3>1, <4>1
      <4>. QED
        BY <3>1, <4>1, <4>2, <4>3
    <3>5. g < K * W
      <4>1. CASE s = K
        <5>1. g = 0
          BY <2>3, <3>1, <4>1 DEF RateIInv, GrantsBudgeted
        <5>. QED
          BY <3>1, <3>2, <3>4, <5>1
      <4>2. CASE s # K
        <5>1. g + (M - D) + s * W <= M + K - 2 + (K - 1) * W
          BY <2>3, <3>1, <4>2 DEF RateIInv, GrantsBudgeted
        <5>2. (K - 1) * W = K * W - W /\ s * W >= 0
          BY <3>1, <3>2
        <5>3. PICK a \in Int, b \in Int : a = s * W /\ b = K * W
          BY <3>1
        <5>. QED
          BY <3>1, <3>2, <3>3, <5>1, <5>2, <5>3
      <4>. QED
        BY <4>1, <4>2
    <3>. QED
      BY <3>1, <3>2, <3>5
  <2>. QED
    BY <2>2, <2>3 DEF RateLimitKept, Threads
<1>. QED
  BY <1>1, RateInvariance, PTL

-----------------------------------------------------------------------------
(***************************************************************************)
(* BookSide.                                                               *)
(***************************************************************************)

BookLevels == [price : BookPrices, quantity : BookQuantities \cup {0}]

Ranked(side, bid) ==
    \A i, j \in 1 .. Len(side) : i < j => BookBetter(bid, side[i].price, side[j].price)

Entries(side) == {side[i] : i \in DOMAIN side}

\* As long as neither of the two cases was met: the array is a reference side
\* in order, every level better than all behind it.
BookIInv ==
    /\ is_bid \in BOOLEAN
    /\ ~misled => /\ levels \in Seq(BookLevels)
                  /\ Len(levels) <= BookDepth
                  /\ Ranked(levels, is_bid)
                  /\ Entries(levels) = quoted

(* Every set of numbers has a smallest one, which Min is. *)
LEMMA SmallestOf ==
  ASSUME NEW I \in SUBSET Nat, I # {}
  PROVE  Min(I) \in I /\ \A j \in I : Min(I) <= j
<1> DEFINE Less == OpToRel(<, Nat)
<1>1. IsWellFoundedOn(Less, Nat)
  BY NatLessThanWellFounded
<1>2. \A x, y \in Nat : x < y => <<x, y>> \in Less
  BY DEF OpToRel
<1>. HIDE DEF Less
<1>3. PICK x \in I : \A y \in I : ~ (<<y, x>> \in Less)
  BY <1>1, WFMin
<1>4. ASSUME NEW y \in I PROVE x <= y
  <2>1. x \in Nat /\ y \in Nat /\ ~ (<<y, x>> \in Less)
    BY <1>3
  <2>. QED
    BY <1>2, <2>1
<1>. QED
  BY <1>4 DEF Min

LEMMA LevelPrices ==
  ASSUME NEW l \in BookLevels
  PROVE  l.price \in Nat
  BY BookPricesAssumption DEF BookLevels

LEMMA LevelQuantities ==
  ASSUME NEW l \in BookLevels
  PROVE  l.quantity \in Nat
<1>1. l.quantity \in BookQuantities \cup {0}
  BY DEF BookLevels
<1>2. CASE l.quantity \in BookQuantities
  BY <1>2, BookQuantitiesAssumption
<1>3. CASE l.quantity = 0
  BY <1>3
<1>. QED
  BY <1>1, <1>2, <1>3

(* Better is a strict total order of the prices. *)
LEMMA BetterOrder ==
  ASSUME NEW bid \in BOOLEAN, NEW p \in Nat, NEW q \in Nat
  PROVE  /\ ~ (BookBetter(bid, p, q) /\ BookBetter(bid, q, p))
         /\ ~ BookBetter(bid, p, p)
         /\ p = q \/ BookBetter(bid, p, q) \/ BookBetter(bid, q, p)
  BY DEF BookBetter

LEMMA BetterTransitive ==
  ASSUME NEW bid \in BOOLEAN, NEW p \in Nat, NEW q \in Nat, NEW r \in Nat,
         BookBetter(bid, p, q), BookBetter(bid, q, r)
  PROVE  BookBetter(bid, p, r)
  BY DEF BookBetter

LEMMA SideFacts ==
  ASSUME NEW side \in Seq(BookLevels)
  PROVE  /\ Len(side) \in Nat /\ DOMAIN side = 1 .. Len(side)
         /\ \A i \in 1 .. Len(side) : side[i] \in BookLevels
  BY LenProperties

LEMMA EntryAt ==
  ASSUME NEW side \in Seq(BookLevels), NEW l
  PROVE  l \in Entries(side) <=> \E i \in 1 .. Len(side) : side[i] = l
  BY SideFacts DEF Entries

LEMMA InsertionPointFacts ==
  ASSUME NEW side \in Seq(BookLevels), NEW bid \in BOOLEAN, NEW price
  PROVE  LET pos == InsertionPoint(side, price, bid)
         IN  /\ pos \in 1 .. Len(side) + 1
             /\ \A i \in 1 .. Len(side) : i < pos => BookBetter(bid, side[i].price, price)
             /\ pos <= Len(side) => ~BookBetter(bid, side[pos].price, price)
<1> DEFINE I == {i \in 1 .. Len(side) : ~BookBetter(bid, side[i].price, price)}
           pos == InsertionPoint(side, price, bid)
<1>1. Len(side) \in Nat
  BY SideFacts
<1>2. pos = IF I # {} THEN (IF Min(I) = 0 THEN Len(side) + 1 ELSE Min(I)) ELSE Len(side) + 1
  BY DEF InsertionPoint, SelectInSeq
<1>3. I \in SUBSET Nat
  BY <1>1
<1>4. \A i \in 1 .. Len(side) : i \in I <=> ~BookBetter(bid, side[i].price, price)
  OBVIOUS
<1>5. I \subseteq 1 .. Len(side)
  OBVIOUS
<1>. HIDE DEF I, pos
<1>6. CASE I = {}
  BY <1>1, <1>2, <1>4, <1>6 DEF pos
<1>7. CASE I # {}
  <2>1. PICK m : m = Min(I)
    OBVIOUS
  <2>2. m \in I /\ \A j \in I : m <= j
    BY <1>3, <1>7, <2>1, SmallestOf
  <2>3. pos = m /\ m \in 1 .. Len(side)
    BY <1>2, <1>5, <1>7, <2>1, <2>2
  <2>4. ASSUME NEW i \in 1 .. Len(side), i < m PROVE BookBetter(bid, side[i].price, price)
    <3>1. i \notin I
      BY <2>2, <2>3, <2>4, <1>1
    <3>. QED
      BY <1>4, <3>1
  <2>. QED
    BY <1>1, <1>4, <2>2, <2>3, <2>4 DEF pos
<1>. QED
  BY <1>6, <1>7

LEMMA FirstPricedFacts ==
  ASSUME NEW side \in Seq(BookLevels), NEW price
  PROVE  LET at == FirstPriced(side, price)
         IN  /\ at \in 0 .. Len(side)
             /\ at # 0 => side[at].price = price
             /\ at = 0 => \A i \in 1 .. Len(side) : side[i].price # price
<1> DEFINE I == {i \in 1 .. Len(side) : side[i].price = price}
           at == FirstPriced(side, price)
<1>1. Len(side) \in Nat
  BY SideFacts
<1>2. at = IF I # {} THEN Min(I) ELSE 0
  BY DEF FirstPriced, SelectInSeq
<1>3. I \in SUBSET Nat
  BY <1>1
<1>4. \A i \in 1 .. Len(side) : i \in I <=> side[i].price = price
  OBVIOUS
<1>5. I \subseteq 1 .. Len(side)
  OBVIOUS
<1>. HIDE DEF I, at
<1>6. CASE I = {}
  BY <1>1, <1>2, <1>4, <1>6 DEF at
<1>7. CASE I # {}
  <2>1. PICK m : m = Min(I)
    OBVIOUS
  <2>2. m \in I
    BY <1>3, <1>7, <2>1, SmallestOf
  <2>3. at = m /\ m \in 1 .. Len(side)
    BY <1>2, <1>5, <1>7, <2>1, <2>2
  <2>. QED
    BY <1>1, <1>4, <2>2, <2>3 DEF at
<1>. QED
  BY <1>6, <1>7

(* What the shifting loops leave, index by index. *)
LEMMA InsertAtFacts ==
  ASSUME NEW side \in Seq(BookLevels), NEW pos \in 1 .. Len(side) + 1, NEW level \in BookLevels
  PROVE  LET r == InsertAt(side, pos, level)
         IN  /\ r \in Seq(BookLevels)
             /\ Len(r) = Len(side) + 1
             /\ \A i \in 1 .. Len(side) + 1 :
                   r[i] = IF i < pos THEN side[i] ELSE IF i = pos THEN level ELSE side[i - 1]
<1> DEFINE left  == SubSeq(side, 1, pos - 1)
           right == SubSeq(side, pos, Len(side))
           front == left \o <<level>>
           r     == InsertAt(side, pos, level)
<1>1. Len(side) \in Nat /\ \A i \in 1 .. Len(side) : side[i] \in BookLevels
  BY SideFacts
<1>2. /\ left \in Seq(BookLevels) /\ Len(left) = pos - 1
      /\ \A i \in 1 .. pos - 1 : left[i] = side[i]
  <2>1. \A i \in 1 .. pos - 1 : side[i] \in BookLevels
    BY <1>1
  <2>. QED
    BY <1>1, <2>1, SubSeqProperties
<1>3. /\ right \in Seq(BookLevels) /\ Len(right) = Len(side) - pos + 1
      /\ \A i \in 1 .. Len(side) - pos + 1 : right[i] = side[pos + i - 1]
  <2>1. \A i \in pos .. Len(side) : side[i] \in BookLevels
    BY <1>1
  <2>. QED
    BY <1>1, <2>1, SubSeqProperties
<1>4. <<level>> \in Seq(BookLevels) /\ Len(<<level>>) = 1 /\ <<level>>[1] = level
  OBVIOUS
<1>5. r = front \o right
  BY DEF InsertAt
<1>. HIDE DEF left, right, r
<1>6. /\ front \in Seq(BookLevels) /\ Len(front) = pos
      /\ \A i \in 1 .. pos : front[i] = IF i <= pos - 1 THEN left[i] ELSE <<level>>[i - (pos - 1)]
  BY <1>1, <1>2, <1>4, ConcatProperties
<1>. HIDE DEF front
<1>7. /\ r \in Seq(BookLevels) /\ Len(r) = Len(side) + 1
      /\ \A i \in 1 .. Len(side) + 1 : r[i] = IF i <= pos THEN front[i] ELSE right[i - pos]
  <2>1. /\ r \in Seq(BookLevels) /\ Len(r) = Len(front) + Len(right)
        /\ \A i \in 1 .. Len(front) + Len(right) :
              r[i] = IF i <= Len(front) THEN front[i] ELSE right[i - Len(front)]
    BY <1>3, <1>5, <1>6, ConcatProperties
  <2>2. Len(front) + Len(right) = Len(side) + 1 /\ Len(front) = pos
    BY <1>1, <1>3, <1>6
  <2>. QED
    BY <2>1, <2>2
<1>8. ASSUME NEW i \in 1 .. Len(side) + 1
      PROVE  r[i] = IF i < pos THEN side[i] ELSE IF i = pos THEN level ELSE side[i - 1]
  <2>1. CASE i < pos
    BY <1>1, <1>2, <1>6, <1>7, <2>1
  <2>2. CASE i = pos
    BY <1>1, <1>4, <1>6, <1>7, <2>2
  <2>3. CASE i > pos
    <3>1. i - pos \in 1 .. Len(side) - pos + 1 /\ pos + (i - pos) - 1 = i - 1
      BY <1>1, <2>3
    <3>. QED
      BY <1>1, <1>3, <1>7, <2>3, <3>1
  <2>. QED
    BY <1>1, <2>1, <2>2, <2>3
<1>. QED
  BY <1>7, <1>8 DEF r

LEMMA RemoveAtFacts ==
  ASSUME NEW side \in Seq(BookLevels), NEW at \in 1 .. Len(side)
  PROVE  LET r == RemoveAt(side, at)
         IN  /\ r \in Seq(BookLevels)
             /\ Len(r) = Len(side) - 1
             /\ \A i \in 1 .. Len(side) - 1 : r[i] = IF i < at THEN side[i] ELSE side[i + 1]
<1> DEFINE left  == SubSeq(side, 1, at - 1)
           right == SubSeq(side, at + 1, Len(side))
           r     == RemoveAt(side, at)
<1>1. Len(side) \in Nat /\ \A i \in 1 .. Len(side) : side[i] \in BookLevels
  BY SideFacts
<1>2. /\ left \in Seq(BookLevels) /\ Len(left) = at - 1
      /\ \A i \in 1 .. at - 1 : left[i] = side[i]
  <2>1. \A i \in 1 .. at - 1 : side[i] \in BookLevels
    BY <1>1
  <2>. QED
    BY <1>1, <2>1, SubSeqProperties
<1>3. /\ right \in Seq(BookLevels) /\ Len(right) = Len(side) - at
      /\ \A i \in 1 .. Len(side) - at : right[i] = side[at + i]
  <2>1. \A i \in at + 1 .. Len(side) : side[i] \in BookLevels
    BY <1>1
  <2>2. /\ right \in Seq(BookLevels)
        /\ Len(right) = IF at + 1 <= Len(side) THEN Len(side) - (at + 1) + 1 ELSE 0
        /\ \A i \in 1 .. Len(side) - (at + 1) + 1 : right[i] = side[(at + 1) + i - 1]
    BY <1>1, <2>1, SubSeqProperties
  <2>. QED
    BY <1>1, <2>2
<1>4. r = left \o right
  BY DEF RemoveAt
<1>. HIDE DEF left, right, r
<1>5. /\ r \in Seq(BookLevels) /\ Len(r) = Len(side) - 1
      /\ \A i \in 1 .. Len(side) - 1 : r[i] = IF i <= at - 1 THEN left[i] ELSE right[i - (at - 1)]
  <2>1. /\ r \in Seq(BookLevels) /\ Len(r) = Len(left) + Len(right)
        /\ \A i \in 1 .. Len(left) + Len(right) :
              r[i] = IF i <= Len(left) THEN left[i] ELSE right[i - Len(left)]
    BY <1>2, <1>3, <1>4, ConcatProperties
  <2>2. Len(left) + Len(right) = Len(side) - 1
    BY <1>1, <1>2, <1>3
  <2>. QED
    BY <1>2, <2>1, <2>2
<1>6. ASSUME NEW i \in 1 .. Len(side) - 1
      PROVE  r[i] = IF i < at THEN side[i] ELSE side[i + 1]
  <2>1. CASE i < at
    BY <1>1, <1>2, <1>5, <2>1
  <2>2. CASE i >= at
    <3>1. i - (at - 1) \in 1 .. Len(side) - at /\ at + (i - (at - 1)) = i + 1
      BY <1>1, <2>2
    <3>. QED
      BY <1>1, <1>3, <1>5, <2>2, <3>1
  <2>. QED
    BY <1>1, <2>1, <2>2
<1>. QED
  BY <1>5, <1>6 DEF r

LEMMA FrontFacts ==
  ASSUME NEW side \in Seq(BookLevels), Len(side) > 0
  PROVE  LET r == Front(side)
         IN  /\ r \in Seq(BookLevels)
             /\ Len(r) = Len(side) - 1
             /\ \A i \in 1 .. Len(side) - 1 : r[i] = side[i]
<1>1. Len(side) \in Nat /\ \A i \in 1 .. Len(side) - 1 : side[i] \in BookLevels
  BY SideFacts
<1> DEFINE r == SubSeq(side, 1, Len(side) - 1)
<1>2. /\ r \in Seq(BookLevels)
      /\ Len(r) = IF 1 <= Len(side) - 1 THEN (Len(side) - 1) - 1 + 1 ELSE 0
      /\ \A i \in 1 .. (Len(side) - 1) - 1 + 1 : r[i] = side[1 + i - 1]
  BY <1>1, SubSeqProperties
<1>3. Front(side) = r
  BY DEF Front
<1>. HIDE DEF r
<1>4. Len(r) = Len(side) - 1
  <2>1. PICK n : n = Len(side)
    OBVIOUS
  <2>2. n \in Nat /\ n >= 1
    BY <1>1, <2>1
  <2>3. Len(r) = IF 1 <= n - 1 THEN (n - 1) - 1 + 1 ELSE 0
    BY <1>2, <2>1, Zenon
  <2>4. Len(r) = n - 1
    BY <2>2, <2>3
  <2>. QED
    BY <2>1, <2>4
<1>5. ASSUME NEW i \in 1 .. Len(side) - 1 PROVE r[i] = side[i]
  BY <1>1, <1>2
<1>. QED
  BY <1>2, <1>3, <1>4, <1>5

(* Every level has a price of its own. *)
LEMMA RankedOnce ==
  ASSUME NEW side \in Seq(BookLevels), NEW bid \in BOOLEAN, Ranked(side, bid),
         NEW i \in 1 .. Len(side), NEW j \in 1 .. Len(side), side[i].price = side[j].price
  PROVE  i = j
<1>1. Len(side) \in Nat /\ side[i].price \in Nat /\ side[j].price \in Nat
  BY SideFacts, LevelPrices
<1>2. ~BookBetter(bid, side[i].price, side[j].price) /\ ~BookBetter(bid, side[j].price, side[i].price)
  BY <1>1, BetterOrder
<1>3. ~(i < j) /\ ~(j < i)
  BY <1>2 DEF Ranked
<1>. QED
  BY <1>1, <1>3

LEMMA RankedSize ==
  ASSUME NEW side \in Seq(BookLevels), NEW bid \in BOOLEAN, Ranked(side, bid)
  PROVE  IsFiniteSet(Entries(side)) /\ Cardinality(Entries(side)) = Len(side)
<1>1. Len(side) \in Nat /\ DOMAIN side = 1 .. Len(side) /\ side \in [1 .. Len(side) -> BookLevels]
  BY LenProperties
<1>2. side \in [1 .. Len(side) -> Entries(side)]
  BY <1>1 DEF Entries
<1>3. \A i, j \in 1 .. Len(side) : side[i] = side[j] => i = j
  BY RankedOnce
<1>4. side \in Injection(1 .. Len(side), Entries(side))
  BY <1>1, <1>2, <1>3 DEF Injection, IsInjective
<1>5. side \in Surjection(1 .. Len(side), Entries(side))
  BY <1>1, <1>2 DEF Surjection, Entries
<1>6. ExistsBijection(1 .. Len(side), Entries(side))
  BY <1>4, <1>5 DEF ExistsBijection, Bijection
<1>7. IsFiniteSet(1 .. Len(side)) /\ Cardinality(1 .. Len(side)) = Len(side)
  <2>1. PICK n \in Nat : n = Len(side)
    BY <1>1
  <2>2. IsFiniteSet(1 .. n) /\ Cardinality(1 .. n) = n
    BY FS_Interval
  <2>. QED
    BY <2>1, <2>2
<1>. QED
  BY <1>6, <1>7, FS_Bijection

(* A level put in front of the first one that is not better than it. *)
LEMMA InsertRanked ==
  ASSUME NEW side \in Seq(BookLevels), NEW bid \in BOOLEAN, Ranked(side, bid),
         NEW level \in BookLevels, ~HasPrice(Entries(side), level.price)
  PROVE  LET r == InsertAt(side, InsertionPoint(side, level.price, bid), level)
         IN  /\ r \in Seq(BookLevels)
             /\ Len(r) = Len(side) + 1
             /\ Ranked(r, bid)
             /\ Entries(r) = Entries(side) \cup {level}
<1>1. PICK pos : pos = InsertionPoint(side, level.price, bid)
  OBVIOUS
<1>2. /\ pos \in 1 .. Len(side) + 1
      /\ \A i \in 1 .. Len(side) : i < pos => BookBetter(bid, side[i].price, level.price)
      /\ pos <= Len(side) => ~BookBetter(bid, side[pos].price, level.price)
  BY <1>1, InsertionPointFacts
<1>3. PICK r : r = InsertAt(side, pos, level)
  OBVIOUS
<1>4. /\ r \in Seq(BookLevels)
      /\ Len(r) = Len(side) + 1
      /\ \A i \in 1 .. Len(side) + 1 :
            r[i] = IF i < pos THEN side[i] ELSE IF i = pos THEN level ELSE side[i - 1]
  <2>1. pos \in 1 .. Len(side) + 1
    BY <1>2
  <2>2. /\ InsertAt(side, pos, level) \in Seq(BookLevels)
        /\ Len(InsertAt(side, pos, level)) = Len(side) + 1
        /\ \A i \in 1 .. Len(side) + 1 :
              InsertAt(side, pos, level)[i] =
                 IF i < pos THEN side[i] ELSE IF i = pos THEN level ELSE side[i - 1]
    BY <2>1, InsertAtFacts
  <2>. QED
    BY <1>3, <2>2, Zenon
<1>5. Len(side) \in Nat /\ level.price \in Nat /\ \A i \in 1 .. Len(side) : side[i].price \in Nat
  BY SideFacts, LevelPrices
<1>6. ASSUME NEW i \in 1 .. Len(side), pos <= i PROVE BookBetter(bid, level.price, side[i].price)
  <2>1. pos \in 1 .. Len(side) /\ side[pos].price # level.price
    BY <1>2, <1>5, <1>6, EntryAt DEF HasPrice
  <2>2. BookBetter(bid, level.price, side[pos].price)
    BY <1>2, <1>5, <2>1, BetterOrder
  <2>3. CASE i = pos
    BY <2>2, <2>3
  <2>4. CASE pos < i
    <3>1. BookBetter(bid, side[pos].price, side[i].price)
      BY <2>1, <2>4 DEF Ranked
    <3>. QED
      BY <1>5, <2>1, <2>2, <3>1, BetterTransitive
  <2>. QED
    BY <1>2, <1>5, <1>6, <2>3, <2>4
<1>7. Ranked(r, bid)
  <2> SUFFICES ASSUME NEW i \in 1 .. Len(side) + 1, NEW j \in 1 .. Len(side) + 1, i < j
               PROVE  BookBetter(bid, r[i].price, r[j].price)
    BY <1>4 DEF Ranked
  <2>1. CASE j < pos
    <3>1. i \in 1 .. Len(side) /\ j \in 1 .. Len(side) /\ r[i] = side[i] /\ r[j] = side[j]
      BY <1>2, <1>4, <1>5, <2>1
    <3>. QED
      BY <3>1 DEF Ranked
  <2>2. CASE j = pos
    <3>1. i \in 1 .. Len(side) /\ i < pos /\ r[i] = side[i] /\ r[j] = level
      BY <1>2, <1>4, <1>5, <2>2
    <3>. QED
      BY <1>2, <3>1
  <2>3. CASE j > pos
    <3>1. j - 1 \in 1 .. Len(side) /\ r[j] = side[j - 1] /\ pos <= j - 1
      BY <1>2, <1>4, <1>5, <2>3
    <3>2. CASE i < pos
      <4>1. i \in 1 .. Len(side) /\ r[i] = side[i] /\ i < j - 1
        BY <1>2, <1>4, <1>5, <2>3, <3>2
      <4>. QED
        BY <3>1, <4>1 DEF Ranked
    <3>3. CASE i = pos
      <4>1. r[i] = level
        BY <1>2, <1>4, <3>3
      <4>. QED
        BY <1>6, <3>1, <4>1
    <3>4. CASE i > pos
      <4>1. i - 1 \in 1 .. Len(side) /\ r[i] = side[i - 1] /\ i - 1 < j - 1
        BY <1>2, <1>4, <1>5, <3>4
      <4>. QED
        BY <3>1, <4>1 DEF Ranked
    <3>. QED
      BY <1>2, <1>5, <3>2, <3>3, <3>4
  <2>. QED
    BY <1>2, <1>5, <2>1, <2>2, <2>3
<1>8. Entries(r) = Entries(side) \cup {level}
  <2>1. ASSUME NEW l, l \in Entries(r) PROVE l \in Entries(side) \cup {level}
    <3>1. PICK i \in 1 .. Len(side) + 1 : r[i] = l
      BY <1>4, <2>1, EntryAt
    <3>2. l = level \/ (\E k \in 1 .. Len(side) : side[k] = l)
      <4>1. CASE i < pos
        BY <1>2, <1>4, <1>5, <3>1, <4>1
      <4>2. CASE i = pos
        BY <1>4, <3>1, <4>2
      <4>3. CASE i > pos
        <5>1. i - 1 \in 1 .. Len(side) /\ r[i] = side[i - 1]
          BY <1>2, <1>4, <1>5, <4>3
        <5>. QED
          BY <3>1, <5>1
      <4>. QED
        BY <1>2, <1>5, <4>1, <4>2, <4>3
    <3>. QED
      BY <3>2, EntryAt
  <2>2. level \in Entries(r)
    <3>1. pos \in 1 .. Len(r) /\ r[pos] = level
      BY <1>2, <1>4, <1>5
    <3>. QED
      BY <1>4, <3>1, EntryAt
  <2>3. ASSUME NEW l, l \in Entries(side) PROVE l \in Entries(r)
    <3>1. PICK i \in 1 .. Len(side) : side[i] = l
      BY <2>3, EntryAt
    <3>2. CASE i < pos
      <4>1. i \in 1 .. Len(r) /\ r[i] = l
        BY <1>4, <1>5, <3>1, <3>2
      <4>. QED
        BY <1>4, <4>1, EntryAt
    <3>3. CASE i >= pos
      <4>1. i + 1 \in 1 .. Len(r) /\ r[i + 1] = side[(i + 1) - 1]
        BY <1>2, <1>4, <1>5, <3>3
      <4>2. (i + 1) - 1 = i
        BY <1>5
      <4>. QED
        BY <1>4, <3>1, <4>1, <4>2, EntryAt
    <3>. QED
      BY <1>2, <1>5, <3>2, <3>3
  <2>. QED
    BY <2>1, <2>2, <2>3
<1>. QED
  BY <1>1, <1>3, <1>4, <1>7, <1>8

(* A level taken out. *)
LEMMA RemoveRanked ==
  ASSUME NEW side \in Seq(BookLevels), NEW bid \in BOOLEAN, Ranked(side, bid), NEW price
  PROVE  LET r == RemoveLevel(side, price)
         IN  /\ r \in Seq(BookLevels)
             /\ Len(r) <= Len(side)
             /\ Ranked(r, bid)
             /\ Entries(r) = {l \in Entries(side) : l.price # price}
<1>1. PICK at : at = FirstPriced(side, price)
  OBVIOUS
<1>2. /\ at \in 0 .. Len(side)
      /\ at # 0 => side[at].price = price
      /\ at = 0 => \A i \in 1 .. Len(side) : side[i].price # price
  BY <1>1, FirstPricedFacts
<1>3. Len(side) \in Nat
  BY SideFacts
<1>4. CASE at = 0
  <2>1. RemoveLevel(side, price) = side
    BY <1>1, <1>4 DEF RemoveLevel
  <2>2. \A l \in Entries(side) : l.price # price
    BY <1>2, <1>4, EntryAt
  <2>. QED
    BY <1>3, <2>1, <2>2
<1>5. CASE at # 0
  <2>1. at \in 1 .. Len(side) /\ side[at].price = price
    BY <1>2, <1>3, <1>5
  <2>2. PICK r : r = RemoveAt(side, at)
    OBVIOUS
  <2>3. RemoveLevel(side, price) = r
    BY <1>1, <1>5, <2>2 DEF RemoveLevel
  <2>4. /\ r \in Seq(BookLevels)
        /\ Len(r) = Len(side) - 1
        /\ \A i \in 1 .. Len(side) - 1 : r[i] = IF i < at THEN side[i] ELSE side[i + 1]
    <3>1. /\ RemoveAt(side, at) \in Seq(BookLevels)
          /\ Len(RemoveAt(side, at)) = Len(side) - 1
          /\ \A i \in 1 .. Len(side) - 1 :
                RemoveAt(side, at)[i] = IF i < at THEN side[i] ELSE side[i + 1]
      BY <2>1, RemoveAtFacts
    <3>. QED
      BY <2>2, <3>1, Zenon
  <2>5. ASSUME NEW i \in 1 .. Len(side) - 1
        PROVE  \/ i < at /\ i \in 1 .. Len(side) /\ r[i] = side[i]
               \/ i >= at /\ i + 1 \in 1 .. Len(side) /\ r[i] = side[i + 1]
    BY <1>3, <2>1, <2>4
  <2>6. Ranked(r, bid)
    <3> SUFFICES ASSUME NEW i \in 1 .. Len(side) - 1, NEW j \in 1 .. Len(side) - 1, i < j
                 PROVE  BookBetter(bid, r[i].price, r[j].price)
      BY <2>4 DEF Ranked
    <3>1. PICK k \in 1 .. Len(side) : r[i] = side[k] /\ k = IF i < at THEN i ELSE i + 1
      BY <1>3, <2>1, <2>5
    <3>2. PICK m \in 1 .. Len(side) : r[j] = side[m] /\ m = IF j < at THEN j ELSE j + 1
      BY <1>3, <2>1, <2>5
    <3>3. k < m
      BY <1>3, <2>1, <3>1, <3>2
    <3>. QED
      BY <3>1, <3>2, <3>3 DEF Ranked
  <2>7. Entries(r) = {l \in Entries(side) : l.price # price}
    <3>1. ASSUME NEW l, l \in Entries(r) PROVE l \in Entries(side) /\ l.price # price
      <4>1. PICK i \in 1 .. Len(side) - 1 : r[i] = l
        BY <2>4, <3>1, EntryAt
      <4>2. PICK k \in 1 .. Len(side) : l = side[k] /\ k # at
        BY <1>3, <2>1, <2>5, <4>1
      <4>3. side[k].price # side[at].price
        BY <2>1, <4>2, RankedOnce
      <4>. QED
        BY <2>1, <4>2, <4>3, EntryAt
    <3>2. ASSUME NEW l, l \in Entries(side), l.price # price PROVE l \in Entries(r)
      <4>1. PICK k \in 1 .. Len(side) : side[k] = l
        BY <3>2, EntryAt
      <4>2. k # at
        BY <2>1, <3>2, <4>1
      <4>3. CASE k < at
        <5>1. k \in 1 .. Len(r) /\ k \in 1 .. Len(side) - 1
          BY <1>3, <2>1, <2>4, <4>3
        <5>2. r[k] = l
          BY <1>3, <2>1, <2>4, <4>1, <4>3, <5>1
        <5>. QED
          BY <2>4, <5>1, <5>2, EntryAt
      <4>4. CASE k > at
        <5>1. k - 1 \in 1 .. Len(r) /\ k - 1 \in 1 .. Len(side) - 1 /\ ~(k - 1 < at) /\ (k - 1) + 1 = k
          BY <1>3, <2>1, <2>4, <4>4
        <5>2. r[k - 1] = l
          BY <2>4, <4>1, <5>1
        <5>. QED
          BY <2>4, <5>1, <5>2, EntryAt
      <4>. QED
        BY <1>3, <2>1, <4>2, <4>3, <4>4
    <3>. QED
      BY <3>1, <3>2
  <2>. QED
    BY <1>3, <2>3, <2>4, <2>6, <2>7
<1>. QED
  BY <1>4, <1>5

(* A level that replaces the one with its price. *)
LEMMA ReplaceRanked ==
  ASSUME NEW side \in Seq(BookLevels), NEW bid \in BOOLEAN, Ranked(side, bid),
         NEW level \in BookLevels, NEW at \in 1 .. Len(side), side[at].price = level.price
  PROVE  LET r == [side EXCEPT ![at] = level]
         IN  /\ r \in Seq(BookLevels)
             /\ Len(r) = Len(side)
             /\ Ranked(r, bid)
             /\ Entries(r) = Quote(Entries(side), level)
<1>1. PICK r : r = [side EXCEPT ![at] = level]
  OBVIOUS
<1>2. /\ r \in Seq(BookLevels)
      /\ Len(r) = Len(side)
      /\ \A j \in 1 .. Len(side) : r[j] = IF j = at THEN level ELSE side[j]
  <2>1. /\ [side EXCEPT ![at] = level] \in Seq(BookLevels)
        /\ Len([side EXCEPT ![at] = level]) = Len(side)
        /\ \A j \in 1 .. Len(side) : [side EXCEPT ![at] = level][j] = IF j = at THEN level ELSE side[j]
    BY ExceptSeq
  <2>. QED
    BY <1>1, <2>1, Zenon
<1>3. \A j \in 1 .. Len(side) : r[j].price = side[j].price
  BY <1>2
<1>4. Ranked(r, bid)
  BY <1>2, <1>3 DEF Ranked
<1>5. Entries(r) = Quote(Entries(side), level)
  <2>1. ASSUME NEW l, l \in Entries(r) PROVE l \in Quote(Entries(side), level)
    <3>1. PICK j \in 1 .. Len(side) : r[j] = l
      BY <1>2, <2>1, EntryAt
    <3>2. CASE j = at
      BY <1>2, <3>1, <3>2 DEF Quote
    <3>3. CASE j # at
      <4>1. l = side[j] /\ side[j].price # side[at].price
        BY <1>2, <3>1, <3>3, RankedOnce
      <4>. QED
        BY <4>1, EntryAt DEF Quote
    <3>. QED
      BY <3>2, <3>3
  <2>2. ASSUME NEW l, l \in Quote(Entries(side), level) PROVE l \in Entries(r)
    <3>1. CASE l = level
      <4>1. r[at] = l
        BY <1>2, <3>1
      <4>. QED
        BY <1>2, <4>1, EntryAt
    <3>2. CASE l \in Entries(side) /\ l.price # level.price
      <4>1. PICK j \in 1 .. Len(side) : side[j] = l
        BY <3>2, EntryAt
      <4>2. r[j] = l
        BY <1>2, <3>2, <4>1
      <4>. QED
        BY <1>2, <4>2, EntryAt
    <3>. QED
      BY <2>2, <3>1, <3>2 DEF Quote
  <2>. QED
    BY <2>1, <2>2
<1>. QED
  BY <1>1, <1>2, <1>4, <1>5

(* A side that fits is kept whole. *)
LEMMA BestOfFew ==
  ASSUME is_bid \in BOOLEAN, NEW S \in SUBSET BookLevels, IsFiniteSet(S), Cardinality(S) <= BookDepth
  PROVE  BestLevels(S) = S
<1>1. ASSUME NEW l \in S
      PROVE  Cardinality({m \in S : BookBetter(is_bid, m.price, l.price)}) < BookDepth
  <2> DEFINE B == {m \in S : BookBetter(is_bid, m.price, l.price)}
  <2>1. B \in SUBSET S /\ l \notin B
    BY LevelPrices, BetterOrder
  <2>2. IsFiniteSet(B) /\ Cardinality(B) <= Cardinality(S) /\ (Cardinality(S) = Cardinality(B) => S = B)
    BY <2>1, FS_Subset
  <2>3. Cardinality(B) \in Nat /\ Cardinality(S) \in Nat
    BY <2>2, FS_CardinalityType
  <2>. QED
    BY <2>1, <2>2, <2>3, BookDepthAssumption
<1>. QED
  BY <1>1 DEF BestLevels

(* A side with one level too many loses its worst. *)
LEMMA BestDropsWorst ==
  ASSUME is_bid \in BOOLEAN, NEW S \in SUBSET BookLevels, IsFiniteSet(S),
         NEW w \in S, \A l \in S \ {w} : BookBetter(is_bid, l.price, w.price),
         Cardinality(S \ {w}) = BookDepth
  PROVE  BestLevels(S) = S \ {w}
<1> DEFINE Above(l) == {m \in S : BookBetter(is_bid, m.price, l.price)}
<1>1. IsFiniteSet(S \ {w})
  BY FS_RemoveElement
<1>2. Above(w) = S \ {w}
  BY LevelPrices, BetterOrder
<1>3. ASSUME NEW l \in S \ {w} PROVE Cardinality(Above(l)) < BookDepth
  <2>1. w \notin Above(l) /\ l \notin Above(l)
    <3>1. l.price \in Nat /\ w.price \in Nat /\ BookBetter(is_bid, l.price, w.price)
      BY LevelPrices
    <3>. QED
      BY <3>1, BetterOrder
  <2>2. Above(l) \in SUBSET (S \ {w}) /\ S \ {w} # Above(l)
    BY <2>1
  <2>3. /\ IsFiniteSet(Above(l)) /\ Cardinality(Above(l)) <= Cardinality(S \ {w})
        /\ (Cardinality(S \ {w}) = Cardinality(Above(l)) => S \ {w} = Above(l))
    BY <1>1, <2>2, FS_Subset
  <2>4. Cardinality(Above(l)) \in Nat
    BY <2>3, FS_CardinalityType
  <2>. QED
    BY <2>2, <2>3, <2>4, BookDepthAssumption
<1>4. BestLevels(S) = {l \in S : Cardinality(Above(l)) < BookDepth}
  BY DEF BestLevels
<1>5. ~ (Cardinality(Above(w)) < BookDepth)
  BY <1>2, BookDepthAssumption
<1>. HIDE DEF Above
<1>. QED
  BY <1>3, <1>4, <1>5

LEMMA EntriesAreLevels ==
  ASSUME NEW side \in Seq(BookLevels)
  PROVE  Entries(side) \in SUBSET BookLevels
  BY SideFacts, EntryAt

(* insert_sorted, told the right side, keeps the best levels; a full side   *)
(* that has the price already is the exception.                             *)
LEMMA InsertSortedIsBest ==
  ASSUME is_bid \in BOOLEAN, NEW side \in Seq(BookLevels), Ranked(side, is_bid),
         Len(side) <= BookDepth, NEW level \in BookLevels,
         ~ (Len(side) = BookDepth /\ HasPrice(Entries(side), level.price))
  PROVE  LET r == InsertSorted(side, level, is_bid)
         IN  /\ r \in Seq(BookLevels)
             /\ Len(r) <= BookDepth
             /\ Ranked(r, is_bid)
             /\ Entries(r) = BestLevels(Quote(Entries(side), level))
<1>1. Len(side) \in Nat /\ BookDepth \in Nat /\ BookDepth >= 1 /\ level.price \in Nat
      /\ \A i \in 1 .. Len(side) : side[i] \in BookLevels /\ side[i].price \in Nat
  BY SideFacts, LevelPrices, BookDepthAssumption
<1>2. CASE HasPrice(Entries(side), level.price)
  <2>1. ~(Len(side) >= BookDepth)
    BY <1>1, <1>2
  <2>2. PICK k \in 1 .. Len(side) : side[k].price = level.price
    BY <1>2, EntryAt DEF HasPrice
  <2>3. PICK pos : pos = InsertionPoint(side, level.price, is_bid)
    OBVIOUS
  <2>4. /\ pos \in 1 .. Len(side) + 1
        /\ \A i \in 1 .. Len(side) : i < pos => BookBetter(is_bid, side[i].price, level.price)
        /\ pos <= Len(side) => ~BookBetter(is_bid, side[pos].price, level.price)
    BY <2>3, InsertionPointFacts
  <2>5. ~(k < pos)
    BY <1>1, <2>2, <2>4, BetterOrder
  <2>6. pos \in 1 .. Len(side)
    BY <1>1, <2>2, <2>4, <2>5
  <2>7. ~(pos < k)
    BY <1>1, <2>2, <2>4, <2>6 DEF Ranked
  <2>8. pos = k
    BY <1>1, <2>5, <2>6, <2>7
  <2>9. InsertSorted(side, level, is_bid) = [side EXCEPT ![k] = level]
    <3>1. InsertionPoint(side, level.price, is_bid) = k /\ k <= Len(side)
      BY <1>1, <2>3, <2>8
    <3>. QED
      BY <2>1, <2>2, <3>1 DEF InsertSorted
  <2>10. PICK r : r = [side EXCEPT ![k] = level]
    OBVIOUS
  <2>11. r \in Seq(BookLevels) /\ Len(r) = Len(side) /\ Ranked(r, is_bid)
         /\ Entries(r) = Quote(Entries(side), level)
    BY <2>2, <2>10, ReplaceRanked
  <2>12. BestLevels(Entries(r)) = Entries(r)
    BY <2>11, RankedSize, EntriesAreLevels, BestOfFew
  <2>. QED
    BY <2>9, <2>10, <2>11, <2>12
<1>3. CASE ~HasPrice(Entries(side), level.price)
  <2>1. Quote(Entries(side), level) = Entries(side) \cup {level}
    BY <1>3 DEF HasPrice, Quote
  <2>2. IsFiniteSet(Entries(side)) /\ Cardinality(Entries(side)) = Len(side)
        /\ Entries(side) \in SUBSET BookLevels /\ level \notin Entries(side)
    BY <1>3, RankedSize, EntriesAreLevels DEF HasPrice
  <2>3. ASSUME NEW kept \in Seq(BookLevels), Ranked(kept, is_bid), Len(kept) < BookDepth,
               ~HasPrice(Entries(kept), level.price)
        PROVE  LET pos == InsertionPoint(kept, level.price, is_bid)
                   r   == InsertAt(kept, pos, level)
               IN  /\ r \in Seq(BookLevels) /\ Len(r) <= BookDepth /\ Ranked(r, is_bid)
                   /\ Entries(r) = Entries(kept) \cup {level}
                   /\ ~(pos <= Len(kept) /\ kept[pos].price = level.price)
    <3>1. PICK pos : pos = InsertionPoint(kept, level.price, is_bid)
      OBVIOUS
    <3>2. PICK r : r = InsertAt(kept, pos, level)
      OBVIOUS
    <3>3. r \in Seq(BookLevels) /\ Len(r) = Len(kept) + 1 /\ Ranked(r, is_bid)
          /\ Entries(r) = Entries(kept) \cup {level}
      BY <2>3, <3>1, <3>2, InsertRanked
    <3>4. Len(kept) \in Nat
      BY SideFacts
    <3>5. pos \in 1 .. Len(kept) + 1
      BY <3>1, InsertionPointFacts
    <3>6. ~(pos <= Len(kept) /\ kept[pos].price = level.price)
      BY <2>3, <3>4, <3>5, EntryAt DEF HasPrice
    <3>. QED
      BY <1>1, <2>3, <3>1, <3>2, <3>3, <3>4, <3>6
  <2>4. CASE Len(side) < BookDepth
    <3>1. PICK pos : pos = InsertionPoint(side, level.price, is_bid)
      OBVIOUS
    <3>2. PICK r : r = InsertAt(side, pos, level)
      OBVIOUS
    <3>3. /\ r \in Seq(BookLevels) /\ Len(r) <= BookDepth /\ Ranked(r, is_bid)
          /\ Entries(r) = Entries(side) \cup {level}
          /\ ~(pos <= Len(side) /\ side[pos].price = level.price)
      BY <1>3, <2>3, <2>4, <3>1, <3>2
    <3>4. ~(Len(side) >= BookDepth)
      BY <1>1, <2>4
    <3>5. InsertSorted(side, level, is_bid) = r
      BY <3>1, <3>2, <3>3, <3>4 DEF InsertSorted
    <3>6. BestLevels(Entries(r)) = Entries(r)
      BY <3>3, RankedSize, EntriesAreLevels, BestOfFew
    <3>. QED
      BY <2>1, <3>3, <3>5, <3>6
  <2>5. CASE Len(side) = BookDepth
    <3>1. PICK n : n = Len(side)
      OBVIOUS
    <3>2. n \in 1 .. Len(side) /\ Last(side) = side[n] /\ Len(side) >= BookDepth
      BY <1>1, <2>5, <3>1 DEF Last
    <3>3. side[n] \in Entries(side) /\ side[n].price # level.price /\ side[n] # level
          /\ side[n].price \in Nat
      BY <1>1, <1>3, <3>2, EntryAt DEF HasPrice
    <3>4. \A l \in Entries(side) : l = side[n] \/ BookBetter(is_bid, l.price, side[n].price)
      <4> SUFFICES ASSUME NEW l \in Entries(side)
                   PROVE  l = side[n] \/ BookBetter(is_bid, l.price, side[n].price)
        OBVIOUS
      <4>1. PICK i \in 1 .. Len(side) : side[i] = l
        BY EntryAt
      <4>2. i = n \/ i < n
        BY <1>1, <3>1
      <4>. QED
        BY <3>2, <4>1, <4>2 DEF Ranked
    <3> DEFINE S == Entries(side) \cup {level}
    <3>5. S \in SUBSET BookLevels /\ IsFiniteSet(S) /\ Cardinality(S) = Len(side) + 1
      BY <2>2, FS_AddElement
    <3>6. CASE ~BookBetter(is_bid, level.price, Last(side).price)
      <4>1. BookBetter(is_bid, side[n].price, level.price)
        BY <1>1, <3>2, <3>3, <3>6, BetterOrder
      <4>2. S \ {level} = Entries(side)
        BY <2>2
      <4>3. \A l \in S \ {level} : BookBetter(is_bid, l.price, level.price)
        <5> SUFFICES ASSUME NEW l \in Entries(side) PROVE BookBetter(is_bid, l.price, level.price)
          BY <4>2
        <5>1. l.price \in Nat
          BY <2>2, LevelPrices
        <5>. QED
          BY <1>1, <3>3, <3>4, <4>1, <5>1, BetterTransitive
      <4>4. Cardinality(S \ {level}) = BookDepth
        BY <2>2, <2>5, <4>2
      <4>5. BestLevels(S) = S \ {level}
        BY <3>5, <4>3, <4>4, BestDropsWorst
      <4>6. InsertSorted(side, level, is_bid) = side
        BY <3>2, <3>6 DEF InsertSorted
      <4>. QED
        BY <2>1, <4>2, <4>5, <4>6
    <3>7. CASE BookBetter(is_bid, level.price, Last(side).price)
      <4>1. PICK kept : kept = Front(side)
        OBVIOUS
      <4>2. /\ kept \in Seq(BookLevels) /\ Len(kept) = Len(side) - 1
            /\ \A i \in 1 .. Len(side) - 1 : kept[i] = side[i]
        <5>1. Len(side) > 0
          BY <1>1, <2>5
        <5>2. /\ Front(side) \in Seq(BookLevels) /\ Len(Front(side)) = Len(side) - 1
              /\ \A i \in 1 .. Len(side) - 1 : Front(side)[i] = side[i]
          BY <5>1, FrontFacts
        <5>. QED
          BY <4>1, <5>2, Zenon
      <4>3. Ranked(kept, is_bid)
        <5> SUFFICES ASSUME NEW i \in 1 .. Len(kept), NEW j \in 1 .. Len(kept), i < j
                     PROVE  BookBetter(is_bid, kept[i].price, kept[j].price)
          BY DEF Ranked
        <5>1. i \in 1 .. Len(side) /\ j \in 1 .. Len(side) /\ kept[i] = side[i] /\ kept[j] = side[j]
          BY <1>1, <4>2
        <5>. QED
          BY <5>1 DEF Ranked
      <4>4. Entries(kept) = Entries(side) \ {side[n]}
        <5>1. ASSUME NEW l, l \in Entries(kept) PROVE l \in Entries(side) /\ l # side[n]
          <6>1. PICK i \in 1 .. Len(kept) : kept[i] = l
            BY <4>2, <5>1, EntryAt
          <6>2. i \in 1 .. Len(side) /\ i # n /\ side[i] = l
            BY <1>1, <3>1, <4>2, <6>1
          <6>3. l # side[n]
            BY <3>2, <6>2, RankedOnce
          <6>. QED
            BY <6>2, <6>3, EntryAt
        <5>2. ASSUME NEW l, l \in Entries(side), l # side[n] PROVE l \in Entries(kept)
          <6>1. PICK i \in 1 .. Len(side) : side[i] = l
            BY <5>2, EntryAt
          <6>2. i \in 1 .. Len(kept) /\ kept[i] = l
            BY <1>1, <3>1, <4>2, <5>2, <6>1
          <6>. QED
            BY <4>2, <6>2, EntryAt
        <5>. QED
          BY <5>1, <5>2
      <4>5. ~HasPrice(Entries(kept), level.price) /\ Len(kept) < BookDepth
        BY <1>1, <1>3, <2>5, <4>2, <4>4 DEF HasPrice
      <4>6. PICK pos : pos = InsertionPoint(kept, level.price, is_bid)
        OBVIOUS
      <4>7. PICK r : r = InsertAt(kept, pos, level)
        OBVIOUS
      <4>8. /\ r \in Seq(BookLevels) /\ Len(r) <= BookDepth /\ Ranked(r, is_bid)
            /\ Entries(r) = Entries(kept) \cup {level}
            /\ ~(pos <= Len(kept) /\ kept[pos].price = level.price)
        BY <2>3, <4>2, <4>3, <4>5, <4>6, <4>7
      <4>9. InsertSorted(side, level, is_bid) = r
        BY <3>2, <3>7, <4>1, <4>6, <4>7, <4>8 DEF InsertSorted
      <4>10. S \ {side[n]} = Entries(r)
        BY <3>3, <4>4, <4>8
      <4>11. \A l \in S \ {side[n]} : BookBetter(is_bid, l.price, side[n].price)
        BY <3>2, <3>4, <3>7
      <4>12. Cardinality(S \ {side[n]}) = BookDepth
        <5>1. side[n] \in S
          BY <3>3
        <5>2. Cardinality(S \ {side[n]}) = Cardinality(S) - 1
          BY <3>5, <5>1, FS_RemoveElement
        <5>. QED
          BY <1>1, <2>5, <3>5, <5>2
      <4>13. BestLevels(S) = S \ {side[n]}
        BY <3>3, <3>5, <4>11, <4>12, BestDropsWorst
      <4>. QED
        BY <2>1, <4>8, <4>9, <4>10, <4>13
    <3>. QED
      BY <3>6, <3>7
  <2>. QED
    BY <1>1, <2>4, <2>5
<1>. QED
  BY <1>2, <1>3

(* update() on a side of two levels or more knows which side it is. *)
LEMMA InferredRight ==
  ASSUME is_bid \in BOOLEAN, NEW side \in Seq(BookLevels), Ranked(side, is_bid), side # << >>,
         is_bid \/ Len(side) # 1
  PROVE  InferredBid(side) = is_bid
<1>1. Len(side) \in Nat \ {0}
  BY EmptySeq
<1>2. CASE Len(side) = 1
  BY <1>2 DEF InferredBid
<1>3. CASE Len(side) # 1
  <2>1. 1 \in 1 .. Len(side) /\ 2 \in 1 .. Len(side)
    <3>1. PICK n : n = Len(side)
      OBVIOUS
    <3>2. n \in Nat \ {0} /\ n # 1
      BY <1>1, <1>3, <3>1, Zenon
    <3>3. 1 \in 1 .. n /\ 2 \in 1 .. n
      BY <3>2
    <3>. QED
      BY <3>1, <3>3, Zenon
  <2>2. BookBetter(is_bid, side[1].price, side[2].price)
    BY <2>1 DEF Ranked
  <2>3. side[1].price \in Nat /\ side[2].price \in Nat
    BY <2>1, SideFacts, LevelPrices
  <2>. QED
    BY <1>3, <2>2, <2>3 DEF BookBetter, InferredBid
<1>. QED
  BY <1>2, <1>3

LEMMA UpdateIsBest ==
  ASSUME is_bid \in BOOLEAN, NEW side \in Seq(BookLevels), Ranked(side, is_bid),
         Len(side) <= BookDepth, NEW level \in BookLevels,
         ~ (~is_bid /\ Len(side) = 1 /\ level.quantity > 0 /\ ~HasPrice(Entries(side), level.price))
  PROVE  LET r == UpdateLevel(side, level)
         IN  /\ r \in Seq(BookLevels)
             /\ Len(r) <= BookDepth
             /\ Ranked(r, is_bid)
             /\ Entries(r) = IF level.quantity > 0 THEN BestLevels(Quote(Entries(side), level))
                             ELSE {l \in Entries(side) : l.price # level.price}
<1>1. PICK at : at = FirstPriced(side, level.price)
  OBVIOUS
<1>2. /\ at \in 0 .. Len(side)
      /\ at # 0 => side[at].price = level.price
      /\ at = 0 => \A i \in 1 .. Len(side) : side[i].price # level.price
  BY <1>1, FirstPricedFacts
<1>3. Len(side) \in Nat /\ BookDepth \in Nat /\ BookDepth >= 1 /\ level.quantity \in Nat
  <2>1. Len(side) \in Nat
    BY SideFacts
  <2>2. level.quantity \in Nat
    BY LevelQuantities
  <2>. QED
    BY <2>1, <2>2, BookDepthAssumption
<1>4. CASE at # 0 /\ level.quantity > 0
  <2>1. PICK r : r = [side EXCEPT ![at] = level]
    OBVIOUS
  <2>2. UpdateLevel(side, level) = r
    BY <1>1, <1>3, <1>4, <2>1 DEF UpdateLevel
  <2>3. at \in 1 .. Len(side) /\ side[at].price = level.price
    BY <1>2, <1>3, <1>4
  <2>4. r \in Seq(BookLevels) /\ Len(r) = Len(side) /\ Ranked(r, is_bid)
        /\ Entries(r) = Quote(Entries(side), level)
    BY <2>1, <2>3, ReplaceRanked
  <2>5. BestLevels(Entries(r)) = Entries(r)
    BY <2>4, RankedSize, EntriesAreLevels, BestOfFew
  <2>. QED
    BY <1>4, <2>2, <2>4, <2>5
<1>5. CASE at # 0 /\ level.quantity = 0
  <2>1. PICK r : r = RemoveLevel(side, level.price)
    OBVIOUS
  <2>2. UpdateLevel(side, level) = r
    BY <1>1, <1>5, <2>1 DEF UpdateLevel
  <2>3. /\ r \in Seq(BookLevels) /\ Len(r) <= Len(side) /\ Ranked(r, is_bid)
        /\ Entries(r) = {l \in Entries(side) : l.price # level.price}
    BY <2>1, RemoveRanked
  <2>4. Len(r) <= BookDepth
    BY <1>3, <2>3, SideFacts
  <2>. QED
    BY <1>5, <2>2, <2>3, <2>4
<1>6. CASE at = 0
  <2>1. ~HasPrice(Entries(side), level.price)
    BY <1>2, <1>6, EntryAt DEF HasPrice
  <2>2. CASE level.quantity = 0
    <3>1. UpdateLevel(side, level) = side
      BY <1>1, <1>6, <2>2 DEF UpdateLevel
    <3>2. {l \in Entries(side) : l.price # level.price} = Entries(side)
      BY <2>1 DEF HasPrice
    <3>. QED
      BY <2>2, <3>1, <3>2
  <2>3. CASE level.quantity > 0 /\ side = << >>
    <3>1. UpdateLevel(side, level) = <<level>>
      BY <1>1, <1>3, <1>6, <2>3 DEF UpdateLevel
    <3>2. <<level>> \in Seq(BookLevels) /\ Len(<<level>>) = 1 /\ <<level>>[1] = level
      OBVIOUS
    <3>3. Ranked(<<level>>, is_bid)
      BY <3>2 DEF Ranked
    <3>4. Entries(<<level>>) = {level} /\ Entries(side) = {}
      BY <2>3 DEF Entries
    <3>5. Quote(Entries(side), level) = {level}
      BY <3>4 DEF Quote
    <3>6. BestLevels({level}) = {level}
      <4>1. IsFiniteSet({level}) /\ Cardinality({level}) = 1
        BY FS_Singleton
      <4>. QED
        BY <1>3, <4>1, BestOfFew
    <3>. QED
      BY <1>3, <2>3, <3>1, <3>2, <3>3, <3>4, <3>5, <3>6
  <2>4. CASE level.quantity > 0 /\ side # << >>
    <3>1. InferredBid(side) = is_bid
      BY <2>1, <2>4, InferredRight
    <3>2. UpdateLevel(side, level) = InsertSorted(side, level, is_bid)
      BY <1>1, <1>3, <1>6, <2>4, <3>1 DEF UpdateLevel
    <3>3. PICK r : r = InsertSorted(side, level, is_bid)
      OBVIOUS
    <3>4. /\ r \in Seq(BookLevels) /\ Len(r) <= BookDepth /\ Ranked(r, is_bid)
          /\ Entries(r) = BestLevels(Quote(Entries(side), level))
      BY <2>1, <3>3, InsertSortedIsBest
    <3>. QED
      BY <2>4, <3>2, <3>3, <3>4
  <2>. QED
    BY <1>3, <2>2, <2>3, <2>4
<1>. QED
  BY <1>3, <1>4, <1>5, <1>6

LEMMA BookInitIInv == BookInit => BookIInv
<1> SUFFICES ASSUME BookInit PROVE BookIInv
  OBVIOUS
<1>1. << >> \in Seq(BookLevels) /\ Len(<< >>) = 0
  BY EmptySeq
<1>2. Entries(<< >>) = {}
  BY DEF Entries
<1>3. Ranked(<< >>, is_bid)
  BY <1>1 DEF Ranked
<1>. QED
  BY <1>1, <1>2, <1>3, BookDepthAssumption DEF BookInit, BookIInv

LEMMA BookNextIInv ==
  ASSUME BookIInv, [BookNext]_bookVars
  PROVE  BookIInv'
<1>1. CASE UNCHANGED bookVars
  BY <1>1 DEF bookVars, BookIInv, Ranked, Entries
<1>2. ASSUME NEW p \in BookPrices, NEW q \in BookQuantities, BookInsert(BookLevel(p, q))
      PROVE  BookIInv'
  <2>1. PICK level : level = BookLevel(p, q)
    OBVIOUS
  <2>2. level \in BookLevels
    BY <2>1 DEF BookLevel, BookLevels
  <2>3. /\ levels' = InsertSorted(levels, level, is_bid) /\ is_bid' = is_bid
        /\ quoted' = BestLevels(Quote(quoted, level))
        /\ ~misled' => ~misled /\ ~(Len(levels) = BookDepth /\ HasPrice(quoted, level.price))
    BY <1>2, <2>1 DEF BookInsert
  <2>4. ASSUME ~misled'
        PROVE  /\ levels' \in Seq(BookLevels) /\ Len(levels') <= BookDepth
               /\ Ranked(levels', is_bid) /\ Entries(levels') = quoted'
    <3>1. /\ is_bid \in BOOLEAN /\ levels \in Seq(BookLevels) /\ Len(levels) <= BookDepth
          /\ Ranked(levels, is_bid) /\ Entries(levels) = quoted
      BY <2>3, <2>4 DEF BookIInv
    <3>. QED
      BY <2>2, <2>3, <2>4, <3>1, InsertSortedIsBest
  <2>. QED
    BY <2>3, <2>4 DEF BookIInv, Ranked, Entries
<1>3. ASSUME NEW p \in BookPrices, NEW q \in BookQuantities \cup {0}, BookUpdate(BookLevel(p, q))
      PROVE  BookIInv'
  <2>1. PICK level : level = BookLevel(p, q)
    OBVIOUS
  <2>2. level \in BookLevels
    BY <2>1 DEF BookLevel, BookLevels
  <2>3. /\ levels' = UpdateLevel(levels, level) /\ is_bid' = is_bid
        /\ quoted' = IF level.quantity > 0 THEN BestLevels(Quote(quoted, level))
                     ELSE {l \in quoted : l.price # level.price}
        /\ ~misled' => /\ ~misled
                       /\ ~ (~is_bid /\ Len(levels) = 1 /\ level.quantity > 0
                                     /\ ~HasPrice(quoted, level.price))
    BY <1>3, <2>1 DEF BookUpdate
  <2>4. ASSUME ~misled'
        PROVE  /\ levels' \in Seq(BookLevels) /\ Len(levels') <= BookDepth
               /\ Ranked(levels', is_bid) /\ Entries(levels') = quoted'
    <3>1. /\ is_bid \in BOOLEAN /\ levels \in Seq(BookLevels) /\ Len(levels) <= BookDepth
          /\ Ranked(levels, is_bid) /\ Entries(levels) = quoted
      BY <2>3, <2>4 DEF BookIInv
    <3>. QED
      BY <2>2, <2>3, <2>4, <3>1, UpdateIsBest
  <2>. QED
    BY <2>3, <2>4 DEF BookIInv, Ranked, Entries
<1>4. ASSUME NEW p \in BookPrices, BookRemove(p)
      PROVE  BookIInv'
  <2>1. /\ levels' = RemoveLevel(levels, p) /\ is_bid' = is_bid /\ misled' = misled
        /\ quoted' = {l \in quoted : l.price # p}
    BY <1>4 DEF BookRemove
  <2>2. ASSUME ~misled'
        PROVE  /\ levels' \in Seq(BookLevels) /\ Len(levels') <= BookDepth
               /\ Ranked(levels', is_bid) /\ Entries(levels') = quoted'
    <3>1. /\ is_bid \in BOOLEAN /\ levels \in Seq(BookLevels) /\ Len(levels) <= BookDepth
          /\ Ranked(levels, is_bid) /\ Entries(levels) = quoted
      BY <2>1, <2>2 DEF BookIInv
    <3>2. /\ levels' \in Seq(BookLevels) /\ Len(levels') <= Len(levels)
          /\ Ranked(levels', is_bid) /\ Entries(levels') = quoted'
      BY <2>1, <3>1, RemoveRanked
    <3>3. Len(levels') \in Nat /\ Len(levels) \in Nat /\ BookDepth \in Nat
      BY <3>1, <3>2, SideFacts, BookDepthAssumption
    <3>. QED
      BY <3>1, <3>2, <3>3
  <2>. QED
    BY <2>1, <2>2 DEF BookIInv, Ranked, Entries
<1>5. CASE BookClear
  <2>1. levels' = << >> /\ quoted' = {} /\ is_bid' = is_bid
    BY <1>5 DEF BookClear
  <2>2. levels' \in Seq(BookLevels) /\ Len(levels') = 0
    BY <2>1, EmptySeq
  <2>3. Entries(levels)' = {} /\ Ranked(levels, is_bid)'
    BY <2>1, <2>2 DEF Entries, Ranked
  <2>. QED
    BY <2>1, <2>2, <2>3, BookDepthAssumption DEF BookIInv
<1>. QED
  BY <1>1, <1>2, <1>3, <1>4, <1>5 DEF BookNext

(* A side of a book holds the best MAX_DEPTH of its quotes, best first and  *)
(* each price once, after every sequence of insert_sorted, update, remove   *)
(* and clear that meets neither of the two cases at book.cpp:77 and :53.    *)
(* For every depth and every set of prices and quantities.                  *)
THEOREM BookIsReference == BookSpec => []BookMatchesReference
<1>1. BookIInv => BookMatchesReference
  <2> SUFFICES ASSUME BookIInv, ~misled
               PROVE  /\ {levels[i] : i \in DOMAIN levels} = quoted
                      /\ \A i \in 1 .. Len(levels) - 1 :
                            BookBetter(is_bid, levels[i].price, levels[i + 1].price)
    BY DEF BookMatchesReference
  <2>1. levels \in Seq(BookLevels) /\ Ranked(levels, is_bid) /\ Entries(levels) = quoted
    BY DEF BookIInv
  <2>2. ASSUME NEW i \in 1 .. Len(levels) - 1
        PROVE  BookBetter(is_bid, levels[i].price, levels[i + 1].price)
    <3>1. i \in 1 .. Len(levels) /\ i + 1 \in 1 .. Len(levels) /\ i < i + 1
      BY <2>1, SideFacts
    <3>. QED
      BY <2>1, <3>1 DEF Ranked
  <2>. QED
    BY <2>1, <2>2 DEF Entries
<1>. QED
  BY <1>1, BookInitIInv, BookNextIInv, PTL DEF BookSpec

-----------------------------------------------------------------------------
(* SPSCQueue.  Behind the two indices are two positions: the next one to   *)
(* read and the next one to publish.                                       *)

SpscRead  == IF popping.pc = "idle" THEN drawn ELSE drawn - 1
SpscWrite == IF pushing.pc = "idle" THEN Len(tape) ELSE Len(tape) - 1

\* The slot that a position uses.
RingSlot(x) == x % SpscCapacity

SpscTypeOK ==
    /\ buffer \in [0 .. SpscCapacity - 1 -> SpscItems \cup {SpscNoItem}]
    /\ pushing \in [pc : {"idle", "write", "publish"}, item : SpscItems \cup {SpscNoItem}]
    /\ popping \in [pc : {"idle", "move", "release"}, item : SpscItems \cup {SpscNoItem}]
    /\ tape \in Seq(SpscItems)
    /\ drawn \in Nat

\* The indices are the positions modulo the ring's size, and the positions
\* are never a full lap apart.
SpscIndices ==
    /\ head = RingSlot(SpscRead)
    /\ tail = RingSlot(SpscWrite)
    /\ 0 <= SpscRead
    /\ drawn <= SpscWrite
    /\ Len(tape) <= SpscRead + SpscCapacity - 1

\* Every published position that has not been moved out holds its item, and
\* so do the locals of the calls under way.
SpscContents ==
    /\ \A x \in Nat :
          x < SpscWrite /\ (IF popping.pc = "release" THEN drawn ELSE SpscRead) <= x
             => buffer[RingSlot(x)] = tape[x + 1]
    /\ pushing.pc # "idle" => pushing.item = tape[Len(tape)]
    /\ pushing.pc = "publish" => buffer[tail] = tape[Len(tape)]
    /\ popping.pc = "release" => popping.item = tape[drawn]

SpscIInv == SpscTypeOK /\ SpscIndices /\ SpscContents

(* The order of the positions, and what the indices are, for the steps     *)
(* below.                                                                  *)
LEMMA SpscOrder ==
  ASSUME SpscIInv
  PROVE  /\ SpscCapacity \in Nat /\ SpscCapacity > 1
         /\ SpscRead \in Nat /\ SpscWrite \in Nat /\ Len(tape) \in Nat /\ drawn \in Nat
         /\ SpscRead <= SpscWrite /\ SpscWrite <= Len(tape) /\ Len(tape) < SpscRead + SpscCapacity
  BY SpscCapacityAssumption DEF SpscIInv, SpscTypeOK, SpscIndices, SpscRead, SpscWrite

LEMMA SpscFacts ==
  ASSUME SpscIInv
  PROVE  /\ SpscCapacity \in Nat /\ SpscCapacity > 1
         /\ SpscRead \in Nat /\ SpscWrite \in Nat /\ Len(tape) \in Nat /\ drawn \in Nat
         /\ head = RingSlot(SpscRead) /\ tail = RingSlot(SpscWrite)
         /\ head \in 0 .. SpscCapacity - 1 /\ tail \in 0 .. SpscCapacity - 1
         /\ SpscRead <= SpscWrite /\ SpscWrite <= Len(tape) /\ Len(tape) < SpscRead + SpscCapacity
  BY SpscOrder, ModDef DEF SpscIInv, SpscIndices, RingSlot

LEMMA RingSlots == \A x \in Nat : RingSlot(x) \in 0 .. SpscCapacity - 1
  BY SpscCapacityAssumption, ModDef DEF RingSlot

LEMMA SpscInitIInv == SpscInit => SpscIInv
<1> SUFFICES ASSUME SpscInit PROVE SpscIInv
  OBVIOUS
<1>1. SpscRead = 0 /\ SpscWrite = 0 /\ Len(tape) = 0
  BY DEF SpscInit, SpscRead, SpscWrite
<1>2. RingSlot(0) = 0
  BY SpscCapacityAssumption, ModSmall DEF RingSlot
<1>3. SpscTypeOK
  BY DEF SpscInit, SpscTypeOK
<1>4. SpscIndices
  BY <1>1, <1>2, SpscCapacityAssumption DEF SpscInit, SpscIndices
<1>5. SpscContents
  BY <1>1 DEF SpscInit, SpscContents
<1>. QED
  BY <1>3, <1>4, <1>5 DEF SpscIInv

(* Two different positions of the lap that starts at the next one to read   *)
(* have different indices.                                                 *)
LEMMA SpscDistinct ==
  ASSUME SpscIInv, NEW x \in Nat, NEW y \in Nat, x # y,
         SpscRead <= x, x < SpscRead + SpscCapacity,
         SpscRead <= y, y < SpscRead + SpscCapacity
  PROVE  RingSlot(x) # RingSlot(y)
<1>1. /\ x \in Int /\ y \in Int /\ SpscCapacity \in Nat /\ SpscCapacity > 0
      /\ x < y + SpscCapacity /\ y < x + SpscCapacity
  BY SpscOrder
<1>. QED
  BY <1>1, ModInjective DEF RingSlot

(* An accepted push leaves the ring one slot short of full. *)
LEMMA SpscPushHasRoom ==
  ASSUME SpscIInv, SpscPushCheck
  PROVE  Len(tape) + 1 < SpscRead + SpscCapacity
<1>1. /\ SpscWrite = Len(tape) /\ Len(tape) \in Int /\ SpscRead \in Int
      /\ SpscCapacity \in Nat /\ SpscCapacity > 0
      /\ Len(tape) < SpscRead + SpscCapacity
  BY SpscOrder DEF SpscPushCheck, SpscWrite
<1>2. ASSUME Len(tape) + 1 = SpscRead + SpscCapacity PROVE FALSE
  <2>1. Follow(tail) = RingSlot(Len(tape) + 1)
    <3>1. tail = RingSlot(Len(tape))
      BY <1>1, SpscFacts
    <3>. QED
      BY <1>1, <3>1, ModNext DEF Follow, RingSlot
  <2>2. RingSlot(SpscRead + SpscCapacity) = head
    <3>1. head = RingSlot(SpscRead)
      BY SpscFacts
    <3>. QED
      BY <1>1, <3>1, ModShift DEF RingSlot
  <2>. QED
    BY <1>2, <2>1, <2>2 DEF SpscPushCheck
<1>. QED
  BY <1>1, <1>2

LEMMA SpscPushCheckInv == ASSUME SpscIInv, SpscPushCheck PROVE SpscIInv'
<1>1. PICK v \in SpscItems : /\ pushing' = [pc |-> "write", item |-> v]
                             /\ tape' = Append(tape, v)
  BY DEF SpscPushCheck
<1>2. pushing.pc = "idle" /\ UNCHANGED <<head, tail, buffer, popping, drawn>>
  BY DEF SpscPushCheck
<1>3. /\ Len(tape') = Len(tape) + 1 /\ tape'[Len(tape')] = v
      /\ \A x \in 1 .. Len(tape) : tape'[x] = tape[x]
      /\ tape' \in Seq(SpscItems)
  BY <1>1 DEF SpscIInv, SpscTypeOK
<1>4. SpscRead' = SpscRead /\ SpscWrite' = SpscWrite /\ SpscWrite = Len(tape)
  BY <1>1, <1>2, <1>3, SpscOrder DEF SpscRead, SpscWrite
<1>5. SpscTypeOK'
  BY <1>1, <1>2, <1>3 DEF SpscIInv, SpscTypeOK
<1>6. SpscIndices'
  BY <1>2, <1>3, <1>4, SpscPushHasRoom, SpscOrder DEF SpscIInv, SpscIndices
<1>7. SpscContents'
  <2>1. ASSUME NEW x \in Nat, x < SpscWrite',
               (IF popping'.pc = "release" THEN drawn' ELSE SpscRead') <= x
        PROVE  buffer'[RingSlot(x)] = tape'[x + 1]
    <3>1. buffer[RingSlot(x)] = tape[x + 1]
      BY <1>2, <1>4, <2>1 DEF SpscIInv, SpscContents
    <3>. QED
      BY <1>2, <1>3, <1>4, <2>1, <3>1, SpscFacts
  <2>2. popping'.pc = "release" => popping'.item = tape'[drawn']
    <3>1. popping.pc = "release" => drawn \in 1 .. Len(tape)
      BY SpscOrder DEF SpscRead, SpscIInv, SpscIndices
    <3>. QED
      BY <1>2, <1>3, <3>1 DEF SpscIInv, SpscContents
  <2>. QED
    BY <1>1, <1>3, <2>1, <2>2 DEF SpscContents
<1>. QED
  BY <1>5, <1>6, <1>7 DEF SpscIInv

LEMMA SpscPushWriteInv == ASSUME SpscIInv, SpscPushWrite PROVE SpscIInv'
<1>1. /\ pushing.pc = "write" /\ pushing' = [pushing EXCEPT !.pc = "publish"]
      /\ buffer' = [buffer EXCEPT ![tail] = pushing.item]
      /\ UNCHANGED <<head, tail, popping, tape, drawn>>
  BY DEF SpscPushWrite
<1>2. pushing'.pc = "publish" /\ pushing'.item = pushing.item /\ pushing.item = tape[Len(tape)]
  BY <1>1 DEF SpscIInv, SpscTypeOK, SpscContents
<1>3. SpscRead' = SpscRead /\ SpscWrite' = SpscWrite
  BY <1>1, <1>2 DEF SpscRead, SpscWrite
<1>4. SpscTypeOK'
  BY <1>1, SpscFacts DEF SpscIInv, SpscTypeOK
<1>5. SpscIndices'
  BY <1>1, <1>3 DEF SpscIInv, SpscIndices
<1>6. buffer'[tail] = pushing.item
  BY <1>1, SpscFacts DEF SpscIInv, SpscTypeOK
<1>7. ASSUME NEW x \in Nat, x < SpscWrite,
             (IF popping.pc = "release" THEN drawn ELSE SpscRead) <= x
      PROVE  buffer'[RingSlot(x)] = tape[x + 1]
  <2>1. SpscRead <= x /\ x < SpscRead + SpscCapacity
        /\ SpscWrite < SpscRead + SpscCapacity /\ SpscRead <= SpscWrite
    BY <1>7, SpscOrder DEF SpscRead
  <2>2. RingSlot(x) # tail
    BY <1>7, <2>1, SpscDistinct, SpscFacts
  <2>3. buffer'[RingSlot(x)] = buffer[RingSlot(x)]
    BY <1>1, <2>2, SpscFacts, RingSlots DEF SpscIInv, SpscTypeOK
  <2>. QED
    BY <1>7, <2>3 DEF SpscIInv, SpscContents
<1>8. SpscContents'
  BY <1>1, <1>2, <1>3, <1>6, <1>7 DEF SpscIInv, SpscContents
<1>. QED
  BY <1>4, <1>5, <1>8 DEF SpscIInv

LEMMA SpscPushPublishInv == ASSUME SpscIInv, SpscPushPublish PROVE SpscIInv'
<1>1. /\ pushing.pc = "publish" /\ pushing' = [pc |-> "idle", item |-> SpscNoItem]
      /\ tail' = Follow(tail)
      /\ UNCHANGED <<head, buffer, popping, tape, drawn>>
  BY DEF SpscPushPublish
<1>2. /\ SpscRead' = SpscRead /\ SpscWrite' = Len(tape) /\ SpscWrite = Len(tape) - 1
      /\ Len(tape) \in Nat /\ SpscWrite \in Nat
  BY <1>1, SpscOrder DEF SpscRead, SpscWrite
<1>3. SpscTypeOK'
  BY <1>1 DEF SpscIInv, SpscTypeOK
<1>4. tail' = RingSlot(Len(tape))
  <2>1. /\ SpscWrite \in Int /\ SpscCapacity \in Nat /\ SpscCapacity > 0
        /\ tail = RingSlot(SpscWrite) /\ SpscWrite + 1 = Len(tape)
    BY <1>2, SpscFacts
  <2>. QED
    BY <1>1, <2>1, ModNext DEF Follow, RingSlot
<1>5. SpscIndices'
  BY <1>1, <1>2, <1>4, SpscOrder DEF SpscIInv, SpscIndices
<1>6. ASSUME NEW x \in Nat, x < Len(tape),
             (IF popping.pc = "release" THEN drawn ELSE SpscRead) <= x
      PROVE  buffer[RingSlot(x)] = tape[x + 1]
  <2>1. CASE x < SpscWrite
    BY <1>6, <2>1 DEF SpscIInv, SpscContents
  <2>2. CASE x = SpscWrite
    BY <1>1, <1>2, <2>2, SpscFacts DEF SpscIInv, SpscContents
  <2>. QED
    BY <1>2, <1>6, <2>1, <2>2
<1>7. SpscContents'
  BY <1>1, <1>2, <1>6 DEF SpscIInv, SpscContents
<1>. QED
  BY <1>3, <1>5, <1>7 DEF SpscIInv

(* try_pop goes on only with a published position. *)
LEMMA SpscPopHasItem ==
  ASSUME SpscIInv, SpscPopCheck
  PROVE  SpscRead = drawn /\ drawn < SpscWrite
<1>1. SpscRead = drawn
  BY DEF SpscPopCheck, SpscRead
<1>2. SpscRead # SpscWrite
  BY SpscFacts DEF SpscPopCheck
<1>. QED
  BY <1>1, <1>2, SpscFacts

LEMMA SpscPopCheckInv == ASSUME SpscIInv, SpscPopCheck PROVE SpscIInv'
<1>1. /\ popping.pc = "idle" /\ popping' = [popping EXCEPT !.pc = "move"] /\ drawn' = drawn + 1
      /\ UNCHANGED <<head, tail, buffer, pushing, tape>>
  BY DEF SpscPopCheck
<1>2. popping'.pc = "move" /\ drawn' - 1 = drawn /\ drawn \in Nat
  BY <1>1 DEF SpscIInv, SpscTypeOK
<1>3. SpscRead' = drawn /\ SpscWrite' = SpscWrite
  BY <1>1, <1>2 DEF SpscRead, SpscWrite
<1>4. SpscTypeOK'
  BY <1>1 DEF SpscIInv, SpscTypeOK
<1>5. SpscIndices'
  BY <1>1, <1>2, <1>3, SpscPopHasItem, SpscOrder DEF SpscIInv, SpscIndices
<1>6. SpscContents'
  BY <1>1, <1>2, <1>3, SpscPopHasItem DEF SpscIInv, SpscContents
<1>. QED
  BY <1>4, <1>5, <1>6 DEF SpscIInv

(* The item moved out is the one of the position that was taken. *)
LEMMA SpscMovesOldest ==
  ASSUME SpscIInv, popping.pc = "move"
  PROVE  SpscRead = drawn - 1 /\ drawn - 1 \in Nat /\ buffer[head] = tape[drawn]
<1>1. SpscRead = drawn - 1 /\ drawn - 1 \in Nat /\ drawn - 1 < SpscWrite
  BY SpscOrder DEF SpscRead, SpscIInv, SpscIndices
<1>2. buffer[RingSlot(drawn - 1)] = tape[(drawn - 1) + 1]
  BY <1>1 DEF SpscIInv, SpscContents
<1>. QED
  BY <1>1, <1>2, SpscFacts

LEMMA SpscPopMoveInv == ASSUME SpscIInv, SpscPopMove PROVE SpscIInv'
<1>1. /\ popping.pc = "move" /\ popping' = [pc |-> "release", item |-> buffer[head]]
      /\ buffer' = [buffer EXCEPT ![head] = SpscNoItem]
      /\ UNCHANGED <<head, tail, pushing, tape, drawn>>
  BY DEF SpscPopMove
<1>2. SpscRead = drawn - 1 /\ buffer[head] = tape[drawn]
  BY <1>1, SpscMovesOldest
<1>3. SpscRead' = SpscRead /\ SpscWrite' = SpscWrite /\ popping'.pc = "release"
  BY <1>1 DEF SpscRead, SpscWrite
<1>4. SpscTypeOK'
  BY <1>1, SpscFacts DEF SpscIInv, SpscTypeOK
<1>5. SpscIndices'
  BY <1>1, <1>3 DEF SpscIInv, SpscIndices
<1>6. ASSUME NEW x \in Nat, x # SpscRead, SpscRead <= x, x < SpscRead + SpscCapacity
      PROVE  buffer'[RingSlot(x)] = buffer[RingSlot(x)]
  <2>1. SpscRead \in Nat /\ SpscRead <= SpscRead /\ SpscRead < SpscRead + SpscCapacity
    BY SpscOrder
  <2>2. RingSlot(x) # RingSlot(SpscRead)
    BY <1>6, <2>1, SpscDistinct
  <2>. QED
    BY <1>1, <1>6, <2>2, SpscFacts, RingSlots DEF SpscIInv, SpscTypeOK
<1>7. ASSUME NEW x \in Nat, x < SpscWrite, drawn <= x
      PROVE  buffer'[RingSlot(x)] = tape[x + 1]
  <2>1. x # SpscRead /\ SpscRead <= x /\ x < SpscRead + SpscCapacity
    BY <1>2, <1>7, SpscOrder
  <2>2. buffer[RingSlot(x)] = tape[x + 1]
    BY <1>1, <1>7, <2>1 DEF SpscIInv, SpscContents
  <2>. QED
    BY <1>6, <2>1, <2>2
<1>8. pushing.pc = "publish" => buffer'[tail] = buffer[tail]
  <2>1. pushing.pc = "publish" => SpscWrite # SpscRead
    BY <1>2, SpscOrder DEF SpscIInv, SpscIndices
  <2>. QED
    BY <1>6, <2>1, SpscFacts
<1>9. SpscContents'
  BY <1>1, <1>2, <1>3, <1>7, <1>8 DEF SpscIInv, SpscContents
<1>. QED
  BY <1>4, <1>5, <1>9 DEF SpscIInv

LEMMA SpscPopReleaseInv == ASSUME SpscIInv, SpscPopRelease PROVE SpscIInv'
<1>1. /\ popping.pc = "release" /\ popping' = [popping EXCEPT !.pc = "idle"]
      /\ head' = Follow(head)
      /\ UNCHANGED <<tail, buffer, pushing, tape, drawn>>
  BY DEF SpscPopRelease
<1>2. popping'.pc = "idle" /\ SpscRead' = drawn /\ SpscRead = drawn - 1 /\ SpscWrite' = SpscWrite
  BY <1>1 DEF SpscRead, SpscWrite, SpscIInv, SpscTypeOK
<1>3. SpscTypeOK'
  BY <1>1 DEF SpscIInv, SpscTypeOK
<1>4. head' = RingSlot(drawn)
  <2>1. /\ SpscRead \in Int /\ SpscCapacity \in Nat /\ SpscCapacity > 0
        /\ head = RingSlot(SpscRead) /\ SpscRead + 1 = drawn
    BY <1>2, SpscFacts
  <2>. QED
    BY <1>1, <2>1, ModNext DEF Follow, RingSlot
<1>5. SpscIndices'
  BY <1>1, <1>2, <1>4, SpscOrder DEF SpscIInv, SpscIndices
<1>6. SpscContents'
  BY <1>1, <1>2 DEF SpscIInv, SpscContents
<1>. QED
  BY <1>3, <1>5, <1>6 DEF SpscIInv

LEMMA SpscInvariance == SpscSpec => []SpscIInv
<1>1. SpscIInv /\ [SpscNext]_spscVars => SpscIInv'
  <2> SUFFICES ASSUME SpscIInv, [SpscNext]_spscVars PROVE SpscIInv'
    OBVIOUS
  <2>1. CASE UNCHANGED spscVars
    BY <2>1 DEF spscVars, SpscIInv, SpscTypeOK, SpscIndices, SpscContents, SpscRead, SpscWrite
  <2>. QED
    BY <2>1, SpscPushCheckInv, SpscPushWriteInv, SpscPushPublishInv,
       SpscPopCheckInv, SpscPopMoveInv, SpscPopReleaseInv DEF SpscNext
<1>. QED
  BY <1>1, SpscInitIInv, PTL DEF SpscSpec

-----------------------------------------------------------------------------
(* SPSCQueue implements TicketQueue.                                       *)

(* The positions the two threads are busy with, as TicketQueue sees them. *)
SpscWriting == [p \in {SpscProducer} |-> IF pushing.pc # "idle" THEN Len(tape) - 1 ELSE -1]
SpscReading == [c \in {SpscConsumer} |-> IF popping.pc # "idle" THEN drawn - 1 ELSE -1]

LEMMA SpscStepRefines ==
  ASSUME SpscIInv, [SpscNext]_spscVars
  PROVE  [SpscTickets!Next]_(SpscTickets!vars)
<1> USE DEF SpscTickets!None
<1>1. CASE SpscPushCheck
  <2>1. PICK v \in SpscItems : /\ pushing' = [pc |-> "write", item |-> v]
                               /\ tape' = Append(tape, v)
    BY <1>1 DEF SpscPushCheck
  <2>2. /\ Len(tape) < drawn + (SpscCapacity - 1)
        /\ popping.pc # "idle" => Len(tape) - (SpscCapacity - 1) # drawn - 1
    BY <1>1, SpscPushHasRoom, SpscOrder DEF SpscRead
  <2>3. SpscTickets!Room(Len(tape), drawn, SpscTickets!Busy(SpscReading), SpscCapacity - 1)
    BY <2>2 DEF SpscTickets!Room, SpscTickets!Busy, SpscReading
  <2>4. Len(tape') = Len(tape) + 1 /\ Len(tape) \in Nat
    BY <2>1, SpscOrder DEF SpscIInv, SpscTypeOK
  <2>5. SpscTickets!Claim(SpscProducer, v)
    BY <1>1, <2>1, <2>3, <2>4 DEF SpscTickets!Claim, SpscPushCheck, SpscReading
  <2>. QED
    BY <2>5 DEF SpscTickets!Next
<1>2. CASE SpscPushWrite
  BY <1>2 DEF SpscPushWrite, SpscTickets!vars, SpscIInv, SpscTypeOK
<1>3. CASE SpscPushPublish
  <2>1. SpscTickets!Publish(SpscProducer)
    BY <1>3, SpscOrder DEF SpscTickets!Publish, SpscPushPublish, SpscWrite
  <2>. QED
    BY <2>1 DEF SpscTickets!Next
<1>4. CASE SpscPopCheck
  <2>1. /\ drawn < Len(tape)
        /\ pushing.pc # "idle" => drawn # Len(tape) - 1
    BY <1>4, SpscPopHasItem, SpscOrder DEF SpscWrite
  <2>2. SpscTickets!Ready(Len(tape), drawn, SpscTickets!Busy(SpscWriting))
    BY <2>1 DEF SpscTickets!Ready, SpscTickets!Busy, SpscWriting
  <2>3. popping'.pc = "move" /\ popping'.item = popping.item /\ drawn' - 1 = drawn
    BY <1>4 DEF SpscPopCheck, SpscIInv, SpscTypeOK
  <2>4. SpscTickets!Take(SpscConsumer)
    BY <1>4, <2>2, <2>3 DEF SpscTickets!Take, SpscPopCheck, SpscWriting
  <2>. QED
    BY <2>4 DEF SpscTickets!Next
<1>5. CASE SpscPopMove
  <2>1. popping.pc = "move" /\ drawn - 1 \in Nat /\ drawn \in Nat /\ buffer[head] = tape[drawn]
    BY <1>5, SpscMovesOldest, SpscOrder DEF SpscPopMove
  <2>2. SpscTickets!MoveOut(SpscConsumer)
    BY <1>5, <2>1 DEF SpscTickets!MoveOut, SpscPopMove
  <2>. QED
    BY <2>2 DEF SpscTickets!Next
<1>6. CASE SpscPopRelease
  <2>1. /\ popping.pc = "release" /\ popping'.pc = "idle" /\ popping'.item = popping.item
        /\ drawn - 1 \in Nat /\ drawn \in Nat /\ popping.item = tape[drawn]
    BY <1>6, SpscOrder DEF SpscPopRelease, SpscRead, SpscIInv, SpscTypeOK, SpscContents
  <2>2. SpscTickets!Release(SpscConsumer)
    BY <1>6, <2>1 DEF SpscTickets!Release, SpscPopRelease
  <2>. QED
    BY <2>2 DEF SpscTickets!Next
<1>7. CASE UNCHANGED spscVars
  BY <1>7 DEF spscVars, SpscTickets!vars
<1>. QED
  BY <1>1, <1>2, <1>3, <1>4, <1>5, <1>6, <1>7 DEF SpscNext

(* SPSCQueue's two indices, with one slot spared, make a first-in first-out *)
(* queue of Capacity - 1 items, for every capacity and every run of calls.  *)
THEOREM SpscRefinement == SpscSpec => SpscImplementsTicketQueue
<1>1. SpscInit => SpscTickets!Init
  BY DEF SpscInit, SpscTickets!Init, SpscTickets!None
<1>2. SpscIInv /\ [SpscNext]_spscVars => [SpscTickets!Next]_(SpscTickets!vars)
  BY SpscStepRefines
<1>. QED
  BY <1>1, <1>2, SpscInvariance, PTL DEF SpscSpec, SpscImplementsTicketQueue, SpscTickets!Spec

-----------------------------------------------------------------------------
(* MPSCQueue.  try_pop gives a cell back before it advances read_pos_, and *)
(* producers may claim the cell in between: the window of positions whose  *)
(* cells are in use starts at MpscFreed.                                   *)

MpscTaken == IF pop.pc = "idle" THEN read_pos ELSE read_pos + 1
MpscFreed == IF pop.pc = "advance" THEN read_pos + 1 ELSE read_pos
MpscPushing(p) == push[p].pc \in {"write", "publish"}
MpscWindow == MpscFreed .. MpscFreed + MpscCapacity - 1

MpscTypeOK ==
    /\ write_pos \in Nat
    /\ read_pos \in Nat
    /\ cells \in [0 .. MpscCapacity - 1 -> [sequence : Nat, data : MpscItems \cup {MpscNoItem}]]
    /\ push \in [MpscProducers -> [pc : {"idle", "load", "check", "claim", "write", "publish"},
                                   pos : Nat, item : MpscItems \cup {MpscNoItem}]]
    /\ \A p \in MpscProducers : push[p].pc # "idle" => push[p].item \in MpscItems
    /\ pop \in [pc : {"idle", "move", "release", "advance"}, item : MpscItems \cup {MpscNoItem}]
    /\ accepted \in Seq(MpscItems)

MpscBounds ==
    /\ Len(accepted) = write_pos
    /\ MpscTaken <= write_pos
    /\ write_pos <= MpscFreed + MpscCapacity

\* A producer that has claimed a position is alone with its cell.
MpscPushersOwn ==
    /\ \A p \in MpscProducers : MpscPushing(p) =>
          /\ MpscFreed <= push[p].pos /\ push[p].pos < write_pos
          /\ cells[Cell(push[p].pos)].sequence = push[p].pos
          /\ accepted[push[p].pos + 1] = push[p].item
          /\ push[p].pc = "publish" => cells[Cell(push[p].pos)].data = push[p].item
    /\ \A p, q \in MpscProducers : MpscPushing(p) /\ MpscPushing(q) /\ p # q
                                      => push[p].pos # push[q].pos

\* So is the consumer with the cell it is reading.
MpscPopperOwns ==
    /\ pop.pc \in {"move", "release"} => cells[Cell(read_pos)].sequence = read_pos + 1
    /\ pop.pc = "release" => pop.item = accepted[read_pos + 1]

\* What the sequence number of a cell says: free for x, claimed for x, or
\* published with x's item.
MpscCells ==
    \A x \in MpscWindow :
        /\ write_pos <= x => cells[Cell(x)].sequence = x
        /\ x < write_pos => cells[Cell(x)].sequence \in {x, x + 1}
        /\ x < write_pos /\ cells[Cell(x)].sequence = x + 1
             /\ ~(pop.pc = "release" /\ x = read_pos)
             => cells[Cell(x)].data = accepted[x + 1]

\* A check of the sequence stays good as long as write_pos_ stands still.
MpscStaleClaims ==
    \A p \in MpscProducers :
        /\ push[p].pc \in {"check", "claim"} => push[p].pos <= write_pos
        /\ push[p].pc = "claim" /\ push[p].pos = write_pos
             => cells[Cell(write_pos)].sequence = write_pos

\* With a single cell the sequence of a published position is the one the
\* next position waits for: the invariant needs two.
MpscIInv ==
    /\ MpscCapacity >= 2
    /\ MpscTypeOK
    /\ MpscBounds
    /\ MpscPushersOwn
    /\ MpscPopperOwns
    /\ MpscCells
    /\ MpscStaleClaims

(* The arithmetic of the invariant, for the steps below. *)
LEMMA MpscFacts ==
  ASSUME MpscIInv
  PROVE  /\ MpscCapacity \in Nat /\ MpscCapacity >= 2 /\ MpscCapacity > 0
         /\ write_pos \in Nat /\ read_pos \in Nat /\ Len(accepted) = write_pos
         /\ MpscTaken \in Nat /\ MpscFreed \in Nat /\ read_pos <= MpscFreed
         /\ MpscFreed <= MpscTaken /\ MpscTaken <= write_pos
         /\ write_pos <= MpscFreed + MpscCapacity
<1>1. MpscCapacity \in Nat /\ MpscCapacity >= 2 /\ MpscCapacity > 0
  BY MpscCapacityAssumption DEF MpscIInv
<1>3. /\ write_pos \in Nat /\ read_pos \in Nat
      /\ pop.pc = "idle" => MpscTaken = read_pos /\ MpscFreed = read_pos
      /\ pop.pc = "advance" => MpscTaken = read_pos + 1 /\ MpscFreed = read_pos + 1
      /\ pop.pc \notin {"idle", "advance"} => MpscTaken = read_pos + 1 /\ MpscFreed = read_pos
  BY DEF MpscIInv, MpscTypeOK, MpscTaken, MpscFreed
<1>4. /\ MpscTaken \in Nat /\ MpscFreed \in Nat /\ read_pos <= MpscFreed
      /\ MpscFreed <= MpscTaken
  BY <1>3
<1>. QED
  BY <1>1, <1>3, <1>4 DEF MpscIInv, MpscBounds

LEMMA MpscCellType == \A x \in Nat : Cell(x) \in 0 .. MpscCapacity - 1
<1> SUFFICES ASSUME NEW x \in Nat PROVE x % MpscCapacity \in 0 .. MpscCapacity - 1
  BY DEF Cell
<1>. QED
  BY MpscCapacityAssumption, ModDef

(* Positions that are less than a lap apart have different cells. *)
LEMMA MpscDistinct ==
  ASSUME MpscIInv, NEW x \in Nat, NEW y \in Nat, x # y,
         x < y + MpscCapacity, y < x + MpscCapacity
  PROVE  Cell(x) # Cell(y)
<1>1. x \in Int /\ y \in Int /\ MpscCapacity \in Nat /\ MpscCapacity > 0
  BY MpscFacts
<1>. QED
  BY <1>1, ModInjective DEF Cell

LEMMA MpscLap ==
  ASSUME MpscIInv, NEW x \in Nat
  PROVE  Cell(x + MpscCapacity) = Cell(x)
<1>1. x \in Int /\ MpscCapacity \in Nat /\ MpscCapacity > 0
  BY MpscFacts
<1>. QED
  BY <1>1, ModShift DEF Cell

LEMMA MpscInitIInv == ASSUME MpscCapacity >= 2, MpscInit PROVE MpscIInv
<1> USE MpscCapacityAssumption
<1>1. MpscTypeOK /\ MpscTaken = 0 /\ MpscFreed = 0
  BY DEF MpscInit, MpscTypeOK, MpscTaken, MpscFreed, NoPush
<1>2. MpscBounds
  BY <1>1 DEF MpscInit, MpscBounds
<1>3. MpscPushersOwn /\ MpscPopperOwns /\ MpscStaleClaims
  BY DEF MpscInit, MpscPushersOwn, MpscPopperOwns, MpscStaleClaims, MpscPushing, NoPush
<1>4. ASSUME NEW x \in 0 .. MpscCapacity - 1 PROVE cells[Cell(x)].sequence = x
  <2>1. Cell(x) = x
    BY ModSmall DEF Cell
  <2>. QED
    BY <2>1 DEF MpscInit
<1>5. MpscWindow = 0 .. MpscCapacity - 1 /\ write_pos = 0
  BY <1>1 DEF MpscInit, MpscWindow
<1>6. MpscCells
  BY <1>4, <1>5 DEF MpscCells
<1>. QED
  BY <1>1, <1>2, <1>3, <1>6 DEF MpscIInv

(* What a producer does before its compare-exchange wins touches only its   *)
(* own locals.                                                             *)
LEMMA MpscPushLocal ==
  ASSUME MpscIInv, NEW p \in MpscProducers, ~MpscPushing(p),
         NEW l \in [pc : {"idle", "load", "check", "claim"}, pos : Nat,
                    item : MpscItems \cup {MpscNoItem}],
         l.pc # "idle" => l.item \in MpscItems,
         l.pc \in {"check", "claim"} => l.pos <= write_pos,
         l.pc = "claim" => cells[Cell(l.pos)].sequence = l.pos,
         push' = [push EXCEPT ![p] = l],
         UNCHANGED <<write_pos, read_pos, cells, pop, accepted>>
  PROVE  MpscIInv'
<1>1. /\ push'[p] = l /\ ~MpscPushing(p)'
      /\ \A q \in MpscProducers \ {p} : push'[q] = push[q] /\ (MpscPushing(q)' <=> MpscPushing(q))
  BY DEF MpscIInv, MpscTypeOK, MpscPushing
<1>2. MpscTaken' = MpscTaken /\ MpscFreed' = MpscFreed /\ MpscWindow' = MpscWindow
  BY DEF MpscTaken, MpscFreed, MpscWindow
<1>3. MpscTypeOK'
  BY <1>1 DEF MpscIInv, MpscTypeOK
<1>4. MpscBounds' /\ MpscPopperOwns'
  BY <1>2 DEF MpscIInv, MpscBounds, MpscPopperOwns
<1>5. MpscPushersOwn'
  BY <1>1, <1>2 DEF MpscIInv, MpscPushersOwn
<1>6. MpscCells'
  BY <1>2 DEF MpscIInv, MpscCells
<1>7. MpscStaleClaims'
  BY <1>1 DEF MpscIInv, MpscStaleClaims
<1>. QED
  BY <1>3, <1>4, <1>5, <1>6, <1>7 DEF MpscIInv

LEMMA MpscPushEarlyInv ==
  ASSUME MpscIInv, NEW p \in MpscProducers,
         \/ \E v \in MpscItems : MpscPushCall(p, v)
         \/ MpscPushLoad(p) \/ MpscPushCheck(p) \/ MpscPushClaimFail(p)
  PROVE  MpscIInv'
<1>1. push[p] \in [pc : {"idle", "load", "check", "claim", "write", "publish"},
                   pos : Nat, item : MpscItems \cup {MpscNoItem}]
      /\ (push[p].pc # "idle" => push[p].item \in MpscItems)
      /\ write_pos \in Nat
  BY DEF MpscIInv, MpscTypeOK
<1>2. CASE \E v \in MpscItems : MpscPushCall(p, v)
  <2>1. PICK v \in MpscItems : MpscPushCall(p, v)
    BY <1>2
  <2> DEFINE l == [pc |-> "load", pos |-> 0, item |-> v]
  <2>. QED
    BY <2>1, MpscPushLocal DEF MpscPushCall, MpscPushing
<1>3. CASE MpscPushLoad(p) \/ MpscPushClaimFail(p)
  <2> DEFINE l == [push[p] EXCEPT !.pos = write_pos, !.pc = "check"]
  <2>1. /\ l \in [pc : {"idle", "load", "check", "claim"}, pos : Nat,
                  item : MpscItems \cup {MpscNoItem}]
        /\ l.pc = "check" /\ l.pos = write_pos /\ l.item \in MpscItems
    BY <1>1, <1>3 DEF MpscPushLoad, MpscPushClaimFail
  <2>2. push' = [push EXCEPT ![p] = l] /\ ~MpscPushing(p)
        /\ UNCHANGED <<write_pos, read_pos, cells, pop, accepted>>
    BY <1>3 DEF MpscPushLoad, MpscPushClaimFail, MpscPushing
  <2> HIDE DEF l
  <2>3. l.pos <= write_pos
    BY <1>1, <2>1
  <2>. QED
    BY <2>1, <2>2, <2>3, MpscPushLocal
<1>4. CASE MpscPushCheck(p)
  <2> DEFINE diff == cells[Cell(push[p].pos)].sequence - push[p].pos
             l == CASE diff = 0 -> [push[p] EXCEPT !.pc = "claim"]
                    [] diff < 0 -> NoPush
                    [] diff > 0 -> [push[p] EXCEPT !.pc = "load"]
  <2>1. push' = [push EXCEPT ![p] = l] /\ push[p].pc = "check"
        /\ UNCHANGED <<write_pos, read_pos, cells, pop, accepted>>
    BY <1>4 DEF MpscPushCheck
  <2>2. cells[Cell(push[p].pos)].sequence \in Nat
    BY <1>1, MpscCellType DEF MpscIInv, MpscTypeOK
  <2>3. /\ l \in [pc : {"idle", "load", "check", "claim"}, pos : Nat,
                  item : MpscItems \cup {MpscNoItem}]
        /\ l.pc # "idle" => l.item \in MpscItems
        /\ l.pc # "check"
        /\ l.pc = "claim" => l.pos = push[p].pos /\ cells[Cell(l.pos)].sequence = l.pos
    <3>1. diff \in Int
      BY <1>1, <2>2
    <3>2. push[p] \in [pc : {"check"}, pos : Nat, item : MpscItems]
      BY <1>1, <2>1 DEF MpscIInv, MpscTypeOK
    <3>3. CASE diff = 0
      <4>1. l = [push[p] EXCEPT !.pc = "claim"] /\ cells[Cell(push[p].pos)].sequence = push[p].pos
        BY <3>2, <3>3, <2>2
      <4>. HIDE DEF l, diff
      <4>. QED
        BY <3>2, <4>1
    <3>4. CASE diff < 0
      <4>1. l = NoPush
        BY <3>1, <3>4
      <4>. HIDE DEF l, diff
      <4>. QED
        BY <4>1 DEF NoPush
    <3>5. CASE diff > 0
      <4>1. l = [push[p] EXCEPT !.pc = "load"]
        BY <3>1, <3>5
      <4>. HIDE DEF l, diff
      <4>. QED
        BY <3>2, <4>1
    <3>. HIDE DEF l, diff
    <3>. QED
      BY <3>1, <3>3, <3>4, <3>5
  <2>4. push[p].pos <= write_pos
    BY <2>1 DEF MpscIInv, MpscStaleClaims
  <2>5. ~MpscPushing(p)
    BY <2>1 DEF MpscPushing
  <2> HIDE DEF l
  <2>. QED
    BY <2>1, <2>3, <2>4, <2>5, MpscPushLocal
<1>. QED
  BY <1>2, <1>3, <1>4

(* The compare-exchange on write_pos_ wins only where the ring has room. *)
LEMMA MpscClaimHasRoom ==
  ASSUME MpscIInv, NEW p \in MpscProducers, MpscPushClaim(p)
  PROVE  /\ push[p].pos = write_pos /\ cells[Cell(write_pos)].sequence = write_pos
         /\ write_pos < MpscFreed + MpscCapacity
<1>1. push[p].pos = write_pos /\ cells[Cell(write_pos)].sequence = write_pos
  BY DEF MpscPushClaim, MpscIInv, MpscStaleClaims
<1>2. ASSUME write_pos = MpscFreed + MpscCapacity PROVE FALSE
  <2>1. Cell(write_pos) = Cell(MpscFreed)
    BY <1>2, MpscLap, MpscFacts
  <2>2. MpscFreed \in MpscWindow /\ MpscFreed < write_pos
    BY <1>2, MpscFacts DEF MpscWindow
  <2>3. cells[Cell(MpscFreed)].sequence \in {MpscFreed, MpscFreed + 1}
    BY <2>2 DEF MpscIInv, MpscCells
  <2>. QED
    BY <1>1, <1>2, <2>1, <2>3, MpscFacts
<1>. QED
  BY <1>1, <1>2, MpscFacts

LEMMA MpscPushClaimInv ==
  ASSUME MpscIInv, NEW p \in MpscProducers, MpscPushClaim(p) PROVE MpscIInv'
<1>1. /\ push[p].pc = "claim" /\ push[p].item \in MpscItems
      /\ write_pos' = write_pos + 1 /\ accepted' = Append(accepted, push[p].item)
      /\ push' = [push EXCEPT ![p].pc = "write"]
      /\ UNCHANGED <<read_pos, cells, pop>>
  BY DEF MpscPushClaim, MpscIInv, MpscTypeOK
<1>2. /\ push'[p].pc = "write" /\ push'[p].pos = push[p].pos /\ push'[p].item = push[p].item
      /\ MpscPushing(p)' /\ ~MpscPushing(p)
      /\ \A q \in MpscProducers \ {p} : push'[q] = push[q] /\ (MpscPushing(q)' <=> MpscPushing(q))
  BY <1>1 DEF MpscIInv, MpscTypeOK, MpscPushing
<1>3. /\ push[p].pos = write_pos /\ cells[Cell(write_pos)].sequence = write_pos
      /\ write_pos < MpscFreed + MpscCapacity
  BY MpscClaimHasRoom
<1>4. /\ Len(accepted') = write_pos + 1 /\ accepted'[write_pos + 1] = push[p].item
      /\ \A x \in 1 .. write_pos : accepted'[x] = accepted[x]
      /\ accepted' \in Seq(MpscItems)
  BY <1>1, MpscFacts DEF MpscIInv, MpscTypeOK
<1>5. MpscTaken' = MpscTaken /\ MpscFreed' = MpscFreed /\ MpscWindow' = MpscWindow
  BY <1>1 DEF MpscTaken, MpscFreed, MpscWindow
<1>6. MpscTypeOK'
  <2>1. push' \in [MpscProducers -> [pc : {"idle", "load", "check", "claim", "write", "publish"},
                                     pos : Nat, item : MpscItems \cup {MpscNoItem}]]
    BY <1>1 DEF MpscIInv, MpscTypeOK
  <2>2. \A q \in MpscProducers : push'[q].pc # "idle" => push'[q].item \in MpscItems
    BY <1>1, <1>2 DEF MpscIInv, MpscTypeOK
  <2>. QED
    BY <1>1, <1>4, <2>1, <2>2 DEF MpscIInv, MpscTypeOK
<1>7. MpscBounds'
  BY <1>1, <1>3, <1>4, <1>5, MpscFacts DEF MpscBounds
<1>8. MpscPopperOwns'
  <2>1. pop.pc = "release" => read_pos + 1 \in 1 .. write_pos
    BY MpscFacts DEF MpscTaken
  <2>. QED
    BY <1>1, <1>4, <2>1 DEF MpscIInv, MpscPopperOwns
<1>9. MpscPushersOwn'
  <2>1. ASSUME NEW q \in MpscProducers, MpscPushing(q)
        PROVE  /\ MpscFreed <= push[q].pos /\ push[q].pos < write_pos /\ push[q].pos \in Nat
               /\ cells[Cell(push[q].pos)].sequence = push[q].pos
               /\ accepted'[push[q].pos + 1] = push[q].item
               /\ push[q].pc = "publish" => cells[Cell(push[q].pos)].data = push[q].item
    <3>1. push[q].pos + 1 \in 1 .. write_pos
      BY <2>1, MpscFacts DEF MpscIInv, MpscTypeOK, MpscPushersOwn
    <3>. QED
      BY <1>4, <2>1, <3>1 DEF MpscIInv, MpscTypeOK, MpscPushersOwn
  <2>2. ASSUME NEW q \in MpscProducers, MpscPushing(q)'
        PROVE  /\ MpscFreed <= push'[q].pos /\ push'[q].pos < write_pos + 1
               /\ cells[Cell(push'[q].pos)].sequence = push'[q].pos
               /\ accepted'[push'[q].pos + 1] = push'[q].item
               /\ push'[q].pc = "publish" => cells[Cell(push'[q].pos)].data = push'[q].item
    <3>1. CASE q = p
      BY <1>2, <1>3, <1>4, <3>1, MpscFacts
    <3>2. CASE q # p
      <4>1. push'[q] = push[q] /\ MpscPushing(q)
        BY <1>2, <2>2, <3>2
      <4>2. write_pos \in Nat
        BY MpscFacts
      <4>3. /\ MpscFreed <= push[q].pos /\ push[q].pos < write_pos /\ push[q].pos \in Nat
            /\ cells[Cell(push[q].pos)].sequence = push[q].pos
            /\ accepted'[push[q].pos + 1] = push[q].item
            /\ push[q].pc = "publish" => cells[Cell(push[q].pos)].data = push[q].item
        BY <2>1, <4>1
      <4>4. push[q].pos < write_pos + 1
        BY <4>2, <4>3
      <4>. QED
        BY <4>1, <4>3, <4>4
    <3>. QED
      BY <3>1, <3>2
  <2>3. \A q, r \in MpscProducers : MpscPushing(q)' /\ MpscPushing(r)' /\ q # r
                                      => push'[q].pos # push'[r].pos
    <3>1. \A q, r \in MpscProducers : MpscPushing(q) /\ MpscPushing(r) /\ q # r
                                        => push[q].pos # push[r].pos
      BY DEF MpscIInv, MpscPushersOwn
    <3>2. \A q \in MpscProducers : MpscPushing(q) => push[q].pos # write_pos
      <4>1. write_pos \in Nat
        BY MpscFacts
      <4>. QED
        BY <2>1, <4>1
    <3>. QED
      BY <1>2, <1>3, <3>1, <3>2
  <2>. QED
    BY <1>1, <1>5, <2>2, <2>3 DEF MpscPushersOwn
<1>10. MpscCells'
  <2> SUFFICES ASSUME NEW x \in MpscWindow
               PROVE  /\ write_pos + 1 <= x => cells[Cell(x)].sequence = x
                      /\ x < write_pos + 1 => cells[Cell(x)].sequence \in {x, x + 1}
                      /\ x < write_pos + 1 /\ cells[Cell(x)].sequence = x + 1
                           /\ ~(pop.pc = "release" /\ x = read_pos)
                           => cells[Cell(x)].data = accepted'[x + 1]
    BY <1>1, <1>5 DEF MpscCells
  <2>1. x \in Nat
    BY MpscFacts DEF MpscWindow
  <2>2. CASE x < write_pos
    <3>1. accepted'[x + 1] = accepted[x + 1]
      BY <1>4, <2>1, <2>2, MpscFacts
    <3>2. /\ cells[Cell(x)].sequence \in {x, x + 1}
          /\ cells[Cell(x)].sequence = x + 1 /\ ~(pop.pc = "release" /\ x = read_pos)
               => cells[Cell(x)].data = accepted[x + 1]
      BY <2>2 DEF MpscIInv, MpscCells
    <3>. QED
      BY <2>1, <2>2, <3>1, <3>2, MpscFacts
  <2>3. CASE x = write_pos
    BY <1>3, <2>1, <2>3
  <2>4. CASE write_pos < x
    BY <2>1, <2>4, MpscFacts DEF MpscIInv, MpscCells
  <2>. QED
    BY <2>1, <2>2, <2>3, <2>4, MpscFacts
<1>11. MpscStaleClaims'
  <2>1. ASSUME NEW q \in MpscProducers, push'[q].pc \in {"check", "claim"}
        PROVE  push'[q].pos <= write_pos /\ push'[q].pos \in Nat
    BY <1>2, <2>1 DEF MpscIInv, MpscTypeOK, MpscStaleClaims
  <2>. QED
    BY <1>1, <2>1, MpscFacts DEF MpscStaleClaims
<1>. QED
  BY <1>6, <1>7, <1>8, <1>9, <1>10, <1>11 DEF MpscIInv

(* Claimed positions have different cells, and the consumer reads another. *)
LEMMA MpscDisjoint ==
  ASSUME MpscIInv, NEW p \in MpscProducers, MpscPushing(p)
  PROVE  /\ push[p].pos \in MpscWindow /\ push[p].pos \in Nat /\ push[p].pos < write_pos
         /\ \A x \in MpscWindow : x # push[p].pos => Cell(x) # Cell(push[p].pos)
         /\ \A q \in MpscProducers : MpscPushing(q) /\ q # p => Cell(push[q].pos) # Cell(push[p].pos)
         /\ pop.pc \in {"move", "release"} => read_pos # push[p].pos
<1>1. ASSUME NEW q \in MpscProducers, MpscPushing(q)
      PROVE  push[q].pos \in MpscWindow /\ push[q].pos \in Nat /\ push[q].pos < write_pos
  BY <1>1, MpscFacts DEF MpscWindow, MpscIInv, MpscTypeOK, MpscPushersOwn
<1>2. ASSUME NEW x \in MpscWindow, NEW y \in MpscWindow, x # y PROVE Cell(x) # Cell(y)
  <2>1. x \in Nat /\ y \in Nat /\ x < y + MpscCapacity /\ y < x + MpscCapacity
    BY MpscFacts DEF MpscWindow
  <2>. QED
    BY <1>2, <2>1, MpscDistinct
<1>3. pop.pc \in {"move", "release"} => read_pos # push[p].pos
  BY <1>1, MpscFacts DEF MpscIInv, MpscPushersOwn, MpscPopperOwns
<1>. QED
  BY <1>1, <1>2, <1>3 DEF MpscIInv, MpscPushersOwn

LEMMA MpscPushWriteInv ==
  ASSUME MpscIInv, NEW p \in MpscProducers, MpscPushWrite(p) PROVE MpscIInv'
<1> DEFINE i == Cell(push[p].pos)
<1>1. /\ push[p].pc = "write" /\ MpscPushing(p)
      /\ cells' = [cells EXCEPT ![i].data = push[p].item]
      /\ push' = [push EXCEPT ![p].pc = "publish"]
      /\ UNCHANGED <<write_pos, read_pos, pop, accepted>>
  BY DEF MpscPushWrite, MpscPushing
<1>2. /\ push'[p].pc = "publish" /\ push'[p].pos = push[p].pos /\ push'[p].item = push[p].item
      /\ push[p].item \in MpscItems
      /\ \A q \in MpscProducers : MpscPushing(q)' <=> MpscPushing(q)
      /\ \A q \in MpscProducers \ {p} : push'[q] = push[q]
  BY <1>1 DEF MpscIInv, MpscTypeOK, MpscPushing
<1>3. /\ push[p].pos \in MpscWindow /\ push[p].pos \in Nat
      /\ \A x \in MpscWindow : x # push[p].pos => Cell(x) # i
      /\ \A q \in MpscProducers : MpscPushing(q) /\ q # p => Cell(push[q].pos) # i
  BY <1>1, MpscDisjoint
<1>4. i \in 0 .. MpscCapacity - 1 /\ cells[i].sequence = push[p].pos
  BY <1>1, <1>3, MpscCellType DEF MpscIInv, MpscPushersOwn
<1> HIDE DEF i
<1>5. /\ cells' \in [0 .. MpscCapacity - 1 -> [sequence : Nat, data : MpscItems \cup {MpscNoItem}]]
      /\ cells'[i].data = push[p].item
      /\ \A j \in 0 .. MpscCapacity - 1 : cells'[j].sequence = cells[j].sequence
      /\ \A j \in 0 .. MpscCapacity - 1 : j # i => cells'[j] = cells[j]
  BY <1>1, <1>2, <1>4 DEF MpscIInv, MpscTypeOK
<1>6. MpscTaken' = MpscTaken /\ MpscFreed' = MpscFreed /\ MpscWindow' = MpscWindow
  BY <1>1 DEF MpscTaken, MpscFreed, MpscWindow
<1>7. \A x \in MpscWindow : x \in Nat /\ Cell(x) \in 0 .. MpscCapacity - 1
  BY MpscCellType, MpscFacts DEF MpscWindow
<1>8. MpscTypeOK'
  BY <1>1, <1>2, <1>5 DEF MpscIInv, MpscTypeOK
<1>9. MpscBounds'
  BY <1>1, <1>6 DEF MpscIInv, MpscBounds
<1>10. MpscPushersOwn'
  <2>1. ASSUME NEW q \in MpscProducers, MpscPushing(q)
        PROVE  push[q].pos \in MpscWindow /\ Cell(push[q].pos) \in 0 .. MpscCapacity - 1
    BY <1>7, <2>1, MpscDisjoint
  <2>2. ASSUME NEW q \in MpscProducers, MpscPushing(q), q # p
        PROVE  cells'[Cell(push[q].pos)] = cells[Cell(push[q].pos)]
    BY <1>3, <1>5, <2>1, <2>2
  <2>3. write_pos' = write_pos /\ accepted' = accepted
    BY <1>1
  <2>4. ASSUME NEW q \in MpscProducers, MpscPushing(q)
        PROVE  /\ push'[q].pos = push[q].pos /\ push'[q].item = push[q].item
               /\ MpscFreed <= push[q].pos /\ push[q].pos < write_pos
               /\ cells'[Cell(push[q].pos)].sequence = push[q].pos
               /\ accepted[push[q].pos + 1] = push[q].item
               /\ push'[q].pc = "publish" => cells'[Cell(push[q].pos)].data = push[q].item
    <3>1. /\ MpscFreed <= push[q].pos /\ push[q].pos < write_pos
          /\ cells[Cell(push[q].pos)].sequence = push[q].pos
          /\ accepted[push[q].pos + 1] = push[q].item
          /\ push[q].pc = "publish" => cells[Cell(push[q].pos)].data = push[q].item
      BY <2>4 DEF MpscIInv, MpscPushersOwn
    <3>2. CASE q = p
      BY <1>2, <1>4, <1>5, <3>1, <3>2 DEF i
    <3>3. CASE q # p
      BY <1>2, <2>2, <2>4, <3>1, <3>3
    <3>. QED
      BY <3>2, <3>3
  <2>5. \A q, z \in MpscProducers : MpscPushing(q) /\ MpscPushing(z) /\ q # z
                                        => push[q].pos # push[z].pos
    BY DEF MpscIInv, MpscPushersOwn
  <2>. QED
    BY <1>2, <1>6, <2>3, <2>4, <2>5 DEF MpscPushersOwn, Cell
<1>11. MpscPopperOwns'
  BY <1>1, <1>5, MpscCellType, MpscFacts DEF MpscIInv, MpscPopperOwns
<1>12. MpscCells'
  <2>1. ASSUME NEW x \in MpscWindow, x # push[p].pos PROVE cells'[Cell(x)] = cells[Cell(x)]
    BY <1>3, <1>5, <1>7, <2>1
  <2>2. cells'[Cell(push[p].pos)].sequence = push[p].pos
    BY <1>4, <1>5 DEF i
  <2>3. push[p].pos < write_pos /\ push[p].pos \in Nat /\ push[p].pos # push[p].pos + 1
    BY <1>1, <1>3, MpscDisjoint
  <2>. QED
    BY <1>1, <1>6, <2>1, <2>2, <2>3, MpscFacts DEF MpscIInv, MpscCells
<1>13. MpscStaleClaims'
  BY <1>1, <1>2, <1>5, MpscCellType, MpscFacts DEF MpscIInv, MpscStaleClaims
<1>. QED
  BY <1>8, <1>9, <1>10, <1>11, <1>12, <1>13 DEF MpscIInv

LEMMA MpscPushPublishInv ==
  ASSUME MpscIInv, NEW p \in MpscProducers, MpscPushPublish(p) PROVE MpscIInv'
<1> DEFINE i == Cell(push[p].pos)
<1>1. /\ push[p].pc = "publish" /\ MpscPushing(p)
      /\ cells' = [cells EXCEPT ![i].sequence = push[p].pos + 1]
      /\ push' = [push EXCEPT ![p] = NoPush]
      /\ UNCHANGED <<write_pos, read_pos, pop, accepted>>
  BY DEF MpscPushPublish, MpscPushing
<1>2. /\ push'[p].pc = "idle" /\ ~MpscPushing(p)'
      /\ \A q \in MpscProducers \ {p} : push'[q] = push[q] /\ (MpscPushing(q)' <=> MpscPushing(q))
  BY <1>1 DEF MpscIInv, MpscTypeOK, MpscPushing, NoPush
<1>3. /\ push[p].pos \in MpscWindow /\ push[p].pos \in Nat /\ push[p].pos < write_pos
      /\ \A x \in MpscWindow : x # push[p].pos => Cell(x) # i
      /\ \A q \in MpscProducers : MpscPushing(q) /\ q # p => Cell(push[q].pos) # i
      /\ pop.pc \in {"move", "release"} => read_pos # push[p].pos
  BY <1>1, MpscDisjoint
<1>4. /\ i \in 0 .. MpscCapacity - 1 /\ cells[i].sequence = push[p].pos
      /\ cells[i].data = accepted[push[p].pos + 1]
  BY <1>1, <1>3, MpscCellType DEF MpscIInv, MpscPushersOwn
<1> HIDE DEF i
<1>5. /\ cells' \in [0 .. MpscCapacity - 1 -> [sequence : Nat, data : MpscItems \cup {MpscNoItem}]]
      /\ cells'[i].sequence = push[p].pos + 1 /\ cells'[i].data = cells[i].data
      /\ \A j \in 0 .. MpscCapacity - 1 : j # i => cells'[j] = cells[j]
  <2>1. /\ push[p].pos + 1 \in Nat
        /\ cells \in [0 .. MpscCapacity - 1 -> [sequence : Nat, data : MpscItems \cup {MpscNoItem}]]
    BY <1>3 DEF MpscIInv, MpscTypeOK
  <2>. QED
    BY <1>1, <1>4, <2>1
<1>6. MpscTaken' = MpscTaken /\ MpscFreed' = MpscFreed /\ MpscWindow' = MpscWindow
  BY <1>1 DEF MpscTaken, MpscFreed, MpscWindow
<1>7. \A x \in MpscWindow : x \in Nat /\ Cell(x) \in 0 .. MpscCapacity - 1
  BY MpscCellType, MpscFacts DEF MpscWindow
<1>8. MpscTypeOK'
  BY <1>1, <1>2, <1>5 DEF MpscIInv, MpscTypeOK, NoPush
<1>9. MpscBounds'
  BY <1>1, <1>6 DEF MpscIInv, MpscBounds
<1>10. MpscPushersOwn'
  <2>1. ASSUME NEW q \in MpscProducers, MpscPushing(q), q # p
        PROVE  cells'[Cell(push[q].pos)] = cells[Cell(push[q].pos)]
    <3>1. push[q].pos \in MpscWindow
      BY <2>1, MpscDisjoint
    <3>. QED
      BY <1>3, <1>5, <1>7, <2>1, <3>1
  <2>2. ASSUME NEW q \in MpscProducers, MpscPushing(q)'
        PROVE  q # p /\ MpscPushing(q) /\ push'[q] = push[q]
    BY <1>2, <2>2
  <2>3. ASSUME NEW q \in MpscProducers, MpscPushing(q)'
        PROVE  /\ MpscFreed <= push'[q].pos /\ push'[q].pos < write_pos
               /\ cells'[Cell(push'[q].pos)].sequence = push'[q].pos
               /\ accepted[push'[q].pos + 1] = push'[q].item
               /\ push'[q].pc = "publish" => cells'[Cell(push'[q].pos)].data = push'[q].item
    <3>1. q # p /\ MpscPushing(q) /\ push'[q] = push[q]
      BY <2>2, <2>3
    <3>2. cells'[Cell(push[q].pos)] = cells[Cell(push[q].pos)]
      BY <2>1, <3>1
    <3>. QED
      BY <3>1, <3>2 DEF MpscIInv, MpscPushersOwn
  <2>4. \A q, r \in MpscProducers : MpscPushing(q)' /\ MpscPushing(r)' /\ q # r
                                      => push'[q].pos # push'[r].pos
    BY <2>2 DEF MpscIInv, MpscPushersOwn
  <2>. QED
    BY <1>1, <1>6, <2>3, <2>4 DEF MpscPushersOwn
<1>11. MpscPopperOwns'
  <2>1. pop.pc \in {"move", "release"} => read_pos \in MpscWindow
    BY MpscFacts DEF MpscWindow, MpscFreed
  <2>2. pop.pc \in {"move", "release"} => cells'[Cell(read_pos)] = cells[Cell(read_pos)]
    BY <1>3, <1>5, <1>7, <2>1
  <2>. QED
    BY <1>1, <2>2 DEF MpscIInv, MpscPopperOwns
<1>12. MpscCells'
  <2>1. ASSUME NEW x \in MpscWindow, x # push[p].pos PROVE cells'[Cell(x)] = cells[Cell(x)]
    BY <1>3, <1>5, <1>7, <2>1
  <2>2. /\ cells'[Cell(push[p].pos)].sequence = push[p].pos + 1
        /\ cells'[Cell(push[p].pos)].data = accepted[push[p].pos + 1]
    BY <1>4, <1>5 DEF i
  <2>. QED
    BY <1>1, <1>3, <1>6, <2>1, <2>2, MpscFacts DEF MpscIInv, MpscCells
<1>13. MpscStaleClaims'
  <2>1. ASSUME cells[Cell(write_pos)].sequence = write_pos
        PROVE  cells'[Cell(write_pos)].sequence = write_pos
    <3>1. Cell(write_pos) # i
      BY <1>3, <1>4, <2>1, MpscFacts
    <3>. QED
      BY <1>5, <2>1, <3>1, MpscCellType, MpscFacts
  <2>. QED
    BY <1>1, <1>2, <2>1 DEF MpscIInv, MpscStaleClaims
<1>. QED
  BY <1>8, <1>9, <1>10, <1>11, <1>12, <1>13 DEF MpscIInv

(* try_pop goes on only with a published position. *)
LEMMA MpscPopHasItem ==
  ASSUME MpscIInv, MpscPopCheck
  PROVE  MpscFreed = read_pos /\ MpscTaken = read_pos /\ read_pos < write_pos
<1>1. MpscFreed = read_pos /\ MpscTaken = read_pos
  BY DEF MpscPopCheck, MpscFreed, MpscTaken
<1>2. read_pos \in MpscWindow
  BY <1>1, MpscFacts DEF MpscWindow
<1>3. cells[Cell(read_pos)].sequence = read_pos + 1
  BY DEF MpscPopCheck
<1>4. ~(write_pos <= read_pos)
  BY <1>2, <1>3, MpscFacts DEF MpscIInv, MpscCells
<1>. QED
  BY <1>1, <1>4, MpscFacts

LEMMA MpscPopCheckInv == ASSUME MpscIInv, MpscPopCheck PROVE MpscIInv'
<1>1. /\ pop.pc = "idle" /\ pop' = [pop EXCEPT !.pc = "move"]
      /\ cells[Cell(read_pos)].sequence = read_pos + 1
      /\ UNCHANGED <<write_pos, read_pos, cells, push, accepted>>
  BY DEF MpscPopCheck
<1>2. pop'.pc = "move" /\ MpscTaken' = read_pos + 1 /\ MpscFreed' = MpscFreed /\ MpscWindow' = MpscWindow
  BY <1>1 DEF MpscIInv, MpscTypeOK, MpscTaken, MpscFreed, MpscWindow
<1>3. MpscTypeOK'
  BY <1>1 DEF MpscIInv, MpscTypeOK
<1>4. MpscBounds'
  BY <1>1, <1>2, MpscPopHasItem, MpscFacts DEF MpscIInv, MpscBounds
<1>5. MpscPushersOwn' /\ MpscStaleClaims'
  BY <1>1, <1>2 DEF MpscIInv, MpscPushersOwn, MpscStaleClaims, MpscPushing
<1>6. MpscPopperOwns' /\ MpscCells'
  BY <1>1, <1>2 DEF MpscIInv, MpscPopperOwns, MpscCells
<1>. QED
  BY <1>3, <1>4, <1>5, <1>6 DEF MpscIInv

(* The item moved out is the one that was pushed at this position. *)
LEMMA MpscMovesOldest ==
  ASSUME MpscIInv, pop.pc = "move"
  PROVE  /\ MpscFreed = read_pos /\ read_pos \in MpscWindow /\ read_pos < write_pos
         /\ cells[Cell(read_pos)].sequence = read_pos + 1
         /\ cells[Cell(read_pos)].data = accepted[read_pos + 1]
<1>1. MpscFreed = read_pos /\ MpscTaken = read_pos + 1
  BY DEF MpscFreed, MpscTaken
<1>2. read_pos \in MpscWindow /\ read_pos < write_pos
  BY <1>1, MpscFacts DEF MpscWindow
<1>3. cells[Cell(read_pos)].sequence = read_pos + 1
  BY DEF MpscIInv, MpscPopperOwns
<1>. QED
  BY <1>1, <1>2, <1>3 DEF MpscIInv, MpscCells

LEMMA MpscPopMoveInv == ASSUME MpscIInv, MpscPopMove PROVE MpscIInv'
<1> DEFINE i == Cell(read_pos)
<1>1. /\ pop.pc = "move" /\ pop' = [pc |-> "release", item |-> cells[i].data]
      /\ cells' = [cells EXCEPT ![i].data = MpscNoItem]
      /\ UNCHANGED <<write_pos, read_pos, push, accepted>>
  BY DEF MpscPopMove
<1>2. /\ MpscFreed = read_pos /\ read_pos \in MpscWindow /\ read_pos < write_pos /\ read_pos \in Nat
      /\ cells[i].sequence = read_pos + 1 /\ cells[i].data = accepted[read_pos + 1]
      /\ i \in 0 .. MpscCapacity - 1
  BY <1>1, MpscMovesOldest, MpscCellType, MpscFacts
<1>3. ASSUME NEW x \in MpscWindow
      PROVE  x \in Nat /\ Cell(x) \in 0 .. MpscCapacity - 1 /\ (x # read_pos => Cell(x) # i)
  <2>1. x \in Nat /\ x < read_pos + MpscCapacity /\ read_pos < x + MpscCapacity
    BY <1>2, MpscFacts DEF MpscWindow
  <2>. QED
    BY <1>2, <2>1, MpscDistinct, MpscCellType
<1> HIDE DEF i
<1>4. /\ cells' \in [0 .. MpscCapacity - 1 -> [sequence : Nat, data : MpscItems \cup {MpscNoItem}]]
      /\ \A j \in 0 .. MpscCapacity - 1 : cells'[j].sequence = cells[j].sequence
      /\ \A j \in 0 .. MpscCapacity - 1 : j # i => cells'[j] = cells[j]
      /\ cells[i].data \in MpscItems \cup {MpscNoItem}
  BY <1>1, <1>2 DEF MpscIInv, MpscTypeOK
<1>5. MpscTaken' = MpscTaken /\ MpscFreed' = MpscFreed /\ MpscWindow' = MpscWindow
  BY <1>1 DEF MpscTaken, MpscFreed, MpscWindow
<1>6. MpscTypeOK'
  BY <1>1, <1>4 DEF MpscIInv, MpscTypeOK
<1>7. MpscBounds'
  BY <1>1, <1>5 DEF MpscIInv, MpscBounds
<1>8. MpscPushersOwn'
  <2>1. ASSUME NEW q \in MpscProducers, MpscPushing(q)
        PROVE  cells'[Cell(push[q].pos)] = cells[Cell(push[q].pos)]
    <3>1. push[q].pos \in MpscWindow /\ push[q].pos # read_pos
      BY <1>1, <2>1, MpscDisjoint
    <3>. QED
      BY <1>3, <1>4, <3>1
  <2>2. push' = push /\ write_pos' = write_pos /\ accepted' = accepted
    BY <1>1
  <2>3. ASSUME NEW q \in MpscProducers, MpscPushing(q)
        PROVE  /\ MpscFreed <= push[q].pos /\ push[q].pos < write_pos
               /\ cells'[Cell(push[q].pos)].sequence = push[q].pos
               /\ accepted[push[q].pos + 1] = push[q].item
               /\ push[q].pc = "publish" => cells'[Cell(push[q].pos)].data = push[q].item
    BY <2>1, <2>3 DEF MpscIInv, MpscPushersOwn
  <2>4. \A p, q \in MpscProducers : MpscPushing(p) /\ MpscPushing(q) /\ p # q
                                        => push[p].pos # push[q].pos
    BY DEF MpscIInv, MpscPushersOwn
  <2>. QED
    BY <1>5, <2>2, <2>3, <2>4 DEF MpscPushersOwn, MpscPushing, Cell
<1>9. MpscPopperOwns'
  BY <1>1, <1>2, <1>4 DEF MpscPopperOwns, i
<1>10. MpscCells'
  <2>1. ASSUME NEW x \in MpscWindow, x # read_pos PROVE cells'[Cell(x)] = cells[Cell(x)]
    BY <1>3, <1>4, <2>1
  <2>2. cells'[Cell(read_pos)].sequence = read_pos + 1 /\ pop'.pc = "release"
    BY <1>1, <1>2, <1>4 DEF i
  <2> SUFFICES ASSUME NEW x \in MpscWindow
               PROVE  /\ write_pos <= x => cells'[Cell(x)].sequence = x
                      /\ x < write_pos => cells'[Cell(x)].sequence \in {x, x + 1}
                      /\ x < write_pos /\ cells'[Cell(x)].sequence = x + 1
                           /\ ~(pop'.pc = "release" /\ x = read_pos)
                           => cells'[Cell(x)].data = accepted[x + 1]
    BY <1>1, <1>5 DEF MpscCells
  <2>3. CASE x = read_pos
    BY <1>2, <2>2, <2>3, MpscFacts
  <2>4. CASE x # read_pos
    BY <2>1, <2>4 DEF MpscIInv, MpscCells
  <2>. QED
    BY <2>3, <2>4
<1>11. MpscStaleClaims'
  BY <1>1, <1>4, MpscCellType, MpscFacts DEF MpscIInv, MpscStaleClaims
<1>. QED
  BY <1>6, <1>7, <1>8, <1>9, <1>10, <1>11 DEF MpscIInv

(* Releasing hands the cell to the producer of the position a lap later. *)
LEMMA MpscPopReleaseInv == ASSUME MpscIInv, MpscPopRelease PROVE MpscIInv'
<1> DEFINE i == Cell(read_pos)
           far == read_pos + MpscCapacity
<1>1. /\ pop.pc = "release" /\ pop' = [pop EXCEPT !.pc = "advance"]
      /\ cells' = [cells EXCEPT ![i].sequence = far]
      /\ UNCHANGED <<write_pos, read_pos, push, accepted>>
  BY DEF MpscPopRelease
<1>2. /\ MpscFreed = read_pos /\ MpscTaken = read_pos + 1 /\ pop'.pc = "advance"
      /\ MpscFreed' = read_pos + 1 /\ MpscTaken' = read_pos + 1
  BY <1>1 DEF MpscIInv, MpscTypeOK, MpscFreed, MpscTaken
<1>3. /\ read_pos \in Nat /\ far \in Nat /\ write_pos \in Nat /\ MpscCapacity >= 2
      /\ read_pos < write_pos /\ write_pos <= far
      /\ i \in 0 .. MpscCapacity - 1 /\ Cell(far) = i
      /\ cells[i].sequence = read_pos + 1
  <2>1. read_pos \in Nat /\ write_pos \in Nat /\ MpscCapacity \in Nat /\ MpscCapacity >= 2
        /\ read_pos < write_pos /\ write_pos <= far
    BY <1>2, MpscFacts
  <2>2. i \in 0 .. MpscCapacity - 1 /\ Cell(far) = i
    BY <2>1, MpscCellType, MpscLap
  <2>3. cells[i].sequence = read_pos + 1
    BY <1>1 DEF MpscIInv, MpscPopperOwns
  <2>. QED
    BY <2>1, <2>2, <2>3
<1>4. ASSUME NEW x \in read_pos + 1 .. far - 1
      PROVE  x \in MpscWindow /\ x \in Nat /\ Cell(x) \in 0 .. MpscCapacity - 1 /\ Cell(x) # i
  <2>1. x \in Nat /\ x # read_pos /\ x < read_pos + MpscCapacity /\ read_pos < x + MpscCapacity
        /\ x \in MpscWindow
    BY <1>2, <1>3, MpscFacts DEF MpscWindow
  <2>. QED
    BY <1>3, <2>1, MpscDistinct, MpscCellType
<1>5. MpscWindow' = read_pos + 1 .. far
  BY <1>2, <1>3, MpscFacts DEF MpscWindow
<1> HIDE DEF i, far
<1>6. /\ cells' \in [0 .. MpscCapacity - 1 -> [sequence : Nat, data : MpscItems \cup {MpscNoItem}]]
      /\ cells'[i].sequence = far
      /\ \A j \in 0 .. MpscCapacity - 1 : j # i => cells'[j] = cells[j]
  <2>1. cells \in [0 .. MpscCapacity - 1 -> [sequence : Nat, data : MpscItems \cup {MpscNoItem}]]
    BY DEF MpscIInv, MpscTypeOK
  <2>2. i \in 0 .. MpscCapacity - 1 /\ far \in Nat
    BY <1>3
  <2>. QED
    BY <1>1, <2>1, <2>2
<1>7. MpscTypeOK'
  BY <1>1, <1>6 DEF MpscIInv, MpscTypeOK
<1>8. MpscBounds'
  BY <1>1, <1>2, <1>3, MpscFacts DEF MpscIInv, MpscBounds, far
<1>9. MpscPushersOwn'
  <2>1. ASSUME NEW q \in MpscProducers, MpscPushing(q)
        PROVE  push[q].pos \in read_pos + 1 .. far - 1
    <3>1. push[q].pos \in MpscWindow /\ push[q].pos \in Nat /\ push[q].pos # read_pos
      BY <1>1, <2>1, MpscDisjoint
    <3>2. MpscCapacity \in Nat
      BY MpscFacts
    <3>3. push[q].pos \in read_pos .. read_pos + MpscCapacity - 1
      BY <1>2, <3>1 DEF MpscWindow
    <3>4. PICK x : x = push[q].pos
      OBVIOUS
    <3>5. x \in read_pos + 1 .. read_pos + MpscCapacity - 1
      BY <1>3, <3>1, <3>2, <3>3, <3>4
    <3>6. far = read_pos + MpscCapacity
      BY DEF far
    <3>7. x \in read_pos + 1 .. far - 1
      BY <1>3, <3>2, <3>5, <3>6
    <3>. QED
      BY <3>4, <3>7, Zenon
  <2>2. ASSUME NEW q \in MpscProducers, MpscPushing(q)
        PROVE  cells'[Cell(push[q].pos)] = cells[Cell(push[q].pos)] /\ read_pos + 1 <= push[q].pos
    BY <1>3, <1>4, <1>6, <2>1, <2>2
  <2>3. \A q \in MpscProducers : MpscPushing(q)' <=> MpscPushing(q)
    BY <1>1 DEF MpscPushing
  <2>4. ASSUME NEW q \in MpscProducers, MpscPushing(q)
        PROVE  /\ read_pos + 1 <= push[q].pos /\ push[q].pos < write_pos
               /\ cells'[Cell(push[q].pos)].sequence = push[q].pos
               /\ accepted[push[q].pos + 1] = push[q].item
               /\ push[q].pc = "publish" => cells'[Cell(push[q].pos)].data = push[q].item
    BY <2>2, <2>4 DEF MpscIInv, MpscPushersOwn
  <2>5. \A q, r \in MpscProducers : MpscPushing(q) /\ MpscPushing(r) /\ q # r
                                      => push[q].pos # push[r].pos
    BY DEF MpscIInv, MpscPushersOwn
  <2>. QED
    BY <1>1, <1>2, <2>3, <2>4, <2>5 DEF MpscPushersOwn
<1>10. MpscPopperOwns'
  BY <1>2 DEF MpscPopperOwns
<1>11. MpscCells'
  <2>1. ASSUME NEW x \in read_pos + 1 .. far - 1
        PROVE  /\ cells'[Cell(x)] = cells[Cell(x)] /\ x # read_pos
               /\ x \in MpscWindow
    BY <1>3, <1>4, <1>6, <2>1
  <2>2. cells'[Cell(far)].sequence = far /\ write_pos <= far
    BY <1>3, <1>6
  <2> SUFFICES ASSUME NEW x \in read_pos + 1 .. far
               PROVE  /\ write_pos <= x => cells'[Cell(x)].sequence = x
                      /\ x < write_pos => cells'[Cell(x)].sequence \in {x, x + 1}
                      /\ x < write_pos /\ cells'[Cell(x)].sequence = x + 1
                           => cells'[Cell(x)].data = accepted[x + 1]
    BY <1>1, <1>5 DEF MpscCells
  <2>3. CASE x = far
    BY <1>3, <2>2, <2>3
  <2>4. CASE x # far
    <3>1. x \in read_pos + 1 .. far - 1
      BY <1>3, <2>4
    <3>2. cells'[Cell(x)] = cells[Cell(x)] /\ x # read_pos /\ x \in MpscWindow
      BY <2>1, <3>1
    <3>. QED
      BY <3>2 DEF MpscIInv, MpscCells
  <2>. QED
    BY <2>3, <2>4
<1>12. MpscStaleClaims'
  <2>1. ASSUME cells[Cell(write_pos)].sequence = write_pos
        PROVE  cells'[Cell(write_pos)].sequence = write_pos
    <3>1. CASE write_pos = far
      BY <1>3, <1>6, <3>1
    <3>2. CASE write_pos # far
      <4>1. write_pos \in read_pos + 1 .. far - 1
        BY <1>3, <3>2
      <4>. QED
        BY <1>4, <1>6, <2>1, <4>1
    <3>. QED
      BY <3>1, <3>2
  <2>. QED
    BY <1>1, <2>1 DEF MpscIInv, MpscStaleClaims
<1>. QED
  BY <1>7, <1>8, <1>9, <1>10, <1>11, <1>12 DEF MpscIInv

LEMMA MpscPopAdvanceInv == ASSUME MpscIInv, MpscPopAdvance PROVE MpscIInv'
<1>1. /\ pop.pc = "advance" /\ pop' = [pop EXCEPT !.pc = "idle"] /\ read_pos' = read_pos + 1
      /\ UNCHANGED <<write_pos, cells, push, accepted>>
  BY DEF MpscPopAdvance
<1>2. /\ pop'.pc = "idle" /\ MpscTaken' = MpscTaken /\ MpscFreed' = MpscFreed
      /\ MpscWindow' = MpscWindow
  BY <1>1 DEF MpscIInv, MpscTypeOK, MpscTaken, MpscFreed, MpscWindow
<1>3. MpscTypeOK'
  <2>1. pop' \in [pc : {"idle", "move", "release", "advance"}, item : MpscItems \cup {MpscNoItem}]
    BY <1>1 DEF MpscIInv, MpscTypeOK
  <2>2. read_pos' \in Nat
    BY <1>1 DEF MpscIInv, MpscTypeOK
  <2>. QED
    BY <1>1, <2>1, <2>2 DEF MpscIInv, MpscTypeOK
<1>4. MpscBounds' /\ MpscStaleClaims' /\ MpscPopperOwns'
  BY <1>1, <1>2 DEF MpscIInv, MpscBounds, MpscStaleClaims, MpscPopperOwns
<1>5. MpscPushersOwn'
  BY <1>1, <1>2 DEF MpscIInv, MpscPushersOwn, MpscPushing
<1>6. MpscCells'
  BY <1>1, <1>2 DEF MpscIInv, MpscCells
<1>. QED
  BY <1>3, <1>4, <1>5, <1>6 DEF MpscIInv

LEMMA MpscInvariance == ASSUME MpscCapacity >= 2 PROVE MpscSpec => []MpscIInv
<1>1. MpscInit => MpscIInv
  BY MpscInitIInv
<1>2. MpscIInv /\ [MpscNext]_mpscVars => MpscIInv'
  <2> SUFFICES ASSUME MpscIInv, [MpscNext]_mpscVars PROVE MpscIInv'
    OBVIOUS
  <2>1. CASE \E p \in MpscProducers : MpscPush(p)
    BY <2>1, MpscPushEarlyInv, MpscPushClaimInv, MpscPushWriteInv, MpscPushPublishInv
       DEF MpscPush
  <2>2. CASE MpscPop
    BY <2>2, MpscPopCheckInv, MpscPopMoveInv, MpscPopReleaseInv, MpscPopAdvanceInv DEF MpscPop
  <2>3. CASE UNCHANGED mpscVars
    BY <2>3 DEF mpscVars, MpscIInv, MpscTypeOK, MpscBounds, MpscPushersOwn, MpscPopperOwns,
       MpscCells, MpscStaleClaims, MpscPushing, MpscTaken, MpscFreed, MpscWindow
  <2>. QED
    BY <2>1, <2>2, <2>3 DEF MpscNext
<1>. QED
  BY <1>1, <1>2, PTL DEF MpscSpec

-----------------------------------------------------------------------------
(* MPSCQueue implements TicketQueue.                                       *)

MpscWritingAt == [p \in MpscProducers |-> IF push[p].pc \in {"write", "publish"} THEN push[p].pos ELSE -1]
MpscReadingAt == [c \in {MpscConsumer} |-> MpscReading]
MpscResult    == [c \in {MpscConsumer} |-> pop.item]

(* A step that leaves the claimed positions, the items, the taken position  *)
(* and the consumer's result alone is a stutter of the abstract queue.      *)
LEMMA MpscStutters ==
  ASSUME UNCHANGED accepted, pop'.item = pop.item,
         MpscTaken' = MpscTaken, MpscReading' = MpscReading,
         \A p \in MpscProducers : /\ MpscPushing(p)' <=> MpscPushing(p)
                                  /\ MpscPushing(p) => push'[p].pos = push[p].pos
  PROVE  UNCHANGED MpscTickets!vars
<1>1. MpscWritingAt' = MpscWritingAt
  BY DEF MpscWritingAt, MpscPushing
<1>2. MpscReadingAt' = MpscReadingAt /\ MpscResult' = MpscResult
  BY DEF MpscReadingAt, MpscResult
<1>. QED
  BY <1>1, <1>2 DEF MpscTickets!vars, MpscWritingAt, MpscReadingAt, MpscResult, MpscTaken

LEMMA MpscPushRefines ==
  ASSUME MpscIInv, NEW p \in MpscProducers, MpscPush(p)
  PROVE  MpscTickets!Next \/ UNCHANGED MpscTickets!vars
<1> USE DEF MpscTickets!None
<1>1. CASE \/ \E v \in MpscItems : MpscPushCall(p, v)
           \/ MpscPushLoad(p) \/ MpscPushCheck(p) \/ MpscPushClaimFail(p)
  <2>1. /\ UNCHANGED <<read_pos, pop, accepted>>
        /\ \A q \in MpscProducers \ {p} : push'[q] = push[q]
        /\ push[p].pc \in {"idle", "load", "check", "claim"}
    BY <1>1 DEF MpscPushCall, MpscPushLoad, MpscPushCheck, MpscPushClaimFail, MpscIInv, MpscTypeOK
  <2>2. push'[p].pc \in {"idle", "load", "check", "claim"}
    <3>1. CASE MpscPushCheck(p)
      <4>1. push[p].pos \in Nat /\ cells[Cell(push[p].pos)].sequence \in Nat
        BY MpscCellType DEF MpscIInv, MpscTypeOK
      <4>. QED
        BY <3>1, <4>1 DEF MpscPushCheck, NoPush, MpscIInv, MpscTypeOK
    <3>. QED
      BY <1>1, <3>1 DEF MpscPushCall, MpscPushLoad, MpscPushClaimFail, MpscIInv, MpscTypeOK
  <2>. QED
    BY <2>1, <2>2, MpscStutters DEF MpscPushing, MpscTaken, MpscReading
<1>2. CASE MpscPushClaim(p)
  <2>1. /\ push[p].pc = "claim" /\ push[p].item \in MpscItems
        /\ write_pos' = write_pos + 1 /\ accepted' = Append(accepted, push[p].item)
        /\ push' = [push EXCEPT ![p].pc = "write"]
        /\ UNCHANGED <<read_pos, cells, pop>>
    BY <1>2 DEF MpscPushClaim, MpscIInv, MpscTypeOK
  <2>2. /\ push[p].pos = write_pos /\ write_pos < MpscFreed + MpscCapacity
        /\ Len(accepted) = write_pos
    BY <1>2, MpscClaimHasRoom, MpscFacts
  <2>3. MpscWritingAt[p] = -1 /\ MpscWritingAt' = [MpscWritingAt EXCEPT ![p] = Len(accepted)]
    BY <2>1, <2>2 DEF MpscWritingAt, MpscIInv, MpscTypeOK
  <2>4. MpscTickets!Room(Len(accepted), MpscTaken, MpscTickets!Busy(MpscReadingAt), MpscCapacity)
    <3>1. Len(accepted) < MpscTaken + MpscCapacity
      BY <2>2, MpscFacts
    <3>2. MpscReading # -1 => Len(accepted) - MpscCapacity # MpscReading
      BY <2>2, MpscFacts DEF MpscReading, MpscFreed
    <3>. QED
      BY <3>1, <3>2 DEF MpscTickets!Room, MpscTickets!Busy, MpscReadingAt
  <2>5. PICK v \in MpscItems : v = push[p].item
    BY <2>1
  <2>6. MpscTickets!Claim(p, v)
    BY <2>1, <2>3, <2>4, <2>5
       DEF MpscTickets!Claim, MpscWritingAt, MpscReadingAt, MpscTaken, MpscReading
  <2>. QED
    BY <2>6 DEF MpscTickets!Next
<1>3. CASE MpscPushWrite(p)
  <2>1. /\ UNCHANGED <<read_pos, pop, accepted>>
        /\ \A q \in MpscProducers \ {p} : push'[q] = push[q]
        /\ push[p].pc = "write" /\ push'[p].pc = "publish" /\ push'[p].pos = push[p].pos
    BY <1>3 DEF MpscPushWrite, MpscIInv, MpscTypeOK
  <2>. QED
    BY <2>1, MpscStutters DEF MpscPushing, MpscTaken, MpscReading
<1>4. CASE MpscPushPublish(p)
  <2>1. /\ push[p].pc = "publish" /\ push' = [push EXCEPT ![p] = NoPush] /\ push[p].pos \in Nat
        /\ UNCHANGED <<write_pos, read_pos, pop, accepted>>
    BY <1>4 DEF MpscPushPublish, MpscIInv, MpscTypeOK
  <2>2. MpscWritingAt[p] # -1 /\ MpscWritingAt' = [MpscWritingAt EXCEPT ![p] = -1]
    <3>1. push'[p].pc = "idle" /\ \A q \in MpscProducers \ {p} : push'[q] = push[q]
      BY <2>1 DEF NoPush, MpscIInv, MpscTypeOK
    <3>2. MpscWritingAt[p] # -1
      BY <2>1 DEF MpscWritingAt
    <3>3. MpscWritingAt' = [MpscWritingAt EXCEPT ![p] = -1]
      BY <3>1 DEF MpscWritingAt
    <3>. QED
      BY <3>2, <3>3
  <2>3. MpscTickets!Publish(p)
    BY <2>1, <2>2 DEF MpscTickets!Publish, MpscWritingAt, MpscReading
  <2>. QED
    BY <2>3 DEF MpscTickets!Next
<1>. QED
  BY <1>1, <1>2, <1>3, <1>4 DEF MpscPush

LEMMA MpscPopRefines ==
  ASSUME MpscIInv, MpscPop
  PROVE  MpscTickets!Next \/ UNCHANGED MpscTickets!vars
<1> USE DEF MpscTickets!None
<1>1. CASE MpscPopCheck
  <2>1. /\ pop.pc = "idle" /\ pop'.pc = "move" /\ pop'.item = pop.item
        /\ cells[Cell(read_pos)].sequence = read_pos + 1
        /\ UNCHANGED <<write_pos, read_pos, cells, push, accepted>>
    BY <1>1 DEF MpscPopCheck, MpscIInv, MpscTypeOK
  <2>2. read_pos < Len(accepted) /\ read_pos \in Nat
    BY <1>1, MpscPopHasItem, MpscFacts
  <2>3. ASSUME NEW p \in MpscProducers, MpscPushing(p) PROVE push[p].pos # read_pos
    BY <2>1, <2>2, <2>3 DEF MpscIInv, MpscPushersOwn
  <2>4. MpscTickets!Ready(Len(accepted), read_pos, MpscTickets!Busy(MpscWritingAt))
    BY <2>2, <2>3 DEF MpscTickets!Ready, MpscTickets!Busy, MpscWritingAt, MpscPushing
  <2>5. MpscTickets!Take(MpscConsumer)
    BY <2>1, <2>4 DEF MpscTickets!Take, MpscWritingAt, MpscReading
  <2>. QED
    BY <2>5 DEF MpscTickets!Next
<1>2. CASE MpscPopMove
  <2>1. pop.pc = "move" /\ cells[Cell(read_pos)].data = accepted[read_pos + 1] /\ read_pos \in Nat
    BY <1>2, MpscMovesOldest, MpscFacts DEF MpscPopMove
  <2>2. MpscTickets!MoveOut(MpscConsumer)
    BY <1>2, <2>1 DEF MpscTickets!MoveOut, MpscPopMove, MpscReading
  <2>. QED
    BY <2>2 DEF MpscTickets!Next
<1>3. CASE MpscPopRelease
  <2>1. /\ pop.pc = "release" /\ pop.item = accepted[read_pos + 1] /\ read_pos \in Nat
        /\ pop'.pc = "advance" /\ pop'.item = pop.item
        /\ UNCHANGED <<write_pos, read_pos, push, accepted>>
    BY <1>3, MpscFacts DEF MpscPopRelease, MpscIInv, MpscTypeOK, MpscPopperOwns
  <2>2. MpscTickets!Release(MpscConsumer)
    BY <2>1 DEF MpscTickets!Release, MpscReading
  <2>. QED
    BY <2>2 DEF MpscTickets!Next
<1>4. CASE MpscPopAdvance
  <2>1. /\ pop.pc = "advance" /\ pop'.pc = "idle" /\ pop'.item = pop.item
        /\ read_pos' = read_pos + 1 /\ UNCHANGED <<push, accepted>>
    BY <1>4 DEF MpscPopAdvance, MpscIInv, MpscTypeOK
  <2>. QED
    BY <2>1, MpscStutters DEF MpscPushing, MpscTaken, MpscReading
<1>. QED
  BY <1>1, <1>2, <1>3, <1>4 DEF MpscPop

(* MPSCQueue.h makes a bounded first-in first-out queue of its cells, for   *)
(* every number of producers and every capacity of at least two.            *)
THEOREM MpscRefinement ==
  ASSUME MpscCapacity >= 2 PROVE MpscSpec => MpscImplementsTicketQueue
<1>1. MpscInit => MpscTickets!Init
  BY DEF MpscInit, MpscTickets!Init, MpscTickets!None, NoPush, MpscReading
<1>2. MpscIInv /\ [MpscNext]_mpscVars => [MpscTickets!Next]_(MpscTickets!vars)
  <2>1. UNCHANGED mpscVars => UNCHANGED MpscTickets!vars
    BY DEF mpscVars, MpscTickets!vars, MpscReading
  <2>. QED
    BY <2>1, MpscPushRefines, MpscPopRefines DEF MpscNext
<1>. QED
  BY <1>1, <1>2, MpscInvariance, PTL DEF MpscSpec, MpscImplementsTicketQueue, MpscTickets!Spec

=============================================================================
