-------------------------- MODULE MPMCQueueProofs --------------------------
(***************************************************************************)
(* Proofs about MPMCQueue for every number of threads, every capacity of   *)
(* at least two and every number of pushes.                                *)
(***************************************************************************)
EXTENDS MPMCQueue, TLAPS

(* Every position has a slot. *)
LEMMA SlotType == \A x \in Nat : Slot(x) \in Slots
  BY CapacityAssumption DEF Slot, Slots

(* Two positions share a slot only if they are at least a lap apart. *)
LEMMA SlotLap ==
  ASSUME NEW x \in Nat, NEW y \in Nat, x < y, Slot(x) = Slot(y)
  PROVE  x + Capacity <= y
<1> DEFINE a == x \div Capacity
           b == y \div Capacity
<1>1. /\ a \in Int /\ b \in Int /\ Capacity \in Int
      /\ x = Capacity * a + (x % Capacity)
      /\ y = Capacity * b + (y % Capacity)
  BY CapacityAssumption
<1>2. x % Capacity = y % Capacity
  BY DEF Slot
<1> HIDE DEF a, b
<1>3. y - x = Capacity * (b - a)
  BY <1>1, <1>2, CapacityAssumption
<1>4. b - a >= 1
  BY <1>1, <1>3, CapacityAssumption
<1>5. Capacity * (b - a) >= Capacity
  BY <1>1, <1>4, CapacityAssumption
<1>. QED
  BY <1>3, <1>5, CapacityAssumption

(* A position and the one a lap later share a slot. *)
LEMMA SlotShift == ASSUME NEW x \in Nat PROVE Slot(x + Capacity) = Slot(x)
<1> DEFINE a == x \div Capacity
           b == (x + Capacity) \div Capacity
           r == x % Capacity
           s == (x + Capacity) % Capacity
<1>1. /\ a \in Int /\ b \in Int /\ Capacity \in Int
      /\ r \in 0 .. Capacity - 1 /\ s \in 0 .. Capacity - 1
      /\ x = Capacity * a + r
      /\ x + Capacity = Capacity * b + s
  BY CapacityAssumption
<1> HIDE DEF a, b, r, s
<1>2. Capacity * (b - a - 1) = r - s
  BY <1>1, CapacityAssumption
<1>3. b - a - 1 = 0
  <2>1. CASE b - a - 1 >= 1
    BY <2>1, <1>1, <1>2, CapacityAssumption
  <2>2. CASE b - a - 1 <= -1
    BY <2>2, <1>1, <1>2, CapacityAssumption
  <2>. QED
    BY <2>1, <2>2, <1>1
<1>4. r = s
  BY <1>1, <1>2, <1>3
<1>. QED
  BY <1>4 DEF Slot, r, s

(* Different positions of one lap have different slots. *)
LEMMA SlotInjective ==
  ASSUME NEW x \in Nat, NEW y \in Nat, x # y, x < y + Capacity, y < x + Capacity
  PROVE  Slot(x) # Slot(y)
  BY SlotLap, CapacityAssumption

(* In the first lap the slot of a position is the position itself. *)
LEMMA SlotSmall == \A x \in Slots : Slot(x) = x
<1> SUFFICES ASSUME NEW x \in Slots PROVE x % Capacity = x
  BY DEF Slot
<1> DEFINE a == x \div Capacity
           r == x % Capacity
<1>1. /\ a \in Int /\ r \in 0 .. Capacity - 1
      /\ x \in 0 .. Capacity - 1
      /\ x = Capacity * a + r
  BY CapacityAssumption DEF Slots
<1> HIDE DEF a, r
<1>2. a = 0
  BY <1>1, CapacityAssumption
<1>. QED
  BY <1>1, <1>2, CapacityAssumption DEF r

-----------------------------------------------------------------------------
(* The inductive invariant.                                                *)

LEMMA InitIInv == Init => IInv
<1> SUFFICES ASSUME Init PROVE IInv
  OBVIOUS
<1> USE CapacityAssumption
<1>1. TypeOK
  BY DEF Init, TypeOK, Slots
<1>2. Bounded /\ Len(log) = head
  BY DEF Init, Bounded
<1>3. PushersOwn /\ PoppersOwn
  BY DEF Init, PushersOwn, PoppersOwn, Pushing, Popping
<1>4. ClaimedSlots
  BY DEF Init, ClaimedSlots, Window
<1>5. FreeSlots
  <2>1. \A x \in Slots : sequence[Slot(x)] = x
    BY SlotSmall DEF Init, Slots
  <2>2. Window = Slots
    BY DEF Init, Window, Slots
  <2>. QED
    BY <2>1, <2>2 DEF FreeSlots
<1>6. StaleReads /\ ApproxWithinCapacity
  BY DEF Init, StaleReads, ApproxWithinCapacity
<1>. QED
  BY <1>1, <1>2, <1>3, <1>4, <1>5, <1>6 DEF IInv

(* What a producer does before its compare-exchange wins touches only its   *)
(* own locals.                                                             *)
LEMMA PushLocal ==
  ASSUME IInv, NEW p \in Producers, ~Pushing(p),
         NEW k \in {"idle", "check", "reload", "cas"},
         pushPc' = [pushPc EXCEPT ![p] = k],
         \/ pushPos' = pushPos
         \/ pushPos' = [pushPos EXCEPT ![p] = head] /\ k # "cas",
         k = "cas" => sequence[Slot(pushPos[p])] = pushPos[p],
         item' \in [Producers -> Items \cup {NoItem}],
         \A q \in Producers \ {p} : item'[q] = item[q],
         UNCHANGED <<head, tail, slotVars, popVars, obsVars, log>>
  PROVE  IInv'
<1> USE DEF slotVars, popVars, obsVars
<1>1. ~Pushing(p)' /\ \A q \in Producers \ {p} :
          /\ Pushing(q)' <=> Pushing(q)
          /\ pushPc'[q] = pushPc[q] /\ pushPos'[q] = pushPos[q]
  BY DEF IInv, TypeOK, Pushing
<1>2. \A c \in Consumers : Popping(c)' <=> Popping(c)
  BY DEF Popping
<1>3. TypeOK'
  BY DEF IInv, TypeOK
<1>4. Bounded' /\ (Len(log) = head)' /\ ApproxWithinCapacity'
  BY DEF IInv, Bounded, ApproxWithinCapacity
<1>5. PushersOwn'
  BY <1>1 DEF IInv, PushersOwn
<1>6. PoppersOwn'
  BY <1>2 DEF IInv, PoppersOwn
<1>7. ClaimedSlots'
  BY <1>1 DEF IInv, ClaimedSlots, Window
<1>8. FreeSlots'
  BY <1>2 DEF IInv, FreeSlots, Window
<1>9. StaleReads'
  BY <1>1 DEF IInv, StaleReads, TypeOK
<1>. QED
  BY <1>3, <1>4, <1>5, <1>6, <1>7, <1>8, <1>9 DEF IInv

(* What a consumer does before its compare-exchange wins touches only its   *)
(* own locals.                                                             *)
LEMMA PopLocal ==
  ASSUME IInv, NEW c \in Consumers, ~Popping(c),
         NEW k \in {"idle", "check", "reload", "cas"},
         popPc' = [popPc EXCEPT ![c] = k],
         \/ popPos' = popPos
         \/ popPos' = [popPos EXCEPT ![c] = tail] /\ k # "cas",
         k = "cas" => sequence[Slot(popPos[c])] = popPos[c] + 1,
         UNCHANGED <<head, tail, slotVars, pushVars, result, obsVars, log>>
  PROVE  IInv'
<1> USE DEF slotVars, pushVars, obsVars
<1>1. ~Popping(c)' /\ \A d \in Consumers \ {c} :
          /\ Popping(d)' <=> Popping(d)
          /\ popPc'[d] = popPc[d] /\ popPos'[d] = popPos[d]
  BY DEF IInv, TypeOK, Popping
<1>2. \A p \in Producers : Pushing(p)' <=> Pushing(p)
  BY DEF Pushing
<1>3. TypeOK'
  BY DEF IInv, TypeOK
<1>4. Bounded' /\ (Len(log) = head)' /\ ApproxWithinCapacity'
  BY DEF IInv, Bounded, ApproxWithinCapacity
<1>5. PushersOwn'
  BY <1>2 DEF IInv, PushersOwn
<1>6. PoppersOwn'
  BY <1>1 DEF IInv, PoppersOwn
<1>7. ClaimedSlots'
  BY <1>2 DEF IInv, ClaimedSlots, Window
<1>8. FreeSlots'
  BY <1>1 DEF IInv, FreeSlots, Window
<1>9. StaleReads'
  BY <1>1 DEF IInv, StaleReads, TypeOK
<1>. QED
  BY <1>3, <1>4, <1>5, <1>6, <1>7, <1>8, <1>9 DEF IInv

(* A producer whose compare-exchange wins found a free slot: the ring had   *)
(* room and nobody was still reading the slot's previous lap.              *)
LEMMA PushClaims == ASSUME IInv, NEW p \in Producers, PushCasWin(p) PROVE IInv'
<1> USE DEF slotVars, popVars, obsVars
<1>1. /\ pushPc[p] = "cas" /\ pushPos[p] = head /\ sequence[Slot(head)] = head
      /\ head \in Nat /\ tail \in Nat /\ Capacity \in Nat /\ Capacity >= 2
      /\ tail <= head /\ head <= tail + Capacity
  BY CapacityAssumption DEF IInv, TypeOK, PushCasWin, StaleReads, Bounded
<1>2. head < tail + Capacity
  <2> SUFFICES ASSUME head = tail + Capacity PROVE FALSE
    BY <1>1
  <2>1. Slot(tail) = Slot(head)
    BY <1>1, SlotShift
  <2>2. tail \in Window /\ tail < head
    BY <1>1 DEF Window
  <2>3. sequence[Slot(tail)] \in {tail, tail + 1}
    BY <2>2 DEF IInv, ClaimedSlots
  <2>. QED
    BY <1>1, <2>1, <2>3
<1>3. \A c \in Consumers : Popping(c) => head + 1 <= popPos[c] + Capacity
  <2> SUFFICES ASSUME NEW c \in Consumers, Popping(c)
               PROVE  head + 1 <= popPos[c] + Capacity
    OBVIOUS
  <2>1. /\ popPos[c] \in Nat /\ head <= popPos[c] + Capacity
        /\ sequence[Slot(popPos[c])] = popPos[c] + 1
    BY DEF IInv, TypeOK, PoppersOwn
  <2>2. ASSUME head = popPos[c] + Capacity PROVE FALSE
    <3>1. Slot(head) = Slot(popPos[c])
      BY <2>1, <2>2, SlotShift
    <3>. QED
      BY <1>1, <2>1, <2>2, <3>1
  <2>. QED
    BY <1>1, <2>1, <2>2
<1>4. /\ head' = head + 1 /\ tail' = tail /\ log' = Append(log, item[p])
      /\ Len(log) = head /\ log \in Seq(Items \cup {NoItem})
      /\ item[p] \in Items \cup {NoItem}
  BY DEF IInv, TypeOK, PushCasWin
<1>5. /\ Len(log') = head' /\ log'[head + 1] = item[p]
      /\ \A i \in 1 .. head : log'[i] = log[i]
  BY <1>1, <1>4
<1>6. /\ Pushing(p)' /\ pushPc'[p] = "write" /\ ~Pushing(p)
      /\ \A q \in Producers \ {p} : pushPc'[q] = pushPc[q] /\ (Pushing(q)' <=> Pushing(q))
      /\ \A c \in Consumers : Popping(c)' <=> Popping(c)
      /\ pushPos' = pushPos /\ item' = item
  BY DEF IInv, TypeOK, PushCasWin, Pushing, Popping
<1>7. TypeOK'
  <2>1. log' \in Seq(Items \cup {NoItem}) /\ head' \in Nat
    BY <1>1, <1>4
  <2>. QED
    BY <2>1 DEF IInv, TypeOK, PushCasWin
<1>8. Bounded'
  BY <1>1, <1>2, <1>4 DEF Bounded
<1>9. PushersOwn'
  <2>1. \A q \in Producers : Pushing(q) => pushPos[q] \in Nat /\ tail <= pushPos[q] /\ pushPos[q] < head
    BY DEF IInv, PushersOwn, TypeOK
  <2>2. ASSUME NEW q \in Producers, Pushing(q)'
        PROVE /\ tail <= pushPos[q] /\ pushPos[q] < head + 1
              /\ sequence[Slot(pushPos[q])] = pushPos[q]
              /\ item[q] = log'[pushPos[q] + 1]
              /\ pushPc'[q] = "publish" => data[Slot(pushPos[q])] = item[q]
    <3>1. CASE q = p
      BY <3>1, <1>1, <1>5, <1>6
    <3>2. CASE q # p
      <4>1. Pushing(q) /\ pushPc'[q] = pushPc[q]
        BY <3>2, <2>2, <1>6
      <4>2. pushPos[q] + 1 \in 1 .. head
        BY <4>1, <2>1, <1>1
      <4>. QED
        BY <4>1, <4>2, <1>1, <1>5, <2>1 DEF IInv, PushersOwn
    <3>. QED
      BY <3>1, <3>2
  <2>3. \A q, r \in Producers : Pushing(q)' /\ Pushing(r)' /\ q # r => pushPos[q] # pushPos[r]
    BY <1>1, <1>6, <2>1 DEF IInv, PushersOwn
  <2>4. /\ sequence' = sequence /\ data' = data /\ tail' = tail /\ head' = head + 1
        /\ pushPos' = pushPos /\ item' = item
    BY <1>4, <1>6 DEF PushCasWin, slotVars
  <2>5. ASSUME NEW q \in Producers, Pushing(q)'
        PROVE /\ tail' <= pushPos'[q] /\ pushPos'[q] < head'
              /\ sequence'[Slot(pushPos'[q])] = pushPos'[q]
              /\ item'[q] = log'[pushPos'[q] + 1]
              /\ pushPc'[q] = "publish" => data'[Slot(pushPos'[q])] = item'[q]
    BY <2>2, <2>4, <2>5
  <2>6. \A q, r \in Producers : Pushing(q)' /\ Pushing(r)' /\ q # r => pushPos'[q] # pushPos'[r]
    BY <2>3, <2>4
  <2>. QED
    BY <2>5, <2>6 DEF PushersOwn, Slot
<1>10. PoppersOwn'
  <2>1. \A c \in Consumers : Popping(c) => popPos[c] + 1 \in 1 .. head
    BY <1>1 DEF IInv, PoppersOwn, TypeOK
  <2>. QED
    BY <2>1, <1>1, <1>3, <1>4, <1>5, <1>6 DEF IInv, PoppersOwn, PushCasWin
<1>11. ClaimedSlots'
  <2> SUFFICES ASSUME NEW x \in Window, x < head + 1
               PROVE  \/ /\ sequence[Slot(x)] = x
                         /\ \E q \in Producers : Pushing(q)' /\ pushPos[q] = x
                      \/ /\ sequence[Slot(x)] = x + 1
                         /\ data[Slot(x)] = log'[x + 1]
    BY <1>4, <1>6 DEF ClaimedSlots, Window, PushCasWin
  <2>1. CASE x = head
    BY <2>1, <1>1, <1>6
  <2>2. CASE x < head
    <3>1. x + 1 \in 1 .. head
      BY <2>2, <1>1 DEF Window
    <3>. QED
      BY <2>2, <3>1, <1>5, <1>6 DEF IInv, ClaimedSlots
  <2>. QED
    BY <2>1, <2>2, <1>1 DEF Window
<1>12. FreeSlots'
  BY <1>1, <1>4, <1>6 DEF IInv, FreeSlots, Window, PushCasWin
<1>13. StaleReads'
  BY <1>1, <1>4, <1>6 DEF IInv, StaleReads, TypeOK, PushCasWin
<1>14. ApproxWithinCapacity'
  BY DEF IInv, ApproxWithinCapacity, PushCasWin
<1>. QED
  BY <1>5, <1>7, <1>8, <1>9, <1>10, <1>11, <1>12, <1>13, <1>14 DEF IInv

(* Positions claimed at the same time have different slots: this is all the *)
(* proofs below need to know about who holds what.                         *)
LEMMA Disjoint ==
  ASSUME IInv
  PROVE  /\ \A p, q \in Producers :
              Pushing(p) /\ Pushing(q) /\ p # q => Slot(pushPos[p]) # Slot(pushPos[q])
         /\ \A c, d \in Consumers :
              Popping(c) /\ Popping(d) /\ c # d => Slot(popPos[c]) # Slot(popPos[d])
         /\ \A p \in Producers, c \in Consumers :
              Pushing(p) /\ Popping(c) => Slot(pushPos[p]) # Slot(popPos[c])
<1> USE CapacityAssumption
<1>1. head \in Nat /\ tail \in Nat /\ tail <= head /\ head <= tail + Capacity
  BY DEF IInv, TypeOK, Bounded
<1>2. \A p \in Producers : Pushing(p) =>
         pushPos[p] \in Nat /\ tail <= pushPos[p] /\ pushPos[p] < head
  BY DEF IInv, TypeOK, PushersOwn
<1>3. \A c \in Consumers : Popping(c) =>
         popPos[c] \in Nat /\ head <= popPos[c] + Capacity /\ popPos[c] < tail
  BY DEF IInv, TypeOK, PoppersOwn
<1>4. ASSUME NEW p \in Producers, NEW q \in Producers, Pushing(p), Pushing(q), p # q
      PROVE  Slot(pushPos[p]) # Slot(pushPos[q])
  <2>1. pushPos[p] # pushPos[q]
    BY <1>4 DEF IInv, PushersOwn
  <2>. QED
    BY <1>1, <1>2, <1>4, <2>1, SlotInjective
<1>5. ASSUME NEW c \in Consumers, NEW d \in Consumers, Popping(c), Popping(d), c # d
      PROVE  Slot(popPos[c]) # Slot(popPos[d])
  <2>1. popPos[c] # popPos[d]
    BY <1>5 DEF IInv, PoppersOwn
  <2>. QED
    BY <1>1, <1>3, <1>5, <2>1, SlotInjective
<1>6. ASSUME NEW p \in Producers, NEW c \in Consumers, Pushing(p), Popping(c)
      PROVE  Slot(pushPos[p]) # Slot(popPos[c])
  BY <1>1, <1>2, <1>3, <1>6, SlotInjective
<1>. QED
  BY <1>4, <1>5, <1>6

(* Writing the item into a claimed slot disturbs nobody else's slot. *)
LEMMA PushWrites == ASSUME IInv, NEW p \in Producers, PushWrite(p) PROVE IInv'
<1> USE DEF slotVars, popVars, obsVars
<1>1. /\ Pushing(p) /\ Pushing(p)' /\ pushPc'[p] = "publish"
      /\ \A q \in Producers : Pushing(q)' <=> Pushing(q)
      /\ \A q \in Producers \ {p} : pushPc'[q] = pushPc[q]
      /\ \A c \in Consumers : Popping(c)' <=> Popping(c)
      /\ UNCHANGED <<head, tail, sequence, pushPos, item, popPc, popPos, result, obsVars, log>>
  BY DEF IInv, TypeOK, PushWrite, Pushing, Popping
<1>2. /\ pushPos[p] \in Nat /\ tail <= pushPos[p] /\ pushPos[p] < head
      /\ head \in Nat /\ tail \in Nat /\ head <= tail + Capacity
      /\ item[p] \in Items \cup {NoItem}
      /\ Capacity \in Nat
      /\ Slot(pushPos[p]) \in Slots
      /\ sequence[Slot(pushPos[p])] = pushPos[p]
  BY <1>1, SlotType, CapacityAssumption DEF IInv, TypeOK, PushersOwn, Bounded
<1>3. /\ data' \in [Slots -> Items \cup {NoItem}]
      /\ data'[Slot(pushPos[p])] = item[p]
      /\ \A i \in Slots : i # Slot(pushPos[p]) => data'[i] = data[i]
  BY <1>2 DEF IInv, TypeOK, PushWrite
<1>4. TypeOK'
  BY <1>1, <1>3 DEF IInv, TypeOK, PushWrite
<1>5. Bounded' /\ (Len(log) = head)' /\ ApproxWithinCapacity' /\ StaleReads'
  BY <1>1 DEF IInv, Bounded, ApproxWithinCapacity, StaleReads, TypeOK, PushWrite
<1>6. PushersOwn'
  <2>1. \A q \in Producers \ {p} : Pushing(q) =>
           data'[Slot(pushPos[q])] = data[Slot(pushPos[q])]
    BY <1>1, <1>3, Disjoint, SlotType DEF IInv, TypeOK
  <2>. QED
    BY <1>1, <1>3, <2>1 DEF IInv, PushersOwn
<1>7. PoppersOwn'
  <2>1. \A c \in Consumers : Popping(c) =>
           data'[Slot(popPos[c])] = data[Slot(popPos[c])]
    BY <1>1, <1>3, Disjoint, SlotType DEF IInv, TypeOK
  <2>. QED
    BY <1>1, <2>1 DEF IInv, PoppersOwn
<1>8. ClaimedSlots'
  <2>1. ASSUME NEW x \in Window, x # pushPos[p]
        PROVE  data'[Slot(x)] = data[Slot(x)]
    <3>1. x \in Nat /\ Slot(x) \in Slots /\ Slot(x) # Slot(pushPos[p])
      BY <1>2, <2>1, SlotType, SlotInjective DEF Window
    <3>. QED
      BY <1>3, <3>1
  <2>. QED
    BY <1>1, <1>2, <2>1 DEF IInv, ClaimedSlots, Window
<1>9. FreeSlots'
  BY <1>1 DEF IInv, FreeSlots, Window
<1>. QED
  BY <1>4, <1>5, <1>6, <1>7, <1>8, <1>9 DEF IInv

(* Publishing hands the slot, item inside, to the consumers. *)
LEMMA PushPublishes == ASSUME IInv, NEW p \in Producers, PushPublish(p) PROVE IInv'
<1> USE DEF slotVars, popVars, obsVars
<1>1. /\ Pushing(p) /\ pushPc[p] = "publish" /\ ~Pushing(p)'
      /\ \A q \in Producers \ {p} : (Pushing(q)' <=> Pushing(q)) /\ pushPc'[q] = pushPc[q]
      /\ \A c \in Consumers : Popping(c)' <=> Popping(c)
      /\ UNCHANGED <<head, tail, data, pushPos, item, popPc, popPos, result, obsVars, log>>
  BY DEF IInv, TypeOK, PushPublish, Pushing, Popping
<1>2. /\ pushPos[p] \in Nat /\ tail <= pushPos[p] /\ pushPos[p] < head
      /\ head \in Nat /\ tail \in Nat /\ head <= tail + Capacity
      /\ Capacity \in Nat /\ Capacity >= 2
      /\ Slot(pushPos[p]) \in Slots
      /\ sequence[Slot(pushPos[p])] = pushPos[p]
      /\ data[Slot(pushPos[p])] = log[pushPos[p] + 1]
  BY <1>1, SlotType, CapacityAssumption DEF IInv, TypeOK, PushersOwn, Bounded
<1>3. /\ sequence' \in [Slots -> Nat]
      /\ sequence'[Slot(pushPos[p])] = pushPos[p] + 1
      /\ \A i \in Slots : i # Slot(pushPos[p]) => sequence'[i] = sequence[i]
  BY <1>2 DEF IInv, TypeOK, PushPublish
<1>4. TypeOK'
  BY <1>1, <1>3 DEF IInv, TypeOK, PushPublish
<1>5. Bounded' /\ (Len(log) = head)' /\ ApproxWithinCapacity'
  BY <1>1 DEF IInv, Bounded, ApproxWithinCapacity
<1>6. PushersOwn'
  <2>1. \A q \in Producers \ {p} : Pushing(q) =>
           sequence'[Slot(pushPos[q])] = sequence[Slot(pushPos[q])]
    BY <1>1, <1>3, Disjoint, SlotType DEF IInv, TypeOK
  <2>. QED
    BY <1>1, <2>1 DEF IInv, PushersOwn
<1>7. PoppersOwn'
  <2>1. \A c \in Consumers : Popping(c) =>
           sequence'[Slot(popPos[c])] = sequence[Slot(popPos[c])]
    BY <1>1, <1>3, Disjoint, SlotType DEF IInv, TypeOK
  <2>. QED
    BY <1>1, <2>1 DEF IInv, PoppersOwn
<1>8. ASSUME NEW x \in Window, x # pushPos[p]
      PROVE  sequence'[Slot(x)] = sequence[Slot(x)]
  <2>1. x \in Nat /\ Slot(x) \in Slots /\ Slot(x) # Slot(pushPos[p])
    BY <1>2, <1>8, SlotType, SlotInjective DEF Window
  <2>. QED
    BY <1>3, <2>1
<1>9. ClaimedSlots'
  BY <1>1, <1>2, <1>3, <1>8 DEF IInv, ClaimedSlots, Window
<1>10. FreeSlots'
  BY <1>1, <1>2, <1>8 DEF IInv, FreeSlots, Window
<1>11. StaleReads'
  <2>1. ASSUME sequence[Slot(head)] = head PROVE sequence'[Slot(head)] = head
    <3>1. Slot(head) # Slot(pushPos[p]) /\ Slot(head) \in Slots
      BY <1>2, <2>1, SlotType
    <3>. QED
      BY <1>3, <2>1, <3>1
  <2>2. ASSUME sequence[Slot(tail)] = tail + 1 PROVE sequence'[Slot(tail)] = tail + 1
    <3>1. tail # pushPos[p] /\ tail \in Window
      BY <1>2, <2>2 DEF Window
    <3>. QED
      BY <1>8, <2>2, <3>1
  <2>. QED
    BY <1>1, <2>1, <2>2 DEF IInv, StaleReads, TypeOK, PushPublish
<1>. QED
  BY <1>4, <1>5, <1>6, <1>7, <1>9, <1>10, <1>11 DEF IInv

(* A consumer whose compare-exchange wins takes a position that a producer  *)
(* has published, so consumers never overtake producers.                   *)
LEMMA PopClaims == ASSUME IInv, NEW c \in Consumers, PopCasWin(c) PROVE IInv'
<1> USE DEF slotVars, pushVars, obsVars
<1>1. /\ popPc[c] = "cas" /\ popPos[c] = tail /\ sequence[Slot(tail)] = tail + 1
      /\ head \in Nat /\ tail \in Nat /\ Capacity \in Nat /\ Capacity >= 2
      /\ tail <= head /\ head <= tail + Capacity /\ tail' = tail + 1
  BY CapacityAssumption DEF IInv, TypeOK, PopCasWin, StaleReads, Bounded
<1>2. tail \in Window
  BY <1>1 DEF Window
<1>3. tail < head
  <2> SUFFICES ASSUME head <= tail PROVE FALSE
    BY <1>1
  <2>1. sequence[Slot(tail)] = tail \/ sequence[Slot(tail)] = tail - Capacity + 1
    BY <1>2 DEF IInv, FreeSlots
  <2>. QED
    BY <1>1, <2>1
<1>4. data[Slot(tail)] = log[tail + 1]
  BY <1>1, <1>2, <1>3 DEF IInv, ClaimedSlots
<1>5. /\ Popping(c)' /\ popPc'[c] = "read" /\ ~Popping(c)
      /\ \A d \in Consumers \ {c} : popPc'[d] = popPc[d] /\ (Popping(d)' <=> Popping(d))
      /\ \A p \in Producers : Pushing(p)' <=> Pushing(p)
      /\ UNCHANGED <<head, sequence, data, pushVars, popPos, result, obsVars, log>>
  BY DEF IInv, TypeOK, PopCasWin, Pushing, Popping
<1>6. TypeOK'
  BY <1>1, <1>5 DEF IInv, TypeOK, PopCasWin
<1>7. Bounded' /\ (Len(log) = head)' /\ ApproxWithinCapacity'
  BY <1>1, <1>3, <1>5 DEF IInv, Bounded, ApproxWithinCapacity
<1>8. PushersOwn'
  <2>1. \A p \in Producers : Pushing(p) => tail + 1 <= pushPos[p]
    BY <1>1 DEF IInv, PushersOwn, TypeOK
  <2>. QED
    BY <1>1, <1>5, <2>1 DEF IInv, PushersOwn
<1>9. PoppersOwn'
  <2>1. \A d \in Consumers : Popping(d) => popPos[d] \in Nat /\ popPos[d] < tail
    BY DEF IInv, PoppersOwn, TypeOK
  <2>2. ASSUME NEW d \in Consumers, Popping(d)'
        PROVE /\ head <= popPos[d] + Capacity /\ popPos[d] < tail + 1
              /\ sequence[Slot(popPos[d])] = popPos[d] + 1
              /\ popPc'[d] = "read" => data[Slot(popPos[d])] = log[popPos[d] + 1]
              /\ popPc'[d] = "release" => result[d] = log[popPos[d] + 1]
    <3>1. CASE d = c
      BY <3>1, <1>1, <1>4, <1>5
    <3>2. CASE d # c
      BY <3>2, <2>1, <2>2, <1>1, <1>5 DEF IInv, PoppersOwn
    <3>. QED
      BY <3>1, <3>2
  <2>3. \A d, e \in Consumers : Popping(d)' /\ Popping(e)' /\ d # e => popPos[d] # popPos[e]
    BY <1>1, <1>5, <2>1 DEF IInv, PoppersOwn
  <2>. QED
    BY <2>2, <2>3, <1>1, <1>5 DEF PoppersOwn
<1>10. ClaimedSlots'
  BY <1>1, <1>5 DEF IInv, ClaimedSlots, Window
<1>11. FreeSlots'
  <2> SUFFICES ASSUME NEW x \in (tail + 1) .. (tail + Capacity), head <= x
               PROVE  \/ sequence[Slot(x)] = x
                      \/ /\ sequence[Slot(x)] = x - Capacity + 1
                         /\ \E d \in Consumers : Popping(d)' /\ popPos[d] = x - Capacity
    BY <1>1, <1>5 DEF FreeSlots, Window
  <2>1. CASE x = tail + Capacity
    <3>1. Slot(x) = Slot(tail) /\ x - Capacity = tail
      BY <2>1, <1>1, SlotShift
    <3>. QED
      BY <3>1, <1>1, <1>5
  <2>2. CASE x # tail + Capacity
    <3>1. x \in Window
      BY <2>2, <1>1 DEF Window
    <3>. QED
      BY <3>1, <1>5 DEF IInv, FreeSlots
  <2>. QED
    BY <2>1, <2>2
<1>12. StaleReads'
  BY <1>1, <1>5 DEF IInv, StaleReads, TypeOK
<1>. QED
  BY <1>6, <1>7, <1>8, <1>9, <1>10, <1>11, <1>12 DEF IInv

(* Moving the item out of a claimed slot disturbs nobody else's slot. *)
LEMMA PopReads == ASSUME IInv, NEW c \in Consumers, PopRead(c) PROVE IInv'
<1> USE DEF slotVars, pushVars, obsVars
<1>1. /\ Popping(c) /\ popPc[c] = "read" /\ popPc'[c] = "release"
      /\ \A d \in Consumers : Popping(d)' <=> Popping(d)
      /\ \A d \in Consumers \ {c} : popPc'[d] = popPc[d] /\ result'[d] = result[d]
      /\ \A p \in Producers : Pushing(p)' <=> Pushing(p)
      /\ UNCHANGED <<head, tail, sequence, pushVars, popPos, obsVars, log>>
  BY DEF IInv, TypeOK, PopRead, Pushing, Popping
<1>2. /\ popPos[c] \in Nat /\ head <= popPos[c] + Capacity /\ popPos[c] < tail
      /\ head \in Nat /\ tail \in Nat /\ tail <= head /\ Capacity \in Nat
      /\ Slot(popPos[c]) \in Slots
      /\ data[Slot(popPos[c])] = log[popPos[c] + 1]
  BY <1>1, SlotType, CapacityAssumption DEF IInv, TypeOK, PoppersOwn, Bounded
<1>3. /\ data' \in [Slots -> Items \cup {NoItem}]
      /\ \A i \in Slots : i # Slot(popPos[c]) => data'[i] = data[i]
      /\ result' \in [Consumers -> Items \cup {NoItem}]
      /\ result'[c] = log[popPos[c] + 1]
  BY <1>2 DEF IInv, TypeOK, PopRead
<1>4. TypeOK'
  BY <1>1, <1>3 DEF IInv, TypeOK, PopRead
<1>5. Bounded' /\ (Len(log) = head)' /\ ApproxWithinCapacity' /\ StaleReads'
  BY <1>1 DEF IInv, Bounded, ApproxWithinCapacity, StaleReads, TypeOK, PopRead
<1>6. PushersOwn'
  <2>1. \A p \in Producers : Pushing(p) => data'[Slot(pushPos[p])] = data[Slot(pushPos[p])]
    BY <1>1, <1>3, Disjoint, SlotType DEF IInv, TypeOK
  <2>. QED
    BY <1>1, <2>1 DEF IInv, PushersOwn
<1>7. PoppersOwn'
  <2>1. \A d \in Consumers \ {c} : Popping(d) => data'[Slot(popPos[d])] = data[Slot(popPos[d])]
    BY <1>1, <1>3, Disjoint, SlotType DEF IInv, TypeOK
  <2>. QED
    BY <1>1, <1>3, <2>1 DEF IInv, PoppersOwn
<1>8. ClaimedSlots'
  <2>1. ASSUME NEW x \in Window, x < head PROVE data'[Slot(x)] = data[Slot(x)]
    <3>1. x \in Nat /\ Slot(x) \in Slots /\ Slot(x) # Slot(popPos[c])
      BY <1>2, <2>1, SlotType, SlotInjective DEF Window
    <3>. QED
      BY <1>3, <3>1
  <2>. QED
    BY <1>1, <2>1 DEF IInv, ClaimedSlots, Window
<1>9. FreeSlots'
  BY <1>1 DEF IInv, FreeSlots, Window
<1>. QED
  BY <1>4, <1>5, <1>6, <1>7, <1>8, <1>9 DEF IInv

(* Releasing hands the slot to the producers of the next lap. *)
LEMMA PopReleases == ASSUME IInv, NEW c \in Consumers, PopRelease(c) PROVE IInv'
<1> USE DEF slotVars, pushVars, obsVars
<1>1. /\ Popping(c) /\ ~Popping(c)'
      /\ \A d \in Consumers \ {c} : (Popping(d)' <=> Popping(d)) /\ popPc'[d] = popPc[d]
      /\ \A p \in Producers : Pushing(p)' <=> Pushing(p)
      /\ UNCHANGED <<head, tail, data, pushVars, popPos, result, obsVars, log>>
  BY DEF IInv, TypeOK, PopRelease, Pushing, Popping
<1>2. /\ popPos[c] \in Nat /\ head <= popPos[c] + Capacity /\ popPos[c] < tail
      /\ head \in Nat /\ tail \in Nat /\ tail <= head
      /\ Capacity \in Nat /\ Capacity >= 2
      /\ Slot(popPos[c]) \in Slots /\ Slot(popPos[c] + Capacity) = Slot(popPos[c])
      /\ sequence[Slot(popPos[c])] = popPos[c] + 1
  BY <1>1, SlotType, SlotShift, CapacityAssumption DEF IInv, TypeOK, PoppersOwn, Bounded
<1>3. /\ sequence' \in [Slots -> Nat]
      /\ sequence'[Slot(popPos[c])] = popPos[c] + Capacity
      /\ \A i \in Slots : i # Slot(popPos[c]) => sequence'[i] = sequence[i]
  BY <1>2 DEF IInv, TypeOK, PopRelease
<1>4. TypeOK'
  BY <1>1, <1>3 DEF IInv, TypeOK, PopRelease
<1>5. Bounded' /\ (Len(log) = head)' /\ ApproxWithinCapacity'
  BY <1>1 DEF IInv, Bounded, ApproxWithinCapacity
<1>6. PushersOwn'
  <2>1. \A p \in Producers : Pushing(p) =>
           sequence'[Slot(pushPos[p])] = sequence[Slot(pushPos[p])]
    BY <1>1, <1>3, Disjoint, SlotType DEF IInv, TypeOK
  <2>. QED
    BY <1>1, <2>1 DEF IInv, PushersOwn
<1>7. PoppersOwn'
  <2>1. \A d \in Consumers \ {c} : Popping(d) =>
           sequence'[Slot(popPos[d])] = sequence[Slot(popPos[d])]
    BY <1>1, <1>3, Disjoint, SlotType DEF IInv, TypeOK
  <2>. QED
    BY <1>1, <2>1 DEF IInv, PoppersOwn
<1>8. ASSUME NEW x \in Window, x # popPos[c] + Capacity
      PROVE  sequence'[Slot(x)] = sequence[Slot(x)]
  <2>1. x \in Nat /\ Slot(x) \in Slots /\ Slot(x) # Slot(popPos[c] + Capacity)
    BY <1>2, <1>8, SlotType, SlotInjective DEF Window
  <2>. QED
    BY <1>2, <1>3, <2>1
<1>9. ClaimedSlots'
  BY <1>1, <1>2, <1>8 DEF IInv, ClaimedSlots, Window
<1>10. FreeSlots'
  BY <1>1, <1>2, <1>3, <1>8 DEF IInv, FreeSlots, Window
<1>11. StaleReads'
  <2>1. ASSUME sequence[Slot(head)] = head PROVE sequence'[Slot(head)] = head
    <3>1. Slot(head) \in Slots /\ (Slot(head) = Slot(popPos[c]) => head = popPos[c] + Capacity)
      BY <1>2, SlotType, SlotLap
    <3>. QED
      BY <1>2, <1>3, <2>1, <3>1
  <2>2. ASSUME sequence[Slot(tail)] = tail + 1 PROVE sequence'[Slot(tail)] = tail + 1
    <3>1. Slot(tail) \in Slots /\ (Slot(tail) = Slot(popPos[c]) => tail = popPos[c] + Capacity)
      BY <1>2, SlotType, SlotLap
    <3>. QED
      BY <1>2, <1>3, <2>2, <3>1
  <2>. QED
    BY <1>1, <2>1, <2>2 DEF IInv, StaleReads, TypeOK, PopRelease
<1>. QED
  BY <1>4, <1>5, <1>6, <1>7, <1>9, <1>10, <1>11 DEF IInv

(* size_approx writes only its own locals. *)
LEMMA SizeObserves == ASSUME IInv, NEW o \in Observers, SizeApprox(o) PROVE IInv'
<1> USE DEF slotVars, pushVars, popVars
<1>1. UNCHANGED <<head, tail, slotVars, pushVars, popVars, log>>
  BY DEF SizeApprox, SizeLoadHead, SizeLoadTail
<1>2. /\ \A p \in Producers : Pushing(p)' <=> Pushing(p)
      /\ \A c \in Consumers : Popping(c)' <=> Popping(c)
  BY <1>1 DEF Pushing, Popping
<1>3. head \in Nat /\ tail \in Nat /\ Capacity \in Nat /\ head <= tail + Capacity
  BY CapacityAssumption DEF IInv, TypeOK, Bounded
<1>4. TypeOK' /\ (\A q \in Observers : obsHead'[q] <= tail + Capacity) /\ ApproxWithinCapacity'
  <2>1. CASE SizeLoadHead(o)
    BY <2>1, <1>1, <1>3 DEF SizeLoadHead, IInv, TypeOK, ApproxWithinCapacity, StaleReads
  <2>2. CASE SizeLoadTail(o)
    <3>1. obsHead[o] \in Nat /\ obsHead[o] <= tail + Capacity
      BY DEF IInv, TypeOK, StaleReads
    <3> DEFINE v == IF obsHead[o] >= tail THEN obsHead[o] - tail ELSE 0
    <3>2. v \in Nat /\ v <= Capacity
      BY <1>3, <3>1
    <3>3. approx' = [approx EXCEPT ![o] = v]
      BY <2>2 DEF SizeLoadTail
    <3> HIDE DEF v
    <3>. QED
      BY <2>2, <3>2, <3>3, <1>1, <1>3 DEF SizeLoadTail, IInv, TypeOK, ApproxWithinCapacity, StaleReads
  <2>. QED
    BY <2>1, <2>2 DEF SizeApprox
<1>5. Bounded' /\ (Len(log) = head)' /\ PushersOwn' /\ PoppersOwn'
  BY <1>1, <1>2 DEF IInv, Bounded, PushersOwn, PoppersOwn
<1>6. ClaimedSlots' /\ FreeSlots'
  BY <1>1, <1>2 DEF IInv, ClaimedSlots, FreeSlots, Window
<1>7. StaleReads'
  BY <1>1, <1>4 DEF IInv, StaleReads
<1>. QED
  BY <1>4, <1>5, <1>6, <1>7 DEF IInv

(* Every step preserves the inductive invariant. *)
LEMMA StepIInv == IInv /\ [Next]_vars => IInv'
<1> SUFFICES ASSUME IInv, [Next]_vars PROVE IInv'
  OBVIOUS
<1>1. ASSUME NEW p \in Producers, Push(p) PROVE IInv'
  <2> USE DEF slotVars, popVars, obsVars
  <2>1. ASSUME NEW v \in Items, PushBegin(p, v) PROVE IInv'
    <3>1. ~Pushing(p)
      BY <2>1 DEF PushBegin, Pushing
    <3>. QED
      BY <2>1, <3>1, PushLocal DEF PushBegin, IInv, TypeOK
  <2>2. CASE PushCheck(p)
    <3> DEFINE diff == sequence[Slot(pushPos[p])] - pushPos[p]
               k == IF diff = 0 THEN "cas" ELSE IF diff < 0 THEN "idle" ELSE "reload"
    <3>1. ~Pushing(p) /\ pushPos[p] \in Nat /\ sequence[Slot(pushPos[p])] \in Nat
      BY <2>2, SlotType DEF PushCheck, Pushing, IInv, TypeOK
    <3>2. k = "cas" => sequence[Slot(pushPos[p])] = pushPos[p]
      BY <3>1
    <3>. QED
      BY <2>2, <3>1, <3>2, PushLocal DEF PushCheck, IInv, TypeOK
  <2>3. CASE PushReload(p)
    <3>1. ~Pushing(p)
      BY <2>3 DEF PushReload, Pushing
    <3>. QED
      BY <2>3, <3>1, PushLocal DEF PushReload, IInv, TypeOK
  <2>4. CASE PushCasFail(p)
    <3>1. ~Pushing(p)
      BY <2>4 DEF PushCasFail, Pushing
    <3>. QED
      BY <2>4, <3>1, PushLocal DEF PushCasFail, IInv, TypeOK
  <2>. QED
    BY <1>1, <2>1, <2>2, <2>3, <2>4, PushClaims, PushWrites, PushPublishes DEF Push
<1>2. ASSUME NEW c \in Consumers, Pop(c) PROVE IInv'
  <2> USE DEF slotVars, pushVars, obsVars
  <2>1. CASE PopBegin(c)
    <3>1. ~Popping(c)
      BY <2>1 DEF PopBegin, Popping
    <3>. QED
      BY <2>1, <3>1, PopLocal DEF PopBegin
  <2>2. CASE PopCheck(c)
    <3> DEFINE diff == sequence[Slot(popPos[c])] - (popPos[c] + 1)
               k == IF diff = 0 THEN "cas" ELSE IF diff < 0 THEN "idle" ELSE "reload"
    <3>1. ~Popping(c) /\ popPos[c] \in Nat /\ sequence[Slot(popPos[c])] \in Nat
      BY <2>2, SlotType DEF PopCheck, Popping, IInv, TypeOK
    <3>2. k = "cas" => sequence[Slot(popPos[c])] = popPos[c] + 1
      BY <3>1
    <3>. QED
      BY <2>2, <3>1, <3>2, PopLocal DEF PopCheck
  <2>3. CASE PopReload(c)
    <3>1. ~Popping(c)
      BY <2>3 DEF PopReload, Popping
    <3>. QED
      BY <2>3, <3>1, PopLocal DEF PopReload
  <2>4. CASE PopCasFail(c)
    <3>1. ~Popping(c)
      BY <2>4 DEF PopCasFail, Popping
    <3>. QED
      BY <2>4, <3>1, PopLocal DEF PopCasFail
  <2>. QED
    BY <1>2, <2>1, <2>2, <2>3, <2>4, PopClaims, PopReads, PopReleases DEF Pop
<1>3. CASE UNCHANGED vars
  <2> USE DEF vars, slotVars, pushVars, popVars, obsVars
  <2>1. /\ \A p \in Producers : Pushing(p)' <=> Pushing(p)
        /\ \A c \in Consumers : Popping(c)' <=> Popping(c)
    BY <1>3 DEF Pushing, Popping
  <2>2. TypeOK' /\ Bounded' /\ (Len(log) = head)' /\ StaleReads' /\ ApproxWithinCapacity'
    BY <1>3 DEF IInv, TypeOK, Bounded, StaleReads, ApproxWithinCapacity
  <2>3. PushersOwn' /\ PoppersOwn'
    BY <1>3, <2>1 DEF IInv, PushersOwn, PoppersOwn
  <2>4. ClaimedSlots' /\ FreeSlots'
    BY <1>3, <2>1 DEF IInv, ClaimedSlots, FreeSlots, Window
  <2>. QED
    BY <2>2, <2>3, <2>4 DEF IInv
<1>. QED
  BY <1>1, <1>2, <1>3, SizeObserves DEF Next

(* The inductive invariant, with it the type invariant, the bound on the    *)
(* claimed positions and the bound on what size_approx returns, hold in     *)
(* every state of every behaviour.                                         *)
THEOREM Invariance == Spec => []IInv
  BY InitIInv, StepIInv, PTL DEF Spec

(* size_approx, racing with everyone, never returns more than the capacity; *)
(* tail_ never passes head_, and head_ is never a lap ahead of it.            *)
THEOREM SizeApproxBounded == Spec => [](TypeOK /\ Bounded /\ ApproxWithinCapacity)
<1>1. IInv => TypeOK /\ Bounded /\ ApproxWithinCapacity
  BY DEF IInv
<1>. QED
  BY Invariance, <1>1, PTL

(* No two threads are ever inside the same slot's data. *)
THEOREM NoDataRace == Spec => []SlotExclusive
<1>1. IInv => SlotExclusive
  BY Disjoint DEF SlotExclusive
<1>. QED
  BY Invariance, <1>1, PTL

(* A consumer gets the item whose push won the position it popped. *)
THEOREM Fifo == Spec => []PopReturnsPushed
<1>1. IInv => PopReturnsPushed
  BY DEF IInv, PoppersOwn, PopReturnsPushed, Popping
<1>. QED
  BY Invariance, <1>1, PTL

-----------------------------------------------------------------------------
(* When an operation may give up.                                          *)

(* A position written as a lap and an offset has that offset as its slot. *)
LEMMA SlotOffset ==
  ASSUME NEW a \in Int, NEW i \in Slots, Capacity * a + i \in Nat
  PROVE  Slot(Capacity * a + i) = i
<1> DEFINE x == Capacity * a + i
           b == x \div Capacity
           r == x % Capacity
<1>1. /\ b \in Int /\ r \in 0 .. Capacity - 1 /\ i \in 0 .. Capacity - 1
      /\ x = Capacity * b + r /\ x = Capacity * a + i
  BY CapacityAssumption DEF Slots
<1> HIDE DEF x, b, r
<1>2. Capacity * (b - a) = i - r
  BY <1>1, CapacityAssumption
<1>3. b - a = 0
  <2>1. CASE b - a >= 1
    BY <2>1, <1>1, <1>2, CapacityAssumption
  <2>2. CASE b - a <= -1
    BY <2>2, <1>1, <1>2, CapacityAssumption
  <2>. QED
    BY <2>1, <2>2, <1>1
<1>4. r = i
  BY <1>1, <1>2, <1>3, CapacityAssumption
<1>. QED
  BY <1>4 DEF Slot, r, x

(* Every slot stands for one position of the window that starts at tail. *)
LEMMA WindowCovers ==
  ASSUME tail \in Nat, NEW i \in Slots
  PROVE  \E y \in Window : Slot(y) = i
<1> DEFINE a == tail \div Capacity
           s == tail % Capacity
<1>1. /\ a \in Int /\ s \in 0 .. Capacity - 1 /\ i \in 0 .. Capacity - 1
      /\ tail = Capacity * a + s /\ Capacity \in Nat
  BY CapacityAssumption DEF Slots
<1> HIDE DEF a, s
<1>2. CASE i >= s
  <2>1. Capacity * a + i \in Window /\ Capacity * a + i \in Nat
    BY <1>1, <1>2 DEF Window
  <2>. QED
    BY <2>1, <1>1, SlotOffset
<1>3. CASE i < s
  <2>1. Capacity * (a + 1) = Capacity * a + Capacity
    BY <1>1
  <2>2. Capacity * (a + 1) + i \in Window /\ Capacity * (a + 1) + i \in Nat /\ a + 1 \in Int
    BY <2>1, <1>1, <1>3 DEF Window
  <2>. QED
    BY <2>2, SlotOffset
<1>. QED
  BY <1>1, <1>2, <1>3

(* A slot never carries a sequence older than its window position allows,   *)
(* so a position behind tail is always seen as already overtaken.          *)
LEMMA BehindTail ==
  ASSUME IInv, NEW x \in Nat, x < tail
  PROVE  sequence[Slot(x)] >= x + 1
<1>1. head \in Nat /\ tail \in Nat /\ Capacity \in Nat /\ Capacity >= 2
  BY CapacityAssumption DEF IInv, TypeOK
<1>2. PICK y \in Window : Slot(y) = Slot(x)
  BY <1>1, SlotType, WindowCovers
<1>3. y \in Nat /\ x < y
  BY <1>1, <1>2 DEF Window
<1>4. x + Capacity <= y
  BY <1>2, <1>3, SlotLap
<1>5. sequence[Slot(y)] \in {y, y + 1, y - Capacity + 1}
  BY <1>1, <1>3 DEF IInv, ClaimedSlots, FreeSlots
<1>. QED
  BY <1>1, <1>2, <1>3, <1>4, <1>5

(* At the load that makes try_push give up, the ring is full or the slot    *)
(* has not been released by the consumer of the previous lap.               *)
LEMMA PushFailure ==
  ASSUME IInv, [Next]_vars, NEW p \in Producers, PushFails(p)
  PROVE  /\ pushPos[p] = head
         /\ \/ head = tail + Capacity
            \/ \E c \in Consumers : Popping(c) /\ popPos[c] = head - Capacity
<1>0. pushPc[p] = "check" /\ pushPc'[p] = "idle"
  BY DEF PushFails
<1>1. sequence[Slot(pushPos[p])] < pushPos[p]
  <2>1. PICK q \in Producers : PushCheck(q)
    BY <1>0 DEF Next, Push, Pop, SizeApprox, PushBegin, PushReload, PushCasWin, PushCasFail,
         PushWrite, PushPublish, PopBegin, PopCheck, PopReload, PopCasWin, PopCasFail, PopRead,
         PopRelease, SizeLoadHead, SizeLoadTail, vars, pushVars, IInv, TypeOK
  <2>2. q = p
    BY <1>0, <2>1 DEF PushCheck, IInv, TypeOK
  <2>3. sequence[Slot(pushPos[p])] \in Nat /\ pushPos[p] \in Nat
    BY <1>0, SlotType DEF IInv, TypeOK
  <2>. QED
    BY <1>0, <2>1, <2>2, <2>3 DEF PushCheck, IInv, TypeOK
<1>2. /\ head \in Nat /\ tail \in Nat /\ Capacity \in Nat /\ Capacity >= 2
      /\ tail <= head /\ head <= tail + Capacity
      /\ pushPos[p] \in Nat /\ pushPos[p] <= head
      /\ sequence[Slot(pushPos[p])] \in Nat
  BY <1>0, SlotType, CapacityAssumption DEF IInv, TypeOK, Bounded, StaleReads
<1>3. pushPos[p] >= tail
  BY <1>0, <1>1, <1>2, BehindTail
<1>4. pushPos[p] = head
  <2>1. ASSUME pushPos[p] < head PROVE FALSE
    <3>1. pushPos[p] \in Window
      BY <1>2, <1>3, <2>1 DEF Window
    <3>2. sequence[Slot(pushPos[p])] \in {pushPos[p], pushPos[p] + 1}
      BY <1>0, <2>1, <3>1 DEF IInv, ClaimedSlots
    <3>. QED
      BY <1>1, <1>2, <3>2
  <2>. QED
    BY <1>2, <2>1
<1>5. ASSUME head # tail + Capacity
      PROVE  \E c \in Consumers : Popping(c) /\ popPos[c] = head - Capacity
  <2>1. head \in Window
    BY <1>2, <1>5 DEF Window
  <2>. QED
    BY <1>0, <1>1, <1>2, <1>4, <2>1 DEF IInv, FreeSlots
<1>. QED
  BY <1>4, <1>5

(* At the load that makes try_pop give up, the ring is empty or the oldest  *)
(* position has not been published by its producer.                         *)
LEMMA PopFailure ==
  ASSUME IInv, [Next]_vars, NEW c \in Consumers, PopFails(c)
  PROVE  /\ popPos[c] = tail
         /\ \/ head = tail
            \/ \E p \in Producers : Pushing(p) /\ pushPos[p] = tail
<1>0. popPc[c] = "check" /\ popPc'[c] = "idle"
  BY DEF PopFails
<1>1. sequence[Slot(popPos[c])] < popPos[c] + 1
  <2>1. PICK d \in Consumers : PopCheck(d)
    BY <1>0 DEF Next, Push, Pop, SizeApprox, PushBegin, PushCheck, PushReload, PushCasWin,
         PushCasFail, PushWrite, PushPublish, PopBegin, PopReload, PopCasWin, PopCasFail, PopRead,
         PopRelease, SizeLoadHead, SizeLoadTail, vars, popVars, IInv, TypeOK
  <2>2. d = c
    BY <1>0, <2>1 DEF PopCheck, IInv, TypeOK
  <2>3. sequence[Slot(popPos[c])] \in Nat /\ popPos[c] \in Nat
    BY <1>0, SlotType DEF IInv, TypeOK
  <2>. QED
    BY <1>0, <2>1, <2>2, <2>3 DEF PopCheck, IInv, TypeOK
<1>2. /\ head \in Nat /\ tail \in Nat /\ Capacity \in Nat /\ Capacity >= 2
      /\ tail <= head /\ popPos[c] \in Nat /\ popPos[c] <= tail
      /\ sequence[Slot(popPos[c])] \in Nat
  BY <1>0, SlotType, CapacityAssumption DEF IInv, TypeOK, Bounded, StaleReads
<1>3. popPos[c] = tail
  BY <1>0, <1>1, <1>2, BehindTail
<1>4. ASSUME head # tail
      PROVE  \E p \in Producers : Pushing(p) /\ pushPos[p] = tail
  <2>1. tail \in Window /\ tail < head
    BY <1>2, <1>4 DEF Window
  <2>. QED
    BY <1>0, <1>1, <1>2, <1>3, <2>1 DEF IInv, ClaimedSlots
<1>. QED
  BY <1>3, <1>4

(* try_push returns false only when the ring is full or the slot is still   *)
(* being read; try_pop only when it is empty or the slot is being written.  *)
THEOREM FailuresAreJustified == Spec => FailuresJustified
<1>1. IInv /\ [Next]_vars =>
        [/\ \A p \in Producers : PushFails(p) =>
               /\ pushPos[p] = head
               /\ \/ head = tail + Capacity
                  \/ \E c \in Consumers : Popping(c) /\ popPos[c] = head - Capacity
         /\ \A c \in Consumers : PopFails(c) =>
               /\ popPos[c] = tail
               /\ \/ head = tail
                  \/ \E p \in Producers : Pushing(p) /\ pushPos[p] = tail]_vars
  BY PushFailure, PopFailure
<1>. QED
  BY <1>1, Invariance, PTL DEF Spec, FailuresJustified

-----------------------------------------------------------------------------
(* MPMCQueue implements TicketQueue, for every number of threads, every    *)
(* capacity of at least two and every number of pushes.  The inductive     *)
(* invariant supplies what the sequence numbers stand for.                 *)

LEMMA InitRefines == Init => Abstract!Init
  BY DEF Init, Abstract!Init, Abstract!None, Writing, Reading, Pushing, Popping

(* A step that leaves positions in progress, items and results alone is a  *)
(* stutter of the abstract queue.                                          *)
LEMMA Stutters ==
  ASSUME UNCHANGED <<head, tail, log, result>>,
         \A p \in Producers : /\ Pushing(p)' <=> Pushing(p)
                              /\ Pushing(p) => pushPos'[p] = pushPos[p],
         \A c \in Consumers : /\ Popping(c)' <=> Popping(c)
                              /\ Popping(c) => popPos'[c] = popPos[c]
  PROVE  UNCHANGED Abstract!vars
<1>1. Writing' = Writing
  BY DEF Writing
<1>2. Reading' = Reading
  BY DEF Reading
<1>. QED
  BY <1>1, <1>2 DEF Abstract!vars

(* The compare-exchange on head_ succeeds only where the abstract queue has *)
(* room: the sequence that let the producer in excludes a full ring and a   *)
(* consumer still reading the previous lap.                                *)
LEMMA ClaimRefines ==
  ASSUME IInv, NEW p \in Producers, PushCasWin(p), item[p] \in Items
  PROVE  Abstract!Claim(p, item[p])
<1>1. /\ head \in Nat /\ tail \in Nat /\ Capacity \in Nat /\ Capacity >= 2
      /\ tail <= head /\ head <= tail + Capacity /\ Len(log) = head
      /\ pushPos[p] = head /\ pushPc[p] = "cas"
      /\ sequence[Slot(head)] = head
  BY CapacityAssumption DEF IInv, TypeOK, Bounded, StaleReads, PushCasWin
<1>2. head # tail + Capacity
  <2>1. ASSUME head = tail + Capacity PROVE FALSE
    <3>1. Slot(head) = Slot(tail)
      BY <1>1, <2>1, SlotShift
    <3>2. sequence[Slot(tail)] \in {tail, tail + 1}
      BY <1>1, <2>1 DEF IInv, ClaimedSlots, Window
    <3>. QED
      BY <1>1, <2>1, <3>1, <3>2
  <2>. QED
    BY <2>1
<1>3. ASSUME NEW c \in Consumers, Popping(c), popPos[c] = head - Capacity
      PROVE  FALSE
  <2>1. popPos[c] \in Nat /\ sequence[Slot(popPos[c])] = popPos[c] + 1
    BY <1>3 DEF IInv, TypeOK, PoppersOwn
  <2>2. Slot(popPos[c]) = Slot(head)
    BY <1>1, <1>3, <2>1, SlotShift
  <2>. QED
    BY <1>1, <1>3, <2>1, <2>2
<1>4. head - Capacity \notin Abstract!Busy(Reading)
  BY <1>3 DEF Abstract!Busy, Abstract!None, Reading
<1>5. Abstract!Room(Len(log), tail, Abstract!Busy(Reading), Capacity)
  BY <1>1, <1>2, <1>4 DEF Abstract!Room
<1>6. Writing[p] = Abstract!None /\ Reading' = Reading
  BY <1>1 DEF Writing, Reading, Pushing, Popping, Abstract!None, PushCasWin, popVars
<1>7. Writing' = [Writing EXCEPT ![p] = Len(log)]
  BY <1>1 DEF Writing, Pushing, PushCasWin, IInv, TypeOK
<1>. QED
  BY <1>5, <1>6, <1>7 DEF Abstract!Claim, PushCasWin, popVars

LEMMA PublishRefines ==
  ASSUME IInv, NEW p \in Producers, PushPublish(p)
  PROVE  Abstract!Publish(p)
<1>1. Writing[p] # Abstract!None
  BY DEF Writing, Pushing, PushPublish, Abstract!None, IInv, TypeOK
<1>2. Writing' = [Writing EXCEPT ![p] = Abstract!None]
  BY DEF Writing, Pushing, PushPublish, Abstract!None, IInv, TypeOK
<1>3. Reading' = Reading
  BY DEF Reading, Popping, PushPublish, popVars
<1>. QED
  BY <1>1, <1>2, <1>3 DEF Abstract!Publish, PushPublish, popVars

(* The compare-exchange on tail_ succeeds only on a published position.     *)
LEMMA TakeRefines ==
  ASSUME IInv, NEW c \in Consumers, PopCasWin(c)
  PROVE  Abstract!Take(c)
<1>1. /\ head \in Nat /\ tail \in Nat /\ Capacity \in Nat /\ Capacity >= 2
      /\ tail <= head /\ Len(log) = head
      /\ popPos[c] = tail /\ popPc[c] = "cas"
      /\ sequence[Slot(tail)] = tail + 1
  BY CapacityAssumption DEF IInv, TypeOK, Bounded, StaleReads, PopCasWin
<1>2. tail < head
  <2>1. ASSUME tail = head PROVE FALSE
    <3>1. sequence[Slot(tail)] \in {tail, tail - Capacity + 1}
      BY <1>1, <2>1 DEF IInv, FreeSlots, Window
    <3>. QED
      BY <1>1, <3>1
  <2>. QED
    BY <1>1, <2>1
<1>3. ASSUME NEW p \in Producers, Pushing(p), pushPos[p] = tail PROVE FALSE
  BY <1>1, <1>3 DEF IInv, PushersOwn
<1>4. tail \notin Abstract!Busy(Writing)
  BY <1>1, <1>3 DEF Abstract!Busy, Abstract!None, Writing
<1>5. Abstract!Ready(Len(log), tail, Abstract!Busy(Writing))
  BY <1>1, <1>2, <1>4 DEF Abstract!Ready
<1>6. Reading[c] = Abstract!None /\ Writing' = Writing
  BY <1>1 DEF Writing, Reading, Pushing, Popping, Abstract!None, PopCasWin, pushVars
<1>7. Reading' = [Reading EXCEPT ![c] = tail]
  BY <1>1 DEF Reading, Popping, PopCasWin, IInv, TypeOK
<1>. QED
  BY <1>5, <1>6, <1>7 DEF Abstract!Take, PopCasWin

LEMMA MoveOutRefines ==
  ASSUME IInv, NEW c \in Consumers, PopRead(c)
  PROVE  Abstract!MoveOut(c)
<1>1. Reading[c] = popPos[c] /\ popPos[c] \in Nat
  BY DEF Reading, Popping, PopRead, IInv, TypeOK
<1>2. data[Slot(popPos[c])] = log[popPos[c] + 1]
  BY DEF PopRead, Popping, IInv, PoppersOwn
<1>3. Writing' = Writing
  BY DEF Writing, Pushing, PopRead, pushVars
<1>4. Reading' = Reading
  BY DEF Reading, Popping, PopRead, IInv, TypeOK
<1>. QED
  BY <1>1, <1>2, <1>3, <1>4 DEF Abstract!MoveOut, Abstract!None, PopRead

LEMMA ReleaseRefines ==
  ASSUME IInv, NEW c \in Consumers, PopRelease(c)
  PROVE  Abstract!Release(c)
<1>1. Reading[c] = popPos[c] /\ popPos[c] \in Nat
  BY DEF Reading, Popping, PopRelease, IInv, TypeOK
<1>2. result[c] = log[popPos[c] + 1]
  BY DEF PopRelease, Popping, IInv, PoppersOwn
<1>3. Writing' = Writing
  BY DEF Writing, Pushing, PopRelease, pushVars
<1>4. Reading' = [Reading EXCEPT ![c] = Abstract!None]
  BY DEF Reading, Popping, PopRelease, Abstract!None, IInv, TypeOK
<1>. QED
  BY <1>1, <1>2, <1>3, <1>4 DEF Abstract!Release, Abstract!None, PopRelease

-----------------------------------------------------------------------------
(* A producer in try_push has an item to push.                             *)
HasItem == \A p \in Producers : pushPc[p] # "idle" => item[p] \in Items

LEMMA ItemInvariance == Spec => []HasItem
<1>1. Init => HasItem
  BY DEF Init, HasItem
<1>2. ASSUME IInv, HasItem, [Next]_vars PROVE HasItem'
  <2>1. CASE \E p \in Producers : Push(p)
    <3>1. PICK p \in Producers : Push(p)
      BY <2>1
    <3>2. CASE \E v \in Items : PushBegin(p, v)
      BY <1>2, <3>2 DEF PushBegin, HasItem, IInv, TypeOK
    <3>3. ASSUME item' = item, pushPc[p] # "idle",
                 \A q \in Producers \ {p} : pushPc'[q] = pushPc[q]
          PROVE  HasItem'
      BY <1>2, <3>3 DEF HasItem
    <3>4. CASE PushCheck(p)
      BY <1>2, <3>3, <3>4 DEF PushCheck, IInv, TypeOK
    <3>5. CASE PushReload(p) \/ PushCasWin(p) \/ PushCasFail(p)
      BY <1>2, <3>3, <3>5 DEF PushReload, PushCasWin, PushCasFail, IInv, TypeOK
    <3>6. CASE PushWrite(p) \/ PushPublish(p)
      BY <1>2, <3>3, <3>6 DEF PushWrite, PushPublish, IInv, TypeOK
    <3>. QED
      BY <3>1, <3>2, <3>4, <3>5, <3>6 DEF Push
  <2>2. CASE UNCHANGED pushVars
    BY <1>2, <2>2 DEF HasItem, pushVars
  <2>3. (\E c \in Consumers : Pop(c)) => UNCHANGED pushVars
    BY DEF Pop, PopBegin, PopCheck, PopReload, PopCasWin, PopCasFail, PopRead, PopRelease
  <2>4. (\E o \in Observers : SizeApprox(o)) => UNCHANGED pushVars
    BY DEF SizeApprox, SizeLoadHead, SizeLoadTail
  <2>5. UNCHANGED vars => UNCHANGED pushVars
    BY DEF vars
  <2>. QED
    BY <1>2, <2>1, <2>2, <2>3, <2>4, <2>5 DEF Next
<1>. QED
  BY <1>1, <1>2, Invariance, PTL DEF Spec

(* Every step of the ring is a step of the abstract queue or a stutter.     *)
LEMMA StepRefines ==
  ASSUME IInv, HasItem, [Next]_vars
  PROVE  [Abstract!Next]_(Abstract!vars)
<1> USE DEF popVars, pushVars
<1>1. CASE \E p \in Producers : Push(p)
  <2>1. PICK p \in Producers : Push(p)
    BY <1>1
  <2>2. ASSUME ~Pushing(p), ~Pushing(p)',
               \A q \in Producers \ {p} : pushPc'[q] = pushPc[q] /\ pushPos'[q] = pushPos[q],
               UNCHANGED <<head, tail, log, popVars>>
        PROVE  UNCHANGED Abstract!vars
    BY <2>2, Stutters DEF Pushing, Popping
  <2>3. CASE (\E v \in Items : PushBegin(p, v)) \/ PushReload(p) \/ PushCasFail(p)
    BY <2>2, <2>3 DEF PushBegin, PushReload, PushCasFail, Pushing, IInv, TypeOK
  <2>4. CASE PushCheck(p)
    BY <2>2, <2>4 DEF PushCheck, Pushing, IInv, TypeOK
  <2>5. CASE PushCasWin(p)
    <3>1. item[p] \in Items
      BY <2>5 DEF HasItem, PushCasWin
    <3>. QED
      BY <2>5, <3>1, ClaimRefines DEF Abstract!Next
  <2>6. CASE PushWrite(p)
    <3>1. Pushing(p) /\ Pushing(p)'
      BY <2>6 DEF PushWrite, Pushing, IInv, TypeOK
    <3>2. \A q \in Producers : Pushing(q)' <=> Pushing(q)
      BY <2>6, <3>1 DEF PushWrite, Pushing, IInv, TypeOK
    <3>. QED
      BY <2>6, <3>2, Stutters DEF PushWrite, Popping
  <2>7. CASE PushPublish(p)
    BY <2>7, PublishRefines DEF Abstract!Next
  <2>. QED
    BY <2>1, <2>3, <2>4, <2>5, <2>6, <2>7 DEF Push
<1>2. CASE \E c \in Consumers : Pop(c)
  <2>1. PICK c \in Consumers : Pop(c)
    BY <1>2
  <2>2. ASSUME ~Popping(c), ~Popping(c)',
               \A d \in Consumers \ {c} : popPc'[d] = popPc[d] /\ popPos'[d] = popPos[d],
               UNCHANGED <<head, tail, log, result, pushVars>>
        PROVE  UNCHANGED Abstract!vars
    BY <2>2, Stutters DEF Pushing, Popping
  <2>3. CASE PopBegin(c) \/ PopReload(c) \/ PopCasFail(c)
    BY <2>2, <2>3 DEF PopBegin, PopReload, PopCasFail, Popping, IInv, TypeOK
  <2>4. CASE PopCheck(c)
    BY <2>2, <2>4 DEF PopCheck, Popping, IInv, TypeOK
  <2>5. CASE PopCasWin(c)
    BY <2>5, TakeRefines DEF Abstract!Next
  <2>6. CASE PopRead(c)
    BY <2>6, MoveOutRefines DEF Abstract!Next
  <2>7. CASE PopRelease(c)
    BY <2>7, ReleaseRefines DEF Abstract!Next
  <2>. QED
    BY <2>1, <2>3, <2>4, <2>5, <2>6, <2>7 DEF Pop
<1>3. CASE \E o \in Observers : SizeApprox(o)
  BY <1>3, Stutters DEF SizeApprox, SizeLoadHead, SizeLoadTail, Pushing, Popping
<1>4. CASE UNCHANGED vars
  BY <1>4, Stutters DEF vars, Pushing, Popping
<1>. QED
  BY <1>1, <1>2, <1>3, <1>4 DEF Next

(* The lock-free ring of MPMCQueue.h behaves as a bounded first-in          *)
(* first-out queue, whoever calls it and however the calls interleave.      *)
THEOREM Refinement == Spec => ImplementsTicketQueue
<1>1. IInv /\ HasItem /\ [Next]_vars => [Abstract!Next]_(Abstract!vars)
  BY StepRefines
<1>. QED
  BY <1>1, InitRefines, Invariance, ItemInvariance, PTL
     DEF Spec, ImplementsTicketQueue, Abstract!Spec
=============================================================================
