------------------------ MODULE CunkCoordinationProofs ------------------------
(***************************************************************************)
(* Proofs about cunk's BackpressuredQueue, EventLoop and AsyncTask: for    *)
(* every number of producers, pushes, events and handlers, every capacity  *)
(* and every number of spins, and a chain of any length.                   *)
(***************************************************************************)
EXTENDS BackpressuredQueue, EventLoop, AsyncTask, SequenceTheorems, TLAPS

-----------------------------------------------------------------------------
(* BackpressuredQueue: sequences of entries.                               *)

EntryShape == [from : PushThreads, number : Nat, whole : BOOLEAN]

\* No two entries of A are of the same push.
Once(A)   == \A i, j \in DOMAIN A : Label(A[i]) = Label(A[j]) => i = j
Labels(A) == {Label(A[i]) : i \in DOMAIN A}

\* The entries of A are whole, but for those of the pushes in F.
Intact(A, F) == \A i \in DOMAIN A : A[i].whole \/ Label(A[i]) \in F

(* What one more entry does to a sequence of them. *)
LEMMA OneMore ==
  ASSUME NEW A \in Seq(EntryShape), NEW e \in EntryShape, NEW F,
         Once(A), Label(e) \notin Labels(A)
  PROVE  /\ Once(Append(A, e))
         /\ Labels(Append(A, e)) = Labels(A) \cup {Label(e)}
         /\ Intact(A, F) /\ (e.whole \/ Label(e) \in F) => Intact(Append(A, e), F)
<1>1. PICK B : B = Append(A, e)
  OBVIOUS
<1>2. /\ B \in Seq(EntryShape) /\ Len(B) = Len(A) + 1 /\ Len(A) \in Nat
      /\ \A i \in 1 .. Len(A) : B[i] = A[i]
      /\ B[Len(A) + 1] = e
      /\ DOMAIN A = 1 .. Len(A) /\ DOMAIN B = 1 .. Len(A) + 1
  BY <1>1, AppendProperties
<1>3. \A i \in DOMAIN B : i \in DOMAIN A \/ i = Len(A) + 1
  BY <1>2
<1>4. Len(A) + 1 \in DOMAIN B /\ DOMAIN A \subseteq DOMAIN B
  BY <1>2
<1>5. Once(B)
  <2> SUFFICES ASSUME NEW i \in DOMAIN B, NEW j \in DOMAIN B, Label(B[i]) = Label(B[j]) PROVE i = j
    BY DEF Once
  <2>1. CASE i \in DOMAIN A /\ j \in DOMAIN A
    BY <2>1, <1>2 DEF Once
  <2>2. CASE i \in DOMAIN A /\ j = Len(A) + 1
    BY <2>2, <1>2 DEF Labels
  <2>3. CASE i = Len(A) + 1 /\ j \in DOMAIN A
    BY <2>3, <1>2 DEF Labels
  <2>. QED
    BY <2>1, <2>2, <2>3, <1>3
<1>6. Labels(B) = Labels(A) \cup {Label(e)}
  <2>1. ASSUME NEW l \in Labels(B) PROVE l \in Labels(A) \cup {Label(e)}
    <3>1. PICK i \in DOMAIN B : l = Label(B[i])
      BY DEF Labels
    <3>. QED
      BY <3>1, <1>2, <1>3 DEF Labels
  <2>2. ASSUME NEW l \in Labels(A) PROVE l \in Labels(B)
    <3>1. PICK i \in DOMAIN A : l = Label(A[i])
      BY DEF Labels
    <3>2. i \in DOMAIN B /\ B[i] = A[i]
      BY <1>2, <1>4
    <3>. QED
      BY <3>1, <3>2 DEF Labels
  <2>3. Label(e) \in Labels(B)
    BY <1>2, <1>4 DEF Labels
  <2>. QED
    BY <2>1, <2>2, <2>3
<1>7. Intact(A, F) /\ (e.whole \/ Label(e) \in F) => Intact(B, F)
  BY <1>2, <1>3 DEF Intact
<1>. QED
  BY <1>1, <1>5, <1>6, <1>7

(* An entry that goes from the queue to the consumer keeps its place. *)
LEMMA Passed ==
  ASSUME NEW S, NEW a \in Seq(S), NEW b \in Seq(S), b # << >>
  PROVE  Append(a, Head(b)) \o Tail(b) = a \o b
<1>1. PICK h, t, ah : h = Head(b) /\ t = Tail(b) /\ ah = Append(a, h)
  OBVIOUS
<1>2. /\ h \in S /\ t \in Seq(S) /\ Len(t) = Len(b) - 1
      /\ \A i \in 1 .. Len(t) : t[i] = b[i + 1]
  BY <1>1, HeadTailProperties
<1>3. Len(a) \in Nat /\ Len(b) \in Nat /\ Len(b) # 0 /\ h = b[1]
  BY <1>1, EmptySeq
<1>4. /\ ah \in Seq(S) /\ Len(ah) = Len(a) + 1
      /\ \A i \in 1 .. Len(a) : ah[i] = a[i]
      /\ ah[Len(a) + 1] = h
  BY <1>1, <1>2, AppendProperties
<1>5. PICK l, r : l = ah \o t /\ r = a \o b
  OBVIOUS
<1>6. /\ l \in Seq(S) /\ Len(l) = Len(ah) + Len(t)
      /\ \A i \in 1 .. Len(ah) + Len(t) : l[i] = IF i <= Len(ah) THEN ah[i] ELSE t[i - Len(ah)]
  BY <1>2, <1>4, <1>5, ConcatProperties
<1>7. /\ r \in Seq(S) /\ Len(r) = Len(a) + Len(b)
      /\ \A i \in 1 .. Len(a) + Len(b) : r[i] = IF i <= Len(a) THEN a[i] ELSE b[i - Len(a)]
  BY <1>5, ConcatProperties
<1>8. Len(l) = Len(r) /\ Len(l) = Len(a) + Len(b)
  BY <1>2, <1>3, <1>4, <1>6, <1>7
<1>9. ASSUME NEW i \in 1 .. Len(l) PROVE l[i] = r[i]
  <2>1. CASE i <= Len(a)
    <3>1. i \in 1 .. Len(a) /\ i <= Len(ah) /\ i \in 1 .. Len(ah) + Len(t) /\ i \in 1 .. Len(a) + Len(b)
      BY <2>1, <1>3, <1>4, <1>6, <1>7, <1>8
    <3>2. l[i] = ah[i] /\ r[i] = a[i]
      BY <3>1, <2>1, <1>6, <1>7
    <3>. QED
      BY <3>1, <3>2, <1>4
  <2>2. CASE i = Len(a) + 1
    <3>1. l[i] = h
      BY <2>2, <1>3, <1>4, <1>6, <1>8
    <3>2. r[i] = b[1]
      BY <2>2, <1>3, <1>7, <1>8
    <3>. QED
      BY <3>1, <3>2, <1>3
  <2>3. CASE i > Len(a) + 1
    <3>0. PICK k : k = i - (Len(a) + 1)
      OBVIOUS
    <3>1. k = i - (Len(a) + 1) /\ k \in 1 .. Len(t) /\ i - Len(a) = k + 1
      BY <2>3, <3>0, <1>2, <1>3, <1>8
    <3>2. l[i] = t[k]
      BY <2>3, <3>1, <1>3, <1>4, <1>6, <1>8
    <3>3. r[i] = b[k + 1]
      BY <2>3, <3>1, <1>3, <1>7, <1>8
    <3>. QED
      BY <3>1, <3>2, <3>3, <1>2
  <2>. QED
    BY <2>1, <2>2, <2>3, <1>3, <1>8
<1>10. l = r
  BY <1>6, <1>7, <1>8, <1>9, SeqEqual
<1>. QED
  BY <1>1, <1>5, <1>10

-----------------------------------------------------------------------------
(* The inductive invariant of push.                                        *)

PushShapes ==
    /\ slots \in Seq(EntryShape)
    /\ received \in Seq(EntryShape)
    /\ pushPc \in [PushThreads -> {"idle", "first", "spin", "yield"}]
    /\ whole \in [PushThreads -> BOOLEAN]
    /\ number \in [PushThreads -> Nat]
    /\ strategy \in Strategies

\* What was accepted or refused was pushed, and not by a push still under way.
PushesEnd ==
    /\ \A p \in PushThreads, n \in Nat :
          <<p, n>> \in accepted \cup refused =>
              n <= number[p] /\ (n = number[p] => pushPc[p] = "idle")
    /\ accepted \cap refused = {}

\* The first attempt has the item; only a push that blocks tries again, and only
\* after an attempt that failed.
Attempts ==
    \A p \in PushThreads :
        /\ pushPc[p] = "first" => whole[p]
        /\ strategy # "Block" => pushPc[p] \in {"idle", "first"}
        /\ pushPc[p] \in {"spin", "yield"} => <<p, number[p]>> \in failed

\* The pushes whose items may be emptied.
Retried == IF strategy = "Block" THEN failed ELSE {}

Arrivals ==
    /\ Once(Arrived)
    /\ Labels(Arrived) = accepted
    /\ Intact(Arrived, Retried)

PushInv == PushShapes /\ PushesEnd /\ Attempts /\ Arrivals

LEMMA PushInitInv == PushInit => PushInv
<1> SUFFICES ASSUME PushInit PROVE PushInv
  OBVIOUS
<1>1. Arrived = << >>
  BY DEF PushInit, Arrived
<1>2. Arrivals
  BY <1>1 DEF PushInit, Arrivals, Once, Labels, Intact
<1>3. PushShapes /\ PushesEnd /\ Attempts
  BY DEF PushInit, PushShapes, PushesEnd, Attempts
<1>. QED
  BY <1>2, <1>3 DEF PushInv

LEMMA PushCallInv ==
  ASSUME PushInv, NEW p \in PushThreads, PushCall(p)
  PROVE  PushInv'
<1>u. /\ pushPc[p] = "idle" /\ number' = [number EXCEPT ![p] = @ + 1] /\ whole' = [whole EXCEPT ![p] = TRUE]
      /\ pushPc' = [pushPc EXCEPT ![p] = "first"]
      /\ strategy' = strategy /\ slots' = slots /\ failed' = failed /\ accepted' = accepted
      /\ refused' = refused /\ received' = received
  BY DEF PushCall
<1>f. PushShapes /\ PushesEnd /\ Attempts /\ Arrivals
  BY DEF PushInv
<1>1. PushShapes'
  BY <1>u, <1>f DEF PushShapes
<1>2. PushesEnd'
  <2>1. ASSUME NEW q \in PushThreads, NEW n \in Nat, <<q, n>> \in accepted \cup refused
        PROVE  n <= number'[q] /\ (n = number'[q] => pushPc'[q] = "idle")
    <3>1. n <= number[q] /\ (n = number[q] => pushPc[q] = "idle") /\ number[q] \in Nat
      BY <2>1, <1>f DEF PushesEnd, PushShapes
    <3>2. CASE q = p
      <4>1. number'[q] = number[q] + 1
        BY <3>2, <1>u, <1>f DEF PushShapes
      <4>. QED
        BY <3>1, <4>1
    <3>3. CASE q # p
      BY <3>1, <3>3, <1>u, <1>f DEF PushShapes
    <3>. QED
      BY <3>2, <3>3
  <2>. QED
    BY <2>1, <1>u, <1>f DEF PushesEnd
<1>3. Attempts'
  BY <1>u, <1>f DEF Attempts, PushShapes
<1>4. Arrivals'
  <2>1. Arrived' = Arrived
    BY <1>u DEF Arrived
  <2>. QED
    BY <2>1, <1>u, <1>f DEF Arrivals, Retried
<1>. QED
  BY <1>1, <1>2, <1>3, <1>4 DEF PushInv

(* A push that returns: it was under way, so neither set knows it yet. *)
LEMMA Ending ==
  ASSUME PushInv, NEW p \in PushThreads, pushPc[p] # "idle",
         pushPc' = [pushPc EXCEPT ![p] = "idle"], number' = number,
         \/ accepted' = accepted \cup {<<p, number[p]>>} /\ refused' = refused
         \/ accepted' = accepted /\ refused' = refused \cup {<<p, number[p]>>}
  PROVE  /\ PushesEnd'
         /\ <<p, number[p]>> \notin accepted
<1>f. PushShapes /\ PushesEnd
  BY DEF PushInv
<1>1. number[p] \in Nat
  BY <1>f DEF PushShapes
<1>2. <<p, number[p]>> \notin accepted \cup refused
  BY <1>1, <1>f DEF PushesEnd
<1>3. accepted' \cap refused' = {}
  BY <1>2, <1>f DEF PushesEnd
<1>4. ASSUME NEW q \in PushThreads, NEW n \in Nat, <<q, n>> \in accepted' \cup refused'
      PROVE  n <= number[q] /\ (n = number[q] => pushPc'[q] = "idle")
  <2>0. pushPc'[p] = "idle" /\ (q # p => pushPc'[q] = pushPc[q])
    BY <1>f DEF PushShapes
  <2>1. CASE <<q, n>> \in accepted \cup refused
    BY <2>0, <2>1, <1>f DEF PushesEnd
  <2>2. CASE <<q, n>> = <<p, number[p]>>
    <3>1. q = p /\ n = number[p]
      BY <2>2
    <3>. QED
      BY <3>1, <2>0, <1>1
  <2>. QED
    BY <1>4, <2>1, <2>2
<1>. QED
  BY <1>2, <1>3, <1>4 DEF PushesEnd

LEMMA AttemptInv ==
  ASSUME PushInv, NEW p \in PushThreads, Attempt(p)
  PROVE  PushInv'
<1>u. /\ pushPc[p] \in {"first", "spin", "yield"} /\ whole' = [whole EXCEPT ![p] = FALSE]
      /\ strategy' = strategy /\ number' = number /\ received' = received
  BY DEF Attempt
<1>f. PushShapes /\ PushesEnd /\ Attempts /\ Arrivals
  BY DEF PushInv
<1>w. whole' \in [PushThreads -> BOOLEAN] /\ \A q \in PushThreads : q # p => whole'[q] = whole[q]
  BY <1>u, <1>f DEF PushShapes
<1>1. CASE Len(slots) < PushCapacity
  <2>0. PICK e : e = Entry(p)
    OBVIOUS
  <2>u. /\ slots' = Append(slots, e) /\ accepted' = accepted \cup {<<p, number[p]>>} /\ refused' = refused
        /\ failed' = failed /\ pushPc' = [pushPc EXCEPT ![p] = "idle"]
    BY <1>1, <2>0 DEF Attempt
  <2>e. e \in EntryShape /\ Label(e) = <<p, number[p]>> /\ e.whole = whole[p]
    BY <2>0, <1>f DEF Entry, EntryShape, Label, PushShapes
  <2>1. PushesEnd' /\ <<p, number[p]>> \notin accepted
    BY <1>u, <2>u, Ending
  <2>2. PushShapes'
    <3>1. slots' \in Seq(EntryShape)
      BY <2>u, <2>e, <1>f DEF PushShapes
    <3>. QED
      BY <3>1, <2>u, <1>u, <1>w, <1>f DEF PushShapes
  <2>3. Attempts'
    BY <2>u, <1>u, <1>w, <1>f DEF Attempts, PushShapes
  <2>4. Arrivals'
    <3>1. Arrived \in Seq(EntryShape) /\ Arrived' = Append(Arrived, e)
      <4>1. slots \in Seq(EntryShape) /\ received \in Seq(EntryShape)
        BY <1>f DEF PushShapes
      <4>2. <<e>> \in Seq(EntryShape)
        BY <2>e
      <4>3. received \o slots \in Seq(EntryShape)
        BY <4>1, ConcatProperties
      <4>4. Append(slots, e) = slots \o <<e>>
        BY <4>1, <2>e, AppendIsConcat
      <4>5. Append(received \o slots, e) = (received \o slots) \o <<e>>
        BY <4>3, <2>e, AppendIsConcat
      <4>6. (received \o slots) \o <<e>> = received \o (slots \o <<e>>)
        BY <4>1, <4>2, ConcatAssociative
      <4>. QED
        BY <4>3, <4>4, <4>5, <4>6, <1>u, <2>u DEF Arrived
    <3>2. Label(e) \notin Labels(Arrived)
      BY <2>1, <2>e, <1>f DEF Arrivals
    <3>3. /\ Once(Append(Arrived, e)) /\ Labels(Append(Arrived, e)) = Labels(Arrived) \cup {Label(e)}
          /\ Intact(Arrived, Retried) /\ (e.whole \/ Label(e) \in Retried) => Intact(Append(Arrived, e), Retried)
      BY <3>1, <3>2, <2>e, <1>f, OneMore DEF Arrivals
    <3>4. e.whole \/ Label(e) \in Retried
      BY <2>e, <1>u, <1>f DEF Attempts, Retried
    <3>6. Retried' = Retried
      BY <1>u, <2>u DEF Retried
    <3>5. PICK B : B = Append(Arrived, e)
      OBVIOUS
    <3>. QED
      BY <3>1, <3>3, <3>4, <3>5, <3>6, <1>u, <2>u, <2>e, <1>f DEF Arrivals
  <2>. QED
    BY <2>1, <2>2, <2>3, <2>4 DEF PushInv
<1>2. CASE ~(Len(slots) < PushCapacity)
  <2>0. PICK to : to = AfterFailure(p)
    OBVIOUS
  <2>u. /\ slots' = slots /\ accepted' = accepted /\ pushPc' = [pushPc EXCEPT ![p] = to]
        /\ failed' = failed \cup {<<p, number[p]>>}
        /\ refused' = IF to = "idle" THEN refused \cup {<<p, number[p]>>} ELSE refused
    BY <1>2, <2>0 DEF Attempt
  <2>t. to \in {"idle", "spin", "yield"} /\ (strategy # "Block" => to = "idle")
    BY <2>0 DEF AfterFailure
  <2>1. PushShapes'
    BY <2>u, <2>t, <1>u, <1>w, <1>f DEF PushShapes
  <2>2. PushesEnd'
    <3>1. CASE to = "idle"
      BY <3>1, <2>u, <1>u, Ending
    <3>2. CASE to # "idle"
      <4>1. ASSUME NEW q \in PushThreads, NEW n \in Nat, <<q, n>> \in accepted \cup refused
            PROVE  n <= number[q] /\ (n = number[q] => pushPc'[q] = "idle")
        <5>1. n <= number[q] /\ (n = number[q] => pushPc[q] = "idle")
          BY <4>1, <1>f DEF PushesEnd
        <5>2. q # p => pushPc'[q] = pushPc[q]
          BY <2>u, <1>f DEF PushShapes
        <5>. QED
          BY <5>1, <5>2, <1>u
      <4>. QED
        BY <4>1, <3>2, <2>u, <1>u, <1>f DEF PushesEnd
    <3>. QED
      BY <3>1, <3>2
  <2>3. Attempts'
    BY <2>u, <2>t, <1>u, <1>w, <1>f DEF Attempts, PushShapes
  <2>4. Arrivals'
    <3>1. Arrived' = Arrived
      BY <2>u, <1>u DEF Arrived
    <3>2. Retried \subseteq Retried'
      BY <2>u, <1>u DEF Retried
    <3>3. Intact(Arrived, Retried')
      BY <3>2, <1>f DEF Arrivals, Intact
    <3>. QED
      BY <3>1, <3>3, <2>u, <1>u, <1>f DEF Arrivals
  <2>. QED
    BY <2>1, <2>2, <2>3, <2>4 DEF PushInv
<1>. QED
  BY <1>1, <1>2

LEMMA TimeOutInv ==
  ASSUME PushInv, NEW p \in PushThreads, TimeOut(p)
  PROVE  PushInv'
<1>u. /\ pushPc[p] = "yield" /\ pushPc' = [pushPc EXCEPT ![p] = "idle"]
      /\ refused' = refused \cup {<<p, number[p]>>} /\ accepted' = accepted /\ failed' = failed
      /\ strategy' = strategy /\ slots' = slots /\ whole' = whole /\ number' = number /\ received' = received
  BY DEF TimeOut
<1>f. PushShapes /\ PushesEnd /\ Attempts /\ Arrivals
  BY DEF PushInv
<1>1. PushesEnd'
  BY <1>u, Ending
<1>2. PushShapes' /\ Attempts'
  BY <1>u, <1>f DEF PushShapes, Attempts
<1>3. Arrivals'
  <2>1. Arrived' = Arrived
    BY <1>u DEF Arrived
  <2>. QED
    BY <2>1, <1>u, <1>f DEF Arrivals, Retried
<1>. QED
  BY <1>1, <1>2, <1>3 DEF PushInv

LEMMA PopEntryInv ==
  ASSUME PushInv, PopEntry
  PROVE  PushInv'
<1>u. /\ slots # << >> /\ received' = Append(received, Head(slots)) /\ slots' = Tail(slots)
      /\ strategy' = strategy /\ pushPc' = pushPc /\ whole' = whole /\ number' = number
      /\ failed' = failed /\ accepted' = accepted /\ refused' = refused
  BY DEF PopEntry
<1>f. PushShapes /\ PushesEnd /\ Attempts /\ Arrivals
  BY DEF PushInv
<1>1. PushShapes'
  <2>1. slots \in Seq(EntryShape) /\ received \in Seq(EntryShape)
    BY <1>f DEF PushShapes
  <2>2. Head(slots) \in EntryShape /\ Tail(slots) \in Seq(EntryShape)
    BY <2>1, <1>u, HeadTailProperties
  <2>3. Append(received, Head(slots)) \in Seq(EntryShape)
    BY <2>1, <2>2, AppendProperties
  <2>. QED
    BY <2>2, <2>3, <1>u, <1>f DEF PushShapes
<1>2. PushesEnd' /\ Attempts'
  BY <1>u, <1>f DEF PushesEnd, Attempts
<1>3. Arrivals'
  <2>1. Arrived' = Arrived
    BY <1>u, <1>f, Passed DEF Arrived, PushShapes
  <2>. QED
    BY <2>1, <1>u, <1>f DEF Arrivals, Retried
<1>. QED
  BY <1>1, <1>2, <1>3 DEF PushInv

(* The invariant of push holds whatever the policy and whoever pushes. *)
LEMMA PushInvariant == PushSpec => []PushInv
<1>1. PushInv /\ [PushNext]_pushVars => PushInv'
  <2> SUFFICES ASSUME PushInv, [PushNext]_pushVars PROVE PushInv'
    OBVIOUS
  <2>1. ASSUME NEW p \in PushThreads, PushCall(p) \/ Attempt(p) \/ TimeOut(p) PROVE PushInv'
    BY <2>1, PushCallInv, AttemptInv, TimeOutInv
  <2>2. CASE PopEntry
    BY <2>2, PopEntryInv
  <2>3. CASE UNCHANGED pushVars
    BY <2>3 DEF pushVars, PushInv, PushShapes, PushesEnd, Attempts, Arrivals, Arrived, Retried
  <2>. QED
    BY <2>1, <2>2, <2>3 DEF PushNext
<1>. QED
  BY <1>1, PushInitInv, PTL DEF PushSpec

(* BackpressuredQueue::push enters one item when it returns true and none   *)
(* when it returns false, and that item is the caller's, under every policy *)
(* and for any producers, capacity and number of spins; but a blocking push *)
(* after an attempt that failed, whose item has been moved away, and no     *)
(* other push, may enter an emptied one.                                    *)
THEOREM PushesEnterOnce == PushSpec => []PushEntersOnce
<1>1. PushInv => PushEntersOnce
  BY DEF PushInv, PushesEnd, Arrivals, Retried, PushEntersOnce, Once, Labels, Intact
<1>. QED
  BY <1>1, PushInvariant, PTL

-----------------------------------------------------------------------------
(* The inductive invariant of the event loop: a handler that was removed is *)
(* not registered, and one that was called since is not due another call.   *)

LoopShapes ==
    /\ pending \in Seq(LoopEvents)
    /\ handlers \in [LoopHandlers -> LoopTypes \cup {NoType}]
    /\ loopPc \in {"release", "snapshot"} => inHand \in LoopEvents
    /\ lateCalls \in [LoopHandlers -> {0, 1}]

RemovedStay ==
    \A h \in LoopHandlers :
        /\ h \in removed => handlers[h] = NoType
        /\ lateCalls[h] = 1 => h \in removed /\ h \notin matched

LoopInv == LoopShapes /\ RemovedStay

LEMMA LoopNextInv == LoopInv /\ [LoopNext]_loopVars => LoopInv'
<1> SUFFICES ASSUME LoopInv, [LoopNext]_loopVars PROVE LoopInv'
  OBVIOUS
<1>f. LoopShapes /\ RemovedStay
  BY DEF LoopInv
<1>1. ASSUME NEW h \in LoopHandlers, NEW type \in LoopTypes, On(h, type) PROVE LoopInv'
  <2>1. LoopShapes'
    BY <1>1, <1>f DEF On, LoopShapes
  <2>2. RemovedStay'
    BY <1>1, <1>f DEF On, LoopShapes, RemovedStay
  <2>. QED
    BY <2>1, <2>2 DEF LoopInv
<1>2. ASSUME NEW h \in LoopHandlers, Off(h) PROVE LoopInv'
  <2>1. LoopShapes'
    BY <1>2, <1>f DEF Off, LoopShapes
  <2>2. RemovedStay'
    BY <1>2, <1>f DEF Off, LoopShapes, RemovedStay
  <2>. QED
    BY <2>1, <2>2 DEF LoopInv
<1>3. ASSUME NEW e \in LoopEvents, Dispatch(e) PROVE LoopInv'
  <2>1. pending' \in Seq(LoopEvents)
    <3>1. Append(pending, e) \in Seq(LoopEvents)
      BY <1>f, AppendProperties DEF LoopShapes
    <3>. QED
      BY <3>1, <1>3, <1>f DEF Dispatch, LoopShapes
  <2>. QED
    BY <2>1, <1>3, <1>f DEF Dispatch, LoopInv, LoopShapes, RemovedStay
<1>p. ASSUME NEW e \in LoopEvents, DispatchPublish(e) PROVE LoopInv'
  BY <1>p, <1>f DEF DispatchPublish, LoopInv, LoopShapes, RemovedStay
<1>4. CASE Stop
  BY <1>4, <1>f DEF Stop, LoopInv, LoopShapes, RemovedStay
<1>5. ASSUME NEW mode \in {"run", "run_for", "run_one"}, RunCall(mode) PROVE LoopInv'
  BY <1>5, <1>f DEF RunCall, LoopInv, LoopShapes, RemovedStay
<1>6. CASE Run
  <2>1. /\ loopPc' \notin {"release", "snapshot"} /\ pending' = pending /\ handlers' = handlers /\ removed' = removed
        /\ lateCalls' = lateCalls /\ matched' = matched
    BY <1>6 DEF Run, RunReset, RunTest, RunWait, RunEnd
  <2>. QED
    BY <2>1, <1>f DEF LoopInv, LoopShapes, RemovedStay
<1>7. CASE ProcessPop
  <2>1. pending' \in Seq(LoopEvents) /\ (loopPc' = "release" => inHand' \in LoopEvents) /\ loopPc' # "snapshot"
    <3>1. CASE pending = << >> \/ Head(pending) \in publishing
      BY <1>7, <3>1, <1>f DEF ProcessPop, LoopShapes
    <3>2. CASE pending # << >> /\ Head(pending) \notin publishing
      <4>1. Head(pending) \in LoopEvents /\ Tail(pending) \in Seq(LoopEvents)
        BY <3>2, <1>f, HeadTailProperties DEF LoopShapes
      <4>. QED
        BY <1>7, <3>2, <4>1 DEF ProcessPop
    <3>. QED
      BY <3>1, <3>2
  <2>. QED
    BY <1>7, <2>1, <1>f DEF ProcessPop, LoopInv, LoopShapes, RemovedStay
<1>r. CASE ProcessRelease
  BY <1>r, <1>f DEF ProcessRelease, LoopInv, LoopShapes, RemovedStay
<1>8. CASE ProcessSnapshot
  <2>1. LoopTypeOf(inHand) # NoType
    BY <1>8, <1>f, LoopTypesAssumption DEF ProcessSnapshot, LoopShapes
  <2>2. \A h \in LoopHandlers : h \in removed => h \notin matched'
    BY <1>8, <2>1, <1>f DEF ProcessSnapshot, RemovedStay
  <2>. QED
    BY <1>8, <2>2, <1>f DEF ProcessSnapshot, LoopInv, LoopShapes, RemovedStay
<1>9. ASSUME NEW h \in LoopHandlers, ProcessCall(h) PROVE LoopInv'
  <2>u. /\ h \in matched /\ matched' = matched \ {h} /\ loopPc' = "call"
        /\ lateCalls' = [lateCalls EXCEPT ![h] = @ + (IF h \in removed THEN 1 ELSE 0)]
        /\ pending' = pending /\ handlers' = handlers /\ removed' = removed
    BY <1>9 DEF ProcessCall
  <2>1. lateCalls[h] = 0
    BY <2>u, <1>f DEF LoopShapes, RemovedStay
  <2>2. lateCalls' = [lateCalls EXCEPT ![h] = IF h \in removed THEN 1 ELSE 0]
    BY <2>u, <2>1
  <2>. QED
    BY <2>u, <2>2, <1>f DEF LoopInv, LoopShapes, RemovedStay
<1>10. CASE ProcessDone
  <2>1. loopPc' \notin {"release", "snapshot"}
    BY <1>10 DEF ProcessDone
  <2>. QED
    BY <1>10, <2>1, <1>f DEF ProcessDone, LoopInv, LoopShapes, RemovedStay
<1>11. CASE UNCHANGED loopVars
  BY <1>11, <1>f DEF loopVars, LoopInv, LoopShapes, RemovedStay
<1>. QED
  BY <1>1, <1>2, <1>3, <1>p, <1>4, <1>5, <1>6, <1>7, <1>r, <1>8, <1>9, <1>10, <1>11 DEF LoopNext, ProcessOne

(* A handler given to off is called at most once more, for the event whose  *)
(* handlers EventLoop::process_one has already copied: for any number of    *)
(* events, handlers and calls of run, and with any removals by handlers.    *)
THEOREM OffsEndCalls == LoopSpec => []OffEndsCalls
<1>1. LoopInit => LoopInv
  BY DEF LoopInit, LoopInv, LoopShapes, RemovedStay
<1>2. LoopInv => OffEndsCalls
  BY DEF LoopInv, LoopShapes, OffEndsCalls
<1>. QED
  BY <1>1, <1>2, LoopNextInv, PTL DEF LoopSpec
-----------------------------------------------------------------------------
(* AsyncTask: a function is given the value its task was completed with.   *)

AsyncType ==
    /\ value \in [Chain -> {"none", "there", "moved"}]
    /\ exception \in [Chain -> BOOLEAN]
    /\ ready \in [Chain -> BOOLEAN]
    /\ continuation \in [Chain -> BOOLEAN]
    /\ linked \in Chain
    /\ completing \in [Completer -> [task : Chain \cup {0}, step : {"idle", "set", "continue"},
                                     outcome : {"none", "value", "exception"}]]
    /\ awaiting \in Chain \cup {0}
    /\ taken \in SUBSET Chain
    /\ arguments \in [Chain -> {"none", "there", "moved", "garbage"}]

\* Thread t is about to complete task i, or to run its continuation.
Completes(t, i) == completing[t].step = "set" /\ completing[t].task = i
Continues(t, i) == completing[t].step = "continue" /\ completing[t].task = i

\* A call is about a task.
InACall == \A t \in Completer : completing[t].step # "idle" => completing[t].task \in Chain

\* A task is completed once, and by one thread: the first by the producer, every
\* other by whoever has run the continuation of the one before.
CompletedOnce ==
    /\ \A t \in Completer, i \in Chain : Completes(t, i) => ~ready[i]
    /\ \A i \in Chain : ~(Completes("producer", i) /\ Completes("consumer", i))
    /\ ~Completes("consumer", 1)
    /\ \A i \in Chain : i > 1 /\ (ready[i] \/ \E t \in Completer : Completes(t, i)) => arguments[i - 1] # "none"

\* A continuation runs once: it is stored, or about to run, only while it has
\* not, only for a task chained to another, and by one thread.
ContinuedOnce ==
    /\ \A t \in Completer, i \in Chain :
           Continues(t, i) => ready[i] /\ ~continuation[i] /\ arguments[i] = "none" /\ i < linked
    /\ \A i \in Chain : ~(Continues("producer", i) /\ Continues("consumer", i))
    /\ \A i \in Chain : continuation[i] => arguments[i] = "none" /\ i < linked
    /\ \A i \in Chain : i >= linked => arguments[i] = "none"

\* A complete task whose function has not run still has its value.
ValueKept ==
    \A i \in Chain : ready[i] /\ arguments[i] = "none" => value[i] = "there" \/ exception[i] \/ i \in taken

AsyncInv == AsyncType /\ InACall /\ CompletedOnce /\ ContinuedOnce /\ ValueKept /\ ArgumentsSet

LEMMA AsyncInitially ==
  ASSUME AsyncInit
  PROVE  AsyncInv
BY ChainLengthAssumption DEF AsyncInit, Chain, Completer, Idle, AsyncInv, AsyncType, InACall,
   CompletedOnce, ContinuedOnce, ValueKept, ArgumentsSet, Completes, Continues

\* The producer begins to complete the first task.
LEMMA PromiseKeeps ==
  ASSUME AsyncInv, NEW outcome \in {"value", "exception"}, Promise(outcome)
  PROVE  AsyncInv'
<1>. USE ChainLengthAssumption DEF Chain, Completer, At, Idle, AsyncInv, AsyncType
<1>1. AsyncType'
  BY DEF Promise
<1>2. InACall'
  BY DEF Promise, InACall
<1>3. CompletedOnce'
  BY DEF Promise, CompletedOnce, Completes
<1>4. ContinuedOnce'
  BY DEF Promise, ContinuedOnce, Continues
<1>5. ValueKept'
  BY DEF Promise, ValueKept
<1>6. ArgumentsSet'
  BY DEF Promise, ArgumentsSet
<1>. QED
  BY <1>1, <1>2, <1>3, <1>4, <1>5, <1>6

\* The value is stored and the continuation, if there is one, taken to be run.
LEMMA SetValueKeeps ==
  ASSUME AsyncInv, NEW t \in Completer, SetValue(t)
  PROVE  AsyncInv'
<1>. USE ChainLengthAssumption DEF Chain, Completer, At, Idle, AsyncInv, AsyncType
<1>1. AsyncType'
  BY DEF SetValue, InACall
<1>2. InACall'
  BY DEF SetValue, InACall
<1>3. CompletedOnce'
  BY DEF SetValue, CompletedOnce, Completes
<1>4. ContinuedOnce'
  BY DEF SetValue, ContinuedOnce, Continues
<1>5. ValueKept'
  BY DEF SetValue, ValueKept
<1>6. ArgumentsSet'
  BY DEF SetValue, ArgumentsSet
<1>. QED
  BY <1>1, <1>2, <1>3, <1>4, <1>5, <1>6

\* The exception is stored.
LEMMA SetExceptionKeeps ==
  ASSUME AsyncInv, NEW t \in Completer, SetException(t)
  PROVE  AsyncInv'
<1>. USE ChainLengthAssumption DEF Chain, Completer, At, Idle, AsyncInv, AsyncType
<1>1. AsyncType'
  BY DEF SetException
<1>2. InACall'
  BY DEF SetException, InACall
<1>3. CompletedOnce'
  BY DEF SetException, CompletedOnce, Completes
<1>4. ContinuedOnce'
  BY DEF SetException, ContinuedOnce, Continues
<1>5. ValueKept'
  BY DEF SetException, ValueKept
<1>6. ArgumentsSet'
  BY DEF SetException, ArgumentsSet
<1>. QED
  BY <1>1, <1>2, <1>3, <1>4, <1>5, <1>6

\* The function runs and the next task is about to be completed.
LEMMA RunContinuationKeeps ==
  ASSUME AsyncInv, NEW t \in Completer, RunContinuation(t)
  PROVE  AsyncInv'
<1>. USE ChainLengthAssumption DEF Chain, Completer, At, Idle, AsyncInv, AsyncType
<1>1. AsyncType'
  BY DEF RunContinuation, InACall, ContinuedOnce, Continues
<1>2. InACall'
  BY DEF RunContinuation, InACall, ContinuedOnce, Continues
<1>3. CompletedOnce'
  <2> DEFINE i == completing[t].task
  <2>1. /\ i \in Chain /\ i + 1 \in Chain /\ ready[i] /\ arguments[i] = "none"
        /\ Continues(t, i)
    BY DEF RunContinuation, InACall, ContinuedOnce, Continues
  <2>2. ~ready[i + 1] /\ \A u \in Completer : ~Completes(u, i + 1)
    BY <2>1 DEF CompletedOnce
  <2>3. \A u \in Completer, j \in Chain : Completes(u, j)' <=> (Completes(u, j) \/ (u = t /\ j = i + 1))
    BY <2>1 DEF RunContinuation, Completes
  <2>4. \A j \in Chain : arguments[j] # "none" => arguments'[j] # "none"
    BY <2>1 DEF RunContinuation
  <2>5. arguments'[i] # "none" /\ ready' = ready
    BY <2>1 DEF RunContinuation
  <2> HIDE DEF i
  <2>. QED
    BY <2>1, <2>2, <2>3, <2>4, <2>5 DEF CompletedOnce
<1>4. ContinuedOnce'
  BY DEF RunContinuation, ContinuedOnce, Continues
<1>5. ValueKept'
  BY DEF RunContinuation, ValueKept
<1>6. ArgumentsSet'
  BY DEF RunContinuation, ContinuedOnce, ValueKept, ArgumentsSet, Continues
<1>. QED
  BY <1>1, <1>2, <1>3, <1>4, <1>5, <1>6

\* A task is chained to the last one.
LEMMA ThenKeeps ==
  ASSUME AsyncInv, Then
  PROVE  AsyncInv'
<1>. USE ChainLengthAssumption DEF Chain, Completer, At, Idle, AsyncInv, AsyncType
<1>1. AsyncType'
  <2>1. linked + 1 \in Chain /\ linked \in Chain
    BY DEF Then
  <2>2. CASE ready[linked]
    BY <2>1, <2>2 DEF Then
  <2>3. CASE ~ready[linked]
    BY <2>1, <2>3 DEF Then
  <2>. QED
    BY <2>2, <2>3
<1>2. InACall'
  BY DEF Then, InACall
<1>3. CompletedOnce'
  BY DEF Then, CompletedOnce, Completes
<1>4. ContinuedOnce'
  BY DEF Then, ContinuedOnce, Continues
<1>5. ValueKept'
  BY DEF Then, ValueKept
<1>6. ArgumentsSet'
  BY DEF Then, ArgumentsSet
<1>. QED
  BY <1>1, <1>2, <1>3, <1>4, <1>5, <1>6

\* A get returns and moves the value out.
LEMMA GetReturnKeeps ==
  ASSUME AsyncInv, GetReturn
  PROVE  AsyncInv'
<1>. USE ChainLengthAssumption DEF Chain, Completer, At, Idle, AsyncInv, AsyncType
<1>1. AsyncType'
  BY DEF GetReturn
<1>2. InACall'
  BY DEF GetReturn, InACall
<1>3. CompletedOnce'
  BY DEF GetReturn, CompletedOnce, Completes
<1>4. ContinuedOnce'
  BY DEF GetReturn, ContinuedOnce, Continues
<1>5. ValueKept'
  BY DEF GetReturn, ValueKept
<1>6. ArgumentsSet'
  BY DEF GetReturn, ArgumentsSet
<1>. QED
  BY <1>1, <1>2, <1>3, <1>4, <1>5, <1>6

\* A get begins to wait.
LEMMA GetWaitKeeps ==
  ASSUME AsyncInv, NEW i \in Chain, GetWait(i)
  PROVE  AsyncInv'
<1>. USE ChainLengthAssumption DEF Chain, Completer, At, Idle, AsyncInv, AsyncType
<1>1. AsyncType'
  BY DEF GetWait
<1>2. InACall'
  BY DEF GetWait, InACall
<1>3. CompletedOnce'
  BY DEF GetWait, CompletedOnce, Completes
<1>4. ContinuedOnce'
  BY DEF GetWait, ContinuedOnce, Continues
<1>5. ValueKept'
  BY DEF GetWait, ValueKept
<1>6. ArgumentsSet'
  BY DEF GetWait, ArgumentsSet
<1>. QED
  BY <1>1, <1>2, <1>3, <1>4, <1>5, <1>6

LEMMA AsyncStutters ==
  ASSUME AsyncInv, UNCHANGED asyncVars
  PROVE  AsyncInv'
BY DEF asyncVars, AsyncInv, AsyncType, InACall, CompletedOnce, ContinuedOnce, ValueKept, ArgumentsSet,
   Completes, Continues

\* Every reachable state of a chain of any length satisfies the invariant.
LEMMA AsyncInvariant == AsyncSpec => []AsyncInv
<1>1. AsyncInit => AsyncInv
  BY AsyncInitially
<1>2. AsyncInv /\ [AsyncNext]_asyncVars => AsyncInv'
  BY PromiseKeeps, SetValueKeeps, SetExceptionKeeps, RunContinuationKeeps, ThenKeeps, GetReturnKeeps,
     GetWaitKeeps, AsyncStutters DEF AsyncNext, Complete
<1>. QED
  BY <1>1, <1>2, PTL DEF AsyncSpec

\* A chained function is never run before its task is complete, and is given the
\* value its task was completed with, whatever the threads' order in set_value
\* and then(), for a chain of any length; the two exceptions are named in
\* ArgumentsSet.
THEOREM ContinuationsGetTheValue == AsyncSpec => []ArgumentsSet
BY AsyncInvariant, PTL DEF AsyncInv

=============================================================================
