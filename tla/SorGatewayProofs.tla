--------------------------- MODULE SorGatewayProofs ---------------------------
(***************************************************************************)
(* Proofs about the router put together in SorGateway, for every set of    *)
(* venues, every bound on the orders and every size of the report queue.   *)
(***************************************************************************)
EXTENDS SorGateway, SequenceTheorems, TLAPS

-----------------------------------------------------------------------------
(* The inductive invariant.                                                *)

AnyId        == OrderIds \cup {INVALID_ORDER_ID}
OrderShape   == [state : OrderStates \cup {"Untracked"}, side : Sides, quantity : Nat, filled : Nat,
                 remaining : Int, tif : TimesInForce, strategy : {"BestPrice", "LiquiditySweep"},
                 venue : Venues \cup {INVALID_ORDER_ID}]
BookShape    == [quantity : Nat, filled : Nat, tif : TimesInForce, cancel : BOOLEAN]
ReportShape  == [id : OrderIds, state : {"Accepted", "PartiallyFilled", "Filled", "Canceled", "Rejected"},
                 last : Nat, cum : Nat]
SliceShape   == [venue : Venues, quantity : Nat, tif : TimesInForce]
JobShape     == [id : AnyId, order : OrderShape]
DeferShape   == [id : AnyId, fill : Nat, reroute : BOOLEAN, completion : BOOLEAN]
PositionType == [net : Int, open : Nat, pendingBuy : Nat, pendingSell : Nat]

VenueShapes ==
    /\ activeOrders \in [Venues -> [OrderIds -> BookShape]]
    /\ pendingQueue \in [Venues -> Seq(OrderIds)]
    /\ batch \in [Venues -> Nat]
    /\ \A v \in Venues : batch[v] <= Len(pendingQueue[v])
    /\ connected \in [Venues -> BOOLEAN]
    /\ reportQueue \in Seq(ReportShape)
    /\ Len(reportQueue) <= ReportCapacity

RouterShapes ==
    /\ orders \in [OrderIds -> OrderShape]
    /\ childrenOf \in [OrderIds -> Seq(OrderIds)]
    /\ parentOf \in [OrderIds -> AnyId]
    /\ position \in PositionType
    /\ nextId \in Nat
    /\ orderQueue \in Seq([id : OrderIds, order : OrderShape])
    /\ cancelQueue \in Seq(OrderIds)

ThreadShapes ==
    /\ pc \in [Threads -> {"loop", "orders", "admit", "route", "slice", "send", "cancels", "cancelling",
                           "reports", "deferred", "exited"}]
    /\ pc["order"] \notin {"reports", "deferred"}
    /\ pc["exec"] \notin {"orders", "cancels", "cancelling"}
    /\ job \in [Threads -> JobShape]
    /\ slices \in [Threads -> Seq(SliceShape)]
    /\ sending \in [Threads -> AnyId]
    /\ cancelList \in Seq(OrderIds)
    /\ deferred \in DeferShape

\* A parent is never a child, and what was not handed out yet is unused.
Child(c) == parentOf[c] # INVALID_ORDER_ID

Family ==
    /\ \A c \in OrderIds : Child(c) =>
          /\ c < nextId /\ parentOf[c] < nextId
          /\ Tracked(c)
          /\ ~Child(parentOf[c]) /\ Tracked(parentOf[c])
          /\ orders[c].venue \in Venues
    /\ \A id \in OrderIds : id >= nextId => ~Tracked(id)
    /\ \A p \in OrderIds : ~Child(p) =>
          orders[p].state \in {"Untracked", "PendingNew", "PartiallyFilled", "Filled"}

\* The venues know children only, and so do their reports.
VenuesSeeChildren ==
    /\ \A v \in Venues : \A i \in 1 .. Len(pendingQueue[v]) : Child(pendingQueue[v][i])
    /\ \A i \in 1 .. Len(reportQueue) : Child(reportQueue[i].id)

\* A client's order waits in the queue, or for the risk check, until it is
\* tracked for the first time.
Waiting(entry) ==
    /\ entry.id \in OrderIds
    /\ entry.id < nextId
    /\ ~Child(entry.id)
    /\ ~Tracked(entry.id)
    /\ entry.order.state = "New"

WaitingOrders ==
    /\ \A i \in 1 .. Len(orderQueue) : Waiting(orderQueue[i])
    /\ \A i, j \in 1 .. Len(orderQueue) : orderQueue[i].id = orderQueue[j].id => i = j
    /\ pc["order"] = "admit" =>
          /\ Waiting(job["order"])
          /\ \A i \in 1 .. Len(orderQueue) : orderQueue[i].id # job["order"].id

\* The states in which a parent can be rerouted.
Open(p) == p \in OrderIds /\ ~Child(p) /\ orders[p].state \in {"PendingNew", "PartiallyFilled"}

Working ==
    /\ pc["exec"] = "admit" => Open(job["exec"].id) /\ job["exec"].order.state = "New"
    /\ deferred.reroute =>
          /\ pc["exec"] = "deferred"
          /\ deferred.id \in OrderIds
          /\ Open(parentOf[deferred.id])
          /\ orders[parentOf[deferred.id]].remaining \in Nat
    /\ pc["exec"] = "deferred" => deferred.id \in OrderIds
    /\ \A t \in Threads :
          /\ pc[t] \in {"route", "slice", "send"} =>
                job[t].id \in OrderIds /\ ~Child(job[t].id) /\ Tracked(job[t].id) /\ job[t].id < nextId
          /\ pc[t] = "slice" => slices[t] # << >>
          /\ pc[t] = "send" => sending[t] \in OrderIds /\ Child(sending[t])

\* stop() disconnects the venues when both threads have ended.
Connections == (\E v \in Venues : ~connected[v]) => \A t \in Threads : pc[t] = "exited"

IInv ==
    /\ VenueShapes
    /\ RouterShapes
    /\ ThreadShapes
    /\ Family
    /\ VenuesSeeChildren
    /\ WaitingOrders
    /\ Working
    /\ Connections

-----------------------------------------------------------------------------
(* What the operators of the components return.                            *)

LEMMA Ids ==
  /\ OrderIds \subseteq Nat /\ INVALID_ORDER_ID = 0 /\ INVALID_ORDER_ID \notin OrderIds
  /\ \A id \in AnyId : id \in OrderIds <=> id # INVALID_ORDER_ID
  /\ \A id \in OrderIds : id >= 1
  BY OrderIdsAssumption DEF INVALID_ORDER_ID, AnyId

LEMMA IdNumber == ASSUME NEW id \in AnyId PROVE id \in Nat
<1>1. id \in OrderIds \/ id = INVALID_ORDER_ID
  BY DEF AnyId
<1>2. OrderIds \subseteq Nat
  BY OrderIdsAssumption
<1>3. id \in OrderIds => id \in Nat
  BY <1>2
<1>4. INVALID_ORDER_ID \in Nat
  BY DEF INVALID_ORDER_ID
<1>. QED
  BY <1>1, <1>3, <1>4

(* TRANSITION_TABLE leads from live states to states, and a submitted order *)
(* is pending.                                                              *)
LEMMA Table ==
  \A t \in Transitions :
     /\ t[3] \in OrderStates
     /\ ~IsTerminal(t[1])
     /\ t[1] = "New" => t[3] = "PendingNew"
  BY DEF Transitions, OrderStates, IsTerminal

LEMMA ApplyResult ==
  ASSUME NEW s \in OrderStates, NEW e
  PROVE  /\ Apply(s, e) \in OrderStates
         /\ IsTerminal(s) => Apply(s, e) = s
<1>1. CASE ValidTransition(s, e)
  <2>1. \E t \in Transitions : t[1] = s /\ t[2] = e
    BY <1>1 DEF ValidTransition
  <2> DEFINE c == CHOOSE t \in Transitions : t[1] = s /\ t[2] = e
  <2>2. c \in Transitions /\ c[1] = s
    BY <2>1
  <2>3. Apply(s, e) = c[3]
    BY <1>1 DEF Apply
  <2> HIDE DEF c
  <2>. QED
    BY <2>2, <2>3, Table
<1>2. CASE ~ValidTransition(s, e)
  BY <1>2 DEF Apply
<1>. QED
  BY <1>1, <1>2

LEMMA Submission == Apply("New", "Submit") = "PendingNew"
<1>1. <<"New", "Submit", "PendingNew">> \in Transitions
  BY DEF Transitions
<1>2. \E t \in Transitions : t[1] = "New" /\ t[2] = "Submit"
  BY <1>1
<1> DEFINE c == CHOOSE t \in Transitions : t[1] = "New" /\ t[2] = "Submit"
<1>3. c \in Transitions /\ c[1] = "New"
  BY <1>2
<1>4. Apply("New", "Submit") = c[3]
  BY <1>2 DEF Apply, ValidTransition
<1> HIDE DEF c
<1>. QED
  BY <1>3, <1>4, Table

(* A report keeps the order what it is, and a terminal order where it is. *)
LEMMA ReportedOrder ==
  ASSUME NEW order \in OrderShape, order.state # "Untracked", NEW r \in ReportShape
  PROVE  /\ AfterReport(order, r) \in OrderShape
         /\ AfterReport(order, r).state \in OrderStates
         /\ AfterReport(order, r).venue = order.venue
         /\ IsTerminal(order.state) => AfterReport(order, r).state = order.state
<1> DEFINE before == IF r.state = "Canceled" /\ order.state \in {"Accepted", "PartiallyFilled"}
                     THEN Apply(order.state, "RequestCancel") ELSE order.state
           state  == Apply(before, EventOf(r.state))
           filled == IF r.last > 0 THEN r.cum ELSE order.filled
           rest   == IF r.last > 0 THEN order.quantity - filled ELSE order.remaining
<1>1. order.state \in OrderStates /\ order.quantity \in Nat /\ order.filled \in Nat /\ order.remaining \in Int
  BY DEF OrderShape
<1>2. r.last \in Nat /\ r.cum \in Nat
  BY DEF ReportShape
<1>3. before \in OrderStates
  BY <1>1, ApplyResult
<1>4. IsTerminal(order.state) => before = order.state
  BY DEF IsTerminal
<1>5. filled \in Nat
  BY <1>1, <1>2
<1>6. rest \in Int
  BY <1>1, <1>5
<1>7. AfterReport(order, r) = [order EXCEPT !.state = state, !.filled = filled, !.remaining = rest]
  BY <1>1 DEF AfterReport, OrderShape
<1> HIDE DEF before
<1>8. state \in OrderStates /\ (IsTerminal(order.state) => state = order.state)
  BY <1>3, <1>4, ApplyResult
<1> HIDE DEF state, filled, rest
<1>. QED
  BY <1>5, <1>6, <1>7, <1>8 DEF OrderShape

(* update_parent_from_child: a tracked parent stays open or becomes filled. *)
LEMMA FilledParent ==
  ASSUME NEW parent \in OrderShape, NEW r \in ReportShape,
         parent.state \in {"PendingNew", "PartiallyFilled", "Filled"}
  PROVE  /\ AfterChildFill(parent, r) \in OrderShape
         /\ AfterChildFill(parent, r).state \in {"PendingNew", "PartiallyFilled", "Filled"}
         /\ parent.state = "Filled" => AfterChildFill(parent, r).state = "Filled"
<1>1. r.last \in Nat /\ parent.filled \in Nat /\ parent.quantity \in Nat
  BY DEF ReportShape, OrderShape
<1>2. CASE r.last = 0
  BY <1>2 DEF AfterChildFill
<1>3. CASE r.last # 0
  <2> DEFINE filled == parent.filled + r.last
             rest   == parent.quantity - (parent.filled + r.last)
             state  == IF parent.state \in {"New", "PendingNew", "Accepted"} THEN "PartiallyFilled" ELSE parent.state
  <2>1. AfterChildFill(parent, r) = [parent EXCEPT !.filled = filled, !.remaining = rest, !.state = state]
    BY <1>3 DEF AfterChildFill, OrderShape
  <2>2. filled \in Nat /\ rest \in Int
    BY <1>1
  <2>3. /\ state \in {"PendingNew", "PartiallyFilled", "Filled"}
        /\ parent.state = "Filled" => state = "Filled"
    OBVIOUS
  <2>4. state \in OrderStates
    BY <2>3 DEF OrderStates
  <2> HIDE DEF filled, rest, state
  <2>5. [parent EXCEPT !.filled = filled, !.remaining = rest, !.state = state] \in OrderShape
    BY <2>2, <2>4 DEF OrderShape
  <2>6. [parent EXCEPT !.filled = filled, !.remaining = rest, !.state = state].state = state
    BY DEF OrderShape
  <2>. QED
    BY <2>1, <2>3, <2>5, <2>6
<1>. QED
  BY <1>2, <1>3

(* notify_execution: what is in the report queue afterwards was there       *)
(* before or is one of the reports, and the queue keeps its bound.          *)
LEMMA Notified ==
  ASSUME reportQueue \in Seq(ReportShape), Len(reportQueue) <= ReportCapacity,
         NEW reports \in Seq(ReportShape), Notify(reports)
  PROVE  /\ reportQueue' \in Seq(ReportShape)
         /\ Len(reportQueue') <= ReportCapacity
         /\ \A i \in 1 .. Len(reportQueue') :
               \/ \E j \in 1 .. Len(reportQueue) : reportQueue'[i] = reportQueue[j]
               \/ \E j \in 1 .. Len(reports) : reportQueue'[i] = reports[j]
<1> DEFINE a == Len(reports)
           b == ReportCapacity - Len(reportQueue)
           room == Min({a, b})
           head == SubSeq(reports, 1, room)
<1>1. a \in Nat /\ b \in Nat
  BY ReportCapacityAssumption
<1>2. room \in {a, b} /\ room <= a /\ room <= b
  <2> HIDE DEF a, b
  <2>1. \E x \in {a, b} : \A y \in {a, b} : x <= y
    <3>1. CASE a <= b
      BY <3>1, <1>1
    <3>2. CASE b <= a
      BY <3>2, <1>1
    <3>. QED
      BY <3>1, <3>2, <1>1
  <2>2. room \in {a, b} /\ \A y \in {a, b} : room <= y
    BY <2>1 DEF Min
  <2>. QED
    BY <2>2
<1>3. room \in Nat
  BY <1>1, <1>2
<1>4. reportQueue' = reportQueue \o head
  BY DEF Notify
<1> HIDE DEF room
<1>5. \A i \in 1 .. room : reports[i] \in ReportShape
  BY <1>2, <1>3
<1>6. head \in Seq(ReportShape) /\ Len(head) = room /\ \A i \in 1 .. room : head[i] = reports[i]
  <2>1. /\ head \in Seq(ReportShape)
        /\ Len(head) = IF 1 <= room THEN room - 1 + 1 ELSE 0
        /\ \A i \in 1 .. room - 1 + 1 : head[i] = reports[1 + i - 1]
    BY <1>3, <1>5, SubSeqProperties
  <2> HIDE DEF head
  <2>. QED
    BY <2>1, <1>3
<1> HIDE DEF head
<1>7. reportQueue' \in Seq(ReportShape) /\ Len(reportQueue') = Len(reportQueue) + room
  <2>1. reportQueue \o head \in Seq(ReportShape)
    BY <1>6, ConcatProperties
  <2>2. Len(reportQueue \o head) = Len(reportQueue) + Len(head)
    BY <1>6, ConcatProperties
  <2>. QED
    BY <2>1, <2>2, <1>4, <1>6
<1>8. Len(reportQueue') <= ReportCapacity
  BY <1>7, <1>1, <1>2, <1>3, ReportCapacityAssumption
<1>9. ASSUME NEW i \in 1 .. Len(reportQueue')
      PROVE  \/ \E j \in 1 .. Len(reportQueue) : reportQueue'[i] = reportQueue[j]
             \/ \E j \in 1 .. Len(reports) : reportQueue'[i] = reports[j]
  <2>1. CASE i \in 1 .. Len(reportQueue)
    BY <2>1, <1>4, <1>6
  <2>2. CASE i \notin 1 .. Len(reportQueue)
    <3>1. PICK j \in 1 .. room : i = Len(reportQueue) + j
      <4>1. Len(reportQueue) \in Nat /\ i \in Nat /\ i <= Len(reportQueue) + room /\ i > Len(reportQueue)
        BY <2>2, <1>7, <1>3
      <4>2. i - Len(reportQueue) \in 1 .. room
        BY <4>1, <1>3
      <4>. QED
        BY <4>1, <4>2
    <3>2. reportQueue'[i] = head[j]
      BY <3>1, <1>4, <1>6, <1>3
    <3>3. j \in 1 .. Len(reports)
      BY <3>1, <1>2, <1>3, <1>1
    <3>. QED
      BY <3>1, <3>2, <3>3, <1>6
  <2>. QED
    BY <2>1, <2>2
<1>. QED
  BY <1>7, <1>8, <1>9

LEMMA InitIInv == Init => IInv
<1> SUFFICES ASSUME Init PROVE IInv
  OBVIOUS
<1>0. /\ activeOrders = [v \in Venues |-> [id \in OrderIds |-> Absent]]
      /\ pendingQueue = [v \in Venues |-> << >>] /\ batch = [v \in Venues |-> 0]
      /\ connected = [v \in Venues |-> TRUE] /\ reportQueue = << >>
      /\ orders = [id \in OrderIds |-> Untracked]
      /\ childrenOf = [id \in OrderIds |-> << >>]
      /\ parentOf = [id \in OrderIds |-> INVALID_ORDER_ID]
      /\ position = [net |-> 0, open |-> 0, pendingBuy |-> 0, pendingSell |-> 0]
      /\ nextId = 1 /\ orderQueue = << >> /\ cancelQueue = << >>
      /\ pc = [t \in Threads |-> "loop"] /\ job = [t \in Threads |-> NoJob]
      /\ slices = [t \in Threads |-> << >>] /\ sending = [t \in Threads |-> INVALID_ORDER_ID]
      /\ cancelList = << >> /\ deferred = Nothing
  BY DEF Init, ExchangeInit, HandlerInit, RiskInit
<1>o. Untracked \in OrderShape /\ Untracked.state = "Untracked"
  BY DEF Untracked, OrderShape, Sides, TimesInForce, INVALID_ORDER_ID
<1>1. VenueShapes
  <2>1. Absent \in BookShape
    BY DEF Absent, BookShape, TimesInForce
  <2>. QED
    BY <1>0, <2>1, ReportCapacityAssumption DEF VenueShapes
<1>2. RouterShapes
  BY <1>0, <1>o DEF RouterShapes, PositionType, AnyId
<1>3. ThreadShapes
  <2>1. NoJob \in JobShape
    BY <1>o DEF NoJob, JobShape, AnyId
  <2>2. Nothing \in DeferShape
    BY DEF Nothing, DeferShape, AnyId
  <2>. QED
    BY <1>0, <2>1, <2>2 DEF ThreadShapes, Threads, AnyId
<1>4. Family
  BY <1>0, <1>o DEF Family, Child, Tracked
<1>5. VenuesSeeChildren /\ WaitingOrders /\ Working /\ Connections
  BY <1>0 DEF VenuesSeeChildren, WaitingOrders, Working, Connections, Nothing, Threads
<1>. QED
  BY <1>1, <1>2, <1>3, <1>4, <1>5 DEF IInv

-----------------------------------------------------------------------------
(* The venues.                                                             *)

(* What a venue does to its own book and the report queue is not seen by   *)
(* the rest of the invariant.                                              *)
LEMMA VenueOnly ==
  ASSUME IInv, UNCHANGED <<handlerVars, riskVars, gatewayVars, threadVars>>, connected' = connected
  PROVE  RouterShapes' /\ ThreadShapes' /\ Family' /\ WaitingOrders' /\ Working' /\ Connections'
<1>1. /\ orders' = orders /\ childrenOf' = childrenOf /\ parentOf' = parentOf /\ position' = position
      /\ nextId' = nextId /\ orderQueue' = orderQueue /\ cancelQueue' = cancelQueue
      /\ pc' = pc /\ job' = job /\ slices' = slices /\ sending' = sending /\ cancelList' = cancelList
      /\ deferred' = deferred
  BY DEF handlerVars, riskVars, gatewayVars, threadVars
<1>2. RouterShapes' /\ ThreadShapes' /\ Connections'
  BY <1>1 DEF IInv, RouterShapes, ThreadShapes, Connections
<1>3. Family' /\ WaitingOrders'
  BY <1>1 DEF IInv, Family, WaitingOrders, Waiting, Child, Tracked
<1>4. Working'
  BY <1>1 DEF IInv, Working, Open, Child, Tracked
<1>. QED
  BY <1>2, <1>3, <1>4

(* process_matching visits one order: it leaves the queue or goes to its   *)
(* end, the book's entry becomes b, and the reports are sent.              *)
LEMMA VisitInv ==
  ASSUME IInv, NEW v \in Venues, NEW id \in OrderIds, NEW b \in BookShape,
         NEW q \in Seq(OrderIds), NEW reports \in Seq(ReportShape),
         batch[v] > 0, batch' = [batch EXCEPT ![v] = @ - 1], connected' = connected,
         activeOrders' = [activeOrders EXCEPT ![v][id] = b],
         pendingQueue' = [pendingQueue EXCEPT ![v] = q],
         Len(q) >= Len(pendingQueue[v]) - 1,
         \A i \in 1 .. Len(q) : Child(q[i]),
         \A i \in 1 .. Len(reports) : Child(reports[i].id),
         Notify(reports),
         UNCHANGED <<handlerVars, riskVars, gatewayVars, threadVars>>
  PROVE  IInv'
<1>0. VenueShapes /\ VenuesSeeChildren
  BY DEF IInv
<1>r. /\ reportQueue' \in Seq(ReportShape)
      /\ Len(reportQueue') <= ReportCapacity
      /\ \A i \in 1 .. Len(reportQueue') :
            \/ \E j \in 1 .. Len(reportQueue) : reportQueue'[i] = reportQueue[j]
            \/ \E j \in 1 .. Len(reports) : reportQueue'[i] = reports[j]
  BY <1>0, Notified DEF VenueShapes
<1>p. parentOf' = parentOf
  BY DEF handlerVars
<1>1. VenueShapes'
  <2>1. activeOrders' \in [Venues -> [OrderIds -> BookShape]]
    BY <1>0 DEF VenueShapes
  <2>2. pendingQueue' \in [Venues -> Seq(OrderIds)]
    BY <1>0 DEF VenueShapes
  <2>3. batch[v] \in Nat /\ Len(pendingQueue[v]) \in Nat /\ Len(q) \in Nat /\ batch[v] <= Len(pendingQueue[v])
    BY <1>0 DEF VenueShapes
  <2>4. batch' \in [Venues -> Nat]
    BY <1>0, <2>3 DEF VenueShapes
  <2>5. ASSUME NEW u \in Venues PROVE batch'[u] <= Len(pendingQueue'[u])
    <3>1. CASE u = v
      <4>1. batch'[v] = batch[v] - 1 /\ pendingQueue'[v] = q
        BY <1>0 DEF VenueShapes
      <4>. QED
        BY <3>1, <4>1, <2>3
    <3>2. CASE u # v
      BY <3>2, <1>0 DEF VenueShapes
    <3>. QED
      BY <3>1, <3>2
  <2>. QED
    BY <1>0, <1>r, <2>1, <2>2, <2>4, <2>5 DEF VenueShapes
<1>2. VenuesSeeChildren'
  <2>1. ASSUME NEW u \in Venues, NEW i \in 1 .. Len(pendingQueue'[u])
        PROVE  Child(pendingQueue[u][i])'
    <3>1. CASE u = v
      BY <3>1, <1>0, <1>p DEF VenueShapes, Child
    <3>2. CASE u # v
      BY <3>2, <1>0, <1>p DEF VenueShapes, VenuesSeeChildren, Child
    <3>. QED
      BY <3>1, <3>2
  <2>2. ASSUME NEW i \in 1 .. Len(reportQueue')
        PROVE  Child(reportQueue[i].id)'
    BY <1>r, <1>p, <1>0 DEF VenuesSeeChildren, Child
  <2>. QED
    BY <2>1, <2>2 DEF VenuesSeeChildren
<1>. QED
  BY <1>1, <1>2, VenueOnly DEF IInv

(* The order at the front of a queue that is being matched. *)
LEMMA Front ==
  ASSUME IInv, NEW v \in Venues, batch[v] > 0
  PROVE  /\ Head(pendingQueue[v]) \in OrderIds
         /\ Child(Head(pendingQueue[v]))
         /\ activeOrders[v][Head(pendingQueue[v])] \in BookShape
         /\ Tail(pendingQueue[v]) \in Seq(OrderIds)
         /\ Len(Tail(pendingQueue[v])) = Len(pendingQueue[v]) - 1
         /\ Len(pendingQueue[v]) \in Nat
         /\ \A i \in 1 .. Len(Tail(pendingQueue[v])) : Child(Tail(pendingQueue[v])[i])
<1>1. /\ pendingQueue[v] \in Seq(OrderIds) /\ Len(pendingQueue[v]) \in Nat /\ batch[v] \in Nat
      /\ batch[v] <= Len(pendingQueue[v])
  BY DEF IInv, VenueShapes
<1>2. pendingQueue[v] # << >>
  BY <1>1
<1>3. /\ Head(pendingQueue[v]) = pendingQueue[v][1] /\ 1 \in 1 .. Len(pendingQueue[v])
      /\ Tail(pendingQueue[v]) \in Seq(OrderIds)
      /\ Len(Tail(pendingQueue[v])) = Len(pendingQueue[v]) - 1
      /\ \A i \in 1 .. Len(Tail(pendingQueue[v])) : Tail(pendingQueue[v])[i] = pendingQueue[v][i + 1]
  BY <1>1, <1>2
<1>4. \A i \in 1 .. Len(pendingQueue[v]) : pendingQueue[v][i] \in OrderIds /\ Child(pendingQueue[v][i])
  BY <1>1 DEF IInv, VenuesSeeChildren
<1>5. \A i \in 1 .. Len(Tail(pendingQueue[v])) : i + 1 \in 1 .. Len(pendingQueue[v])
  BY <1>1, <1>3
<1>6. Head(pendingQueue[v]) \in OrderIds
  BY <1>3, <1>4
<1>7. activeOrders[v][Head(pendingQueue[v])] \in BookShape
  BY <1>6 DEF IInv, VenueShapes
<1>. QED
  BY <1>1, <1>3, <1>4, <1>5, <1>6, <1>7

LEMMA LeaveInv ==
  ASSUME IInv, NEW v \in Venues, Visit(v), NEW reports \in Seq(ReportShape),
         \A i \in 1 .. Len(reports) : reports[i].id = Head(pendingQueue[v]),
         Leave(v, Head(pendingQueue[v]), reports),
         UNCHANGED <<handlerVars, riskVars, gatewayVars, threadVars>>
  PROVE  IInv'
<1>1. batch[v] > 0 /\ batch' = [batch EXCEPT ![v] = @ - 1] /\ connected' = connected
  BY DEF Visit
<1>2. PICK id, q : id = Head(pendingQueue[v]) /\ q = Tail(pendingQueue[v])
  OBVIOUS
<1>3. /\ id \in OrderIds /\ Child(id) /\ q \in Seq(OrderIds) /\ Len(q) >= Len(pendingQueue[v]) - 1
      /\ \A i \in 1 .. Len(q) : Child(q[i])
  <2>1. /\ id \in OrderIds /\ Child(id) /\ q \in Seq(OrderIds) /\ Len(q) = Len(pendingQueue[v]) - 1
        /\ \A i \in 1 .. Len(q) : Child(q[i])
        /\ Len(pendingQueue[v]) \in Nat
    BY <1>1, <1>2, Front
  <2>. QED
    BY <2>1
<1>4. Absent \in BookShape
  BY DEF Absent, BookShape, TimesInForce
<1>5. /\ activeOrders' = [activeOrders EXCEPT ![v][id] = Absent]
      /\ pendingQueue' = [pendingQueue EXCEPT ![v] = q]
      /\ Notify(reports)
  BY <1>2 DEF Leave
<1>6. \A i \in 1 .. Len(reports) : Child(reports[i].id)
  BY <1>2, <1>3
<1>. QED
  BY <1>1, <1>3, <1>4, <1>5, <1>6, VisitInv

LEMMA RequeueInv ==
  ASSUME IInv, NEW v \in Venues, Visit(v), NEW filled \in Nat, NEW reports \in Seq(ReportShape),
         \A i \in 1 .. Len(reports) : reports[i].id = Head(pendingQueue[v]),
         Requeue(v, Head(pendingQueue[v]), filled, reports),
         UNCHANGED <<handlerVars, riskVars, gatewayVars, threadVars>>
  PROVE  IInv'
<1>1. batch[v] > 0 /\ batch' = [batch EXCEPT ![v] = @ - 1] /\ connected' = connected
  BY DEF Visit
<1>2. PICK id, r : id = Head(pendingQueue[v]) /\ r = Tail(pendingQueue[v])
  OBVIOUS
<1>3. /\ id \in OrderIds /\ Child(id) /\ r \in Seq(OrderIds) /\ Len(r) = Len(pendingQueue[v]) - 1
      /\ \A i \in 1 .. Len(r) : Child(r[i])
      /\ activeOrders[v][id] \in BookShape
      /\ Len(pendingQueue[v]) \in Nat
  BY <1>1, <1>2, Front
<1>4. PICK q : q = Append(r, id)
  OBVIOUS
<1>5. q \in Seq(OrderIds) /\ Len(q) = Len(r) + 1 /\ \A i \in 1 .. Len(q) : Child(q[i])
  <2>1. q \in Seq(OrderIds) /\ Len(q) = Len(r) + 1
    BY <1>3, <1>4
  <2>2. ASSUME NEW i \in 1 .. Len(q) PROVE Child(q[i])
    <3>1. q[i] = IF i = Len(r) + 1 THEN id ELSE r[i]
      BY <2>1, <1>3, <1>4
    <3>2. i # Len(r) + 1 => i \in 1 .. Len(r)
      BY <2>1, <1>3
    <3>. QED
      BY <3>1, <3>2, <1>3
  <2>. QED
    BY <2>1, <2>2
<1>6. PICK b : b = [activeOrders[v][id] EXCEPT !.filled = filled]
  OBVIOUS
<1>7. b \in BookShape
  BY <1>3, <1>6 DEF BookShape
<1>8. /\ activeOrders' = [activeOrders EXCEPT ![v][id] = b]
      /\ pendingQueue' = [pendingQueue EXCEPT ![v] = q]
      /\ Notify(reports)
  BY <1>2, <1>4, <1>6 DEF Requeue
<1>9. \A i \in 1 .. Len(reports) : Child(reports[i].id)
  BY <1>2, <1>3
<1>10. Len(q) >= Len(pendingQueue[v]) - 1
  BY <1>3, <1>5
<1>. QED
  BY <1>1, <1>3, <1>5, <1>7, <1>8, <1>9, <1>10, VisitInv

(* Every report about an order that is matched is one. *)
LEMMA Reports ==
  ASSUME NEW id \in OrderIds, NEW n \in Nat, NEW filled \in Nat, NEW quantity \in Nat
  PROVE  /\ CancelAck(id, filled) \in ReportShape /\ CancelAck(id, filled).id = id
         /\ Reject(id, filled) \in ReportShape /\ Reject(id, filled).id = id
         /\ Fill(id, n, filled, quantity) \in ReportShape /\ Fill(id, n, filled, quantity).id = id
  BY DEF CancelAck, Reject, Fill, Report, ReportShape

LEMMA LeaveWithOne ==
  ASSUME IInv, NEW v \in Venues, Visit(v), NEW r \in ReportShape, r.id = Head(pendingQueue[v]),
         Leave(v, Head(pendingQueue[v]), <<r>>),
         UNCHANGED <<handlerVars, riskVars, gatewayVars, threadVars>>
  PROVE  IInv'
<1>1. PICK reports : reports = <<r>>
  OBVIOUS
<1>2. reports \in Seq(ReportShape) /\ \A i \in 1 .. Len(reports) : reports[i] = r
  BY <1>1
<1>3. Leave(v, Head(pendingQueue[v]), reports)
  BY <1>1
<1>. QED
  BY <1>2, <1>3, LeaveInv

LEMMA LeaveWithTwo ==
  ASSUME IInv, NEW v \in Venues, Visit(v), NEW r \in ReportShape, r.id = Head(pendingQueue[v]),
         NEW s \in ReportShape, s.id = Head(pendingQueue[v]),
         Leave(v, Head(pendingQueue[v]), <<r, s>>),
         UNCHANGED <<handlerVars, riskVars, gatewayVars, threadVars>>
  PROVE  IInv'
<1>1. PICK reports : reports = <<r, s>>
  OBVIOUS
<1>2. reports \in Seq(ReportShape) /\ \A i \in 1 .. Len(reports) : reports[i] \in {r, s}
  BY <1>1
<1>3. Leave(v, Head(pendingQueue[v]), reports)
  BY <1>1
<1>. QED
  BY <1>2, <1>3, LeaveInv

LEMMA RequeueWithOne ==
  ASSUME IInv, NEW v \in Venues, Visit(v), NEW filled \in Nat, NEW r \in ReportShape, r.id = Head(pendingQueue[v]),
         Requeue(v, Head(pendingQueue[v]), filled, <<r>>),
         UNCHANGED <<handlerVars, riskVars, gatewayVars, threadVars>>
  PROVE  IInv'
<1>1. PICK reports : reports = <<r>>
  OBVIOUS
<1>2. reports \in Seq(ReportShape) /\ \A i \in 1 .. Len(reports) : reports[i] = r
  BY <1>1
<1>3. Requeue(v, Head(pendingQueue[v]), filled, reports)
  BY <1>1
<1>. QED
  BY <1>2, <1>3, RequeueInv

LEMMA RequeueSilent ==
  ASSUME IInv, NEW v \in Venues, Visit(v), NEW filled \in Nat,
         Requeue(v, Head(pendingQueue[v]), filled, << >>),
         UNCHANGED <<handlerVars, riskVars, gatewayVars, threadVars>>
  PROVE  IInv'
<1>1. PICK reports : reports = << >>
  OBVIOUS
<1>2. reports \in Seq(ReportShape) /\ \A i \in 1 .. Len(reports) : reports[i].id = Head(pendingQueue[v])
  BY <1>1
<1>3. Requeue(v, Head(pendingQueue[v]), filled, reports)
  BY <1>1
<1>. QED
  BY <1>2, <1>3, RequeueInv

LEMMA MatchingInv ==
  ASSUME IInv, NEW v \in Venues, VenueStep(v)
  PROVE  IInv'
<1>u. UNCHANGED <<handlerVars, riskVars, gatewayVars, threadVars>>
  BY DEF VenueStep
<1> DEFINE id == Head(pendingQueue[v])
           order == activeOrders[v][id]
<1>f. batch[v] > 0 => /\ id \in OrderIds
                      /\ order.quantity \in Nat /\ order.filled \in Nat /\ order.tif \in TimesInForce
  BY Front DEF BookShape
<1>1. CASE MatchBegin(v)
  <2>1. /\ batch' = [batch EXCEPT ![v] = Len(pendingQueue[v])] /\ activeOrders' = activeOrders
        /\ pendingQueue' = pendingQueue /\ connected' = connected /\ reportQueue' = reportQueue
    BY <1>1 DEF MatchBegin
  <2>2. VenueShapes'
    <3>1. Len(pendingQueue[v]) \in Nat
      BY DEF IInv, VenueShapes
    <3>2. batch' \in [Venues -> Nat]
      BY <2>1, <3>1 DEF IInv, VenueShapes
    <3>3. \A u \in Venues : batch'[u] <= Len(pendingQueue'[u])
      BY <2>1, <3>1 DEF IInv, VenueShapes
    <3>. QED
      BY <2>1, <3>2, <3>3 DEF IInv, VenueShapes
  <2>3. VenuesSeeChildren'
    BY <1>u, <2>1 DEF IInv, VenuesSeeChildren, Child, handlerVars
  <2>. QED
    BY <1>u, <2>1, <2>2, <2>3, VenueOnly DEF IInv
<1>2. CASE MatchCanceled(v)
  <2>1. PICK r : r = CancelAck(id, order.filled)
    OBVIOUS
  <2>2. Visit(v) /\ batch[v] > 0 /\ Leave(v, id, <<r>>)
    BY <1>2, <2>1 DEF MatchCanceled, Visit
  <2>3. r \in ReportShape /\ r.id = id
    BY <2>1, <2>2, <1>f, Reports
  <2>. QED
    BY <2>2, <2>3, <1>u, LeaveWithOne
<1>3. CASE MatchRejected(v)
  <2>1. PICK r : r = Reject(id, order.filled)
    OBVIOUS
  <2>2. Visit(v) /\ batch[v] > 0 /\ Leave(v, id, <<r>>)
    BY <1>3, <2>1 DEF MatchRejected, Visit
  <2>3. r \in ReportShape /\ r.id = id
    BY <2>1, <2>2, <1>f, Reports
  <2>. QED
    BY <2>2, <2>3, <1>u, LeaveWithOne
<1>4. CASE MatchMissed(v)
  <2>1. PICK r, s, n : r = Reject(id, order.filled) /\ s = CancelAck(id, order.filled) /\ n = order.filled
    OBVIOUS
  <2>2. Visit(v) /\ batch[v] > 0
    BY <1>4 DEF MatchMissed, Visit
  <2>3. r \in ReportShape /\ r.id = id /\ s \in ReportShape /\ s.id = id /\ n \in Nat
    BY <2>1, <2>2, <1>f, Reports
  <2>4. CASE Leave(v, id, <<r>>)
    BY <2>2, <2>3, <2>4, <1>u, LeaveWithOne
  <2>5. CASE Leave(v, id, <<s>>)
    BY <2>2, <2>3, <2>5, <1>u, LeaveWithOne
  <2>6. CASE Requeue(v, id, n, << >>)
    BY <2>2, <2>3, <2>6, <1>u, RequeueSilent
  <2>. QED
    BY <1>4, <2>1, <2>4, <2>5, <2>6 DEF MatchMissed
<1>5. ASSUME NEW n \in 1 .. Max(Quantities), MatchFilled(v, n) PROVE IInv'
  <2>0. n \in Nat
    OBVIOUS
  <2>1. PICK filled, r, s : /\ filled = order.filled + n
                            /\ r = Fill(id, n, filled, order.quantity) /\ s = CancelAck(id, filled)
    OBVIOUS
  <2>2. Visit(v) /\ batch[v] > 0
    BY <1>5 DEF MatchFilled, Visit
  <2>3. filled \in Nat
    <3>1. PICK k : k = order.filled
      OBVIOUS
    <3>2. k \in Nat /\ filled = k + n
      BY <3>1, <2>1, <2>2, <1>f, Zenon
    <3>. QED
      BY <2>0, <3>2
  <2>4. r \in ReportShape /\ r.id = id /\ s \in ReportShape /\ s.id = id
    <3>1. id \in OrderIds /\ order.quantity \in Nat
      BY <2>2, <1>f
    <3>2. PICK m : m = order.quantity
      OBVIOUS
    <3>3. /\ Fill(id, n, filled, m) \in ReportShape /\ Fill(id, n, filled, m).id = id
          /\ CancelAck(id, filled) \in ReportShape /\ CancelAck(id, filled).id = id
      <4>1. id \in OrderIds /\ m \in Nat
        BY <3>1, <3>2
      <4>. QED
        BY <2>0, <2>3, <4>1, Reports
    <3>. QED
      BY <3>2, <3>3, <2>1
  <2>5. CASE Leave(v, id, <<r>>)
    BY <2>2, <2>4, <2>5, <1>u, LeaveWithOne
  <2>6. CASE Leave(v, id, <<r, s>>)
    BY <2>2, <2>4, <2>6, <1>u, LeaveWithTwo
  <2>7. CASE Requeue(v, id, filled, <<r>>)
    BY <2>2, <2>3, <2>4, <2>7, <1>u, RequeueWithOne
  <2>. QED
    BY <1>5, <2>1, <2>5, <2>6, <2>7 DEF MatchFilled
<1>. QED
  BY <1>1, <1>2, <1>3, <1>4, <1>5 DEF VenueStep, ProcessMatching

-----------------------------------------------------------------------------
(* Steps of a thread between two orders.                                   *)

\* Where a thread has no order in hand.
Resting(t) == IF t = "order" THEN {"loop", "orders", "cancels", "cancelling", "exited"}
              ELSE {"loop", "reports", "exited"}

LEMMA Rests ==
  ASSUME IInv, NEW t \in Threads, NEW to \in Resting(t), pc' = [pc EXCEPT ![t] = to],
         pc[t] \notin {"deferred", "exited"},
         activeOrders' \in [Venues -> [OrderIds -> BookShape]],
         cancelQueue' \in Seq(OrderIds), cancelList' \in Seq(OrderIds),
         UNCHANGED <<pendingQueue, batch, connected, reportQueue, handlerVars, position, nextId,
                     orderQueue, job, slices, sending, deferred>>
  PROVE  IInv'
<1>u. /\ pendingQueue' = pendingQueue /\ batch' = batch /\ connected' = connected /\ reportQueue' = reportQueue
      /\ orders' = orders /\ childrenOf' = childrenOf /\ parentOf' = parentOf /\ position' = position
      /\ nextId' = nextId /\ orderQueue' = orderQueue /\ job' = job /\ slices' = slices /\ sending' = sending
      /\ deferred' = deferred
  BY DEF handlerVars
<1>p. /\ pc \in [Threads -> {"loop", "orders", "admit", "route", "slice", "send", "cancels", "cancelling",
                           "reports", "deferred", "exited"}]
      /\ pc["order"] \notin {"reports", "deferred"}
      /\ pc["exec"] \notin {"orders", "cancels", "cancelling"}
  BY DEF IInv, ThreadShapes
<1>1. VenueShapes' /\ RouterShapes'
  BY <1>u DEF IInv, VenueShapes, RouterShapes
<1>q. /\ pc'[t] = to /\ \A z \in Threads : z # t => pc'[z] = pc[z]
      /\ to \notin {"admit", "route", "slice", "send", "deferred"}
      /\ t = "order" => to \notin {"reports", "deferred"}
      /\ t = "exec" => to \notin {"orders", "cancels", "cancelling"}
      /\ to \in {"loop", "orders", "admit", "route", "slice", "send", "cancels", "cancelling",
                           "reports", "deferred", "exited"}
  BY <1>p DEF Resting
<1>2. ThreadShapes'
  <2>1. pc' \in [Threads -> {"loop", "orders", "admit", "route", "slice", "send", "cancels", "cancelling",
                           "reports", "deferred", "exited"}]
    BY <1>p, <1>q
  <2>2. pc'["order"] \notin {"reports", "deferred"} /\ pc'["exec"] \notin {"orders", "cancels", "cancelling"}
    BY <1>p, <1>q DEF Threads
  <2>. QED
    BY <1>u, <2>1, <2>2 DEF IInv, ThreadShapes
<1>3. Family' /\ VenuesSeeChildren'
  <2>1. Family'
    BY <1>u DEF IInv, Family, Child, Tracked
  <2>2. VenuesSeeChildren'
    BY <1>u DEF IInv, VenuesSeeChildren, Child
  <2>. QED
    BY <2>1, <2>2
<1>4. WaitingOrders'
  <2>1. pc'["order"] = "admit" => pc["order"] = "admit"
    BY <1>q DEF Threads
  <2>. QED
    BY <1>u, <2>1 DEF IInv, WaitingOrders, Waiting, Child, Tracked
<1>5. Working'
  <2>1. \A z \in Threads : pc'[z] \in {"admit", "route", "slice", "send", "deferred"} => pc'[z] = pc[z]
    BY <1>q
  <2>2. deferred.reroute => pc'["exec"] = "deferred"
    BY <1>q DEF IInv, Working, Threads
  <2>3. "exec" \in Threads
    BY DEF Threads
  <2>. QED
    BY <1>u, <2>1, <2>2, <2>3 DEF IInv, Working, Open, Child, Tracked
<1>6. Connections'
  BY <1>u, <1>q DEF IInv, Connections
<1>. QED
  BY <1>1, <1>2, <1>3, <1>4, <1>5, <1>6 DEF IInv

LEMMA LoopInv ==
  ASSUME IInv, NEW t \in Threads, Loop(t)
  PROVE  IInv'
<1>1. PICK to \in Resting(t) : pc' = [pc EXCEPT ![t] = to]
  <2>1. (IF running THEN Drain(t) ELSE "exited") \in Resting(t)
    BY DEF Drain, Resting
  <2>. QED
    BY <2>1 DEF Loop, GoTo
<1>2. /\ activeOrders' \in [Venues -> [OrderIds -> BookShape]]
      /\ cancelQueue' \in Seq(OrderIds) /\ cancelList' \in Seq(OrderIds)
      /\ UNCHANGED <<pendingQueue, batch, connected, reportQueue, handlerVars, position, nextId,
                     orderQueue, job, slices, sending, deferred>>
      /\ pc[t] \notin {"deferred", "exited"}
  BY DEF Loop, exchangeVars, riskVars, gatewayVars, IInv, VenueShapes, RouterShapes, ThreadShapes
<1>. QED
  BY <1>1, <1>2, Rests

LEMMA CancelsInv ==
  ASSUME IInv, PopCancel \/ CancelChild
  PROVE  IInv'
<1>0. "order" \in Threads
  BY DEF Threads
<1>t. /\ activeOrders \in [Venues -> [OrderIds -> BookShape]]
      /\ cancelQueue \in Seq(OrderIds) /\ cancelList \in Seq(OrderIds)
      /\ childrenOf \in [OrderIds -> Seq(OrderIds)]
      /\ orders \in [OrderIds -> OrderShape]
  BY DEF IInv, VenueShapes, RouterShapes, ThreadShapes
<1>1. CASE PopCancel
  <2>1. PICK to \in Resting("order") : pc' = [pc EXCEPT !["order"] = to]
    BY <1>1 DEF PopCancel, GoTo, Resting
  <2>2. cancelQueue' \in Seq(OrderIds) /\ cancelList' \in Seq(OrderIds)
    <3>1. CASE cancelQueue # << >>
      <4>1. Head(cancelQueue) \in OrderIds /\ Tail(cancelQueue) \in Seq(OrderIds)
        BY <3>1, <1>t
      <4>. QED
        BY <4>1, <3>1, <1>1, <1>t DEF PopCancel
    <3>2. CASE cancelQueue = << >>
      BY <3>2, <1>1, <1>t DEF PopCancel
    <3>. QED
      BY <3>1, <3>2
  <2>3. /\ UNCHANGED <<pendingQueue, batch, connected, reportQueue, handlerVars, position, nextId,
                     orderQueue, job, slices, sending, deferred>>
        /\ activeOrders' = activeOrders
        /\ pc["order"] \notin {"deferred", "exited"}
    BY <1>1 DEF PopCancel, exchangeVars, riskVars
  <2>. QED
    BY <1>0, <1>t, <2>1, <2>2, <2>3, Rests
<1>2. CASE CancelChild
  <2>0. pc["order"] = "cancelling"
    BY <1>2 DEF CancelChild
  <2>1. PICK to \in Resting("order") : pc' = [pc EXCEPT !["order"] = to]
    <3>1. CASE cancelList = << >>
      BY <3>1, <1>2 DEF CancelChild, GoTo, Resting
    <3>2. CASE cancelList # << >>
      <4>1. pc' = pc
        BY <3>2, <1>2 DEF CancelChild
      <4>2. pc' = [pc EXCEPT !["order"] = "cancelling"]
        BY <4>1, <2>0 DEF IInv, ThreadShapes
      <4>. QED
        BY <4>2 DEF Resting
    <3>. QED
      BY <3>1, <3>2
  <2>2. cancelQueue' \in Seq(OrderIds) /\ cancelList' \in Seq(OrderIds)
    <3>1. cancelQueue' = cancelQueue
      BY <1>2 DEF CancelChild, gatewayVars
    <3>2. CASE cancelList # << >>
      <4>1. Tail(cancelList) \in Seq(OrderIds)
        BY <3>2, <1>t
      <4>. QED
        BY <3>1, <4>1, <3>2, <1>2, <1>t DEF CancelChild
    <3>3. CASE cancelList = << >>
      BY <3>1, <3>3, <1>2, <1>t DEF CancelChild
    <3>. QED
      BY <3>2, <3>3
  <2>3. /\ UNCHANGED <<pendingQueue, batch, connected, reportQueue>>
        /\ activeOrders' \in [Venues -> [OrderIds -> BookShape]]
    <3>1. CASE UNCHANGED exchangeVars
      BY <3>1, <1>t DEF exchangeVars
    <3>2. CASE cancelList # << >> /\ CancelAtVenue(orders[Head(cancelList)].venue, Head(cancelList))
      <4>1. PICK v, id : v = orders[Head(cancelList)].venue /\ id = Head(cancelList)
        OBVIOUS
      <4>2. id \in OrderIds
        BY <3>2, <4>1, <1>t
      <4>3. \/ activeOrders' = activeOrders
            \/ activeOrders' = [activeOrders EXCEPT ![v] = [activeOrders[v] EXCEPT ![id] =
                                     [activeOrders[v][id] EXCEPT !.cancel = TRUE]]]
        BY <3>2, <4>1 DEF CancelAtVenue
      <4>4. v \in Venues => [activeOrders[v][id] EXCEPT !.cancel = TRUE] \in BookShape
        <5> SUFFICES ASSUME v \in Venues PROVE [activeOrders[v][id] EXCEPT !.cancel = TRUE] \in BookShape
          OBVIOUS
        <5>1. activeOrders[v][id] \in BookShape
          BY <4>2, <1>t
        <5>. QED
          BY <5>1 DEF BookShape
      <4>5. v \in Venues => [activeOrders[v] EXCEPT ![id] = [activeOrders[v][id] EXCEPT !.cancel = TRUE]]
                               \in [OrderIds -> BookShape]
        BY <4>2, <4>4, <1>t
      <4>6. activeOrders' \in [Venues -> [OrderIds -> BookShape]]
        BY <4>3, <4>5, <1>t
      <4>. QED
        BY <3>2, <4>6 DEF CancelAtVenue
    <3>. QED
      BY <1>2, <3>1, <3>2 DEF CancelChild
  <2>4. UNCHANGED <<handlerVars, position, nextId, orderQueue, job, slices, sending, deferred>>
    BY <1>2 DEF CancelChild, riskVars, gatewayVars
  <2>. QED
    BY <1>0, <2>0, <2>1, <2>2, <2>3, <2>4, Rests
<1>. QED
  BY <1>1, <1>2

(* The steps of clients and operators. *)
LEMMA ClientInv ==
  ASSUME IInv, (\E id \in OrderIds : CancelOrder(id)) \/ KillSwitch \/ Stop \/ UNCHANGED vars
  PROVE  IInv'
<1>1. /\ UNCHANGED <<exchangeVars, handlerVars, position, threadVars, nextId, orderQueue>>
      /\ cancelQueue' \in Seq(OrderIds)
  <2>0. cancelQueue \in Seq(OrderIds)
    BY DEF IInv, RouterShapes
  <2>1. CASE \E id \in OrderIds : CancelOrder(id)
    BY <2>0, <2>1 DEF CancelOrder, riskVars
  <2>2. CASE KillSwitch
    BY <2>0, <2>2 DEF KillSwitch, ActivateKillSwitch, DeactivateKillSwitch, gatewayVars
  <2>3. CASE Stop
    BY <2>0, <2>3 DEF Stop, riskVars
  <2>4. CASE UNCHANGED vars
    BY <2>0, <2>4 DEF vars, riskVars, gatewayVars
  <2>. QED
    BY <2>1, <2>2, <2>3, <2>4
<1>u. /\ activeOrders' = activeOrders /\ pendingQueue' = pendingQueue /\ batch' = batch /\ connected' = connected
      /\ reportQueue' = reportQueue
      /\ orders' = orders /\ childrenOf' = childrenOf /\ parentOf' = parentOf /\ position' = position
      /\ nextId' = nextId /\ orderQueue' = orderQueue /\ job' = job /\ slices' = slices /\ sending' = sending
      /\ deferred' = deferred /\ pc' = pc /\ cancelList' = cancelList
  BY <1>1 DEF exchangeVars, handlerVars, threadVars
<1>2. VenueShapes' /\ ThreadShapes' /\ Connections'
  BY <1>u DEF IInv, VenueShapes, ThreadShapes, Connections
<1>3. RouterShapes'
  BY <1>u, <1>1 DEF IInv, RouterShapes
<1>4. Family' /\ VenuesSeeChildren' /\ WaitingOrders'
  BY <1>u DEF IInv, Family, VenuesSeeChildren, WaitingOrders, Waiting, Child, Tracked
<1>5. Working'
  BY <1>u DEF IInv, Working, Open, Child, Tracked
<1>. QED
  BY <1>2, <1>3, <1>4, <1>5 DEF IInv

LEMMA DisconnectInv ==
  ASSUME IInv, StopDisconnect
  PROVE  IInv'
<1>u. /\ activeOrders' = activeOrders /\ pendingQueue' = pendingQueue /\ batch' = batch
      /\ reportQueue' = reportQueue /\ connected' = [v \in Venues |-> FALSE]
      /\ orders' = orders /\ childrenOf' = childrenOf /\ parentOf' = parentOf /\ position' = position
      /\ nextId' = nextId /\ orderQueue' = orderQueue /\ job' = job /\ slices' = slices /\ sending' = sending
      /\ deferred' = deferred /\ pc' = pc /\ cancelList' = cancelList /\ cancelQueue' = cancelQueue
      /\ \A t \in Threads : pc[t] = "exited"
  BY DEF StopDisconnect, Disconnect, handlerVars, riskVars, gatewayVars, threadVars
<1>1. VenueShapes'
  BY <1>u DEF IInv, VenueShapes
<1>2. RouterShapes' /\ ThreadShapes' /\ Connections'
  BY <1>u DEF IInv, RouterShapes, ThreadShapes, Connections
<1>3. Family' /\ VenuesSeeChildren' /\ WaitingOrders'
  BY <1>u DEF IInv, Family, VenuesSeeChildren, WaitingOrders, Waiting, Child, Tracked
<1>4. Working'
  BY <1>u DEF IInv, Working, Open, Child, Tracked
<1>. QED
  BY <1>1, <1>2, <1>3, <1>4 DEF IInv

-----------------------------------------------------------------------------
(* submit_order and order_processing_loop                                  *)

LEMMA MadeOrder ==
  ASSUME NEW state \in OrderStates, NEW side \in Sides, NEW quantity \in Nat, NEW tif \in TimesInForce,
         NEW strategy \in {"BestPrice", "LiquiditySweep"}, NEW venue \in Venues \cup {INVALID_ORDER_ID}
  PROVE  /\ MakeOrder(state, side, quantity, tif, strategy, venue) \in OrderShape
         /\ MakeOrder(state, side, quantity, tif, strategy, venue).state = state
         /\ MakeOrder(state, side, quantity, tif, strategy, venue).venue = venue
  BY DEF MakeOrder, OrderShape

LEMMA SubmitInv ==
  ASSUME IInv, NEW side \in SideChoices, NEW quantity \in Quantities, NEW tif \in TifChoices,
         NEW strategy \in Strategies, SubmitOrder(side, quantity, tif, strategy)
  PROVE  IInv'
<1>0. PICK entry : entry = [id |-> nextId,
            order |-> MakeOrder("New", side, quantity, tif, strategy, INVALID_ORDER_ID)]
  OBVIOUS
<1>u. /\ activeOrders' = activeOrders /\ pendingQueue' = pendingQueue /\ batch' = batch /\ connected' = connected
      /\ reportQueue' = reportQueue
      /\ orders' = orders /\ childrenOf' = childrenOf /\ parentOf' = parentOf /\ position' = position
      /\ job' = job /\ slices' = slices /\ sending' = sending
      /\ deferred' = deferred /\ pc' = pc /\ cancelList' = cancelList /\ cancelQueue' = cancelQueue
      /\ nextId \in OrderIds /\ nextId' = nextId + 1
      /\ orderQueue' = Append(orderQueue, entry)
  BY <1>0 DEF SubmitOrder, exchangeVars, handlerVars, riskVars, threadVars
<1>m. MakeOrder("New", side, quantity, tif, strategy, INVALID_ORDER_ID) \in OrderShape
      /\ MakeOrder("New", side, quantity, tif, strategy, INVALID_ORDER_ID).state = "New"
  <2>1. side \in Sides /\ quantity \in Nat /\ tif \in TimesInForce /\ strategy \in {"BestPrice", "LiquiditySweep"}
    BY GatewayAssumption
  <2>2. "New" \in OrderStates
    BY DEF OrderStates
  <2>. QED
    BY <2>1, <2>2, MadeOrder
<1>e. entry \in [id : OrderIds, order : OrderShape] /\ entry.id = nextId /\ entry.order.state = "New"
  BY <1>0, <1>m, <1>u
<1>f. Family /\ WaitingOrders /\ Working /\ RouterShapes
  BY DEF IInv
<1>n. nextId \in Nat /\ OrderIds \subseteq Nat
  BY <1>f, Ids DEF RouterShapes
<1>q. /\ orderQueue' \in Seq([id : OrderIds, order : OrderShape])
      /\ Len(orderQueue') = Len(orderQueue) + 1
      /\ Len(orderQueue) \in Nat
      /\ \A i \in 1 .. Len(orderQueue) : orderQueue'[i] = orderQueue[i]
      /\ orderQueue'[Len(orderQueue) + 1] = entry
  <2>1. orderQueue \in Seq([id : OrderIds, order : OrderShape])
    BY <1>f DEF RouterShapes
  <2>. QED
    BY <2>1, <1>e, <1>u
<1>1. VenueShapes' /\ ThreadShapes' /\ Connections'
  BY <1>u DEF IInv, VenueShapes, ThreadShapes, Connections
<1>2. RouterShapes'
  BY <1>u, <1>q, <1>n DEF IInv, RouterShapes
<1>3. Family'
  <2>1. ASSUME NEW c \in OrderIds PROVE parentOf[c] \in Nat
    <3>1. parentOf[c] \in AnyId
      BY <1>f DEF RouterShapes
    <3>. QED
      BY <3>1, IdNumber
  <2>. QED
    BY <1>f, <1>u, <1>n, <2>1 DEF Family, Child, Tracked
<1>4. VenuesSeeChildren'
  BY <1>u DEF IInv, VenuesSeeChildren, Child
<1>5. WaitingOrders'
  <2>1. ASSUME NEW x, Waiting(x) PROVE Waiting(x)'
    BY <2>1, <1>u, <1>n DEF Waiting, Child, Tracked
  <2>2. Waiting(entry)'
    BY <1>f, <1>e, <1>u, <1>n DEF Waiting, Child, Tracked, Family
  <2>3. \A i \in 1 .. Len(orderQueue') : i \in 1 .. Len(orderQueue) \/ i = Len(orderQueue) + 1
    BY <1>q
  <2>4. \A i \in 1 .. Len(orderQueue) : Waiting(orderQueue[i]) /\ orderQueue[i].id < nextId
    BY <1>f DEF WaitingOrders, Waiting
  <2>5. ASSUME NEW i \in 1 .. Len(orderQueue') PROVE Waiting(orderQueue[i])'
    <3>1. PICK x : x = orderQueue'[i]
      OBVIOUS
    <3>2. Waiting(x)'
      BY <3>1, <2>1, <2>2, <2>3, <2>4, <1>q
    <3>. QED
      BY <3>1, <3>2 DEF Waiting, Child, Tracked
  <2>6. \A i, j \in 1 .. Len(orderQueue') : orderQueue'[i].id = orderQueue'[j].id => i = j
    <3> SUFFICES ASSUME NEW i \in 1 .. Len(orderQueue'), NEW j \in 1 .. Len(orderQueue'),
                        orderQueue'[i].id = orderQueue'[j].id
                 PROVE  i = j
      OBVIOUS
    <3>1. \A k \in 1 .. Len(orderQueue) : orderQueue'[k].id < nextId
      BY <2>4, <1>q
    <3>2. orderQueue'[Len(orderQueue) + 1].id = nextId
      BY <1>q, <1>e
    <3>3. CASE i \in 1 .. Len(orderQueue) /\ j \in 1 .. Len(orderQueue)
      BY <3>3, <1>f, <1>q DEF WaitingOrders
    <3>4. CASE i = Len(orderQueue) + 1
      BY <3>1, <3>2, <3>4, <2>3, <1>n
    <3>5. CASE j = Len(orderQueue) + 1
      BY <3>1, <3>2, <3>5, <2>3, <1>n
    <3>. QED
      BY <3>3, <3>4, <3>5, <2>3
  <2>7. ASSUME pc'["order"] = "admit"
        PROVE  Waiting(job["order"])' /\ \A i \in 1 .. Len(orderQueue') : orderQueue'[i].id # job'["order"].id
    <3>1. /\ Waiting(job["order"]) /\ \A i \in 1 .. Len(orderQueue) : orderQueue[i].id # job["order"].id
      BY <2>7, <1>u, <1>f DEF WaitingOrders
    <3>2. PICK x : x = job["order"]
      OBVIOUS
    <3>3. Waiting(x)' /\ x.id < nextId
      BY <3>1, <3>2, <2>1 DEF Waiting
    <3>4. Waiting(job["order"])'
      BY <3>2, <3>3, <1>u DEF Waiting, Child, Tracked
    <3>5. ASSUME NEW i \in 1 .. Len(orderQueue') PROVE orderQueue'[i].id # job'["order"].id
      <4>1. CASE i \in 1 .. Len(orderQueue)
        BY <4>1, <3>1, <1>q, <1>u
      <4>2. CASE i = Len(orderQueue) + 1
        BY <4>2, <3>2, <3>3, <1>q, <1>u, <1>e, <1>n
      <4>. QED
        BY <4>1, <4>2, <2>3
    <3>. QED
      BY <3>4, <3>5
  <2>. QED
    BY <2>5, <2>6, <2>7 DEF WaitingOrders
<1>6. Working'
  <2>1. ASSUME NEW t \in Threads, job[t].id \in OrderIds, job[t].id < nextId PROVE job[t].id < nextId + 1
    <3>1. job[t].id \in Nat
      BY <2>1, IdNumber DEF AnyId
    <3>. QED
      BY <2>1, <3>1, <1>n
  <2>. QED
    BY <1>f, <1>u, <2>1 DEF Working, Open, Child, Tracked
<1>. QED
  BY <1>1, <1>2, <1>3, <1>4, <1>5, <1>6 DEF IInv

LEMMA PopOrderInv ==
  ASSUME IInv, PopOrder
  PROVE  IInv'
<1>0. "order" \in Threads /\ "exec" \in Threads /\ pc["order"] = "orders"
  BY DEF Threads, PopOrder
<1>c. /\ UNCHANGED <<activeOrders, pendingQueue, batch, connected, reportQueue, handlerVars, position, nextId,
                     slices, sending, deferred, cancelQueue, cancelList>>
  BY DEF PopOrder, exchangeVars, riskVars
<1>1. CASE orderQueue = << >>
  <2>1. /\ pc' = [pc EXCEPT !["order"] = "cancels"] /\ UNCHANGED <<job, orderQueue>>
    BY <1>1 DEF PopOrder, GoTo
  <2>2. "cancels" \in Resting("order")
    BY DEF Resting
  <2>3. /\ activeOrders' \in [Venues -> [OrderIds -> BookShape]]
        /\ cancelQueue' \in Seq(OrderIds) /\ cancelList' \in Seq(OrderIds)
    BY <1>c DEF IInv, VenueShapes, RouterShapes, ThreadShapes
  <2>. QED
    BY <1>0, <1>c, <2>1, <2>2, <2>3, Rests
<1>2. CASE orderQueue # << >>
  <2>f. Family /\ WaitingOrders /\ Working /\ RouterShapes /\ ThreadShapes
    BY DEF IInv
  <2>0. PICK entry : entry = Head(orderQueue)
    OBVIOUS
  <2>1. /\ pc' = [pc EXCEPT !["order"] = "admit"] /\ job' = [job EXCEPT !["order"] = entry]
        /\ orderQueue' = Tail(orderQueue)
    BY <1>2, <2>0 DEF PopOrder, GoTo
  <2>u. /\ activeOrders' = activeOrders /\ pendingQueue' = pendingQueue /\ batch' = batch /\ connected' = connected
        /\ reportQueue' = reportQueue
        /\ orders' = orders /\ childrenOf' = childrenOf /\ parentOf' = parentOf /\ position' = position
        /\ slices' = slices /\ sending' = sending /\ nextId' = nextId
        /\ deferred' = deferred /\ cancelList' = cancelList /\ cancelQueue' = cancelQueue
    BY <1>c DEF handlerVars
  <2>q. /\ orderQueue' \in Seq([id : OrderIds, order : OrderShape])
        /\ Len(orderQueue') = Len(orderQueue) - 1
        /\ Len(orderQueue) \in Nat /\ 1 \in 1 .. Len(orderQueue)
        /\ \A i \in 1 .. Len(orderQueue') : orderQueue'[i] = orderQueue[i + 1]
        /\ entry = orderQueue[1]
        /\ entry \in [id : OrderIds, order : OrderShape]
    <3>0. PICK S : S = [id : OrderIds, order : OrderShape]
      OBVIOUS
    <3>1. orderQueue \in Seq(S) /\ Len(orderQueue) \in Nat
      BY <2>f, <3>0 DEF RouterShapes
    <3>2. Len(orderQueue) # 0
      BY <3>1, <1>2
    <3>3. 1 \in 1 .. Len(orderQueue)
      BY <3>1, <3>2
    <3>4. Head(orderQueue) = orderQueue[1] /\ orderQueue[1] \in S
      BY <3>1, <3>3
    <3>5. Tail(orderQueue) \in Seq(S) /\ Len(Tail(orderQueue)) = Len(orderQueue) - 1
      BY <3>1, <1>2
    <3>6. \A i \in 1 .. Len(Tail(orderQueue)) : Tail(orderQueue)[i] = orderQueue[i + 1]
      BY <3>1, <3>5, <1>2
    <3>. QED
      BY <3>0, <3>1, <3>3, <3>4, <3>5, <3>6, <2>0, <2>1
  <2>p. /\ pc'["order"] = "admit" /\ pc'["exec"] = pc["exec"]
        /\ job'["order"] = entry /\ job'["exec"] = job["exec"]
    BY <2>1, <2>f, <1>0 DEF ThreadShapes, Threads
  <2>2. VenueShapes'
    BY <2>u DEF IInv, VenueShapes
  <2>3. RouterShapes'
    BY <2>u, <2>q, <2>f DEF RouterShapes
  <2>4. ThreadShapes'
    <3>1. entry \in JobShape
      BY <2>q DEF JobShape, AnyId
    <3>2. pc' \in [Threads -> {"loop", "orders", "admit", "route", "slice", "send", "cancels", "cancelling",
                           "reports", "deferred", "exited"}]
      BY <2>1, <2>f DEF ThreadShapes
    <3>3. job' \in [Threads -> JobShape]
      BY <2>1, <3>1, <2>f DEF ThreadShapes
    <3>. QED
      BY <2>u, <2>p, <3>2, <3>3, <2>f DEF ThreadShapes
  <2>5. Family' /\ VenuesSeeChildren'
    BY <2>u DEF IInv, Family, VenuesSeeChildren, Child, Tracked
  <2>6. Connections'
    BY <2>u, <1>0 DEF IInv, Connections
  <2>7. WaitingOrders'
    <3>1. \A i \in 1 .. Len(orderQueue') : i + 1 \in 1 .. Len(orderQueue) /\ i + 1 # 1
      BY <2>q
    <3>2. ASSUME NEW x, Waiting(x) PROVE Waiting(x)'
      BY <3>2, <2>u DEF Waiting, Child, Tracked
    <3>3. ASSUME NEW i \in 1 .. Len(orderQueue') PROVE Waiting(orderQueue[i])'
      <4>1. PICK x : x = orderQueue'[i]
        OBVIOUS
      <4>2. Waiting(x)'
        BY <4>1, <3>1, <3>2, <2>q, <2>f DEF WaitingOrders
      <4>. QED
        BY <4>1, <4>2 DEF Waiting, Child, Tracked
    <3>4. \A i, j \in 1 .. Len(orderQueue') : orderQueue'[i].id = orderQueue'[j].id => i = j
      <4> SUFFICES ASSUME NEW i \in 1 .. Len(orderQueue'), NEW j \in 1 .. Len(orderQueue'),
                          orderQueue'[i].id = orderQueue'[j].id
                   PROVE  i = j
        OBVIOUS
      <4>1. i + 1 = j + 1
        BY <3>1, <2>q, <2>f DEF WaitingOrders
      <4>. QED
        BY <4>1, <2>q
    <3>5. Waiting(job["order"])'
      <4>1. Waiting(entry)'
        BY <3>2, <2>q, <2>f DEF WaitingOrders
      <4>. QED
        BY <4>1, <2>p DEF Waiting, Child, Tracked
    <3>6. \A i \in 1 .. Len(orderQueue') : orderQueue'[i].id # job'["order"].id
      BY <3>1, <2>q, <2>p, <2>f DEF WaitingOrders
    <3>. QED
      BY <3>3, <3>4, <3>5, <3>6 DEF WaitingOrders
  <2>8. Working'
    <3>1. \A t \in Threads : pc'[t] \in {"route", "slice", "send"} => t = "exec"
      BY <2>p DEF Threads
    <3>. QED
      BY <2>u, <2>p, <3>1, <2>f, <1>0 DEF Working, Open, Child, Tracked
  <2>. QED
    BY <2>2, <2>3, <2>4, <2>5, <2>6, <2>7, <2>8 DEF IInv
<1>. QED
  BY <1>1, <1>2

-----------------------------------------------------------------------------
(* process_single_order                                                    *)

(* A thread that handles an order, at any step of it, moves within its own *)
(* part of the code, and the venues are still connected.                   *)
LEMMA Moves ==
  ASSUME IInv, NEW t \in Threads, NEW to \in {"admit", "route", "slice", "send"} \cup Resting(t),
         pc[t] # "exited", pc' = [pc EXCEPT ![t] = to]
  PROVE  /\ pc' \in [Threads -> {"loop", "orders", "admit", "route", "slice", "send", "cancels", "cancelling",
                           "reports", "deferred", "exited"}]
         /\ pc'["order"] \notin {"reports", "deferred"}
         /\ pc'["exec"] \notin {"orders", "cancels", "cancelling"}
         /\ pc'[t] = to
         /\ \A z \in Threads : z # t => pc'[z] = pc[z]
         /\ \A v \in Venues : connected[v]
<1>1. /\ pc \in [Threads -> {"loop", "orders", "admit", "route", "slice", "send", "cancels", "cancelling",
                           "reports", "deferred", "exited"}]
      /\ pc["order"] \notin {"reports", "deferred"}
      /\ pc["exec"] \notin {"orders", "cancels", "cancelling"}
  BY DEF IInv, ThreadShapes
<1>2. /\ t = "order" => to \notin {"reports", "deferred"}
      /\ t = "exec" => to \notin {"orders", "cancels", "cancelling"}
      /\ to \in {"loop", "orders", "admit", "route", "slice", "send", "cancels", "cancelling",
                           "reports", "deferred", "exited"}
  BY DEF Resting
<1>3. pc'[t] = to /\ \A z \in Threads : z # t => pc'[z] = pc[z]
  BY <1>1
<1>4. pc' \in [Threads -> {"loop", "orders", "admit", "route", "slice", "send", "cancels", "cancelling",
                           "reports", "deferred", "exited"}]
  BY <1>1, <1>2
<1>5. pc'["order"] \notin {"reports", "deferred"} /\ pc'["exec"] \notin {"orders", "cancels", "cancelling"}
  BY <1>1, <1>2, <1>3 DEF Threads
<1>6. \A v \in Venues : connected[v]
  <2>1. connected \in [Venues -> BOOLEAN]
    BY DEF IInv, VenueShapes
  <2>. QED
    BY <2>1 DEF IInv, Connections
<1>. QED
  BY <1>3, <1>4, <1>5, <1>6

(* The order that is about to be admitted: it is not a child, and it is not *)
(* tracked yet (from the client) or open (a reroute).                       *)
LEMMA Candidate ==
  ASSUME IInv, NEW t \in Threads, pc[t] = "admit"
  PROVE  /\ job[t].id \in OrderIds /\ ~Child(job[t].id) /\ job[t].id < nextId
         /\ job[t].order \in OrderShape /\ job[t].order.state = "New"
         /\ t = "order" => ~Tracked(job[t].id)
         /\ t = "exec" => Open(job[t].id)
<1>1. job[t] \in JobShape /\ nextId \in Nat
  BY DEF IInv, ThreadShapes, RouterShapes
<1>2. job[t].order \in OrderShape /\ job[t].id \in Nat
  <2>1. job[t].order \in OrderShape /\ job[t].id \in AnyId
    BY <1>1 DEF JobShape
  <2>. QED
    BY <2>1, IdNumber
<1>3. CASE t = "order"
  BY <1>2, <1>3 DEF IInv, WaitingOrders, Waiting
<1>4. CASE t = "exec"
  <2>1. Open(job[t].id) /\ job[t].order.state = "New"
    BY <1>4 DEF IInv, Working
  <2>2. Tracked(job[t].id) /\ job[t].id \in OrderIds
    BY <2>1 DEF Open, Tracked
  <2>3. ~(job[t].id >= nextId)
    BY <2>2 DEF IInv, Family
  <2>. QED
    BY <1>1, <1>2, <1>4, <2>1, <2>3 DEF Open
<1>. QED
  BY <1>3, <1>4 DEF Threads

LEMMA AdmitInv ==
  ASSUME IInv, NEW t \in Threads, Admit(t)
  PROVE  IInv'
<1>0. pc[t] = "admit" /\ "order" \in Threads /\ "exec" \in Threads
  BY DEF Admit, Threads
<1>c. UNCHANGED <<activeOrders, pendingQueue, batch, connected, reportQueue, position, nextId,
                  job, slices, sending, deferred, cancelQueue, cancelList, orderQueue>>
  BY DEF Admit, exchangeVars, riskVars
<1>f. Family /\ WaitingOrders /\ Working /\ RouterShapes /\ ThreadShapes
  BY DEF IInv
<1>1. CASE UNCHANGED handlerVars /\ GoTo(t, Drain(t))
  <2>1. PICK to \in Resting(t) : pc' = [pc EXCEPT ![t] = to]
    BY <1>1 DEF GoTo, Drain, Resting
  <2>2. /\ activeOrders' \in [Venues -> [OrderIds -> BookShape]]
        /\ cancelQueue' \in Seq(OrderIds) /\ cancelList' \in Seq(OrderIds)
    BY <1>c DEF IInv, VenueShapes, RouterShapes, ThreadShapes
  <2>. QED
    BY <1>0, <1>1, <1>c, <2>1, <2>2, Rests
<1>2. CASE /\ TrackOrder(job[t].id, [job[t].order EXCEPT !.state = Apply(@, "Submit")])
           /\ GoTo(t, "route")
  <2>0. PICK id, o : id = job[t].id /\ o = [job[t].order EXCEPT !.state = Apply(@, "Submit")]
    OBVIOUS
  <2>j. /\ id \in OrderIds /\ ~Child(id) /\ id < nextId
        /\ job[t].order \in OrderShape /\ job[t].order.state = "New"
        /\ t = "order" => ~Tracked(id)
        /\ t = "exec" => Open(id)
    BY <1>0, <2>0, Candidate
  <2>o. o \in OrderShape /\ o.state = "PendingNew"
    <3>1. o = [job[t].order EXCEPT !.state = "PendingNew"]
      BY <2>0, <2>j, Submission
    <3>2. "PendingNew" \in OrderStates
      BY DEF OrderStates
    <3>. QED
      BY <3>1, <3>2, <2>j DEF OrderShape
  <2>u. /\ activeOrders' = activeOrders /\ pendingQueue' = pendingQueue /\ batch' = batch /\ connected' = connected
        /\ reportQueue' = reportQueue /\ job' = job /\ orderQueue' = orderQueue
        /\ childrenOf' = childrenOf /\ parentOf' = parentOf /\ position' = position
        /\ slices' = slices /\ sending' = sending /\ nextId' = nextId
        /\ deferred' = deferred /\ cancelList' = cancelList /\ cancelQueue' = cancelQueue
        /\ orders' = [orders EXCEPT ![id] = o]
    BY <1>c, <1>2, <2>0 DEF TrackOrder
  <2>p. /\ pc' \in [Threads -> {"loop", "orders", "admit", "route", "slice", "send", "cancels", "cancelling",
                           "reports", "deferred", "exited"}]
        /\ pc'["order"] \notin {"reports", "deferred"}
        /\ pc'["exec"] \notin {"orders", "cancels", "cancelling"}
        /\ pc'[t] = "route"
        /\ \A z \in Threads : z # t => pc'[z] = pc[z]
        /\ \A v \in Venues : connected[v]
    <3>1. PICK to \in {"admit", "route", "slice", "send"} \cup Resting(t) : to = "route"
      OBVIOUS
    <3>2. pc' = [pc EXCEPT ![t] = to] /\ pc[t] # "exited"
      BY <1>0, <1>2, <3>1 DEF GoTo
    <3>. QED
      BY <3>1, <3>2, Moves
  <2>n. /\ \A x \in OrderIds : x # id => orders'[x] = orders[x]
        /\ orders'[id] = o
        /\ orders' \in [OrderIds -> OrderShape]
    BY <2>u, <2>o, <2>j, <1>f DEF RouterShapes
  <2>1. VenueShapes'
    BY <2>u DEF IInv, VenueShapes
  <2>2. RouterShapes'
    BY <2>u, <2>n, <1>f DEF RouterShapes
  <2>3. ThreadShapes'
    BY <2>u, <2>p, <1>f DEF ThreadShapes
  <2>4. VenuesSeeChildren'
    BY <2>u DEF IInv, VenuesSeeChildren, Child
  <2>5. Connections'
    BY <2>u, <2>p DEF Connections
  <2>t. \A x \in OrderIds : Tracked(x) => orders'[x].state # "Untracked"
    BY <2>n, <2>o DEF Tracked
  <2>6. Family'
    <3>1. ASSUME NEW c \in OrderIds, Child(c)
          PROVE  /\ c < nextId /\ parentOf[c] < nextId
                 /\ orders'[c].state # "Untracked"
                 /\ ~Child(parentOf[c]) /\ orders'[parentOf[c]].state # "Untracked"
                 /\ orders'[c].venue \in Venues
      <4>1. /\ c < nextId /\ parentOf[c] < nextId /\ Tracked(c)
            /\ ~Child(parentOf[c]) /\ Tracked(parentOf[c]) /\ orders[c].venue \in Venues
        BY <3>1, <1>f DEF Family
      <4>2. parentOf[c] \in OrderIds
        BY <3>1, <1>f, Ids DEF RouterShapes, Child
      <4>3. orders'[c] = orders[c]
        BY <3>1, <2>j, <2>n
      <4>. QED
        BY <4>1, <4>2, <4>3, <2>t
    <3>2. ASSUME NEW x \in OrderIds, x >= nextId PROVE orders'[x].state = "Untracked"
      <4>1. x # id
        BY <3>2, <2>j, <1>f, Ids DEF RouterShapes
      <4>. QED
        BY <3>2, <4>1, <2>n, <1>f DEF Family, Tracked
    <3>3. ASSUME NEW p \in OrderIds, ~Child(p)
          PROVE  orders'[p].state \in {"Untracked", "PendingNew", "PartiallyFilled", "Filled"}
      BY <3>3, <2>n, <2>o, <1>f DEF Family
    <3>. QED
      BY <3>1, <3>2, <3>3, <2>u DEF Family, Child, Tracked
  <2>7. WaitingOrders'
    <3>1. ASSUME NEW x, Waiting(x), x.id # id PROVE Waiting(x)'
      BY <3>1, <2>u, <2>n DEF Waiting, Child, Tracked
    <3>2. ASSUME NEW x, Waiting(x), t = "exec" PROVE x.id # id
      BY <3>2, <2>j DEF Waiting, Open, Tracked
    <3>3. ASSUME NEW i \in 1 .. Len(orderQueue') PROVE Waiting(orderQueue[i])'
      <4>1. PICK x : x = orderQueue[i]
        OBVIOUS
      <4>2. Waiting(x)
        BY <3>3, <4>1, <2>u, <1>f DEF WaitingOrders
      <4>3. x.id # id
        BY <4>1, <4>2, <3>2, <3>3, <2>0, <2>u, <1>0, <1>f DEF WaitingOrders, Threads
      <4>4. Waiting(x)'
        BY <4>2, <4>3, <3>1
      <4>. QED
        BY <4>1, <4>4, <2>u DEF Waiting, Child, Tracked
    <3>4. ASSUME pc'["order"] = "admit" PROVE Waiting(job["order"])'
      <4>1. t = "exec" /\ pc["order"] = "admit"
        BY <3>4, <2>p DEF Threads
      <4>2. PICK x : x = job["order"]
        OBVIOUS
      <4>3. Waiting(x)
        BY <4>1, <4>2, <1>f DEF WaitingOrders
      <4>4. Waiting(x)'
        BY <4>1, <4>3, <3>1, <3>2
      <4>. QED
        BY <4>2, <4>4, <2>u DEF Waiting, Child, Tracked
    <3>5. pc'["order"] = "admit" => pc["order"] = "admit"
      BY <2>p, <1>0
    <3>. QED
      BY <3>3, <3>4, <3>5, <2>u, <1>f DEF WaitingOrders
  <2>8. Working'
    <3>1. ASSUME NEW p, Open(p), t = "order" PROVE Open(p)' /\ orders'[p] = orders[p]
      BY <3>1, <2>j, <2>n, <2>u DEF Open, Child, Tracked
    <3>2. pc'["exec"] = "admit" => t = "order" /\ pc["exec"] = "admit"
      BY <2>p DEF Threads
    <3>3. pc'["exec"] = "admit" => Open(job["exec"].id)' /\ job'["exec"].order.state = "New"
      <4> SUFFICES ASSUME pc'["exec"] = "admit" PROVE Open(job["exec"].id)' /\ job'["exec"].order.state = "New"
        OBVIOUS
      <4>1. PICK p : p = job["exec"].id
        OBVIOUS
      <4>2. Open(p)' /\ job["exec"].order.state = "New"
        BY <4>1, <3>1, <3>2, <1>f DEF Working
      <4>. QED
        BY <4>1, <4>2, <2>u DEF Open, Child
    <3>4. ASSUME deferred.reroute
          PROVE  /\ pc'["exec"] = "deferred" /\ Open(parentOf[deferred.id])'
                 /\ orders'[parentOf[deferred.id]].remaining \in Nat
      <4>1. t = "order" /\ pc["exec"] = "deferred"
        BY <3>4, <1>0, <1>f DEF Working, Threads
      <4>2. PICK p : p = parentOf[deferred.id]
        OBVIOUS
      <4>3. Open(p) /\ orders[p].remaining \in Nat
        BY <3>4, <4>2, <1>f DEF Working
      <4>4. Open(p)' /\ orders'[p].remaining \in Nat
        BY <4>1, <4>3, <3>1
      <4>. QED
        BY <4>1, <4>2, <4>4, <2>p, <2>u, <1>0 DEF Open, Child
    <3>5. pc'["exec"] = "deferred" => pc["exec"] = "deferred"
      BY <2>p, <1>0
    <3>6. ASSUME NEW z \in Threads
          PROVE  /\ pc'[z] \in {"route", "slice", "send"} =>
                      /\ job[z].id \in OrderIds /\ ~Child(job[z].id) /\ orders'[job[z].id].state # "Untracked"
                      /\ job[z].id < nextId
                 /\ pc'[z] = "slice" => slices[z] # << >>
                 /\ pc'[z] = "send" => sending[z] \in OrderIds /\ Child(sending[z])
      <4>1. CASE z = t
        BY <4>1, <2>0, <2>j, <2>n, <2>o, <2>p
      <4>2. CASE z # t
        <5>1. pc'[z] = pc[z]
          BY <4>2, <2>p
        <5>2. pc[z] \in {"route", "slice", "send"} =>
                 job[z].id \in OrderIds /\ ~Child(job[z].id) /\ Tracked(job[z].id) /\ job[z].id < nextId
          BY <1>f DEF Working
        <5>. QED
          BY <5>1, <5>2, <2>t, <1>f DEF Working
      <4>. QED
        BY <4>1, <4>2
    <3>. QED
      BY <3>3, <3>4, <3>5, <3>6, <2>u, <1>f DEF Working, Child, Tracked
  <2>. QED
    BY <2>1, <2>2, <2>3, <2>4, <2>5, <2>6, <2>7, <2>8 DEF IInv
<1>. QED
  BY <1>1, <1>2 DEF Admit

(* A decision is a nonempty list of slices for known venues. *)
LEMMA Decided ==
  ASSUME NEW order \in OrderShape, NEW d \in Decisions(order)
  PROVE  d \in Seq(SliceShape) /\ d # << >>
<1>0. order.quantity \in Nat /\ order.tif \in TimesInForce
  BY DEF OrderShape
<1>1. CASE order.strategy = "BestPrice"
  <2>1. PICK v \in Venues : d = <<[venue |-> v, quantity |-> order.quantity, tif |-> order.tif]>>
    BY <1>1 DEF Decisions, BestPriceDecisions
  <2>2. PICK s : s = [venue |-> v, quantity |-> order.quantity, tif |-> order.tif]
    OBVIOUS
  <2>3. s \in SliceShape
    BY <2>2, <1>0 DEF SliceShape
  <2>4. d = <<s>>
    BY <2>1, <2>2
  <2>. QED
    BY <2>3, <2>4
<1>2. CASE order.strategy # "BestPrice"
  <2>1. d \in UNION {[1 .. n -> SweepSlices(order.quantity)] : n \in 1 .. Cardinality(Venues)}
    BY <1>2 DEF Decisions, LiquiditySweepDecisions
  <2>2. PICK n \in 1 .. Cardinality(Venues) : d \in [1 .. n -> SweepSlices(order.quantity)]
    BY <2>1
  <2>3. n \in Nat /\ n >= 1
    BY <2>2
  <2>4. ASSUME NEW i \in 1 .. n PROVE d[i] \in SliceShape
    <3>1. d[i] \in SweepSlices(order.quantity)
      BY <2>2
    <3>. QED
      BY <3>1, <1>0 DEF SweepSlices, SliceShape, TimesInForce
  <2>5. d \in [1 .. n -> SliceShape]
    BY <2>2, <2>4
  <2>6. d \in Seq(SliceShape) /\ Len(d) = n
    BY <2>3, <2>5
  <2>. QED
    BY <2>3, <2>6
<1>. QED
  BY <1>1, <1>2

LEMMA RouteInv ==
  ASSUME IInv, NEW t \in Threads, Route(t)
  PROVE  IInv'
<1>0. pc[t] = "route" /\ "order" \in Threads /\ "exec" \in Threads
  BY DEF Route, Threads
<1>c. UNCHANGED <<activeOrders, pendingQueue, batch, connected, reportQueue, handlerVars, position, nextId,
                  job, sending, deferred, cancelQueue, cancelList, orderQueue>>
  BY DEF Route, exchangeVars, riskVars
<1>f. Family /\ WaitingOrders /\ Working /\ RouterShapes /\ ThreadShapes
  BY DEF IInv
<1>1. CASE UNCHANGED slices /\ GoTo(t, Drain(t))
  <2>1. PICK to \in Resting(t) : pc' = [pc EXCEPT ![t] = to]
    BY <1>1 DEF GoTo, Drain, Resting
  <2>2. /\ activeOrders' \in [Venues -> [OrderIds -> BookShape]]
        /\ cancelQueue' \in Seq(OrderIds) /\ cancelList' \in Seq(OrderIds)
    BY <1>c DEF IInv, VenueShapes, RouterShapes, ThreadShapes
  <2>. QED
    BY <1>0, <1>1, <1>c, <2>1, <2>2, Rests
<1>2. CASE (\E d \in Decisions(job[t].order) : slices' = [slices EXCEPT ![t] = d]) /\ GoTo(t, "slice")
  <2>0. PICK d \in Decisions(job[t].order) : slices' = [slices EXCEPT ![t] = d]
    BY <1>2
  <2>d. d \in Seq(SliceShape) /\ d # << >>
    <3>1. job[t].order \in OrderShape
      BY <1>f DEF ThreadShapes, JobShape
    <3>. QED
      BY <3>1, Decided
  <2>u. /\ activeOrders' = activeOrders /\ pendingQueue' = pendingQueue /\ batch' = batch /\ connected' = connected
        /\ reportQueue' = reportQueue /\ job' = job /\ orderQueue' = orderQueue /\ orders' = orders
        /\ childrenOf' = childrenOf /\ parentOf' = parentOf /\ position' = position
        /\ sending' = sending /\ nextId' = nextId
        /\ deferred' = deferred /\ cancelList' = cancelList /\ cancelQueue' = cancelQueue
    BY <1>c DEF handlerVars
  <2>p. /\ pc' \in [Threads -> {"loop", "orders", "admit", "route", "slice", "send", "cancels", "cancelling",
                           "reports", "deferred", "exited"}]
        /\ pc'["order"] \notin {"reports", "deferred"}
        /\ pc'["exec"] \notin {"orders", "cancels", "cancelling"}
        /\ pc'[t] = "slice"
        /\ \A z \in Threads : z # t => pc'[z] = pc[z]
        /\ \A v \in Venues : connected[v]
    <3>1. PICK to \in {"admit", "route", "slice", "send"} \cup Resting(t) : to = "slice"
      OBVIOUS
    <3>2. pc' = [pc EXCEPT ![t] = to] /\ pc[t] # "exited"
      BY <1>0, <1>2, <3>1 DEF GoTo
    <3>. QED
      BY <3>1, <3>2, Moves
  <2>s. /\ slices' \in [Threads -> Seq(SliceShape)]
        /\ slices'[t] = d /\ \A z \in Threads : z # t => slices'[z] = slices[z]
    BY <2>0, <2>d, <1>f DEF ThreadShapes
  <2>1. VenueShapes' /\ RouterShapes'
    BY <2>u DEF IInv, VenueShapes, RouterShapes
  <2>2. ThreadShapes'
    BY <2>u, <2>p, <2>s, <1>f DEF ThreadShapes
  <2>3. Family' /\ VenuesSeeChildren'
    BY <2>u DEF IInv, Family, VenuesSeeChildren, Child, Tracked
  <2>4. Connections'
    BY <2>u, <2>p DEF Connections
  <2>q. \A z \in Threads : pc'[z] \in {"admit", "deferred", "route", "send"} => pc'[z] = pc[z]
    BY <2>p
  <2>5. WaitingOrders'
    BY <2>u, <2>q, <1>0, <1>f DEF WaitingOrders, Waiting, Child, Tracked
  <2>6. Working'
    <3>1. deferred.reroute => pc'["exec"] = "deferred"
      BY <1>0, <1>f, <2>p DEF Working
    <3>2. ASSUME NEW z \in Threads
          PROVE  /\ pc'[z] \in {"route", "slice", "send"} =>
                      job[z].id \in OrderIds /\ ~Child(job[z].id) /\ Tracked(job[z].id) /\ job[z].id < nextId
                 /\ pc'[z] = "slice" => slices'[z] # << >>
                 /\ pc'[z] = "send" => sending[z] \in OrderIds /\ Child(sending[z])
      <4>1. CASE z = t
        BY <4>1, <2>d, <2>s, <2>p, <1>0, <1>f DEF Working
      <4>2. CASE z # t
        BY <4>2, <2>s, <2>p, <1>f DEF Working
      <4>. QED
        BY <4>1, <4>2
    <3>. QED
      BY <2>u, <2>q, <3>1, <3>2, <1>0, <1>f DEF Working, Open, Child, Tracked
  <2>. QED
    BY <2>1, <2>2, <2>3, <2>4, <2>5, <2>6 DEF IInv
<1>. QED
  BY <1>1, <1>2 DEF Route

(* The risk manager's counters stay numbers. *)
LEMMA AcceptedPosition ==
  ASSUME position \in PositionType, NEW side, NEW quantity \in Nat, OnOrderAccepted(side, quantity)
  PROVE  position' \in PositionType
<1>1. position.open + 1 \in Nat /\ position.pendingBuy + quantity \in Nat /\ position.pendingSell + quantity \in Nat
  BY DEF PositionType
<1>2. \/ position' = [position EXCEPT !.open = position.open + 1, !.pendingBuy = position.pendingBuy + quantity]
      \/ position' = [position EXCEPT !.open = position.open + 1, !.pendingSell = position.pendingSell + quantity]
  BY DEF OnOrderAccepted, PositionType
<1>3. PICK a, b, c : a = position.open + 1 /\ b = position.pendingBuy + quantity /\ c = position.pendingSell + quantity
  OBVIOUS
<1>. QED
  BY <1>1, <1>2, <1>3 DEF PositionType

LEMMA SliceInv ==
  ASSUME IInv, NEW t \in Threads, Slice(t)
  PROVE  IInv'
<1>0. pc[t] = "slice" /\ "order" \in Threads /\ "exec" \in Threads /\ nextId \in OrderIds
  BY DEF Slice, Threads
<1>f. Family /\ WaitingOrders /\ Working /\ RouterShapes /\ ThreadShapes
  BY DEF IInv
<1>h. PICK slice, rest : slice = Head(slices[t]) /\ rest = Tail(slices[t])
  OBVIOUS
<1>s. slice \in SliceShape /\ rest \in Seq(SliceShape)
  <2>1. slices[t] \in Seq(SliceShape) /\ slices[t] # << >>
    BY <1>0, <1>f DEF ThreadShapes, Working
  <2>. QED
    BY <1>h, <2>1
<1>a. PICK id, p : id = nextId /\ p = job[t].id
  OBVIOUS
<1>b. PICK o : o = MakeOrder(Apply("New", "Submit"), job[t].order.side, slice.quantity, slice.tif,
                             job[t].order.strategy, slice.venue)
  OBVIOUS
<1>o. /\ o \in OrderShape /\ o.state = "PendingNew" /\ o.venue \in Venues /\ slice.quantity \in Nat
  <2>1. job[t].order \in OrderShape
    BY <1>f DEF ThreadShapes, JobShape
  <2>2. job[t].order.side \in Sides /\ job[t].order.strategy \in {"BestPrice", "LiquiditySweep"}
    BY <2>1 DEF OrderShape
  <2>3. slice.quantity \in Nat /\ slice.tif \in TimesInForce /\ slice.venue \in Venues
    BY <1>s DEF SliceShape
  <2>4. Apply("New", "Submit") = "PendingNew" /\ "PendingNew" \in OrderStates
    BY Submission DEF OrderStates
  <2>. QED
    BY <1>b, <2>2, <2>3, <2>4, MadeOrder
<1>u. /\ activeOrders' = activeOrders /\ pendingQueue' = pendingQueue /\ batch' = batch /\ connected' = connected
      /\ reportQueue' = reportQueue /\ job' = job /\ orderQueue' = orderQueue
      /\ deferred' = deferred /\ cancelList' = cancelList /\ cancelQueue' = cancelQueue
      /\ orders' = [orders EXCEPT ![id] = o]
      /\ childrenOf' = [childrenOf EXCEPT ![p] = Append(@, id)]
      /\ parentOf' = [parentOf EXCEPT ![id] = p]
      /\ nextId' = id + 1
      /\ sending' = [sending EXCEPT ![t] = id]
      /\ slices' = [slices EXCEPT ![t] = rest]
      /\ pc' = [pc EXCEPT ![t] = "send"]
  BY <1>a, <1>b, <1>h DEF Slice, TrackChildOrder, exchangeVars, GoTo
<1>i. /\ id \in OrderIds /\ id \in Nat /\ p \in OrderIds /\ p \in Nat /\ p < id /\ p # id
      /\ ~Child(p) /\ Tracked(p) /\ ~Tracked(id) /\ ~Child(id)
  <2>1. id \in OrderIds /\ id \in Nat
    BY <1>0, <1>a, <1>f DEF RouterShapes
  <2>2. p \in OrderIds /\ ~Child(p) /\ Tracked(p) /\ p < id
    BY <1>0, <1>a, <1>f DEF Working
  <2>3. p \in Nat
    BY <2>2, IdNumber DEF AnyId
  <2>4. ~Tracked(id)
    BY <2>1, <1>a, <1>f DEF Family
  <2>5. ~Child(id)
    BY <2>1, <2>4, <1>f DEF Family
  <2>. QED
    BY <2>1, <2>2, <2>3, <2>4, <2>5
<1>p. /\ pc' \in [Threads -> {"loop", "orders", "admit", "route", "slice", "send", "cancels", "cancelling",
                         "reports", "deferred", "exited"}]
      /\ pc'["order"] \notin {"reports", "deferred"}
      /\ pc'["exec"] \notin {"orders", "cancels", "cancelling"}
      /\ pc'[t] = "send"
      /\ \A z \in Threads : z # t => pc'[z] = pc[z]
      /\ \A v \in Venues : connected[v]
  <2>1. PICK to \in {"admit", "route", "slice", "send"} \cup Resting(t) : to = "send"
    OBVIOUS
  <2>2. pc' = [pc EXCEPT ![t] = to] /\ pc[t] # "exited"
    BY <1>0, <1>u, <2>1
  <2>. QED
    BY <2>1, <2>2, Moves
<1>n. /\ orders' \in [OrderIds -> OrderShape] /\ orders'[id] = o
      /\ \A x \in OrderIds : x # id => orders'[x] = orders[x]
  BY <1>u, <1>o, <1>i, <1>f DEF RouterShapes
<1>m. /\ parentOf' \in [OrderIds -> AnyId] /\ parentOf'[id] = p
      /\ \A x \in OrderIds : x # id => parentOf'[x] = parentOf[x]
  <2>1. p \in AnyId
    BY <1>i DEF AnyId
  <2>. QED
    BY <2>1, <1>u, <1>i, <1>f DEF RouterShapes
<1>1. VenueShapes'
  BY <1>u DEF IInv, VenueShapes
<1>2. RouterShapes'
  <2>1. childrenOf' \in [OrderIds -> Seq(OrderIds)]
    <3>1. childrenOf \in [OrderIds -> Seq(OrderIds)]
      BY <1>f DEF RouterShapes
    <3>2. Append(childrenOf[p], id) \in Seq(OrderIds)
      BY <3>1, <1>i
    <3>. QED
      BY <3>1, <3>2, <1>u
  <2>2. position' \in PositionType
    <3>1. position \in PositionType
      BY <1>f DEF RouterShapes
    <3>2. OnOrderAccepted(job[t].order.side, slice.quantity)
      BY <1>h DEF Slice
    <3>3. PICK side : side = job[t].order.side
      OBVIOUS
    <3>4. PICK quantity \in Nat : quantity = slice.quantity
      BY <1>o
    <3>5. OnOrderAccepted(side, quantity)
      BY <3>2, <3>3, <3>4
    <3>. QED
      BY <3>1, <3>5, AcceptedPosition
  <2>3. nextId' \in Nat
    BY <1>u, <1>i
  <2>. QED
    BY <2>1, <2>2, <2>3, <1>n, <1>m, <1>u, <1>f DEF RouterShapes
<1>3. ThreadShapes'
  <2>1. id \in AnyId
    BY <1>i DEF AnyId
  <2>2. sending' \in [Threads -> AnyId] /\ slices' \in [Threads -> Seq(SliceShape)]
    BY <2>1, <1>s, <1>u, <1>f DEF ThreadShapes
  <2>. QED
    BY <2>2, <1>u, <1>p, <1>f DEF ThreadShapes
<1>4. Connections'
  BY <1>u, <1>p DEF Connections
<1>x. \A x \in OrderIds : x < id => x # id /\ x < id + 1
  <2> SUFFICES ASSUME NEW x \in OrderIds, x < id PROVE x # id /\ x < id + 1
    OBVIOUS
  <2>1. x \in Nat
    BY IdNumber DEF AnyId
  <2>. QED
    BY <2>1, <1>i
<1>ch. \A x \in OrderIds : Child(x) => parentOf'[x] # INVALID_ORDER_ID
  BY <1>m, <1>i DEF Child
<1>5. VenuesSeeChildren'
  <2>1. ASSUME NEW v \in Venues, NEW i \in 1 .. Len(pendingQueue[v])
        PROVE  parentOf'[pendingQueue[v][i]] # INVALID_ORDER_ID
    <3>1. pendingQueue[v] \in Seq(OrderIds)
      BY DEF IInv, VenueShapes
    <3>2. pendingQueue[v][i] \in OrderIds /\ Child(pendingQueue[v][i])
      BY <3>1 DEF IInv, VenuesSeeChildren
    <3>. QED
      BY <3>2, <1>ch
  <2>2. ASSUME NEW i \in 1 .. Len(reportQueue)
        PROVE  parentOf'[reportQueue[i].id] # INVALID_ORDER_ID
    <3>1. reportQueue \in Seq(ReportShape)
      BY DEF IInv, VenueShapes
    <3>2. reportQueue[i] \in ReportShape
      BY <3>1
    <3>3. reportQueue[i].id \in OrderIds /\ Child(reportQueue[i].id)
      BY <3>2 DEF IInv, VenuesSeeChildren, ReportShape
    <3>. QED
      BY <3>3, <1>ch
  <2>. QED
    BY <2>1, <2>2, <1>u DEF VenuesSeeChildren, Child
<1>6. Family'
  <2>1. ASSUME NEW c \in OrderIds, parentOf'[c] # INVALID_ORDER_ID
        PROVE  /\ c < id + 1 /\ parentOf'[c] < id + 1
               /\ orders'[c].state # "Untracked"
               /\ ~(parentOf'[parentOf'[c]] # INVALID_ORDER_ID) /\ orders'[parentOf'[c]].state # "Untracked"
               /\ orders'[c].venue \in Venues
    <3>1. CASE c = id
      <4>1. parentOf'[c] = p /\ parentOf'[p] = parentOf[p] /\ orders'[p] = orders[p]
        BY <3>1, <1>m, <1>n, <1>i
      <4>2. c < id + 1 /\ p < id + 1
        BY <3>1, <1>i
      <4>. QED
        BY <4>1, <4>2, <3>1, <1>i, <1>n, <1>o DEF Child, Tracked
    <3>2. CASE c # id
      <4>1. parentOf'[c] = parentOf[c] /\ orders'[c] = orders[c]
        BY <3>2, <1>m, <1>n
      <4>2. /\ c < id /\ parentOf[c] < id /\ Tracked(c)
            /\ ~Child(parentOf[c]) /\ Tracked(parentOf[c]) /\ orders[c].venue \in Venues
        BY <2>1, <4>1, <1>a, <1>f DEF Family, Child
      <4>3. parentOf[c] \in OrderIds
        BY <2>1, <4>1, <1>f, Ids DEF RouterShapes
      <4>4. parentOf[c] # id /\ parentOf[c] < id + 1 /\ c < id + 1
        BY <4>2, <4>3, <1>x
      <4>. QED
        BY <4>1, <4>2, <4>3, <4>4, <1>m, <1>n DEF Child, Tracked
    <3>. QED
      BY <3>1, <3>2
  <2>2. ASSUME NEW x \in OrderIds, x >= id + 1 PROVE orders'[x].state = "Untracked"
    <3>1. x \in Nat
      BY IdNumber DEF AnyId
    <3>2. x # id /\ x >= id
      BY <3>1, <2>2, <1>i
    <3>. QED
      BY <3>2, <1>a, <1>n, <1>f DEF Family, Tracked
  <2>3. ASSUME NEW x \in OrderIds, ~(parentOf'[x] # INVALID_ORDER_ID)
        PROVE  orders'[x].state \in {"Untracked", "PendingNew", "PartiallyFilled", "Filled"}
    <3>1. CASE x = id
      BY <3>1, <1>n, <1>o
    <3>2. CASE x # id
      BY <3>2, <2>3, <1>m, <1>n, <1>f DEF Family, Child
    <3>. QED
      BY <3>1, <3>2
  <2>. QED
    BY <2>1, <2>2, <2>3, <1>u DEF Family, Child, Tracked
<1>7. WaitingOrders'
  <2>1. ASSUME NEW x, Waiting(x) PROVE Waiting(x)'
    <3>1. x.id \in OrderIds /\ x.id < id /\ ~Child(x.id) /\ ~Tracked(x.id) /\ x.order.state = "New"
      BY <2>1, <1>a DEF Waiting
    <3>2. x.id # id /\ x.id < id + 1
      BY <3>1, <1>x
    <3>3. parentOf'[x.id] = parentOf[x.id] /\ orders'[x.id] = orders[x.id]
      BY <3>1, <3>2, <1>m, <1>n
    <3>. QED
      BY <3>1, <3>2, <3>3, <1>u DEF Waiting, Child, Tracked
  <2>2. ASSUME NEW i \in 1 .. Len(orderQueue') PROVE Waiting(orderQueue[i])'
    <3>1. PICK x : x = orderQueue[i]
      OBVIOUS
    <3>2. Waiting(x)'
      BY <2>1, <2>2, <3>1, <1>u, <1>f DEF WaitingOrders
    <3>. QED
      BY <3>1, <3>2, <1>u DEF Waiting, Child, Tracked
  <2>3. ASSUME pc'["order"] = "admit" PROVE pc["order"] = "admit" /\ Waiting(job["order"])'
    <3>1. pc["order"] = "admit"
      BY <2>3, <1>p, <1>0
    <3>2. PICK x : x = job["order"]
      OBVIOUS
    <3>3. Waiting(x)'
      BY <2>1, <3>1, <3>2, <1>f DEF WaitingOrders
    <3>. QED
      BY <3>1, <3>2, <3>3, <1>u DEF Waiting, Child, Tracked
  <2>. QED
    BY <2>2, <2>3, <1>u, <1>f DEF WaitingOrders
<1>8. Working'
  <2>1. ASSUME NEW x, Open(x)
        PROVE  /\ x \in OrderIds /\ ~(parentOf'[x] # INVALID_ORDER_ID)
               /\ orders'[x].state \in {"PendingNew", "PartiallyFilled"} /\ orders'[x] = orders[x]
    <3>1. x \in OrderIds /\ ~Child(x) /\ Tracked(x) /\ orders[x].state \in {"PendingNew", "PartiallyFilled"}
      BY <2>1 DEF Open, Tracked
    <3>2. x # id
      BY <3>1, <1>i
    <3>. QED
      BY <3>1, <3>2, <1>m, <1>n DEF Child
  <2>q. \A z \in Threads : pc'[z] \in {"admit", "deferred", "route", "slice"} => pc'[z] = pc[z]
    BY <1>p
  <2>2. ASSUME pc'["exec"] = "admit" PROVE Open(job["exec"].id)' /\ job'["exec"].order.state = "New"
    <3>1. Open(job["exec"].id) /\ job["exec"].order.state = "New"
      BY <2>2, <2>q, <1>0, <1>f DEF Working
    <3>. QED
      BY <3>1, <2>1, <1>u DEF Open, Child
  <2>3. ASSUME deferred.reroute
        PROVE  /\ pc'["exec"] = "deferred" /\ deferred.id \in OrderIds /\ Open(parentOf[deferred.id])'
               /\ orders'[parentOf'[deferred.id]].remaining \in Nat
    <3>1. pc["exec"] = "deferred" /\ deferred.id \in OrderIds /\ Open(parentOf[deferred.id])
          /\ orders[parentOf[deferred.id]].remaining \in Nat
      BY <2>3, <1>f DEF Working
    <3>2. Child(deferred.id)
      BY <3>1, Ids DEF Open, Child
    <3>3. deferred.id # id
      BY <3>2, <1>i
    <3>4. parentOf'[deferred.id] = parentOf[deferred.id]
      BY <3>1, <3>3, <1>m
    <3>5. pc'["exec"] = "deferred"
      BY <3>1, <1>p, <1>0
    <3>. QED
      BY <3>1, <3>4, <3>5, <2>1, <1>u DEF Open, Child
  <2>4. pc'["exec"] = "deferred" => deferred.id \in OrderIds
    BY <2>q, <1>0, <1>f DEF Working
  <2>5. ASSUME NEW z \in Threads
        PROVE  /\ pc'[z] \in {"route", "slice", "send"} =>
                    /\ job[z].id \in OrderIds /\ ~(parentOf'[job[z].id] # INVALID_ORDER_ID)
                    /\ orders'[job[z].id].state # "Untracked" /\ job[z].id < id + 1
               /\ pc'[z] = "slice" => slices'[z] # << >>
               /\ pc'[z] = "send" => sending'[z] \in OrderIds /\ parentOf'[sending'[z]] # INVALID_ORDER_ID
    <3>1. CASE z = t
      <4>1. sending'[z] = id
        BY <3>1, <1>u, <1>f DEF ThreadShapes
      <4>2. parentOf'[id] # INVALID_ORDER_ID
        BY <1>m, <1>i, Ids
      <4>3. /\ job[z].id = p /\ p \in OrderIds /\ ~(parentOf'[p] # INVALID_ORDER_ID)
            /\ orders'[p].state # "Untracked" /\ p < id + 1
        BY <3>1, <1>a, <1>i, <1>m, <1>n, <1>x DEF Child, Tracked
      <4>. QED
        BY <4>1, <4>2, <4>3, <3>1, <1>i, <1>p
    <3>2. CASE z # t
      <4>1. pc'[z] = pc[z] /\ sending'[z] = sending[z] /\ slices'[z] = slices[z]
        BY <3>2, <1>p, <1>u, <1>f DEF ThreadShapes
      <4>2. pc[z] \in {"route", "slice", "send"} =>
               job[z].id \in OrderIds /\ ~Child(job[z].id) /\ Tracked(job[z].id) /\ job[z].id < id
        BY <1>a, <1>f DEF Working
      <4>3. pc[z] \in {"route", "slice", "send"} =>
               /\ job[z].id \in OrderIds /\ ~(parentOf'[job[z].id] # INVALID_ORDER_ID)
               /\ orders'[job[z].id].state # "Untracked" /\ job[z].id < id + 1
        BY <4>2, <1>x, <1>m, <1>n DEF Child, Tracked
      <4>4. pc[z] = "send" => sending[z] \in OrderIds /\ parentOf'[sending[z]] # INVALID_ORDER_ID
        BY <1>ch, <1>f DEF Working
      <4>. QED
        BY <4>1, <4>3, <4>4, <1>f DEF Working
    <3>. QED
      BY <3>1, <3>2
  <2>. QED
    BY <2>2, <2>3, <2>4, <2>5, <1>u DEF Working, Child, Tracked
<1>. QED
  BY <1>1, <1>2, <1>3, <1>4, <1>5, <1>6, <1>7, <1>8 DEF IInv

LEMMA SendInv ==
  ASSUME IInv, NEW t \in Threads, Send(t)
  PROVE  IInv'
<1>0. pc[t] = "send" /\ "order" \in Threads /\ "exec" \in Threads
  BY DEF Send, Threads
<1>f. Family /\ WaitingOrders /\ Working /\ RouterShapes /\ ThreadShapes /\ VenueShapes /\ VenuesSeeChildren
  BY DEF IInv
<1>a. PICK id, v, quantity, tif : /\ id = sending[t] /\ v = orders[sending[t]].venue
                                  /\ quantity = orders[sending[t]].quantity /\ tif = orders[sending[t]].tif
  OBVIOUS
<1>i. id \in OrderIds /\ Child(id) /\ v \in Venues /\ quantity \in Nat /\ tif \in TimesInForce
  <2>1. id \in OrderIds /\ Child(id)
    BY <1>0, <1>a, <1>f DEF Working
  <2>2. v \in Venues
    BY <2>1, <1>a, <1>f DEF Family
  <2>3. orders[id] \in OrderShape
    BY <2>1, <1>f DEF RouterShapes
  <2>. QED
    BY <2>1, <2>2, <2>3, <1>a DEF OrderShape
<1>b. PICK b, reports, q : /\ b = [quantity |-> quantity, filled |-> 0, tif |-> tif, cancel |-> FALSE]
                           /\ reports = <<Report(id, "Accepted", 0, 0)>>
                           /\ q = Append(pendingQueue[v], id)
  OBVIOUS
<1>s. SendAccepted(v, id, quantity, tif)
  BY <1>a DEF Send
<1>u. /\ activeOrders' = [activeOrders EXCEPT ![v] = [activeOrders[v] EXCEPT ![id] = b]]
      /\ pendingQueue' = [pendingQueue EXCEPT ![v] = q]
      /\ batch' = batch /\ connected' = connected /\ Notify(reports)
  BY <1>s, <1>b DEF SendAccepted
<1>w. /\ orders' = orders /\ childrenOf' = childrenOf /\ parentOf' = parentOf
      /\ job' = job /\ orderQueue' = orderQueue /\ nextId' = nextId /\ position' = position
      /\ deferred' = deferred /\ cancelList' = cancelList /\ cancelQueue' = cancelQueue
      /\ slices' = slices
      /\ sending' = [sending EXCEPT ![t] = INVALID_ORDER_ID]
  BY DEF Send, handlerVars, riskVars, gatewayVars
<1>t. PICK to \in {"slice"} \cup Resting(t) : pc' = [pc EXCEPT ![t] = to] /\ (to = "slice" => slices[t] # << >>)
  <2>1. CASE slices[t] = << >>
    <3>1. PICK to \in Resting(t) : to = Drain(t)
      BY DEF Drain, Resting
    <3>2. to # "slice"
      BY <3>1 DEF Drain
    <3>3. pc' = [pc EXCEPT ![t] = to]
      BY <2>1, <3>1 DEF Send, GoTo
    <3>. QED
      BY <3>2, <3>3
  <2>2. CASE slices[t] # << >>
    <3>1. pc' = [pc EXCEPT ![t] = "slice"]
      BY <2>2 DEF Send, GoTo
    <3>. QED
      BY <2>2, <3>1
  <2>. QED
    BY <2>1, <2>2
<1>p. /\ pc' \in [Threads -> {"loop", "orders", "admit", "route", "slice", "send", "cancels", "cancelling",
                         "reports", "deferred", "exited"}]
      /\ pc'["order"] \notin {"reports", "deferred"}
      /\ pc'["exec"] \notin {"orders", "cancels", "cancelling"}
      /\ pc'[t] = to
      /\ \A z \in Threads : z # t => pc'[z] = pc[z]
      /\ \A x \in Venues : connected[x]
  <2>1. to \in {"admit", "route", "slice", "send"} \cup Resting(t)
    BY <1>t
  <2>2. pc[t] # "exited"
    BY <1>0
  <2>. QED
    BY <1>t, <2>1, <2>2, Moves
<1>r. /\ reports \in Seq(ReportShape) /\ \A i \in 1 .. Len(reports) : Child(reports[i].id)
  <2>1. PICK r : r = Report(id, "Accepted", 0, 0)
    OBVIOUS
  <2>2. r \in ReportShape /\ r.id = id
    BY <2>1, <1>i DEF Report, ReportShape
  <2>3. reports = <<r>>
    BY <2>1, <1>b
  <2>. QED
    BY <2>2, <2>3, <1>i
<1>q. /\ q \in Seq(OrderIds) /\ \A i \in 1 .. Len(q) : Child(q[i])
  <2>1. pendingQueue[v] \in Seq(OrderIds)
    BY <1>i, <1>f DEF VenueShapes
  <2>2. q \in Seq(OrderIds) /\ Len(q) = Len(pendingQueue[v]) + 1 /\ Len(pendingQueue[v]) \in Nat
    BY <2>1, <1>i, <1>b
  <2>3. ASSUME NEW i \in 1 .. Len(q) PROVE Child(q[i])
    <3>1. q[i] = IF i = Len(pendingQueue[v]) + 1 THEN id ELSE pendingQueue[v][i]
      BY <2>1, <2>2, <1>b
    <3>2. i # Len(pendingQueue[v]) + 1 => i \in 1 .. Len(pendingQueue[v])
      BY <2>2
    <3>. QED
      BY <3>1, <3>2, <1>i, <1>f DEF VenuesSeeChildren
  <2>. QED
    BY <2>2, <2>3
<1>n. /\ reportQueue' \in Seq(ReportShape) /\ Len(reportQueue') <= ReportCapacity
      /\ \A i \in 1 .. Len(reportQueue') :
            \/ \E j \in 1 .. Len(reportQueue) : reportQueue'[i] = reportQueue[j]
            \/ \E j \in 1 .. Len(reports) : reportQueue'[i] = reports[j]
  <2>1. reportQueue \in Seq(ReportShape) /\ Len(reportQueue) <= ReportCapacity
    BY <1>f DEF VenueShapes
  <2>. QED
    BY <2>1, <1>r, <1>u, Notified
<1>1. VenueShapes'
  <2>1. b \in BookShape
    BY <1>b, <1>i DEF BookShape
  <2>2. activeOrders' \in [Venues -> [OrderIds -> BookShape]]
    BY <2>1, <1>i, <1>u, <1>f DEF VenueShapes
  <2>3. pendingQueue' \in [Venues -> Seq(OrderIds)]
    BY <1>q, <1>u, <1>f DEF VenueShapes
  <2>4. ASSUME NEW x \in Venues PROVE batch'[x] <= Len(pendingQueue'[x])
    <3>1. CASE x = v
      <4>1. pendingQueue'[x] = q /\ Len(q) \in Nat /\ batch[x] = 0
        BY <3>1, <1>q, <1>u, <1>s, <1>f DEF VenueShapes, SendAccepted
      <4>. QED
        BY <4>1, <1>u
    <3>2. CASE x # v
      BY <3>2, <1>u, <1>f DEF VenueShapes
    <3>. QED
      BY <3>1, <3>2
  <2>. QED
    BY <2>2, <2>3, <2>4, <1>n, <1>u, <1>f DEF VenueShapes
<1>2. RouterShapes'
  BY <1>w, <1>f DEF RouterShapes
<1>3. ThreadShapes'
  <2>1. sending' \in [Threads -> AnyId]
    BY <1>w, <1>f DEF ThreadShapes, AnyId
  <2>. QED
    BY <2>1, <1>w, <1>p, <1>f DEF ThreadShapes
<1>4. Family'
  BY <1>w, <1>f DEF Family, Child, Tracked
<1>5. VenuesSeeChildren'
  <2>1. ASSUME NEW x \in Venues, NEW i \in 1 .. Len(pendingQueue'[x])
        PROVE  parentOf[pendingQueue'[x][i]] # INVALID_ORDER_ID
    <3>1. CASE x = v
      BY <3>1, <1>q, <1>u, <1>f DEF VenueShapes, Child
    <3>2. CASE x # v
      BY <3>2, <1>u, <1>f DEF VenueShapes, VenuesSeeChildren, Child
    <3>. QED
      BY <3>1, <3>2
  <2>2. ASSUME NEW i \in 1 .. Len(reportQueue')
        PROVE  parentOf[reportQueue'[i].id] # INVALID_ORDER_ID
    BY <1>n, <1>r, <1>f DEF VenuesSeeChildren, Child
  <2>. QED
    BY <2>1, <2>2, <1>w DEF VenuesSeeChildren, Child
<1>6. Connections'
  BY <1>u, <1>p DEF Connections
<1>z. \A z \in Threads : pc'[z] \in {"admit", "deferred", "route", "send"} => pc'[z] = pc[z] /\ z # t
  BY <1>p, <1>t DEF Resting
<1>7. WaitingOrders'
  BY <1>w, <1>z, <1>0, <1>f DEF WaitingOrders, Waiting, Child, Tracked
<1>8. Working'
  <2>1. deferred.reroute => pc'["exec"] = "deferred"
    BY <1>0, <1>f, <1>p DEF Working
  <2>2. ASSUME NEW z \in Threads
        PROVE  /\ pc'[z] \in {"route", "slice", "send"} =>
                    job[z].id \in OrderIds /\ ~Child(job[z].id) /\ Tracked(job[z].id) /\ job[z].id < nextId
               /\ pc'[z] = "slice" => slices[z] # << >>
               /\ pc'[z] = "send" => sending'[z] \in OrderIds /\ Child(sending'[z])
    <3>1. CASE z = t
      BY <3>1, <1>t, <1>p, <1>z, <1>0, <1>f DEF Working
    <3>2. CASE z # t
      <4>1. sending'[z] = sending[z] /\ pc'[z] = pc[z]
        BY <3>2, <1>w, <1>p, <1>f DEF ThreadShapes
      <4>. QED
        BY <4>1, <1>f DEF Working
    <3>. QED
      BY <3>1, <3>2
  <2>. QED
    BY <2>1, <2>2, <1>w, <1>z, <1>0, <1>f DEF Working, Open, Child, Tracked
<1>. QED
  BY <1>1, <1>2, <1>3, <1>4, <1>5, <1>6, <1>7, <1>8 DEF IInv

-----------------------------------------------------------------------------
(* execution_processing_loop                                               *)

(* The order of the report at the head of the queue is a child of a         *)
(* tracked parent; what the report makes of the two orders.                 *)
LEMMA ReportAtHead ==
  ASSUME IInv, reportQueue # << >>
  PROVE  /\ Head(reportQueue) \in ReportShape
         /\ Head(reportQueue).id \in OrderIds /\ Child(Head(reportQueue).id) /\ Tracked(Head(reportQueue).id)
         /\ parentOf[Head(reportQueue).id] \in OrderIds
         /\ ~Child(parentOf[Head(reportQueue).id])
         /\ orders[parentOf[Head(reportQueue).id]].state \in {"PendingNew", "PartiallyFilled", "Filled"}
         /\ Tail(reportQueue) \in Seq(ReportShape)
         /\ Len(Tail(reportQueue)) <= ReportCapacity
         /\ \A i \in 1 .. Len(Tail(reportQueue)) : Child(Tail(reportQueue)[i].id)
<1>1. reportQueue \in Seq(ReportShape) /\ Len(reportQueue) \in Nat /\ Len(reportQueue) <= ReportCapacity
  BY DEF IInv, VenueShapes
<1>2. Len(reportQueue) # 0
  BY <1>1
<1>3. 1 \in 1 .. Len(reportQueue)
  BY <1>1, <1>2
<1>4. Head(reportQueue) = reportQueue[1] /\ reportQueue[1] \in ReportShape
  BY <1>1, <1>3
<1>5. Tail(reportQueue) \in Seq(ReportShape) /\ Len(Tail(reportQueue)) = Len(reportQueue) - 1
  BY <1>1
<1>6. \A i \in 1 .. Len(Tail(reportQueue)) : Tail(reportQueue)[i] = reportQueue[i + 1] /\ i + 1 \in 1 .. Len(reportQueue)
  BY <1>1, <1>5
<1>7. Len(Tail(reportQueue)) <= ReportCapacity
  BY <1>1, <1>5, ReportCapacityAssumption
<1>8. \A i \in 1 .. Len(Tail(reportQueue)) : Child(Tail(reportQueue)[i].id)
  BY <1>6 DEF IInv, VenuesSeeChildren
<1>9. PICK c, p : c = Head(reportQueue).id /\ p = parentOf[c]
  OBVIOUS
<1>10. c \in OrderIds /\ Child(c)
  BY <1>3, <1>4, <1>9 DEF IInv, VenuesSeeChildren, ReportShape
<1>11. Tracked(c) /\ ~Child(p) /\ Tracked(p)
  BY <1>9, <1>10 DEF IInv, Family
<1>12. p \in OrderIds
  BY <1>9, <1>10, Ids DEF IInv, RouterShapes, Child
<1>13. orders[p].state \in {"PendingNew", "PartiallyFilled", "Filled"}
  BY <1>11, <1>12 DEF IInv, Family, Tracked
<1>. QED
  BY <1>4, <1>5, <1>7, <1>8, <1>9, <1>10, <1>11, <1>12, <1>13

(* A parent with nothing left is closed; one that is rerouted shows what is *)
(* left of it.                                                              *)
LEMMA ClosedParent ==
  ASSUME NEW parent \in OrderShape, parent.state \in {"PendingNew", "PartiallyFilled", "Filled"}, NEW closed,
         \/ closed = [parent EXCEPT !.state = "Filled", !.remaining = 0]
         \/ /\ closed = [parent EXCEPT !.remaining = parent.quantity - parent.filled]
            /\ ~IsTerminal(parent.state) /\ parent.quantity - parent.filled > 0
         \/ closed = parent
  PROVE  /\ closed \in OrderShape
         /\ closed.state \in {"PendingNew", "PartiallyFilled", "Filled"}
         /\ parent.state = "Filled" => closed.state = "Filled"
<1>1. CASE closed = [parent EXCEPT !.state = "Filled", !.remaining = 0]
  <2>1. "Filled" \in OrderStates /\ 0 \in Int
    BY DEF OrderStates
  <2>2. PICK s, n : s = "Filled" /\ n = 0
    OBVIOUS
  <2>3. closed = [parent EXCEPT !.state = s, !.remaining = n]
    BY <1>1, <2>2
  <2>4. closed \in OrderShape /\ closed.state = s
    BY <2>1, <2>2, <2>3 DEF OrderShape
  <2>. QED
    BY <2>2, <2>4
<1>2. CASE /\ closed = [parent EXCEPT !.remaining = parent.quantity - parent.filled]
           /\ ~IsTerminal(parent.state) /\ parent.quantity - parent.filled > 0
  <2>1. PICK rest : rest = parent.quantity - parent.filled
    OBVIOUS
  <2>2. rest \in Int
    BY <2>1 DEF OrderShape
  <2>3. closed = [parent EXCEPT !.remaining = rest]
    BY <1>2, <2>1
  <2>. QED
    BY <2>2, <2>3 DEF OrderShape
<1>. QED
  BY <1>1, <1>2

LEMMA ReportStep ==
  ASSUME IInv, reportQueue # << >>, NEW r, r = Head(reportQueue), NEW c, c = r.id, NEW p, p = parentOf[c],
         OnExecutionReport(r)
  PROVE  /\ orders' \in [OrderIds -> OrderShape]
         /\ \A x \in OrderIds : x \notin {c, p} => orders'[x] = orders[x]
         /\ orders'[c].state \in OrderStates /\ orders'[c].venue = orders[c].venue
         /\ IsTerminal(orders[c].state) => orders'[c].state = orders[c].state
         /\ orders'[p].state \in {"PendingNew", "PartiallyFilled", "Filled"}
         /\ orders[p].state = "Filled" => orders'[p].state = "Filled"
         /\ UNCHANGED <<childrenOf, parentOf>>
         /\ Deferred(r) \in DeferShape /\ Deferred(r).id = c
         /\ Deferred(r).reroute =>
               orders'[p].state \in {"PendingNew", "PartiallyFilled"} /\ orders'[p].remaining \in Nat
<1>1. /\ r \in ReportShape /\ c \in OrderIds /\ Child(c) /\ Tracked(c) /\ p \in OrderIds /\ ~Child(p)
      /\ orders[p].state \in {"PendingNew", "PartiallyFilled", "Filled"} /\ p # c /\ p # INVALID_ORDER_ID
  <2>1. /\ r \in ReportShape /\ c \in OrderIds /\ Child(c) /\ Tracked(c) /\ p \in OrderIds /\ ~Child(p)
        /\ orders[p].state \in {"PendingNew", "PartiallyFilled", "Filled"}
    BY ReportAtHead
  <2>. QED
    BY <2>1, Ids
<1> DEFINE needs == NeedsReroute(AfterChildFill(orders[p], r), AfterReport(orders[c], r), c, childrenOf[p])
           full  == AfterChildFill(orders[p], r).filled >= AfterChildFill(orders[p], r).quantity
<1>2. PICK child, parent, closed :
        /\ child = AfterReport(orders[c], r)
        /\ parent = AfterChildFill(orders[p], r)
        /\ closed = IF full THEN [parent EXCEPT !.state = "Filled", !.remaining = 0]
                    ELSE IF needs THEN [parent EXCEPT !.remaining = parent.quantity - parent.filled]
                         ELSE parent
  OBVIOUS
<1>3. orders \in [OrderIds -> OrderShape]
  BY DEF IInv, RouterShapes
<1>4. /\ child \in OrderShape /\ child.state \in OrderStates /\ child.venue = orders[c].venue
      /\ IsTerminal(orders[c].state) => child.state = orders[c].state
  <2>1. orders[c] \in OrderShape /\ orders[c].state # "Untracked"
    BY <1>1, <1>3 DEF Tracked
  <2>. QED
    BY <2>1, <1>1, <1>2, ReportedOrder
<1>5. /\ parent \in OrderShape /\ parent.state \in {"PendingNew", "PartiallyFilled", "Filled"}
      /\ orders[p].state = "Filled" => parent.state = "Filled"
  <2>1. orders[p] \in OrderShape
    BY <1>1, <1>3
  <2>. QED
    BY <2>1, <1>1, <1>2, FilledParent
<1>6. needs => ~IsTerminal(parent.state) /\ parent.quantity - parent.filled > 0
  BY <1>2 DEF NeedsReroute
<1>b. needs \in BOOLEAN /\ full \in BOOLEAN
  <2>1. needs \in BOOLEAN
    BY Zenon DEF NeedsReroute
  <2>2. full = TRUE \/ full = FALSE
    OBVIOUS
  <2>. QED
    BY <2>1, <2>2
<1>g. needs => ~full /\ closed = [parent EXCEPT !.remaining = parent.quantity - parent.filled]
  <2>1. parent.quantity \in Nat /\ parent.filled \in Nat
    BY <1>5 DEF OrderShape
  <2>2. full <=> parent.filled >= parent.quantity
    BY <1>2
  <2>. HIDE DEF full, needs
  <2>3. needs => ~full
    BY <2>1, <2>2, <1>6
  <2>. QED
    BY <2>3, <1>2
<1>7. /\ closed \in OrderShape /\ closed.state \in {"PendingNew", "PartiallyFilled", "Filled"}
      /\ parent.state = "Filled" => closed.state = "Filled"
  <2>1. \/ closed = [parent EXCEPT !.state = "Filled", !.remaining = 0]
        \/ /\ closed = [parent EXCEPT !.remaining = parent.quantity - parent.filled]
           /\ ~IsTerminal(parent.state) /\ parent.quantity - parent.filled > 0
        \/ closed = parent
    BY <1>2, <1>6
  <2> HIDE DEF needs, full
  <2>. QED
    BY <2>1, <1>5, ClosedParent
<1>h. needs => closed.state \in {"PendingNew", "PartiallyFilled"} /\ closed.remaining \in Nat
  <2> SUFFICES ASSUME needs PROVE closed.state \in {"PendingNew", "PartiallyFilled"} /\ closed.remaining \in Nat
    OBVIOUS
  <2>1. PICK rest : rest = parent.quantity - parent.filled
    OBVIOUS
  <2>2. rest \in Nat
    BY <2>1, <1>5, <1>6 DEF OrderShape
  <2>3. closed = [parent EXCEPT !.remaining = rest] /\ parent.state # "Filled"
    BY <2>1, <1>g, <1>6 DEF IsTerminal
  <2> HIDE DEF needs, full
  <2>. QED
    BY <2>2, <2>3, <1>5 DEF OrderShape
<1>8. /\ orders' = [[orders EXCEPT ![c] = child] EXCEPT ![p] = closed]
      /\ childrenOf' = childrenOf /\ parentOf' = parentOf
  BY <1>1, <1>2 DEF OnExecutionReport
<1>9. /\ orders' \in [OrderIds -> OrderShape] /\ orders'[c] = child /\ orders'[p] = closed
      /\ \A x \in OrderIds : x \notin {c, p} => orders'[x] = orders[x]
  BY <1>1, <1>3, <1>4, <1>7, <1>8
<1>11. Deferred(r) = [id |-> c, fill |-> r.last, reroute |-> needs, completion |-> full]
  <2>1. Deferred(r) = [id |-> c, fill |-> r.last, reroute |-> p # INVALID_ORDER_ID /\ needs,
                       completion |-> IF p = INVALID_ORDER_ID THEN AfterReport(orders[c], r).state = "Filled"
                                      ELSE full]
    BY <1>1 DEF Deferred
  <2> HIDE DEF needs, full
  <2>2. (p # INVALID_ORDER_ID /\ needs) = needs
    BY <1>1, <1>b
  <2>3. (IF p = INVALID_ORDER_ID THEN AfterReport(orders[c], r).state = "Filled" ELSE full) = full
    BY <1>1
  <2>. QED
    BY <2>1, <2>2, <2>3, Zenon
<1> HIDE DEF needs, full
<1>12. Deferred(r) \in DeferShape /\ Deferred(r).id = c /\ Deferred(r).reroute = needs
  <2>1. r.last \in Nat /\ c \in AnyId
    BY <1>1 DEF ReportShape, AnyId
  <2>2. PICK n, f : n = needs /\ f = full
    OBVIOUS
  <2>3. n \in BOOLEAN /\ f \in BOOLEAN
    BY <1>b, <2>2
  <2>4. Deferred(r) = [id |-> c, fill |-> r.last, reroute |-> n, completion |-> f]
    BY <1>11, <2>2
  <2>. QED
    BY <2>1, <2>2, <2>3, <2>4 DEF DeferShape
<1>. QED
  BY <1>4, <1>5, <1>7, <1>8, <1>9, <1>12, <1>h

LEMMA PopReportInv ==
  ASSUME IInv, PopReport
  PROVE  IInv'
<1>0. pc["exec"] = "reports" /\ "order" \in Threads /\ "exec" \in Threads
  BY DEF PopReport, Threads
<1>f. Family /\ WaitingOrders /\ Working /\ RouterShapes /\ ThreadShapes /\ VenueShapes /\ VenuesSeeChildren
  BY DEF IInv
<1>c. UNCHANGED <<activeOrders, pendingQueue, batch, connected, position, nextId, orderQueue, cancelQueue,
                  job, slices, sending, cancelList>>
  BY DEF PopReport, riskVars, gatewayVars
<1>1. CASE reportQueue = << >>
  <2>1. PICK to \in Resting("exec") : pc' = [pc EXCEPT !["exec"] = to]
    BY <1>1 DEF PopReport, GoTo, Resting
  <2>2. UNCHANGED <<reportQueue, handlerVars, deferred>>
    BY <1>1 DEF PopReport
  <2>3. /\ activeOrders' \in [Venues -> [OrderIds -> BookShape]]
        /\ cancelQueue' \in Seq(OrderIds) /\ cancelList' \in Seq(OrderIds)
    BY <1>c DEF IInv, VenueShapes, RouterShapes, ThreadShapes
  <2>. QED
    BY <1>0, <1>c, <2>1, <2>2, <2>3, Rests
<1>2. CASE reportQueue # << >>
  <2>0. PICK r, c, p, rest : r = Head(reportQueue) /\ c = r.id /\ p = parentOf[c] /\ rest = Tail(reportQueue)
    OBVIOUS
  <2>a. /\ reportQueue' = rest /\ OnExecutionReport(r) /\ deferred' = Deferred(r)
        /\ pc' = [pc EXCEPT !["exec"] = "deferred"]
    BY <1>2, <2>0 DEF PopReport, GoTo
  <2>h. /\ c \in OrderIds /\ Child(c) /\ Tracked(c) /\ p \in OrderIds /\ ~Child(p) /\ Tracked(p)
        /\ rest \in Seq(ReportShape) /\ Len(rest) <= ReportCapacity
        /\ \A i \in 1 .. Len(rest) : Child(rest[i].id)
    <3>1. orders[p].state \in {"PendingNew", "PartiallyFilled", "Filled"}
      BY <1>2, <2>0, ReportAtHead
    <3>. QED
      BY <1>2, <2>0, <3>1, ReportAtHead DEF Tracked
  <2>r. /\ orders' \in [OrderIds -> OrderShape]
        /\ \A x \in OrderIds : x \notin {c, p} => orders'[x] = orders[x]
        /\ orders'[c].state \in OrderStates /\ orders'[c].venue = orders[c].venue
        /\ orders'[p].state \in {"PendingNew", "PartiallyFilled", "Filled"}
        /\ childrenOf' = childrenOf /\ parentOf' = parentOf
        /\ deferred' \in DeferShape /\ deferred'.id = c
        /\ deferred'.reroute => orders'[p].state \in {"PendingNew", "PartiallyFilled"} /\ orders'[p].remaining \in Nat
    BY <1>2, <2>0, <2>a, ReportStep
  <2>u. /\ activeOrders' = activeOrders /\ pendingQueue' = pendingQueue /\ batch' = batch /\ connected' = connected
        /\ job' = job /\ orderQueue' = orderQueue /\ nextId' = nextId /\ position' = position
        /\ sending' = sending /\ slices' = slices /\ cancelList' = cancelList /\ cancelQueue' = cancelQueue
    BY <1>c
  <2>p. /\ pc' \in [Threads -> {"loop", "orders", "admit", "route", "slice", "send", "cancels", "cancelling",
                           "reports", "deferred", "exited"}]
        /\ pc'["exec"] = "deferred" /\ pc'["order"] = pc["order"]
    BY <2>a, <1>0, <1>f DEF ThreadShapes
  <2>t. ASSUME NEW x \in OrderIds PROVE orders'[x].state = "Untracked" <=> ~Tracked(x)
    <3>1. CASE x = c
      BY <3>1, <2>h, <2>r DEF OrderStates
    <3>2. CASE x = p
      BY <3>2, <2>h, <2>r
    <3>3. CASE x \notin {c, p}
      BY <3>3, <2>r DEF Tracked
    <3>. QED
      BY <3>1, <3>2, <3>3
  <2>1. VenueShapes'
    BY <2>u, <2>a, <2>h, <1>f DEF VenueShapes
  <2>2. RouterShapes'
    BY <2>u, <2>r, <1>f DEF RouterShapes
  <2>3. ThreadShapes'
    BY <2>u, <2>p, <2>r, <1>f DEF ThreadShapes
  <2>4. VenuesSeeChildren'
    BY <2>u, <2>r, <2>a, <2>h, <1>f DEF VenuesSeeChildren, Child
  <2>5. Connections'
    BY <2>u, <1>0 DEF IInv, Connections
  <2>6. Family'
    <3>1. ASSUME NEW x \in OrderIds, Child(x)
          PROVE  /\ x < nextId /\ parentOf[x] < nextId
                 /\ orders'[x].state # "Untracked"
                 /\ ~Child(parentOf[x]) /\ orders'[parentOf[x]].state # "Untracked"
                 /\ orders'[x].venue \in Venues
      <4>1. /\ x < nextId /\ parentOf[x] < nextId /\ Tracked(x)
            /\ ~Child(parentOf[x]) /\ Tracked(parentOf[x]) /\ orders[x].venue \in Venues
        BY <3>1, <1>f DEF Family
      <4>2. parentOf[x] \in OrderIds
        BY <3>1, <1>f, Ids DEF RouterShapes, Child
      <4>3. x # p
        BY <3>1, <2>h
      <4>4. orders'[x].venue = orders[x].venue
        BY <4>3, <2>r
      <4>. QED
        BY <4>1, <4>2, <4>4, <2>t
    <3>2. ASSUME NEW x \in OrderIds, ~Child(x)
          PROVE  orders'[x].state \in {"Untracked", "PendingNew", "PartiallyFilled", "Filled"}
      <4>1. x # c
        BY <3>2, <2>h
      <4>. QED
        BY <3>2, <4>1, <2>r, <1>f DEF Family
    <3>3. \A x \in OrderIds : x >= nextId => orders'[x].state = "Untracked"
      BY <2>t, <1>f DEF Family
    <3>. QED
      BY <3>1, <3>2, <3>3, <2>u, <2>r DEF Family, Child, Tracked
  <2>7. WaitingOrders'
    <3>1. ASSUME NEW x, Waiting(x) PROVE Waiting(x)'
      BY <3>1, <2>t, <2>u, <2>r DEF Waiting, Child, Tracked
    <3>2. ASSUME NEW i \in 1 .. Len(orderQueue) PROVE Waiting(orderQueue[i])'
      <4>1. PICK x : x = orderQueue[i]
        OBVIOUS
      <4>2. Waiting(x)'
        BY <4>1, <3>1, <1>f DEF WaitingOrders
      <4>. QED
        BY <4>1, <4>2, <2>u DEF Waiting, Child, Tracked
    <3>3. ASSUME pc["order"] = "admit" PROVE Waiting(job["order"])'
      <4>1. PICK x : x = job["order"]
        OBVIOUS
      <4>2. Waiting(x)'
        BY <4>1, <3>1, <3>3, <1>f DEF WaitingOrders
      <4>. QED
        BY <4>1, <4>2, <2>u DEF Waiting, Child, Tracked
    <3>. QED
      BY <3>2, <3>3, <2>u, <2>p, <1>f DEF WaitingOrders
  <2>8. Working'
    <3>1. ASSUME deferred'.reroute
          PROVE  Open(parentOf[deferred.id])' /\ orders'[parentOf'[deferred'.id]].remaining \in Nat
      BY <3>1, <2>0, <2>h, <2>r DEF Open, Child
    <3>2. ASSUME NEW z \in Threads
          PROVE  /\ pc'[z] \in {"route", "slice", "send"} =>
                      /\ job[z].id \in OrderIds /\ ~Child(job[z].id) /\ orders'[job[z].id].state # "Untracked"
                      /\ job[z].id < nextId
                 /\ pc'[z] = "slice" => slices[z] # << >>
                 /\ pc'[z] = "send" => sending[z] \in OrderIds /\ Child(sending[z])
      <4>1. CASE z = "exec"
        BY <4>1, <2>p
      <4>2. CASE z = "order"
        BY <4>2, <2>p, <2>t, <1>f DEF Working
      <4>. QED
        BY <4>1, <4>2 DEF Threads
    <3>. QED
      BY <3>1, <3>2, <2>p, <2>r, <2>h, <2>u DEF Working, Child, Tracked
  <2>. QED
    BY <2>1, <2>2, <2>3, <2>4, <2>5, <2>6, <2>7, <2>8 DEF IInv
<1>. QED
  BY <1>1, <1>2

LEMMA FilledPosition ==
  ASSUME position \in PositionType, NEW side, NEW quantity \in Nat, OnFill(side, quantity)
  PROVE  position' \in PositionType
<1>1. ASSUME NEW n \in Nat PROVE Max({0, n - quantity}) \in Nat
  <2>1. PICK m \in Int : m = n - quantity
    OBVIOUS
  <2>2. \E x \in {0, m} : \A y \in {0, m} : x >= y
    <3>1. CASE m >= 0
      BY <3>1
    <3>2. CASE ~(m >= 0)
      BY <3>2
    <3>. QED
      BY <3>1, <3>2
  <2>3. Max({0, m}) \in {0, m} /\ \A y \in {0, m} : Max({0, m}) >= y
    BY <2>2 DEF Max
  <2>. QED
    BY <2>1, <2>3
<1>2. PICK a, b, c, d : /\ a = position.net + quantity /\ b = Max({0, position.pendingBuy - quantity})
                        /\ c = position.net - quantity /\ d = Max({0, position.pendingSell - quantity})
  OBVIOUS
<1>3. a \in Int /\ b \in Nat /\ c \in Int /\ d \in Nat
  <2>1. position.net \in Int /\ position.pendingBuy \in Nat /\ position.pendingSell \in Nat
    BY DEF PositionType
  <2>2. a \in Int /\ c \in Int
    BY <2>1, <1>2
  <2>3. Max({0, position.pendingBuy - quantity}) \in Nat /\ Max({0, position.pendingSell - quantity}) \in Nat
    BY <2>1, <1>1, Zenon
  <2>. QED
    BY <2>2, <2>3, <1>2
<1>4. \/ position' = [position EXCEPT !.net = a, !.pendingBuy = b]
      \/ position' = [position EXCEPT !.net = c, !.pendingSell = d]
  BY <1>2 DEF OnFill, PositionType
<1>. QED
  BY <1>3, <1>4 DEF PositionType

LEMMA RunDeferredInv ==
  ASSUME IInv, RunDeferred
  PROVE  IInv'
<1>0. pc["exec"] = "deferred" /\ "order" \in Threads /\ "exec" \in Threads
  BY DEF RunDeferred, Threads
<1>f. Family /\ WaitingOrders /\ Working /\ RouterShapes /\ ThreadShapes /\ VenueShapes /\ VenuesSeeChildren
  BY DEF IInv
<1>u. /\ activeOrders' = activeOrders /\ pendingQueue' = pendingQueue /\ batch' = batch /\ connected' = connected
      /\ reportQueue' = reportQueue /\ orders' = orders /\ childrenOf' = childrenOf /\ parentOf' = parentOf
      /\ orderQueue' = orderQueue /\ nextId' = nextId /\ sending' = sending /\ slices' = slices
      /\ cancelList' = cancelList /\ cancelQueue' = cancelQueue /\ deferred' = Nothing
  BY DEF RunDeferred, exchangeVars, handlerVars
<1>a. PICK to \in {"admit", "reports"} :
        /\ pc' = [pc EXCEPT !["exec"] = to]
        /\ to = "admit" => deferred.reroute /\ job' = [job EXCEPT !["exec"] = RerouteJob(parentOf[deferred.id])]
        /\ to = "reports" => job' = job
  <2>1. CASE deferred.reroute
    <3>1. pc' = [pc EXCEPT !["exec"] = "admit"] /\ job' = [job EXCEPT !["exec"] = RerouteJob(parentOf[deferred.id])]
      BY <2>1 DEF RunDeferred, GoTo
    <3>. QED
      BY <2>1, <3>1
  <2>2. CASE ~deferred.reroute
    <3>1. pc' = [pc EXCEPT !["exec"] = "reports"] /\ job' = job
      BY <2>2 DEF RunDeferred, GoTo
    <3>. QED
      BY <3>1
  <2>. QED
    BY <2>1, <2>2
<1>p. /\ pc' \in [Threads -> {"loop", "orders", "admit", "route", "slice", "send", "cancels", "cancelling",
                         "reports", "deferred", "exited"}]
      /\ pc'["order"] \notin {"reports", "deferred"}
      /\ pc'["exec"] \notin {"orders", "cancels", "cancelling"}
      /\ pc'["exec"] = to
      /\ pc'["order"] = pc["order"]
      /\ \A v \in Venues : connected[v]
  <2>1. to \in {"admit", "route", "slice", "send"} \cup Resting("exec")
    BY DEF Resting
  <2>2. pc["exec"] # "exited"
    BY <1>0
  <2>. QED
    BY <1>0, <1>a, <2>1, <2>2, Moves
<1>j. /\ job' \in [Threads -> JobShape] /\ job'["order"] = job["order"]
      /\ to = "admit" => Open(job'["exec"].id) /\ job'["exec"].order.state = "New"
  <2>1. CASE to = "admit"
    <3>1. PICK p, o, n : p = parentOf[deferred.id] /\ o = orders[p] /\ n = orders[p].remaining
      OBVIOUS
    <3>2. Open(p) /\ n \in Nat /\ p \in OrderIds
      BY <2>1, <3>1, <1>a, <1>f DEF Working, Open
    <3>3. o \in OrderShape
      BY <3>1, <3>2, <1>f DEF RouterShapes
    <3>4. PICK e : e = [o EXCEPT !.quantity = n, !.filled = 0, !.state = "New"]
      OBVIOUS
    <3>5. e \in OrderShape /\ e.state = "New"
      <4>1. "New" \in OrderStates /\ 0 \in Nat
        BY DEF OrderStates
      <4>2. PICK s, z : s = "New" /\ z = 0
        OBVIOUS
      <4>3. e = [o EXCEPT !.quantity = n, !.filled = z, !.state = s]
        BY <3>4, <4>2
      <4>4. e \in OrderShape /\ e.state = s
        BY <4>1, <4>2, <4>3, <3>2, <3>3 DEF OrderShape
      <4>. QED
        BY <4>2, <4>4
    <3>6. PICK j : j = [id |-> p, order |-> e]
      OBVIOUS
    <3>7. j \in JobShape /\ j.id = p /\ j.order = e
      BY <3>2, <3>5, <3>6 DEF JobShape, AnyId
    <3>8. job' = [job EXCEPT !["exec"] = j]
      BY <2>1, <3>1, <3>4, <3>6, <1>a DEF RerouteJob
    <3>9. job'["exec"] = j /\ job'["order"] = job["order"] /\ job' \in [Threads -> JobShape]
      BY <3>7, <3>8, <1>0, <1>f DEF ThreadShapes
    <3>. QED
      BY <3>2, <3>5, <3>7, <3>9
  <2>2. CASE to # "admit"
    BY <2>2, <1>a, <1>f DEF ThreadShapes
  <2>. QED
    BY <2>1, <2>2
<1>d. Nothing \in DeferShape /\ Nothing.reroute = FALSE
  BY DEF Nothing, DeferShape, AnyId
<1>s. position' \in PositionType
  <2>1. position \in PositionType /\ deferred.fill \in Nat
    BY <1>f DEF RouterShapes, ThreadShapes, DeferShape
  <2>2. CASE deferred.fill > 0
    <3>1. PICK side, quantity : side = orders[deferred.id].side /\ quantity = deferred.fill
      OBVIOUS
    <3>2. OnFill(side, quantity)
      BY <2>2, <3>1 DEF RunDeferred
    <3>. QED
      BY <2>1, <3>1, <3>2, FilledPosition
  <2>3. CASE ~(deferred.fill > 0)
    BY <2>1, <2>3 DEF RunDeferred, riskVars
  <2>. QED
    BY <2>2, <2>3
<1>1. VenueShapes' /\ RouterShapes'
  BY <1>u, <1>s, <1>f DEF VenueShapes, RouterShapes
<1>2. ThreadShapes'
  BY <1>u, <1>p, <1>j, <1>d, <1>f DEF ThreadShapes
<1>3. Family' /\ VenuesSeeChildren'
  BY <1>u, <1>f DEF Family, VenuesSeeChildren, Child, Tracked
<1>4. WaitingOrders'
  BY <1>u, <1>p, <1>j, <1>f DEF WaitingOrders, Waiting, Child, Tracked
<1>5. Connections'
  BY <1>u, <1>p DEF Connections
<1>6. Working'
  <2>1. pc'["exec"] = "admit" => Open(job["exec"].id)' /\ job'["exec"].order.state = "New"
    BY <1>p, <1>j, <1>u DEF Open, Child
  <2>2. ~deferred'.reroute /\ pc'["exec"] # "deferred"
    BY <1>u, <1>d, <1>p
  <2>3. ASSUME NEW z \in Threads
        PROVE  /\ pc'[z] \in {"route", "slice", "send"} =>
                    job'[z].id \in OrderIds /\ ~Child(job'[z].id) /\ Tracked(job'[z].id) /\ job'[z].id < nextId
               /\ pc'[z] = "slice" => slices[z] # << >>
               /\ pc'[z] = "send" => sending[z] \in OrderIds /\ Child(sending[z])
    <3>1. CASE z = "exec"
      BY <3>1, <1>p
    <3>2. CASE z = "order"
      BY <3>2, <1>p, <1>j, <1>f DEF Working
    <3>. QED
      BY <3>1, <3>2 DEF Threads
  <2>. QED
    BY <2>1, <2>2, <2>3, <1>u DEF Working, Child, Tracked
<1>. QED
  BY <1>1, <1>2, <1>3, <1>4, <1>5, <1>6 DEF IInv

-----------------------------------------------------------------------------
(* The theorems.                                                           *)

LEMMA NextIInv == IInv /\ [Next]_vars => IInv'
<1> SUFFICES ASSUME IInv, [Next]_vars PROVE IInv'
  OBVIOUS
<1>1. ASSUME NEW side \in SideChoices, NEW quantity \in Quantities, NEW tif \in TifChoices,
             NEW strategy \in Strategies, SubmitOrder(side, quantity, tif, strategy)
      PROVE  IInv'
  BY <1>1, SubmitInv
<1>2. CASE (\E id \in OrderIds : CancelOrder(id)) \/ KillSwitch \/ Stop \/ UNCHANGED vars
  BY <1>2, ClientInv
<1>3. CASE StopDisconnect
  BY <1>3, DisconnectInv
<1>4. ASSUME NEW t \in Threads, Loop(t) PROVE IInv'
  BY <1>4, LoopInv
<1>5. ASSUME NEW t \in Threads, ProcessSingleOrder(t) PROVE IInv'
  BY <1>5, AdmitInv, RouteInv, SliceInv, SendInv DEF ProcessSingleOrder
<1>6. CASE PopOrder
  BY <1>6, PopOrderInv
<1>7. CASE PopCancel \/ CancelChild
  BY <1>7, CancelsInv
<1>8. CASE PopReport
  BY <1>8, PopReportInv
<1>9. CASE RunDeferred
  BY <1>9, RunDeferredInv
<1>10. ASSUME NEW v \in Venues, VenueStep(v) PROVE IInv'
  BY <1>10, MatchingInv
<1>11. "order" \in Threads /\ "exec" \in Threads
  BY DEF Threads
<1>. QED
  BY <1>1, <1>2, <1>3, <1>4, <1>5, <1>6, <1>7, <1>8, <1>9, <1>10, <1>11 DEF Next, OrderThread, ExecThread

(* The router keeps its parents, its children and the work of its two       *)
(* threads apart: what the invariant above says holds in every state of     *)
(* every run of gateway.cpp's threads, for any number of venues and orders. *)
THEOREM GatewayInvariant == Spec => []IInv
  BY InitIInv, NextIInv, PTL DEF Spec

(* Every variable keeps its type, the report queue of on_execution_report   *)
(* keeps its bound, and each thread stays in its own part of gateway.cpp.   *)
THEOREM GatewayTypes == Spec => []TypeOK
<1>1. IInv => TypeOK
  <2> SUFFICES ASSUME IInv PROVE TypeOK
    OBVIOUS
  <2>1. /\ activeOrders \in [Venues -> [OrderIds ->
              [quantity : Nat, filled : Nat, tif : TimesInForce, cancel : BOOLEAN]]]
        /\ \A v \in Venues : pendingQueue[v] \in Seq(OrderIds)
        /\ batch \in [Venues -> Nat] /\ connected \in [Venues -> BOOLEAN]
        /\ Len(reportQueue) <= ReportCapacity
    BY DEF IInv, VenueShapes, BookShape
  <2>2. ASSUME NEW id \in OrderIds
        PROVE  /\ orders[id].state \in OrderStates \cup {"Untracked"}
               /\ orders[id].filled \in Nat
               /\ childrenOf[id] \in Seq(OrderIds)
    <3>1. orders[id] \in OrderShape /\ childrenOf[id] \in Seq(OrderIds)
      BY DEF IInv, RouterShapes
    <3>. QED
      BY <3>1 DEF OrderShape
  <2>3. parentOf \in [OrderIds -> OrderIds \cup {INVALID_ORDER_ID}]
    BY DEF IInv, RouterShapes, AnyId
  <2>4. position.pendingBuy \in Nat /\ position.pendingSell \in Nat
    BY DEF IInv, RouterShapes, PositionType
  <2>5. /\ pc["order"] \in {"loop", "orders", "admit", "route", "slice", "send",
                        "cancels", "cancelling", "exited"}
        /\ pc["exec"] \in {"loop", "reports", "deferred", "admit", "route", "slice", "send", "exited"}
    <3>1. "order" \in Threads /\ "exec" \in Threads
      BY DEF Threads
    <3>. QED
      BY <3>1 DEF IInv, ThreadShapes
  <2>. QED
    BY <2>1, <2>2, <2>3, <2>4, <2>5 DEF TypeOK
<1>. QED
  BY <1>1, GatewayInvariant, PTL

(* No child that was tracked and counted meets a venue that stop() has      *)
(* disconnected: the venues go only after both threads were joined, and a   *)
(* thread that is about to call send_order has not ended.                   *)
THEOREM SendsMeetVenues == Spec => []SendsReachVenue
<1>1. IInv => SendsReachVenue
  <2> SUFFICES ASSUME IInv, NEW t \in Threads, pc[t] = "send"
               PROVE  connected[orders[sending[t]].venue]
    BY DEF SendsReachVenue
  <2>1. sending[t] \in OrderIds /\ Child(sending[t])
    BY DEF IInv, Working
  <2>2. orders[sending[t]].venue \in Venues
    BY <2>1 DEF IInv, Family
  <2>3. connected \in [Venues -> BOOLEAN]
    BY DEF IInv, VenueShapes
  <2>. QED
    BY <2>2, <2>3 DEF IInv, Connections
<1>. QED
  BY <1>1, GatewayInvariant, PTL

LEMMA NextTerminal ==
  ASSUME IInv, [Next]_vars, NEW id \in OrderIds, IsTerminal(orders[id].state)
  PROVE  orders'[id].state = orders[id].state
<1>f. Family /\ Working /\ RouterShapes /\ ThreadShapes
  BY DEF IInv
<1>1. CASE UNCHANGED orders
  BY <1>1
<1>2. ASSUME NEW t \in Threads, Admit(t) PROVE orders'[id].state = orders[id].state
  <2>1. CASE UNCHANGED handlerVars
    BY <2>1 DEF handlerVars
  <2>2. CASE TrackOrder(job[t].id, [job[t].order EXCEPT !.state = Apply(@, "Submit")])
    <3>1. pc[t] = "admit"
      BY <1>2 DEF Admit
    <3>2. job[t].id # id
      BY <3>1, Candidate DEF Threads, Open, Tracked, IsTerminal
    <3>. QED
      BY <2>2, <3>2, <1>f DEF TrackOrder, RouterShapes
  <2>. QED
    BY <1>2, <2>1, <2>2 DEF Admit
<1>3. ASSUME NEW t \in Threads, Slice(t) PROVE orders'[id].state = orders[id].state
  <2>1. nextId \in OrderIds /\ nextId \in Nat /\ ~Tracked(nextId)
    BY <1>3, <1>f DEF Slice, RouterShapes, Family
  <2>2. nextId # id
    BY <2>1 DEF Tracked, IsTerminal
  <2>3. PICK o : orders' = [orders EXCEPT ![nextId] = o]
    BY <1>3 DEF Slice, TrackChildOrder
  <2>. QED
    BY <2>2, <2>3, <1>f DEF RouterShapes
<1>4. CASE PopReport
  <2>1. CASE reportQueue = << >>
    BY <1>4, <2>1 DEF PopReport, handlerVars
  <2>2. CASE reportQueue # << >>
    <3>1. PICK r, c, p : r = Head(reportQueue) /\ c = r.id /\ p = parentOf[c]
      OBVIOUS
    <3>2. OnExecutionReport(r)
      BY <1>4, <2>2, <3>1 DEF PopReport
    <3>3. /\ \A x \in OrderIds : x \notin {c, p} => orders'[x] = orders[x]
          /\ IsTerminal(orders[c].state) => orders'[c].state = orders[c].state
          /\ orders[p].state = "Filled" => orders'[p].state = "Filled"
      BY <2>2, <3>1, <3>2, ReportStep
    <3>4. orders[p].state \in {"PendingNew", "PartiallyFilled", "Filled"}
      BY <2>2, <3>1, ReportAtHead
    <3>. QED
      BY <3>3, <3>4 DEF IsTerminal
  <2>. QED
    BY <2>1, <2>2
<1>5. CASE \E side \in SideChoices, quantity \in Quantities, tif \in TifChoices,
              strategy \in Strategies : SubmitOrder(side, quantity, tif, strategy)
  BY <1>5 DEF SubmitOrder, handlerVars
<1>6. CASE (\E x \in OrderIds : CancelOrder(x)) \/ KillSwitch \/ Stop \/ StopDisconnect
  BY <1>6 DEF CancelOrder, KillSwitch, Stop, StopDisconnect, handlerVars
<1>7. CASE UNCHANGED vars
  BY <1>7 DEF vars, handlerVars
<1>8. ASSUME NEW t \in Threads, Loop(t) \/ Route(t) \/ Send(t) PROVE orders' = orders
  BY <1>8 DEF Loop, Route, Send, handlerVars
<1>9. CASE PopOrder \/ PopCancel \/ CancelChild \/ RunDeferred
  BY <1>9 DEF PopOrder, PopCancel, CancelChild, RunDeferred, handlerVars
<1>10. ASSUME NEW v \in Venues, VenueStep(v) PROVE orders' = orders
  BY <1>10 DEF VenueStep, handlerVars
<1>11. "order" \in Threads /\ "exec" \in Threads
  BY DEF Threads
<1>. QED
  BY <1>1, <1>2, <1>3, <1>4, <1>5, <1>6, <1>7, <1>8, <1>9, <1>10, <1>11
  DEF Next, OrderThread, ExecThread, ProcessSingleOrder

(* An order that reached a terminal state never leaves it: a late report is *)
(* absorbed by the transition table, a fill leaves a filled parent filled,  *)
(* and track_order, which overwrites, only ever meets an order that is not  *)
(* tracked yet or the open parent of a reroute.                             *)
THEOREM TerminalStatesFinal == Spec => TerminalFinal
<1>1. IInv /\ [Next]_vars
      => [\A id \in OrderIds : IsTerminal(orders[id].state) => orders'[id].state = orders[id].state]_vars
  <2> SUFFICES ASSUME IInv, [Next]_vars, NEW id \in OrderIds, IsTerminal(orders[id].state)
               PROVE  orders'[id].state = orders[id].state
    OBVIOUS
  <2>. QED
    BY NextTerminal
<1>. QED
  BY <1>1, GatewayInvariant, PTL DEF Spec, TerminalFinal
=============================================================================
