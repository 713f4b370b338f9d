--------------------------- MODULE SorRoundsProofs ---------------------------
(***************************************************************************)
(* What the router may send for an order.  With a strategy that sends one  *)
(* slice at a time a parent goes through rounds: one child works at a      *)
(* venue, its reports arrive, and only when it has ended does the next     *)
(* child take what is left.  As long as no report was lost nothing is      *)
(* executed twice over, every completion is one, the position stays within *)
(* the risk manager's limit, and no order is left with a rest that nobody  *)
(* works on.                                                               *)
(***************************************************************************)
EXTENDS SorAccountingProofs

-----------------------------------------------------------------------------
(* Queues, by what is in them.                                             *)

In(x, q) == \E i \in 1 .. Len(q) : q[i] = x
Once(q)  == \A i, j \in 1 .. Len(q) : q[i] = q[j] => i = j

LEMMA InNothing == ASSUME NEW x PROVE ~In(x, << >>) /\ Once(<< >>)
  BY DEF In, Once

LEMMA InAppended ==
  ASSUME NEW S, NEW q \in Seq(S), NEW y \in S
  PROVE  /\ \A x : In(x, Append(q, y)) <=> In(x, q) \/ x = y
         /\ Once(q) /\ ~In(y, q) => Once(Append(q, y))
<1>1. PICK n \in Nat : n = Len(q)
  OBVIOUS
<1>2. PICK s : s = Append(q, y)
  OBVIOUS
<1>3. Len(s) = n + 1 /\ (\A i \in 1 .. n : s[i] = q[i]) /\ s[n + 1] = y
  BY <1>1, <1>2
<1>4. 1 .. n + 1 = (1 .. n) \cup {n + 1}
  OBVIOUS
<1>5. ASSUME NEW x PROVE In(x, s) <=> In(x, q) \/ x = y
  BY <1>1, <1>3, <1>4 DEF In
<1>6. ASSUME Once(q), ~In(y, q) PROVE Once(s)
  <2>1. ASSUME NEW i \in 1 .. n + 1, NEW j \in 1 .. n + 1, s[i] = s[j] PROVE i = j
    <3>1. CASE i \in 1 .. n /\ j \in 1 .. n
      BY <1>1, <1>3, <1>6, <2>1, <3>1 DEF Once
    <3>2. CASE i \in 1 .. n /\ j = n + 1
      BY <1>1, <1>3, <1>6, <2>1, <3>2 DEF In
    <3>3. CASE i = n + 1 /\ j \in 1 .. n
      BY <1>1, <1>3, <1>6, <2>1, <3>3 DEF In
    <3>. QED
      BY <1>4, <3>1, <3>2, <3>3
  <2>. QED
    BY <1>3, <2>1 DEF Once
<1>. QED
  BY <1>2, <1>5, <1>6

LEMMA InTail ==
  ASSUME NEW S, NEW q \in Seq(S), q # << >>
  PROVE  /\ \A x : In(x, q) <=> In(x, Tail(q)) \/ x = Head(q)
         /\ Once(q) => Once(Tail(q)) /\ ~In(Head(q), Tail(q))
<1>1. PICK s : s = Tail(q)
  OBVIOUS
<1>2. PICK n \in Nat : n = Len(s)
  BY <1>1
<1>3. /\ Len(q) = n + 1 /\ q[1] = Head(q)
      /\ \A i \in 1 .. n : s[i] = q[i + 1] /\ i + 1 \in 1 .. Len(q) /\ i + 1 # 1
      /\ \A i \in 1 .. Len(q) : i = 1 \/ (i - 1 \in 1 .. n /\ s[i - 1] = q[i])
  BY <1>1, <1>2
<1>4. 1 \in 1 .. Len(q)
  BY <1>3
<1>5. ASSUME NEW x PROVE In(x, q) <=> In(x, s) \/ x = Head(q)
  <2>1. In(x, s) \/ x = Head(q) => In(x, q)
    BY <1>2, <1>3, <1>4 DEF In
  <2>2. In(x, q) => In(x, s) \/ x = Head(q)
    BY <1>2, <1>3 DEF In
  <2>. QED
    BY <2>1, <2>2
<1>6. ASSUME Once(q) PROVE Once(s) /\ ~In(Head(q), s)
  <2>1. ASSUME NEW i \in 1 .. n, NEW j \in 1 .. n, s[i] = s[j] PROVE i = j
    <3>1. i + 1 = j + 1
      BY <1>3, <1>6, <2>1 DEF Once
    <3>. QED
      BY <3>1
  <2>2. ASSUME NEW i \in 1 .. n, s[i] = Head(q) PROVE FALSE
    <3>1. q[i + 1] = q[1] /\ i + 1 \in 1 .. Len(q) /\ i + 1 # 1
      BY <1>3, <2>2
    <3>. QED
      BY <3>1, <1>4, <1>6 DEF Once
  <2>. QED
    BY <1>2, <2>1, <2>2 DEF Once, In
<1>. QED
  BY <1>1, <1>5, <1>6

-----------------------------------------------------------------------------
(* The reports about an order.                                             *)

Ends(r)          == r.state \in {"Filled", "Canceled", "Rejected"}
About(c, reps)   == \E i \in 1 .. Len(reps) : reps[i].id = c
Closing(c, reps) == \E i \in 1 .. Len(reps) : reps[i].id = c /\ Ends(reps[i])
\* Nothing is reported about an order after its end.
InOrder(reps)    == \A i, j \in 1 .. Len(reps) : i < j /\ Ends(reps[i]) => reps[j].id # reps[i].id

LEMMA ReportsAppend ==
  ASSUME NEW reps \in Seq(ReportShape), NEW r \in ReportShape
  PROVE  /\ \A c : About(c, Append(reps, r)) <=> About(c, reps) \/ c = r.id
         /\ \A c : Closing(c, Append(reps, r)) <=> Closing(c, reps) \/ (c = r.id /\ Ends(r))
         /\ InOrder(reps) /\ ~Closing(r.id, reps) => InOrder(Append(reps, r))
         /\ \A x : In(x, Append(reps, r)) <=> In(x, reps) \/ x = r
<1>1. PICK n \in Nat : n = Len(reps)
  OBVIOUS
<1>2. PICK s : s = Append(reps, r)
  OBVIOUS
<1>3. Len(s) = n + 1 /\ (\A i \in 1 .. n : s[i] = reps[i]) /\ s[n + 1] = r
  BY <1>1, <1>2
<1>4. 1 .. n + 1 = (1 .. n) \cup {n + 1}
  OBVIOUS
<1>5. ASSUME NEW c PROVE About(c, s) <=> About(c, reps) \/ c = r.id
  BY <1>1, <1>3, <1>4 DEF About
<1>6. ASSUME NEW c PROVE Closing(c, s) <=> Closing(c, reps) \/ (c = r.id /\ Ends(r))
  BY <1>1, <1>3, <1>4 DEF Closing
<1>7. ASSUME InOrder(reps), ~Closing(r.id, reps) PROVE InOrder(s)
  <2>1. ASSUME NEW i \in 1 .. n + 1, NEW j \in 1 .. n + 1, i < j, Ends(s[i]) PROVE s[j].id # s[i].id
    <3>1. i \in 1 .. n
      BY <2>1
    <3>2. CASE j \in 1 .. n
      BY <1>1, <1>3, <1>7, <2>1, <3>1, <3>2 DEF InOrder
    <3>3. CASE j = n + 1
      BY <1>1, <1>3, <1>7, <2>1, <3>1, <3>3 DEF Closing
    <3>. QED
      BY <1>4, <3>2, <3>3
  <2>. QED
    BY <1>3, <2>1 DEF InOrder
<1>8. \A x : In(x, s) <=> In(x, reps) \/ x = r
  BY <1>2, InAppended
<1>. QED
  BY <1>2, <1>5, <1>6, <1>7, <1>8

LEMMA ReportsTail ==
  ASSUME NEW reps \in Seq(ReportShape), reps # << >>
  PROVE  /\ \A c : About(c, reps) <=> About(c, Tail(reps)) \/ c = Head(reps).id
         /\ \A c : Closing(c, reps) <=> Closing(c, Tail(reps)) \/ (c = Head(reps).id /\ Ends(Head(reps)))
         /\ InOrder(reps) => /\ InOrder(Tail(reps))
                             /\ Ends(Head(reps)) => ~About(Head(reps).id, Tail(reps))
         /\ \A x : In(x, reps) <=> In(x, Tail(reps)) \/ x = Head(reps)
<1>1. PICK s : s = Tail(reps)
  OBVIOUS
<1>2. PICK n \in Nat : n = Len(s)
  BY <1>1
<1>3. /\ Len(reps) = n + 1 /\ reps[1] = Head(reps)
      /\ \A i \in 1 .. n : s[i] = reps[i + 1] /\ i + 1 \in 1 .. Len(reps) /\ 1 < i + 1
      /\ \A i \in 1 .. Len(reps) : i = 1 \/ (i - 1 \in 1 .. n /\ s[i - 1] = reps[i])
  BY <1>1, <1>2
<1>4. 1 \in 1 .. Len(reps)
  BY <1>3
<1>5. ASSUME NEW c PROVE About(c, reps) <=> About(c, s) \/ c = Head(reps).id
  <2>1. About(c, s) \/ c = Head(reps).id => About(c, reps)
    BY <1>2, <1>3, <1>4 DEF About
  <2>2. About(c, reps) => About(c, s) \/ c = Head(reps).id
    BY <1>2, <1>3 DEF About
  <2>. QED
    BY <2>1, <2>2
<1>6. ASSUME NEW c PROVE Closing(c, reps) <=> Closing(c, s) \/ (c = Head(reps).id /\ Ends(Head(reps)))
  <2>1. Closing(c, s) \/ (c = Head(reps).id /\ Ends(Head(reps))) => Closing(c, reps)
    BY <1>2, <1>3, <1>4 DEF Closing
  <2>2. Closing(c, reps) => Closing(c, s) \/ (c = Head(reps).id /\ Ends(Head(reps)))
    BY <1>2, <1>3 DEF Closing
  <2>. QED
    BY <2>1, <2>2
<1>7. ASSUME InOrder(reps) PROVE InOrder(s) /\ (Ends(Head(reps)) => ~About(Head(reps).id, s))
  <2>1. ASSUME NEW i \in 1 .. n, NEW j \in 1 .. n, i < j, Ends(s[i]) PROVE s[j].id # s[i].id
    <3>1. i + 1 < j + 1
      BY <2>1
    <3>. QED
      BY <3>1, <1>3, <1>7, <2>1 DEF InOrder
  <2>2. ASSUME Ends(Head(reps)), NEW i \in 1 .. n PROVE s[i].id # Head(reps).id
    BY <1>3, <1>4, <1>7, <2>2 DEF InOrder
  <2>. QED
    BY <1>2, <2>1, <2>2 DEF InOrder, About
<1>8. \A x : In(x, reps) <=> In(x, s) \/ x = Head(reps)
  BY <1>1, InTail
<1>. QED
  BY <1>1, <1>5, <1>6, <1>7, <1>8

-----------------------------------------------------------------------------
(* Children at the venues.                                                 *)

\* A child is busy from the step that tracks it until its last report is handled.
Sent(c)   == \E t \in Threads : sending[t] = c
Booked(c) == \E v \in Venues : OnBook(v, c)
Busy(c)   == Sent(c) \/ Booked(c) \/ About(c, reportQueue)

BookEntry(v, c) ==
    /\ Child(c) /\ v = orders[c].venue
    /\ Entry(v, c).quantity = orders[c].quantity
    /\ Entry(v, c).filled = executed[c]
    /\ executed[c] < orders[c].quantity

\* A venue visits what is on its book, and each order once in a round.
Books ==
    /\ \A v \in Venues : Once(pendingQueue[v]) /\ \A c \in OrderIds : In(c, pendingQueue[v]) => OnBook(v, c)
    /\ \A v \in Venues, c \in OrderIds : OnBook(v, c) => BookEntry(v, c)

\* A child on its way is nowhere else.
Departing(c) == Child(c) /\ executed[c] = 0 /\ ~Booked(c) /\ ~About(c, reportQueue)
Departures ==
    /\ \A t \in Threads : sending[t] \in OrderIds => Departing(sending[t])
    /\ sending["order"] \in OrderIds => sending["order"] # sending["exec"]

Executions == \A c \in OrderIds : Child(c) => orders[c].quantity > 0 /\ executed[c] <= orders[c].quantity

\* The report of a child's end is the last about it, and says how it ended.
Truthful(r) ==
    /\ r.state = "Filled" => r.last > 0 /\ executed[r.id] = orders[r.id].quantity
    /\ r.state \in {"Canceled", "Rejected"} => executed[r.id] < orders[r.id].quantity
Reporting ==
    /\ InOrder(reportQueue)
    /\ \A i \in 1 .. Len(reportQueue) : Truthful(reportQueue[i])
    /\ \A c \in OrderIds : Closing(c, reportQueue) => ~Booked(c)
    /\ \A c \in OrderIds : About(c, reportQueue) => Booked(c) \/ Closing(c, reportQueue)

OpenWhileBusy == \A c \in OrderIds : Busy(c) => ~IsTerminal(orders[c].state)

Market == Books /\ Departures /\ Executions /\ Reporting /\ OpenWhileBusy

-----------------------------------------------------------------------------
(* The rounds of a parent.                                                 *)

OneStrategy ==
    /\ \A i \in 1 .. Len(orderQueue) : orderQueue[i].order.strategy = "BestPrice"
    /\ \A t \in Threads : job[t].order.strategy = "BestPrice"
    /\ \A id \in OrderIds : orders[id].strategy = "BestPrice"

Prepares(t) == pc[t] \in {"admit", "route", "slice"}
Childless(p) == \A c \in OrderIds : parentOf[c] # p
Calm(p)      == \A c \in OrderIds : parentOf[c] = p => ~Busy(c)
Returned(p)  == ~Childless(p) /\ Calm(p)

\* The order thread prepares the first child of an order, the execution thread
\* the next one, when the one before has ended.
FirstRound == Prepares("order") => Childless(job["order"].id)
NextRound  == /\ Prepares("exec") => Returned(job["exec"].id)
              /\ deferred.reroute => Returned(parentOf[deferred.id])

OneAtATime == \A c, d \in OrderIds : Busy(c) /\ Busy(d) /\ parentOf[c] = parentOf[d] => c = d

\* The busy child carries all of its parent's quantity and all of its fills.
InStep(c) ==
    /\ orders[parentOf[c]].quantity = orders[c].quantity
    /\ orders[parentOf[c]].filled + InReports(c, reportQueue) = executed[c]

Sized(p) ==
    /\ Tracked(p) => clientQty[p] = carried[p] + orders[p].quantity /\ orders[p].filled <= orders[p].quantity
    /\ ~Tracked(p) => carried[p] = 0 /\ orders[p].filled = 0

NewEntry(entry) == entry.order.quantity = clientQty[entry.id] /\ entry.order.quantity > 0
NewOrders ==
    /\ \A i \in 1 .. Len(orderQueue) : NewEntry(orderQueue[i])
    /\ pc["order"] = "admit" => NewEntry(job["order"])

\* An order being routed is the order as tracked; one that returned asks for the rest.
Routed(t) ==
    /\ job[t].order.quantity > 0
    /\ orders[job[t].id].quantity = job[t].order.quantity
    /\ orders[job[t].id].filled = 0
    /\ orders[job[t].id].state = "PendingNew"
Rest(p) == orders[p].quantity - orders[p].filled
JobSizes ==
    /\ \A t \in Threads : pc[t] \in {"route", "slice"} => Routed(t)
    /\ pc["exec"] = "admit" => job["exec"].order.quantity > 0 /\ job["exec"].order.quantity = Rest(job["exec"].id)
    /\ deferred.reroute => LET p == parentOf[deferred.id]
                           IN  orders[p].remaining > 0 /\ orders[p].remaining = Rest(p)

Slices ==
    \A t \in Threads :
        /\ pc[t] = "slice" => Len(slices[t]) = 1 /\ slices[t][1].quantity = job[t].order.quantity
        /\ pc[t] # "slice" => slices[t] = << >>

Done(p) == orders[p].filled = orders[p].quantity /\ Calm(p)
Completes(p) == deferred.completion /\ parentOf[deferred.id] = p
Completions ==
    /\ completed \in [OrderIds -> Nat]
    /\ \A p \in OrderIds : ~Child(p) =>
          /\ orders[p].state = "Filled" => Done(p)
          /\ completed[p] <= 1
          /\ completed[p] = 1 => orders[p].state = "Filled"
          /\ Completes(p) => orders[p].state = "Filled" /\ completed[p] = 0

Rounds ==
    /\ OneStrategy
    /\ FirstRound
    /\ NextRound
    /\ OneAtATime
    /\ \A c \in OrderIds : Busy(c) => InStep(c)
    /\ \A p \in OrderIds : ~Child(p) => Sized(p)
    /\ NewOrders
    /\ JobSizes
    /\ Slices
    /\ Completions

-----------------------------------------------------------------------------
(* Steps that leave the children and the venues as they are, but for marks *)
(* on the books.                                                           *)

SameMarket ==
    /\ \A v \in Venues, c \in OrderIds :
          /\ OnBook(v, c)' <=> OnBook(v, c)
          /\ Entry(v, c)'.quantity = Entry(v, c).quantity
          /\ Entry(v, c)'.filled = Entry(v, c).filled
    /\ UNCHANGED <<pendingQueue, reportQueue, executed, sending, parentOf>>
    /\ \A c \in OrderIds : Child(c) => orders'[c] = orders[c]

LEMMA ReportsOfChildren ==
  ASSUME IInv
  PROVE  /\ reportQueue \in Seq(ReportShape)
         /\ \A i \in 1 .. Len(reportQueue) : reportQueue[i] \in ReportShape /\ reportQueue[i].id \in OrderIds
                                             /\ Child(reportQueue[i].id)
<1>1. reportQueue \in Seq(ReportShape) /\ \A i \in 1 .. Len(reportQueue) : Child(reportQueue[i].id)
  BY DEF IInv, VenueShapes, VenuesSeeChildren
<1>2. \A i \in 1 .. Len(reportQueue) : reportQueue[i] \in ReportShape
  BY <1>1
<1>3. \A r \in ReportShape : r.id \in OrderIds
  BY DEF ReportShape
<1>. QED
  BY <1>1, <1>2, <1>3

LEMMA BusyChildren ==
  ASSUME IInv, Market, NEW c \in OrderIds, Busy(c)
  PROVE  /\ Child(c) /\ parentOf[c] \in OrderIds /\ ~Child(parentOf[c]) /\ parentOf[c] # c /\ Tracked(parentOf[c])
         /\ orders[c].quantity > 0 /\ executed[c] <= orders[c].quantity
<1>1. Child(c)
  <2>1. CASE Sent(c)
    BY <2>1 DEF Sent, Market, Departures, Departing
  <2>2. CASE Booked(c)
    BY <2>2 DEF Booked, Market, Books, BookEntry
  <2>3. CASE About(c, reportQueue)
    BY <2>3, ReportsOfChildren DEF About
  <2>. QED
    BY <2>1, <2>2, <2>3 DEF Busy
<1>2. parentOf[c] \in OrderIds /\ ~Child(parentOf[c]) /\ Tracked(parentOf[c])
  BY <1>1 DEF IInv, RouterShapes, Family, AnyId, Child
<1>3. parentOf[c] # c
  BY <1>1, <1>2
<1>. QED
  BY <1>1, <1>2, <1>3 DEF Market, Executions

LEMMA MarketStill ==
  ASSUME IInv, Market, SameMarket
  PROVE  /\ Market'
         /\ \A c \in OrderIds : Busy(c)' <=> Busy(c)
<1>u. UNCHANGED <<pendingQueue, reportQueue, executed, sending, parentOf>>
  BY DEF SameMarket
<1>o. \A v \in Venues, c \in OrderIds : OnBook(v, c)' <=> OnBook(v, c)
  BY DEF SameMarket
<1>c. \A c \in OrderIds : Child(c)' <=> Child(c)
  BY <1>u DEF Child
<1>1. \A c \in OrderIds : Booked(c)' <=> Booked(c)
  BY <1>o DEF Booked
<1>2. \A c \in OrderIds : About(c, reportQueue)' <=> About(c, reportQueue)
  BY <1>u DEF About
<1>3. \A c \in OrderIds : Closing(c, reportQueue)' <=> Closing(c, reportQueue)
  BY <1>u DEF Closing
<1>4. \A c \in OrderIds : Sent(c)' <=> Sent(c)
  BY <1>u DEF Sent
<1>5. \A c \in OrderIds : Busy(c)' <=> Busy(c)
  BY <1>1, <1>2, <1>4 DEF Busy
<1>m. Books /\ Departures /\ Executions /\ Reporting /\ OpenWhileBusy
  BY DEF Market
<1>6. Books'
  <2>1. \A v \in Venues : Once(pendingQueue[v])' /\ \A c \in OrderIds : In(c, pendingQueue[v])' => OnBook(v, c)'
    BY <1>u, <1>o, <1>m DEF Books, Once, In
  <2>2. ASSUME NEW v \in Venues, NEW c \in OrderIds, OnBook(v, c)' PROVE BookEntry(v, c)'
    <3>1. BookEntry(v, c)
      BY <1>o, <1>m, <2>2 DEF Books
    <3>2. /\ orders'[c] = orders[c] /\ Entry(v, c)'.quantity = Entry(v, c).quantity
          /\ Entry(v, c)'.filled = Entry(v, c).filled
      BY <3>1 DEF BookEntry, SameMarket
    <3>. QED
      BY <3>1, <3>2, <1>u, <1>c DEF BookEntry
  <2>. QED
    BY <2>1, <2>2 DEF Books
<1>7. Departures'
  <2>1. \A c \in OrderIds : Departing(c) => Departing(c)'
    BY <1>u, <1>c, <1>1, <1>2 DEF Departing
  <2>. QED
    BY <1>u, <1>m, <2>1 DEF Departures
<1>8. Executions'
  BY <1>u, <1>c, <1>m DEF Executions, SameMarket
<1>9. Reporting'
  <2>1. InOrder(reportQueue)'
    BY <1>u, <1>m DEF Reporting, InOrder
  <2>2. ASSUME NEW i \in 1 .. Len(reportQueue) PROVE Truthful(reportQueue[i])'
    <3>1. Truthful(reportQueue[i]) /\ reportQueue[i].id \in OrderIds /\ Child(reportQueue[i].id)
      BY <1>m, ReportsOfChildren DEF Reporting
    <3>2. orders'[reportQueue[i].id] = orders[reportQueue[i].id]
      BY <3>1 DEF SameMarket
    <3>. QED
      BY <1>u, <3>1, <3>2 DEF Truthful
  <2>3. \A c \in OrderIds : Closing(c, reportQueue)' => ~Booked(c)'
    BY <1>1, <1>3, <1>m DEF Reporting
  <2>4. \A c \in OrderIds : About(c, reportQueue)' => Booked(c)' \/ Closing(c, reportQueue)'
    BY <1>1, <1>2, <1>3, <1>m DEF Reporting
  <2>. QED
    BY <1>u, <2>1, <2>2, <2>3, <2>4 DEF Reporting
<1>b. \A c \in OrderIds : Busy(c) => Child(c)
  BY BusyChildren
<1>10. OpenWhileBusy'
  BY <1>5, <1>b, <1>m DEF OpenWhileBusy, SameMarket
<1>. QED
  BY <1>5, <1>6, <1>7, <1>8, <1>9, <1>10 DEF Market

(* Steps that hand out no order and track nothing: what is left to show is  *)
(* that the busy children stay in step with their parents.                  *)
Resumes ==
    /\ \A t \in Threads : \/ pc'[t] = pc[t]
                          \/ pc[t] # "slice" /\ pc'[t] \notin {"admit", "route", "slice"}
    /\ UNCHANGED <<orders, parentOf, carried, clientQty, orderQueue, job, slices, completed, deferred>>
    /\ \A c \in OrderIds : Busy(c)' => Busy(c) /\ InStep(c)'

LEMMA RoundsStill ==
  ASSUME IInv, Rounds, Resumes
  PROVE  Rounds'
<1>u. UNCHANGED <<orders, parentOf, carried, clientQty, orderQueue, job, slices, completed, deferred>>
  BY DEF Resumes
<1>b. \A c \in OrderIds : Busy(c)' => Busy(c)
  BY DEF Resumes
<1>t. "order" \in Threads /\ "exec" \in Threads
  BY DEF Threads
<1>p. \A t \in Threads : \/ pc'[t] = pc[t]
                         \/ pc[t] # "slice" /\ pc'[t] \notin {"admit", "route", "slice"}
  BY DEF Resumes
<1>1. OneStrategy'
  BY <1>u DEF Rounds, OneStrategy
<1>2. \A p : (Childless(p)' <=> Childless(p)) /\ (Calm(p) => Calm(p)')
  BY <1>u, <1>b DEF Childless, Calm
<1>3. \A p : Returned(p) => Returned(p)'
  BY <1>2 DEF Returned
<1>4. \A t \in Threads : Prepares(t)' => Prepares(t)
  BY <1>p DEF Prepares
<1>5. FirstRound'
  BY <1>u, <1>t, <1>2, <1>4 DEF Rounds, FirstRound
<1>6. NextRound'
  BY <1>u, <1>t, <1>3, <1>4 DEF Rounds, NextRound
<1>7. OneAtATime'
  BY <1>u, <1>b DEF Rounds, OneAtATime
<1>8. (\A c \in OrderIds : Busy(c) => InStep(c))'
  BY DEF Resumes
<1>9. (\A p \in OrderIds : ~Child(p) => Sized(p))'
  BY <1>u DEF Rounds, Sized, Child, Tracked
<1>10. NewOrders'
  BY <1>u, <1>t, <1>p DEF Rounds, NewOrders, NewEntry
<1>11. JobSizes'
  <2>1. \A t \in Threads : Routed(t)' <=> Routed(t)
    BY <1>u DEF Routed
  <2>2. \A p : Rest(p)' = Rest(p)
    BY <1>u DEF Rest
  <2>. QED
    BY <1>u, <1>t, <1>p, <2>1, <2>2 DEF Rounds, JobSizes
<1>12. Slices'
  BY <1>u, <1>p DEF Rounds, Slices
<1>13. Completions'
  <2>1. \A p : (Done(p) => Done(p)') /\ (Completes(p)' <=> Completes(p))
    BY <1>u, <1>2 DEF Done, Completes
  <2>. QED
    BY <1>u, <2>1 DEF Rounds, Completions, Child
<1>. QED
  BY <1>1, <1>5, <1>6, <1>7, <1>8, <1>9, <1>10, <1>11, <1>12, <1>13 DEF Rounds

(* A step that changes neither the market nor the parents keeps them in step. *)
LEMMA StepKept ==
  ASSUME IInv, Market, Rounds, SameMarket, NEW c \in OrderIds, Busy(c)',
         orders'[parentOf[c]].quantity = orders[parentOf[c]].quantity,
         orders'[parentOf[c]].filled = orders[parentOf[c]].filled
  PROVE  Busy(c) /\ InStep(c)'
<1>1. Busy(c) /\ InStep(c) /\ Child(c)
  BY MarketStill, BusyChildren DEF Rounds
<1>2. orders'[c] = orders[c] /\ parentOf' = parentOf /\ executed' = executed /\ reportQueue' = reportQueue
  BY <1>1 DEF SameMarket
<1>3. InReports(c, reportQueue)' = InReports(c, reportQueue)
  BY <1>2 DEF InReports
<1>. QED
  BY <1>1, <1>2, <1>3 DEF InStep

(* The steps of the clients, of stop() and of the two loops that only move on. *)
Idles ==
    /\ \A t \in Threads : \/ pc'[t] = pc[t]
                          \/ pc[t] # "slice" /\ pc'[t] \notin {"admit", "route", "slice"}
    /\ UNCHANGED <<orders, parentOf, carried, clientQty, orderQueue, job, slices, completed, deferred,
                   pendingQueue, reportQueue, lostReports, executed, sending>>
    /\ \A v \in Venues, c \in OrderIds :
          /\ OnBook(v, c)' <=> OnBook(v, c)
          /\ Entry(v, c)'.quantity = Entry(v, c).quantity
          /\ Entry(v, c)'.filled = Entry(v, c).filled

LEMMA IdleRounds ==
  ASSUME IInv, Market, Rounds, Idles
  PROVE  Market' /\ Rounds'
<1>1. SameMarket
  BY DEF Idles, SameMarket
<1>2. \A c \in OrderIds : Busy(c)' => Busy(c) /\ InStep(c)'
  BY <1>1, StepKept DEF Idles
<1>3. Resumes
  BY <1>2 DEF Idles, Resumes
<1>. QED
  BY <1>1, <1>3, MarketStill, RoundsStill

LEMMA SameBooks ==
  ASSUME activeOrders' = activeOrders
  PROVE  \A v \in Venues, c \in OrderIds :
            /\ OnBook(v, c)' <=> OnBook(v, c)
            /\ Entry(v, c)'.quantity = Entry(v, c).quantity
            /\ Entry(v, c)'.filled = Entry(v, c).filled
  BY DEF OnBook, Entry

LEMMA Elsewhere ==
  ASSUME IInv, NEW t \in Threads, NEW to, pc' = [pc EXCEPT ![t] = to], pc[t] # "slice",
         to \notin {"admit", "route", "slice"}
  PROVE  \A z \in Threads : \/ pc'[z] = pc[z]
                            \/ pc[z] # "slice" /\ pc'[z] \notin {"admit", "route", "slice"}
<1>1. pc = [z \in Threads |-> pc[z]]
  BY DEF IInv, ThreadShapes
<1>2. \A z \in Threads : pc'[z] = IF z = t THEN to ELSE pc[z]
  BY <1>1
<1>. QED
  BY <1>2

LEMMA ClientIdles ==
  ASSUME IInv, (\E id \in OrderIds : CancelOrder(id)) \/ KillSwitch \/ Stop \/ StopDisconnect \/ UNCHANGED vars
  PROVE  Idles
<1>1. UNCHANGED <<orders, parentOf, carried, clientQty, orderQueue, job, slices, completed, deferred,
                  pendingQueue, reportQueue, lostReports, executed, sending, activeOrders, pc>>
  <2>1. CASE \E id \in OrderIds : CancelOrder(id)
    BY <2>1 DEF CancelOrder, exchangeVars, handlerVars, riskVars, threadVars
  <2>2. CASE KillSwitch
    BY <2>2 DEF KillSwitch, exchangeVars, handlerVars, gatewayVars, threadVars
  <2>3. CASE Stop
    BY <2>3 DEF Stop, exchangeVars, handlerVars, riskVars, threadVars
  <2>4. CASE StopDisconnect
    BY <2>4 DEF StopDisconnect, Disconnect, handlerVars, riskVars, gatewayVars, threadVars
  <2>5. CASE UNCHANGED vars
    BY <2>5 DEF vars, exchangeVars, handlerVars, riskVars, gatewayVars, threadVars
  <2>. QED
    BY <2>1, <2>2, <2>3, <2>4, <2>5
<1>. QED
  BY <1>1, SameBooks DEF Idles

LEMMA ThreadIdles ==
  ASSUME IInv, NEW t \in Threads,
         \/ Loop(t) \/ GivesUp(t)
         \/ t = "order" /\ PopOrder /\ orderQueue = << >>
         \/ t = "order" /\ PopCancel
         \/ t = "exec" /\ PopReport /\ reportQueue = << >>
  PROVE  Idles
<1>1. UNCHANGED <<orders, parentOf, carried, clientQty, orderQueue, job, slices, completed, deferred,
                  pendingQueue, reportQueue, lostReports, executed, sending, activeOrders>>
  <2>1. CASE Loop(t)
    BY <2>1 DEF Loop, exchangeVars, handlerVars, riskVars, gatewayVars
  <2>2. CASE GivesUp(t)
    BY <2>2 DEF GivesUp
  <2>3. CASE PopOrder /\ orderQueue = << >>
    BY <2>3 DEF PopOrder, exchangeVars, handlerVars
  <2>4. CASE PopCancel
    BY <2>4 DEF PopCancel, exchangeVars, handlerVars
  <2>5. CASE PopReport /\ reportQueue = << >>
    BY <2>5 DEF PopReport, handlerVars, gatewayVars
  <2>. QED
    BY <2>1, <2>2, <2>3, <2>4, <2>5
<1>2. PICK to : to \notin {"admit", "route", "slice"} /\ pc' = [pc EXCEPT ![t] = to] /\ pc[t] # "slice"
  <2>0. Drain(t) \notin {"admit", "route", "slice"}
    BY DEF Drain
  <2>1. CASE Loop(t)
    <3>1. PICK to : to = IF running THEN Drain(t) ELSE "exited"
      OBVIOUS
    <3>. QED
      BY <2>0, <2>1, <3>1 DEF Loop, GoTo
  <2>2. CASE GivesUp(t)
    BY <2>0, <2>2 DEF GivesUp
  <2>3. CASE t = "order" /\ PopOrder /\ orderQueue = << >>
    BY <2>3 DEF PopOrder, GoTo
  <2>4. CASE t = "order" /\ PopCancel
    BY <2>4 DEF PopCancel, GoTo
  <2>5. CASE t = "exec" /\ PopReport /\ reportQueue = << >>
    BY <2>5 DEF PopReport, GoTo
  <2>. QED
    BY <2>1, <2>2, <2>3, <2>4, <2>5
<1>. QED
  BY <1>1, <1>2, SameBooks, Elsewhere DEF Idles

LEMMA CancelIdles ==
  ASSUME IInv, CancelChild
  PROVE  Idles
<1>1. UNCHANGED <<orders, parentOf, carried, clientQty, orderQueue, job, slices, completed, deferred, sending>>
  BY DEF CancelChild, handlerVars, riskVars, gatewayVars
<1>2. UNCHANGED <<pendingQueue, reportQueue, lostReports, executed>>
  BY DEF CancelChild, CancelAtVenue, exchangeVars
<1>3. \A z \in Threads : \/ pc'[z] = pc[z]
                         \/ pc[z] # "slice" /\ pc'[z] \notin {"admit", "route", "slice"}
  <2>1. CASE pc' = pc
    BY <2>1
  <2>2. CASE pc' = [pc EXCEPT !["order"] = "cancels"]
    <3>1. "order" \in Threads /\ pc["order"] = "cancelling"
      BY DEF CancelChild, Threads
    <3>. QED
      BY <2>2, <3>1, Elsewhere
  <2>. QED
    BY <2>1, <2>2 DEF CancelChild, GoTo
<1>4. \A v \in Venues, c \in OrderIds :
          /\ OnBook(v, c)' <=> OnBook(v, c)
          /\ Entry(v, c)'.quantity = Entry(v, c).quantity
          /\ Entry(v, c)'.filled = Entry(v, c).filled
  <2>1. CASE activeOrders' = activeOrders
    BY <2>1, SameBooks
  <2>2. CASE cancelList # << >> /\ activeOrders' # activeOrders
    <3>1. PICK x, w : x = Head(cancelList) /\ w = orders[x].venue
      OBVIOUS
    <3>2. activeOrders' = [activeOrders EXCEPT ![w][x].cancel = TRUE] /\ OnBook(w, x)
      BY <2>2, <3>1 DEF CancelChild, CancelAtVenue, exchangeVars
    <3>3. activeOrders \in [Venues -> [OrderIds -> BookShape]]
      BY DEF IInv, VenueShapes
    <3> SUFFICES ASSUME NEW v \in Venues, NEW c \in OrderIds
                 PROVE  /\ OnBook(v, c)' <=> OnBook(v, c)
                        /\ Entry(v, c)'.quantity = Entry(v, c).quantity
                        /\ Entry(v, c)'.filled = Entry(v, c).filled
      OBVIOUS
    <3>4. CASE v = w /\ c = x
      <4>1. activeOrders'[v][c] = [activeOrders[v][c] EXCEPT !.cancel = TRUE]
        BY <3>2, <3>3, <3>4
      <4>2. PICK e \in BookShape : e = activeOrders[v][c]
        BY <3>3
      <4>3. PICK f : f = [e EXCEPT !.cancel = TRUE]
        OBVIOUS
      <4>4. f.cancel = TRUE /\ f.quantity = e.quantity /\ f.filled = e.filled
        BY <4>3 DEF BookShape
      <4>5. Absent.cancel = FALSE
        BY DEF Absent
      <4>6. f # Absent
        BY <4>4, <4>5
      <4>. QED
        BY <3>2, <3>4, <4>1, <4>2, <4>3, <4>4, <4>6 DEF OnBook, Entry
    <3>5. CASE ~(v = w /\ c = x)
      <4>1. activeOrders'[v][c] = activeOrders[v][c]
        BY <3>2, <3>3, <3>5
      <4>. QED
        BY <4>1 DEF OnBook, Entry
    <3>. QED
      BY <3>4, <3>5
  <2>3. cancelList # << >> \/ activeOrders' = activeOrders
    BY DEF CancelChild, exchangeVars
  <2>. QED
    BY <2>1, <2>2, <2>3
<1>. QED
  BY <1>1, <1>2, <1>3, <1>4 DEF Idles

-----------------------------------------------------------------------------
(* Steps that change the book of a venue.                                  *)

LEMMA NotEmpty == ASSUME NEW S, NEW q \in Seq(S), NEW y PROVE Append(q, y) # << >>
<1>1. Len(Append(q, y)) = Len(q) + 1 /\ Len(q) \in Nat /\ Len(<< >>) = 0
  OBVIOUS
<1>. QED
  BY <1>1

LEMMA PushedOne ==
  ASSUME IInv, Accounting, lostReports' = << >>, NEW r \in ReportShape, Notify(<<r>>)
  PROVE  reportQueue' = Append(reportQueue, r) /\ lostReports = << >>
<1>1. /\ reportQueue \in Seq(ReportShape) /\ Len(reportQueue) <= ReportCapacity
      /\ lostReports \in Seq(ReportShape)
  BY AccountingFacts
<1>2. Append(lostReports, r) # << >>
  BY <1>1, NotEmpty
<1>. QED
  BY <1>1, <1>2, NotifiedOne

LEMMA PushedTwo ==
  ASSUME IInv, Accounting, lostReports' = << >>, NEW r \in ReportShape, NEW s \in ReportShape, Notify(<<r, s>>)
  PROVE  reportQueue' = Append(Append(reportQueue, r), s) /\ lostReports = << >>
<1>1. /\ reportQueue \in Seq(ReportShape) /\ Len(reportQueue) <= ReportCapacity
      /\ lostReports \in Seq(ReportShape)
  BY AccountingFacts
<1>2. Append(lostReports, r) \in Seq(ReportShape)
  BY <1>1
<1>s. Append(lostReports, s) # << >>
  BY <1>1, NotEmpty
<1>3. Append(Append(lostReports, r), s) # << >>
  BY <1>2, NotEmpty
<1>. QED
  BY <1>1, <1>s, <1>3, NotifiedTwo

\* Venue v has e for the child c from now on, and q to visit.
Touches(v, c, e, q) ==
    /\ Child(c) /\ v = orders[c].venue
    /\ activeOrders' = [activeOrders EXCEPT ![v][c] = e]
    /\ pendingQueue' = [pendingQueue EXCEPT ![v] = q]
    /\ Once(q)
    /\ \A x \in OrderIds : In(x, q) => (x = c /\ e # Absent) \/ (x # c /\ In(x, pendingQueue[v]))
    /\ e # Absent => /\ e.quantity = orders[c].quantity /\ e.filled = executed'[c]
                     /\ executed'[c] < orders[c].quantity
    /\ \A x \in OrderIds : x # c => executed'[x] = executed[x]
    /\ UNCHANGED <<orders, parentOf>>

LEMMA BooksTouched ==
  ASSUME IInv, Books, NEW v \in Venues, NEW c \in OrderIds, NEW e, NEW q, Touches(v, c, e, q)
  PROVE  /\ Books'
         /\ \A x \in OrderIds : Booked(x)' <=> IF x = c THEN e # Absent ELSE Booked(x)
<1>1. activeOrders \in [Venues -> [OrderIds -> BookShape]] /\ pendingQueue \in [Venues -> Seq(OrderIds)]
  BY DEF IInv, VenueShapes
<1>2. ASSUME NEW w \in Venues, NEW x \in OrderIds
      PROVE  activeOrders'[w][x] = IF w = v /\ x = c THEN e ELSE activeOrders[w][x]
  BY <1>1 DEF Touches
<1>3. \A w \in Venues : pendingQueue'[w] = IF w = v THEN q ELSE pendingQueue[w]
  BY <1>1 DEF Touches
<1>4. \A w \in Venues, x \in OrderIds : OnBook(w, x)' <=> IF w = v /\ x = c THEN e # Absent ELSE OnBook(w, x)
  BY <1>2 DEF OnBook
<1>5. \A w \in Venues : OnBook(w, c) => w = v
  BY DEF Books, BookEntry, Touches
<1>6. ASSUME NEW x \in OrderIds PROVE Booked(x)' <=> IF x = c THEN e # Absent ELSE Booked(x)
  <2>1. CASE x = c
    BY <1>4, <1>5, <2>1 DEF Booked
  <2>2. CASE x # c
    BY <1>4, <2>2 DEF Booked
  <2>. QED
    BY <2>1, <2>2
<1>7. ASSUME NEW w \in Venues
      PROVE  Once(pendingQueue[w])' /\ \A x \in OrderIds : In(x, pendingQueue[w])' => OnBook(w, x)'
  <2>0. PICK qw : qw = pendingQueue'[w]
    OBVIOUS
  <2>1. CASE w = v
    <3>1. qw = q /\ Once(q)
      BY <1>3, <2>0, <2>1 DEF Touches
    <3>2. ASSUME NEW x \in OrderIds, In(x, q) PROVE OnBook(w, x)'
      <4>1. (x = c /\ e # Absent) \/ (x # c /\ In(x, pendingQueue[v]))
        BY <3>2 DEF Touches
      <4>2. x # c /\ In(x, pendingQueue[v]) => OnBook(v, x)
        BY DEF Books
      <4>. QED
        BY <1>4, <2>1, <4>1, <4>2
    <3>. QED
      BY <2>0, <3>1, <3>2 DEF Once, In
  <2>2. CASE w # v
    <3>1. qw = pendingQueue[w]
      BY <1>3, <2>0, <2>2
    <3>2. Once(qw) /\ \A x \in OrderIds : In(x, qw) => OnBook(w, x)
      BY <3>1 DEF Books
    <3>3. \A x \in OrderIds : In(x, qw) => OnBook(w, x)'
      BY <1>4, <2>2, <3>2
    <3>. QED
      BY <2>0, <3>2, <3>3 DEF Once, In
  <2>. QED
    BY <2>1, <2>2
<1>8. ASSUME NEW w \in Venues, NEW x \in OrderIds, OnBook(w, x)' PROVE BookEntry(w, x)'
  <2>0. orders' = orders /\ parentOf' = parentOf
    BY DEF Touches
  <2>1. CASE w = v /\ x = c
    <3>1. e # Absent /\ activeOrders'[w][x] = e
      BY <1>2, <1>4, <1>8, <2>1
    <3>2. /\ Child(c) /\ v = orders[c].venue /\ e.quantity = orders[c].quantity /\ e.filled = executed'[c]
          /\ executed'[c] < orders[c].quantity
      BY <3>1 DEF Touches
    <3>. QED
      BY <2>0, <2>1, <3>1, <3>2 DEF BookEntry, Entry, Child
  <2>2. CASE ~(w = v /\ x = c)
    <3>1. OnBook(w, x) /\ activeOrders'[w][x] = activeOrders[w][x]
      BY <1>2, <1>4, <1>8, <2>2
    <3>2. x # c
      BY <1>5, <2>2, <3>1
    <3>3. executed'[x] = executed[x]
      BY <3>2 DEF Touches
    <3>4. BookEntry(w, x)
      BY <3>1 DEF Books
    <3>. QED
      BY <2>0, <3>1, <3>3, <3>4 DEF BookEntry, Entry, Child
  <2>. QED
    BY <2>1, <2>2
<1>9. Books'
  BY <1>7, <1>8 DEF Books
<1>. QED
  BY <1>6, <1>9

(* What a push of one report does to the reports about x. *)
LEMMA PushedAbout ==
  ASSUME IInv, NEW r \in ReportShape, reportQueue' = Append(reportQueue, r)
  PROVE  /\ \A x : About(x, reportQueue)' <=> About(x, reportQueue) \/ x = r.id
         /\ \A x : Closing(x, reportQueue)' <=> Closing(x, reportQueue) \/ (x = r.id /\ Ends(r))
         /\ InOrder(reportQueue) /\ ~Closing(r.id, reportQueue) => InOrder(reportQueue)'
         /\ \A i \in 1 .. Len(reportQueue') : In(reportQueue'[i], reportQueue) \/ reportQueue'[i] = r
         /\ \A x : InReports(x, reportQueue)' = InReports(x, reportQueue) + Share(x, r)
<1>1. reportQueue \in Seq(ReportShape)
  BY ReportsOfChildren
<1>2. PICK q : q = Append(reportQueue, r)
  OBVIOUS
<1>3. /\ \A x : About(x, q) <=> About(x, reportQueue) \/ x = r.id
      /\ \A x : Closing(x, q) <=> Closing(x, reportQueue) \/ (x = r.id /\ Ends(r))
      /\ InOrder(reportQueue) /\ ~Closing(r.id, reportQueue) => InOrder(q)
      /\ \A x : In(x, q) <=> In(x, reportQueue) \/ x = r
  BY <1>1, <1>2, ReportsAppend
<1>4. reportQueue' = q
  BY <1>2
<1>5. \A x : InReports(x, q) = InReports(x, reportQueue) + Share(x, r)
  BY <1>1, <1>2, InReportsAppend
<1>6. \A i \in 1 .. Len(q) : In(q[i], q)
  BY DEF In
<1>7. \A x : About(x, reportQueue)' <=> About(x, q)
  BY <1>4 DEF About
<1>8. \A x : Closing(x, reportQueue)' <=> Closing(x, q)
  BY <1>4 DEF Closing
<1>9. InOrder(reportQueue)' <=> InOrder(q)
  BY <1>4 DEF InOrder
<1>10. \A x : InReports(x, reportQueue)' = InReports(x, q)
  BY <1>4 DEF InReports
<1>11. \A i \in 1 .. Len(q) : In(q[i], reportQueue) \/ q[i] = r
  BY <1>3, <1>6
<1>. QED
  BY <1>3, <1>4, <1>5, <1>7, <1>8, <1>9, <1>10, <1>11

(* A report that keeps its place stays true, if what it is about did not change. *)
LEMMA TrueStill ==
  ASSUME Reporting, NEW r, In(r, reportQueue), executed'[r.id] = executed[r.id], orders'[r.id].quantity = orders[r.id].quantity
  PROVE  Truthful(r)'
<1>1. Truthful(r)
  BY DEF In, Reporting
<1>. QED
  BY <1>1 DEF Truthful

LEMMA DeliverMarket ==
  ASSUME IInv, Accounting, Market, lostReports' = << >>,
         NEW t \in Threads, NEW c \in OrderIds, NEW v \in Venues, Delivers(t, c, v)
  PROVE  /\ Market'
         /\ \A x \in OrderIds : Busy(x)' => Busy(x)
         /\ \A x \in OrderIds : InStep(x) => InStep(x)'
<1>m. Books /\ Departures /\ Executions /\ Reporting /\ OpenWhileBusy
  BY DEF Market
<1>u. UNCHANGED <<executed, orders, parentOf>> /\ c = sending[t] /\ Child(c) /\ v = orders[c].venue
  BY DEF Delivers
<1>0. PICK r \in ReportShape : r = Report(c, "Accepted", 0, 0)
  <2>1. Report(c, "Accepted", 0, 0) \in ReportShape
    BY DEF Report, ReportShape
  <2>. QED
    BY <2>1
<1>r. r.id = c /\ r.state = "Accepted" /\ r.last = 0 /\ ~Ends(r) /\ Notify(<<r>>)
  BY <1>0 DEF Report, Delivers, Ends
<1>q. reportQueue' = Append(reportQueue, r)
  BY <1>r, PushedOne
<1>a. /\ \A x : About(x, reportQueue)' <=> About(x, reportQueue) \/ x = c
      /\ \A x : Closing(x, reportQueue)' <=> Closing(x, reportQueue)
      /\ InOrder(reportQueue) /\ ~Closing(c, reportQueue) => InOrder(reportQueue)'
      /\ \A i \in 1 .. Len(reportQueue') : In(reportQueue'[i], reportQueue) \/ reportQueue'[i] = r
      /\ \A x : InReports(x, reportQueue)' = InReports(x, reportQueue) + Share(x, r)
  BY <1>q, <1>r, PushedAbout
<1>d. Departing(c)
  BY <1>u, <1>m DEF Departures
<1>e. PICK e : e = [quantity |-> orders[c].quantity, filled |-> 0, tif |-> orders[c].tif, cancel |-> FALSE]
  OBVIOUS
<1>p. orders[c].quantity \in Nat /\ orders[c].quantity > 0 /\ executed[c] = 0
  <2>1. orders[c] \in OrderShape
    BY DEF IInv, RouterShapes
  <2>. QED
    BY <2>1, <1>d, <1>m DEF OrderShape, Departing, Executions
<1>f. e.quantity = orders[c].quantity /\ e.filled = 0 /\ e # Absent
  <2>1. e.quantity = orders[c].quantity /\ e.filled = 0
    BY <1>e
  <2>2. Absent.quantity = 0
    BY DEF Absent
  <2>3. e.quantity # Absent.quantity
    BY <1>p, <2>1, <2>2
  <2>. QED
    BY <2>1, <2>3
<1>1. PICK q : q = Append(pendingQueue[v], c)
  OBVIOUS
<1>2. Touches(v, c, e, q)
  <2>1. pendingQueue[v] \in Seq(OrderIds)
    BY DEF IInv, VenueShapes
  <2>2. ~In(c, pendingQueue[v])
    BY <1>d, <1>m DEF Departing, Booked, Books
  <2>3. Once(q) /\ \A x : In(x, q) <=> In(x, pendingQueue[v]) \/ x = c
    BY <1>1, <1>m, <2>1, <2>2, InAppended DEF Books
  <2>4. activeOrders' = [activeOrders EXCEPT ![v][c] = e] /\ pendingQueue' = [pendingQueue EXCEPT ![v] = q]
    BY <1>1, <1>e DEF Delivers
  <2>. QED
    BY <1>u, <1>p, <1>f, <2>2, <2>3, <2>4 DEF Touches
<1>3. Books' /\ \A x \in OrderIds : Booked(x)' <=> (x = c \/ Booked(x))
  <2>1. Books' /\ \A x \in OrderIds : Booked(x)' <=> IF x = c THEN e # Absent ELSE Booked(x)
    BY <1>m, <1>2, BooksTouched
  <2>. QED
    BY <1>f, <2>1
<1>4. \A z \in Threads : sending'[z] = IF z = t THEN INVALID_ORDER_ID ELSE sending[z]
  <2>1. sending \in [Threads -> AnyId]
    BY DEF IInv, ThreadShapes
  <2>. QED
    BY <2>1 DEF Delivers
<1>5. \A z \in Threads : sending'[z] \in OrderIds => z # t /\ sending'[z] = sending[z] /\ sending[z] # c
  <2>1. INVALID_ORDER_ID \notin OrderIds
    BY Ids
  <2>2. \A z \in Threads : z # t /\ sending[z] \in OrderIds => sending[z] # c
    BY <1>u, <1>m DEF Departures, Threads
  <2>. QED
    BY <1>4, <2>1, <2>2
<1>6. \A x \in OrderIds : Sent(x)' => Sent(x)
  BY <1>5 DEF Sent
<1>7. \A x \in OrderIds : Busy(x)' => Busy(x)
  <2>1. Sent(c)
    BY <1>u DEF Sent
  <2>. QED
    BY <1>a, <1>3, <1>6, <2>1 DEF Busy
<1>8. Departures'
  <2>1. ASSUME NEW z \in Threads, sending'[z] \in OrderIds PROVE Departing(sending[z])'
    <3>1. PICK x \in OrderIds : x = sending[z] /\ x # c /\ sending'[z] = x
      BY <1>5, <2>1
    <3>2. Departing(x)
      BY <1>m, <3>1 DEF Departures
    <3>3. Departing(x)'
      BY <1>u, <1>a, <1>3, <3>1, <3>2 DEF Departing, Child
    <3>. QED
      BY <3>1, <3>3 DEF Departing, Child, Booked, OnBook, About
  <2>2. sending'["order"] \in OrderIds => sending'["order"] # sending'["exec"]
    <3>1. "order" \in Threads /\ "exec" \in Threads /\ INVALID_ORDER_ID \notin OrderIds
      BY Ids DEF Threads
    <3>. QED
      BY <1>4, <1>m, <3>1 DEF Departures
  <2>. QED
    BY <2>1, <2>2 DEF Departures
<1>9. Executions'
  BY <1>u, <1>m DEF Executions, Child
<1>10. Reporting'
  <2>1. ~About(c, reportQueue) /\ ~Closing(c, reportQueue)
    BY <1>d DEF Departing, About, Closing
  <2>2. InOrder(reportQueue)'
    BY <1>a, <1>m, <2>1 DEF Reporting
  <2>3. ASSUME NEW i \in 1 .. Len(reportQueue') PROVE Truthful(reportQueue[i])'
    <3>0. PICK s : s = reportQueue'[i]
      OBVIOUS
    <3>1. CASE In(s, reportQueue)
      <4>1. Truthful(s)'
        BY <1>u, <1>m, <3>1, TrueStill
      <4>. QED
        BY <3>0, <4>1 DEF Truthful
    <3>2. CASE s = r
      BY <1>r, <3>0, <3>2 DEF Truthful
    <3>. QED
      BY <1>a, <3>0, <3>1, <3>2
  <2>4. \A x \in OrderIds : Closing(x, reportQueue)' => ~Booked(x)'
    BY <1>a, <1>3, <1>m, <2>1 DEF Reporting
  <2>5. \A x \in OrderIds : About(x, reportQueue)' => Booked(x)' \/ Closing(x, reportQueue)'
    BY <1>a, <1>3, <1>m DEF Reporting
  <2>. QED
    BY <2>2, <2>3, <2>4, <2>5 DEF Reporting
<1>11. OpenWhileBusy'
  BY <1>u, <1>7, <1>m DEF OpenWhileBusy
<1>12. ASSUME NEW x \in OrderIds, InStep(x) PROVE InStep(x)'
  <2>1. Share(x, r) = 0
    BY <1>r DEF Share
  <2>2. InReports(x, reportQueue) \in Nat
    BY ReportsOfChildren, InReportsNat
  <2>3. InReports(x, reportQueue)' = InReports(x, reportQueue)
    BY <1>a, <2>1, <2>2
  <2>. QED
    BY <1>u, <1>12, <2>3 DEF InStep
<1>. QED
  BY <1>3, <1>7, <1>8, <1>9, <1>10, <1>11, <1>12 DEF Market

(* The visit of an order: it stays on the book or a report tells its end. *)
Tells(c, e) ==
    /\ \A x \in OrderIds : x # c => /\ About(x, reportQueue)' <=> About(x, reportQueue)
                                    /\ Closing(x, reportQueue)' <=> Closing(x, reportQueue)
    /\ Closing(c, reportQueue)' <=> e = Absent
    /\ InOrder(reportQueue)'
    /\ \A i \in 1 .. Len(reportQueue') :
          In(reportQueue'[i], reportQueue) \/ (reportQueue'[i].id = c /\ Truthful(reportQueue[i])')
    /\ \A x \in OrderIds : InReports(x, reportQueue)' + executed[x] = InReports(x, reportQueue) + executed'[x]

LEMMA VisitMarket ==
  ASSUME IInv, IInv', Accounting, Accounting', Market, NEW v \in Venues, NEW c \in OrderIds, NEW e, NEW q,
         Booked(c), Touches(v, c, e, q), Tells(c, e), executed'[c] <= orders[c].quantity, sending' = sending
  PROVE  /\ Market'
         /\ \A x \in OrderIds : Busy(x)' => Busy(x)
         /\ \A x \in OrderIds : Busy(x) /\ InStep(x) => InStep(x)'
<1>m. Books /\ Departures /\ Executions /\ Reporting /\ OpenWhileBusy
  BY DEF Market
<1>u. UNCHANGED <<orders, parentOf>> /\ (\A x \in OrderIds : x # c => executed'[x] = executed[x]) /\ Child(c)
  BY DEF Touches
<1>1. Books' /\ \A x \in OrderIds : Booked(x)' <=> IF x = c THEN e # Absent ELSE Booked(x)
  BY <1>m, BooksTouched
<1>2. ~Sent(c)
  BY <1>m DEF Sent, Departures, Departing
<1>3. \A x \in OrderIds : Sent(x)' <=> Sent(x)
  BY DEF Sent
<1>4. \A x \in OrderIds : Busy(x)' => Busy(x)
  <2>1. \A x \in OrderIds : x # c => (About(x, reportQueue)' <=> About(x, reportQueue))
    BY DEF Tells
  <2>. QED
    BY <1>1, <1>3, <2>1 DEF Busy
<1>5. Departures'
  <2>1. ASSUME NEW z \in Threads, sending[z] \in OrderIds PROVE Departing(sending[z])'
    <3>1. PICK x \in OrderIds : x = sending[z]
      BY <2>1
    <3>2. Departing(x) /\ x # c
      BY <1>m, <1>2, <3>1 DEF Departures, Sent
    <3>3. Departing(x)'
      BY <1>u, <1>1, <3>2 DEF Departing, Child, Tells
    <3>4. sending'[z] = x
      BY <3>1
    <3>. QED
      BY <3>3, <3>4 DEF Departing, Child, Booked, OnBook, About
  <2>. QED
    BY <1>m, <2>1 DEF Departures
<1>6. Executions'
  <2>1. ASSUME NEW x \in OrderIds, Child(x) PROVE orders[x].quantity > 0 /\ executed'[x] <= orders[x].quantity
    BY <1>u, <1>m, <2>1 DEF Executions
  <2>. QED
    BY <1>u, <2>1 DEF Executions, Child
<1>7. Reporting'
  <2>0. ~Closing(c, reportQueue)
    BY <1>m DEF Reporting
  <2>1. InOrder(reportQueue)'
    BY DEF Tells
  <2>2. ASSUME NEW i \in 1 .. Len(reportQueue') PROVE Truthful(reportQueue[i])'
    <3>0. PICK s : s = reportQueue'[i]
      OBVIOUS
    <3>1. CASE In(s, reportQueue) /\ s.id # c
      <4>1. s.id \in OrderIds
        BY <3>1, ReportsOfChildren DEF In
      <4>2. Truthful(s)'
        BY <1>u, <1>m, <3>1, <4>1, TrueStill
      <4>. QED
        BY <3>0, <4>2 DEF Truthful
    <3>2. CASE In(s, reportQueue) /\ s.id = c
      <4>1. ~Ends(s)
        BY <2>0, <3>2 DEF In, Closing
      <4>2. Truthful(s)'
        BY <4>1 DEF Truthful, Ends
      <4>. QED
        BY <3>0, <4>2 DEF Truthful
    <3>3. CASE ~In(s, reportQueue)
      BY <3>0, <3>3 DEF Tells
    <3>. QED
      BY <3>1, <3>2, <3>3
  <2>3. \A x \in OrderIds : Closing(x, reportQueue)' => ~Booked(x)'
    BY <1>1, <1>m DEF Reporting, Tells
  <2>4. \A x \in OrderIds : About(x, reportQueue)' => Booked(x)' \/ Closing(x, reportQueue)'
    BY <1>1, <1>m DEF Reporting, Tells
  <2>. QED
    BY <2>1, <2>2, <2>3, <2>4 DEF Reporting
<1>8. OpenWhileBusy'
  BY <1>u, <1>4, <1>m DEF OpenWhileBusy
<1>9. ASSUME NEW x \in OrderIds, Busy(x), InStep(x) PROVE InStep(x)'
  <2>1. InReports(x, reportQueue)' + executed[x] = InReports(x, reportQueue) + executed'[x]
    BY DEF Tells
  <2>2. InReports(x, reportQueue) \in Nat /\ executed[x] \in Nat /\ executed'[x] \in Nat
    BY ReportsOfChildren, InReportsNat DEF Accounting, AccountShapes
  <2>3. PICK b : b = InReports(x, reportQueue')
    OBVIOUS
  <2>4. b \in Nat /\ InReports(x, reportQueue)' = b
    <3>1. reportQueue' \in Seq(ReportShape)
      BY DEF IInv, VenueShapes
    <3>2. InReports(x, reportQueue)' = b
      BY <2>3 DEF InReports
    <3>. QED
      BY <2>3, <3>1, <3>2, InReportsNat
  <2>5. PICK f \in Nat : f = orders[parentOf[x]].filled
    <3>1. orders[parentOf[x]] \in OrderShape
      BY <1>9, BusyChildren DEF IInv, RouterShapes
    <3>. QED
      BY <3>1 DEF OrderShape
  <2>6. f + InReports(x, reportQueue) = executed[x] /\ orders[parentOf[x]].quantity = orders[x].quantity
    BY <1>9, <2>5 DEF InStep
  <2>7. f + b = executed'[x]
    BY <2>1, <2>2, <2>4, <2>6
  <2>. QED
    BY <1>u, <2>4, <2>5, <2>6, <2>7 DEF InStep
<1>. QED
  BY <1>1, <1>4, <1>5, <1>6, <1>7, <1>8, <1>9 DEF Market

LEMMA TellOne ==
  ASSUME IInv, Accounting, Reporting, NEW c \in OrderIds, ~Closing(c, reportQueue), NEW e,
         NEW r \in ReportShape, r.id = c, Ends(r) <=> e = Absent, Truthful(r)',
         reportQueue' = Append(reportQueue, r), executed' = [executed EXCEPT ![c] = @ + r.last]
  PROVE  Tells(c, e)
<1>1. /\ \A x : About(x, reportQueue)' <=> About(x, reportQueue) \/ x = r.id
      /\ \A x : Closing(x, reportQueue)' <=> Closing(x, reportQueue) \/ (x = r.id /\ Ends(r))
      /\ InOrder(reportQueue) /\ ~Closing(r.id, reportQueue) => InOrder(reportQueue)'
      /\ \A i \in 1 .. Len(reportQueue') : In(reportQueue'[i], reportQueue) \/ reportQueue'[i] = r
      /\ \A x : InReports(x, reportQueue)' = InReports(x, reportQueue) + Share(x, r)
  BY PushedAbout
<1>2. InOrder(reportQueue)'
  BY <1>1 DEF Reporting
<1>3. ASSUME NEW i \in 1 .. Len(reportQueue')
      PROVE  In(reportQueue'[i], reportQueue) \/ (reportQueue'[i].id = c /\ Truthful(reportQueue[i])')
  <2>1. CASE reportQueue'[i] = r
    BY <2>1 DEF Truthful
  <2>. QED
    BY <1>1, <2>1
<1>4. ASSUME NEW x \in OrderIds
      PROVE  InReports(x, reportQueue)' + executed[x] = InReports(x, reportQueue) + executed'[x]
  <2>1. executed \in [OrderIds -> Nat] /\ r.last \in Nat
    BY DEF Accounting, AccountShapes, ReportShape
  <2>2. InReports(x, reportQueue) \in Nat
    BY ReportsOfChildren, InReportsNat
  <2>3. executed'[x] = executed[x] + Share(x, r) /\ Share(x, r) \in Nat
    BY <2>1 DEF Share
  <2>4. executed[x] \in Nat
    BY <2>1
  <2>. QED
    BY <1>1, <2>2, <2>3, <2>4
<1>. QED
  BY <1>1, <1>2, <1>3, <1>4 DEF Tells

LEMMA TellTwo ==
  ASSUME IInv, Accounting, Reporting, NEW c \in OrderIds, ~Closing(c, reportQueue),
         NEW r \in ReportShape, r.id = c, ~Ends(r), Truthful(r)',
         NEW s \in ReportShape, s.id = c, Ends(s), Truthful(s)', s.last = 0,
         reportQueue' = Append(Append(reportQueue, r), s), executed' = [executed EXCEPT ![c] = @ + r.last]
  PROVE  Tells(c, Absent)
<1>0. reportQueue \in Seq(ReportShape)
  BY ReportsOfChildren
<1>q. PICK q \in Seq(ReportShape) : q = Append(reportQueue, r)
  <2>1. Append(reportQueue, r) \in Seq(ReportShape)
    BY <1>0
  <2>. QED
    BY <2>1
<1>1. /\ \A x : About(x, q) <=> About(x, reportQueue) \/ x = c
      /\ \A x : Closing(x, q) <=> Closing(x, reportQueue)
      /\ InOrder(q)
      /\ \A x : In(x, q) <=> In(x, reportQueue) \/ x = r
  <2>1. /\ \A x : About(x, q) <=> About(x, reportQueue) \/ x = r.id
        /\ \A x : Closing(x, q) <=> Closing(x, reportQueue) \/ (x = r.id /\ Ends(r))
        /\ InOrder(reportQueue) /\ ~Closing(r.id, reportQueue) => InOrder(q)
        /\ \A x : In(x, q) <=> In(x, reportQueue) \/ x = r
    BY <1>0, <1>q, ReportsAppend
  <2>. QED
    BY <2>1 DEF Reporting
<1>t. PICK p : p = Append(q, s)
  OBVIOUS
<1>2. /\ \A x : About(x, p) <=> About(x, q) \/ x = s.id
      /\ \A x : Closing(x, p) <=> Closing(x, q) \/ (x = s.id /\ Ends(s))
      /\ InOrder(q) /\ ~Closing(s.id, q) => InOrder(p)
      /\ \A x : In(x, p) <=> In(x, q) \/ x = s
  BY <1>q, <1>t, ReportsAppend
<1>3. reportQueue' = p
  BY <1>q, <1>t
<1>4. \A x : About(x, reportQueue)' <=> About(x, p)
  BY <1>3 DEF About
<1>5. \A x : Closing(x, reportQueue)' <=> Closing(x, p)
  BY <1>3 DEF Closing
<1>6. InOrder(reportQueue)'
  <2>1. InOrder(p)
    BY <1>1, <1>2
  <2>. QED
    BY <1>3, <2>1 DEF InOrder
<1>7. ASSUME NEW i \in 1 .. Len(reportQueue')
      PROVE  In(reportQueue'[i], reportQueue) \/ (reportQueue'[i].id = c /\ Truthful(reportQueue[i])')
  <2>1. In(p[i], p)
    BY <1>3, <1>7 DEF In
  <2>2. In(p[i], reportQueue) \/ p[i] = r \/ p[i] = s
    BY <1>1, <1>2, <2>1
  <2>3. CASE p[i] = r
    BY <1>3, <2>3 DEF Truthful
  <2>4. CASE p[i] = s
    BY <1>3, <2>4 DEF Truthful
  <2>. QED
    BY <1>3, <2>2, <2>3, <2>4
<1>8. ASSUME NEW x \in OrderIds
      PROVE  InReports(x, reportQueue)' + executed[x] = InReports(x, reportQueue) + executed'[x]
  <2>1. executed \in [OrderIds -> Nat] /\ r.last \in Nat
    BY DEF Accounting, AccountShapes, ReportShape
  <2>2. InReports(x, reportQueue) \in Nat
    BY <1>0, InReportsNat
  <2>3. executed'[x] = executed[x] + Share(x, r) /\ Share(x, r) \in Nat /\ Share(x, s) = 0
    BY <2>1 DEF Share
  <2>4. executed[x] \in Nat
    BY <2>1
  <2>5. InReports(x, q) = InReports(x, reportQueue) + Share(x, r)
    BY <1>0, <1>q, InReportsAppend
  <2>6. InReports(x, p) = InReports(x, q) + Share(x, s)
    BY <1>q, <1>t, InReportsAppend
  <2>7. InReports(x, reportQueue)' = InReports(x, p)
    BY <1>3 DEF InReports
  <2>. QED
    BY <2>2, <2>3, <2>4, <2>5, <2>6, <2>7
<1>. QED
  BY <1>1, <1>2, <1>4, <1>5, <1>6, <1>7, <1>8 DEF Tells

LEMMA Visited ==
  ASSUME IInv, Market, NEW v \in Venues, batch[v] > 0, NEW c \in OrderIds, c = Head(pendingQueue[v])
  PROVE  /\ OnBook(v, c) /\ BookEntry(v, c) /\ Booked(c) /\ ~Closing(c, reportQueue)
         /\ Tail(pendingQueue[v]) \in Seq(OrderIds) /\ Once(Tail(pendingQueue[v]))
         /\ \A x : In(x, Tail(pendingQueue[v])) => In(x, pendingQueue[v]) /\ x # c
<1>1. /\ pendingQueue[v] \in Seq(OrderIds) /\ pendingQueue[v] # << >>
      /\ Tail(pendingQueue[v]) \in Seq(OrderIds)
  <2>1. pendingQueue[v] \in Seq(OrderIds) /\ batch[v] \in Nat /\ batch[v] <= Len(pendingQueue[v])
    BY DEF IInv, VenueShapes
  <2>2. pendingQueue[v] # << >>
    BY <2>1
  <2>. QED
    BY <2>1, <2>2
<1>2. /\ \A x : In(x, pendingQueue[v]) <=> In(x, Tail(pendingQueue[v])) \/ x = c
      /\ Once(pendingQueue[v]) => Once(Tail(pendingQueue[v])) /\ ~In(c, Tail(pendingQueue[v]))
  BY <1>1, InTail
<1>3. Once(pendingQueue[v]) /\ OnBook(v, c) /\ BookEntry(v, c)
  BY <1>2 DEF Market, Books
<1>4. Booked(c) /\ ~Closing(c, reportQueue)
  BY <1>3 DEF Booked, Market, Reporting
<1>. QED
  BY <1>1, <1>2, <1>3, <1>4

\* The visit of child c, at the front of venue v's queue.
AtFront(v, c) == batch[v] > 0 /\ c = Head(pendingQueue[v]) /\ UNCHANGED <<orders, parentOf, sending>>

LEMMA LeaveTouches ==
  ASSUME IInv, Accounting, Market, NEW v \in Venues, NEW c \in OrderIds, AtFront(v, c), NEW n \in Nat,
         Leaves(v, c), Executes(c, n)
  PROVE  Touches(v, c, Absent, Tail(pendingQueue[v]))
<1>1. /\ BookEntry(v, c) /\ Once(Tail(pendingQueue[v]))
      /\ \A x : In(x, Tail(pendingQueue[v])) => In(x, pendingQueue[v]) /\ x # c
  BY Visited DEF AtFront
<1>2. \A x \in OrderIds : x # c => executed'[x] = executed[x]
  BY DEF Executes, Accounting, AccountShapes
<1>. QED
  BY <1>1, <1>2 DEF Touches, Leaves, AtFront, BookEntry

LEMMA StayTouches ==
  ASSUME IInv, Accounting, Market, NEW v \in Venues, NEW c \in OrderIds, AtFront(v, c), NEW n \in Nat,
         Stays(v, c, executed[c] + n), Executes(c, n), executed[c] + n < orders[c].quantity
  PROVE  \E e, q : e # Absent /\ Touches(v, c, e, q)
<1>1. /\ BookEntry(v, c) /\ Once(Tail(pendingQueue[v])) /\ Tail(pendingQueue[v]) \in Seq(OrderIds)
      /\ \A x : In(x, Tail(pendingQueue[v])) => In(x, pendingQueue[v]) /\ x # c
  BY Visited DEF AtFront
<1>2. \A x \in OrderIds : x # c => executed'[x] = executed[x]
  BY DEF Executes, Accounting, AccountShapes
<1>3. PICK m \in Nat : m = executed[c] + n
  BY DEF Accounting, AccountShapes
<1>4. executed'[c] = m
  BY <1>3 DEF Executes, Accounting, AccountShapes
<1>5. PICK e : e = [activeOrders[v][c] EXCEPT !.filled = m]
  OBVIOUS
<1>6. activeOrders[v][c] \in BookShape /\ activeOrders \in [Venues -> [OrderIds -> BookShape]]
  BY DEF IInv, VenueShapes
<1>7. e.quantity = orders[c].quantity /\ e.filled = m
  <2>1. e.quantity = activeOrders[v][c].quantity /\ e.filled = m
    BY <1>5, <1>6 DEF BookShape
  <2>. QED
    BY <1>1, <2>1 DEF BookEntry, Entry
<1>8. e # Absent
  <2>1. Absent.quantity = 0
    BY DEF Absent
  <2>2. orders[c].quantity > 0
    BY <1>1 DEF Market, Executions, BookEntry
  <2>3. orders[c] \in OrderShape
    BY DEF IInv, RouterShapes
  <2>4. orders[c].quantity \in Nat
    BY <2>3 DEF OrderShape
  <2>. QED
    BY <1>7, <2>1, <2>2, <2>4
<1>9. PICK q : q = Append(Tail(pendingQueue[v]), c)
  OBVIOUS
<1>10. Once(q) /\ \A x : In(x, q) <=> In(x, Tail(pendingQueue[v])) \/ x = c
  BY <1>1, <1>9, InAppended
<1>11. activeOrders' = [activeOrders EXCEPT ![v][c] = e]
  <2>1. activeOrders' = [activeOrders EXCEPT ![v][c].filled = m]
    BY <1>3 DEF Stays
  <2>. QED
    BY <1>5, <1>6, <2>1
<1>12. pendingQueue' = [pendingQueue EXCEPT ![v] = q]
  BY <1>9 DEF Stays
<1>13. Touches(v, c, e, q)
  BY <1>1, <1>2, <1>3, <1>4, <1>7, <1>8, <1>10, <1>11, <1>12 DEF Touches, AtFront, BookEntry
<1>. QED
  BY <1>8, <1>13

LEMMA OutcomeMarket ==
  ASSUME IInv, IInv', Accounting, Accounting', Market, lostReports' = << >>,
         NEW v \in Venues, NEW c \in OrderIds, AtFront(v, c), Outcome(v, c)
  PROVE  /\ Market'
         /\ \A x \in OrderIds : Busy(x)' => Busy(x)
         /\ \A x \in OrderIds : Busy(x) /\ InStep(x) => InStep(x)'
<1>1. BookEntry(v, c) /\ Booked(c) /\ ~Closing(c, reportQueue) /\ Reporting
  BY Visited DEF AtFront, Market
<1>2. /\ Entry(v, c).filled = executed[c] /\ Entry(v, c).quantity = orders[c].quantity
      /\ executed[c] < orders[c].quantity /\ executed[c] \in Nat /\ orders[c].quantity \in Nat
  <2>1. orders[c] \in OrderShape
    BY DEF IInv, RouterShapes
  <2>. QED
    BY <1>1, <2>1 DEF BookEntry, Accounting, AccountShapes, OrderShape
<1>u. sending' = sending /\ orders' = orders
  BY DEF AtFront
<1>x. \A n \in Nat : Executes(c, n) => executed'[c] = executed[c] + n
  BY DEF Executes, Accounting, AccountShapes
<1>3. ASSUME NEW r \in ReportShape, r.id = c, EndsUnfilled(v, c, r) PROVE Tells(c, Absent) /\ Executes(c, 0) /\ Leaves(v, c)
  <2>1. r.last = 0 /\ r.state \in {"Canceled", "Rejected"} /\ Notify(<<r>>) /\ Executes(c, 0) /\ Leaves(v, c)
    BY <1>3 DEF EndsUnfilled
  <2>2. reportQueue' = Append(reportQueue, r)
    BY <2>1, PushedOne
  <2>3. Truthful(r)'
    BY <1>2, <1>3, <1>u, <1>x, <2>1 DEF Truthful
  <2>4. Ends(r)
    BY <2>1 DEF Ends
  <2>5. executed' = [executed EXCEPT ![c] = @ + r.last]
    BY <2>1 DEF Executes
  <2>. QED
    BY <1>1, <1>3, <2>1, <2>2, <2>3, <2>4, <2>5, TellOne
<1>4. ASSUME NEW n \in Nat, NEW r \in ReportShape, r.id = c, EndsFilled(v, c, n, r)
      PROVE  Tells(c, Absent) /\ Executes(c, n) /\ Leaves(v, c) /\ executed[c] + n = orders[c].quantity
  <2>1. /\ r.last = n /\ n > 0 /\ r.state = "Filled" /\ Notify(<<r>>) /\ Executes(c, n) /\ Leaves(v, c)
        /\ executed[c] + n = orders[c].quantity
    BY <1>2, <1>4 DEF EndsFilled
  <2>2. reportQueue' = Append(reportQueue, r)
    BY <2>1, PushedOne
  <2>3. Truthful(r)'
    BY <1>2, <1>4, <1>u, <1>x, <2>1 DEF Truthful
  <2>4. Ends(r)
    BY <2>1 DEF Ends
  <2>5. executed' = [executed EXCEPT ![c] = @ + r.last]
    BY <2>1 DEF Executes
  <2>. QED
    BY <1>1, <1>4, <2>1, <2>2, <2>3, <2>4, <2>5, TellOne
<1>5. ASSUME NEW n \in Nat, NEW r \in ReportShape, NEW s \in ReportShape, r.id = c, s.id = c,
             EndsInPart(v, c, n, r, s)
      PROVE  Tells(c, Absent) /\ Executes(c, n) /\ Leaves(v, c) /\ executed[c] + n < orders[c].quantity
  <2>1. /\ r.last = n /\ r.state = "PartiallyFilled" /\ s.last = 0 /\ s.state = "Canceled"
        /\ Notify(<<r, s>>) /\ Executes(c, n) /\ Leaves(v, c) /\ executed[c] + n < orders[c].quantity
    BY <1>2, <1>5 DEF EndsInPart
  <2>2. reportQueue' = Append(Append(reportQueue, r), s)
    BY <2>1, PushedTwo
  <2>3. Truthful(r)' /\ Truthful(s)'
    BY <1>2, <1>5, <1>u, <1>x, <2>1 DEF Truthful
  <2>4. ~Ends(r) /\ Ends(s)
    BY <2>1 DEF Ends
  <2>5. executed' = [executed EXCEPT ![c] = @ + r.last]
    BY <2>1 DEF Executes
  <2>. QED
    BY <1>1, <1>5, <2>1, <2>2, <2>3, <2>4, <2>5, TellTwo
<1>6. ASSUME NEW n \in Nat, Tells(c, Absent), Executes(c, n), Leaves(v, c), executed[c] + n <= orders[c].quantity
      PROVE  /\ Market'
             /\ \A x \in OrderIds : Busy(x)' => Busy(x)
             /\ \A x \in OrderIds : Busy(x) /\ InStep(x) => InStep(x)'
  <2>1. Touches(v, c, Absent, Tail(pendingQueue[v]))
    BY <1>6, LeaveTouches
  <2>2. executed'[c] <= orders[c].quantity
    BY <1>6, <1>x
  <2>. QED
    BY <1>1, <1>6, <1>u, <2>1, <2>2, VisitMarket
<1>7. ASSUME NEW n \in Nat, Stays(v, c, executed[c] + n), Executes(c, n), executed[c] + n < orders[c].quantity,
             \A e : e # Absent => Tells(c, e)
      PROVE  /\ Market'
             /\ \A x \in OrderIds : Busy(x)' => Busy(x)
             /\ \A x \in OrderIds : Busy(x) /\ InStep(x) => InStep(x)'
  <2>1. PICK e, q : e # Absent /\ Touches(v, c, e, q)
    BY <1>7, StayTouches
  <2>2. Tells(c, e)
    BY <1>7, <2>1
  <2>3. executed'[c] <= orders[c].quantity
    BY <1>2, <1>7, <1>x
  <2>. QED
    BY <1>1, <1>u, <2>1, <2>2, <2>3, VisitMarket
<1>8. ASSUME NEW n \in Nat, NEW r \in ReportShape, r.id = c, StaysInPart(v, c, n, r)
      PROVE  /\ Stays(v, c, executed[c] + n) /\ Executes(c, n) /\ executed[c] + n < orders[c].quantity
             /\ \A e : e # Absent => Tells(c, e)
  <2>1. /\ r.last = n /\ r.state = "PartiallyFilled" /\ Notify(<<r>>) /\ Executes(c, n)
        /\ Stays(v, c, executed[c] + n) /\ executed[c] + n < orders[c].quantity
    BY <1>2, <1>8 DEF StaysInPart
  <2>2. reportQueue' = Append(reportQueue, r)
    BY <2>1, PushedOne
  <2>3. Truthful(r)'
    BY <2>1 DEF Truthful
  <2>4. ~Ends(r)
    BY <2>1 DEF Ends
  <2>5. executed' = [executed EXCEPT ![c] = @ + r.last]
    BY <2>1 DEF Executes
  <2>6. ASSUME NEW e, e # Absent PROVE Tells(c, e)
    BY <1>1, <1>8, <2>2, <2>3, <2>4, <2>5, <2>6, TellOne
  <2>. QED
    BY <2>1, <2>6
<1>9. ASSUME StaysMissed(v, c)
      PROVE  /\ Stays(v, c, executed[c] + 0) /\ Executes(c, 0)
             /\ \A e : e # Absent => Tells(c, e)
  <2>1. Stays(v, c, executed[c]) /\ Executes(c, 0) /\ Notify(<< >>)
    BY <1>2, <1>9 DEF StaysMissed
  <2>2. reportQueue' = reportQueue
    BY <2>1, AccountingFacts, NotifiedNone
  <2>3. \A x \in OrderIds : executed'[x] = executed[x]
    BY <2>1 DEF Executes, Accounting, AccountShapes
  <2>4. \A i \in 1 .. Len(reportQueue) : In(reportQueue[i], reportQueue)
    BY DEF In
  <2>5. \A x \in OrderIds : /\ About(x, reportQueue)' <=> About(x, reportQueue)
                            /\ Closing(x, reportQueue)' <=> Closing(x, reportQueue)
                            /\ InReports(x, reportQueue)' = InReports(x, reportQueue)
    BY <2>2 DEF About, Closing, InReports
  <2>6. InOrder(reportQueue)'
    BY <1>1, <2>2 DEF Reporting, InOrder
  <2>7. ASSUME NEW e, e # Absent PROVE Tells(c, e)
    BY <1>1, <2>2, <2>3, <2>4, <2>5, <2>6, <2>7 DEF Tells
  <2>8. executed[c] + 0 = executed[c]
    BY <1>2
  <2>. QED
    BY <2>1, <2>7, <2>8
<1>10. executed[c] + 0 = executed[c] /\ 0 \in Nat
  BY <1>2
<1>11. CASE \E r \in ReportShape : r.id = c /\ EndsUnfilled(v, c, r)
  BY <1>2, <1>3, <1>6, <1>10, <1>11
<1>12. CASE \E n \in Nat, r \in ReportShape : r.id = c /\ EndsFilled(v, c, n, r)
  BY <1>2, <1>4, <1>6, <1>12
<1>13. CASE \E n \in Nat, r, s \in ReportShape : r.id = c /\ s.id = c /\ EndsInPart(v, c, n, r, s)
  BY <1>2, <1>5, <1>6, <1>13
<1>14. CASE \E n \in Nat, r \in ReportShape : r.id = c /\ StaysInPart(v, c, n, r)
  BY <1>7, <1>8, <1>14
<1>15. CASE StaysMissed(v, c)
  BY <1>2, <1>7, <1>9, <1>10, <1>15
<1>. QED
  BY <1>11, <1>12, <1>13, <1>14, <1>15 DEF Outcome

-----------------------------------------------------------------------------
(* A child is tracked.                                                     *)

LEMMA HandMarket ==
  ASSUME IInv, Accounting, Market, NEW t \in Threads, NEW p \in OrderIds, NEW c \in OrderIds, NEW o \in OrderShape,
         NEW slice, Hands(t, p, c, o, slice), slice.quantity \in Nat, slice.quantity > 0
  PROVE  /\ Market'
         /\ \A x \in OrderIds : Busy(x)' => Busy(x) \/ x = c
         /\ ~Busy(c)
<1>m. Books /\ Departures /\ Executions /\ Reporting /\ OpenWhileBusy
  BY DEF Market
<1>u. /\ UNCHANGED <<activeOrders, pendingQueue, reportQueue, executed>>
      /\ ~Child(c) /\ p # INVALID_ORDER_ID /\ o.quantity = slice.quantity /\ o.state = "PendingNew"
  BY Ids DEF Hands
<1>1. /\ \A x \in OrderIds : orders'[x] = IF x = c THEN o ELSE orders[x]
      /\ \A x \in OrderIds : parentOf'[x] = IF x = c THEN p ELSE parentOf[x]
      /\ \A z \in Threads : sending'[z] = IF z = t THEN c ELSE sending[z]
  <2>1. orders \in [OrderIds -> OrderShape] /\ parentOf \in [OrderIds -> AnyId] /\ sending \in [Threads -> AnyId]
    BY DEF IInv, RouterShapes, ThreadShapes
  <2>. QED
    BY <2>1 DEF Hands
<1>2. \A x \in OrderIds : Child(x)' <=> Child(x) \/ x = c
  BY <1>u, <1>1 DEF Child
<1>3. ~Busy(c) /\ executed[c] = 0
  <2>1. ~Busy(c)
    BY <1>u, BusyChildren
  <2>. QED
    BY <1>u, <2>1 DEF Accounting, ChildrenTrade
<1>4. \A v \in Venues, x \in OrderIds : (OnBook(v, x)' <=> OnBook(v, x)) /\ (OnBook(v, x) => x # c)
  <2>1. \A v \in Venues, x \in OrderIds : OnBook(v, x)' <=> OnBook(v, x)
    BY <1>u DEF OnBook
  <2>2. \A v \in Venues : ~OnBook(v, c)
    BY <1>3 DEF Busy, Booked
  <2>. QED
    BY <2>1, <2>2
<1>5. \A x \in OrderIds : /\ Booked(x)' <=> Booked(x)
                          /\ About(x, reportQueue)' <=> About(x, reportQueue)
                          /\ Closing(x, reportQueue)' <=> Closing(x, reportQueue)
  BY <1>u, <1>4 DEF Booked, About, Closing
<1>6. \A x \in OrderIds : Sent(x)' => Sent(x) \/ x = c
  BY <1>1 DEF Sent
<1>7. \A x \in OrderIds : Busy(x)' => Busy(x) \/ x = c
  BY <1>5, <1>6 DEF Busy
<1>8. Books'
  <2>1. \A v \in Venues : Once(pendingQueue[v])' /\ \A x \in OrderIds : In(x, pendingQueue[v])' => OnBook(v, x)'
    BY <1>u, <1>4, <1>m DEF Books, Once, In
  <2>2. ASSUME NEW v \in Venues, NEW x \in OrderIds, OnBook(v, x)' PROVE BookEntry(v, x)'
    <3>1. BookEntry(v, x) /\ x # c
      BY <1>4, <1>m, <2>2 DEF Books
    <3>2. orders'[x] = orders[x] /\ parentOf'[x] = parentOf[x]
      BY <1>1, <3>1
    <3>. QED
      BY <1>u, <3>1, <3>2 DEF BookEntry, Entry, Child
  <2>. QED
    BY <2>1, <2>2 DEF Books
<1>9. Departures'
  <2>0. \A z \in Threads : sending[z] \in OrderIds => sending[z] # c
    BY <1>3 DEF Busy, Sent
  <2>1. ASSUME NEW x \in OrderIds, x = c \/ Departing(x) PROVE Departing(x)'
    <3>1. CASE x = c
      BY <1>u, <1>2, <1>3, <1>5, <3>1 DEF Departing, Busy
    <3>2. CASE Departing(x)
      BY <1>u, <1>2, <1>5, <3>2 DEF Departing
    <3>. QED
      BY <2>1, <3>1, <3>2
  <2>2. ASSUME NEW z \in Threads, sending'[z] \in OrderIds PROVE Departing(sending[z])'
    <3>1. PICK x \in OrderIds : x = sending'[z]
      BY <2>2
    <3>2. x = c \/ Departing(x)
      BY <1>1, <1>m, <3>1 DEF Departures
    <3>3. Departing(x)'
      BY <2>1, <3>2
    <3>. QED
      BY <3>1, <3>3 DEF Departing, Child, Booked, OnBook, About
  <2>3. sending'["order"] \in OrderIds => sending'["order"] # sending'["exec"]
    <3>1. "order" \in Threads /\ "exec" \in Threads /\ (t = "order" \/ t = "exec")
      BY DEF Threads
    <3>. QED
      BY <1>1, <1>m, <2>0, <3>1 DEF Departures
  <2>. QED
    BY <2>2, <2>3 DEF Departures
<1>10. Executions'
  <2>1. ASSUME NEW x \in OrderIds, Child(x)' PROVE orders'[x].quantity > 0 /\ executed'[x] <= orders'[x].quantity
    <3>1. CASE x = c
      BY <1>u, <1>1, <1>3, <3>1
    <3>2. CASE x # c
      BY <1>u, <1>1, <1>2, <1>m, <2>1, <3>2 DEF Executions
    <3>. QED
      BY <3>1, <3>2
  <2>. QED
    BY <2>1 DEF Executions
<1>11. Reporting'
  <2>1. InOrder(reportQueue)'
    BY <1>u, <1>m DEF Reporting, InOrder
  <2>2. ASSUME NEW i \in 1 .. Len(reportQueue) PROVE Truthful(reportQueue[i])'
    <3>1. Truthful(reportQueue[i]) /\ reportQueue[i].id \in OrderIds /\ Child(reportQueue[i].id)
      BY <1>m, ReportsOfChildren DEF Reporting
    <3>2. orders'[reportQueue[i].id] = orders[reportQueue[i].id]
      BY <1>1, <1>u, <3>1
    <3>. QED
      BY <1>u, <3>1, <3>2 DEF Truthful
  <2>. QED
    BY <1>u, <1>5, <1>m, <2>1, <2>2 DEF Reporting
<1>12. OpenWhileBusy'
  <2>1. ASSUME NEW x \in OrderIds, Busy(x)' PROVE ~IsTerminal(orders'[x].state)
    <3>1. CASE x = c
      BY <1>u, <1>1, <3>1 DEF IsTerminal
    <3>2. CASE x # c
      BY <1>1, <1>7, <1>m, <2>1, <3>2 DEF OpenWhileBusy
    <3>. QED
      BY <3>1, <3>2
  <2>. QED
    BY <2>1 DEF OpenWhileBusy
<1>. QED
  BY <1>3, <1>7, <1>8, <1>9, <1>10, <1>11, <1>12 DEF Market

-----------------------------------------------------------------------------
(* A report is handled.                                                    *)

(* The events of the state machine that end an order. *)
LEMMA EndingEvents ==
  ASSUME NEW s \in OrderStates, ~IsTerminal(s), NEW e, e \in {"Acknowledge", "PartialFill", "RequestCancel"}
  PROVE  ~IsTerminal(Apply(s, e))
<1>0. \A t \in Transitions : t[2] \in {"Acknowledge", "PartialFill", "RequestCancel"} => ~IsTerminal(t[3])
  BY DEF Transitions, IsTerminal
<1>1. CASE ValidTransition(s, e)
  <2>1. \E t \in Transitions : t[1] = s /\ t[2] = e
    BY <1>1 DEF ValidTransition
  <2> DEFINE c == CHOOSE t \in Transitions : t[1] = s /\ t[2] = e
  <2>2. c \in Transitions /\ c[2] = e
    BY <2>1
  <2>3. Apply(s, e) = c[3]
    BY <1>1 DEF Apply
  <2> HIDE DEF c
  <2>. QED
    BY <2>2, <2>3, <1>0
<1>2. CASE ~ValidTransition(s, e)
  BY <1>2 DEF Apply
<1>. QED
  BY <1>1, <1>2

LEMMA EndingReport ==
  ASSUME NEW order \in OrderShape, order.state # "Untracked", NEW r \in ReportShape, ~IsTerminal(order.state),
         IsTerminal(AfterReport(order, r).state)
  PROVE  Ends(r)
<1> SUFFICES ASSUME ~Ends(r) PROVE FALSE
  OBVIOUS
<1>1. r.state \in {"Accepted", "PartiallyFilled"}
  BY DEF Ends, ReportShape
<1>2. EventOf(r.state) \in {"Acknowledge", "PartialFill"}
  <2>1. CASE r.state = "Accepted"
    BY <2>1 DEF EventOf
  <2>2. CASE r.state = "PartiallyFilled"
    BY <2>2 DEF EventOf
  <2>. QED
    BY <1>1, <2>1, <2>2
<1>3. order.state \in OrderStates
  BY DEF OrderShape
<1>4. AfterReport(order, r).state = Apply(order.state, EventOf(r.state))
  <2>1. PICK s, n, m : /\ AfterReport(order, r) = [order EXCEPT !.state = s, !.filled = n, !.remaining = m]
                       /\ s = Apply(order.state, EventOf(r.state))
    <3>1. r.state # "Canceled"
      BY <1>1
    <3>. QED
      BY <3>1 DEF AfterReport
  <2>. QED
    BY <2>1 DEF OrderShape
<1>. QED
  BY <1>2, <1>3, <1>4, EndingEvents

(* What the pop of the report r does to the reports about x. *)
LEMMA PoppedAbout ==
  ASSUME IInv, reportQueue # << >>, NEW r, r = Head(reportQueue), reportQueue' = Tail(reportQueue)
  PROVE  /\ \A x : About(x, reportQueue) <=> About(x, reportQueue)' \/ x = r.id
         /\ \A x : Closing(x, reportQueue) <=> Closing(x, reportQueue)' \/ (x = r.id /\ Ends(r))
         /\ InOrder(reportQueue) => InOrder(reportQueue)' /\ (Ends(r) => ~About(r.id, reportQueue)')
         /\ \A i \in 1 .. Len(reportQueue') : In(reportQueue'[i], reportQueue)
         /\ In(r, reportQueue)
         /\ \A x : InReports(x, reportQueue) = Share(x, r) + InReports(x, reportQueue)'
<1>1. reportQueue \in Seq(ReportShape)
  BY ReportsOfChildren
<1>2. PICK q : q = Tail(reportQueue)
  OBVIOUS
<1>3. /\ \A x : About(x, reportQueue) <=> About(x, q) \/ x = r.id
      /\ \A x : Closing(x, reportQueue) <=> Closing(x, q) \/ (x = r.id /\ Ends(r))
      /\ InOrder(reportQueue) => InOrder(q) /\ (Ends(r) => ~About(r.id, q))
      /\ \A x : In(x, reportQueue) <=> In(x, q) \/ x = r
  BY <1>1, <1>2, ReportsTail
<1>4. reportQueue' = q
  BY <1>2
<1>5. \A x : InReports(x, reportQueue) = Share(x, r) + InReports(x, q)
  BY <1>1, <1>2, InReportsTail
<1>6. \A i \in 1 .. Len(q) : In(q[i], q)
  BY DEF In
<1>7. \A x : About(x, reportQueue)' <=> About(x, q)
  BY <1>4 DEF About
<1>8. \A x : Closing(x, reportQueue)' <=> Closing(x, q)
  BY <1>4 DEF Closing
<1>9. InOrder(reportQueue)' <=> InOrder(q)
  BY <1>4 DEF InOrder
<1>10. \A x : InReports(x, reportQueue)' = InReports(x, q)
  BY <1>4 DEF InReports
<1>11. \A i \in 1 .. Len(q) : In(q[i], reportQueue)
  BY <1>3, <1>6
<1>. QED
  BY <1>3, <1>4, <1>5, <1>7, <1>8, <1>9, <1>10, <1>11

LEMMA HandleMarket ==
  ASSUME IInv, Accounting, Market, NEW r, NEW c \in OrderIds, NEW p \in OrderIds, Handles(r, c, p)
  PROVE  /\ Market'
         /\ \A x \in OrderIds : Busy(x)' => Busy(x)
         /\ Busy(c) /\ Truthful(r)
         /\ Ends(r) => ~Busy(c)'
         /\ IsTerminal(orders'[c].state) => Ends(r)
         /\ orders'[c].quantity = orders[c].quantity /\ orders'[c].strategy = orders[c].strategy
<1>m. Books /\ Departures /\ Executions /\ Reporting /\ OpenWhileBusy
  BY DEF Market
<1>u. /\ UNCHANGED <<activeOrders, pendingQueue, executed, parentOf, sending>>
      /\ r \in ReportShape /\ c = r.id /\ Child(c) /\ p = parentOf[c] /\ ~Child(p) /\ Tracked(c)
      /\ reportQueue # << >> /\ r = Head(reportQueue) /\ reportQueue' = Tail(reportQueue)
      /\ orders'[c] = AfterReport(orders[c], r)
  BY DEF Handles
<1>a. /\ \A x : About(x, reportQueue) <=> About(x, reportQueue)' \/ x = c
      /\ \A x : Closing(x, reportQueue) <=> Closing(x, reportQueue)' \/ (x = c /\ Ends(r))
      /\ InOrder(reportQueue) => InOrder(reportQueue)' /\ (Ends(r) => ~About(c, reportQueue)')
      /\ \A i \in 1 .. Len(reportQueue') : In(reportQueue'[i], reportQueue)
      /\ In(r, reportQueue)
  BY <1>u, PoppedAbout
<1>o. orders[c] \in OrderShape /\ orders[c].state # "Untracked"
  BY <1>u DEF IInv, RouterShapes, Tracked
<1>f. /\ orders'[c].quantity = orders[c].quantity /\ orders'[c].strategy = orders[c].strategy
      /\ orders'[c].venue = orders[c].venue
  BY <1>u, <1>o, ReportedFields, ReportedOrder
<1>c. \A x \in OrderIds : Child(x)' <=> Child(x)
  BY <1>u DEF Child
<1>1. \A x \in OrderIds : Child(x) => /\ orders'[x].quantity = orders[x].quantity
                                      /\ orders'[x].venue = orders[x].venue
                                      /\ x # c => orders'[x] = orders[x]
  <2>1. \A x \in OrderIds : Child(x) /\ x # c => orders'[x] = orders[x]
    BY <1>u DEF Handles
  <2>. QED
    BY <2>1, <1>f
<1>2. \A v \in Venues, x \in OrderIds : OnBook(v, x)' <=> OnBook(v, x)
  BY <1>u DEF OnBook
<1>3. \A x \in OrderIds : (Booked(x)' <=> Booked(x)) /\ (Sent(x)' <=> Sent(x))
  BY <1>u, <1>2 DEF Booked, Sent
<1>4. \A x \in OrderIds : Busy(x)' => Busy(x)
  BY <1>a, <1>3 DEF Busy
<1>5. Busy(c) /\ Truthful(r)
  <2>1. Truthful(r)
    BY <1>a, <1>m DEF In, Reporting
  <2>. QED
    BY <1>a, <2>1 DEF Busy
<1>6. Ends(r) => ~Busy(c)'
  <2>1. ~Sent(c)
    BY <1>a, <1>m DEF Sent, Departures, Departing
  <2>2. Ends(r) => ~Booked(c)
    BY <1>a, <1>m DEF Reporting
  <2>. QED
    BY <1>a, <1>m, <1>3, <2>1, <2>2 DEF Busy, Reporting
<1>7. IsTerminal(orders'[c].state) => Ends(r)
  <2>1. ~IsTerminal(orders[c].state)
    BY <1>5, <1>m DEF OpenWhileBusy
  <2>. QED
    BY <1>u, <1>o, <2>1, EndingReport
<1>8. Books'
  <2>1. \A v \in Venues : Once(pendingQueue[v])' /\ \A x \in OrderIds : In(x, pendingQueue[v])' => OnBook(v, x)'
    BY <1>u, <1>2, <1>m DEF Books, Once, In
  <2>2. ASSUME NEW v \in Venues, NEW x \in OrderIds, OnBook(v, x)' PROVE BookEntry(v, x)'
    <3>1. BookEntry(v, x)
      BY <1>2, <1>m, <2>2 DEF Books
    <3>2. orders'[x].quantity = orders[x].quantity /\ orders'[x].venue = orders[x].venue
      BY <1>1, <3>1 DEF BookEntry
    <3>. QED
      BY <1>u, <1>c, <3>1, <3>2 DEF BookEntry, Entry
  <2>. QED
    BY <2>1, <2>2 DEF Books
<1>9. Departures'
  <2>1. \A x \in OrderIds : Departing(x) => Departing(x)'
    BY <1>u, <1>a, <1>c, <1>3 DEF Departing
  <2>. QED
    BY <1>u, <1>m, <2>1 DEF Departures
<1>10. Executions'
  BY <1>u, <1>1, <1>c, <1>m DEF Executions
<1>11. Reporting'
  <2>1. InOrder(reportQueue)'
    BY <1>a, <1>m DEF Reporting
  <2>2. ASSUME NEW i \in 1 .. Len(reportQueue') PROVE Truthful(reportQueue[i])'
    <3>0. PICK s : s = reportQueue'[i]
      OBVIOUS
    <3>1. In(s, reportQueue)
      BY <1>a, <3>0
    <3>2. s.id \in OrderIds /\ Child(s.id)
      BY <3>1, ReportsOfChildren DEF In
    <3>3. Truthful(s)'
      BY <1>u, <1>1, <1>m, <3>1, <3>2, TrueStill
    <3>. QED
      BY <3>0, <3>3 DEF Truthful
  <2>3. \A x \in OrderIds : Closing(x, reportQueue)' => ~Booked(x)'
    BY <1>a, <1>3, <1>m DEF Reporting
  <2>4. \A x \in OrderIds : About(x, reportQueue)' => Booked(x)' \/ Closing(x, reportQueue)'
    BY <1>a, <1>3, <1>m DEF Reporting
  <2>. QED
    BY <2>1, <2>2, <2>3, <2>4 DEF Reporting
<1>12. OpenWhileBusy'
  <2>1. ASSUME NEW x \in OrderIds, Busy(x)' PROVE ~IsTerminal(orders'[x].state)
    <3>1. CASE x = c
      BY <1>6, <1>7, <2>1, <3>1
    <3>2. CASE x # c
      <4>1. Busy(x) /\ Child(x)
        BY <1>4, <2>1, BusyChildren
      <4>2. orders'[x] = orders[x]
        BY <1>1, <3>2, <4>1
      <4>. QED
        BY <1>m, <4>1, <4>2 DEF OpenWhileBusy
    <3>. QED
      BY <3>1, <3>2
  <2>. QED
    BY <2>1 DEF OpenWhileBusy
<1>. QED
  BY <1>f, <1>4, <1>5, <1>6, <1>7, <1>8, <1>9, <1>10, <1>11, <1>12 DEF Market

-----------------------------------------------------------------------------
(* The rounds under the steps of the venues, which bring no new child.      *)

LEMMA DeliverRounds ==
  ASSUME IInv, Accounting, Market, Rounds, lostReports' = << >>,
         NEW t \in Threads, NEW c \in OrderIds, NEW v \in Venues, Delivers(t, c, v)
  PROVE  Market' /\ Rounds'
<1>1. /\ Market'
      /\ \A x \in OrderIds : Busy(x)' => Busy(x)
      /\ \A x \in OrderIds : InStep(x) => InStep(x)'
  BY DeliverMarket
<1>2. slices[t] = << >> /\ pc[t] = "send"
  BY DEF Delivers, Rounds, Slices
<1>3. PICK to : to = Drain(t)
  OBVIOUS
<1>4. pc' = [pc EXCEPT ![t] = to] /\ to \notin {"admit", "route", "slice"}
  BY <1>2, <1>3 DEF Delivers, Drain
<1>5. \A z \in Threads : \/ pc'[z] = pc[z]
                         \/ pc[z] # "slice" /\ pc'[z] \notin {"admit", "route", "slice"}
  BY <1>2, <1>4, Elsewhere
<1>6. UNCHANGED <<orders, parentOf, carried, clientQty, orderQueue, job, slices, completed, deferred>>
  BY DEF Delivers
<1>7. \A x \in OrderIds : Busy(x)' => Busy(x) /\ InStep(x)'
  BY <1>1 DEF Rounds
<1>8. Resumes
  BY <1>5, <1>6, <1>7 DEF Resumes
<1>. QED
  BY <1>1, <1>8, RoundsStill

LEMMA VenueRounds ==
  ASSUME IInv, IInv', Accounting, Accounting', Market, Rounds, lostReports' = << >>, NEW v \in Venues, VenueStep(v)
  PROVE  Market' /\ Rounds'
<1>1. /\ UNCHANGED <<handlerVars, riskVars, gatewayVars, threadVars, connected>>
      /\ \/ UNCHANGED <<activeOrders, pendingQueue, reportQueue, lostReports, executed>>
         \/ \E id \in OrderIds : batch[v] > 0 /\ id = Head(pendingQueue[v]) /\ Outcome(v, id)
  BY Outcomes DEF Accounting, AccountShapes
<1>2. UNCHANGED <<orders, parentOf, carried, clientQty, orderQueue, job, slices, completed, deferred, sending, pc>>
  BY <1>1 DEF handlerVars, gatewayVars, threadVars
<1>3. CASE UNCHANGED <<activeOrders, pendingQueue, reportQueue, lostReports, executed>>
  <2>1. Idles
    BY <1>2, <1>3, SameBooks DEF Idles
  <2>. QED
    BY <2>1, IdleRounds
<1>4. CASE \E id \in OrderIds : batch[v] > 0 /\ id = Head(pendingQueue[v]) /\ Outcome(v, id)
  <2>1. PICK c \in OrderIds : batch[v] > 0 /\ c = Head(pendingQueue[v]) /\ Outcome(v, c)
    BY <1>4
  <2>2. AtFront(v, c)
    BY <1>2, <2>1 DEF AtFront
  <2>3. /\ Market'
        /\ \A x \in OrderIds : Busy(x)' => Busy(x)
        /\ \A x \in OrderIds : Busy(x) /\ InStep(x) => InStep(x)'
    BY <2>1, <2>2, OutcomeMarket
  <2>4. \A x \in OrderIds : Busy(x)' => Busy(x) /\ InStep(x)'
    BY <2>3 DEF Rounds
  <2>5. Resumes
    BY <1>2, <2>4 DEF Resumes
  <2>. QED
    BY <2>3, <2>5, RoundsStill
<1>. QED
  BY <1>1, <1>3, <1>4

-----------------------------------------------------------------------------
(* The rounds under the steps that leave the market alone.                 *)

LEMMA FamilyStill ==
  ASSUME IInv, Market, SameMarket
  PROVE  /\ \A p : Childless(p)' <=> Childless(p)
         /\ \A p : Calm(p)' <=> Calm(p)
         /\ \A p : Returned(p)' <=> Returned(p)
         /\ OneAtATime => OneAtATime'
         /\ \A c \in OrderIds : (Busy(c)' <=> Busy(c)) /\ (Child(c)' <=> Child(c))
<1>1. \A c \in OrderIds : Busy(c)' <=> Busy(c)
  BY MarketStill
<1>2. parentOf' = parentOf
  BY DEF SameMarket
<1>3. \A p : (Childless(p)' <=> Childless(p)) /\ (Calm(p)' <=> Calm(p))
  BY <1>1, <1>2 DEF Childless, Calm
<1>4. OneAtATime => OneAtATime'
  BY <1>1, <1>2 DEF OneAtATime
<1>5. \A c \in OrderIds : Child(c)' <=> Child(c)
  BY <1>2 DEF Child
<1>. QED
  BY <1>1, <1>3, <1>4, <1>5 DEF Returned

(* A new order is nobody's parent yet. *)
LEMMA NoChildrenYet ==
  ASSUME IInv, NEW p \in OrderIds, ~Tracked(p)
  PROVE  Childless(p)
  BY Ids DEF IInv, Family, Childless, Child

LEMMA SubmitRounds ==
  ASSUME IInv, Accounting, Market, Rounds, Strategies \subseteq {"BestPrice"},
         NEW side \in SideChoices, NEW quantity \in Quantities, NEW tif \in TifChoices,
         NEW strategy \in Strategies, SubmitOrder(side, quantity, tif, strategy)
  PROVE  Market' /\ Rounds'
<1>1. UNCHANGED <<executed, carried, lostReports, reportQueue, parentOf, orders, deferred, completed,
                  job, pc, slices, sending, activeOrders, pendingQueue>>
  BY DEF SubmitOrder, exchangeVars, handlerVars, riskVars, threadVars
<1>2. PICK j : j = [id |-> nextId, order |-> MakeOrder("New", side, quantity, tif, strategy, INVALID_ORDER_ID)]
  OBVIOUS
<1>3. /\ nextId \in OrderIds /\ orderQueue' = Append(orderQueue, j)
      /\ clientQty' = [clientQty EXCEPT ![nextId] = quantity]
  BY <1>2 DEF SubmitOrder
<1>4. j.id = nextId /\ j.order.quantity = quantity /\ j.order.strategy = "BestPrice"
  BY <1>2 DEF MakeOrder
<1>5. quantity \in Nat /\ quantity > 0
  BY GatewayAssumption
<1>6. \A x \in OrderIds : clientQty'[x] = IF x = nextId THEN quantity ELSE clientQty[x]
  BY <1>3 DEF Accounting, AccountShapes
<1>7. SameMarket
  BY <1>1, SameBooks DEF SameMarket
<1>8. Market'
  BY <1>7, MarketStill
<1>f. /\ \A p : Childless(p)' <=> Childless(p)
      /\ \A p : Calm(p)' <=> Calm(p)
      /\ \A p : Returned(p)' <=> Returned(p)
      /\ OneAtATime => OneAtATime'
      /\ \A c \in OrderIds : (Busy(c)' <=> Busy(c)) /\ (Child(c)' <=> Child(c))
  BY <1>7, FamilyStill
<1>q. \A i \in 1 .. Len(orderQueue') : orderQueue'[i] = j \/ (i \in 1 .. Len(orderQueue) /\ orderQueue'[i] = orderQueue[i])
  <2>1. orderQueue \in Seq([id : OrderIds, order : OrderShape])
    BY DEF IInv, RouterShapes
  <2>. QED
    BY <1>3, <2>1
<1>w. /\ \A i \in 1 .. Len(orderQueue) : orderQueue[i].id \in OrderIds /\ orderQueue[i].id # nextId
      /\ pc["order"] = "admit" => job["order"].id \in OrderIds /\ job["order"].id # nextId
  <2>1. nextId \in Nat
    BY DEF IInv, RouterShapes
  <2>2. \A x : Waiting(x) => x.id \in OrderIds /\ x.id # nextId
    BY <2>1 DEF Waiting
  <2>. QED
    BY <2>2 DEF IInv, WaitingOrders
<1>9. OneStrategy'
  <2>1. \A i \in 1 .. Len(orderQueue') : orderQueue'[i].order.strategy = "BestPrice"
    BY <1>4, <1>q DEF Rounds, OneStrategy
  <2>. QED
    BY <1>1, <2>1 DEF Rounds, OneStrategy
<1>10. FirstRound' /\ NextRound' /\ OneAtATime'
  <2>1. \A t \in Threads : Prepares(t)' <=> Prepares(t)
    BY <1>1 DEF Prepares
  <2>2. "order" \in Threads /\ "exec" \in Threads
    BY DEF Threads
  <2>. QED
    BY <1>1, <1>f, <2>1, <2>2 DEF Rounds, FirstRound, NextRound
<1>11. (\A c \in OrderIds : Busy(c) => InStep(c))'
  BY <1>1, <1>7, StepKept
<1>12. (\A p \in OrderIds : ~Child(p) => Sized(p))'
  <2>1. ASSUME NEW p \in OrderIds, ~Child(p) PROVE Sized(p)'
    <3>1. Sized(p)
      BY <2>1 DEF Rounds
    <3>2. Tracked(p) => p # nextId
      <4>1. nextId \in Nat
        BY DEF IInv, RouterShapes
      <4>. QED
        BY <1>3, <4>1 DEF IInv, Family
    <3>. QED
      BY <1>1, <1>6, <3>1, <3>2 DEF Sized, Tracked
  <2>. QED
    BY <1>f, <2>1
<1>13. NewOrders'
  <2>1. ASSUME NEW x, x.id \in OrderIds, x.id # nextId, NewEntry(x) PROVE NewEntry(x)'
    BY <1>6, <2>1 DEF NewEntry
  <2>2. NewEntry(j)'
    BY <1>3, <1>4, <1>5, <1>6 DEF NewEntry
  <2>3. ASSUME NEW i \in 1 .. Len(orderQueue') PROVE NewEntry(orderQueue[i])'
    <3>1. PICK x : x = orderQueue'[i]
      OBVIOUS
    <3>2. NewEntry(x)'
      <4>1. CASE x = j
        BY <2>2, <4>1 DEF NewEntry
      <4>2. CASE i \in 1 .. Len(orderQueue) /\ x = orderQueue[i]
        BY <1>w, <2>1, <4>2 DEF Rounds, NewOrders
      <4>. QED
        BY <1>q, <3>1, <4>1, <4>2
    <3>. QED
      BY <3>1, <3>2 DEF NewEntry
  <2>4. pc'["order"] = "admit" => NewEntry(job["order"])'
    <3>1. pc["order"] = "admit" => NewEntry(job["order"])
      BY DEF Rounds, NewOrders
    <3>. QED
      BY <1>1, <1>6, <1>w, <3>1 DEF NewEntry
  <2>. QED
    BY <2>3, <2>4 DEF NewOrders
<1>14. JobSizes' /\ Slices'
  <2>1. \A t \in Threads : Routed(t)' <=> Routed(t)
    BY <1>1 DEF Routed
  <2>2. \A p : Rest(p)' = Rest(p)
    BY <1>1 DEF Rest
  <2>. QED
    BY <1>1, <2>1, <2>2 DEF Rounds, JobSizes, Slices
<1>15. Completions'
  <2>1. \A p : (Done(p)' <=> Done(p)) /\ (Completes(p)' <=> Completes(p))
    BY <1>1, <1>f DEF Done, Completes
  <2>. QED
    BY <1>1, <1>f, <2>1 DEF Rounds, Completions
<1>. QED
  BY <1>8, <1>f, <1>9, <1>10, <1>11, <1>12, <1>13, <1>14, <1>15 DEF Rounds

(* A thread goes on to the next step of its order; the other stays where it is. *)
LEMMA StepsOn ==
  ASSUME IInv, NEW t \in Threads, NEW to, pc' = [pc EXCEPT ![t] = to]
  PROVE  /\ pc'[t] = to
         /\ \A z \in Threads : z # t => pc'[z] = pc[z]
<1>1. pc = [z \in Threads |-> pc[z]]
  BY DEF IInv, ThreadShapes
<1>. QED
  BY <1>1

LEMMA TakeRounds ==
  ASSUME IInv, Accounting, Market, Rounds, PopOrder, orderQueue # << >>
  PROVE  Market' /\ Rounds'
<1>1. UNCHANGED <<executed, carried, lostReports, reportQueue, parentOf, orders, deferred, completed, clientQty,
                  slices, sending, activeOrders, pendingQueue>>
  BY DEF PopOrder, exchangeVars, handlerVars
<1>t. "order" \in Threads /\ "exec" \in Threads /\ \A z \in Threads : z = "order" \/ z = "exec"
  BY DEF Threads
<1>2. PICK j, rest : j = Head(orderQueue) /\ rest = Tail(orderQueue)
  OBVIOUS
<1>3. /\ job' = [job EXCEPT !["order"] = j] /\ orderQueue' = rest
      /\ pc["order"] = "orders" /\ pc' = [pc EXCEPT !["order"] = "admit"]
  BY <1>2 DEF PopOrder, GoTo
<1>4. pc'["order"] = "admit" /\ pc'["exec"] = pc["exec"]
  BY <1>3, <1>t, StepsOn
<1>5. job'["order"] = j /\ job'["exec"] = job["exec"]
  BY <1>3, <1>t DEF IInv, ThreadShapes
<1>6. /\ \A i \in 1 .. Len(rest) : rest[i] = orderQueue[i + 1] /\ i + 1 \in 1 .. Len(orderQueue)
      /\ j = orderQueue[1] /\ 1 \in 1 .. Len(orderQueue)
  <2>1. orderQueue \in Seq([id : OrderIds, order : OrderShape])
    BY DEF IInv, RouterShapes
  <2>. QED
    BY <1>2, <2>1
<1>7. SameMarket
  BY <1>1, SameBooks DEF SameMarket
<1>8. Market'
  BY <1>7, MarketStill
<1>f. /\ \A p : Childless(p)' <=> Childless(p)
      /\ \A p : Calm(p)' <=> Calm(p)
      /\ \A p : Returned(p)' <=> Returned(p)
      /\ OneAtATime => OneAtATime'
      /\ \A c \in OrderIds : (Busy(c)' <=> Busy(c)) /\ (Child(c)' <=> Child(c))
  BY <1>7, FamilyStill
<1>9. OneStrategy'
  <2>1. OneStrategy
    BY DEF Rounds
  <2>2. \A i \in 1 .. Len(rest) : rest[i].order.strategy = "BestPrice"
    BY <1>6, <2>1 DEF OneStrategy
  <2>3. j.order.strategy = "BestPrice"
    BY <1>6, <2>1 DEF OneStrategy
  <2>4. \A t \in Threads : job'[t].order.strategy = "BestPrice"
    BY <1>t, <1>5, <2>1, <2>3 DEF OneStrategy
  <2>. QED
    BY <1>1, <1>3, <2>1, <2>2, <2>4 DEF OneStrategy
<1>10. FirstRound'
  <2>1. j.id \in OrderIds /\ ~Tracked(j.id)
    BY <1>6 DEF IInv, WaitingOrders, Waiting
  <2>2. Childless(j.id)
    BY <2>1, NoChildrenYet
  <2>3. Childless(j.id)'
    BY <1>f, <2>2
  <2>. QED
    BY <1>1, <1>5, <2>3 DEF FirstRound, Childless
<1>11. NextRound' /\ OneAtATime'
  <2>1. Prepares("exec")' <=> Prepares("exec")
    BY <1>4 DEF Prepares
  <2>. QED
    BY <1>1, <1>5, <1>f, <2>1 DEF Rounds, NextRound
<1>12. (\A c \in OrderIds : Busy(c) => InStep(c))'
  BY <1>1, <1>7, StepKept
<1>13. (\A p \in OrderIds : ~Child(p) => Sized(p))'
  BY <1>1, <1>f DEF Rounds, Sized, Tracked
<1>14. NewOrders'
  <2>1. \A i \in 1 .. Len(orderQueue) : NewEntry(orderQueue[i])
    BY DEF Rounds, NewOrders
  <2>2. \A i \in 1 .. Len(rest) : NewEntry(rest[i])
    BY <1>6, <2>1
  <2>3. NewEntry(j)
    BY <1>6, <2>1
  <2>. QED
    BY <1>1, <1>3, <1>5, <2>2, <2>3 DEF NewOrders, NewEntry
<1>15. JobSizes'
  <2>1. Routed("exec")' <=> Routed("exec")
    BY <1>1, <1>5 DEF Routed
  <2>2. \A p : Rest(p)' = Rest(p)
    BY <1>1 DEF Rest
  <2>3. \A t \in Threads : pc'[t] \in {"route", "slice"} => t = "exec"
    BY <1>t, <1>4
  <2>4. \A t \in Threads : pc'[t] \in {"route", "slice"} => Routed(t)'
    BY <1>4, <1>t, <2>1, <2>3 DEF Rounds, JobSizes
  <2>. QED
    BY <1>1, <1>4, <1>5, <2>2, <2>4 DEF Rounds, JobSizes
<1>16. Slices'
  <2>1. ASSUME NEW t \in Threads
        PROVE  /\ pc'[t] = "slice" => Len(slices'[t]) = 1 /\ slices'[t][1].quantity = job'[t].order.quantity
               /\ pc'[t] # "slice" => slices'[t] = << >>
    <3>1. CASE t = "order"
      BY <1>1, <1>3, <1>4, <1>t, <3>1 DEF Rounds, Slices
    <3>2. CASE t = "exec"
      BY <1>1, <1>4, <1>5, <1>t, <3>2 DEF Rounds, Slices
    <3>. QED
      BY <1>t, <3>1, <3>2
  <2>. QED
    BY <2>1 DEF Slices
<1>17. Completions'
  <2>1. \A p : (Done(p)' <=> Done(p)) /\ (Completes(p)' <=> Completes(p))
    BY <1>1, <1>f DEF Done, Completes
  <2>. QED
    BY <1>1, <1>f, <2>1 DEF Rounds, Completions
<1>. QED
  BY <1>8, <1>9, <1>10, <1>11, <1>12, <1>13, <1>14, <1>15, <1>16, <1>17 DEF Rounds

\* The engine of thread t decides on d.
Decides(t, d) ==
    /\ d \in Decisions(job[t].order)
    /\ TRUE \in CheckOrder(job[t].order.side, job[t].order.quantity)
    /\ pc[t] = "route" /\ pc' = [pc EXCEPT ![t] = "slice"]
    /\ slices' = [slices EXCEPT ![t] = d]
    /\ UNCHANGED <<activeOrders, pendingQueue, batch, connected, reportQueue, lostReports, executed,
                   orders, childrenOf, parentOf, position, nextId, orderQueue, cancelQueue, fills, clientQty,
                   carried, rejected, completed, canceled, job, sending, cancelList, deferred>>

LEMMA RouteEffect ==
  ASSUME NEW t \in Threads, Route(t)
  PROVE  GivesUp(t) \/ \E d : Decides(t, d)
<1>1. /\ pc[t] = "route"
      /\ UNCHANGED <<activeOrders, pendingQueue, batch, connected, reportQueue, lostReports, executed,
                   orders, childrenOf, parentOf, position, nextId, orderQueue, cancelQueue, fills, clientQty,
                   carried, completed, canceled, job, sending, cancelList, deferred>>
  BY DEF Route, exchangeVars, handlerVars, riskVars
<1>2. CASE rejected' = rejected \cup {job[t].id} /\ GoTo(t, Drain(t)) /\ UNCHANGED slices
  BY <1>1, <1>2 DEF GivesUp, GoTo
<1>3. CASE /\ TRUE \in CheckOrder(job[t].order.side, job[t].order.quantity)
           /\ \E d \in Decisions(job[t].order) : slices' = [slices EXCEPT ![t] = d]
           /\ GoTo(t, "slice") /\ UNCHANGED rejected
  BY <1>1, <1>3 DEF Decides, GoTo
<1>. QED
  BY <1>2, <1>3 DEF Route

LEMMA DecideRounds ==
  ASSUME IInv, Accounting, Market, Rounds, NEW t \in Threads, NEW d, Decides(t, d)
  PROVE  Market' /\ Rounds'
<1>1. UNCHANGED <<executed, carried, lostReports, reportQueue, parentOf, orders, deferred, completed, clientQty,
                  job, orderQueue, sending, activeOrders, pendingQueue>>
  BY DEF Decides
<1>t. "order" \in Threads /\ "exec" \in Threads
  BY DEF Threads
<1>2. pc[t] = "route" /\ pc'[t] = "slice" /\ \A z \in Threads : z # t => pc'[z] = pc[z]
  BY StepsOn DEF Decides
<1>3. \A z \in Threads : slices'[z] = IF z = t THEN d ELSE slices[z]
  BY DEF Decides, IInv, ThreadShapes
<1>4. Len(d) = 1 /\ d[1].quantity = job[t].order.quantity
  <2>1. job[t].order.strategy = "BestPrice"
    BY DEF Rounds, OneStrategy
  <2>2. PICK v \in Venues : d = <<[venue |-> v, quantity |-> job[t].order.quantity, tif |-> job[t].order.tif]>>
    BY <2>1 DEF Decides, Decisions, BestPriceDecisions
  <2>. QED
    BY <2>2
<1>7. SameMarket
  BY <1>1, SameBooks DEF SameMarket
<1>8. Market'
  BY <1>7, MarketStill
<1>f. /\ \A p : Childless(p)' <=> Childless(p)
      /\ \A p : Calm(p)' <=> Calm(p)
      /\ \A p : Returned(p)' <=> Returned(p)
      /\ OneAtATime => OneAtATime'
      /\ \A c \in OrderIds : (Busy(c)' <=> Busy(c)) /\ (Child(c)' <=> Child(c))
  BY <1>7, FamilyStill
<1>9. OneStrategy'
  BY <1>1 DEF Rounds, OneStrategy
<1>10. FirstRound' /\ NextRound' /\ OneAtATime'
  <2>1. \A z \in Threads : Prepares(z)' <=> Prepares(z)
    BY <1>2 DEF Prepares
  <2>. QED
    BY <1>1, <1>t, <1>f, <2>1 DEF Rounds, FirstRound, NextRound
<1>12. (\A c \in OrderIds : Busy(c) => InStep(c))'
  BY <1>1, <1>7, StepKept
<1>13. (\A p \in OrderIds : ~Child(p) => Sized(p))'
  BY <1>1, <1>f DEF Rounds, Sized, Tracked
<1>14. NewOrders'
  BY <1>1, <1>2, <1>t DEF Rounds, NewOrders, NewEntry
<1>15. JobSizes'
  <2>1. \A z \in Threads : Routed(z)' <=> Routed(z)
    BY <1>1 DEF Routed
  <2>2. \A p : Rest(p)' = Rest(p)
    BY <1>1 DEF Rest
  <2>3. \A z \in Threads : pc'[z] \in {"route", "slice"} => pc[z] \in {"route", "slice"}
    BY <1>2
  <2>4. pc'["exec"] = "admit" => pc["exec"] = "admit"
    BY <1>2, <1>t
  <2>. QED
    BY <1>1, <2>1, <2>2, <2>3, <2>4 DEF Rounds, JobSizes
<1>16. Slices'
  BY <1>1, <1>2, <1>3, <1>4 DEF Rounds, Slices
<1>17. Completions'
  <2>1. \A p : (Done(p)' <=> Done(p)) /\ (Completes(p)' <=> Completes(p))
    BY <1>1, <1>f DEF Done, Completes
  <2>. QED
    BY <1>1, <1>f, <2>1 DEF Rounds, Completions
<1>. QED
  BY <1>8, <1>9, <1>10, <1>12, <1>13, <1>14, <1>15, <1>16, <1>17 DEF Rounds

(* The two threads never prepare the same order. *)
LEMMA Apart ==
  ASSUME IInv, Rounds, NEW t \in Threads, NEW z \in Threads, z # t, Prepares(t), Prepares(z)
  PROVE  job[z].id # job[t].id
<1>1. (t = "order" /\ z = "exec") \/ (t = "exec" /\ z = "order")
  BY DEF Threads
<1>. QED
  BY <1>1 DEF Rounds, FirstRound, NextRound, Returned

(* No child of an order that is being prepared is busy. *)
LEMMA PreparedCalm ==
  ASSUME Rounds, NEW t \in Threads, Prepares(t)
  PROVE  Calm(job[t].id)
<1>1. t = "order" \/ t = "exec"
  BY DEF Threads
<1>2. \A p : Childless(p) => Calm(p)
  BY DEF Childless, Calm
<1>. QED
  BY <1>1, <1>2 DEF Rounds, FirstRound, NextRound, Returned

LEMMA AdmitRounds ==
  ASSUME IInv, Accounting, Market, Rounds,
         NEW t \in Threads, NEW p \in OrderIds, NEW o \in OrderShape, Admits(t, p, o)
  PROVE  Market' /\ Rounds'
<1>1. UNCHANGED <<executed, lostReports, reportQueue, parentOf, deferred, completed, clientQty,
                  job, orderQueue, slices, sending, activeOrders, pendingQueue>>
  BY DEF Admits
<1>t. "order" \in Threads /\ "exec" \in Threads /\ \A z \in Threads : z = "order" \/ z = "exec"
  BY DEF Threads
<1>2. pc[t] = "admit" /\ pc'[t] = "route" /\ \A z \in Threads : z # t => pc'[z] = pc[z]
  BY StepsOn DEF Admits
<1>p. p = job[t].id /\ ~Child(p) /\ Prepares(t)
  BY <1>2 DEF Admits, Prepares
<1>3. \A x \in OrderIds : orders'[x] = IF x = p THEN o ELSE orders[x]
  BY DEF Admits, IInv, RouterShapes
<1>4. \A x \in OrderIds : carried'[x] = IF x = p THEN carried[p] + orders[p].filled ELSE carried[x]
  BY DEF Admits, Accounting, AccountShapes
<1>j. PICK j \in OrderShape : j = job[t].order
  BY DEF Admits
<1>o. o.state = "PendingNew" /\ o.quantity = j.quantity /\ o.filled = 0 /\ o.strategy = "BestPrice"
  <2>1. o = [j EXCEPT !.state = "PendingNew"]
    BY <1>j DEF Admits
  <2>2. j.filled = 0 /\ j.strategy = "BestPrice"
    BY <1>2, <1>j DEF Accounting, FreshJobs, Rounds, OneStrategy
  <2>. QED
    BY <2>1, <2>2 DEF OrderShape
<1>n. /\ orders[p].quantity \in Nat /\ orders[p].filled \in Nat /\ carried[p] \in Nat /\ j.quantity \in Nat
      /\ clientQty[p] \in Nat
  <2>1. orders[p] \in OrderShape
    BY DEF IInv, RouterShapes
  <2>. QED
    BY <2>1 DEF OrderShape, Accounting, AccountShapes
<1>5. j.quantity > 0 /\ clientQty[p] = carried[p] + orders[p].filled + j.quantity
  <2>0. Sized(p)
    BY <1>p DEF Rounds
  <2>1. CASE t = "order"
    <3>1. ~Tracked(p) /\ NewEntry(job["order"])
      BY <1>2, <2>1 DEF Admits, Rounds, NewOrders
    <3>. QED
      BY <1>j, <1>p, <1>n, <2>0, <2>1, <3>1 DEF Sized, NewEntry
  <2>2. CASE t = "exec"
    <3>1. Tracked(p)
      BY <2>2 DEF Admits, Open, Tracked
    <3>2. j.quantity > 0 /\ j.quantity = orders[p].quantity - orders[p].filled
      BY <1>2, <1>j, <1>p, <2>2 DEF Rounds, JobSizes, Rest
    <3>. QED
      BY <1>n, <2>0, <3>1, <3>2 DEF Sized
  <2>. QED
    BY <1>t, <2>1, <2>2
<1>s. orders[p].state # "Filled"
  <2>1. CASE t = "order"
    BY <2>1 DEF Admits, Tracked
  <2>2. CASE t = "exec"
    BY <2>2 DEF Admits, Open
  <2>. QED
    BY <1>t, <2>1, <2>2
<1>7. SameMarket
  <2>1. \A x \in OrderIds : Child(x) => orders'[x] = orders[x]
    BY <1>3, <1>p
  <2>. QED
    BY <1>1, <2>1, SameBooks DEF SameMarket
<1>8. Market'
  BY <1>7, MarketStill
<1>f. /\ \A x : Childless(x)' <=> Childless(x)
      /\ \A x : Calm(x)' <=> Calm(x)
      /\ \A x : Returned(x)' <=> Returned(x)
      /\ OneAtATime => OneAtATime'
      /\ \A x \in OrderIds : (Busy(x)' <=> Busy(x)) /\ (Child(x)' <=> Child(x))
  BY <1>7, FamilyStill
<1>z. \A z \in Threads : z # t /\ Prepares(z) => job[z].id # p
  BY <1>p, Apart
<1>d. /\ deferred.reroute => /\ parentOf[deferred.id] \in OrderIds /\ parentOf[deferred.id] # p
                             /\ Returned(parentOf[deferred.id])
      /\ pc["exec"] = "admit" => job["exec"].id \in OrderIds
  <2>1. deferred.reroute => pc["exec"] = "deferred" /\ Open(parentOf[deferred.id])
    BY DEF IInv, Working
  <2>2. deferred.reroute => t = "order"
    BY <1>2, <1>t, <2>1
  <2>3. t = "order" => Childless(p)
    BY <1>p DEF Rounds, FirstRound
  <2>4. deferred.reroute => Returned(parentOf[deferred.id])
    BY DEF Rounds, NextRound
  <2>5. pc["exec"] = "admit" => job["exec"].id \in OrderIds
    BY DEF IInv, Working, Open
  <2>. QED
    BY <2>1, <2>2, <2>3, <2>4, <2>5 DEF Open, Returned
<1>9. OneStrategy'
  <2>1. \A x \in OrderIds : orders'[x].strategy = "BestPrice"
    BY <1>3, <1>o DEF Rounds, OneStrategy
  <2>. QED
    BY <1>1, <2>1 DEF Rounds, OneStrategy
<1>10. FirstRound' /\ NextRound' /\ OneAtATime'
  <2>1. \A z \in Threads : Prepares(z)' <=> Prepares(z)
    BY <1>2 DEF Prepares
  <2>. QED
    BY <1>1, <1>t, <1>f, <2>1 DEF Rounds, FirstRound, NextRound
<1>12. (\A c \in OrderIds : Busy(c) => InStep(c))'
  <2>1. ASSUME NEW c \in OrderIds, Busy(c)' PROVE InStep(c)'
    <3>1. Busy(c) /\ parentOf[c] \in OrderIds
      BY <1>f, <2>1, BusyChildren
    <3>2. parentOf[c] # p
      BY <1>p, <3>1, PreparedCalm DEF Calm
    <3>3. orders'[parentOf[c]] = orders[parentOf[c]]
      BY <1>3, <3>1, <3>2
    <3>. QED
      BY <1>7, <2>1, <3>3, StepKept
  <2>. QED
    BY <2>1
<1>13. (\A x \in OrderIds : ~Child(x) => Sized(x))'
  <2>1. ASSUME NEW x \in OrderIds, ~Child(x), x # p PROVE Sized(x)'
    <3>1. Sized(x) /\ orders'[x] = orders[x] /\ carried'[x] = carried[x]
      BY <1>3, <1>4, <2>1 DEF Rounds
    <3>. QED
      BY <1>1, <3>1 DEF Sized, Tracked
  <2>2. Sized(p)'
    <3>1. orders'[p] = o /\ carried'[p] = carried[p] + orders[p].filled
      BY <1>3, <1>4
    <3>2. clientQty[p] = carried'[p] + o.quantity /\ o.filled <= o.quantity /\ o.state # "Untracked"
      BY <1>n, <1>o, <1>5, <3>1
    <3>. QED
      BY <1>1, <3>1, <3>2 DEF Sized, Tracked
  <2>. QED
    BY <1>f, <2>1, <2>2
<1>14. NewOrders'
  BY <1>1, <1>2, <1>t DEF Rounds, NewOrders, NewEntry
<1>15. JobSizes'
  <2>1. Routed(t)'
    <3>1. orders'[p] = o
      BY <1>3
    <3>. QED
      BY <1>1, <1>p, <1>j, <1>o, <1>5, <3>1 DEF Routed
  <2>2. ASSUME NEW z \in Threads, z # t, pc'[z] \in {"route", "slice"} PROVE Routed(z)'
    <3>1. Routed(z) /\ job[z].id # p /\ job[z].id \in OrderIds
      BY <1>2, <1>z, <2>2 DEF Rounds, JobSizes, Prepares, IInv, Working
    <3>2. orders'[job[z].id] = orders[job[z].id]
      BY <1>3, <3>1
    <3>. QED
      BY <1>1, <3>1, <3>2 DEF Routed
  <2>3. \A x \in OrderIds : x # p => Rest(x)' = Rest(x) /\ orders'[x] = orders[x]
    BY <1>3 DEF Rest
  <2>4. pc'["exec"] = "admit" => job'["exec"].order.quantity > 0 /\ job'["exec"].order.quantity = Rest(job["exec"].id)'
    <3>1. SUFFICES ASSUME pc'["exec"] = "admit"
                   PROVE  job["exec"].order.quantity > 0 /\ job["exec"].order.quantity = Rest(job["exec"].id)'
      BY <1>1
    <3>2. pc["exec"] = "admit" /\ t # "exec"
      BY <1>2, <1>t, <3>1
    <3>3. job["exec"].id # p /\ job["exec"].id \in OrderIds
      BY <1>z, <1>d, <1>t, <3>2 DEF Prepares
    <3>4. PICK x : x = job["exec"].id
      OBVIOUS
    <3>5. job["exec"].order.quantity > 0 /\ job["exec"].order.quantity = Rest(x)
      BY <3>2, <3>4 DEF Rounds, JobSizes
    <3>6. Rest(job["exec"].id)' = Rest(x)
      BY <1>1, <2>3, <3>3, <3>4 DEF Rest
    <3>. QED
      BY <3>5, <3>6
  <2>5. ASSUME deferred'.reroute
        PROVE  (orders[parentOf[deferred.id]].remaining > 0
                    /\ orders[parentOf[deferred.id]].remaining = Rest(parentOf[deferred.id]))'
    <3>1. PICK x : x = parentOf[deferred.id]
      OBVIOUS
    <3>2. x \in OrderIds /\ x # p /\ orders[x].remaining > 0 /\ orders[x].remaining = Rest(x)
      BY <1>1, <1>d, <2>5, <3>1 DEF Rounds, JobSizes
    <3>3. orders'[x].remaining > 0 /\ orders'[x].remaining = orders'[x].quantity - orders'[x].filled
      BY <2>3, <3>2 DEF Rest
    <3>4. parentOf'[deferred'.id] = x
      BY <1>1, <3>1
    <3>. QED
      BY <3>3, <3>4 DEF Rest
  <2>6. \A z \in Threads : pc'[z] \in {"route", "slice"} => Routed(z)'
    BY <2>1, <2>2
  <2>. QED
    BY <2>4, <2>5, <2>6 DEF JobSizes
<1>16. Slices'
  <2>1. \A z \in Threads : pc'[z] = "slice" <=> pc[z] = "slice"
    BY <1>2
  <2>. QED
    BY <1>1, <2>1 DEF Rounds, Slices
<1>17. Completions'
  <2>0. Completions
    BY DEF Rounds
  <2>1. ASSUME NEW x \in OrderIds, ~Child(x)
        PROVE  /\ orders'[x].state = "Filled" => Done(x)'
               /\ completed[x] <= 1
               /\ completed[x] = 1 => orders'[x].state = "Filled"
               /\ Completes(x) => orders'[x].state = "Filled" /\ completed[x] = 0
    <3>1. CASE x = p
      BY <1>3, <1>o, <1>s, <2>0, <2>1, <3>1 DEF Completions
    <3>2. CASE x # p
      <4>1. orders'[x] = orders[x]
        BY <1>3, <3>2
      <4>2. Done(x) => Done(x)'
        BY <1>f, <4>1 DEF Done
      <4>. QED
        BY <2>0, <2>1, <4>1, <4>2 DEF Completions
    <3>. QED
      BY <3>1, <3>2
  <2>2. \A x : Completes(x)' <=> Completes(x)
    BY <1>1 DEF Completes
  <2>. QED
    BY <1>1, <1>f, <2>0, <2>1, <2>2 DEF Completions
<1>. QED
  BY <1>8, <1>9, <1>10, <1>12, <1>13, <1>14, <1>15, <1>16, <1>17 DEF Rounds

(* Callbacks are pending for a child only, and while the execution thread   *)
(* runs them.                                                               *)
LEMMA PendingCallbacks ==
  ASSUME IInv, Accounting, deferred.reroute \/ deferred.completion
  PROVE  /\ pc["exec"] = "deferred" /\ deferred.id \in OrderIds /\ Child(deferred.id)
         /\ parentOf[deferred.id] \in OrderIds
<1>1. Nothing.reroute = FALSE /\ Nothing.completion = FALSE
  BY DEF Nothing
<1>2. deferred # Nothing
  BY <1>1
<1>3. pc["exec"] = "deferred"
  BY <1>2 DEF Accounting, Callbacks
<1>4. deferred.id \in OrderIds
  BY <1>3 DEF IInv, Working
<1>5. Child(deferred.id)
  BY <1>4 DEF Accounting, Callbacks
<1>6. parentOf[deferred.id] \in OrderIds
  BY <1>4, <1>5, Ids DEF IInv, RouterShapes, Child
<1>. QED
  BY <1>3, <1>4, <1>5, <1>6

(* An order that a thread prepares is an order, and tracked once admitted. *)
LEMMA PreparedOrder ==
  ASSUME IInv, NEW t \in Threads, Prepares(t)
  PROVE  /\ job[t].id \in OrderIds /\ ~Child(job[t].id)
         /\ pc[t] # "admit" \/ t = "exec" => Tracked(job[t].id)
<1>1. CASE pc[t] = "admit"
  BY <1>1, Candidate DEF Open, Tracked
<1>2. CASE pc[t] # "admit"
  BY <1>2 DEF Prepares, IInv, Working
<1>. QED
  BY <1>1, <1>2

LEMMA HandRounds ==
  ASSUME IInv, Accounting, Market, Rounds, NEW t \in Threads, NEW p \in OrderIds, NEW c \in OrderIds,
         NEW o \in OrderShape, NEW slice \in SliceShape, Hands(t, p, c, o, slice)
  PROVE  Market' /\ Rounds'
<1>1. UNCHANGED <<executed, lostReports, reportQueue, deferred, completed, clientQty, carried, job, orderQueue>>
  BY DEF Hands
<1>t. "order" \in Threads /\ "exec" \in Threads /\ \A z \in Threads : z = "order" \/ z = "exec"
  BY DEF Threads
<1>2. pc[t] = "slice" /\ pc'[t] = "send" /\ \A z \in Threads : z # t => pc'[z] = pc[z]
  BY StepsOn DEF Hands
<1>p. p = job[t].id /\ ~Child(p) /\ Tracked(p) /\ ~Child(c) /\ ~Tracked(c) /\ p # c /\ Prepares(t)
  BY <1>2 DEF Hands, Prepares
<1>3. /\ \A x \in OrderIds : orders'[x] = IF x = c THEN o ELSE orders[x]
      /\ \A x \in OrderIds : parentOf'[x] = IF x = c THEN p ELSE parentOf[x]
  BY DEF Hands, IInv, RouterShapes
<1>i. parentOf[c] = INVALID_ORDER_ID /\ INVALID_ORDER_ID \notin OrderIds
  BY <1>p, Ids DEF Child
<1>c. \A x \in OrderIds : Child(x)' <=> Child(x) \/ x = c
  BY <1>3, <1>i DEF Child
<1>s. slice = slices[t][1] /\ Len(slices[t]) = 1 /\ slice.quantity = job[t].order.quantity
  <2>1. slices[t] \in Seq(SliceShape) /\ slices[t] # << >> /\ slice = Head(slices[t])
    BY DEF Hands, IInv, ThreadShapes
  <2>2. slice = slices[t][1]
    BY <2>1
  <2>. QED
    BY <1>2, <2>2 DEF Rounds, Slices
<1>r. Routed(t)
  BY <1>2 DEF Rounds, JobSizes
<1>q. /\ slice.quantity \in Nat /\ slice.quantity > 0 /\ o.quantity = slice.quantity
      /\ orders[p].quantity = slice.quantity /\ orders[p].filled = 0 /\ orders[p].state = "PendingNew"
      /\ o.strategy = "BestPrice"
  <2>1. slice.quantity \in Nat
    BY DEF SliceShape
  <2>2. o.quantity = slice.quantity /\ o.strategy = job[t].order.strategy
    BY DEF Hands
  <2>3. job[t].order.strategy = "BestPrice"
    BY DEF Rounds, OneStrategy
  <2>. QED
    BY <1>p, <1>s, <1>r, <2>1, <2>2, <2>3 DEF Routed
<1>4. /\ Market'
      /\ \A x \in OrderIds : Busy(x)' => Busy(x) \/ x = c
      /\ ~Busy(c)
  BY <1>q, HandMarket
<1>5. Calm(p)
  BY <1>p, PreparedCalm
<1>6. ASSUME NEW q \in OrderIds, q # p
      PROVE  (Childless(q)' <=> Childless(q)) /\ (Calm(q) => Calm(q)')
  <2>1. \A x \in OrderIds : parentOf'[x] = q <=> parentOf[x] = q /\ x # c
    BY <1>3, <1>6
  <2>2. \A x \in OrderIds : parentOf[x] = q => x # c
    BY <1>i
  <2>. QED
    BY <1>4, <2>1, <2>2 DEF Childless, Calm
<1>z. \A z \in Threads : z # t /\ Prepares(z) => job[z].id # p
  BY <1>p, Apart
<1>w. \A z \in Threads : Prepares(z)' => z # t /\ Prepares(z)
  BY <1>2 DEF Prepares
<1>d. deferred.reroute \/ deferred.completion =>
          /\ deferred.id \in OrderIds /\ deferred.id # c
          /\ parentOf'[deferred.id] = parentOf[deferred.id] /\ parentOf[deferred.id] \in OrderIds
          /\ parentOf[deferred.id] # c
  <2> SUFFICES ASSUME deferred.reroute \/ deferred.completion
               PROVE  /\ deferred.id \in OrderIds /\ deferred.id # c
                      /\ parentOf'[deferred.id] = parentOf[deferred.id] /\ parentOf[deferred.id] \in OrderIds
                      /\ parentOf[deferred.id] # c
    OBVIOUS
  <2>1. deferred.id \in OrderIds /\ Child(deferred.id) /\ parentOf[deferred.id] \in OrderIds
    BY PendingCallbacks
  <2>2. Tracked(parentOf[deferred.id])
    BY <2>1 DEF IInv, Family
  <2>. QED
    BY <1>3, <1>p, <2>1, <2>2
<1>e. deferred.reroute => parentOf[deferred.id] # p
  <2>1. deferred.reroute => pc["exec"] = "deferred"
    BY PendingCallbacks
  <2>2. deferred.reroute => Childless(p)
    BY <1>2, <1>t, <1>p, <2>1 DEF Rounds, FirstRound
  <2>3. deferred.reroute => ~Childless(parentOf[deferred.id])
    BY DEF Rounds, NextRound, Returned
  <2>. QED
    BY <2>2, <2>3
<1>9. OneStrategy'
  <2>1. \A x \in OrderIds : orders'[x].strategy = "BestPrice"
    BY <1>3, <1>q DEF Rounds, OneStrategy
  <2>. QED
    BY <1>1, <2>1 DEF Rounds, OneStrategy
<1>10. FirstRound'
  <2> SUFFICES ASSUME Prepares("order")' PROVE Childless(job["order"].id)'
    BY DEF FirstRound
  <2>1. PICK q : q = job["order"].id
    OBVIOUS
  <2>2. Prepares("order") /\ q \in OrderIds /\ q # p
    BY <1>w, <1>z, <1>t, <2>1, PreparedOrder
  <2>3. Childless(q)
    BY <2>1, <2>2 DEF Rounds, FirstRound
  <2>4. Childless(q)'
    BY <1>6, <2>2, <2>3
  <2>. QED
    BY <1>1, <2>1, <2>4 DEF Childless
<1>11. NextRound'
  <2>1. ASSUME NEW q \in OrderIds, q # p, Returned(q) PROVE Returned(q)'
    BY <1>6, <2>1 DEF Returned
  <2>2. ASSUME Prepares("exec")' PROVE Returned(job["exec"].id)'
    <3>1. PICK q : q = job["exec"].id
      OBVIOUS
    <3>2. Prepares("exec") /\ q \in OrderIds /\ q # p
      BY <1>w, <1>z, <1>t, <2>2, <3>1, PreparedOrder
    <3>3. Returned(q)'
      BY <2>1, <3>1, <3>2 DEF Rounds, NextRound
    <3>4. job'["exec"].id = q
      BY <1>1, <3>1
    <3>. QED
      BY <3>3, <3>4 DEF Returned, Childless, Calm
  <2>3. ASSUME deferred'.reroute PROVE Returned(parentOf[deferred.id])'
    <3>0. deferred.reroute
      BY <1>1, <2>3
    <3>1. PICK q : q = parentOf[deferred.id]
      OBVIOUS
    <3>2. q \in OrderIds /\ q # p /\ parentOf'[deferred.id] = q
      BY <1>d, <1>e, <3>0, <3>1
    <3>3. Returned(q)'
      BY <2>1, <3>0, <3>1, <3>2 DEF Rounds, NextRound
    <3>4. parentOf'[deferred'.id] = q
      BY <1>1, <3>2
    <3>. QED
      BY <3>3, <3>4 DEF Returned, Childless, Calm
  <2>. QED
    BY <2>2, <2>3 DEF NextRound
<1>12. OneAtATime'
  <2> SUFFICES ASSUME NEW x \in OrderIds, NEW y \in OrderIds, Busy(x)', Busy(y)', parentOf'[x] = parentOf'[y]
               PROVE  x = y
    BY DEF OneAtATime
  <2>1. \A u \in OrderIds : u # c /\ Busy(u)' => parentOf'[u] # p
    BY <1>3, <1>4, <1>5 DEF Calm
  <2>2. CASE x # c /\ y # c
    BY <1>3, <1>4, <2>2 DEF Rounds, OneAtATime
  <2>3. CASE x = c \/ y = c
    BY <1>3, <2>1, <2>3
  <2>. QED
    BY <2>2, <2>3
<1>13. (\A x \in OrderIds : Busy(x) => InStep(x))'
  <2>0. \A x : InReports(x, reportQueue)' = InReports(x, reportQueue)
    BY <1>1 DEF InReports
  <2>1. InStep(c)'
    <3>1. parentOf'[c] = p /\ orders'[c] = o /\ orders'[p] = orders[p]
      BY <1>3, <1>p
    <3>2. InReports(c, reportQueue) = 0
      <4>1. \A i \in 1 .. Len(reportQueue) : reportQueue[i].id # c
        BY <1>4 DEF Busy, About
      <4>. QED
        BY <4>1, ReportsOfChildren, InReportsNone
    <3>3. executed[c] = 0
      BY <1>p DEF Accounting, ChildrenTrade
    <3>. QED
      BY <1>1, <1>q, <2>0, <3>1, <3>2, <3>3 DEF InStep
  <2>2. ASSUME NEW x \in OrderIds, x # c, Busy(x)' PROVE InStep(x)'
    <3>1. Busy(x) /\ InStep(x)
      BY <1>4, <2>2 DEF Rounds
    <3>2. parentOf[x] \in OrderIds /\ parentOf[x] # c
      BY <1>p, <3>1, BusyChildren
    <3>3. parentOf'[x] = parentOf[x] /\ orders'[x] = orders[x] /\ orders'[parentOf[x]] = orders[parentOf[x]]
      BY <1>3, <2>2, <3>2
    <3>. QED
      BY <1>1, <2>0, <3>1, <3>3 DEF InStep
  <2>. QED
    BY <2>1, <2>2
<1>14. (\A x \in OrderIds : ~Child(x) => Sized(x))'
  <2>1. ASSUME NEW x \in OrderIds, ~Child(x), x # c PROVE Sized(x)'
    <3>1. Sized(x) /\ orders'[x] = orders[x]
      BY <1>3, <2>1 DEF Rounds
    <3>. QED
      BY <1>1, <3>1 DEF Sized, Tracked
  <2>. QED
    BY <1>c, <2>1
<1>15. NewOrders'
  BY <1>1, <1>2, <1>t DEF Rounds, NewOrders, NewEntry
<1>16. JobSizes'
  <2>1. ASSUME NEW z \in Threads, pc'[z] \in {"route", "slice"} PROVE Routed(z)'
    <3>1. z # t /\ pc[z] \in {"route", "slice"}
      BY <1>2, <2>1
    <3>2. Routed(z) /\ job[z].id # c /\ job[z].id \in OrderIds
      BY <1>p, <3>1 DEF Rounds, JobSizes, IInv, Working
    <3>3. orders'[job[z].id] = orders[job[z].id]
      BY <1>3, <3>2
    <3>. QED
      BY <1>1, <3>2, <3>3 DEF Routed
  <2>2. ASSUME pc'["exec"] = "admit"
        PROVE  (job["exec"].order.quantity > 0 /\ job["exec"].order.quantity = Rest(job["exec"].id))'
    <3>1. pc["exec"] = "admit"
      BY <1>2, <1>t, <2>2
    <3>2. PICK q : q = job["exec"].id
      OBVIOUS
    <3>3. q \in OrderIds /\ q # c
      BY <1>p, <1>t, <3>1, <3>2, PreparedOrder DEF Prepares
    <3>4. job["exec"].order.quantity > 0 /\ job["exec"].order.quantity = Rest(q)
      BY <3>1, <3>2 DEF Rounds, JobSizes
    <3>5. orders'[q] = orders[q]
      BY <1>3, <3>3
    <3>. QED
      BY <1>1, <3>2, <3>4, <3>5 DEF Rest
  <2>3. ASSUME deferred'.reroute
        PROVE  (orders[parentOf[deferred.id]].remaining > 0
                    /\ orders[parentOf[deferred.id]].remaining = Rest(parentOf[deferred.id]))'
    <3>0. deferred.reroute
      BY <1>1, <2>3
    <3>1. PICK q : q = parentOf[deferred.id]
      OBVIOUS
    <3>2. q \in OrderIds /\ q # c /\ parentOf'[deferred.id] = q
      BY <1>d, <3>0, <3>1
    <3>3. orders'[q] = orders[q] /\ parentOf'[deferred'.id] = q
      BY <1>1, <1>3, <3>2
    <3>4. orders[q].remaining > 0 /\ orders[q].remaining = Rest(q)
      BY <3>0, <3>1 DEF Rounds, JobSizes
    <3>. QED
      BY <3>3, <3>4 DEF Rest
  <2>. QED
    BY <2>1, <2>2, <2>3 DEF JobSizes
<1>17. Slices'
  <2>1. Tail(slices[t]) = << >>
    <3>1. slices[t] \in Seq(SliceShape)
      BY DEF IInv, ThreadShapes
    <3>2. Tail(slices[t]) \in Seq(SliceShape) /\ Len(Tail(slices[t])) = 0
      BY <1>s, <3>1
    <3>. QED
      BY <3>2, EmptySeq
  <2>2. \A z \in Threads : slices'[z] = IF z = t THEN << >> ELSE slices[z]
    BY <2>1 DEF Hands, IInv, ThreadShapes
  <2>3. ASSUME NEW z \in Threads
        PROVE  /\ pc'[z] = "slice" => Len(slices'[z]) = 1 /\ slices'[z][1].quantity = job'[z].order.quantity
               /\ pc'[z] # "slice" => slices'[z] = << >>
    <3>1. CASE z = t
      BY <1>2, <2>2, <3>1
    <3>2. CASE z # t
      BY <1>1, <1>2, <2>2, <3>2 DEF Rounds, Slices
    <3>. QED
      BY <3>1, <3>2
  <2>. QED
    BY <2>3 DEF Slices
<1>18. Completions'
  <2>0. Completions
    BY DEF Rounds
  <2>1. ASSUME NEW x \in OrderIds, ~Child(x), x # c
        PROVE  /\ orders'[x].state = "Filled" => Done(x)'
               /\ completed[x] <= 1
               /\ completed[x] = 1 => orders'[x].state = "Filled"
               /\ Completes(x)' => orders'[x].state = "Filled" /\ completed[x] = 0
    <3>1. orders'[x] = orders[x]
      BY <1>3, <2>1
    <3>2. orders[x].state = "Filled" => Done(x)'
      <4>1. orders[x].state = "Filled" => x # p /\ Done(x)
        BY <1>q, <2>0, <2>1 DEF Completions
      <4>. QED
        BY <1>6, <3>1, <4>1 DEF Done
    <3>3. Completes(x)' => Completes(x)
      BY <1>1, <1>d DEF Completes
    <3>. QED
      BY <2>0, <2>1, <3>1, <3>2, <3>3 DEF Completions
  <2>. QED
    BY <1>1, <1>c, <2>0, <2>1 DEF Completions
<1>. QED
  BY <1>4, <1>9, <1>10, <1>11, <1>12, <1>13, <1>14, <1>15, <1>16, <1>17, <1>18 DEF Rounds

(* The report that fills the parent is the last of its child. *)
LEMMA FillEnds ==
  ASSUME IInv, IInv', Accounting, Market, NEW r, NEW c \in OrderIds, NEW p \in OrderIds, Handles(r, c, p),
         executed[c] = orders[c].quantity, InReports(c, reportQueue') = 0
  PROVE  ~Busy(c)'
<1>m. Books /\ Departures /\ Executions /\ Reporting
  BY DEF Market
<1>u. /\ UNCHANGED <<activeOrders, sending>> /\ c = r.id /\ Child(c)
      /\ reportQueue # << >> /\ r = Head(reportQueue) /\ reportQueue' = Tail(reportQueue)
  BY DEF Handles
<1>a. /\ \A x : About(x, reportQueue) <=> About(x, reportQueue)' \/ x = c
      /\ \A x : Closing(x, reportQueue) <=> Closing(x, reportQueue)' \/ (x = c /\ Ends(r))
      /\ \A i \in 1 .. Len(reportQueue') : In(reportQueue'[i], reportQueue)
  BY <1>u, PoppedAbout
<1>1. Ends(r) => ~Busy(c)'
  BY HandleMarket
<1>2. ~Booked(c)
  <2>1. orders[c] \in OrderShape
    BY DEF IInv, RouterShapes
  <2>2. orders[c].quantity \in Nat
    BY <2>1 DEF OrderShape
  <2>. QED
    BY <1>m, <2>2 DEF Booked, Books, BookEntry
<1>3. ~Sent(c)
  BY <1>a, <1>m DEF Sent, Departures, Departing
<1>4. ~Booked(c)' /\ ~Sent(c)'
  BY <1>u, <1>2, <1>3 DEF Booked, OnBook, Sent
<1>5. ASSUME ~Ends(r) PROVE ~About(c, reportQueue)'
  <2>1. SUFFICES ASSUME About(c, reportQueue)' PROVE FALSE
    OBVIOUS
  <2>2. Closing(c, reportQueue)'
    BY <1>a, <1>m, <1>2, <1>5 DEF Reporting
  <2>3. PICK i \in 1 .. Len(reportQueue') : reportQueue'[i].id = c /\ Ends(reportQueue'[i])
    BY <2>2 DEF Closing
  <2>4. PICK s : s = reportQueue'[i]
    OBVIOUS
  <2>5. In(s, reportQueue) /\ s.id = c /\ Ends(s)
    BY <1>a, <2>3, <2>4
  <2>6. Truthful(s)
    BY <1>m, <2>5 DEF In, Reporting
  <2>7. orders[c] \in OrderShape
    BY DEF IInv, RouterShapes
  <2>8. orders[c].quantity \in Nat
    BY <2>7 DEF OrderShape
  <2>9. s.last > 0
    BY <2>5, <2>6, <2>8 DEF Truthful, Ends
  <2>10. reportQueue' \in Seq(ReportShape)
    BY DEF IInv, VenueShapes
  <2>11. InReports(c, reportQueue') >= s.last /\ s.last \in Nat
    <3>1. reportQueue'[i] \in ReportShape
      BY <2>10
    <3>2. s.last \in Nat
      BY <2>4, <3>1 DEF ReportShape
    <3>. QED
      BY <2>3, <2>4, <2>10, <3>2, InReportsAtLeast
  <2>. QED
    BY <2>9, <2>11
<1>. QED
  BY <1>1, <1>4, <1>5 DEF Busy

LEMMA HandleRounds ==
  ASSUME IInv, IInv', Accounting, Market, Rounds,
         NEW r, NEW c \in OrderIds, NEW p \in OrderIds, Handles(r, c, p)
  PROVE  Market' /\ Rounds'
<1>1. /\ UNCHANGED <<executed, parentOf, orderQueue, clientQty, carried, completed, job, slices, sending>>
      /\ r \in ReportShape /\ c = r.id /\ Child(c) /\ p = parentOf[c] /\ ~Child(p) /\ p # c /\ Tracked(c)
      /\ orders[p].state \in {"PendingNew", "PartiallyFilled", "Filled"}
      /\ pc["exec"] = "reports" /\ pc' = [pc EXCEPT !["exec"] = "deferred"]
      /\ reportQueue # << >> /\ r = Head(reportQueue) /\ reportQueue' = Tail(reportQueue)
  BY DEF Handles
<1>t. "order" \in Threads /\ "exec" \in Threads /\ \A z \in Threads : z = "order" \/ z = "exec"
  BY DEF Threads
<1>2. pc'["exec"] = "deferred" /\ pc'["order"] = pc["order"]
  <2>1. "order" # "exec"
    OBVIOUS
  <2>2. pc' = [pc EXCEPT !["exec"] = "deferred"]
    BY <1>1
  <2>. QED
    BY <1>t, <2>1, <2>2, StepsOn
<1>3. /\ Market'
      /\ \A x \in OrderIds : Busy(x)' => Busy(x)
      /\ Busy(c)
      /\ Ends(r) => ~Busy(c)'
      /\ IsTerminal(orders'[c].state) => Ends(r)
      /\ orders'[c].quantity = orders[c].quantity /\ orders'[c].strategy = orders[c].strategy
  BY HandleMarket
<1>o. /\ \A x \in OrderIds : x \notin {c, p} => orders'[x] = orders[x]
      /\ orders'[p].quantity = orders[p].quantity /\ orders'[p].strategy = orders[p].strategy
      /\ orders'[p].filled = Fills(p, r)
      /\ orders'[p].state = IF Closes(p, r) THEN "Filled"
                            ELSE IF r.last > 0 /\ orders[p].state = "PendingNew" THEN "PartiallyFilled"
                            ELSE orders[p].state
      /\ deferred'.id = c
      /\ deferred'.completion <=> Closes(p, r)
      /\ deferred'.reroute <=> SendsOn(c, p, r)
      /\ deferred'.reroute => orders'[p].remaining = orders[p].quantity - Fills(p, r)
  BY DEF Handles
<1>n. PICK k \in Nat, l \in Nat, f \in Nat, q \in Nat :
        /\ k = InReports(c, reportQueue') /\ l = r.last /\ f = orders[p].filled /\ q = orders[p].quantity
  <2>1. orders[p] \in OrderShape /\ reportQueue' \in Seq(ReportShape)
    BY DEF IInv, RouterShapes, VenueShapes
  <2>2. InReports(c, reportQueue') \in Nat
    BY <2>1, InReportsNat
  <2>. QED
    BY <1>1, <2>1, <2>2 DEF OrderShape, ReportShape
<1>r. \A x : InReports(x, reportQueue) = Share(x, r) + InReports(x, reportQueue)'
  BY <1>1, PoppedAbout
<1>k. \A x : InReports(x, reportQueue)' = InReports(x, reportQueue')
  BY DEF InReports
<1>4. /\ orders[c].quantity = q /\ executed[c] = f + l + k /\ f + l + k <= q /\ q > 0
      /\ Fills(p, r) = f + l
  <2>1. InStep(c)
    BY <1>3 DEF Rounds
  <2>2. orders[c].quantity > 0 /\ executed[c] <= orders[c].quantity
    BY <1>3, BusyChildren
  <2>3. InReports(c, reportQueue) = l + k
    BY <1>1, <1>n, <1>r, <1>k DEF Share
  <2>4. q = orders[c].quantity /\ f + (l + k) = executed[c]
    BY <1>1, <1>n, <2>1, <2>3 DEF InStep
  <2>. QED
    BY <1>n, <2>2, <2>4 DEF Fills
<1>5. Closes(p, r) <=> f + l = q
  BY <1>n, <1>4 DEF Closes
<1>6. Closes(p, r) => ~Busy(c)'
  <2>1. Closes(p, r) => executed[c] = orders[c].quantity /\ InReports(c, reportQueue') = 0
    BY <1>n, <1>4, <1>5
  <2>. QED
    BY <2>1, FillEnds
<1>7. ~Busy(c)' => Calm(p)' /\ Returned(p)'
  <2>1. \A x \in OrderIds : x # c /\ parentOf[x] = p => ~Busy(x)
    BY <1>1, <1>3 DEF Rounds, OneAtATime
  <2>2. ~Childless(p)
    BY <1>1 DEF Childless
  <2>. QED
    BY <1>1, <1>3, <2>1, <2>2 DEF Calm, Returned, Childless
<1>8. \A x : (Childless(x)' <=> Childless(x)) /\ (Calm(x) => Calm(x)')
  BY <1>1, <1>3 DEF Childless, Calm
<1>9. SendsOn(c, p, r) => Returned(p)' /\ ~Closes(p, r)
  <2>1. SendsOn(c, p, r) => IsTerminal(orders'[c].state) /\ ~Closes(p, r)
    BY DEF SendsOn, Handles
  <2>. QED
    BY <1>3, <1>7, <2>1
<1>c. \A x \in OrderIds : Child(x)' <=> Child(x)
  BY <1>1 DEF Child
<1>f. orders[p].state # "Filled"
  <2>1. orders[p].state = "Filled" => Calm(p)
    BY <1>1 DEF Rounds, Completions, Done
  <2>. QED
    BY <1>1, <1>3, <2>1 DEF Calm
<1>10. OneStrategy'
  <2>1. \A x \in OrderIds : orders'[x].strategy = "BestPrice"
    BY <1>3, <1>o DEF Rounds, OneStrategy
  <2>. QED
    BY <1>1, <2>1 DEF Rounds, OneStrategy
<1>11. FirstRound'
  <2>1. Prepares("order")' <=> Prepares("order")
    BY <1>2 DEF Prepares
  <2>. QED
    BY <1>1, <1>8, <2>1 DEF Rounds, FirstRound
<1>12. NextRound'
  <2>1. ~Prepares("exec")'
    BY <1>2 DEF Prepares
  <2>2. ASSUME deferred'.reroute PROVE Returned(parentOf[deferred.id])'
    <3>1. Returned(p)'
      BY <1>o, <1>9, <2>2
    <3>2. parentOf'[deferred'.id] = p
      BY <1>1, <1>o
    <3>. QED
      BY <3>1, <3>2 DEF Returned, Childless, Calm
  <2>. QED
    BY <2>1, <2>2 DEF NextRound
<1>13. OneAtATime'
  BY <1>1, <1>3 DEF Rounds, OneAtATime
<1>14. (\A x \in OrderIds : Busy(x) => InStep(x))'
  <2>1. InStep(c)'
    <3>1. InReports(c, reportQueue)' = k
      BY <1>k, <1>n
    <3>2. orders'[p].filled = f + l /\ executed'[c] = f + l + k /\ parentOf'[c] = p
      BY <1>1, <1>o, <1>4
    <3>. QED
      BY <1>3, <1>o, <1>n, <1>4, <3>1, <3>2 DEF InStep
  <2>2. ASSUME NEW x \in OrderIds, x # c, Busy(x)' PROVE InStep(x)'
    <3>1. Busy(x) /\ InStep(x) /\ Child(x) /\ parentOf[x] \in OrderIds /\ ~Child(parentOf[x])
      BY <1>3, <2>2, BusyChildren DEF Rounds
    <3>2. parentOf[x] # p
      BY <1>1, <1>3, <2>2, <3>1 DEF Rounds, OneAtATime
    <3>3. orders'[x] = orders[x] /\ orders'[parentOf[x]] = orders[parentOf[x]]
      BY <1>1, <1>o, <2>2, <3>1, <3>2
    <3>4. InReports(x, reportQueue)' = InReports(x, reportQueue)
      <4>1. reportQueue' \in Seq(ReportShape)
        BY DEF IInv, VenueShapes
      <4>2. InReports(x, reportQueue') \in Nat
        BY <4>1, InReportsNat
      <4>3. Share(x, r) = 0
        BY <1>1, <2>2 DEF Share
      <4>. QED
        BY <1>r, <1>k, <4>2, <4>3
    <3>. QED
      BY <1>1, <3>1, <3>3, <3>4 DEF InStep
  <2>. QED
    BY <2>1, <2>2
<1>15. (\A x \in OrderIds : ~Child(x) => Sized(x))'
  <2>1. ASSUME NEW x \in OrderIds, ~Child(x), x # p PROVE Sized(x)'
    <3>1. Sized(x) /\ orders'[x] = orders[x]
      BY <1>1, <1>o, <2>1 DEF Rounds
    <3>. QED
      BY <1>1, <3>1 DEF Sized, Tracked
  <2>2. Sized(p)'
    <3>1. Sized(p) /\ Tracked(p)
      BY <1>1 DEF Rounds, Tracked
    <3>2. orders'[p].state # "Untracked"
      BY <1>1, <1>o
    <3>3. orders'[p].quantity = q /\ orders'[p].filled = f + l /\ f + l <= q
      BY <1>o, <1>n, <1>4
    <3>4. clientQty[p] = carried[p] + q
      BY <1>n, <3>1 DEF Sized
    <3>. QED
      BY <1>1, <3>2, <3>3, <3>4 DEF Sized, Tracked
  <2>. QED
    BY <1>c, <2>1, <2>2
<1>16. NewOrders'
  BY <1>1, <1>2 DEF Rounds, NewOrders, NewEntry
<1>17. JobSizes'
  <2>1. ASSUME NEW z \in Threads, pc'[z] \in {"route", "slice"} PROVE Routed(z)'
    <3>1. z = "order" /\ pc[z] \in {"route", "slice"}
      BY <1>2, <1>t, <2>1
    <3>2. Routed(z) /\ job[z].id \in OrderIds /\ ~Child(job[z].id)
      BY <3>1 DEF Rounds, JobSizes, IInv, Working
    <3>3. Childless(job[z].id)
      BY <3>1 DEF Rounds, FirstRound, Prepares
    <3>4. job[z].id # p /\ job[z].id # c
      BY <1>1, <3>2, <3>3 DEF Childless
    <3>5. orders'[job[z].id] = orders[job[z].id]
      BY <1>o, <3>2, <3>4
    <3>. QED
      BY <1>1, <3>2, <3>5 DEF Routed
  <2>2. ASSUME deferred'.reroute
        PROVE  (orders[parentOf[deferred.id]].remaining > 0
                    /\ orders[parentOf[deferred.id]].remaining = Rest(parentOf[deferred.id]))'
    <3>1. parentOf'[deferred'.id] = p
      BY <1>1, <1>o
    <3>2. ~Closes(p, r)
      BY <1>o, <1>9, <2>2
    <3>3. orders'[p].remaining = q - (f + l) /\ orders'[p].quantity = q /\ orders'[p].filled = f + l
      BY <1>o, <1>n, <1>4, <2>2
    <3>4. q - (f + l) > 0
      BY <1>n, <1>4, <1>5, <3>2
    <3>. QED
      BY <3>1, <3>3, <3>4 DEF Rest
  <2>. QED
    BY <1>2, <2>1, <2>2 DEF JobSizes
<1>18. Slices'
  <2>1. \A z \in Threads : pc'[z] = "slice" <=> pc[z] = "slice"
    BY <1>1, <1>2, <1>t
  <2>. QED
    BY <1>1, <2>1 DEF Rounds, Slices
<1>19. Completions'
  <2>0. Completions
    BY DEF Rounds
  <2>c. \A x : Completes(x)' => x = p /\ Closes(p, r)
    BY <1>1, <1>o DEF Completes
  <2>1. ASSUME NEW x \in OrderIds, ~Child(x)
        PROVE  /\ orders'[x].state = "Filled" => Done(x)'
               /\ completed[x] <= 1
               /\ completed[x] = 1 => orders'[x].state = "Filled"
               /\ Completes(x)' => orders'[x].state = "Filled" /\ completed[x] = 0
    <3>1. CASE x # p
      <4>1. orders'[x] = orders[x]
        BY <1>1, <1>o, <2>1, <3>1
      <4>2. Done(x) => Done(x)'
        BY <1>8, <4>1 DEF Done
      <4>. QED
        BY <2>0, <2>c, <2>1, <3>1, <4>1, <4>2 DEF Completions
    <3>2. CASE x = p
      <4>1. completed[p] = 0
        <5>1. completed[p] \in Nat /\ completed[p] <= 1 /\ completed[p] # 1
          BY <1>1, <1>f, <2>0 DEF Completions
        <5>. QED
          BY <5>1
      <4>2. orders'[p].state = "Filled" <=> Closes(p, r)
        BY <1>o, <1>f
      <4>3. Closes(p, r) => Done(p)'
        <5>1. Closes(p, r) => orders'[p].filled = orders'[p].quantity
          BY <1>o, <1>n, <1>4, <1>5
        <5>. QED
          BY <1>6, <1>7, <5>1 DEF Done
      <4>. QED
        BY <2>c, <3>2, <4>1, <4>2, <4>3
    <3>. QED
      BY <3>1, <3>2
  <2>. QED
    BY <1>1, <1>c, <2>0, <2>1 DEF Completions
<1>. QED
  BY <1>3, <1>10, <1>11, <1>12, <1>13, <1>14, <1>15, <1>16, <1>17, <1>18, <1>19 DEF Rounds

LEMMA RunRounds ==
  ASSUME IInv, Accounting, Market, Rounds, NEW c \in OrderIds, Runs(c)
  PROVE  Market' /\ Rounds'
<1>1. /\ UNCHANGED <<executed, lostReports, reportQueue, parentOf, orders, clientQty, carried,
                     orderQueue, slices, sending, activeOrders, pendingQueue>>
      /\ c = deferred.id /\ Child(c) /\ pc["exec"] = "deferred" /\ deferred' = Nothing
      /\ completed' = IF deferred.completion THEN [completed EXCEPT ![parentOf[c]] = @ + 1] ELSE completed
      /\ \/ /\ deferred.reroute /\ job' = [job EXCEPT !["exec"] = RerouteJob(parentOf[c])]
            /\ pc' = [pc EXCEPT !["exec"] = "admit"]
         \/ ~deferred.reroute /\ job' = job /\ pc' = [pc EXCEPT !["exec"] = "reports"]
  BY DEF Runs
<1>t. /\ "order" \in Threads /\ "exec" \in Threads /\ "order" # "exec"
      /\ \A z \in Threads : z = "order" \/ z = "exec"
  BY DEF Threads
<1>p. PICK p \in OrderIds : p = parentOf[c]
  <2>1. parentOf[c] \in OrderIds
    BY <1>1, Ids DEF IInv, RouterShapes, Child
  <2>. QED
    BY <2>1
<1>0. Nothing.reroute = FALSE /\ Nothing.completion = FALSE
  BY DEF Nothing
<1>j. PICK j : j = RerouteJob(p)
  OBVIOUS
<1>k. j.id = p /\ j.order.quantity = orders[p].remaining /\ j.order.strategy = orders[p].strategy
  <2>1. PICK o \in OrderShape : o = orders[p]
    BY DEF IInv, RouterShapes
  <2>2. PICK q : q = o.remaining
    OBVIOUS
  <2>3. j = [id |-> p, order |-> [o EXCEPT !.quantity = q, !.filled = 0, !.state = "New"]]
    BY <1>j, <2>1, <2>2 DEF RerouteJob
  <2>4. j.id = p /\ j.order.quantity = q /\ j.order.strategy = o.strategy
    BY <2>3 DEF OrderShape
  <2>. QED
    BY <2>1, <2>2, <2>4
<1>2. pc'["order"] = pc["order"] /\ job'["order"] = job["order"]
  <2>1. job = [z \in Threads |-> job[z]] /\ pc = [z \in Threads |-> pc[z]]
    BY DEF IInv, ThreadShapes
  <2>. QED
    BY <1>1, <1>t, <2>1
<1>3. \/ deferred.reroute /\ job'["exec"] = j /\ pc'["exec"] = "admit"
      \/ ~deferred.reroute /\ job'["exec"] = job["exec"] /\ pc'["exec"] = "reports"
  <2>1. job = [z \in Threads |-> job[z]] /\ pc = [z \in Threads |-> pc[z]]
    BY DEF IInv, ThreadShapes
  <2>. QED
    BY <1>1, <1>t, <1>p, <1>j, <2>1
<1>7. SameMarket
  BY <1>1, SameBooks DEF SameMarket
<1>8. Market'
  BY <1>7, MarketStill
<1>f. /\ \A x : Childless(x)' <=> Childless(x)
      /\ \A x : Calm(x)' <=> Calm(x)
      /\ \A x : Returned(x)' <=> Returned(x)
      /\ OneAtATime => OneAtATime'
      /\ \A x \in OrderIds : (Busy(x)' <=> Busy(x)) /\ (Child(x)' <=> Child(x))
  BY <1>7, FamilyStill
<1>9. OneStrategy'
  <2>1. \A z \in Threads : job'[z].order.strategy = "BestPrice"
    BY <1>t, <1>k, <1>2, <1>3 DEF Rounds, OneStrategy
  <2>. QED
    BY <1>1, <2>1 DEF Rounds, OneStrategy
<1>10. FirstRound'
  <2>1. Prepares("order")' <=> Prepares("order")
    BY <1>2 DEF Prepares
  <2>2. FirstRound
    BY DEF Rounds
  <2>. QED
    BY <1>2, <1>f, <2>1, <2>2 DEF FirstRound
<1>11. NextRound'
  <2>1. ~deferred'.reroute
    BY <1>0, <1>1
  <2>2. ASSUME Prepares("exec")' PROVE Returned(job["exec"].id)'
    <3>1. deferred.reroute /\ job'["exec"] = j
      BY <1>3, <2>2 DEF Prepares
    <3>2. Returned(p)
      BY <1>1, <1>p, <3>1 DEF Rounds, NextRound
    <3>3. Returned(p)'
      BY <1>f, <3>2
    <3>. QED
      BY <1>k, <3>1, <3>3 DEF Returned, Childless, Calm
  <2>. QED
    BY <2>1, <2>2 DEF NextRound
<1>12. OneAtATime'
  BY <1>f DEF Rounds
<1>13. (\A x \in OrderIds : Busy(x) => InStep(x))'
  BY <1>1, <1>7, StepKept
<1>14. (\A x \in OrderIds : ~Child(x) => Sized(x))'
  BY <1>1, <1>f DEF Rounds, Sized, Tracked
<1>15. NewOrders'
  <2>1. NewOrders
    BY DEF Rounds
  <2>. QED
    BY <1>1, <1>2, <2>1 DEF NewOrders, NewEntry
<1>16. JobSizes'
  <2>1. ASSUME NEW z \in Threads, pc'[z] \in {"route", "slice"} PROVE Routed(z)'
    <3>1. z = "order" /\ pc[z] \in {"route", "slice"} /\ job'[z] = job[z]
      BY <1>2, <1>3, <1>t, <2>1
    <3>2. Routed(z)
      BY <3>1 DEF Rounds, JobSizes
    <3>. QED
      BY <1>1, <3>1, <3>2 DEF Routed
  <2>2. ASSUME pc'["exec"] = "admit"
        PROVE  (job["exec"].order.quantity > 0 /\ job["exec"].order.quantity = Rest(job["exec"].id))'
    <3>1. deferred.reroute /\ job'["exec"] = j
      BY <1>3, <2>2
    <3>2. orders[p].remaining > 0 /\ orders[p].remaining = Rest(p)
      BY <1>1, <1>p, <3>1 DEF Rounds, JobSizes
    <3>3. orders' = orders
      BY <1>1
    <3>. QED
      BY <1>k, <3>1, <3>2, <3>3 DEF Rest
  <2>3. ~deferred'.reroute
    BY <1>0, <1>1
  <2>. QED
    BY <2>1, <2>2, <2>3 DEF JobSizes
<1>17. Slices'
  <2>1. Slices
    BY DEF Rounds
  <2>2. ASSUME NEW z \in Threads
        PROVE  /\ pc'[z] = "slice" => Len(slices'[z]) = 1 /\ slices'[z][1].quantity = job'[z].order.quantity
               /\ pc'[z] # "slice" => slices'[z] = << >>
    <3>1. CASE z = "order"
      BY <1>1, <1>2, <1>t, <2>1, <3>1 DEF Slices
    <3>2. CASE z = "exec"
      BY <1>1, <1>3, <1>t, <2>1, <3>2 DEF Slices
    <3>. QED
      BY <1>t, <3>1, <3>2
  <2>. QED
    BY <2>2 DEF Slices
<1>18. Completions'
  <2>0. Completions
    BY DEF Rounds
  <2>c. ~Child(p)
    BY <1>1, <1>p DEF IInv, Family
  <2>1. \A x : ~Completes(x)'
    BY <1>0, <1>1 DEF Completes
  <2>2. \A x : Done(x)' <=> Done(x)
    BY <1>1, <1>f DEF Done
  <2>3. CASE deferred.completion
    <3>1. Completes(p)
      BY <1>1, <1>p, <2>3 DEF Completes
    <3>2. orders[p].state = "Filled" /\ completed[p] = 0
      BY <2>0, <2>c, <3>1 DEF Completions
    <3>3. completed \in [OrderIds -> Nat] /\ completed' = [completed EXCEPT ![p] = completed[p] + 1]
      BY <1>1, <1>p, <2>0, <2>3 DEF Completions
    <3>4. completed' \in [OrderIds -> Nat] /\ \A x \in OrderIds : completed'[x] = IF x = p THEN 1 ELSE completed[x]
      BY <3>2, <3>3
    <3>5. \A x \in OrderIds : ~Child(x) =>
             /\ orders[x].state = "Filled" => Done(x)
             /\ completed[x] <= 1
             /\ completed[x] = 1 => orders[x].state = "Filled"
      BY <2>0 DEF Completions
    <3>. QED
      BY <1>1, <1>f, <2>1, <2>2, <3>2, <3>4, <3>5 DEF Completions
  <2>4. CASE ~deferred.completion
    <3>1. completed' = completed
      BY <1>1, <2>4
    <3>. QED
      BY <1>1, <1>f, <2>0, <2>1, <2>2, <3>1 DEF Completions
  <2>. QED
    BY <2>3, <2>4
<1>. QED
  BY <1>8, <1>9, <1>10, <1>11, <1>12, <1>13, <1>14, <1>15, <1>16, <1>17, <1>18 DEF Rounds

-----------------------------------------------------------------------------
(* While no report is lost, the rounds hold in every state.                *)

LEMMA InitRounds == Init => Market /\ Rounds
<1> SUFFICES ASSUME Init PROVE Market /\ Rounds
  OBVIOUS
<1>1. /\ orders = [id \in OrderIds |-> Untracked] /\ parentOf = [id \in OrderIds |-> INVALID_ORDER_ID]
      /\ activeOrders = [v \in Venues |-> [id \in OrderIds |-> Absent]]
      /\ pendingQueue = [v \in Venues |-> << >>] /\ reportQueue = << >>
      /\ executed = [id \in OrderIds |-> 0]
      /\ orderQueue = << >> /\ pc = [t \in Threads |-> "loop"] /\ job = [t \in Threads |-> NoJob]
      /\ slices = [t \in Threads |-> << >>] /\ sending = [t \in Threads |-> INVALID_ORDER_ID]
      /\ deferred = Nothing
      /\ clientQty = [id \in OrderIds |-> 0] /\ carried = [id \in OrderIds |-> 0]
      /\ completed = [id \in OrderIds |-> 0]
  BY DEF Init, ExchangeInit, HandlerInit
<1>2. /\ Untracked.strategy = "BestPrice" /\ Untracked.state = "Untracked" /\ Untracked.filled = 0
      /\ NoJob.order = Untracked /\ Nothing.reroute = FALSE /\ Nothing.completion = FALSE
  BY DEF Untracked, NoJob, Nothing
<1>3. /\ \A t \in Threads : sending[t] \notin OrderIds
      /\ \A v \in Venues, c \in OrderIds : ~OnBook(v, c)
      /\ \A c \in OrderIds : ~Child(c)
  BY <1>1, Ids DEF OnBook, Child
<1>l. 1 .. Len(<< >>) = {}
  BY EmptySeq
<1>4. \A c \in OrderIds : ~About(c, reportQueue) /\ ~Closing(c, reportQueue)
  BY <1>1, <1>l DEF About, Closing
<1>5. \A c \in OrderIds : ~Busy(c)
  BY <1>3, <1>4 DEF Busy, Sent, Booked
<1>6. Market
  <2>1. Books
    BY <1>1, <1>3, InNothing DEF Books
  <2>2. Departures
    BY <1>3 DEF Departures, Threads
  <2>3. Executions
    BY <1>3 DEF Executions
  <2>4. Reporting
    BY <1>1, <1>4, <1>l DEF Reporting, InOrder
  <2>5. OpenWhileBusy
    BY <1>5 DEF OpenWhileBusy
  <2>. QED
    BY <2>1, <2>2, <2>3, <2>4, <2>5 DEF Market
<1>7. Rounds
  <2>1. OneStrategy
    BY <1>1, <1>2, <1>l DEF OneStrategy
  <2>p. \A t \in Threads : ~Prepares(t) /\ pc[t] = "loop"
    BY <1>1 DEF Prepares
  <2>t. "order" \in Threads /\ "exec" \in Threads
    BY DEF Threads
  <2>2. FirstRound /\ NextRound /\ OneAtATime
    BY <1>1, <1>2, <1>5, <2>p, <2>t DEF FirstRound, NextRound, OneAtATime
  <2>3. \A p \in OrderIds : Sized(p)
    BY <1>1, <1>2 DEF Sized, Tracked
  <2>4. NewOrders
    BY <1>1, <1>l, <2>p, <2>t DEF NewOrders
  <2>5. JobSizes
    BY <1>1, <1>2, <2>p, <2>t DEF JobSizes
  <2>6. Slices
    BY <1>1, <2>p DEF Slices
  <2>7. Completions
    BY <1>1, <1>2 DEF Completions, Completes
  <2>. QED
    BY <1>5, <2>1, <2>2, <2>3, <2>4, <2>5, <2>6, <2>7 DEF Rounds
<1>. QED
  BY <1>6, <1>7

-----------------------------------------------------------------------------
(* As long as no report is lost the rounds are kept by every step.         *)

(* A report once lost stays lost. *)
LEMMA SendLoses ==
  ASSUME IInv, Accounting, lostReports' = << >>, NEW t \in Threads, NEW c \in OrderIds, NEW v \in Venues,
         Delivers(t, c, v)
  PROVE  lostReports = << >>
<1>1. PICK r : r = Report(c, "Accepted", 0, 0)
  OBVIOUS
<1>2. r \in ReportShape
  BY <1>1 DEF Report, ReportShape
<1>3. Notify(<<r>>)
  BY <1>1 DEF Delivers
<1>. QED
  BY <1>2, <1>3, PushedOne

LEMMA VenueLoses ==
  ASSUME IInv, Accounting, lostReports' = << >>, NEW v \in Venues, VenueStep(v)
  PROVE  lostReports = << >>
<1>1. \/ UNCHANGED <<activeOrders, pendingQueue, reportQueue, lostReports, executed>>
      \/ \E id \in OrderIds : Outcome(v, id)
  BY Outcomes DEF Accounting, AccountShapes
<1>2. ASSUME NEW r \in ReportShape, Notify(<<r>>) PROVE lostReports = << >>
  BY <1>2, PushedOne
<1>3. ASSUME NEW r \in ReportShape, NEW s \in ReportShape, Notify(<<r, s>>) PROVE lostReports = << >>
  BY <1>3, PushedTwo
<1>4. ASSUME Notify(<< >>) PROVE lostReports = << >>
  BY <1>4, AccountingFacts, NotifiedNone
<1>5. ASSUME NEW id \in OrderIds, Outcome(v, id) PROVE lostReports = << >>
  BY <1>2, <1>3, <1>4, <1>5 DEF Outcome, EndsUnfilled, EndsFilled, EndsInPart, StaysInPart, StaysMissed
<1>. QED
  BY <1>1, <1>5

\* The market and the rounds of a router that has lost no report.
Lossless == lostReports = << >> => Market /\ Rounds

LEMMA NextRounds ==
  Strategies \subseteq {"BestPrice"} /\ IInv /\ IInv' /\ Accounting /\ Accounting' /\ Lossless /\ [Next]_vars
     => Lossless'
<1> SUFFICES ASSUME Strategies \subseteq {"BestPrice"}, IInv, IInv', Accounting, Accounting', Lossless,
                    [Next]_vars, lostReports' = << >>
             PROVE  Market' /\ Rounds'
  BY DEF Lossless
<1>0. "order" \in Threads /\ "exec" \in Threads
  BY DEF Threads
<1>i. Idles => Market' /\ Rounds'
  BY IdleRounds DEF Lossless, Idles
<1>1. CASE \E side \in SideChoices, quantity \in Quantities, tif \in TifChoices, strategy \in Strategies :
              SubmitOrder(side, quantity, tif, strategy)
  <2>1. lostReports' = lostReports
    BY <1>1 DEF SubmitOrder, exchangeVars
  <2>. QED
    BY <1>1, <2>1, SubmitRounds DEF Lossless
<1>2. CASE (\E id \in OrderIds : CancelOrder(id)) \/ KillSwitch \/ Stop \/ StopDisconnect \/ UNCHANGED vars
  BY <1>2, <1>i, ClientIdles
<1>3. ASSUME NEW t \in Threads, ProcessSingleOrder(t) PROVE Market' /\ Rounds'
  <2>g. GivesUp(t) => Market' /\ Rounds'
    BY <1>i, ThreadIdles
  <2>1. CASE Admit(t)
    <3>1. ASSUME NEW p \in OrderIds, NEW o \in OrderShape, Admits(t, p, o) PROVE Market' /\ Rounds'
      <4>1. lostReports' = lostReports
        BY <3>1 DEF Admits
      <4>. QED
        BY <3>1, <4>1, AdmitRounds DEF Lossless
    <3>. QED
      BY <2>g, <2>1, <3>1, AdmitEffect
  <2>2. CASE Route(t)
    <3>1. ASSUME NEW d, Decides(t, d) PROVE Market' /\ Rounds'
      <4>1. lostReports' = lostReports
        BY <3>1 DEF Decides
      <4>. QED
        BY <3>1, <4>1, DecideRounds DEF Lossless
    <3>. QED
      BY <2>g, <2>2, <3>1, RouteEffect
  <2>3. CASE Slice(t)
    <3>1. PICK p \in OrderIds, c \in OrderIds, o \in OrderShape, slice \in SliceShape : Hands(t, p, c, o, slice)
      BY <2>3, SliceEffect
    <3>2. lostReports' = lostReports
      BY <3>1 DEF Hands
    <3>. QED
      BY <3>1, <3>2, HandRounds DEF Lossless
  <2>4. CASE Send(t)
    <3>1. PICK c \in OrderIds, v \in Venues : Delivers(t, c, v)
      BY <2>4, SendEffect
    <3>. QED
      BY <3>1, SendLoses, DeliverRounds DEF Lossless
  <2>. QED
    BY <1>3, <2>1, <2>2, <2>3, <2>4 DEF ProcessSingleOrder
<1>4. CASE OrderThread
  <2>1. CASE Loop("order") \/ PopCancel \/ (PopOrder /\ orderQueue = << >>)
    BY <1>0, <1>i, <2>1, ThreadIdles
  <2>2. CASE CancelChild
    BY <1>i, <2>2, CancelIdles
  <2>3. CASE PopOrder /\ orderQueue # << >>
    <3>1. lostReports' = lostReports
      BY <2>3 DEF PopOrder, exchangeVars
    <3>. QED
      BY <2>3, <3>1, TakeRounds DEF Lossless
  <2>. QED
    BY <1>0, <1>3, <1>4, <2>1, <2>2, <2>3 DEF OrderThread
<1>5. CASE ExecThread
  <2>1. CASE Loop("exec") \/ (PopReport /\ reportQueue = << >>)
    BY <1>0, <1>i, <2>1, ThreadIdles
  <2>2. CASE PopReport /\ reportQueue # << >>
    <3>1. PICK r, c, p : c \in OrderIds /\ p \in OrderIds /\ Handles(r, c, p)
      BY <2>2, ReportEffect
    <3>2. lostReports' = lostReports
      BY <3>1 DEF Handles
    <3>. QED
      BY <3>1, <3>2, HandleRounds DEF Lossless
  <2>3. CASE RunDeferred
    <3>1. PICK c \in OrderIds : Runs(c)
      BY <2>3, RunEffect
    <3>2. lostReports' = lostReports
      BY <3>1 DEF Runs
    <3>. QED
      BY <3>1, <3>2, RunRounds DEF Lossless
  <2>. QED
    BY <1>0, <1>3, <1>5, <2>1, <2>2, <2>3 DEF ExecThread
<1>6. CASE \E v \in Venues : VenueStep(v)
  <2>1. PICK v \in Venues : VenueStep(v)
    BY <1>6
  <2>. QED
    BY <2>1, VenueLoses, VenueRounds DEF Lossless
<1>. QED
  BY <1>1, <1>2, <1>4, <1>5, <1>6 DEF Next

(* While no report is lost, a router whose strategy sends one slice at a    *)
(* time works its orders round by round: one busy child per order, in step  *)
(* with its parent (process_single_order, on_execution_report and the       *)
(* reroute callback of gateway.cpp).                                        *)
THEOREM RoundsInvariant ==
  ASSUME Strategies \subseteq {"BestPrice"}
  PROVE  Spec => []Lossless
<1>1. Init => Lossless
  BY InitRounds DEF Lossless
<1>2. IInv /\ IInv' /\ Accounting /\ Accounting' /\ Lossless /\ [Next]_vars => Lossless'
  BY NextRounds
<1>. QED
  BY <1>1, <1>2, GatewayInvariant, AccountingInvariant, PTL DEF Spec

-----------------------------------------------------------------------------
(* What may still execute, and what is about to be sent.                   *)

LEMMA LiveChild ==
  ASSUME IInv, Accounting, Market, NEW c \in OrderIds
  PROVE  /\ LiveOf(c) \in Nat
         /\ ~Busy(c) => LiveOf(c) = 0
         /\ Busy(c) => LiveOf(c) <= orders[c].quantity - executed[c]
<1> DEFINE left == [v \in Venues |-> activeOrders[v][c].quantity - activeOrders[v][c].filled]
<1>1. PICK q \in Nat : q = orders[c].quantity
  <2>1. orders[c] \in OrderShape
    BY DEF IInv, RouterShapes
  <2>. QED
    BY <2>1 DEF OrderShape
<1>2. PICK n \in Nat : n = executed[c]
  BY DEF Accounting, AccountShapes
<1>3. PICK s : s = IF \E t \in Threads : sending[t] = c THEN orders[c].quantity ELSE 0
  OBVIOUS
<1>4. LiveOf(c) = SumFunctionOnSet(left, Venues) + s
  BY <1>3 DEF LiveOf, SumFunction
<1>5. \A v \in Venues : ~OnBook(v, c) => left[v] = 0
  BY DEF OnBook, Absent
<1>6. IsFiniteSet(Venues)
  BY FiniteAssumption
<1>7. CASE Booked(c)
  <2>1. PICK v \in Venues : OnBook(v, c)
    BY <1>7 DEF Booked
  <2>2. BookEntry(v, c) /\ \A w \in Venues : OnBook(w, c) => w = v
    BY <2>1 DEF Market, Books, BookEntry
  <2>3. left[v] = q - n /\ q - n \in Nat
    <3>1. n < q /\ Entry(v, c).quantity = q /\ Entry(v, c).filled = n
      BY <1>1, <1>2, <2>2 DEF BookEntry
    <3>. QED
      BY <3>1 DEF Entry
  <2>4. \A w \in Venues : w # v => left[w] = 0
    BY <1>5, <2>2
  <2> HIDE DEF left
  <2>5. SumFunctionOnSet(left, Venues) = q - n
    BY <1>6, <2>3, <2>4, SumOne
  <2>6. s = 0
    BY <1>3, <1>7 DEF Market, Departures, Departing
  <2>7. Busy(c)
    BY <1>7 DEF Busy
  <2>. QED
    BY <1>1, <1>2, <1>4, <2>3, <2>5, <2>6, <2>7
<1>8. CASE ~Booked(c)
  <2>1. \A v \in Venues : left[v] = 0
    BY <1>5, <1>8 DEF Booked
  <2> HIDE DEF left
  <2>2. SumFunctionOnSet(left, Venues) = 0
    BY <1>6, <2>1, SumZero
  <2>3. CASE Sent(c)
    <3>1. s = q /\ n = 0
      BY <1>1, <1>2, <1>3, <2>3 DEF Sent, Market, Departures, Departing
    <3>2. Busy(c)
      BY <2>3 DEF Busy
    <3>. QED
      BY <1>1, <1>2, <1>4, <2>2, <3>1, <3>2
  <2>4. CASE ~Sent(c)
    <3>1. s = 0
      BY <1>3, <2>4 DEF Sent
    <3>2. Busy(c) => n <= q
      BY <1>1, <1>2, BusyChildren
    <3>. QED
      BY <1>1, <1>2, <1>4, <2>2, <3>1, <3>2
  <2>. QED
    BY <2>3, <2>4
<1>. QED
  BY <1>7, <1>8

(* The children of an order together: of them at most one is busy.          *)
LEMMA UnseenLive ==
  ASSUME IInv, Accounting, Market, Rounds, lostReports = << >>, NEW p \in OrderIds
  PROVE  /\ Calm(p) => /\ SumFunction([c \in Children(p) |-> Unseen(c)]) = 0
                       /\ SumFunction([c \in Children(p) |-> LiveOf(c)]) = 0
         /\ \A b \in OrderIds : Busy(b) /\ parentOf[b] = p =>
                /\ SumFunction([c \in Children(p) |-> Unseen(c)]) = InReports(b, reportQueue)
                /\ SumFunction([c \in Children(p) |-> LiveOf(c)]) = LiveOf(b)
<1> DEFINE unseen == [c \in Children(p) |-> Unseen(c)]
           live   == [c \in Children(p) |-> LiveOf(c)]
<1>0. IsFiniteSet(Children(p)) /\ Children(p) \subseteq OrderIds
  BY AccountingFacts DEF Children
<1>1. SumFunction(unseen) = SumFunctionOnSet(unseen, Children(p)) /\ SumFunction(live) = SumFunctionOnSet(live, Children(p))
  BY DEF SumFunction
<1>2. \A c \in OrderIds : Unseen(c) = InReports(c, reportQueue)
  <2>1. \A c : InReports(c, lostReports) = 0
    BY InReportsEmpty
  <2>2. \A c : InReports(c, reportQueue) \in Nat
    BY ReportsOfChildren, InReportsNat
  <2>. QED
    BY <2>1, <2>2 DEF Unseen
<1>3. ASSUME NEW c \in OrderIds, ~Busy(c) PROVE Unseen(c) = 0 /\ LiveOf(c) = 0
  <2>1. \A i \in 1 .. Len(reportQueue) : reportQueue[i].id # c
    BY <1>3 DEF Busy, About
  <2>2. InReports(c, reportQueue) = 0
    BY <2>1, ReportsOfChildren, InReportsNone
  <2>. QED
    BY <1>2, <1>3, <2>2, LiveChild
<1>4. ASSUME Calm(p) PROVE SumFunction(unseen) = 0 /\ SumFunction(live) = 0
  <2>1. \A c \in Children(p) : unseen[c] = 0 /\ live[c] = 0
    BY <1>3, <1>4 DEF Calm, Children
  <2> HIDE DEF unseen, live
  <2>. QED
    BY <1>0, <1>1, <2>1, SumZero
<1>5. ASSUME NEW b \in OrderIds, Busy(b), parentOf[b] = p
      PROVE  SumFunction(unseen) = InReports(b, reportQueue) /\ SumFunction(live) = LiveOf(b)
  <2>1. b \in Children(p) /\ unseen[b] = InReports(b, reportQueue) /\ live[b] = LiveOf(b)
    BY <1>2, <1>5 DEF Children
  <2>2. InReports(b, reportQueue) \in Int /\ LiveOf(b) \in Int
    <3>1. InReports(b, reportQueue) \in Nat /\ LiveOf(b) \in Nat
      BY ReportsOfChildren, InReportsNat, LiveChild
    <3>. QED
      BY <3>1
  <2>3. \A c \in Children(p) : c # b => ~Busy(c)
    BY <1>5 DEF Rounds, OneAtATime, Children
  <2>4. \A c \in Children(p) : c # b => unseen[c] = 0 /\ live[c] = 0
    BY <1>0, <1>3, <2>3
  <2> HIDE DEF unseen, live
  <2>. QED
    BY <1>0, <1>1, <2>1, <2>2, <2>4, SumOne
<1>. QED
  BY <1>4, <1>5

LEMMA PlannedJob ==
  ASSUME IInv, Rounds, NEW t \in Threads, NEW p \in OrderIds
  PROVE  PlannedOn(t, p) = IF Prepares(t) /\ job[t].id = p THEN job[t].order.quantity ELSE 0
<1> DEFINE sizes == [i \in DOMAIN slices[t] |-> slices[t][i].quantity]
<1>1. CASE pc[t] \in {"admit", "route"} \/ job[t].id # p
  BY <1>1 DEF PlannedOn, Prepares
<1>2. CASE pc[t] \notin {"admit", "route"} /\ job[t].id = p
  <2>1. PlannedOn(t, p) = SumFunctionOnSet(sizes, DOMAIN slices[t])
    BY <1>2 DEF PlannedOn, SumFunction
  <2>2. CASE pc[t] = "slice"
    <3>1. Len(slices[t]) = 1 /\ slices[t][1].quantity = job[t].order.quantity /\ slices[t] \in Seq(SliceShape)
      BY <2>2 DEF Rounds, Slices, IInv, ThreadShapes
    <3>2. DOMAIN slices[t] = {1}
      <4>1. DOMAIN slices[t] = 1 .. 1
        BY <3>1
      <4>. QED
        BY <4>1
    <3>3. slices[t][1] \in SliceShape
      BY <3>1
    <3>4. sizes[1] = job[t].order.quantity /\ sizes[1] \in Int
      BY <3>1, <3>2, <3>3 DEF SliceShape
    <3>5. IsFiniteSet({1}) /\ \A y \in {1} : y # 1 => sizes[y] = 0
      BY FS_Singleton
    <3> HIDE DEF sizes
    <3>6. SumFunctionOnSet(sizes, {1}) = sizes[1]
      BY <3>4, <3>5, SumOne
    <3>. QED
      BY <1>2, <2>1, <2>2, <3>2, <3>4, <3>6 DEF Prepares
  <2>3. CASE pc[t] # "slice"
    <3>1. slices[t] = << >>
      BY <2>3 DEF Rounds, Slices
    <3>2. DOMAIN slices[t] = {}
      BY <3>1
    <3> HIDE DEF sizes
    <3>. QED
      BY <1>2, <2>1, <2>3, <3>2, SumEmpty DEF Prepares
  <2>. QED
    BY <2>2, <2>3
<1>. QED
  BY <1>1, <1>2

\* What a client's order may still send, of what was asked for.
LEMMA PlannedRest ==
  ASSUME IInv, Accounting, Market, Rounds, NEW t \in Threads, NEW p \in OrderIds, clientQty[p] > 0,
         Prepares(t), job[t].id = p
  PROVE  /\ job[t].order.quantity \in Nat
         /\ carried[p] + orders[p].filled + job[t].order.quantity = clientQty[p]
<1>n. orders[p].filled \in Nat /\ orders[p].quantity \in Nat /\ carried[p] \in Nat /\ clientQty[p] \in Nat
  <2>1. orders[p] \in OrderShape /\ carried \in [OrderIds -> Nat] /\ clientQty \in [OrderIds -> Nat]
    BY DEF IInv, RouterShapes, Accounting, AccountShapes
  <2>. QED
    BY <2>1 DEF OrderShape
<1>s. Sized(p)
  BY DEF Accounting, Clients, Rounds
<1>t. t = "order" \/ t = "exec"
  BY DEF Threads
<1>1. CASE pc[t] = "admit" /\ t = "order"
  <2>1. ~Tracked(p)
    BY <1>1, Candidate
  <2>2. NewEntry(job[t])
    BY <1>1 DEF Rounds, NewOrders
  <2>. QED
    BY <1>n, <1>s, <2>1, <2>2 DEF Sized, NewEntry
<1>2. CASE pc[t] = "admit" /\ t = "exec"
  <2>1. Tracked(p)
    BY <1>2, Candidate DEF Open, Tracked
  <2>2. job[t].order.quantity > 0 /\ job[t].order.quantity = Rest(p)
    BY <1>2 DEF Rounds, JobSizes
  <2>. QED
    BY <1>n, <1>s, <2>1, <2>2 DEF Sized, Rest
<1>3. CASE pc[t] \in {"route", "slice"}
  <2>1. Tracked(p)
    BY <1>3 DEF IInv, Working
  <2>2. Routed(t)
    BY <1>3 DEF Rounds, JobSizes
  <2>. QED
    BY <1>n, <1>s, <2>1, <2>2 DEF Sized, Routed
<1>. QED
  BY <1>1, <1>2, <1>3, <1>t DEF Prepares

(* As long as no report is lost, the router lets no more execute for a      *)
(* client's order than the client asked for: what the venues executed, what *)
(* they still may, and what either thread is about to send stay within it   *)
(* (process_single_order and the reroute callback of gateway.cpp).          *)
THEOREM NothingSentTwice ==
  ASSUME Strategies \subseteq {"BestPrice"}
  PROVE  Spec => [](lostReports = << >> => NoOverAllocation)
<1>1. IInv /\ Accounting /\ Lossless => (lostReports = << >> => NoOverAllocation)
  <2> SUFFICES ASSUME IInv, Accounting, Market, Rounds, lostReports = << >>, NEW p \in ClientOrders
               PROVE  ExecutedOf(p) + SumFunction([c \in Children(p) |-> LiveOf(c)])
                         + PlannedOn("order", p) + PlannedOn("exec", p) <= clientQty[p]
    BY DEF Lossless, NoOverAllocation
  <2>p. p \in OrderIds /\ clientQty[p] > 0 /\ ~Child(p)
    BY DEF ClientOrders, Accounting, Clients
  <2>s. Sized(p)
    BY <2>p DEF Rounds
  <2>t. "order" \in Threads /\ "exec" \in Threads /\ "order" # "exec" /\ \A t \in Threads : t = "order" \/ t = "exec"
    BY DEF Threads
  <2>n. PICK f \in Nat, q \in Nat, k \in Nat, n \in Nat :
            f = orders[p].filled /\ q = orders[p].quantity /\ k = carried[p] /\ n = clientQty[p]
    <3>1. orders[p] \in OrderShape /\ carried \in [OrderIds -> Nat] /\ clientQty \in [OrderIds -> Nat]
      BY <2>p DEF IInv, RouterShapes, Accounting, AccountShapes
    <3>. QED
      BY <2>p, <3>1 DEF OrderShape
  <2>w. k + f <= n /\ (Tracked(p) => k + q = n)
    <3>1. CASE Tracked(p)
      <4>1. n = k + q /\ f <= q
        BY <2>n, <2>s, <3>1 DEF Sized
      <4>. QED
        BY <4>1
    <3>2. CASE ~Tracked(p)
      <4>1. k = 0 /\ f = 0
        BY <2>n, <2>s, <3>2 DEF Sized
      <4>. QED
        BY <3>2, <4>1
    <3>. QED
      BY <3>1, <3>2
  <2>u. PICK u, l, a, b : /\ u = SumFunction([c \in Children(p) |-> Unseen(c)])
                          /\ l = SumFunction([c \in Children(p) |-> LiveOf(c)])
                          /\ a = PlannedOn("order", p) /\ b = PlannedOn("exec", p)
    OBVIOUS
  <2>e. ExecutedOf(p) = k + f + u
    BY <2>n, <2>p, <2>u DEF Accounting, Balance, Balanced
  <2>j. \A t \in Threads : PlannedOn(t, p) = IF Prepares(t) /\ job[t].id = p THEN job[t].order.quantity ELSE 0
    BY <2>p, PlannedJob
  <2>1. CASE Calm(p)
    <3>1. u = 0 /\ l = 0
      BY <2>1, <2>p, <2>u, UnseenLive
    <3>2. ASSUME NEW t \in Threads, Prepares(t), job[t].id = p, NEW z \in Threads, z # t
          PROVE  /\ PlannedOn(t, p) \in Nat /\ k + f + PlannedOn(t, p) = n
                 /\ PlannedOn(z, p) = 0
      <4>1. ~(Prepares(z) /\ job[z].id = p)
        BY <3>2, Apart
      <4>2. job[t].order.quantity \in Nat /\ k + f + job[t].order.quantity = n
        BY <2>n, <2>p, <3>2, PlannedRest
      <4>. QED
        BY <2>j, <3>2, <4>1, <4>2
    <3>3. CASE Prepares("order") /\ job["order"].id = p
      BY <2>e, <2>n, <2>t, <2>u, <3>1, <3>2, <3>3
    <3>4. CASE Prepares("exec") /\ job["exec"].id = p
      BY <2>e, <2>n, <2>t, <2>u, <3>1, <3>2, <3>4
    <3>5. CASE \A t \in Threads : ~(Prepares(t) /\ job[t].id = p)
      <4>1. a = 0 /\ b = 0
        BY <2>j, <2>t, <2>u, <3>5
      <4>. QED
        BY <2>e, <2>n, <2>u, <2>w, <3>1, <4>1
    <3>. QED
      BY <2>t, <3>3, <3>4, <3>5
  <2>2. CASE ~Calm(p)
    <3>1. PICK c \in OrderIds : parentOf[c] = p /\ Busy(c)
      BY <2>2 DEF Calm
    <3>2. u = InReports(c, reportQueue) /\ l = LiveOf(c)
      BY <2>p, <2>u, <3>1, UnseenLive
    <3>3. Tracked(p) /\ InStep(c)
      BY <3>1, BusyChildren DEF Rounds
    <3>4. PICK m \in Nat : m = executed[c]
      BY DEF Accounting, AccountShapes
    <3>5. q = orders[c].quantity /\ f + u = m
      BY <2>n, <3>1, <3>2, <3>3, <3>4 DEF InStep
    <3>6. l \in Nat /\ l <= q - m
      BY <3>1, <3>2, <3>4, <3>5, LiveChild
    <3>7. u \in Nat
      BY <3>2, ReportsOfChildren, InReportsNat
    <3>8. \A t \in Threads : ~(Prepares(t) /\ job[t].id = p)
      BY <2>2, PreparedCalm
    <3>9. a = 0 /\ b = 0
      BY <2>j, <2>t, <2>u, <3>8
    <3>10. k + q = n
      BY <2>w, <3>3
    <3>11. k + f + u + l <= n
      BY <3>5, <3>6, <3>7, <3>10
    <3>12. ExecutedOf(p) + l + a + b = k + f + u + l
      BY <2>e, <3>6, <3>7, <3>9
    <3>. QED
      BY <2>n, <2>u, <3>11, <3>12
  <2>. QED
    BY <2>1, <2>2
<1>. QED
  BY <1>1, GatewayInvariant, AccountingInvariant, RoundsInvariant, PTL

(* As long as no report is lost, an order is reported complete at most once *)
(* and only when the venues executed all of it for the client               *)
(* (update_parent_from_child and the completion callback).                  *)
THEOREM CompletionsAreSound ==
  ASSUME Strategies \subseteq {"BestPrice"}
  PROVE  Spec => [](lostReports = << >> => CompletionSound)
<1>1. IInv /\ Accounting /\ Lossless => (lostReports = << >> => CompletionSound)
  <2> SUFFICES ASSUME IInv, Accounting, Market, Rounds, lostReports = << >>, NEW p \in ClientOrders
               PROVE  /\ completed[p] <= 1
                      /\ completed[p] = 1 => orders[p].state = "Filled" /\ ExecutedOf(p) = clientQty[p]
    BY DEF Lossless, CompletionSound
  <2>p. p \in OrderIds /\ clientQty[p] > 0 /\ ~Child(p)
    BY DEF ClientOrders, Accounting, Clients
  <2>1. /\ completed[p] <= 1
        /\ completed[p] = 1 => orders[p].state = "Filled"
        /\ orders[p].state = "Filled" => Done(p)
    BY <2>p DEF Rounds, Completions
  <2>2. ASSUME orders[p].state = "Filled" PROVE ExecutedOf(p) = clientQty[p]
    <3>1. orders[p].filled = orders[p].quantity /\ Calm(p) /\ Tracked(p)
      BY <2>1, <2>2 DEF Done, Tracked
    <3>2. SumFunction([c \in Children(p) |-> Unseen(c)]) = 0
      BY <2>p, <3>1, UnseenLive
    <3>3. clientQty[p] = carried[p] + orders[p].quantity
      BY <2>p, <3>1 DEF Rounds, Sized
    <3>4. orders[p].quantity \in Nat /\ carried[p] \in Nat
      <4>1. orders[p] \in OrderShape /\ carried \in [OrderIds -> Nat]
        BY <2>p DEF IInv, RouterShapes, Accounting, AccountShapes
      <4>. QED
        BY <2>p, <4>1 DEF OrderShape
    <3>5. ExecutedOf(p) = carried[p] + orders[p].filled + SumFunction([c \in Children(p) |-> Unseen(c)])
      BY <2>p DEF Accounting, Balance, Balanced
    <3>. QED
      BY <3>1, <3>2, <3>3, <3>4, <3>5
  <2>. QED
    BY <2>1, <2>2
<1>. QED
  BY <1>1, GatewayInvariant, AccountingInvariant, RoundsInvariant, PTL

-----------------------------------------------------------------------------
(* The position limit.  A child of an order that is still being worked     *)
(* weighs all of its quantity: what it does not execute its successor may. *)

LEMMA SumLess ==
  ASSUME NEW S, IsFiniteSet(S), NEW f, NEW h, \A x \in S : f[x] \in Int /\ h[x] \in Int /\ f[x] <= h[x]
  PROVE  SumFunctionOnSet(f, S) <= SumFunctionOnSet(h, S)
<1> DEFINE d == [x \in S |-> h[x] - f[x]]
<1>1. \A x \in S : d[x] \in Nat /\ d[x] \in Int /\ f[x] \in Int /\ h[x] = f[x] + d[x]
  OBVIOUS
<1> HIDE DEF d
<1>2. SumFunctionOnSet(h, S) = SumFunctionOnSet(f, S) + SumFunctionOnSet(d, S)
  BY <1>1, SumPlus
<1>3. SumFunctionOnSet(d, S) \in Nat
  BY <1>1, SumNat
<1>4. SumFunctionOnSet(f, S) \in Int
  BY <1>1, SumInt
<1>. QED
  BY <1>2, <1>3, <1>4

Newest(c) == \A d \in OrderIds : parentOf[d] = parentOf[c] => d <= c

\* The execution thread is about to send the rest of order p.
SendsRest(p) ==
    \/ deferred.reroute /\ parentOf[deferred.id] = p
    \/ Prepares("exec") /\ job["exec"].id = p

Current(c) == Busy(c) \/ (SendsRest(parentOf[c]) /\ Newest(c))
Weight(c)  == IF Current(c) THEN orders[c].quantity ELSE executed[c]

OfSide(c, s) == Child(c) /\ orders[c].side = s
Heavy(s)     == [c \in OrderIds |-> IF OfSide(c, s) THEN Weight(c) ELSE 0]
Traded(s)    == [c \in OrderIds |-> IF OfSide(c, s) THEN executed[c] ELSE 0]
Opposite(s)  == IF s = "Buy" THEN "Sell" ELSE "Buy"

\* The order thread has passed its checks and is about to send a first child.
Cleared(s) == IF pc["order"] = "slice" /\ job["order"].order.side = s THEN job["order"].order.quantity ELSE 0

\* Thread t works on an order that is tracked.
Holds(t) == pc[t] \in {"route", "slice"} \/ (t = "exec" /\ pc[t] = "admit")

OneSide ==
    /\ \A c \in OrderIds : Child(c) => orders[c].side = orders[parentOf[c]].side
    /\ \A t \in Threads : Holds(t) => job[t].order.side = orders[job[t].id].side

\* What is sent next is what the newest child left.
Successors ==
    /\ \A c \in OrderIds : Busy(c) => Newest(c)
    /\ \A p \in OrderIds : SendsRest(p) =>
          \E c \in OrderIds : parentOf[c] = p /\ Newest(c) /\ orders[c].quantity - executed[c] = Rest(p)

Limited ==
    MaxPositionQuantity > 0 => \A s \in Sides :
        SumFunctionOnSet(Heavy(s), OrderIds) - SumFunctionOnSet(Traded(Opposite(s)), OrderIds) + Cleared(s)
            <= MaxPositionQuantity

Exposed == OneSide /\ Successors /\ Limited

-----------------------------------------------------------------------------
(* Steps that send nothing new.                                            *)

Settles ==
    /\ parentOf' = parentOf
    /\ \A c \in OrderIds : Child(c) => orders'[c].side = orders[c].side /\ orders'[c].quantity = orders[c].quantity
    /\ \A c \in OrderIds : Busy(c)' => Busy(c)
    /\ \A c \in OrderIds : executed[c] <= executed'[c] /\ (executed'[c] # executed[c] => Busy(c))
    /\ \A p \in OrderIds : SendsRest(p)' =>
          \/ SendsRest(p) /\ Rest(p)' = Rest(p)
          \/ \E b \in OrderIds : Busy(b) /\ parentOf[b] = p /\ orders'[b].quantity - executed'[b] = Rest(p)'

LEMMA RestCalm ==
  ASSUME Rounds, NEW p \in OrderIds, SendsRest(p)
  PROVE  Calm(p)
  BY DEF SendsRest, Rounds, NextRound, Returned

LEMMA SettledSuccessors ==
  ASSUME IInv, Accounting, Market, Rounds, Successors, Settles
  PROVE  Successors'
<1>1. parentOf' = parentOf /\ \A c : Newest(c)' <=> Newest(c)
  BY DEF Settles, Newest
<1>2. \A c \in OrderIds : Busy(c)' => Newest(c)'
  BY <1>1 DEF Settles, Successors
<1>3. ASSUME NEW p \in OrderIds, SendsRest(p)'
      PROVE  \E c \in OrderIds : parentOf'[c] = p /\ Newest(c)' /\ orders'[c].quantity - executed'[c] = Rest(p)'
  <2>1. CASE SendsRest(p) /\ Rest(p)' = Rest(p)
    <3>1. PICK c \in OrderIds : parentOf[c] = p /\ Newest(c) /\ orders[c].quantity - executed[c] = Rest(p)
      BY <2>1 DEF Successors
    <3>2. ~Busy(c)
      BY <2>1, <3>1, RestCalm DEF Calm
    <3>3. Child(c)
      BY <3>1, Ids DEF Child
    <3>4. executed'[c] = executed[c] /\ orders'[c].quantity = orders[c].quantity
      BY <3>2, <3>3 DEF Settles
    <3>. QED
      BY <1>1, <2>1, <3>1, <3>4
  <2>2. CASE \E b \in OrderIds : Busy(b) /\ parentOf[b] = p /\ orders'[b].quantity - executed'[b] = Rest(p)'
    <3>1. PICK b \in OrderIds : Busy(b) /\ parentOf[b] = p /\ orders'[b].quantity - executed'[b] = Rest(p)'
      BY <2>2
    <3>2. Newest(b)
      BY <3>1 DEF Successors
    <3>. QED
      BY <1>1, <3>1, <3>2
  <2>. QED
    BY <1>3, <2>1, <2>2 DEF Settles
<1>4. (\A c \in OrderIds : Busy(c) => Newest(c))'
  BY <1>2
<1>5. (\A p \in OrderIds : SendsRest(p) =>
          \E c \in OrderIds : parentOf[c] = p /\ Newest(c) /\ orders[c].quantity - executed[c] = Rest(p))'
  BY <1>3
<1>. QED
  BY <1>4, <1>5 DEF Successors

\* No child gets heavier.
LEMMA SettledWeight ==
  ASSUME IInv, IInv', Accounting, Accounting', Market, Market', Rounds, Successors, Settles,
         NEW c \in OrderIds, Child(c)
  PROVE  Weight(c) \in Nat /\ Weight(c)' \in Nat /\ Weight(c)' <= Weight(c)
<1>1. PICK q \in Nat, n \in Nat, m \in Nat : q = orders[c].quantity /\ n = executed[c] /\ m = executed'[c]
  <2>1. orders[c] \in OrderShape
    BY DEF IInv, RouterShapes
  <2>2. executed[c] \in Nat /\ executed'[c] \in Nat
    BY DEF Accounting, AccountShapes
  <2>. QED
    BY <2>1, <2>2 DEF OrderShape
<1>2. orders'[c].quantity = q /\ parentOf' = parentOf
  BY <1>1 DEF Settles
<1>3. n <= q /\ m <= q
  <2>1. n <= q
    BY <1>1 DEF Market, Executions
  <2>2. Child(c)'
    BY <1>2 DEF Child
  <2>3. m <= q
    BY <1>1, <1>2, <2>2 DEF Market, Executions
  <2>. QED
    BY <2>1, <2>3
<1>4. Weight(c) = (IF Current(c) THEN q ELSE n) /\ Weight(c)' = (IF Current(c)' THEN q ELSE m)
  BY <1>1, <1>2 DEF Weight
<1>5. Current(c)' => Current(c)
  <2>1. CASE Busy(c)'
    BY <2>1 DEF Settles, Current
  <2>2. CASE SendsRest(parentOf[c])' /\ Newest(c)'
    <3>1. PICK p \in OrderIds : p = parentOf[c]
      <4>1. parentOf[c] \in OrderIds
        BY Ids DEF IInv, RouterShapes, Child
      <4>. QED
        BY <4>1
    <3>2. Newest(c)
      BY <1>2, <2>2 DEF Newest
    <3>p. SendsRest(p)'
      BY <1>2, <2>2, <3>1 DEF SendsRest
    <3>3. CASE SendsRest(p)
      BY <3>1, <3>2, <3>3 DEF Current
    <3>4. CASE \E b \in OrderIds : Busy(b) /\ parentOf[b] = p
      <4>1. PICK b \in OrderIds : Busy(b) /\ parentOf[b] = p
        BY <3>4
      <4>2. Newest(b)
        BY <4>1 DEF Successors
      <4>3. b <= c /\ c <= b
        BY <3>1, <3>2, <4>1, <4>2 DEF Newest
      <4>4. b = c
        BY <4>3, OrderIdsAssumption
      <4>. QED
        BY <4>1, <4>4 DEF Current
    <3>. QED
      BY <3>p, <3>3, <3>4 DEF Settles
  <2>3. Current(c)' => Busy(c)' \/ (SendsRest(parentOf[c])' /\ Newest(c)')
    BY DEF Current
  <2>. QED
    BY <2>1, <2>2, <2>3
<1>6. ~Current(c) => m = n
  BY <1>1 DEF Settles, Current
<1>. QED
  BY <1>1, <1>3, <1>4, <1>5, <1>6

LEMMA ClearedNat ==
  ASSUME IInv, NEW s
  PROVE  Cleared(s) \in Nat
<1>1. job["order"] \in JobShape
  BY DEF IInv, ThreadShapes, Threads
<1>. QED
  BY <1>1 DEF Cleared, JobShape, OrderShape

LEMMA SettledSums ==
  ASSUME IInv, IInv', Accounting, Accounting', Market, Market', Rounds, Successors, Settles, NEW s \in Sides
  PROVE  /\ SumFunctionOnSet(Heavy(s), OrderIds) \in Int /\ SumFunctionOnSet(Heavy(s), OrderIds)' \in Int
         /\ SumFunctionOnSet(Traded(Opposite(s)), OrderIds) \in Int
         /\ SumFunctionOnSet(Traded(Opposite(s)), OrderIds)' \in Int
         /\ SumFunctionOnSet(Heavy(s), OrderIds)' <= SumFunctionOnSet(Heavy(s), OrderIds)
         /\ SumFunctionOnSet(Traded(Opposite(s)), OrderIds) <= SumFunctionOnSet(Traded(Opposite(s)), OrderIds)'
<1>0. IsFiniteSet(OrderIds)
  BY FiniteAssumption
<1>1. PICK f, h, g, k : f = Heavy(s) /\ h = Heavy(s)' /\ g = Traded(Opposite(s)) /\ k = Traded(Opposite(s))'
  OBVIOUS
<1>2. ASSUME NEW c \in OrderIds, NEW z
      PROVE  /\ OfSide(c, z)' <=> OfSide(c, z)
             /\ executed[c] \in Nat /\ executed'[c] \in Nat /\ executed[c] <= executed'[c]
             /\ OfSide(c, z) => Weight(c) \in Nat /\ Weight(c)' \in Nat /\ Weight(c)' <= Weight(c)
  <2>1. (Child(c)' <=> Child(c)) /\ (Child(c) => orders'[c].side = orders[c].side)
    BY DEF Settles, Child
  <2>2. OfSide(c, z)' <=> OfSide(c, z)
    BY <2>1 DEF OfSide
  <2>3. executed[c] \in Nat /\ executed'[c] \in Nat /\ executed[c] <= executed'[c]
    BY DEF Accounting, AccountShapes, Settles
  <2>4. OfSide(c, z) => Weight(c) \in Nat /\ Weight(c)' \in Nat /\ Weight(c)' <= Weight(c)
    BY SettledWeight DEF OfSide
  <2>. QED
    BY <2>2, <2>3, <2>4
<1>3. \A c \in OrderIds : f[c] \in Int /\ h[c] \in Int /\ h[c] <= f[c]
  <2> SUFFICES ASSUME NEW c \in OrderIds PROVE f[c] \in Int /\ h[c] \in Int /\ h[c] <= f[c]
    OBVIOUS
  <2>1. f[c] = (IF OfSide(c, s) THEN Weight(c) ELSE 0) /\ h[c] = (IF OfSide(c, s)' THEN Weight(c)' ELSE 0)
    BY <1>1 DEF Heavy
  <2>. QED
    BY <1>2, <2>1
<1>4. \A c \in OrderIds : g[c] \in Int /\ k[c] \in Int /\ g[c] <= k[c]
  <2> SUFFICES ASSUME NEW c \in OrderIds PROVE g[c] \in Int /\ k[c] \in Int /\ g[c] <= k[c]
    OBVIOUS
  <2>1. PICK z : z = Opposite(s)
    OBVIOUS
  <2>2. g[c] = (IF OfSide(c, z) THEN executed[c] ELSE 0) /\ k[c] = (IF OfSide(c, z)' THEN executed'[c] ELSE 0)
    BY <1>1, <2>1 DEF Traded, Opposite
  <2>. QED
    BY <1>2, <2>2
<1>5. SumFunctionOnSet(h, OrderIds) <= SumFunctionOnSet(f, OrderIds)
  BY <1>0, <1>3, SumLess
<1>6. SumFunctionOnSet(g, OrderIds) <= SumFunctionOnSet(k, OrderIds)
  BY <1>0, <1>4, SumLess
<1>7. /\ SumFunctionOnSet(f, OrderIds) \in Int /\ SumFunctionOnSet(h, OrderIds) \in Int
      /\ SumFunctionOnSet(g, OrderIds) \in Int /\ SumFunctionOnSet(k, OrderIds) \in Int
  BY <1>0, <1>3, <1>4, SumInt
<1>. QED
  BY <1>1, <1>5, <1>6, <1>7

LEMMA SettledLimit ==
  ASSUME IInv, IInv', Accounting, Accounting', Market, Market', Rounds, Successors, Limited, Settles,
         \A s \in Sides : Cleared(s)' \in {0, Cleared(s)}
  PROVE  Limited'
<1> SUFFICES ASSUME MaxPositionQuantity > 0, NEW s \in Sides
             PROVE  SumFunctionOnSet(Heavy(s), OrderIds)' - SumFunctionOnSet(Traded(Opposite(s)), OrderIds)'
                       + Cleared(s)' <= MaxPositionQuantity
  BY DEF Limited
<1>1. Cleared(s) \in Nat /\ Cleared(s)' \in Nat /\ Cleared(s)' <= Cleared(s)
  BY ClearedNat
<1>2. SumFunctionOnSet(Heavy(s), OrderIds) - SumFunctionOnSet(Traded(Opposite(s)), OrderIds) + Cleared(s)
         <= MaxPositionQuantity
  BY DEF Limited
<1>3. MaxPositionQuantity \in Nat
  BY RiskLimitsAssumption
<1>. QED
  BY <1>1, <1>2, <1>3, SettledSums

LEMMA ClearedStill ==
  ASSUME (pc'["order"] = pc["order"] /\ job'["order"] = job["order"]) \/ pc'["order"] # "slice"
  PROVE  \A s \in Sides : Cleared(s)' \in {0, Cleared(s)}
  BY DEF Cleared

LEMMA SidesStill ==
  ASSUME IInv, OneSide, parentOf' = parentOf,
         \A x \in OrderIds : Tracked(x) => orders'[x].side = orders[x].side,
         \A t \in Threads : Holds(t)' => \/ Holds(t) /\ job'[t] = job[t]
                                         \/ job'[t].order.side = orders'[job'[t].id].side
  PROVE  OneSide'
<1>1. ASSUME NEW c \in OrderIds, Child(c) PROVE orders'[c].side = orders'[parentOf[c]].side
  <2>1. Tracked(c) /\ Tracked(parentOf[c]) /\ parentOf[c] \in OrderIds
    BY <1>1, Ids DEF IInv, Family, RouterShapes, Child
  <2>2. orders[c].side = orders[parentOf[c]].side
    BY <1>1 DEF OneSide
  <2>. QED
    BY <2>1, <2>2
<1>2. ASSUME NEW t \in Threads, Holds(t)' PROVE job'[t].order.side = orders'[job'[t].id].side
  <2>1. CASE Holds(t) /\ job'[t] = job[t]
    <3>1. job[t].order.side = orders[job[t].id].side
      BY <2>1 DEF OneSide
    <3>2. CASE pc[t] \in {"route", "slice"}
      <4>1. job[t].id \in OrderIds /\ Tracked(job[t].id)
        BY <3>2 DEF IInv, Working
      <4>. QED
        BY <2>1, <3>1, <4>1
    <3>3. CASE t = "exec" /\ pc[t] = "admit"
      <4>1. Open(job[t].id)
        BY <3>3 DEF IInv, Working
      <4>2. job[t].id \in OrderIds /\ Tracked(job[t].id)
        BY <4>1 DEF Open, Tracked
      <4>. QED
        BY <2>1, <3>1, <4>2
    <3>. QED
      BY <2>1, <3>2, <3>3 DEF Holds
  <2>. QED
    BY <1>2, <2>1
<1>3. (\A c \in OrderIds : Child(c) => orders[c].side = orders[parentOf[c]].side)'
  BY <1>1 DEF Child
<1>4. (\A t \in Threads : Holds(t) => job[t].order.side = orders[job[t].id].side)'
  BY <1>2
<1>. QED
  BY <1>3, <1>4 DEF OneSide

SideKept ==
    /\ \A x \in OrderIds : Tracked(x) => orders'[x].side = orders[x].side
    /\ \A t \in Threads : Holds(t)' => \/ Holds(t) /\ job'[t] = job[t]
                                       \/ job'[t].order.side = orders'[job'[t].id].side
    /\ (pc'["order"] = pc["order"] /\ job'["order"] = job["order"]) \/ pc'["order"] # "slice"

LEMMA SettledExposed ==
  ASSUME IInv, IInv', Accounting, Accounting', Market, Market', Rounds, Exposed, Settles, SideKept
  PROVE  Exposed'
<1>1. OneSide'
  BY SidesStill DEF SideKept, Settles, Exposed
<1>2. Successors'
  BY SettledSuccessors DEF Exposed
<1>3. Limited'
  BY SettledLimit, ClearedStill DEF SideKept, Exposed
<1>. QED
  BY <1>1, <1>2, <1>3 DEF Exposed

(* Steps that leave the orders and the market as they are. *)
LEMMA StillSettles ==
  ASSUME IInv, Accounting, Market, SameMarket, orders' = orders, \A p \in OrderIds : SendsRest(p)' => SendsRest(p)
  PROVE  Settles
<1>1. parentOf' = parentOf /\ executed' = executed
  BY DEF SameMarket
<1>2. \A c \in OrderIds : Busy(c)' => Busy(c)
  BY MarketStill
<1>3. \A c \in OrderIds : executed[c] \in Nat
  BY DEF Accounting, AccountShapes
<1>4. \A p : Rest(p)' = Rest(p)
  BY DEF Rest
<1>. QED
  BY <1>1, <1>2, <1>3, <1>4 DEF Settles

LEMMA IdleSettles ==
  ASSUME IInv, Accounting, Market, Idles
  PROVE  Settles /\ SideKept
<1>t. "order" \in Threads /\ "exec" \in Threads
  BY DEF Threads
<1>1. /\ \A t \in Threads : pc'[t] = pc[t] \/ (pc[t] # "slice" /\ pc'[t] \notin {"admit", "route", "slice"})
      /\ UNCHANGED <<orders, parentOf, job, deferred>>
  BY DEF Idles
<1>2. SameMarket
  BY DEF Idles, SameMarket
<1>3. \A p \in OrderIds : SendsRest(p)' => SendsRest(p)
  BY <1>1, <1>t DEF SendsRest, Prepares
<1>4. Settles
  BY <1>1, <1>2, <1>3, StillSettles
<1>5. SideKept
  BY <1>1, <1>t DEF SideKept, Holds
<1>. QED
  BY <1>4, <1>5

LEMMA SubmitSettles ==
  ASSUME IInv, Accounting, Market, NEW side \in SideChoices, NEW quantity \in Quantities, NEW tif \in TifChoices,
         NEW strategy \in Strategies, SubmitOrder(side, quantity, tif, strategy)
  PROVE  Settles /\ SideKept
<1>1. UNCHANGED <<executed, reportQueue, parentOf, orders, deferred, job, pc, sending, activeOrders, pendingQueue>>
  BY DEF SubmitOrder, exchangeVars, handlerVars, riskVars, threadVars
<1>2. SameMarket
  BY <1>1, SameBooks DEF SameMarket
<1>3. \A p \in OrderIds : SendsRest(p)' => SendsRest(p)
  BY <1>1 DEF SendsRest, Prepares
<1>4. SideKept
  BY <1>1 DEF SideKept, Holds
<1>. QED
  BY <1>1, <1>2, <1>3, <1>4, StillSettles

LEMMA TakeSettles ==
  ASSUME IInv, Accounting, Market, PopOrder, orderQueue # << >>
  PROVE  Settles /\ SideKept
<1>1. UNCHANGED <<executed, reportQueue, parentOf, orders, deferred, sending, activeOrders, pendingQueue>>
  BY DEF PopOrder, exchangeVars, handlerVars
<1>t. "order" \in Threads /\ "exec" \in Threads /\ \A z \in Threads : z = "order" \/ z = "exec"
  BY DEF Threads
<1>2. job' = [job EXCEPT !["order"] = Head(orderQueue)] /\ pc' = [pc EXCEPT !["order"] = "admit"]
  BY DEF PopOrder, GoTo
<1>3. pc'["order"] = "admit" /\ pc'["exec"] = pc["exec"]
  BY <1>2, <1>t, StepsOn
<1>4. job'["exec"] = job["exec"]
  BY <1>2, <1>t DEF IInv, ThreadShapes
<1>5. SameMarket
  BY <1>1, SameBooks DEF SameMarket
<1>6. \A p \in OrderIds : SendsRest(p)' => SendsRest(p)
  BY <1>1, <1>3, <1>4 DEF SendsRest, Prepares
<1>7. SideKept
  BY <1>1, <1>3, <1>4, <1>t DEF SideKept, Holds
<1>. QED
  BY <1>1, <1>5, <1>6, <1>7, StillSettles

\* The execution thread has passed its second check; the order thread, whose order
\* is new, comes further down.
LEMMA DecideKept ==
  ASSUME IInv, Accounting, Market, NEW t \in Threads, NEW d, Decides(t, d)
  PROVE  Settles /\ \A z \in Threads : Holds(z)' => Holds(z) /\ job'[z] = job[z]
<1>1. UNCHANGED <<executed, reportQueue, parentOf, orders, deferred, job, sending, activeOrders, pendingQueue>>
  BY DEF Decides
<1>t. "order" \in Threads /\ "exec" \in Threads
  BY DEF Threads
<1>2. pc[t] = "route" /\ pc'[t] = "slice" /\ \A z \in Threads : z # t => pc'[z] = pc[z]
  BY StepsOn DEF Decides
<1>3. SameMarket
  BY <1>1, SameBooks DEF SameMarket
<1>4. \A p \in OrderIds : SendsRest(p)' => SendsRest(p)
  BY <1>1, <1>2, <1>t DEF SendsRest, Prepares
<1>5. \A z \in Threads : Holds(z)' => Holds(z) /\ job'[z] = job[z]
  BY <1>1, <1>2 DEF Holds
<1>. QED
  BY <1>1, <1>3, <1>4, <1>5, StillSettles

LEMMA DecideSettles ==
  ASSUME IInv, Accounting, Market, NEW d, Decides("exec", d)
  PROVE  Settles /\ SideKept
<1>t. "order" \in Threads /\ "exec" \in Threads /\ "order" # "exec"
  BY DEF Threads
<1>1. Settles /\ \A z \in Threads : Holds(z)' => Holds(z) /\ job'[z] = job[z]
  BY <1>t, DecideKept
<1>2. orders' = orders /\ job' = job
  BY DEF Decides
<1>3. pc'["order"] = pc["order"]
  BY <1>t, StepsOn DEF Decides
<1>. QED
  BY <1>1, <1>2, <1>3 DEF SideKept

LEMMA DeliverSettles ==
  ASSUME IInv, Accounting, Market, Rounds, lostReports' = << >>,
         NEW t \in Threads, NEW c \in OrderIds, NEW v \in Venues, Delivers(t, c, v)
  PROVE  Settles /\ SideKept
<1>t. "order" \in Threads /\ "exec" \in Threads
  BY DEF Threads
<1>1. \A x \in OrderIds : Busy(x)' => Busy(x)
  BY DeliverMarket
<1>2. slices[t] = << >> /\ pc[t] = "send"
  BY DEF Delivers, Rounds, Slices
<1>3. PICK to : to = Drain(t)
  OBVIOUS
<1>4. pc' = [pc EXCEPT ![t] = to] /\ to \notin {"admit", "route", "slice"}
  BY <1>2, <1>3 DEF Delivers, Drain
<1>5. \A z \in Threads : \/ pc'[z] = pc[z]
                         \/ pc[z] # "slice" /\ pc'[z] \notin {"admit", "route", "slice"}
  BY <1>2, <1>4, Elsewhere
<1>6. UNCHANGED <<orders, parentOf, executed, job, deferred>>
  BY DEF Delivers
<1>7. \A p \in OrderIds : SendsRest(p)' => SendsRest(p)
  BY <1>5, <1>6, <1>t DEF SendsRest, Prepares
<1>8. SideKept
  BY <1>5, <1>6, <1>t DEF SideKept, Holds
<1>9. \A x \in OrderIds : executed[x] \in Nat
  BY DEF Accounting, AccountShapes
<1>10. \A p : Rest(p)' = Rest(p)
  BY <1>6 DEF Rest
<1>. QED
  BY <1>1, <1>6, <1>7, <1>8, <1>9, <1>10 DEF Settles

LEMMA OutcomeExecutes ==
  ASSUME NEW v \in Venues, NEW c \in OrderIds, Outcome(v, c)
  PROVE  \E n \in Nat : Executes(c, n)
<1>1. 0 \in Nat
  OBVIOUS
<1>. QED
  BY <1>1 DEF Outcome, EndsUnfilled, EndsFilled, EndsInPart, StaysInPart, StaysMissed

LEMMA VenueSettles ==
  ASSUME IInv, IInv', Accounting, Accounting', Market, Rounds, lostReports' = << >>, NEW v \in Venues, VenueStep(v)
  PROVE  Settles /\ SideKept
<1>1. /\ UNCHANGED <<handlerVars, riskVars, gatewayVars, threadVars, connected>>
      /\ \/ UNCHANGED <<activeOrders, pendingQueue, reportQueue, lostReports, executed>>
         \/ \E id \in OrderIds : batch[v] > 0 /\ id = Head(pendingQueue[v]) /\ Outcome(v, id)
  BY Outcomes DEF Accounting, AccountShapes
<1>2. UNCHANGED <<orders, parentOf, carried, clientQty, orderQueue, job, slices, completed, deferred, sending, pc>>
  BY <1>1 DEF handlerVars, gatewayVars, threadVars
<1>3. CASE UNCHANGED <<activeOrders, pendingQueue, reportQueue, lostReports, executed>>
  <2>1. Idles
    BY <1>2, <1>3, SameBooks DEF Idles
  <2>. QED
    BY <2>1, IdleSettles
<1>4. CASE \E id \in OrderIds : batch[v] > 0 /\ id = Head(pendingQueue[v]) /\ Outcome(v, id)
  <2>1. PICK c \in OrderIds : batch[v] > 0 /\ c = Head(pendingQueue[v]) /\ Outcome(v, c)
    BY <1>4
  <2>2. AtFront(v, c)
    BY <1>2, <2>1 DEF AtFront
  <2>3. \A x \in OrderIds : Busy(x)' => Busy(x)
    BY <2>1, <2>2, OutcomeMarket
  <2>4. Busy(c)
    BY <2>2, Visited DEF AtFront, Busy
  <2>5. PICK n \in Nat : Executes(c, n)
    BY <2>1, OutcomeExecutes
  <2>6. \A x \in OrderIds : executed[x] \in Nat /\ executed'[x] = IF x = c THEN executed[x] + n ELSE executed[x]
    BY <2>5 DEF Executes, Accounting, AccountShapes
  <2>7. \A x \in OrderIds : executed[x] <= executed'[x] /\ (executed'[x] # executed[x] => Busy(x))
    BY <2>4, <2>6
  <2>8. \A p : (SendsRest(p)' <=> SendsRest(p)) /\ Rest(p)' = Rest(p)
    BY <1>2 DEF SendsRest, Prepares, Rest
  <2>9. Settles
    BY <1>2, <2>3, <2>7, <2>8 DEF Settles
  <2>10. SideKept
    BY <1>2 DEF SideKept, Holds
  <2>. QED
    BY <2>9, <2>10
<1>. QED
  BY <1>1, <1>3, <1>4

LEMMA AdmitSettles ==
  ASSUME IInv, Accounting, Market, Rounds, OneSide,
         NEW t \in Threads, NEW p \in OrderIds, NEW o \in OrderShape, Admits(t, p, o)
  PROVE  Settles /\ SideKept
<1>1. UNCHANGED <<executed, reportQueue, parentOf, deferred, job, slices, sending, activeOrders, pendingQueue>>
  BY DEF Admits
<1>t. "order" \in Threads /\ "exec" \in Threads /\ \A z \in Threads : z = "order" \/ z = "exec"
  BY DEF Threads
<1>2. pc[t] = "admit" /\ pc'[t] = "route" /\ \A z \in Threads : z # t => pc'[z] = pc[z]
  BY StepsOn DEF Admits
<1>p. p = job[t].id /\ ~Child(p) /\ Prepares(t)
  BY <1>2 DEF Admits, Prepares
<1>3. \A x \in OrderIds : orders'[x] = IF x = p THEN o ELSE orders[x]
  BY DEF Admits, IInv, RouterShapes
<1>o. o.side = job[t].order.side /\ o.quantity = job[t].order.quantity /\ o.filled = 0
      /\ o.quantity \in Nat
  <2>1. PICK j \in OrderShape : j = job[t].order
    BY DEF Admits
  <2>2. o = [j EXCEPT !.state = "PendingNew"]
    BY <2>1 DEF Admits
  <2>3. o.side = j.side /\ o.quantity = j.quantity /\ o.filled = j.filled
    BY <2>2 DEF OrderShape
  <2>4. j.filled = 0
    BY <1>2, <2>1 DEF Accounting, FreshJobs
  <2>5. o.quantity \in Nat
    BY DEF OrderShape
  <2>. QED
    BY <2>1, <2>3, <2>4, <2>5
<1>c. \A x \in OrderIds : Child(x) => orders'[x] = orders[x]
  BY <1>p, <1>3
<1>4. SameMarket
  BY <1>1, <1>c, SameBooks DEF SameMarket
<1>5. \A x \in OrderIds : Busy(x)' => Busy(x)
  BY <1>4, MarketStill
<1>6. ASSUME NEW x \in OrderIds, SendsRest(x)' PROVE SendsRest(x) /\ Rest(x)' = Rest(x)
  <2>1. SendsRest(x)
    BY <1>1, <1>2, <1>6, <1>t DEF SendsRest, Prepares
  <2>2. CASE x # p
    BY <1>3, <2>1, <2>2 DEF Rest
  <2>3. CASE x = p
    <3>1. ~Childless(p)
      BY <2>1, <2>3 DEF SendsRest, Rounds, NextRound, Returned
    <3>2. t = "exec"
      BY <1>p, <1>t, <3>1 DEF Rounds, FirstRound
    <3>3. job[t].order.quantity = Rest(p)
      BY <1>2, <1>p, <3>2 DEF Rounds, JobSizes
    <3>4. Rest(p)' = o.quantity - 0
      BY <1>3, <1>o DEF Rest
    <3>. QED
      BY <1>o, <2>1, <2>3, <3>3, <3>4
  <2>. QED
    BY <2>2, <2>3
<1>7. \A x \in OrderIds : executed[x] \in Nat
  BY DEF Accounting, AccountShapes
<1>8. Settles
  BY <1>1, <1>5, <1>6, <1>7, <1>c DEF Settles
<1>9. \A x \in OrderIds : Tracked(x) => orders'[x].side = orders[x].side
  <2>1. SUFFICES ASSUME Tracked(p) PROVE o.side = orders[p].side
    BY <1>3
  <2>2. t = "exec"
    BY <1>t, <2>1 DEF Admits
  <2>. QED
    BY <1>2, <1>o, <1>p, <2>2 DEF OneSide, Holds
<1>10. ASSUME NEW z \in Threads, Holds(z)'
       PROVE  (Holds(z) /\ job'[z] = job[z]) \/ job'[z].order.side = orders'[job'[z].id].side
  <2>1. CASE z = t
    BY <1>1, <1>3, <1>o, <1>p, <2>1
  <2>2. CASE z # t
    BY <1>1, <1>2, <1>10, <2>2 DEF Holds
  <2>. QED
    BY <2>1, <2>2
<1>11. (pc'["order"] = pc["order"] /\ job'["order"] = job["order"]) \/ pc'["order"] # "slice"
  BY <1>1, <1>2, <1>t
<1>. QED
  BY <1>8, <1>9, <1>10, <1>11 DEF SideKept

LEMMA HandleSettles ==
  ASSUME IInv, IInv', Accounting, Market, Rounds, Rounds',
         NEW r, NEW c \in OrderIds, NEW p \in OrderIds, Handles(r, c, p)
  PROVE  Settles /\ SideKept
<1>1. /\ UNCHANGED <<executed, parentOf, job>>
      /\ r \in ReportShape /\ c = r.id /\ Child(c) /\ p = parentOf[c] /\ ~Child(p) /\ p # c /\ Tracked(c)
      /\ pc["exec"] = "reports" /\ pc' = [pc EXCEPT !["exec"] = "deferred"]
      /\ reportQueue # << >> /\ r = Head(reportQueue) /\ reportQueue' = Tail(reportQueue)
      /\ \A x \in OrderIds : x \notin {c, p} => orders'[x] = orders[x]
      /\ orders'[c] = AfterReport(orders[c], r)
      /\ orders'[p].side = orders[p].side /\ orders'[p].quantity = orders[p].quantity
      /\ orders'[p].filled = Fills(p, r)
      /\ deferred'.id = c
  BY DEF Handles
<1>t. "order" \in Threads /\ "exec" \in Threads /\ "order" # "exec"
  BY DEF Threads
<1>2. pc'["exec"] = "deferred" /\ pc'["order"] = pc["order"]
  <2>2. pc' = [pc EXCEPT !["exec"] = "deferred"]
    BY <1>1
  <2>. QED
    BY <1>t, <2>2, StepsOn
<1>3. /\ \A x \in OrderIds : Busy(x)' => Busy(x)
      /\ Busy(c) /\ orders'[c].quantity = orders[c].quantity
  BY HandleMarket
<1>4. orders'[c].side = orders[c].side
  <2>1. orders[c] \in OrderShape
    BY DEF IInv, RouterShapes
  <2>. QED
    BY <1>1, <2>1, ReportedFields
<1>5. \A x \in OrderIds : orders'[x].side = orders[x].side
                          /\ (Child(x) => orders'[x].quantity = orders[x].quantity)
  BY <1>1, <1>3, <1>4
<1>6. ASSUME NEW x \in OrderIds, SendsRest(x)'
      PROVE  \E b \in OrderIds : Busy(b) /\ parentOf[b] = x /\ orders'[b].quantity - executed'[b] = Rest(x)'
  <2>1. deferred'.reroute /\ x = p
    BY <1>1, <1>2, <1>6 DEF SendsRest, Prepares
  <2>2. Calm(p)'
    BY <1>1, <2>1 DEF Rounds, NextRound, Returned
  <2>3. ~About(c, reportQueue')
    <3>1. ~Busy(c)'
      BY <1>1, <2>2 DEF Calm
    <3>. QED
      BY <3>1 DEF Busy
  <2>4. InReports(c, reportQueue') = 0
    <3>1. \A i \in 1 .. Len(reportQueue') : reportQueue'[i].id # c
      BY <2>3 DEF About
    <3>2. reportQueue' \in Seq(ReportShape)
      BY DEF IInv, VenueShapes
    <3>. QED
      BY <3>1, <3>2, InReportsNone
  <2>5. InReports(c, reportQueue) = r.last + 0
    <3>1. InReports(c, reportQueue) = Share(c, r) + InReports(c, reportQueue)'
      BY <1>1, PoppedAbout
    <3>2. InReports(c, reportQueue)' = InReports(c, reportQueue')
      BY DEF InReports
    <3>. QED
      BY <1>1, <2>4, <3>1, <3>2 DEF Share
  <2>6. PICK f \in Nat, q \in Nat, l \in Nat : f = orders[p].filled /\ q = orders[p].quantity /\ l = r.last
    <3>1. orders[p] \in OrderShape
      BY DEF IInv, RouterShapes
    <3>. QED
      BY <1>1, <3>1 DEF OrderShape, ReportShape
  <2>7. orders[c].quantity = q /\ executed[c] = f + l
    BY <1>1, <1>3, <2>5, <2>6 DEF Rounds, InStep
  <2>8. Rest(p)' = q - (f + l)
    BY <1>1, <2>6 DEF Rest, Fills
  <2>. QED
    BY <1>1, <1>3, <2>1, <2>7, <2>8
<1>7. \A x \in OrderIds : executed[x] \in Nat
  BY DEF Accounting, AccountShapes
<1>8. Settles
  BY <1>1, <1>3, <1>5, <1>6, <1>7 DEF Settles
<1>9. \A z \in Threads : Holds(z)' => Holds(z)
  <2>1. \A z \in Threads : z = "order" \/ z = "exec"
    BY DEF Threads
  <2>. QED
    BY <1>2, <2>1 DEF Holds
<1>10. SideKept
  BY <1>1, <1>2, <1>5, <1>9 DEF SideKept
<1>. QED
  BY <1>8, <1>10

LEMMA RunSettles ==
  ASSUME IInv, Accounting, Market, NEW c \in OrderIds, Runs(c)
  PROVE  Settles /\ SideKept
<1>1. /\ UNCHANGED <<activeOrders, pendingQueue, reportQueue, executed, orders, parentOf, sending>>
      /\ c = deferred.id /\ Child(c) /\ pc["exec"] = "deferred"
      /\ deferred' = Nothing
      /\ \/ /\ deferred.reroute /\ job' = [job EXCEPT !["exec"] = RerouteJob(parentOf[c])]
            /\ pc' = [pc EXCEPT !["exec"] = "admit"]
         \/ ~deferred.reroute /\ job' = job /\ pc' = [pc EXCEPT !["exec"] = "reports"]
  BY DEF Runs
<1>t. "order" \in Threads /\ "exec" \in Threads /\ "order" # "exec" /\ \A z \in Threads : z = "order" \/ z = "exec"
  BY DEF Threads
<1>p. PICK p \in OrderIds : p = parentOf[c]
  <2>1. parentOf[c] \in OrderIds
    BY <1>1, Ids DEF IInv, RouterShapes, Child
  <2>. QED
    BY <2>1
<1>0. Nothing.reroute = FALSE
  BY DEF Nothing
<1>j. PICK j : j = RerouteJob(p)
  OBVIOUS
<1>k. j.id = p /\ j.order.side = orders[p].side
  <2>1. PICK o \in OrderShape : o = orders[p]
    BY DEF IInv, RouterShapes
  <2>2. j = [id |-> p, order |-> [o EXCEPT !.quantity = o.remaining, !.filled = 0, !.state = "New"]]
    BY <1>j, <2>1 DEF RerouteJob
  <2>3. j.id = p /\ j.order.side = o.side
    BY <2>2 DEF OrderShape
  <2>. QED
    BY <2>1, <2>3
<1>2. pc'["order"] = pc["order"] /\ job'["order"] = job["order"]
  <2>1. job = [z \in Threads |-> job[z]] /\ pc = [z \in Threads |-> pc[z]]
    BY DEF IInv, ThreadShapes
  <2>. QED
    BY <1>1, <1>t, <2>1
<1>3. \/ deferred.reroute /\ job'["exec"] = j /\ pc'["exec"] = "admit"
      \/ ~deferred.reroute /\ job'["exec"] = job["exec"] /\ pc'["exec"] = "reports"
  <2>1. job = [z \in Threads |-> job[z]] /\ pc = [z \in Threads |-> pc[z]]
    BY DEF IInv, ThreadShapes
  <2>. QED
    BY <1>1, <1>t, <1>p, <1>j, <2>1
<1>4. SameMarket
  BY <1>1, SameBooks DEF SameMarket
<1>5. \A x \in OrderIds : SendsRest(x)' => SendsRest(x)
  BY <1>0, <1>1, <1>3, <1>k, <1>p DEF SendsRest, Prepares
<1>6. Settles
  BY <1>1, <1>4, <1>5, StillSettles
<1>7. ASSUME NEW z \in Threads, Holds(z)'
      PROVE  (Holds(z) /\ job'[z] = job[z]) \/ job'[z].order.side = orders'[job'[z].id].side
  <2>1. CASE z = "order"
    BY <1>2, <1>7, <2>1 DEF Holds
  <2>2. CASE z = "exec"
    BY <1>1, <1>3, <1>7, <1>k, <2>2 DEF Holds
  <2>. QED
    BY <1>t, <2>1, <2>2
<1>8. SideKept
  BY <1>1, <1>2, <1>7 DEF SideKept
<1>. QED
  BY <1>6, <1>8

-----------------------------------------------------------------------------
(* What the risk manager counts as pending covers what is not yet recorded. *)

Pending(s)    == IF s = "Buy" THEN position.pendingBuy ELSE position.pendingSell
Awaited(s)    == [c \in OrderIds |-> IF OfSide(c, s) THEN orders[c].quantity - fills[c] ELSE 0]
PendingCovers == \A s \in Sides : SumFunctionOnSet(Awaited(s), OrderIds) <= Pending(s)

LEMMA AwaitedInt ==
  ASSUME IInv, Accounting, NEW s
  PROVE  /\ IsFiniteSet(OrderIds) /\ \A c \in OrderIds : Awaited(s)[c] \in Int
         /\ SumFunctionOnSet(Awaited(s), OrderIds) \in Int
         /\ Pending(s) \in Nat
<1>1. IsFiniteSet(OrderIds)
  BY FiniteAssumption
<1>2. ASSUME NEW c \in OrderIds PROVE Awaited(s)[c] \in Int
  <2>1. orders[c] \in OrderShape /\ fills[c] \in Nat
    BY DEF IInv, RouterShapes, Accounting, AccountShapes
  <2>2. orders[c].quantity \in Nat
    BY <2>1 DEF OrderShape
  <2>3. orders[c].quantity - fills[c] \in Int
    BY <2>1, <2>2
  <2>. QED
    BY <2>3 DEF Awaited
<1>3. SumFunctionOnSet(Awaited(s), OrderIds) \in Int
  BY <1>1, <1>2, SumInt
<1>4. position \in PositionType
  BY DEF IInv, RouterShapes
<1>. QED
  BY <1>1, <1>2, <1>3, <1>4 DEF Pending, PositionType

LEMMA CoversStill ==
  ASSUME IInv, Accounting, PendingCovers, Settles, fills' = fills, position' = position
  PROVE  PendingCovers'
<1> SUFFICES ASSUME NEW s \in Sides PROVE SumFunctionOnSet(Awaited(s), OrderIds)' <= Pending(s)'
  BY DEF PendingCovers
<1>1. PICK f, h : f = Awaited(s) /\ h = Awaited(s)'
  OBVIOUS
<1>2. \A c \in OrderIds : f[c] \in Int /\ h[c] = f[c]
  <2>1. ASSUME NEW c \in OrderIds PROVE h[c] = f[c]
    <3>1. OfSide(c, s)' <=> OfSide(c, s)
      BY DEF Settles, OfSide, Child
    <3>2. OfSide(c, s) => orders'[c].quantity = orders[c].quantity
      BY DEF Settles, OfSide
    <3>3. f[c] = (IF OfSide(c, s) THEN orders[c].quantity - fills[c] ELSE 0)
      BY <1>1 DEF Awaited
    <3>4. h[c] = (IF OfSide(c, s)' THEN orders'[c].quantity - fills'[c] ELSE 0)
      BY <1>1 DEF Awaited
    <3>. QED
      BY <3>1, <3>2, <3>3, <3>4
  <2>. QED
    BY <1>1, <2>1, AwaitedInt
<1>3. SumFunctionOnSet(h, OrderIds) = SumFunctionOnSet(f, OrderIds)
  BY <1>2, AwaitedInt, SumSame
<1>4. Pending(s)' = Pending(s)
  BY DEF Pending
<1>. QED
  BY <1>1, <1>3, <1>4 DEF PendingCovers

\* An execution leaves what is awaited as it leaves what is pending, or leaves less.
LEMMA RunCovers ==
  ASSUME IInv, Accounting, PendingCovers, NEW c \in OrderIds, Runs(c)
  PROVE  PendingCovers'
<1> SUFFICES ASSUME NEW s \in Sides PROVE SumFunctionOnSet(Awaited(s), OrderIds)' <= Pending(s)'
  BY DEF PendingCovers
<1>1. PICK f, h : f = Awaited(s) /\ h = Awaited(s)'
  OBVIOUS
<1>n. PICK n \in Nat : n = deferred.fill
  <2>1. deferred \in DeferShape
    BY DEF IInv, ThreadShapes
  <2>. QED
    BY <2>1 DEF DeferShape
<1>u. UNCHANGED <<orders, parentOf>> /\ Child(c) /\ fills' = [fills EXCEPT ![c] = @ + n]
  BY <1>n DEF Runs
<1>a. fills \in [OrderIds -> Nat]
  BY DEF Accounting, AccountShapes
<1>2. \A x \in OrderIds : fills'[x] = IF x = c THEN fills[x] + n ELSE fills[x]
  BY <1>u, <1>a
<1>m. PICK m \in Int : m = IF OfSide(c, s) THEN -n ELSE 0
  OBVIOUS
<1>3. ASSUME NEW x \in OrderIds PROVE f[x] \in Int /\ h[x] = f[x] + (IF x = c THEN m ELSE 0)
  <2>1. f[x] \in Int
    BY <1>1, AwaitedInt
  <2>2. f[x] = (IF OfSide(x, s) THEN orders[x].quantity - fills[x] ELSE 0)
    BY <1>1 DEF Awaited
  <2>3. h[x] = (IF OfSide(x, s) THEN orders[x].quantity - fills'[x] ELSE 0)
    <3>1. OfSide(x, s)' <=> OfSide(x, s)
      BY <1>u DEF OfSide, Child
    <3>. QED
      BY <1>1, <1>u, <3>1 DEF Awaited
  <2>4. PICK q \in Nat, k \in Nat : q = orders[x].quantity /\ k = fills[x]
    <3>1. orders[x] \in OrderShape
      BY DEF IInv, RouterShapes
    <3>. QED
      BY <1>a, <3>1 DEF OrderShape
  <2>5. CASE x = c /\ OfSide(x, s)
    <3>1. f[x] = q - k /\ h[x] = q - (k + n) /\ m = -n
      BY <1>2, <1>m, <2>2, <2>3, <2>4, <2>5
    <3>. QED
      BY <2>1, <2>5, <3>1
  <2>6. CASE ~(x = c /\ OfSide(x, s))
    <3>1. h[x] = f[x]
      BY <1>2, <2>2, <2>3, <2>6
    <3>. QED
      BY <1>m, <2>1, <2>6, <3>1
  <2>. QED
    BY <2>5, <2>6
<1>4. Bumps(f, h, OrderIds, c, m)
  BY <1>3, AwaitedInt DEF Bumps
<1>5. PICK a \in Int : a = SumFunctionOnSet(f, OrderIds)
  BY <1>1, AwaitedInt
<1>6. SumFunctionOnSet(h, OrderIds) = a + m
  BY <1>4, <1>5, SumBump
<1>7. PICK w \in Nat : w = Pending(s)
  BY AwaitedInt
<1>8. a <= w
  BY <1>1, <1>5, <1>7 DEF PendingCovers
<1>9. Pending(s)' = IF OfSide(c, s) THEN Reduced(w, n) ELSE w
  <2>1. orders[c].side \in Sides
    <3>1. orders[c] \in OrderShape
      BY DEF IInv, RouterShapes
    <3>. QED
      BY <3>1 DEF OrderShape
  <2>2. OfSide(c, s) <=> orders[c].side = s
    BY <1>u DEF OfSide
  <2>3. CASE orders[c].side = "Buy"
    BY <1>7, <1>n, <2>1, <2>2, <2>3 DEF Runs, Pending, Sides
  <2>4. CASE orders[c].side # "Buy"
    BY <1>7, <1>n, <2>1, <2>2, <2>4 DEF Runs, Pending, Sides
  <2>. QED
    BY <2>3, <2>4
<1>10. Pending(s)' >= w + m /\ Pending(s)' \in Nat
  BY <1>7, <1>9, <1>m DEF Reduced
<1>11. a + m <= Pending(s)'
  BY <1>8, <1>10
<1>. QED
  BY <1>1, <1>6, <1>11

(* The step that hands thread t's slice over as child c.                   *)
LEMMA HandFacts ==
  ASSUME IInv, Accounting, Market, Rounds, NEW t \in Threads, NEW p \in OrderIds, NEW c \in OrderIds,
         NEW o \in OrderShape, NEW slice \in SliceShape, Hands(t, p, c, o, slice)
  PROVE  /\ executed' = executed /\ deferred' = deferred /\ job' = job /\ fills' = fills
         /\ pc[t] = "slice" /\ pc'[t] = "send" /\ p = job[t].id /\ Prepares(t)
         /\ ~Child(p) /\ Tracked(p) /\ ~Child(c) /\ ~Tracked(c) /\ p # c /\ Calm(p)
         /\ executed[c] = 0 /\ fills[c] = 0 /\ c = nextId
         /\ o.side \in Sides /\ o.side = job[t].order.side
         /\ slice.quantity \in Nat /\ slice.quantity > 0
         /\ o.quantity = slice.quantity /\ job[t].order.quantity = slice.quantity
         /\ orders[p].quantity = slice.quantity /\ orders[p].filled = 0
<1>1. pc[t] = "slice" /\ pc'[t] = "send"
  BY StepsOn DEF Hands
<1>2. p = job[t].id /\ ~Child(p) /\ Tracked(p) /\ ~Child(c) /\ ~Tracked(c) /\ p # c /\ Prepares(t)
  BY <1>1 DEF Hands, Prepares
<1>3. Calm(p)
  BY <1>2, PreparedCalm
<1>s. slice = slices[t][1] /\ slice.quantity = job[t].order.quantity
  <2>1. slices[t] \in Seq(SliceShape) /\ slices[t] # << >> /\ slice = Head(slices[t])
    BY DEF Hands, IInv, ThreadShapes
  <2>2. slice = slices[t][1]
    BY <2>1
  <2>. QED
    BY <1>1, <2>2 DEF Rounds, Slices
<1>r. Routed(t)
  BY <1>1 DEF Rounds, JobSizes
<1>4. slice.quantity \in Nat
  BY DEF SliceShape
<1>5. o.quantity = slice.quantity /\ o.side = job[t].order.side
  BY DEF Hands
<1>6. o.side \in Sides
  BY DEF OrderShape
<1>7. executed[c] = 0 /\ fills[c] = 0
  BY <1>2 DEF Accounting, ChildrenTrade
<1>8. executed' = executed /\ deferred' = deferred /\ job' = job /\ fills' = fills /\ c = nextId
  BY DEF Hands
<1>. QED
  BY <1>1, <1>2, <1>3, <1>4, <1>5, <1>6, <1>7, <1>8, <1>s, <1>r DEF Routed

LEMMA HandMaps ==
  ASSUME IInv, NEW t \in Threads, NEW p \in OrderIds, NEW c \in OrderIds, NEW o \in OrderShape, NEW slice,
         Hands(t, p, c, o, slice)
  PROVE  /\ \A z \in Threads : z # t => pc'[z] = pc[z]
         /\ \A x \in OrderIds : orders'[x] = IF x = c THEN o ELSE orders[x]
         /\ \A x \in OrderIds : parentOf'[x] = IF x = c THEN p ELSE parentOf[x]
         /\ \A x \in OrderIds : Child(x)' <=> Child(x) \/ x = c
         /\ \A s : \A x \in OrderIds : x # c => (OfSide(x, s)' <=> OfSide(x, s))
         /\ \A s : (OfSide(c, s)' <=> o.side = s) /\ ~OfSide(c, s)
<1>1. /\ \A x \in OrderIds : orders'[x] = IF x = c THEN o ELSE orders[x]
      /\ \A x \in OrderIds : parentOf'[x] = IF x = c THEN p ELSE parentOf[x]
  BY DEF Hands, IInv, RouterShapes
<1>2. \A z \in Threads : z # t => pc'[z] = pc[z]
  BY StepsOn DEF Hands
<1>3. ~Child(c) /\ p # INVALID_ORDER_ID
  BY Ids DEF Hands
<1>4. \A x \in OrderIds : Child(x)' <=> Child(x) \/ x = c
  BY <1>1, <1>3 DEF Child
<1>5. \A s : \A x \in OrderIds : x # c => (OfSide(x, s)' <=> OfSide(x, s))
  BY <1>1, <1>4 DEF OfSide
<1>6. \A s : (OfSide(c, s)' <=> o.side = s) /\ ~OfSide(c, s)
  BY <1>1, <1>3, <1>4 DEF OfSide
<1>. QED
  BY <1>1, <1>2, <1>4, <1>5, <1>6

LEMMA HandCovers ==
  ASSUME IInv, Accounting, Market, Rounds, PendingCovers, NEW t \in Threads, NEW p \in OrderIds,
         NEW c \in OrderIds, NEW o \in OrderShape, NEW slice \in SliceShape, Hands(t, p, c, o, slice)
  PROVE  PendingCovers'
<1> SUFFICES ASSUME NEW s \in Sides PROVE SumFunctionOnSet(Awaited(s), OrderIds)' <= Pending(s)'
  BY DEF PendingCovers
<1>1. PICK f, h : f = Awaited(s) /\ h = Awaited(s)'
  OBVIOUS
<1>n. PICK n \in Nat : n = slice.quantity
  BY HandFacts
<1>2. o.quantity = n /\ o.side \in Sides /\ fills' = fills /\ fills[c] = 0 /\ o.side = job[t].order.side
  BY <1>n, HandFacts
<1>m. PICK m \in Nat : m = IF o.side = s THEN n ELSE 0
  OBVIOUS
<1>3. ASSUME NEW x \in OrderIds PROVE f[x] \in Int /\ h[x] = f[x] + (IF x = c THEN m ELSE 0)
  <2>1. f[x] \in Int
    BY <1>1, AwaitedInt
  <2>2. f[x] = (IF OfSide(x, s) THEN orders[x].quantity - fills[x] ELSE 0)
    BY <1>1 DEF Awaited
  <2>3. h[x] = (IF OfSide(x, s)' THEN orders'[x].quantity - fills'[x] ELSE 0)
    BY <1>1 DEF Awaited
  <2>4. CASE x = c
    <3>1. f[x] = 0 /\ h[x] = m
      BY <1>2, <1>m, <2>2, <2>3, <2>4, HandMaps
    <3>. QED
      BY <2>4, <3>1
  <2>5. CASE x # c
    <3>1. h[x] = f[x]
      BY <1>2, <2>2, <2>3, <2>5, HandMaps
    <3>. QED
      BY <2>1, <2>5, <3>1
  <2>. QED
    BY <2>4, <2>5
<1>4. Bumps(f, h, OrderIds, c, m)
  BY <1>3, AwaitedInt DEF Bumps
<1>5. PICK a \in Int : a = SumFunctionOnSet(f, OrderIds)
  BY <1>1, AwaitedInt
<1>6. SumFunctionOnSet(h, OrderIds) = a + m
  BY <1>4, <1>5, SumBump
<1>7. PICK w \in Nat : w = Pending(s)
  BY AwaitedInt
<1>8. a <= w
  BY <1>1, <1>5, <1>7 DEF PendingCovers
<1>9. Pending(s)' = w + m
  <2>1. PICK b \in Nat, k \in Nat, i \in Nat : b = position.pendingBuy /\ k = position.pendingSell /\ i = position.open
    <3>1. position \in PositionType
      BY DEF IInv, RouterShapes
    <3>. QED
      BY <3>1 DEF PositionType
  <2>2. position' = IF o.side = "Buy" THEN [position EXCEPT !.open = i + 1, !.pendingBuy = b + n]
                    ELSE [position EXCEPT !.open = i + 1, !.pendingSell = k + n]
    <3>1. OnOrderAccepted(o.side, n)
      BY <1>2, <1>n DEF Hands
    <3>. QED
      BY <2>1, <3>1 DEF OnOrderAccepted
  <2>3. position \in PositionType
    BY DEF IInv, RouterShapes
  <2>4. CASE o.side = "Buy"
    <3>1. position'.pendingBuy = b + n /\ position'.pendingSell = k
      BY <2>1, <2>2, <2>3, <2>4 DEF PositionType
    <3>. QED
      BY <1>7, <1>m, <2>1, <2>4, <3>1 DEF Pending, Sides
  <2>5. CASE o.side # "Buy"
    <3>1. position'.pendingBuy = b /\ position'.pendingSell = k + n
      BY <2>1, <2>2, <2>3, <2>5 DEF PositionType
    <3>. QED
      BY <1>2, <1>7, <1>m, <2>1, <2>5, <3>1 DEF Pending, Sides
  <2>. QED
    BY <2>4, <2>5
<1>10. a + m <= w + m
  BY <1>8
<1>. QED
  BY <1>1, <1>6, <1>9, <1>10

LEMMA HandSides ==
  ASSUME IInv, Accounting, Market, Rounds, OneSide, NEW t \in Threads, NEW p \in OrderIds, NEW c \in OrderIds,
         NEW o \in OrderShape, NEW slice \in SliceShape, Hands(t, p, c, o, slice)
  PROVE  OneSide'
<1>1. /\ p = job[t].id /\ pc[t] = "slice" /\ pc'[t] = "send" /\ p # c /\ ~Tracked(c) /\ job' = job
      /\ o.side = job[t].order.side /\ ~Child(c)
  BY HandFacts
<1>2. ASSUME NEW x \in OrderIds, Child(x)' PROVE orders'[x].side = orders'[parentOf'[x]].side
  <2>1. CASE x = c
    <3>1. o.side = orders[p].side
      BY <1>1 DEF OneSide, Holds
    <3>2. orders'[c].side = o.side /\ parentOf'[c] = p /\ orders'[p].side = orders[p].side
      BY <1>1, HandMaps
    <3>. QED
      BY <2>1, <3>1, <3>2
  <2>2. CASE x # c
    <3>1. Child(x)
      BY <1>2, <2>2, HandMaps
    <3>2. parentOf[x] \in OrderIds /\ parentOf[x] # c
      BY <1>1, <3>1, Ids DEF IInv, RouterShapes, Family, Child
    <3>3. orders'[x] = orders[x] /\ parentOf'[x] = parentOf[x] /\ orders'[parentOf[x]] = orders[parentOf[x]]
      BY <2>2, <3>2, HandMaps
    <3>. QED
      BY <3>1, <3>3 DEF OneSide
  <2>. QED
    BY <2>1, <2>2
<1>3. ASSUME NEW z \in Threads, Holds(z)' PROVE job'[z].order.side = orders'[job'[z].id].side
  <2>1. z # t
    BY <1>1, <1>3 DEF Holds
  <2>2. Holds(z)
    BY <1>3, <2>1, HandMaps DEF Holds
  <2>3. job[z].id \in OrderIds /\ Tracked(job[z].id)
    <3>1. CASE pc[z] \in {"route", "slice"}
      BY <3>1 DEF IInv, Working
    <3>2. CASE z = "exec" /\ pc[z] = "admit"
      <4>1. Open(job[z].id)
        BY <3>2 DEF IInv, Working
      <4>. QED
        BY <4>1 DEF Open, Tracked
    <3>. QED
      BY <2>2, <3>1, <3>2 DEF Holds
  <2>4. orders'[job[z].id] = orders[job[z].id]
    BY <1>1, <2>3, HandMaps
  <2>. QED
    BY <1>1, <2>2, <2>4 DEF OneSide
<1>4. (\A x \in OrderIds : Child(x) => orders[x].side = orders[parentOf[x]].side)'
  BY <1>2
<1>5. (\A z \in Threads : Holds(z) => job[z].order.side = orders[job[z].id].side)'
  BY <1>3
<1>. QED
  BY <1>4, <1>5 DEF OneSide

\* What handing over leaves of the other thread's intention to send.
LEMMA HandSends ==
  ASSUME IInv, Accounting, Market, Rounds, NEW t \in Threads, NEW p \in OrderIds, NEW c \in OrderIds,
         NEW o \in OrderShape, NEW slice \in SliceShape, Hands(t, p, c, o, slice), NEW q, SendsRest(q)'
  PROVE  SendsRest(q) /\ t = "order" /\ q # p
<1>1. /\ p = job[t].id /\ pc[t] = "slice" /\ pc'[t] = "send" /\ job' = job /\ deferred' = deferred /\ Prepares(t)
      /\ ~Child(c)
  BY HandFacts
<1>t. "order" \in Threads /\ "exec" \in Threads /\ (t = "order" \/ t = "exec") /\ "order" # "exec"
  BY DEF Threads
<1>2. t = "order"
  <2>1. SUFFICES ASSUME t = "exec" PROVE FALSE
    BY <1>t
  <2>2. ~Prepares("exec")'
    BY <1>1, <2>1 DEF Prepares
  <2>3. ~deferred.reroute
    BY <1>1, <2>1 DEF IInv, Working
  <2>. QED
    BY <1>1, <2>2, <2>3 DEF SendsRest
<1>3. pc'["exec"] = pc["exec"]
  BY <1>t, <1>2, HandMaps
<1>4. SendsRest(q)
  <2>1. CASE deferred.reroute /\ parentOf'[deferred.id] = q
    <3>1. deferred.id \in OrderIds /\ Child(deferred.id)
      BY <2>1 DEF IInv, Working, Accounting, Callbacks
    <3>2. parentOf'[deferred.id] = parentOf[deferred.id]
      BY <1>1, <3>1, HandMaps
    <3>. QED
      BY <2>1, <3>2 DEF SendsRest
  <2>2. CASE Prepares("exec")' /\ job["exec"].id = q
    BY <1>3, <2>2 DEF SendsRest, Prepares
  <2>. QED
    BY <1>1, <2>1, <2>2 DEF SendsRest
<1>5. ~Childless(q)
  BY <1>4 DEF SendsRest, Rounds, NextRound, Returned
<1>6. Childless(p)
  BY <1>1, <1>2 DEF Rounds, FirstRound
<1>. QED
  BY <1>2, <1>4, <1>5, <1>6

LEMMA HandNewest ==
  ASSUME IInv, Accounting, Market, Rounds, NEW t \in Threads, NEW p \in OrderIds, NEW c \in OrderIds,
         NEW o \in OrderShape, NEW slice \in SliceShape, Hands(t, p, c, o, slice)
  PROVE  /\ Newest(c)'
         /\ \A x \in OrderIds : Child(x) /\ parentOf[x] # p => (Newest(x)' <=> Newest(x))
         /\ \A x \in OrderIds : Child(x) /\ Newest(x)' => Newest(x)
<1>1. ~Child(c) /\ c = nextId /\ nextId \in Nat
  BY HandFacts DEF IInv, RouterShapes
<1>2. \A x \in OrderIds : parentOf'[x] = IF x = c THEN p ELSE parentOf[x]
  BY HandMaps
<1>3. p # INVALID_ORDER_ID /\ parentOf[c] = INVALID_ORDER_ID
  BY <1>1, Ids DEF Child
<1>4. \A d \in OrderIds : parentOf'[d] = p => d <= c
  <2> SUFFICES ASSUME NEW d \in OrderIds, parentOf'[d] = p PROVE d <= c
    OBVIOUS
  <2>1. CASE d = c
    BY <1>1, <2>1
  <2>2. CASE d # c
    <3>1. Child(d)
      BY <1>2, <1>3, <2>2 DEF Child
    <3>2. d < nextId /\ d \in Nat
      BY <3>1, Ids DEF IInv, Family
    <3>. QED
      BY <1>1, <3>2
  <2>. QED
    BY <2>1, <2>2
<1>5. Newest(c)'
  BY <1>2, <1>4 DEF Newest
<1>6. ASSUME NEW x \in OrderIds, Child(x) PROVE Newest(x)' => Newest(x)
  <2>1. x # c /\ parentOf'[x] = parentOf[x]
    BY <1>1, <1>2, <1>6
  <2>2. \A d \in OrderIds : parentOf[d] = parentOf[x] => parentOf'[d] = parentOf'[x]
    BY <1>2, <1>3, <1>6, <2>1 DEF Child
  <2>. QED
    BY <2>2 DEF Newest
<1>7. ASSUME NEW x \in OrderIds, Child(x), parentOf[x] # p PROVE Newest(x) => Newest(x)'
  <2>1. x # c /\ parentOf'[x] = parentOf[x]
    BY <1>1, <1>2, <1>7
  <2>2. \A d \in OrderIds : parentOf'[d] = parentOf'[x] => parentOf[d] = parentOf[x]
    BY <1>2, <1>7, <2>1
  <2>. QED
    BY <2>2 DEF Newest
<1>. QED
  BY <1>5, <1>6, <1>7

LEMMA HandSuccessors ==
  ASSUME IInv, Accounting, Market, Rounds, Successors, NEW t \in Threads, NEW p \in OrderIds, NEW c \in OrderIds,
         NEW o \in OrderShape, NEW slice \in SliceShape, Hands(t, p, c, o, slice)
  PROVE  Successors'
<1>1. ~Child(c) /\ ~Tracked(c) /\ Calm(p) /\ executed' = executed /\ slice.quantity \in Nat /\ slice.quantity > 0
  BY HandFacts
<1>2. ASSUME NEW x \in OrderIds, Busy(x)' PROVE Newest(x)'
  <2>1. CASE x = c
    BY <2>1, HandNewest
  <2>2. CASE x # c
    <3>1. Busy(x)
      BY <1>1, <1>2, <2>2, HandMarket
    <3>2. Child(x) /\ parentOf[x] # p
      BY <1>1, <3>1, BusyChildren DEF Calm
    <3>3. Newest(x)
      BY <3>1 DEF Successors
    <3>. QED
      BY <3>2, <3>3, HandNewest
  <2>. QED
    BY <2>1, <2>2
<1>3. ASSUME NEW q \in OrderIds, SendsRest(q)'
      PROVE  \E x \in OrderIds : parentOf'[x] = q /\ Newest(x)' /\ orders'[x].quantity - executed'[x] = Rest(q)'
  <2>1. SendsRest(q) /\ q # p
    BY <1>3, HandSends
  <2>2. PICK x \in OrderIds : parentOf[x] = q /\ Newest(x) /\ orders[x].quantity - executed[x] = Rest(q)
    BY <2>1 DEF Successors
  <2>3. Child(x) /\ x # c
    BY <1>1, <2>2, Ids DEF Child
  <2>4. q # c
    BY <1>1, <2>2, <2>3 DEF IInv, Family
  <2>5. orders'[x] = orders[x] /\ parentOf'[x] = q /\ orders'[q] = orders[q]
    BY <2>2, <2>3, <2>4, HandMaps
  <2>6. Newest(x)'
    BY <2>1, <2>2, <2>3, HandNewest
  <2>7. Rest(q)' = Rest(q)
    BY <2>5 DEF Rest
  <2>. QED
    BY <1>1, <2>2, <2>5, <2>6, <2>7
<1>4. (\A x \in OrderIds : Busy(x) => Newest(x))'
  BY <1>2
<1>5. (\A q \in OrderIds : SendsRest(q) =>
          \E x \in OrderIds : parentOf[x] = q /\ Newest(x) /\ orders[x].quantity - executed[x] = Rest(q))'
  BY <1>3
<1>. QED
  BY <1>4, <1>5 DEF Successors

\* One value grows by n and another by m, at most.
LEMMA SumMoved ==
  ASSUME NEW S, IsFiniteSet(S), NEW f, NEW h, NEW x \in S, NEW b \in S, NEW n \in Int, NEW m \in Int,
         \A y \in S : f[y] \in Int /\ h[y] \in Int
                      /\ h[y] <= f[y] + (IF y = x THEN n ELSE 0) + (IF y = b THEN m ELSE 0)
  PROVE  SumFunctionOnSet(h, S) <= SumFunctionOnSet(f, S) + n + m
<1> DEFINE d == [y \in S |-> f[y] + (IF y = x THEN n ELSE 0)]
           e == [y \in S |-> d[y] + (IF y = b THEN m ELSE 0)]
<1>1. Bumps(f, d, S, x, n)
  BY DEF Bumps
<1>2. \A y \in S : d[y] \in Int /\ d[y] = f[y] + (IF y = x THEN n ELSE 0)
  OBVIOUS
<1> HIDE DEF d
<1>3. Bumps(d, e, S, b, m)
  BY <1>2 DEF Bumps
<1>4. \A y \in S : e[y] \in Int /\ e[y] = d[y] + (IF y = b THEN m ELSE 0)
  BY <1>2
<1> HIDE DEF e
<1>5. \A y \in S : h[y] \in Int /\ e[y] \in Int /\ h[y] <= e[y]
  BY <1>2, <1>4
<1>6. SumFunctionOnSet(h, S) <= SumFunctionOnSet(e, S)
  BY <1>5, SumLess
<1>7. PICK a \in Int : a = SumFunctionOnSet(f, S)
  BY SumInt
<1>8. SumFunctionOnSet(d, S) = a + n
  BY <1>1, <1>7, SumBump
<1>9. SumFunctionOnSet(e, S) = a + n + m
  BY <1>3, <1>8, SumBump
<1>10. SumFunctionOnSet(h, S) \in Int
  BY <1>5, SumInt
<1>. QED
  BY <1>6, <1>7, <1>9, <1>10

LEMMA ChildWeight ==
  ASSUME IInv, Accounting, Market, NEW c \in OrderIds
  PROVE  /\ orders[c].quantity \in Nat /\ executed[c] \in Nat /\ Weight(c) \in Nat
         /\ Child(c) => executed[c] <= orders[c].quantity /\ executed[c] <= Weight(c) /\ Weight(c) <= orders[c].quantity
<1>1. PICK q \in Nat, n \in Nat : q = orders[c].quantity /\ n = executed[c]
  <2>1. orders[c] \in OrderShape /\ executed[c] \in Nat
    BY DEF IInv, RouterShapes, Accounting, AccountShapes
  <2>. QED
    BY <2>1 DEF OrderShape
<1>2. Weight(c) = IF Current(c) THEN q ELSE n
  BY <1>1 DEF Weight
<1>3. Child(c) => n <= q
  BY <1>1 DEF Market, Executions
<1>. QED
  BY <1>1, <1>2, <1>3

\* The children that were there before do not get heavier.
LEMMA HandWeights ==
  ASSUME IInv, Accounting, Market, Rounds, NEW t \in Threads, NEW p \in OrderIds, NEW c \in OrderIds,
         NEW o \in OrderShape, NEW slice \in SliceShape, Hands(t, p, c, o, slice),
         NEW x \in OrderIds, Child(x)
  PROVE  /\ Weight(x) \in Nat /\ Weight(x)' \in Nat /\ Weight(x)' <= Weight(x)
         /\ x # c /\ executed'[x] = executed[x]
<1>1. x # c /\ executed' = executed /\ slice.quantity \in Nat /\ slice.quantity > 0
  BY HandFacts
<1>2. orders'[x] = orders[x] /\ parentOf'[x] = parentOf[x]
  BY <1>1, HandMaps
<1>3. Current(x)' => Current(x)
  <2>1. CASE Busy(x)'
    <3>1. Busy(x)
      BY <1>1, <2>1, HandMarket
    <3>. QED
      BY <3>1 DEF Current
  <2>2. CASE SendsRest(parentOf[x])' /\ Newest(x)'
    <3>1. PICK q : q = parentOf[x]
      OBVIOUS
    <3>2. Newest(x)
      BY <2>2, HandNewest
    <3>3. SendsRest(q)'
      BY <1>2, <2>2, <3>1 DEF SendsRest
    <3>4. SendsRest(q)
      BY <3>3, HandSends
    <3>. QED
      BY <3>1, <3>2, <3>4 DEF Current
  <2>3. Current(x)' => Busy(x)' \/ (SendsRest(parentOf[x])' /\ Newest(x)')
    BY DEF Current
  <2>. QED
    BY <2>1, <2>2, <2>3
<1>4. PICK q \in Nat, n \in Nat : q = orders[x].quantity /\ n = executed[x] /\ n <= q
  BY ChildWeight
<1>5. Weight(x) = (IF Current(x) THEN q ELSE n) /\ Weight(x)' = (IF Current(x)' THEN q ELSE n)
  BY <1>1, <1>2, <1>4 DEF Weight
<1>. QED
  BY <1>1, <1>3, <1>4, <1>5

\* The child that is handed over weighs what its slice asks for, and takes the weight
\* of the order as cleared, or of the child before it.
LEMMA HandLimit ==
  ASSUME IInv, IInv', Accounting, Accounting', Market, Market', Rounds, OneSide, Successors, Limited,
         NEW t \in Threads, NEW p \in OrderIds, NEW c \in OrderIds,
         NEW o \in OrderShape, NEW slice \in SliceShape, Hands(t, p, c, o, slice)
  PROVE  Limited'
<1> SUFFICES ASSUME MaxPositionQuantity > 0, NEW s \in Sides
             PROVE  SumFunctionOnSet(Heavy(s), OrderIds)' - SumFunctionOnSet(Traded(Opposite(s)), OrderIds)'
                       + Cleared(s)' <= MaxPositionQuantity
  BY DEF Limited
<1>0. IsFiniteSet(OrderIds)
  BY FiniteAssumption
<1>1. PICK f, h, g, k : f = Heavy(s) /\ h = Heavy(s)' /\ g = Traded(Opposite(s)) /\ k = Traded(Opposite(s))'
  OBVIOUS
<1>n. PICK n \in Nat : n = slice.quantity
  BY HandFacts
<1>h. /\ executed' = executed /\ job' = job /\ pc[t] = "slice" /\ pc'[t] = "send" /\ p = job[t].id
      /\ o.side = job[t].order.side /\ o.quantity = n /\ job[t].order.quantity = n
      /\ orders[p].quantity = n /\ orders[p].filled = 0 /\ ~Child(c) /\ executed[c] = 0 /\ Calm(p) /\ Prepares(t)
  BY <1>n, HandFacts
<1>w. PICK w \in Nat : w = IF o.side = s THEN n ELSE 0
  OBVIOUS
<1>t. (t = "order" \/ t = "exec") /\ "order" \in Threads /\ "exec" \in Threads /\ "order" # "exec"
  BY DEF Threads
<1>2. ASSUME NEW x \in OrderIds
      PROVE  /\ f[x] = (IF OfSide(x, s) THEN Weight(x) ELSE 0)
             /\ h[x] = (IF OfSide(x, s)' THEN Weight(x)' ELSE 0)
  BY <1>1 DEF Heavy
<1>3. f[c] = 0 /\ h[c] \in Nat /\ h[c] <= w
  <2>1. OfSide(c, s)' <=> o.side = s
    BY HandMaps
  <2>2. ~OfSide(c, s)
    BY HandMaps
  <2>3. Weight(c)' \in Nat /\ Weight(c)' <= n
    <3>1. orders'[c].quantity = n /\ executed'[c] = 0
      BY <1>h, HandMaps
    <3>2. Weight(c)' = IF Current(c)' THEN n ELSE 0
      BY <3>1 DEF Weight
    <3>. QED
      BY <3>2
  <2>. QED
    BY <1>2, <1>w, <2>1, <2>2, <2>3
<1>4. ASSUME NEW x \in OrderIds, x # c
      PROVE  f[x] \in Nat /\ h[x] \in Nat /\ h[x] <= f[x]
  <2>1. OfSide(x, s)' <=> OfSide(x, s)
    BY <1>4, HandMaps
  <2>2. OfSide(x, s) => Weight(x) \in Nat /\ Weight(x)' \in Nat /\ Weight(x)' <= Weight(x)
    BY HandWeights DEF OfSide
  <2>. QED
    BY <1>2, <2>1, <2>2
<1>5. \A x \in OrderIds : f[x] \in Int /\ h[x] \in Int
  BY <1>3, <1>4
<1>6. SumFunctionOnSet(g, OrderIds) = SumFunctionOnSet(k, OrderIds) /\ SumFunctionOnSet(g, OrderIds) \in Int
  <2>1. PICK z : z = Opposite(s)
    OBVIOUS
  <2>2. ASSUME NEW x \in OrderIds PROVE g[x] \in Int /\ k[x] = g[x]
    <3>1. g[x] = (IF OfSide(x, z) THEN executed[x] ELSE 0) /\ k[x] = (IF OfSide(x, z)' THEN executed'[x] ELSE 0)
      BY <1>1, <2>1 DEF Traded, Opposite
    <3>2. executed[x] \in Nat /\ executed'[x] = executed[x]
      BY <1>h DEF Accounting, AccountShapes
    <3>3. CASE x = c
      BY <1>h, <3>1, <3>2, <3>3
    <3>4. CASE x # c
      <4>1. OfSide(x, z)' <=> OfSide(x, z)
        BY <3>4, HandMaps
      <4>. QED
        BY <3>1, <3>2, <4>1
    <3>. QED
      BY <3>3, <3>4
  <2>3. \A x \in OrderIds : g[x] \in Int /\ k[x] = g[x]
    BY <2>2
  <2>. QED
    BY <1>0, <2>3, SumSame, SumInt
<1>7. PICK a \in Int, b \in Int, e \in Int : a = SumFunctionOnSet(f, OrderIds) /\ b = SumFunctionOnSet(h, OrderIds)
                                              /\ e = SumFunctionOnSet(g, OrderIds)
  BY <1>0, <1>5, <1>6, SumInt
<1>8. Cleared(s) \in Nat
  BY ClearedNat
<1>9. a - e + Cleared(s) <= MaxPositionQuantity
  BY <1>1, <1>7 DEF Limited
<1>10. Cleared(s)' \in Nat /\ b + Cleared(s)' <= a + Cleared(s)
  <2>1. CASE t = "order"
    <3>1. Cleared(s) = w /\ Cleared(s)' = 0
      BY <1>h, <1>w, <2>1 DEF Cleared
    <3>2. PICK i \in Int : i = 0
      OBVIOUS
    <3>3. \A x \in OrderIds : /\ f[x] \in Int /\ h[x] \in Int
                               /\ h[x] <= f[x] + (IF x = c THEN w ELSE 0) + (IF x = c THEN i ELSE 0)
      BY <1>3, <1>4, <1>5, <3>2
    <3>4. b <= a + w + i
      <4>1. w \in Int /\ i \in Int /\ c \in OrderIds
        BY <3>2
      <4>2. SumFunctionOnSet(h, OrderIds) <= SumFunctionOnSet(f, OrderIds) + w + i
        BY <1>0, <3>3, <4>1, SumMoved
      <4>. QED
        BY <1>7, <4>2
    <3>. QED
      BY <1>7, <3>1, <3>2, <3>4
  <2>2. CASE t = "exec"
    <3>1. Cleared(s)' = Cleared(s)
      <4>1. pc'["order"] = pc["order"]
        BY <1>t, <2>2, HandMaps
      <4>. QED
        BY <1>h, <4>1 DEF Cleared
    <3>2. SendsRest(p)
      BY <1>h, <2>2 DEF SendsRest
    <3>3. PICK d \in OrderIds : parentOf[d] = p /\ Newest(d) /\ orders[d].quantity - executed[d] = Rest(p)
      BY <3>2 DEF Successors
    <3>4. Child(d) /\ d # c /\ ~Busy(d)
      <4>1. Child(d)
        BY <3>3, Ids DEF Child
      <4>. QED
        BY <1>h, <3>3, <4>1 DEF Calm
    <3>5. OfSide(d, s) <=> o.side = s
      <4>1. Holds(t)
        BY <1>h DEF Holds
      <4>2. o.side = orders[p].side /\ orders[d].side = orders[p].side
        BY <1>h, <3>3, <3>4, <4>1 DEF OneSide
      <4>. QED
        BY <3>4, <4>2 DEF OfSide
    <3>6. PICK q \in Nat, m \in Nat : q = orders[d].quantity /\ m = executed[d] /\ m <= q
      BY <3>4, ChildWeight
    <3>7. q - m = n
      BY <1>h, <3>3, <3>6 DEF Rest
    <3>8. Weight(d) = q
      BY <3>2, <3>3, <3>6 DEF Weight, Current
    <3>9. Weight(d)' = m
      <4>1. ~Busy(d)'
        BY <1>n, <3>4, HandFacts, HandMarket
      <4>2. parentOf'[d] = p
        BY <3>3, <3>4, HandMaps
      <4>3. ~SendsRest(parentOf[d])'
        <5>1. SUFFICES ASSUME SendsRest(parentOf[d])' PROVE FALSE
          OBVIOUS
        <5>2. SendsRest(p)'
          BY <4>2, <5>1 DEF SendsRest
        <5>. QED
          BY <1>t, <2>2, <5>2, HandSends
      <4>4. ~Current(d)'
        BY <4>1, <4>3 DEF Current
      <4>. QED
        BY <1>h, <3>6, <4>4 DEF Weight
    <3>10. OfSide(d, s)' <=> OfSide(d, s)
      BY <3>4, HandMaps
    <3>11. h[d] = f[d] - w
      <4>1. CASE o.side = s
        <5>1. f[d] = q /\ h[d] = m /\ w = n
          BY <1>2, <1>w, <3>5, <3>8, <3>9, <3>10, <4>1
        <5>. QED
          BY <3>6, <3>7, <5>1
      <4>2. CASE o.side # s
        BY <1>2, <1>w, <3>5, <3>10, <4>2
      <4>. QED
        BY <4>1, <4>2
    <3>12. PICK i \in Int : i = -w
      OBVIOUS
    <3>13. ASSUME NEW x \in OrderIds
           PROVE  h[x] <= f[x] + (IF x = c THEN w ELSE 0) + (IF x = d THEN i ELSE 0)
      <4>1. CASE x = c
        BY <1>3, <3>4, <4>1
      <4>2. CASE x = d
        BY <1>5, <3>4, <3>11, <3>12, <4>2
      <4>3. CASE x # c /\ x # d
        BY <1>4, <4>3
      <4>. QED
        BY <4>1, <4>2, <4>3
    <3>14. b <= a + w + i
      BY <1>0, <1>5, <1>7, <3>13, SumMoved
    <3>. QED
      BY <1>7, <1>8, <3>1, <3>12, <3>14
  <2>. QED
    BY <1>t, <2>1, <2>2
<1>11. MaxPositionQuantity \in Nat
  BY RiskLimitsAssumption
<1>12. b - e + Cleared(s)' <= MaxPositionQuantity
  BY <1>7, <1>8, <1>9, <1>10, <1>11
<1>. QED
  BY <1>1, <1>6, <1>7, <1>12

-----------------------------------------------------------------------------
(* What the risk check bounds: nothing weighs more than the position shows *)
(* with what is pending.                                                   *)

\* The fills of each order, counted towards side s.
Toward(s) == [c \in OrderIds |-> IF orders[c].side = s THEN fills[c] ELSE -fills[c]]
NetToward(s) == IF s = "Buy" THEN position.net ELSE -position.net

LEMMA NetSum ==
  ASSUME IInv, Accounting, NEW s \in Sides
  PROVE  /\ \A c \in OrderIds : Toward(s)[c] \in Int
         /\ position.net \in Int /\ NetToward(s) \in Int
         /\ SumFunctionOnSet(Toward(s), OrderIds) = NetToward(s)
<1>0. IsFiniteSet(OrderIds)
  BY FiniteAssumption
<1>1. PICK f, g : f = Signed /\ g = Toward(s)
  OBVIOUS
<1>2. ASSUME NEW c \in OrderIds
      PROVE  f[c] \in Int /\ g[c] \in Int /\ (s = "Buy" => g[c] = f[c]) /\ (s = "Sell" => f[c] + g[c] = 0)
  <2>1. orders[c].side \in Sides
    <3>1. orders[c] \in OrderShape
      BY DEF IInv, RouterShapes
    <3>. QED
      BY <3>1 DEF OrderShape
  <2>2. PICK n \in Int : n = fills[c]
    BY DEF Accounting, AccountShapes
  <2>3. PICK m \in Int : m = -n /\ n + m = 0 /\ m + n = 0
    BY Negative
  <2>4. f[c] = (IF orders[c].side = "Buy" THEN n ELSE m) /\ g[c] = (IF orders[c].side = s THEN n ELSE m)
    BY <1>1, <2>2, <2>3 DEF Signed, Toward
  <2>5. CASE s = "Buy"
    BY <2>4, <2>5
  <2>6. CASE s = "Sell"
    BY <2>1, <2>3, <2>4, <2>6 DEF Sides
  <2>. QED
    BY <2>5, <2>6 DEF Sides
<1>3. PICK n \in Int : n = position.net /\ n = SumFunctionOnSet(f, OrderIds)
  <2>1. SumFunctionOnSet(f, OrderIds) \in Int
    BY <1>0, <1>2, SumInt
  <2>. QED
    BY <1>1, <2>1 DEF Accounting
<1>4. PICK m \in Int : m = SumFunctionOnSet(g, OrderIds)
  BY <1>0, <1>2, SumInt
<1>5. CASE s = "Buy"
  <2>1. SumFunctionOnSet(g, OrderIds) = SumFunctionOnSet(f, OrderIds)
    BY <1>0, <1>2, <1>5, SumSame
  <2>. QED
    BY <1>1, <1>2, <1>3, <1>5, <2>1 DEF NetToward
<1>6. CASE s = "Sell"
  <2> DEFINE z == [c \in OrderIds |-> 0]
  <2>1. \A c \in OrderIds : f[c] \in Int /\ g[c] \in Int /\ z[c] = f[c] + g[c] /\ z[c] = 0
    BY <1>2, <1>6
  <2> HIDE DEF z
  <2>2. SumFunctionOnSet(z, OrderIds) = SumFunctionOnSet(f, OrderIds) + SumFunctionOnSet(g, OrderIds)
    BY <1>0, <2>1, SumPlus
  <2>3. SumFunctionOnSet(z, OrderIds) = 0
    BY <1>0, <2>1, SumZero
  <2>4. 0 = n + m
    BY <1>3, <1>4, <2>2, <2>3
  <2>5. m = -n
    BY <2>4
  <2>6. NetToward(s) = -n
    BY <1>3, <1>6 DEF NetToward
  <2>. QED
    BY <1>1, <1>2, <1>3, <1>4, <2>5, <2>6
<1>. QED
  BY <1>5, <1>6 DEF Sides

LEMMA WeightBound ==
  ASSUME IInv, Accounting, Market, NEW s \in Sides, NEW c \in OrderIds
  PROVE  /\ Heavy(s)[c] \in Int /\ Traded(Opposite(s))[c] \in Int
         /\ Heavy(s)[c] <= Toward(s)[c] + Awaited(s)[c] + Traded(Opposite(s))[c]
<1>1. PICK q \in Nat, w \in Nat, e \in Nat, n \in Nat :
          q = orders[c].quantity /\ w = Weight(c) /\ e = executed[c] /\ n = fills[c]
  BY ChildWeight DEF Accounting, AccountShapes
<1>2. PICK z : z = Opposite(s)
  OBVIOUS
<1>3. (orders[c].side = s \/ orders[c].side = z) /\ s # z
  <2>1. orders[c].side \in Sides
    <3>1. orders[c] \in OrderShape
      BY DEF IInv, RouterShapes
    <3>. QED
      BY <3>1 DEF OrderShape
  <2>. QED
    BY <1>2, <2>1 DEF Opposite, Sides
<1>4. /\ Heavy(s)[c] = IF Child(c) /\ orders[c].side = s THEN w ELSE 0
      /\ Traded(z)[c] = IF Child(c) /\ orders[c].side = z THEN e ELSE 0
      /\ Awaited(s)[c] = IF Child(c) /\ orders[c].side = s THEN q - n ELSE 0
      /\ Toward(s)[c] = IF orders[c].side = s THEN n ELSE -n
  BY <1>1 DEF Heavy, Traded, Awaited, Toward, OfSide
<1>5. n <= e
  <2>1. Recorded(c) /\ Unseen(c) \in Nat
    BY AccountingFacts DEF Accounting
  <2>2. deferred.fill \in Nat
    <3>1. deferred \in DeferShape
      BY DEF IInv, ThreadShapes
    <3>. QED
      BY <3>1 DEF DeferShape
  <2>. QED
    BY <1>1, <2>1, <2>2 DEF Recorded
<1>6. ~Child(c) => n = 0
  BY <1>1 DEF Accounting, ChildrenTrade
<1>7. Child(c) => w <= q
  BY <1>1, ChildWeight
<1>8. CASE Child(c) /\ orders[c].side = s
  <2>1. Heavy(s)[c] = w /\ Traded(z)[c] = 0 /\ Awaited(s)[c] = q - n /\ Toward(s)[c] = n
    BY <1>3, <1>4, <1>8
  <2>. QED
    BY <1>2, <1>7, <1>8, <2>1
<1>9. CASE Child(c) /\ orders[c].side = z
  <2>1. Heavy(s)[c] = 0 /\ Traded(z)[c] = e /\ Awaited(s)[c] = 0 /\ Toward(s)[c] = -n
    BY <1>3, <1>4, <1>9
  <2>. QED
    BY <1>2, <1>5, <2>1
<1>10. CASE ~Child(c)
  <2>1. -n = 0
    <3>1. PICK m \in Int : m = -n /\ m = 0 - n
      BY Negative
    <3>2. m = 0 - n
      BY <3>1
    <3>3. n = 0
      BY <1>6, <1>10
    <3>4. m = 0
      BY <3>2, <3>3
    <3>. QED
      BY <3>1, <3>4
  <2>2. Heavy(s)[c] = 0 /\ Traded(z)[c] = 0 /\ Awaited(s)[c] = 0 /\ Toward(s)[c] = 0
    BY <1>4, <1>6, <1>10, <2>1
  <2>. QED
    BY <1>2, <2>2
<1>. QED
  BY <1>3, <1>8, <1>9, <1>10

LEMMA WeightsBounded ==
  ASSUME IInv, Accounting, Market, PendingCovers, NEW s \in Sides
  PROVE  /\ \A c \in OrderIds : Heavy(s)[c] \in Int /\ Traded(Opposite(s))[c] \in Int
         /\ SumFunctionOnSet(Heavy(s), OrderIds) - SumFunctionOnSet(Traded(Opposite(s)), OrderIds)
               <= NetToward(s) + Pending(s)
<1>0. IsFiniteSet(OrderIds)
  BY FiniteAssumption
<1>1. PICK f, g, h, k : f = Heavy(s) /\ g = Traded(Opposite(s)) /\ h = Toward(s) /\ k = Awaited(s)
  OBVIOUS
<1>2. \A c \in OrderIds : f[c] \in Int /\ g[c] \in Int /\ h[c] \in Int /\ k[c] \in Int /\ f[c] <= h[c] + k[c] + g[c]
  BY <1>1, WeightBound, NetSum, AwaitedInt
<1> DEFINE u == [c \in OrderIds |-> h[c] + k[c]]
           v == [c \in OrderIds |-> u[c] + g[c]]
<1>3. \A c \in OrderIds : h[c] \in Int /\ k[c] \in Int /\ u[c] = h[c] + k[c] /\ u[c] \in Int
  BY <1>2
<1> HIDE DEF u
<1>4. \A c \in OrderIds : u[c] \in Int /\ g[c] \in Int /\ v[c] = u[c] + g[c] /\ v[c] \in Int
  BY <1>2, <1>3
<1> HIDE DEF v
<1>5. \A c \in OrderIds : f[c] \in Int /\ v[c] \in Int /\ f[c] <= v[c]
  BY <1>2, <1>3, <1>4
<1>6. SumFunctionOnSet(u, OrderIds) = SumFunctionOnSet(h, OrderIds) + SumFunctionOnSet(k, OrderIds)
  BY <1>0, <1>3, SumPlus
<1>7. SumFunctionOnSet(v, OrderIds) = SumFunctionOnSet(u, OrderIds) + SumFunctionOnSet(g, OrderIds)
  BY <1>0, <1>4, SumPlus
<1>8. SumFunctionOnSet(f, OrderIds) <= SumFunctionOnSet(v, OrderIds)
  BY <1>0, <1>5, SumLess
<1>9. PICK a \in Int, b \in Int, d \in Int : a = SumFunctionOnSet(f, OrderIds) /\ b = SumFunctionOnSet(g, OrderIds)
                                              /\ d = SumFunctionOnSet(k, OrderIds)
  BY <1>0, <1>2, SumInt
<1>10. PICK n \in Int, w \in Int : n = NetToward(s) /\ n = SumFunctionOnSet(h, OrderIds) /\ w = Pending(s) /\ d <= w
  <2>1. Pending(s) \in Int
    BY AwaitedInt
  <2>. QED
    BY <1>1, <1>9, <2>1, NetSum DEF PendingCovers
<1>11. a - b <= n + w
  BY <1>6, <1>7, <1>8, <1>9, <1>10
<1>. QED
  BY <1>1, <1>2, <1>9, <1>10, <1>11

LEMMA CheckedBound ==
  ASSUME IInv, Accounting, NEW s \in Sides, NEW q \in Nat, TRUE \in CheckOrder(s, q), MaxPositionQuantity > 0
  PROVE  NetToward(s) + Pending(s) + q <= MaxPositionQuantity
<1>1. WithinLimits(s, q)
  BY DEF CheckOrder
<1>2. PICK j : j = Projected(s, q)
  OBVIOUS
<1>3. Abs(j) <= MaxPositionQuantity
  BY <1>1, <1>2 DEF WithinLimits
<1>4. PICK n \in Int, b \in Nat, l \in Nat : n = position.net /\ b = position.pendingBuy /\ l = position.pendingSell
  <2>1. position \in PositionType
    BY DEF IInv, RouterShapes
  <2>. QED
    BY <2>1 DEF PositionType
<1>5. MaxPositionQuantity \in Nat
  BY RiskLimitsAssumption
<1>6. CASE s = "Buy"
  <2>1. j = n + q + b
    BY <1>2, <1>4, <1>6 DEF Projected
  <2>2. n + q + b <= MaxPositionQuantity
    BY <1>3, <1>5, <2>1 DEF Abs
  <2>3. NetToward(s) = n /\ Pending(s) = b
    BY <1>4, <1>6 DEF NetToward, Pending
  <2>. QED
    BY <1>5, <2>2, <2>3
<1>7. CASE s = "Sell"
  <2>1. j = n - q - l
    BY <1>2, <1>4, <1>7 DEF Projected
  <2>2. 0 - (n - q - l) <= MaxPositionQuantity
    BY <1>3, <1>5, <2>1 DEF Abs
  <2>3. NetToward(s) = -n /\ Pending(s) = l
    BY <1>4, <1>7 DEF NetToward, Pending
  <2>. QED
    BY <1>5, <2>2, <2>3
<1>. QED
  BY <1>6, <1>7 DEF Sides

\* The order thread passes its second check with nothing heavier than the check allows.
LEMMA DecideLimit ==
  ASSUME IInv, IInv', Accounting, Accounting', Market, Market', Rounds, PendingCovers, Successors, Limited,
         NEW d, Decides("order", d)
  PROVE  Limited'
<1>t. "order" \in Threads
  BY DEF Threads
<1>0. Settles
  BY <1>t, DecideKept
<1> SUFFICES ASSUME MaxPositionQuantity > 0, NEW s \in Sides
             PROVE  SumFunctionOnSet(Heavy(s), OrderIds)' - SumFunctionOnSet(Traded(Opposite(s)), OrderIds)'
                       + Cleared(s)' <= MaxPositionQuantity
  BY DEF Limited
<1>1. PICK q \in Nat, z \in Sides : q = job["order"].order.quantity /\ z = job["order"].order.side
  <2>1. job["order"] \in JobShape
    BY <1>t DEF IInv, ThreadShapes
  <2>. QED
    BY <2>1 DEF JobShape, OrderShape
<1>2. TRUE \in CheckOrder(z, q) /\ job' = job /\ pc'["order"] = "slice"
  BY <1>1, <1>t, StepsOn DEF Decides
<1>3. Cleared(s)' = IF z = s THEN q ELSE 0
  BY <1>1, <1>2 DEF Cleared
<1>4. PICK a \in Int, b \in Int, g \in Int, k \in Int :
          /\ a = SumFunctionOnSet(Heavy(s), OrderIds) /\ b = SumFunctionOnSet(Heavy(s), OrderIds)'
          /\ g = SumFunctionOnSet(Traded(Opposite(s)), OrderIds) /\ k = SumFunctionOnSet(Traded(Opposite(s)), OrderIds)'
          /\ b <= a /\ g <= k
  BY <1>0, SettledSums
<1>5. MaxPositionQuantity \in Nat
  BY RiskLimitsAssumption
<1>6. CASE z = s
  <2>1. PICK n \in Int, w \in Int : n = NetToward(s) /\ w = Pending(s)
    BY NetSum, AwaitedInt
  <2>2. a - g <= n + w
    BY <1>4, <2>1, WeightsBounded
  <2>3. n + w + q <= MaxPositionQuantity
    BY <1>2, <1>6, <2>1, CheckedBound
  <2>4. b - k + q <= MaxPositionQuantity
    BY <1>4, <1>5, <2>2, <2>3
  <2>. QED
    BY <1>3, <1>4, <1>6, <2>4
<1>7. CASE z # s
  <2>1. PICK m \in Nat : m = Cleared(s)
    BY ClearedNat
  <2>2. a - g + m <= MaxPositionQuantity
    BY <1>4, <2>1 DEF Limited
  <2>3. b - k + 0 <= MaxPositionQuantity
    BY <1>4, <1>5, <2>2
  <2>. QED
    BY <1>3, <1>4, <1>7, <2>3
<1>. QED
  BY <1>6, <1>7

LEMMA DecideExposed ==
  ASSUME IInv, IInv', Accounting, Accounting', Market, Market', Rounds, PendingCovers, Exposed,
         NEW t \in Threads, NEW d, Decides(t, d)
  PROVE  Exposed' /\ Settles
<1>1. CASE t = "exec"
  BY <1>1, DecideSettles, SettledExposed
<1>2. CASE t = "order"
  <2>1. Settles /\ \A z \in Threads : Holds(z)' => Holds(z) /\ job'[z] = job[z]
    BY DecideKept
  <2>2. orders' = orders /\ parentOf' = parentOf
    BY DEF Decides
  <2>3. OneSide'
    BY <2>1, <2>2, SidesStill DEF Exposed
  <2>4. Successors'
    BY <2>1, SettledSuccessors DEF Exposed
  <2>5. Limited'
    BY <1>2, DecideLimit DEF Exposed
  <2>. QED
    BY <2>1, <2>3, <2>4, <2>5 DEF Exposed
<1>. QED
  BY <1>1, <1>2 DEF Threads

(* Losses and the position, step by step.                                  *)
LEMMA LossesStay ==
  ASSUME IInv, Accounting, [Next]_vars, lostReports' = << >>
  PROVE  lostReports = << >>
<1>1. CASE UNCHANGED lostReports
  BY <1>1
<1>2. ASSUME NEW t \in Threads, ProcessSingleOrder(t) PROVE lostReports = << >>
  <2>1. CASE Admit(t) \/ Route(t) \/ Slice(t)
    BY <1>1, <2>1 DEF Admit, Route, Slice, exchangeVars
  <2>2. CASE Send(t)
    BY <2>2, SendEffect, SendLoses
  <2>. QED
    BY <1>2, <2>1, <2>2 DEF ProcessSingleOrder
<1>3. CASE OrderThread
  <2>1. CASE Loop("order") \/ PopOrder \/ PopCancel
    BY <1>1, <2>1 DEF Loop, PopOrder, PopCancel, exchangeVars
  <2>2. CASE CancelChild
    BY <1>1, <2>2 DEF CancelChild, CancelAtVenue, exchangeVars
  <2>. QED
    BY <1>2, <1>3, <2>1, <2>2 DEF OrderThread, Threads
<1>4. CASE ExecThread
  <2>1. CASE Loop("exec") \/ PopReport \/ RunDeferred
    BY <1>1, <2>1 DEF Loop, PopReport, RunDeferred, exchangeVars
  <2>. QED
    BY <1>2, <1>4, <2>1 DEF ExecThread, Threads
<1>5. CASE \E v \in Venues : VenueStep(v)
  BY <1>5, VenueLoses
<1>6. CASE UNCHANGED vars
  BY <1>1, <1>6 DEF vars, exchangeVars
<1>7. CASE \/ \E side \in SideChoices, quantity \in Quantities, tif \in TifChoices, strategy \in Strategies :
                 SubmitOrder(side, quantity, tif, strategy)
           \/ \E id \in OrderIds : CancelOrder(id)
           \/ KillSwitch \/ Stop \/ StopDisconnect
  BY <1>1, <1>7 DEF SubmitOrder, CancelOrder, KillSwitch, Stop, StopDisconnect, Disconnect, exchangeVars
<1>. QED
  BY <1>3, <1>4, <1>5, <1>6, <1>7 DEF Next

LEMMA PositionStays ==
  ASSUME [Next]_vars
  PROVE  UNCHANGED <<fills, position>> \/ RunDeferred \/ \E t \in Threads : Slice(t)
<1>1. ASSUME NEW t \in Threads, ProcessSingleOrder(t) PROVE UNCHANGED <<fills, position>> \/ Slice(t)
  BY <1>1 DEF ProcessSingleOrder, Admit, Route, Send, riskVars, gatewayVars
<1>2. CASE OrderThread
  <2>1. CASE Loop("order") \/ PopOrder \/ PopCancel \/ CancelChild
    BY <2>1 DEF Loop, PopOrder, PopCancel, CancelChild, riskVars, gatewayVars
  <2>. QED
    BY <1>1, <1>2, <2>1 DEF OrderThread, Threads
<1>3. CASE ExecThread
  <2>1. CASE Loop("exec") \/ PopReport
    BY <2>1 DEF Loop, PopReport, riskVars, gatewayVars
  <2>. QED
    BY <1>1, <1>3, <2>1 DEF ExecThread, Threads
<1>4. CASE (\E v \in Venues : VenueStep(v)) \/ UNCHANGED vars
  BY <1>4 DEF VenueStep, vars, riskVars, gatewayVars
<1>5. CASE \/ \E side \in SideChoices, quantity \in Quantities, tif \in TifChoices, strategy \in Strategies :
                 SubmitOrder(side, quantity, tif, strategy)
           \/ \E id \in OrderIds : CancelOrder(id)
           \/ KillSwitch \/ Stop \/ StopDisconnect
  BY <1>5 DEF SubmitOrder, CancelOrder, KillSwitch, ActivateKillSwitch, DeactivateKillSwitch, Stop, StopDisconnect,
          riskVars, gatewayVars
<1>. QED
  BY <1>2, <1>3, <1>4, <1>5 DEF Next

LEMMA InitExposed == Init => PendingCovers /\ Exposed
<1> SUFFICES ASSUME Init PROVE PendingCovers /\ Exposed
  OBVIOUS
<1>0. IsFiniteSet(OrderIds)
  BY FiniteAssumption
<1>1. \A c \in OrderIds : ~Child(c) /\ parentOf[c] = INVALID_ORDER_ID
  BY DEF Init, HandlerInit, Child
<1>2. /\ \A t \in Threads : pc[t] = "loop"
      /\ ~deferred.reroute /\ position.pendingBuy = 0 /\ position.pendingSell = 0
  BY DEF Init, RiskInit, Nothing
<1>t. "order" \in Threads /\ "exec" \in Threads
  BY DEF Threads
<1>3. OneSide
  BY <1>1, <1>2 DEF OneSide, Holds, Threads
<1>4. Successors
  <2>1. \A p : ~SendsRest(p)
    BY <1>2, <1>t DEF SendsRest, Prepares
  <2>2. IInv /\ Accounting /\ Market
    BY InitIInv, InitAccounting, InitRounds
  <2>3. \A c \in OrderIds : ~Busy(c)
    BY <1>1, <2>2, BusyChildren
  <2>. QED
    BY <2>1, <2>3 DEF Successors
<1>5. ASSUME NEW s
      PROVE  /\ SumFunctionOnSet(Heavy(s), OrderIds) = 0 /\ SumFunctionOnSet(Traded(s), OrderIds) = 0
             /\ SumFunctionOnSet(Awaited(s), OrderIds) = 0
  <2>1. PICK f, g, h : f = Heavy(s) /\ g = Traded(s) /\ h = Awaited(s)
    OBVIOUS
  <2>2. \A c \in OrderIds : f[c] = 0 /\ g[c] = 0 /\ h[c] = 0
    BY <1>1, <2>1 DEF Heavy, Traded, Awaited, OfSide
  <2>3. SumFunctionOnSet(f, OrderIds) = 0 /\ SumFunctionOnSet(g, OrderIds) = 0 /\ SumFunctionOnSet(h, OrderIds) = 0
    BY <1>0, <2>2, SumZero
  <2>. QED
    BY <2>1, <2>3
<1>6. PendingCovers
  BY <1>2, <1>5 DEF PendingCovers, Pending
<1>7. Limited
  <2>1. \A s : Cleared(s) = 0
    BY <1>2, <1>t DEF Cleared
  <2>2. MaxPositionQuantity \in Nat
    BY RiskLimitsAssumption
  <2>. QED
    BY <1>5, <2>1, <2>2 DEF Limited
<1>. QED
  BY <1>3, <1>4, <1>6, <1>7 DEF Exposed

\* Every step keeps the weights within the limit; only a slice adds to what is pending.
LEMMA NextLimited ==
  ASSUME IInv, IInv', Accounting, Accounting', Market, Market', Rounds, Rounds', lostReports' = << >>,
         PendingCovers, Exposed, [Next]_vars
  PROVE  Exposed' /\ (Settles \/ \E t \in Threads : Slice(t))
<1>0. "order" \in Threads /\ "exec" \in Threads
  BY DEF Threads
<1>k. Settles /\ SideKept => Exposed' /\ Settles
  BY SettledExposed
<1>i. Idles => Exposed' /\ Settles
  BY <1>k, IdleSettles
<1>1. CASE \E side \in SideChoices, quantity \in Quantities, tif \in TifChoices, strategy \in Strategies :
              SubmitOrder(side, quantity, tif, strategy)
  BY <1>1, <1>k, SubmitSettles
<1>2. CASE (\E id \in OrderIds : CancelOrder(id)) \/ KillSwitch \/ Stop \/ StopDisconnect \/ UNCHANGED vars
  BY <1>2, <1>i, ClientIdles
<1>3. ASSUME NEW t \in Threads, ProcessSingleOrder(t)
      PROVE  Exposed' /\ (Settles \/ Slice(t))
  <2>g. GivesUp(t) => Exposed' /\ Settles
    BY <1>i, ThreadIdles
  <2>1. CASE Admit(t)
    <3>1. ASSUME NEW p \in OrderIds, NEW o \in OrderShape, Admits(t, p, o) PROVE Exposed' /\ Settles
      BY <1>k, <3>1, AdmitSettles DEF Exposed
    <3>. QED
      BY <2>g, <2>1, <3>1, AdmitEffect
  <2>2. CASE Route(t)
    <3>1. ASSUME NEW d, Decides(t, d) PROVE Exposed' /\ Settles
      BY <3>1, DecideExposed
    <3>. QED
      BY <2>g, <2>2, <3>1, RouteEffect
  <2>3. CASE Slice(t)
    <3>1. PICK p \in OrderIds, c \in OrderIds, o \in OrderShape, slice \in SliceShape : Hands(t, p, c, o, slice)
      BY <2>3, SliceEffect
    <3>2. OneSide' /\ Successors' /\ Limited'
      BY <3>1, HandSides, HandSuccessors, HandLimit DEF Exposed
    <3>. QED
      BY <2>3, <3>2 DEF Exposed
  <2>4. CASE Send(t)
    <3>1. PICK c \in OrderIds, v \in Venues : Delivers(t, c, v)
      BY <2>4, SendEffect
    <3>. QED
      BY <1>k, <3>1, DeliverSettles
  <2>. QED
    BY <1>3, <2>1, <2>2, <2>3, <2>4 DEF ProcessSingleOrder
<1>4. CASE OrderThread
  <2>1. CASE Loop("order") \/ PopCancel \/ (PopOrder /\ orderQueue = << >>)
    BY <1>0, <1>i, <2>1, ThreadIdles
  <2>2. CASE CancelChild
    BY <1>i, <2>2, CancelIdles
  <2>3. CASE PopOrder /\ orderQueue # << >>
    BY <1>k, <2>3, TakeSettles
  <2>4. CASE ProcessSingleOrder("order")
    BY <1>0, <1>3, <2>4
  <2>. QED
    BY <1>4, <2>1, <2>2, <2>3, <2>4 DEF OrderThread
<1>5. CASE ExecThread
  <2>1. CASE Loop("exec") \/ (PopReport /\ reportQueue = << >>)
    BY <1>0, <1>i, <2>1, ThreadIdles
  <2>2. CASE PopReport /\ reportQueue # << >>
    <3>1. PICK r, c, p : c \in OrderIds /\ p \in OrderIds /\ Handles(r, c, p)
      BY <2>2, ReportEffect
    <3>. QED
      BY <1>k, <3>1, HandleSettles
  <2>3. CASE RunDeferred
    <3>1. PICK c \in OrderIds : Runs(c)
      BY <2>3, RunEffect
    <3>. QED
      BY <1>k, <3>1, RunSettles
  <2>4. CASE ProcessSingleOrder("exec")
    BY <1>0, <1>3, <2>4
  <2>. QED
    BY <1>5, <2>1, <2>2, <2>3, <2>4 DEF ExecThread
<1>6. CASE \E v \in Venues : VenueStep(v)
  BY <1>6, <1>k, VenueSettles
<1>. QED
  BY <1>1, <1>2, <1>4, <1>5, <1>6 DEF Next

Bounded == lostReports = << >> => PendingCovers /\ Exposed

LEMMA NextBounded ==
  IInv /\ IInv' /\ Accounting /\ Accounting' /\ Lossless /\ Lossless' /\ Bounded /\ [Next]_vars => Bounded'
<1> SUFFICES ASSUME IInv, IInv', Accounting, Accounting', Lossless, Lossless', Bounded, [Next]_vars,
                    lostReports' = << >>
             PROVE  PendingCovers' /\ Exposed'
  BY DEF Bounded
<1>1. lostReports = << >>
  BY LossesStay
<1>2. Market /\ Market' /\ Rounds /\ Rounds' /\ PendingCovers /\ Exposed
  BY <1>1 DEF Lossless, Bounded
<1>3. Exposed' /\ (Settles \/ \E t \in Threads : Slice(t))
  BY <1>2, NextLimited
<1>4. PendingCovers'
  <2>1. ASSUME NEW t \in Threads, Slice(t) PROVE PendingCovers'
    <3>1. PICK p \in OrderIds, c \in OrderIds, o \in OrderShape, slice \in SliceShape : Hands(t, p, c, o, slice)
      BY <2>1, SliceEffect
    <3>. QED
      BY <1>2, <3>1, HandCovers
  <2>2. CASE RunDeferred
    <3>1. PICK c \in OrderIds : Runs(c)
      BY <2>2, RunEffect
    <3>. QED
      BY <1>2, <3>1, RunCovers
  <2>3. CASE Settles /\ UNCHANGED <<fills, position>>
    BY <1>2, <2>3, CoversStill
  <2>. QED
    BY <1>3, <2>1, <2>2, <2>3, PositionStays
<1>. QED
  BY <1>3, <1>4

(* While no report is lost, what the children have executed and may still   *)
(* execute never takes the position beyond the limit, whichever thread      *)
(* sends them and however late the fills reach the risk manager             *)
(* (process_single_order of gateway.cpp, check_order, on_order_accepted and *)
(* on_fill of risk_manager.cpp).                                            *)
THEOREM PositionStaysWithinLimit ==
  ASSUME Strategies \subseteq {"BestPrice"}
  PROVE  Spec => [](lostReports = << >> => ExposureWithinLimit)
<1>1. Init => Bounded
  BY InitExposed DEF Bounded
<1>2. IInv /\ IInv' /\ Accounting /\ Accounting' /\ Lossless /\ Lossless' /\ Bounded /\ [Next]_vars => Bounded'
  BY NextBounded
<1>3. IInv /\ Accounting /\ Lossless /\ Bounded => (lostReports = << >> => ExposureWithinLimit)
  <2> SUFFICES ASSUME IInv, Accounting, Market, Limited, MaxPositionQuantity > 0
               PROVE  ExposureWithinLimit
    BY DEF Lossless, Bounded, Exposed, ExposureWithinLimit
  <2> DEFINE open(s) == [c \in OrderIds |-> IF orders[c].side = s THEN LiveOf(c) ELSE 0]
             done(s) == [c \in OrderIds |-> IF orders[c].side = s THEN executed[c] ELSE 0]
  <2>0. IsFiniteSet(OrderIds)
    BY FiniteAssumption
  <2>1. ASSUME NEW s \in Sides
        PROVE  /\ SumFunctionOnSet(open(s), OrderIds) \in Int /\ SumFunctionOnSet(done(s), OrderIds) \in Int
               /\ SumFunctionOnSet(Traded(s), OrderIds) = SumFunctionOnSet(done(s), OrderIds)
               /\ SumFunctionOnSet(open(s), OrderIds) + SumFunctionOnSet(done(s), OrderIds)
                     <= SumFunctionOnSet(Heavy(s), OrderIds)
               /\ SumFunctionOnSet(Heavy(s), OrderIds) \in Int
    <3>1. PICK f, g, h, k : f = open(s) /\ g = done(s) /\ h = Heavy(s) /\ k = Traded(s)
      OBVIOUS
    <3>2. ASSUME NEW c \in OrderIds
          PROVE  f[c] \in Int /\ g[c] \in Int /\ h[c] \in Int /\ f[c] + g[c] <= h[c] /\ k[c] = g[c]
      <4>1. PICK l \in Nat, e \in Nat, w \in Nat : l = LiveOf(c) /\ e = executed[c] /\ w = Weight(c)
        BY LiveChild, ChildWeight
      <4>2. f[c] = (IF orders[c].side = s THEN l ELSE 0) /\ g[c] = (IF orders[c].side = s THEN e ELSE 0)
        BY <3>1, <4>1
      <4>3. h[c] = (IF OfSide(c, s) THEN w ELSE 0) /\ k[c] = (IF OfSide(c, s) THEN e ELSE 0)
        BY <3>1, <4>1 DEF Heavy, Traded
      <4>4. CASE Child(c)
        <5>1. l + e <= w
          <6>1. CASE Busy(c)
            <7>1. w = orders[c].quantity /\ l <= orders[c].quantity - e
              BY <4>1, <6>1, LiveChild DEF Weight, Current
            <7>. QED
              BY <4>1, <7>1
          <6>2. CASE ~Busy(c)
            <7>1. l = 0 /\ e <= w
              BY <4>1, <4>4, <6>2, LiveChild, ChildWeight
            <7>. QED
              BY <7>1
          <6>. QED
            BY <6>1, <6>2
        <5>2. OfSide(c, s) <=> orders[c].side = s
          BY <4>4 DEF OfSide
        <5>. QED
          BY <4>2, <4>3, <5>1, <5>2
      <4>5. CASE ~Child(c)
        <5>1. ~Busy(c)
          BY <4>5, BusyChildren
        <5>2. l = 0 /\ e = 0
          BY <4>1, <4>5, <5>1, LiveChild DEF Accounting, ChildrenTrade
        <5>. QED
          BY <4>2, <4>3, <4>5, <5>2 DEF OfSide
      <4>. QED
        BY <4>4, <4>5
    <3> HIDE DEF open, done
    <3> DEFINE u == [c \in OrderIds |-> f[c] + g[c]]
    <3>3. \A c \in OrderIds : f[c] \in Int /\ g[c] \in Int /\ u[c] = f[c] + g[c]
      BY <3>2
    <3>4. \A c \in OrderIds : u[c] \in Int /\ h[c] \in Int /\ u[c] <= h[c]
      BY <3>2
    <3> HIDE DEF u
    <3>5. SumFunctionOnSet(u, OrderIds) = SumFunctionOnSet(f, OrderIds) + SumFunctionOnSet(g, OrderIds)
      BY <2>0, <3>3, SumPlus
    <3>6. SumFunctionOnSet(u, OrderIds) <= SumFunctionOnSet(h, OrderIds)
      BY <2>0, <3>4, SumLess
    <3>7. SumFunctionOnSet(k, OrderIds) = SumFunctionOnSet(g, OrderIds)
      BY <2>0, <3>2, SumSame
    <3>8. /\ SumFunctionOnSet(f, OrderIds) \in Int /\ SumFunctionOnSet(g, OrderIds) \in Int
          /\ SumFunctionOnSet(h, OrderIds) \in Int
      BY <2>0, <3>2, SumInt
    <3>. QED
      BY <3>1, <3>5, <3>6, <3>7, <3>8
  <2>2. "Buy" \in Sides /\ "Sell" \in Sides /\ Opposite("Buy") = "Sell" /\ Opposite("Sell") = "Buy"
    BY DEF Sides, Opposite
  <2> HIDE DEF open, done
  <2>3. PICK ob \in Int, os \in Int, db \in Int, ds \in Int :
            /\ ob = SumFunctionOnSet(open("Buy"), OrderIds) /\ os = SumFunctionOnSet(open("Sell"), OrderIds)
            /\ db = SumFunctionOnSet(done("Buy"), OrderIds) /\ ds = SumFunctionOnSet(done("Sell"), OrderIds)
    BY <2>1, <2>2
  <2>4. PICK cb \in Nat, cs \in Nat : cb = Cleared("Buy") /\ cs = Cleared("Sell")
    BY ClearedNat
  <2>5. PICK hb \in Int, hs \in Int :
            /\ hb = SumFunctionOnSet(Heavy("Buy"), OrderIds) /\ hs = SumFunctionOnSet(Heavy("Sell"), OrderIds)
            /\ ob + db <= hb /\ os + ds <= hs
    BY <2>1, <2>2, <2>3
  <2>6. hb - ds + cb <= MaxPositionQuantity /\ hs - db + cs <= MaxPositionQuantity
    BY <2>1, <2>2, <2>3, <2>4, <2>5 DEF Limited
  <2>7. MaxPositionQuantity \in Int /\ -MaxPositionQuantity = 0 - MaxPositionQuantity
    BY RiskLimitsAssumption, Negative
  <2>8. (db - ds) + ob <= MaxPositionQuantity /\ (db - ds) - os >= 0 - MaxPositionQuantity
    BY <2>3, <2>4, <2>5, <2>6, <2>7
  <2> USE DEF open, done
  <2>. QED
    BY <2>3, <2>7, <2>8 DEF ExposureWithinLimit, SumFunction
<1>. QED
  BY <1>1, <1>2, <1>3, GatewayInvariant, AccountingInvariant, RoundsInvariant, PTL DEF Spec

-----------------------------------------------------------------------------
(* Nobody is forgotten.  What a parent waits for is always under way: it    *)
(* waits in the queue, a thread prepares its next child, a child is busy,   *)
(* or the callback that ends the round is due.  What may end a child        *)
(* without ending its round is a report its state does not take: so a child *)
(* at a venue is one the venue will visit, its first report greets it, and  *)
(* only an order that is never filled in part is rejected.                  *)

\* The first of the reports about c says that it was accepted.
Greets(c, reps) ==
    \E i \in 1 .. Len(reps) :
        /\ reps[i].id = c /\ reps[i].state = "Accepted"
        /\ \A j \in 1 .. Len(reps) : reps[j].id = c => i <= j

LEMMA GreetsAppend ==
  ASSUME NEW reps \in Seq(ReportShape), NEW r \in ReportShape
  PROVE  /\ \A c : Greets(c, reps) => Greets(c, Append(reps, r))
         /\ ~About(r.id, reps) /\ r.state = "Accepted" => Greets(r.id, Append(reps, r))
<1>1. PICK n \in Nat : n = Len(reps)
  OBVIOUS
<1>2. PICK s : s = Append(reps, r)
  OBVIOUS
<1>3. Len(s) = n + 1 /\ (\A i \in 1 .. n : s[i] = reps[i]) /\ s[n + 1] = r
  BY <1>1, <1>2
<1>4. 1 .. n + 1 = (1 .. n) \cup {n + 1} /\ n + 1 \in 1 .. n + 1
  OBVIOUS
<1>5. ASSUME NEW c, Greets(c, reps) PROVE Greets(c, s)
  <2>1. PICK i \in 1 .. n : /\ reps[i].id = c /\ reps[i].state = "Accepted"
                            /\ \A j \in 1 .. n : reps[j].id = c => i <= j
    BY <1>1, <1>5 DEF Greets
  <2>2. i \in 1 .. n + 1 /\ s[i].id = c /\ s[i].state = "Accepted"
    BY <1>3, <1>4, <2>1
  <2>3. ASSUME NEW j \in 1 .. n + 1, s[j].id = c PROVE i <= j
    <3>1. CASE j \in 1 .. n
      BY <1>3, <2>1, <2>3, <3>1
    <3>2. CASE j = n + 1
      BY <2>1, <3>2
    <3>. QED
      BY <1>4, <3>1, <3>2
  <2>. QED
    BY <1>3, <2>2, <2>3 DEF Greets
<1>6. ASSUME ~About(r.id, reps), r.state = "Accepted" PROVE Greets(r.id, s)
  <2>1. ASSUME NEW j \in 1 .. n + 1, s[j].id = r.id PROVE n + 1 <= j
    <3>1. j \notin 1 .. n
      BY <1>1, <1>3, <1>6, <2>1 DEF About
    <3>. QED
      BY <1>4, <3>1
  <2>. QED
    BY <1>3, <1>4, <1>6, <2>1 DEF Greets
<1>. QED
  BY <1>2, <1>5, <1>6

LEMMA GreetsTail ==
  ASSUME NEW reps \in Seq(ReportShape), reps # << >>
  PROVE  \A c : Greets(c, reps) => \/ Head(reps).id = c /\ Head(reps).state = "Accepted"
                                   \/ Head(reps).id # c /\ Greets(c, Tail(reps))
<1>1. PICK s : s = Tail(reps)
  OBVIOUS
<1>2. PICK n \in Nat : n = Len(s)
  BY <1>1
<1>3. /\ Len(reps) = n + 1 /\ reps[1] = Head(reps) /\ 1 \in 1 .. n + 1
      /\ \A i \in 1 .. n : s[i] = reps[i + 1] /\ i + 1 \in 1 .. n + 1
      /\ \A i \in 1 .. n + 1 : i = 1 \/ (i - 1 \in 1 .. n /\ s[i - 1] = reps[i])
  BY <1>1, <1>2
<1>4. ASSUME NEW c, Greets(c, reps)
      PROVE  \/ Head(reps).id = c /\ Head(reps).state = "Accepted"
             \/ Head(reps).id # c /\ Greets(c, s)
  <2>1. PICK i \in 1 .. n + 1 : /\ reps[i].id = c /\ reps[i].state = "Accepted"
                                /\ \A j \in 1 .. n + 1 : reps[j].id = c => i <= j
    BY <1>3, <1>4 DEF Greets
  <2>2. CASE i = 1
    BY <1>3, <2>1, <2>2
  <2>3. CASE i # 1
    <3>1. Head(reps).id # c
      BY <1>3, <2>1, <2>3
    <3>2. PICK k \in 1 .. n : k = i - 1
      BY <1>3, <2>3
    <3>3. s[k].id = c /\ s[k].state = "Accepted"
      BY <1>3, <2>1, <2>3, <3>2
    <3>4. ASSUME NEW j \in 1 .. n, s[j].id = c PROVE k <= j
      <4>1. i <= j + 1
        BY <1>3, <2>1, <3>4
      <4>. QED
        BY <3>2, <4>1
    <3>. QED
      BY <1>2, <3>1, <3>3, <3>4 DEF Greets
  <2>. QED
    BY <2>2, <2>3
<1>. QED
  BY <1>1, <1>4

\* What the table says of a pair it lists, and of one it does not.
LEMMA Listed ==
  ASSUME NEW s, NEW e, NEW n, <<s, e, n>> \in Transitions, \A t \in Transitions : t[1] = s /\ t[2] = e => t[3] = n
  PROVE  Apply(s, e) = n
<1>1. \E t \in Transitions : t[1] = s /\ t[2] = e
  <2>1. PICK t : t = <<s, e, n>>
    OBVIOUS
  <2>. QED
    BY <2>1
<1> DEFINE c == CHOOSE t \in Transitions : t[1] = s /\ t[2] = e
<1>2. c \in Transitions /\ c[1] = s /\ c[2] = e
  BY <1>1
<1>3. Apply(s, e) = c[3]
  BY <1>1 DEF Apply, ValidTransition
<1> HIDE DEF c
<1>. QED
  BY <1>2, <1>3

LEMMA ReportedStates ==
  /\ Apply("PendingNew", "Acknowledge") = "Accepted"
  /\ Apply("Accepted", "Acknowledge") = "Accepted" /\ Apply("PartiallyFilled", "Acknowledge") = "PartiallyFilled"
  /\ Apply("Accepted", "PartialFill") = "PartiallyFilled"
  /\ Apply("PartiallyFilled", "PartialFill") = "PartiallyFilled"
  /\ Apply("Accepted", "Fill") = "Filled" /\ Apply("PartiallyFilled", "Fill") = "Filled"
  /\ Apply("Accepted", "RequestCancel") = "PendingCancel"
  /\ Apply("PartiallyFilled", "RequestCancel") = "PendingCancel"
  /\ Apply("PendingCancel", "CancelAck") = "Canceled"
  /\ Apply("Accepted", "Reject") = "Rejected"
<1>1. Apply("PendingNew", "Acknowledge") = "Accepted"
  BY Listed DEF Transitions
<1>2. Apply("Accepted", "Acknowledge") = "Accepted" /\ Apply("PartiallyFilled", "Acknowledge") = "PartiallyFilled"
  <2>1. ~ValidTransition("Accepted", "Acknowledge") /\ ~ValidTransition("PartiallyFilled", "Acknowledge")
    BY DEF ValidTransition, Transitions
  <2>. QED
    BY <2>1 DEF Apply
<1>3. Apply("Accepted", "PartialFill") = "PartiallyFilled"
  BY Listed DEF Transitions
<1>4. Apply("PartiallyFilled", "PartialFill") = "PartiallyFilled"
  BY Listed DEF Transitions
<1>5. Apply("Accepted", "Fill") = "Filled"
  BY Listed DEF Transitions
<1>6. Apply("PartiallyFilled", "Fill") = "Filled"
  BY Listed DEF Transitions
<1>7. Apply("Accepted", "RequestCancel") = "PendingCancel"
  BY Listed DEF Transitions
<1>8. Apply("PartiallyFilled", "RequestCancel") = "PendingCancel"
  BY Listed DEF Transitions
<1>9. Apply("PendingCancel", "CancelAck") = "Canceled"
  BY Listed DEF Transitions
<1>10. Apply("Accepted", "Reject") = "Rejected"
  BY Listed DEF Transitions
<1>. QED
  BY <1>1, <1>2, <1>3, <1>4, <1>5, <1>6, <1>7, <1>8, <1>9, <1>10

\* A child that was greeted takes the state its report tells.
LEMMA TakesReport ==
  ASSUME NEW order \in OrderShape, NEW r \in ReportShape,
         order.state \in {"PendingNew", "Accepted", "PartiallyFilled"},
         order.state = "PendingNew" => r.state = "Accepted",
         r.state = "Rejected" => order.state = "Accepted"
  PROVE  AfterReport(order, r).state =
            IF r.state = "Accepted" /\ order.state = "PartiallyFilled" THEN "PartiallyFilled" ELSE r.state
<1>1. AfterReport(order, r).state =
         Apply(IF r.state = "Canceled" /\ order.state \in {"Accepted", "PartiallyFilled"}
               THEN Apply(order.state, "RequestCancel") ELSE order.state, EventOf(r.state))
  <2>1. PICK s, n, m : /\ AfterReport(order, r) = [order EXCEPT !.state = s, !.filled = n, !.remaining = m]
                       /\ s = Apply(IF r.state = "Canceled" /\ order.state \in {"Accepted", "PartiallyFilled"}
                                    THEN Apply(order.state, "RequestCancel") ELSE order.state, EventOf(r.state))
    BY DEF AfterReport
  <2>. QED
    BY <2>1 DEF OrderShape
<1>2. r.state \in {"Accepted", "PartiallyFilled", "Filled", "Canceled", "Rejected"}
  BY DEF ReportShape
<1>3. CASE r.state = "Accepted"
  <2>1. EventOf(r.state) = "Acknowledge"
    BY <1>3 DEF EventOf
  <2>. QED
    BY <1>1, <1>3, <2>1, ReportedStates
<1>4. CASE r.state = "PartiallyFilled"
  <2>1. EventOf(r.state) = "PartialFill"
    BY <1>4 DEF EventOf
  <2>. QED
    BY <1>1, <1>4, <2>1, ReportedStates
<1>5. CASE r.state = "Filled"
  <2>1. EventOf(r.state) = "Fill"
    BY <1>5 DEF EventOf
  <2>. QED
    BY <1>1, <1>5, <2>1, ReportedStates
<1>6. CASE r.state = "Canceled"
  <2>1. EventOf(r.state) = "CancelAck"
    BY <1>6 DEF EventOf
  <2>. QED
    BY <1>1, <1>6, <2>1, ReportedStates
<1>7. CASE r.state = "Rejected"
  <2>1. EventOf(r.state) = "Reject"
    BY <1>7 DEF EventOf
  <2>. QED
    BY <1>1, <1>7, <2>1, ReportedStates
<1>. QED
  BY <1>2, <1>3, <1>4, <1>5, <1>6, <1>7
-----------------------------------------------------------------------------
\* The states of a child, and what may be reported about it: a reject only of an
\* order that is filled or killed, a partial fill only of one that is not.
ChildStates == {"PendingNew", "Accepted", "PartiallyFilled", "Filled", "Canceled", "Rejected"}
Honest(r) ==
    /\ r.state = "Rejected" => orders[r.id].tif = "FOK"
    /\ r.state = "PartiallyFilled" => orders[r.id].tif # "FOK"

Queued  == \A v \in Venues, c \in OrderIds : OnBook(v, c) => In(c, pendingQueue[v])
Greeted == \A c \in OrderIds : Child(c) /\ orders[c].state = "PendingNew" => Sent(c) \/ Greets(c, reportQueue)
Firm ==
    /\ \A v \in Venues, c \in OrderIds : OnBook(v, c) => Entry(v, c).tif = orders[c].tif
    /\ \A i \in 1 .. Len(reportQueue) : Honest(reportQueue[i])
    /\ \A c \in OrderIds : Child(c) =>
          /\ orders[c].state \in ChildStates
          /\ orders[c].tif = "FOK" => orders[c].state # "PartiallyFilled"
Over    == \A c \in OrderIds : Child(c) => Busy(c) \/ IsTerminal(orders[c].state)
Kin     == \A p \in OrderIds : \A i \in 1 .. Len(childrenOf[p]) : parentOf[childrenOf[p][i]] = p
Handing == \A t \in Threads : sending[t] \in OrderIds => pc[t] = "send"

Tended == Queued /\ Greeted /\ Firm /\ Over /\ Kin /\ Handing

\* Why nobody needs to worry about order p.
Attended(p) ==
    \/ p \in rejected \/ completed[p] > 0
    \/ \E i \in 1 .. Len(orderQueue) : orderQueue[i].id = p
    \/ \E t \in Threads : Prepares(t) /\ job[t].id = p
    \/ \E c \in OrderIds : Busy(c) /\ parentOf[c] = p
    \/ deferred.reroute /\ parentOf[deferred.id] = p
    \/ Completes(p)
Cared == \A p \in ClientOrders : Attended(p)

(* Steps that leave the children and their venues alone. *)
Undisturbed ==
    /\ \A v \in Venues, c \in OrderIds : (OnBook(v, c)' <=> OnBook(v, c)) /\ Entry(v, c)'.tif = Entry(v, c).tif
    /\ UNCHANGED <<pendingQueue, reportQueue, parentOf, childrenOf, sending>>
    /\ \A c \in OrderIds : Child(c) => orders'[c] = orders[c]
    /\ \A t \in Threads : pc[t] = "send" => pc'[t] = "send"

LEMMA TendedStill ==
  ASSUME IInv, Market, Tended, Undisturbed
  PROVE  Tended' /\ \A c \in OrderIds : Busy(c)' <=> Busy(c)
<1>0. Queued /\ Greeted /\ Firm /\ Over /\ Kin /\ Handing
  BY DEF Tended
<1>u. /\ \A v \in Venues, c \in OrderIds : (OnBook(v, c)' <=> OnBook(v, c)) /\ Entry(v, c)'.tif = Entry(v, c).tif
      /\ UNCHANGED <<pendingQueue, reportQueue, parentOf, childrenOf, sending>>
      /\ \A c \in OrderIds : Child(c) => orders'[c] = orders[c]
      /\ \A t \in Threads : pc[t] = "send" => pc'[t] = "send"
  BY DEF Undisturbed
<1>c. \A c \in OrderIds : Child(c)' <=> Child(c)
  BY <1>u DEF Child
<1>1. \A c \in OrderIds : /\ Sent(c)' <=> Sent(c)
                          /\ Busy(c)' <=> Busy(c)
                          /\ Greets(c, reportQueue)' <=> Greets(c, reportQueue)
  <2>1. \A c \in OrderIds : (Sent(c)' <=> Sent(c)) /\ (Booked(c)' <=> Booked(c))
    BY <1>u DEF Sent, Booked
  <2>2. \A c \in OrderIds : (About(c, reportQueue)' <=> About(c, reportQueue))
                            /\ (Greets(c, reportQueue)' <=> Greets(c, reportQueue))
    BY <1>u DEF About, Greets
  <2>. QED
    BY <2>1, <2>2 DEF Busy
<1>2. Queued'
  BY <1>0, <1>u DEF Queued, In
<1>3. Greeted'
  BY <1>0, <1>u, <1>c, <1>1 DEF Greeted
<1>4. Firm'
  <2>1. ASSUME NEW v \in Venues, NEW c \in OrderIds, OnBook(v, c)' PROVE Entry(v, c)'.tif = orders'[c].tif
    <3>1. OnBook(v, c) /\ Child(c)
      BY <1>u, <2>1 DEF Market, Books, BookEntry
    <3>. QED
      BY <1>0, <1>u, <3>1 DEF Firm
  <2>2. ASSUME NEW i \in 1 .. Len(reportQueue') PROVE Honest(reportQueue[i])'
    <3>1. Honest(reportQueue[i]) /\ reportQueue[i].id \in OrderIds /\ Child(reportQueue[i].id)
      BY <1>0, <1>u, ReportsOfChildren DEF Firm
    <3>. QED
      BY <1>u, <3>1 DEF Honest
  <2>3. \A c \in OrderIds : Child(c)' =>
          /\ orders'[c].state \in ChildStates
          /\ orders'[c].tif = "FOK" => orders'[c].state # "PartiallyFilled"
    BY <1>0, <1>u, <1>c DEF Firm
  <2>. QED
    BY <2>1, <2>2, <2>3 DEF Firm
<1>5. Over'
  BY <1>0, <1>u, <1>c, <1>1 DEF Over
<1>6. Kin' /\ Handing'
  BY <1>0, <1>u DEF Kin, Handing
<1>. QED
  BY <1>1, <1>2, <1>3, <1>4, <1>5, <1>6 DEF Tended

\* What is under way stays under way, unless a thread gives the order up.
Keeps ==
    /\ rejected \subseteq rejected'
    /\ UNCHANGED <<clientQty, orderQueue, parentOf, completed, deferred, job>>
    /\ \A t \in Threads : Prepares(t) => Prepares(t)' \/ job[t].id \in rejected'
    /\ \A c \in OrderIds : Busy(c) => Busy(c)'

LEMMA CaredStill ==
  ASSUME Cared, Keeps
  PROVE  Cared'
<1>1. \A p \in ClientOrders : Attended(p)
  BY DEF Cared
<1>2. ClientOrders' = ClientOrders
  BY DEF Keeps, ClientOrders
<1>3. ASSUME NEW p \in ClientOrders, Attended(p) PROVE Attended(p)'
  <2>1. CASE p \in rejected \/ completed[p] > 0 \/ \E i \in 1 .. Len(orderQueue) : orderQueue[i].id = p
    BY <2>1 DEF Keeps, Attended
  <2>2. CASE \E t \in Threads : Prepares(t) /\ job[t].id = p
    BY <2>2 DEF Keeps, Attended
  <2>3. CASE \E c \in OrderIds : Busy(c) /\ parentOf[c] = p
    BY <2>3 DEF Keeps, Attended
  <2>4. CASE (deferred.reroute /\ parentOf[deferred.id] = p) \/ Completes(p)
    <3>1. (deferred'.reroute /\ parentOf'[deferred'.id] = p) \/ Completes(p)'
      BY <2>4 DEF Keeps, Completes
    <3>. QED
      BY <3>1 DEF Attended
  <2>. QED
    BY <1>3, <2>1, <2>2, <2>3, <2>4 DEF Attended
<1>. QED
  BY <1>1, <1>2, <1>3 DEF Cared

LEMMA EntriesStill ==
  ASSUME activeOrders' = activeOrders
  PROVE  \A v \in Venues, c \in OrderIds : (OnBook(v, c)' <=> OnBook(v, c)) /\ Entry(v, c)'.tif = Entry(v, c).tif
  BY DEF OnBook, Entry

LEMMA LeavesSend ==
  ASSUME IInv, pc' = pc \/ \E t \in Threads : pc[t] # "send" /\ \E to : pc' = [pc EXCEPT ![t] = to]
  PROVE  \A z \in Threads : pc[z] = "send" => pc'[z] = "send"
<1>1. CASE pc' = pc
  BY <1>1
<1>2. ASSUME NEW t \in Threads, NEW to, pc[t] # "send", pc' = [pc EXCEPT ![t] = to]
      PROVE  \A z \in Threads : pc[z] = "send" => pc'[z] = "send"
  BY <1>2, StepsOn
<1>. QED
  BY <1>1, <1>2
(* The steps of clients and operators, and of a thread between two orders. *)
LEMMA ClientKeeps ==
  ASSUME IInv, Market, Tended, Cared,
         (\E id \in OrderIds : CancelOrder(id)) \/ KillSwitch \/ Stop \/ StopDisconnect \/ UNCHANGED vars
  PROVE  Tended' /\ Cared'
<1>1. UNCHANGED <<orders, parentOf, childrenOf, clientQty, orderQueue, job, completed, deferred, rejected,
                  pendingQueue, reportQueue, sending, activeOrders, pc>>
  <2>1. CASE \E id \in OrderIds : CancelOrder(id)
    BY <2>1 DEF CancelOrder, exchangeVars, handlerVars, riskVars, threadVars
  <2>2. CASE KillSwitch
    BY <2>2 DEF KillSwitch, exchangeVars, handlerVars, gatewayVars, threadVars
  <2>3. CASE Stop
    BY <2>3 DEF Stop, exchangeVars, handlerVars, riskVars, threadVars
  <2>4. CASE StopDisconnect
    BY <2>4 DEF StopDisconnect, Disconnect, handlerVars, riskVars, gatewayVars, threadVars
  <2>5. CASE UNCHANGED vars
    BY <2>5 DEF vars, exchangeVars, handlerVars, riskVars, gatewayVars, threadVars
  <2>. QED
    BY <2>1, <2>2, <2>3, <2>4, <2>5
<1>2. Undisturbed
  BY <1>1, EntriesStill DEF Undisturbed
<1>3. Tended' /\ \A c \in OrderIds : Busy(c)' <=> Busy(c)
  BY <1>2, TendedStill
<1>4. Keeps
  BY <1>1, <1>3 DEF Keeps, Prepares
<1>. QED
  BY <1>3, <1>4, CaredStill

\* The steps that only move a thread on, or have it give an order up.
LEMMA ThreadKeeps ==
  ASSUME IInv, Market, Tended, Cared, NEW t \in Threads,
         \/ Loop(t) \/ GivesUp(t)
         \/ t = "order" /\ PopOrder /\ orderQueue = << >>
         \/ t = "order" /\ PopCancel
         \/ t = "exec" /\ PopReport /\ reportQueue = << >>
  PROVE  Tended' /\ Cared'
<1>1. UNCHANGED <<orders, parentOf, childrenOf, clientQty, orderQueue, job, completed, deferred,
                  pendingQueue, reportQueue, sending, activeOrders>>
  <2>1. CASE Loop(t)
    BY <2>1 DEF Loop, exchangeVars, handlerVars, riskVars, gatewayVars
  <2>2. CASE GivesUp(t)
    BY <2>2 DEF GivesUp
  <2>3. CASE PopOrder /\ orderQueue = << >>
    BY <2>3 DEF PopOrder, exchangeVars, handlerVars
  <2>4. CASE PopCancel
    BY <2>4 DEF PopCancel, exchangeVars, handlerVars
  <2>5. CASE PopReport /\ reportQueue = << >>
    BY <2>5 DEF PopReport, handlerVars, gatewayVars
  <2>. QED
    BY <2>1, <2>2, <2>3, <2>4, <2>5
<1>2. /\ \/ pc[t] \notin {"admit", "route", "slice", "send"} /\ rejected' = rejected
         \/ pc[t] # "send" /\ rejected' = rejected \cup {job[t].id}
      /\ \E to : pc' = [pc EXCEPT ![t] = to]
  <2>1. CASE Loop(t)
    BY <2>1 DEF Loop, GoTo, gatewayVars
  <2>2. CASE GivesUp(t)
    BY <2>2 DEF GivesUp
  <2>3. CASE t = "order" /\ PopOrder /\ orderQueue = << >>
    BY <2>3 DEF PopOrder, GoTo
  <2>4. CASE t = "order" /\ PopCancel
    BY <2>4 DEF PopCancel, GoTo
  <2>5. CASE t = "exec" /\ PopReport /\ reportQueue = << >>
    BY <2>5 DEF PopReport, GoTo, gatewayVars
  <2>. QED
    BY <2>1, <2>2, <2>3, <2>4, <2>5
<1>3. PICK to : pc' = [pc EXCEPT ![t] = to]
  BY <1>2
<1>4. pc[t] # "send"
  BY <1>2
<1>5. \A z \in Threads : pc[z] = "send" => pc'[z] = "send"
  BY <1>3, <1>4, LeavesSend
<1>6. Undisturbed
  BY <1>1, <1>5, EntriesStill DEF Undisturbed
<1>7. Tended' /\ \A c \in OrderIds : Busy(c)' <=> Busy(c)
  BY <1>6, TendedStill
<1>8. \A z \in Threads : Prepares(z) => Prepares(z)' \/ job[z].id \in rejected'
  <2>1. \A z \in Threads : z # t => pc'[z] = pc[z]
    BY <1>3, StepsOn
  <2>2. Prepares(t) => job[t].id \in rejected'
    BY <1>2 DEF Prepares
  <2>. QED
    BY <2>1, <2>2 DEF Prepares
<1>9. Keeps
  BY <1>1, <1>2, <1>7, <1>8 DEF Keeps
<1>. QED
  BY <1>7, <1>9, CaredStill

LEMMA CancelKeeps ==
  ASSUME IInv, Market, Tended, Cared, CancelChild
  PROVE  Tended' /\ Cared'
<1>1. UNCHANGED <<orders, parentOf, childrenOf, clientQty, orderQueue, job, completed, deferred, rejected, sending>>
  BY DEF CancelChild, handlerVars, riskVars, gatewayVars
<1>2. UNCHANGED <<pendingQueue, reportQueue>>
  BY DEF CancelChild, CancelAtVenue, exchangeVars
<1>3. \A v \in Venues, c \in OrderIds : (OnBook(v, c)' <=> OnBook(v, c)) /\ Entry(v, c)'.tif = Entry(v, c).tif
  <2>1. CASE activeOrders' = activeOrders
    BY <2>1, EntriesStill
  <2>2. CASE cancelList # << >> /\ activeOrders' # activeOrders
    <3>1. PICK x, w : x = Head(cancelList) /\ w = orders[x].venue
      OBVIOUS
    <3>2. activeOrders' = [activeOrders EXCEPT ![w][x].cancel = TRUE] /\ OnBook(w, x)
      BY <2>2, <3>1 DEF CancelChild, CancelAtVenue, exchangeVars
    <3>3. activeOrders \in [Venues -> [OrderIds -> BookShape]]
      BY DEF IInv, VenueShapes
    <3>4. ASSUME NEW v \in Venues, NEW c \in OrderIds PROVE Entry(v, c)'.tif = Entry(v, c).tif
      <4>1. CASE v = w /\ c = x
        <5>1. activeOrders'[v][c] = [activeOrders[v][c] EXCEPT !.cancel = TRUE]
          BY <3>2, <3>3, <4>1
        <5>2. PICK e \in BookShape : e = activeOrders[v][c]
          BY <3>3
        <5>3. [e EXCEPT !.cancel = TRUE].tif = e.tif
          BY DEF BookShape
        <5>. QED
          BY <5>1, <5>2, <5>3 DEF Entry
      <4>2. CASE ~(v = w /\ c = x)
        <5>1. activeOrders'[v][c] = activeOrders[v][c]
          BY <3>2, <3>3, <4>2
        <5>. QED
          BY <5>1 DEF Entry
      <4>. QED
        BY <4>1, <4>2
    <3>. QED
      BY <3>4, CancelIdles DEF Idles
  <2>3. cancelList # << >> \/ activeOrders' = activeOrders
    BY DEF CancelChild, exchangeVars
  <2>. QED
    BY <2>1, <2>2, <2>3
<1>4. "order" \in Threads /\ pc["order"] = "cancelling"
  BY DEF CancelChild, Threads
<1>5. pc' = pc \/ pc' = [pc EXCEPT !["order"] = "cancels"]
  BY DEF CancelChild, GoTo
<1>6. \A z \in Threads : pc[z] = "send" => pc'[z] = "send"
  BY <1>4, <1>5, LeavesSend
<1>7. Undisturbed
  BY <1>1, <1>2, <1>3, <1>6 DEF Undisturbed
<1>8. Tended' /\ \A c \in OrderIds : Busy(c)' <=> Busy(c)
  BY <1>7, TendedStill
<1>9. \A z \in Threads : Prepares(z) => Prepares(z)'
  <2>1. CASE pc' = pc
    BY <2>1 DEF Prepares
  <2>2. CASE pc' = [pc EXCEPT !["order"] = "cancels"]
    <3>1. \A z \in Threads : z # "order" => pc'[z] = pc[z]
      BY <1>4, <2>2, StepsOn
    <3>2. ~Prepares("order")
      BY <1>4 DEF Prepares
    <3>. QED
      BY <3>1, <3>2 DEF Prepares
  <2>. QED
    BY <1>5, <2>1, <2>2
<1>10. Keeps
  BY <1>1, <1>8, <1>9 DEF Keeps
<1>. QED
  BY <1>8, <1>10, CaredStill

\* An order is admitted and routed by the thread that prepares it.
LEMMA PrepareKeeps ==
  ASSUME IInv, Market, Tended, Cared, NEW t \in Threads,
         (\E p \in OrderIds, o \in OrderShape : Admits(t, p, o)) \/ (\E d : Decides(t, d))
  PROVE  Tended' /\ Cared'
<1>1. /\ UNCHANGED <<parentOf, childrenOf, clientQty, orderQueue, job, completed, deferred, rejected,
                     pendingQueue, reportQueue, sending, activeOrders>>
      /\ \A c \in OrderIds : Child(c) => orders'[c] = orders[c]
  <2>1. ASSUME NEW p \in OrderIds, NEW o \in OrderShape, Admits(t, p, o)
        PROVE  \A c \in OrderIds : Child(c) => orders'[c] = orders[c]
    <3>1. ~Child(p) /\ orders' = [orders EXCEPT ![p] = o] /\ orders \in [OrderIds -> OrderShape]
      BY <2>1 DEF Admits, IInv, RouterShapes
    <3>. QED
      BY <3>1
  <2>2. CASE \E p \in OrderIds, o \in OrderShape : Admits(t, p, o)
    BY <2>1, <2>2 DEF Admits
  <2>3. CASE \E d : Decides(t, d)
    BY <2>3 DEF Decides
  <2>. QED
    BY <2>2, <2>3
<1>2. pc[t] # "send" /\ \E to \in {"route", "slice"} : pc' = [pc EXCEPT ![t] = to]
  BY DEF Admits, Decides
<1>3. PICK to \in {"route", "slice"} : pc' = [pc EXCEPT ![t] = to]
  BY <1>2
<1>4. \A z \in Threads : pc[z] = "send" => pc'[z] = "send"
  BY <1>2, <1>3, LeavesSend
<1>5. Undisturbed
  BY <1>1, <1>4, EntriesStill DEF Undisturbed
<1>6. Tended' /\ \A c \in OrderIds : Busy(c)' <=> Busy(c)
  BY <1>5, TendedStill
<1>7. \A z \in Threads : Prepares(z) => Prepares(z)'
  BY <1>3, StepsOn DEF Prepares
<1>8. Keeps
  BY <1>1, <1>6, <1>7 DEF Keeps
<1>. QED
  BY <1>6, <1>8, CaredStill
LEMMA SubmitKeeps ==
  ASSUME IInv, Accounting, Market, Tended, Cared, NEW side \in SideChoices, NEW quantity \in Quantities,
         NEW tif \in TifChoices, NEW strategy \in Strategies, SubmitOrder(side, quantity, tif, strategy)
  PROVE  Tended' /\ Cared'
<1>1. /\ UNCHANGED <<orders, parentOf, childrenOf, job, completed, deferred, rejected,
                     pendingQueue, reportQueue, sending, activeOrders, pc>>
      /\ nextId \in OrderIds /\ clientQty' = [clientQty EXCEPT ![nextId] = quantity]
  BY DEF SubmitOrder, exchangeVars, handlerVars, threadVars
<1>2. PICK new : new.id = nextId /\ orderQueue' = Append(orderQueue, new)
  <2>1. PICK n, o : n = nextId /\ orderQueue' = Append(orderQueue, [id |-> n, order |-> o])
    BY DEF SubmitOrder
  <2>. QED
    BY <2>1
<1>3. Undisturbed
  BY <1>1, EntriesStill DEF Undisturbed
<1>4. Tended' /\ \A c \in OrderIds : Busy(c)' <=> Busy(c)
  BY <1>3, TendedStill
<1>5. PICK n \in Nat : n = Len(orderQueue)
  BY DEF IInv, RouterShapes
<1>6. Len(orderQueue') = n + 1 /\ (\A i \in 1 .. n : orderQueue'[i] = orderQueue[i]) /\ orderQueue'[n + 1] = new
  BY <1>2, <1>5 DEF IInv, RouterShapes
<1>7. \A i \in 1 .. n : i \in 1 .. n + 1
  BY <1>5
<1>8. ASSUME NEW p \in OrderIds, Attended(p) PROVE Attended(p)'
  <2>1. CASE \E i \in 1 .. Len(orderQueue) : orderQueue[i].id = p
    <3>1. \E i \in 1 .. Len(orderQueue') : orderQueue'[i].id = p
      BY <1>5, <1>6, <1>7, <2>1
    <3>. QED
      BY <3>1 DEF Attended
  <2>2. CASE \/ p \in rejected \/ completed[p] > 0
             \/ \E t \in Threads : Prepares(t) /\ job[t].id = p
             \/ deferred.reroute /\ parentOf[deferred.id] = p
             \/ Completes(p)
    BY <1>1, <2>2 DEF Attended, Prepares, Completes
  <2>3. CASE \E c \in OrderIds : Busy(c) /\ parentOf[c] = p
    BY <1>1, <1>4, <2>3 DEF Attended
  <2>. QED
    BY <1>8, <2>1, <2>2, <2>3 DEF Attended
<1>9. ASSUME NEW p \in OrderIds, clientQty'[p] > 0 PROVE Attended(p)'
  <2>1. CASE p = nextId
    <3>1. p \in OrderIds /\ \E i \in 1 .. Len(orderQueue') : orderQueue'[i].id = p
      BY <1>2, <1>5, <1>6, <2>1
    <3>. QED
      BY <3>1 DEF Attended
  <2>2. CASE p # nextId
    <3>1. clientQty'[p] = clientQty[p]
      BY <1>1, <2>2 DEF Accounting, AccountShapes
    <3>. QED
      BY <1>8, <1>9, <3>1 DEF Cared, ClientOrders
  <2>. QED
    BY <2>1, <2>2
<1>. QED
  BY <1>4, <1>9 DEF Cared, ClientOrders

LEMMA TakeKeeps ==
  ASSUME IInv, Market, Tended, Cared, PopOrder, orderQueue # << >>
  PROVE  Tended' /\ Cared'
<1>1. /\ UNCHANGED <<orders, parentOf, childrenOf, clientQty, completed, deferred, rejected,
                     pendingQueue, reportQueue, sending, activeOrders>>
      /\ job' = [job EXCEPT !["order"] = Head(orderQueue)] /\ orderQueue' = Tail(orderQueue)
      /\ pc["order"] = "orders" /\ pc' = [pc EXCEPT !["order"] = "admit"]
  BY DEF PopOrder, GoTo, exchangeVars, handlerVars
<1>t. "order" \in Threads
  BY DEF Threads
<1>2. \A z \in Threads : pc[z] = "send" => pc'[z] = "send"
  BY <1>1, <1>t, LeavesSend
<1>3. Undisturbed
  BY <1>1, <1>2, EntriesStill DEF Undisturbed
<1>4. Tended' /\ \A c \in OrderIds : Busy(c)' <=> Busy(c)
  BY <1>3, TendedStill
<1>5. /\ pc'["order"] = "admit" /\ job'["order"] = Head(orderQueue)
      /\ \A z \in Threads : z # "order" => pc'[z] = pc[z] /\ job'[z] = job[z]
  BY <1>1, <1>t DEF IInv, ThreadShapes
<1>6. /\ orderQueue[1] = Head(orderQueue)
      /\ \A i \in 1 .. Len(orderQueue) : i = 1 \/ (i - 1 \in 1 .. Len(orderQueue') /\ orderQueue'[i - 1] = orderQueue[i])
  <2>1. PICK q : q = Tail(orderQueue)
    OBVIOUS
  <2>2. orderQueue \in Seq([id : OrderIds, order : OrderShape])
    BY DEF IInv, RouterShapes
  <2>3. \A i \in 1 .. Len(orderQueue) : i = 1 \/ (i - 1 \in 1 .. Len(q) /\ q[i - 1] = orderQueue[i])
    BY <2>1, <2>2
  <2>. QED
    BY <1>1, <2>1, <2>2, <2>3
<1>7. ASSUME NEW p \in OrderIds, Attended(p) PROVE Attended(p)'
  <2>1. CASE \E i \in 1 .. Len(orderQueue) : orderQueue[i].id = p
    <3>1. PICK i \in 1 .. Len(orderQueue) : orderQueue[i].id = p
      BY <2>1
    <3>2. CASE i = 1
      <4>1. Prepares("order")' /\ job'["order"].id = p
        BY <1>5, <1>6, <3>1, <3>2 DEF Prepares
      <4>. QED
        BY <1>t, <4>1 DEF Attended
    <3>3. CASE i # 1
      <4>1. \E k \in 1 .. Len(orderQueue') : orderQueue'[k].id = p
        BY <1>6, <3>1, <3>3
      <4>. QED
        BY <4>1 DEF Attended
    <3>. QED
      BY <3>2, <3>3
  <2>2. CASE \E t \in Threads : Prepares(t) /\ job[t].id = p
    <3>1. PICK t \in Threads : Prepares(t) /\ job[t].id = p
      BY <2>2
    <3>2. t # "order"
      BY <1>1, <3>1 DEF Prepares
    <3>3. Prepares(t)' /\ job'[t].id = p
      BY <1>5, <3>1, <3>2 DEF Prepares
    <3>. QED
      BY <3>3 DEF Attended
  <2>3. CASE \/ p \in rejected \/ completed[p] > 0
             \/ deferred.reroute /\ parentOf[deferred.id] = p
             \/ Completes(p)
    BY <1>1, <2>3 DEF Attended, Completes
  <2>4. CASE \E c \in OrderIds : Busy(c) /\ parentOf[c] = p
    BY <1>1, <1>4, <2>4 DEF Attended
  <2>. QED
    BY <1>7, <2>1, <2>2, <2>3, <2>4 DEF Attended
<1>. QED
  BY <1>1, <1>4, <1>7 DEF Cared, ClientOrders

\* The callbacks either end the order or hand it to the thread that runs them.
LEMMA RunKeeps ==
  ASSUME IInv, Accounting, Market, Rounds, Tended, Cared, NEW c \in OrderIds, Runs(c)
  PROVE  Tended' /\ Cared'
<1>1. /\ UNCHANGED <<orders, parentOf, childrenOf, clientQty, orderQueue, rejected,
                     pendingQueue, reportQueue, sending, activeOrders>>
      /\ c = deferred.id /\ pc["exec"] = "deferred"
      /\ completed' = IF deferred.completion THEN [completed EXCEPT ![parentOf[c]] = @ + 1] ELSE completed
      /\ \/ /\ deferred.reroute /\ job' = [job EXCEPT !["exec"] = RerouteJob(parentOf[c])]
            /\ pc' = [pc EXCEPT !["exec"] = "admit"]
         \/ ~deferred.reroute /\ job' = job /\ pc' = [pc EXCEPT !["exec"] = "reports"]
  BY DEF Runs
<1>t. "exec" \in Threads
  BY DEF Threads
<1>2. \A z \in Threads : pc[z] = "send" => pc'[z] = "send"
  BY <1>1, <1>t, LeavesSend
<1>3. Undisturbed
  BY <1>1, <1>2, EntriesStill DEF Undisturbed
<1>4. Tended' /\ \A x \in OrderIds : Busy(x)' <=> Busy(x)
  BY <1>3, TendedStill
<1>5. /\ \A z \in Threads : z # "exec" => pc'[z] = pc[z] /\ job'[z] = job[z]
      /\ deferred.reroute => pc'["exec"] = "admit" /\ job'["exec"].id = parentOf[c]
  <2>1. RerouteJob(parentOf[c]).id = parentOf[c]
    BY DEF RerouteJob
  <2>. QED
    BY <1>1, <1>t, <2>1 DEF IInv, ThreadShapes
<1>6. completed \in [OrderIds -> Nat]
  BY DEF Rounds, Completions
<1>7. ASSUME NEW p \in OrderIds
      PROVE  completed[p] > 0 \/ (deferred.completion /\ parentOf[c] = p) => completed'[p] > 0
  BY <1>1, <1>6
<1>8. ASSUME NEW p \in OrderIds, Attended(p) PROVE Attended(p)'
  <2>1. CASE completed[p] > 0 \/ Completes(p)
    <3>1. completed'[p] > 0
      BY <1>1, <1>7, <2>1 DEF Completes
    <3>. QED
      BY <3>1 DEF Attended
  <2>2. CASE \E t \in Threads : Prepares(t) /\ job[t].id = p
    <3>1. PICK t \in Threads : Prepares(t) /\ job[t].id = p
      BY <2>2
    <3>2. t # "exec"
      BY <1>1, <3>1 DEF Prepares
    <3>3. Prepares(t)' /\ job'[t].id = p
      BY <1>5, <3>1, <3>2 DEF Prepares
    <3>. QED
      BY <3>3 DEF Attended
  <2>3. CASE p \in rejected \/ \E i \in 1 .. Len(orderQueue) : orderQueue[i].id = p
    BY <1>1, <2>3 DEF Attended
  <2>4. CASE \E x \in OrderIds : Busy(x) /\ parentOf[x] = p
    BY <1>1, <1>4, <2>4 DEF Attended
  <2>5. CASE deferred.reroute /\ parentOf[deferred.id] = p
    <3>1. Prepares("exec")' /\ job'["exec"].id = p
      BY <1>1, <1>5, <2>5 DEF Prepares
    <3>. QED
      BY <1>t, <3>1 DEF Attended
  <2>. QED
    BY <1>8, <2>1, <2>2, <2>3, <2>4, <2>5 DEF Attended
<1>. QED
  BY <1>1, <1>4, <1>8 DEF Cared, ClientOrders
\* The next child of an order takes the order's place.
LEMMA HandKeeps ==
  ASSUME IInv, Accounting, Market, Rounds, Tended, Cared, NEW t \in Threads, NEW p \in OrderIds,
         NEW c \in OrderIds, NEW o \in OrderShape, NEW slice \in SliceShape, Hands(t, p, c, o, slice)
  PROVE  Tended' /\ Cared'
<1>0. Queued /\ Greeted /\ Firm /\ Over /\ Kin /\ Handing
  BY DEF Tended
<1>m. /\ \A z \in Threads : z # t => pc'[z] = pc[z]
      /\ \A x \in OrderIds : orders'[x] = IF x = c THEN o ELSE orders[x]
      /\ \A x \in OrderIds : parentOf'[x] = IF x = c THEN p ELSE parentOf[x]
      /\ \A x \in OrderIds : Child(x)' <=> Child(x) \/ x = c
  BY HandMaps
<1>u. /\ UNCHANGED <<activeOrders, pendingQueue, reportQueue, clientQty, orderQueue, rejected, completed, job, deferred>>
      /\ p = job[t].id /\ ~Child(c) /\ p # c /\ pc[t] = "slice" /\ pc' = [pc EXCEPT ![t] = "send"]
      /\ childrenOf' = [childrenOf EXCEPT ![p] = Append(childrenOf[p], c)]
      /\ sending' = [sending EXCEPT ![t] = c] /\ o.state = "PendingNew"
  BY DEF Hands
<1>s. sending'[t] = c /\ pc'[t] = "send" /\ \A z \in Threads : z # t => sending'[z] = sending[z]
  BY <1>u DEF IInv, ThreadShapes
<1>i. INVALID_ORDER_ID \notin OrderIds
  BY Ids
<1>1. sending[t] \notin OrderIds
  BY <1>0, <1>u DEF Handing
<1>2. Sent(c)' /\ \A x \in OrderIds : Sent(x) => Sent(x)'
  BY <1>s, <1>1 DEF Sent
<1>3. /\ \A v \in Venues, x \in OrderIds : (OnBook(v, x)' <=> OnBook(v, x)) /\ Entry(v, x)'.tif = Entry(v, x).tif
      /\ \A x \in OrderIds : /\ Booked(x)' <=> Booked(x)
                             /\ About(x, reportQueue)' <=> About(x, reportQueue)
                             /\ Greets(x, reportQueue)' <=> Greets(x, reportQueue)
  BY <1>u, EntriesStill DEF Booked, OnBook, About, Greets
<1>4. Busy(c)' /\ \A x \in OrderIds : Busy(x) => Busy(x)'
  BY <1>2, <1>3 DEF Busy
<1>5. Queued'
  BY <1>0, <1>3, <1>u DEF Queued, In
<1>6. Greeted'
  <2>1. ASSUME NEW x \in OrderIds, Child(x)', orders'[x].state = "PendingNew" PROVE Sent(x)' \/ Greets(x, reportQueue)'
    <3>1. CASE x = c
      BY <1>2, <3>1
    <3>2. CASE x # c
      BY <1>0, <1>m, <1>2, <1>3, <2>1, <3>2 DEF Greeted
    <3>. QED
      BY <3>1, <3>2
  <2>. QED
    BY <2>1 DEF Greeted
<1>7. Firm'
  <2>1. ASSUME NEW v \in Venues, NEW x \in OrderIds, OnBook(v, x)' PROVE Entry(v, x)'.tif = orders'[x].tif
    <3>1. OnBook(v, x) /\ Child(x)
      BY <1>3, <2>1 DEF Market, Books, BookEntry
    <3>2. x # c
      BY <1>u, <3>1
    <3>. QED
      BY <1>0, <1>m, <1>3, <3>1, <3>2 DEF Firm
  <2>2. ASSUME NEW i \in 1 .. Len(reportQueue') PROVE Honest(reportQueue[i])'
    <3>1. Honest(reportQueue[i]) /\ reportQueue[i].id \in OrderIds /\ Child(reportQueue[i].id)
      BY <1>0, <1>u, ReportsOfChildren DEF Firm
    <3>2. orders'[reportQueue[i].id] = orders[reportQueue[i].id]
      BY <1>m, <1>u, <3>1
    <3>. QED
      BY <1>u, <3>1, <3>2 DEF Honest
  <2>3. ASSUME NEW x \in OrderIds, Child(x)'
        PROVE  /\ orders'[x].state \in ChildStates
               /\ orders'[x].tif = "FOK" => orders'[x].state # "PartiallyFilled"
    <3>1. CASE x = c
      BY <1>m, <1>u, <3>1 DEF ChildStates
    <3>2. CASE x # c
      BY <1>0, <1>m, <2>3, <3>2 DEF Firm
    <3>. QED
      BY <3>1, <3>2
  <2>. QED
    BY <2>1, <2>2, <2>3 DEF Firm
<1>8. Over'
  <2>1. ASSUME NEW x \in OrderIds, Child(x)' PROVE Busy(x)' \/ IsTerminal(orders'[x].state)
    BY <1>0, <1>m, <1>4, <2>1 DEF Over
  <2>. QED
    BY <2>1 DEF Over
<1>9. Kin'
  <2>0. childrenOf \in [OrderIds -> Seq(OrderIds)]
    BY DEF IInv, RouterShapes
  <2>1. ASSUME NEW q \in OrderIds, NEW i \in 1 .. Len(childrenOf[q])
        PROVE  childrenOf[q][i] \in OrderIds /\ parentOf'[childrenOf[q][i]] = q
    <3>1. PICK x : x = childrenOf[q][i]
      OBVIOUS
    <3>2. x \in OrderIds /\ parentOf[x] = q
      BY <1>0, <2>0, <3>1 DEF Kin
    <3>3. x # c
      BY <1>u, <1>i, <3>2 DEF Child
    <3>. QED
      BY <1>m, <3>1, <3>2, <3>3
  <2>2. ASSUME NEW q \in OrderIds, NEW i \in 1 .. Len(childrenOf'[q]) PROVE parentOf'[childrenOf'[q][i]] = q
    <3>1. CASE q # p
      BY <1>u, <2>0, <2>1, <2>2, <3>1
    <3>2. CASE q = p
      <4>1. PICK s \in Seq(OrderIds) : s = childrenOf[p]
        BY <2>0
      <4>2. childrenOf'[q] = Append(s, c)
        BY <1>u, <2>0, <3>2, <4>1
      <4>3. PICK n \in Nat : n = Len(s)
        BY <4>1
      <4>4. i \in 1 .. n + 1
        BY <2>2, <4>1, <4>2, <4>3
      <4>5. CASE i \in 1 .. n
        <5>1. childrenOf'[q][i] = s[i]
          BY <4>1, <4>2, <4>3, <4>5
        <5>. QED
          BY <2>1, <3>2, <4>1, <4>3, <4>5, <5>1
      <4>6. CASE i = n + 1
        <5>1. childrenOf'[q][i] = c
          BY <4>1, <4>2, <4>3, <4>6
        <5>. QED
          BY <1>m, <3>2, <5>1
      <4>. QED
        BY <4>4, <4>5, <4>6
    <3>. QED
      BY <3>1, <3>2
  <2>. QED
    BY <2>2 DEF Kin
<1>10. Handing'
  <2>1. ASSUME NEW z \in Threads, sending'[z] \in OrderIds PROVE pc'[z] = "send"
    BY <1>0, <1>m, <1>s, <2>1 DEF Handing
  <2>. QED
    BY <2>1 DEF Handing
<1>11. ASSUME NEW q \in OrderIds, Attended(q) PROVE Attended(q)'
  <2>1. CASE q = p
    BY <1>m, <1>4, <2>1 DEF Attended
  <2>2. CASE \/ q \in rejected \/ completed[q] > 0
             \/ \E i \in 1 .. Len(orderQueue) : orderQueue[i].id = q
    BY <1>u, <2>2 DEF Attended
  <2>3. CASE q # p /\ \E z \in Threads : Prepares(z) /\ job[z].id = q
    <3>1. PICK z \in Threads : Prepares(z) /\ job[z].id = q
      BY <2>3
    <3>2. z # t
      BY <1>u, <2>3, <3>1
    <3>3. Prepares(z)' /\ job'[z].id = q
      BY <1>m, <1>u, <3>1, <3>2 DEF Prepares
    <3>. QED
      BY <3>3 DEF Attended
  <2>4. CASE \E x \in OrderIds : Busy(x) /\ parentOf[x] = q
    <3>1. PICK x \in OrderIds : Busy(x) /\ parentOf[x] = q
      BY <2>4
    <3>2. x # c
      BY <1>u, <3>1, BusyChildren
    <3>3. Busy(x)' /\ parentOf'[x] = q
      BY <1>m, <1>4, <3>1, <3>2
    <3>. QED
      BY <3>3 DEF Attended
  <2>5. CASE (deferred.reroute \/ deferred.completion) /\ parentOf[deferred.id] = q
    <3>1. deferred.id \in OrderIds /\ Child(deferred.id)
      BY <2>5, PendingCallbacks
    <3>2. parentOf'[deferred.id] = q
      BY <1>m, <1>u, <2>5, <3>1
    <3>. QED
      BY <1>u, <2>5, <3>2 DEF Attended, Completes
  <2>. QED
    BY <1>11, <2>1, <2>2, <2>3, <2>4, <2>5 DEF Attended, Completes
<1>12. Cared'
  BY <1>u, <1>11 DEF Cared, ClientOrders
<1>. QED
  BY <1>5, <1>6, <1>7, <1>8, <1>9, <1>10, <1>12 DEF Tended

LEMMA DeliverKeeps ==
  ASSUME IInv, Accounting, Market, Rounds, Tended, Cared, lostReports' = << >>,
         NEW t \in Threads, NEW c \in OrderIds, NEW v \in Venues, Delivers(t, c, v)
  PROVE  Tended' /\ Cared'
<1>0. Queued /\ Greeted /\ Firm /\ Over /\ Kin /\ Handing
  BY DEF Tended
<1>u. /\ UNCHANGED <<orders, parentOf, childrenOf, clientQty, orderQueue, rejected, completed, job, deferred>>
      /\ c = sending[t] /\ Child(c) /\ ~OnBook(v, c)
      /\ sending' = [sending EXCEPT ![t] = INVALID_ORDER_ID]
      /\ pendingQueue' = [pendingQueue EXCEPT ![v] = Append(@, c)] /\ pc[t] = "send"
  BY DEF Delivers
<1>s. /\ sending'[t] = INVALID_ORDER_ID /\ INVALID_ORDER_ID \notin OrderIds
      /\ \A z \in Threads : z # t => sending'[z] = sending[z]
  BY <1>u, Ids DEF IInv, ThreadShapes
<1>e. PICK e : e = [quantity |-> orders[c].quantity, filled |-> 0, tif |-> orders[c].tif, cancel |-> FALSE]
  OBVIOUS
<1>a. /\ activeOrders' = [activeOrders EXCEPT ![v][c] = e]
      /\ activeOrders \in [Venues -> [OrderIds -> BookShape]] /\ pendingQueue \in [Venues -> Seq(OrderIds)]
  BY <1>e DEF Delivers, IInv, VenueShapes
<1>b. /\ Entry(v, c)' = e
      /\ \A w \in Venues, x \in OrderIds : w # v \/ x # c => /\ Entry(w, x)' = Entry(w, x)
                                                             /\ OnBook(w, x)' <=> OnBook(w, x)
  BY <1>a DEF Entry, OnBook
<1>r. PICK r \in ReportShape : r = Report(c, "Accepted", 0, 0)
  <2>1. Report(c, "Accepted", 0, 0) \in ReportShape
    BY DEF Report, ReportShape
  <2>. QED
    BY <2>1
<1>1. r.id = c /\ r.state = "Accepted"
  BY <1>r DEF Report
<1>2. reportQueue' = Append(reportQueue, r)
  <2>1. Notify(<<r>>)
    BY <1>r DEF Delivers
  <2>. QED
    BY <2>1, PushedOne
<1>3. ~About(c, reportQueue)
  BY <1>u DEF Market, Departures, Departing
<1>4. /\ \A x : About(x, reportQueue)' <=> About(x, reportQueue) \/ x = c
      /\ \A i \in 1 .. Len(reportQueue') : In(reportQueue'[i], reportQueue) \/ reportQueue'[i] = r
  BY <1>1, <1>2, PushedAbout
<1>5. Greets(c, reportQueue)' /\ \A x : Greets(x, reportQueue) => Greets(x, reportQueue)'
  <2>1. reportQueue \in Seq(ReportShape)
    BY ReportsOfChildren
  <2>2. PICK q : q = Append(reportQueue, r)
    OBVIOUS
  <2>3. Greets(c, q) /\ \A x : Greets(x, reportQueue) => Greets(x, q)
    BY <1>1, <1>3, <2>1, <2>2, GreetsAppend
  <2>4. \A x : Greets(x, reportQueue)' <=> Greets(x, q)
    BY <1>2, <2>2 DEF Greets
  <2>. QED
    BY <2>3, <2>4
<1>6. \A x \in OrderIds : x # c => (Sent(x) => Sent(x)')
  BY <1>s, <1>u DEF Sent
<1>7. Busy(c)' /\ \A x \in OrderIds : Busy(x) => Busy(x)'
  <2>1. Busy(c)'
    BY <1>4 DEF Busy
  <2>2. \A x \in OrderIds : x # c => (Booked(x) => Booked(x)')
    BY <1>b DEF Booked
  <2>. QED
    BY <1>4, <1>6, <2>1, <2>2 DEF Busy
<1>8. Queued'
  <2>1. ASSUME NEW w \in Venues, NEW x \in OrderIds, OnBook(w, x)' PROVE In(x, pendingQueue'[w])
    <3>1. CASE w = v
      <4>1. PICK q : q = Append(pendingQueue[v], c)
        OBVIOUS
      <4>2. \A y : In(y, q) <=> In(y, pendingQueue[v]) \/ y = c
        BY <1>a, <4>1, InAppended
      <4>3. pendingQueue'[v] = q
        BY <1>a, <1>u, <4>1
      <4>. QED
        BY <1>0, <1>b, <2>1, <3>1, <4>2, <4>3 DEF Queued
    <3>2. CASE w # v
      <4>1. pendingQueue'[w] = pendingQueue[w] /\ OnBook(w, x)
        BY <1>a, <1>b, <1>u, <2>1, <3>2
      <4>. QED
        BY <1>0, <4>1 DEF Queued
    <3>. QED
      BY <3>1, <3>2
  <2>. QED
    BY <2>1 DEF Queued, In
<1>9. Greeted'
  <2>1. ASSUME NEW x \in OrderIds, Child(x), orders[x].state = "PendingNew" PROVE Sent(x)' \/ Greets(x, reportQueue)'
    BY <1>0, <1>5, <1>6, <2>1 DEF Greeted
  <2>. QED
    BY <1>u, <2>1 DEF Greeted, Child
<1>10. Firm'
  <2>1. ASSUME NEW w \in Venues, NEW x \in OrderIds, OnBook(w, x)' PROVE Entry(w, x)'.tif = orders'[x].tif
    <3>1. CASE w = v /\ x = c
      BY <1>b, <1>e, <1>u, <3>1
    <3>2. CASE w # v \/ x # c
      <4>1. OnBook(w, x) /\ Entry(w, x)' = Entry(w, x)
        BY <1>b, <2>1, <3>2
      <4>. QED
        BY <1>0, <1>u, <4>1 DEF Firm
    <3>. QED
      BY <3>1, <3>2
  <2>2. ASSUME NEW i \in 1 .. Len(reportQueue') PROVE Honest(reportQueue[i])'
    <3>0. PICK s : s = reportQueue'[i]
      OBVIOUS
    <3>1. CASE s = r
      BY <1>1, <3>0, <3>1 DEF Honest
    <3>2. CASE In(s, reportQueue)
      <4>1. Honest(s)
        BY <1>0, <3>2 DEF Firm, In
      <4>. QED
        BY <1>u, <3>0, <4>1 DEF Honest
    <3>. QED
      BY <1>4, <3>0, <3>1, <3>2
  <2>. QED
    BY <1>0, <1>u, <2>1, <2>2 DEF Firm, Child
<1>11. Over' /\ Kin'
  BY <1>0, <1>7, <1>u DEF Over, Kin, Child
<1>12. PICK to : to = Drain(t)
  OBVIOUS
<1>13. /\ pc' = [pc EXCEPT ![t] = to] /\ to \in {"orders", "reports"}
       /\ \A z \in Threads : z # t => pc'[z] = pc[z]
  <2>1. slices[t] = << >>
    BY <1>u DEF Rounds, Slices
  <2>2. pc' = [pc EXCEPT ![t] = to] /\ to \in {"orders", "reports"}
    BY <1>12, <2>1 DEF Delivers, Drain
  <2>. QED
    BY <2>2, StepsOn
<1>14. Handing'
  <2>1. ASSUME NEW z \in Threads, sending'[z] \in OrderIds PROVE pc'[z] = "send"
    BY <1>0, <1>13, <1>s, <2>1 DEF Handing
  <2>. QED
    BY <2>1 DEF Handing
<1>15. \A z \in Threads : Prepares(z) => Prepares(z)'
  <2>1. ~Prepares(t)
    BY <1>u DEF Prepares
  <2>. QED
    BY <1>13, <2>1 DEF Prepares
<1>16. Keeps
  BY <1>7, <1>15, <1>u DEF Keeps
<1>17. Cared'
  BY <1>16, CaredStill
<1>. QED
  BY <1>8, <1>9, <1>10, <1>11, <1>14, <1>17 DEF Tended
(* A visit: what the venue says about the child, and what it keeps of it. *)
Speaks(c, e) ==
    /\ \A x : About(x, reportQueue) => About(x, reportQueue)'
    /\ \A x : Greets(x, reportQueue) => Greets(x, reportQueue)'
    /\ e = Absent => About(c, reportQueue)'
    /\ \A i \in 1 .. Len(reportQueue') : In(reportQueue'[i], reportQueue) \/ Honest(reportQueue'[i])

Revisits(v, c, e, q) ==
    /\ activeOrders' = [activeOrders EXCEPT ![v][c] = e]
    /\ pendingQueue' = [pendingQueue EXCEPT ![v] = q]
    /\ \A x : In(x, Tail(pendingQueue[v])) => In(x, q)
    /\ e # Absent => In(c, q) /\ e.tif = Entry(v, c).tif

LEMMA VisitTended ==
  ASSUME IInv, Market, Tended, NEW v \in Venues, NEW c \in OrderIds, AtFront(v, c), childrenOf' = childrenOf,
         pc' = pc, NEW e, NEW q, Revisits(v, c, e, q), Speaks(c, e)
  PROVE  Tended' /\ \A x \in OrderIds : Busy(x) => Busy(x)'
<1>0. Queued /\ Greeted /\ Firm /\ Over /\ Kin /\ Handing
  BY DEF Tended
<1>u. UNCHANGED <<orders, parentOf, childrenOf, sending, pc>> /\ c = Head(pendingQueue[v]) /\ batch[v] > 0
  BY DEF AtFront
<1>a. activeOrders \in [Venues -> [OrderIds -> BookShape]] /\ pendingQueue \in [Venues -> Seq(OrderIds)]
  BY DEF IInv, VenueShapes
<1>b. /\ Entry(v, c)' = e /\ (OnBook(v, c)' <=> e # Absent)
      /\ \A w \in Venues, x \in OrderIds : w # v \/ x # c => /\ Entry(w, x)' = Entry(w, x)
                                                             /\ OnBook(w, x)' <=> OnBook(w, x)
  BY <1>a DEF Entry, OnBook, Revisits
<1>q. pendingQueue'[v] = q /\ \A w \in Venues : w # v => pendingQueue'[w] = pendingQueue[w]
  BY <1>a DEF Revisits
<1>1. \A x : In(x, pendingQueue[v]) => In(x, q) \/ x = c
  <2>1. pendingQueue[v] \in Seq(OrderIds) /\ pendingQueue[v] # << >>
    <3>1. batch[v] \in Nat /\ batch[v] <= Len(pendingQueue[v])
      BY DEF IInv, VenueShapes
    <3>. QED
      BY <1>a, <1>u, <3>1
  <2>2. \A x : In(x, pendingQueue[v]) <=> In(x, Tail(pendingQueue[v])) \/ x = c
    BY <1>u, <2>1, InTail
  <2>. QED
    BY <2>2 DEF Revisits
<1>2. \A x \in OrderIds : Sent(x)' <=> Sent(x)
  BY <1>u DEF Sent
<1>3. Busy(c)'
  <2>1. CASE e = Absent
    BY <2>1 DEF Speaks, Busy
  <2>2. CASE e # Absent
    BY <1>b, <2>2 DEF Booked, Busy
  <2>. QED
    BY <2>1, <2>2
<1>4. \A x \in OrderIds : Busy(x) => Busy(x)'
  <2>1. \A x \in OrderIds : x # c => (Booked(x) => Booked(x)')
    BY <1>b DEF Booked
  <2>. QED
    BY <1>2, <1>3, <2>1 DEF Busy, Speaks
<1>5. Queued'
  <2>1. ASSUME NEW w \in Venues, NEW x \in OrderIds, OnBook(w, x)' PROVE In(x, pendingQueue'[w])
    <3>1. CASE w = v /\ x = c
      BY <1>b, <1>q, <2>1, <3>1 DEF Revisits
    <3>2. CASE w = v /\ x # c
      <4>1. In(x, pendingQueue[v])
        BY <1>0, <1>b, <2>1, <3>2 DEF Queued
      <4>. QED
        BY <1>1, <1>q, <3>2, <4>1
    <3>3. CASE w # v
      <4>1. pendingQueue'[w] = pendingQueue[w] /\ OnBook(w, x)
        BY <1>b, <1>q, <2>1, <3>3
      <4>. QED
        BY <1>0, <4>1 DEF Queued
    <3>. QED
      BY <3>1, <3>2, <3>3
  <2>. QED
    BY <2>1 DEF Queued, In
<1>6. Greeted'
  <2>1. ASSUME NEW x \in OrderIds, Child(x), orders[x].state = "PendingNew" PROVE Sent(x)' \/ Greets(x, reportQueue)'
    BY <1>0, <1>2, <2>1 DEF Greeted, Speaks
  <2>. QED
    BY <1>u, <2>1 DEF Greeted, Child
<1>7. Firm'
  <2>1. ASSUME NEW w \in Venues, NEW x \in OrderIds, OnBook(w, x)' PROVE Entry(w, x)'.tif = orders'[x].tif
    <3>1. CASE w = v /\ x = c
      <4>1. OnBook(v, c)
        BY <1>u, Visited
      <4>2. Entry(v, c).tif = orders[c].tif /\ e # Absent
        BY <1>0, <1>b, <2>1, <3>1, <4>1 DEF Firm
      <4>. QED
        BY <1>b, <1>u, <3>1, <4>2 DEF Revisits
    <3>2. CASE w # v \/ x # c
      <4>1. OnBook(w, x) /\ Entry(w, x)' = Entry(w, x)
        BY <1>b, <2>1, <3>2
      <4>. QED
        BY <1>0, <1>u, <4>1 DEF Firm
    <3>. QED
      BY <3>1, <3>2
  <2>2. ASSUME NEW i \in 1 .. Len(reportQueue') PROVE Honest(reportQueue[i])'
    <3>0. PICK s : s = reportQueue'[i]
      OBVIOUS
    <3>1. Honest(s)
      BY <1>0, <3>0 DEF Speaks, Firm, In
    <3>. QED
      BY <1>u, <3>0, <3>1 DEF Honest
  <2>. QED
    BY <1>0, <1>u, <2>1, <2>2 DEF Firm, Child
<1>8. Over' /\ Kin' /\ Handing'
  BY <1>0, <1>4, <1>u DEF Over, Kin, Handing, Child
<1>. QED
  BY <1>4, <1>5, <1>6, <1>7, <1>8 DEF Tended

LEMMA SpeaksOne ==
  ASSUME IInv, NEW c, NEW e, NEW r \in ReportShape, r.id = c, Honest(r), reportQueue' = Append(reportQueue, r)
  PROVE  Speaks(c, e)
<1>1. /\ \A x : About(x, reportQueue)' <=> About(x, reportQueue) \/ x = c
      /\ \A i \in 1 .. Len(reportQueue') : In(reportQueue'[i], reportQueue) \/ reportQueue'[i] = r
  BY PushedAbout
<1>2. \A x : Greets(x, reportQueue) => Greets(x, reportQueue)'
  <2>1. PICK q : q = Append(reportQueue, r)
    OBVIOUS
  <2>2. \A x : Greets(x, reportQueue) => Greets(x, q)
    BY <2>1, ReportsOfChildren, GreetsAppend
  <2>. QED
    BY <2>1, <2>2 DEF Greets
<1>. QED
  BY <1>1, <1>2 DEF Speaks

LEMMA SpeaksTwo ==
  ASSUME IInv, NEW c, NEW e, NEW r \in ReportShape, r.id = c, Honest(r), NEW s \in ReportShape, s.id = c, Honest(s),
         reportQueue' = Append(Append(reportQueue, r), s)
  PROVE  Speaks(c, e)
<1>0. reportQueue \in Seq(ReportShape)
  BY ReportsOfChildren
<1>1. PICK m \in Seq(ReportShape) : m = Append(reportQueue, r)
  <2>1. Append(reportQueue, r) \in Seq(ReportShape)
    BY <1>0
  <2>. QED
    BY <2>1
<1>2. PICK q : q = Append(m, s)
  OBVIOUS
<1>3. /\ \A x : About(x, m) <=> About(x, reportQueue) \/ x = c
      /\ \A x : In(x, m) <=> In(x, reportQueue) \/ x = r
      /\ \A x : Greets(x, reportQueue) => Greets(x, m)
  BY <1>0, <1>1, ReportsAppend, GreetsAppend
<1>4. /\ \A x : About(x, q) <=> About(x, m) \/ x = c
      /\ \A x : In(x, q) <=> In(x, m) \/ x = s
      /\ \A x : Greets(x, m) => Greets(x, q)
  BY <1>2, ReportsAppend, GreetsAppend
<1>5. \A i \in 1 .. Len(q) : In(q[i], q)
  BY DEF In
<1>6. \A i \in 1 .. Len(q) : In(q[i], reportQueue) \/ Honest(q[i])
  BY <1>3, <1>4, <1>5
<1>7. reportQueue' = q
  BY <1>1, <1>2
<1>8. \A x : (About(x, reportQueue)' <=> About(x, q)) /\ (Greets(x, reportQueue)' <=> Greets(x, q))
  BY <1>7 DEF About, Greets
<1>. QED
  BY <1>3, <1>4, <1>6, <1>7, <1>8 DEF Speaks

LEMMA LeaveRevisits ==
  ASSUME IInv, NEW v \in Venues, NEW c \in OrderIds, Leaves(v, c)
  PROVE  Revisits(v, c, Absent, Tail(pendingQueue[v]))
  BY DEF Leaves, Revisits

LEMMA StayRevisits ==
  ASSUME IInv, Market, NEW v \in Venues, NEW c \in OrderIds, AtFront(v, c), NEW n \in Nat, Stays(v, c, n),
         n < Entry(v, c).quantity
  PROVE  \E e, q : e # Absent /\ Revisits(v, c, e, q)
<1>1. Tail(pendingQueue[v]) \in Seq(OrderIds)
  BY Visited DEF AtFront
<1>2. activeOrders[v][c] \in BookShape /\ activeOrders \in [Venues -> [OrderIds -> BookShape]]
  BY DEF IInv, VenueShapes
<1>3. PICK e : e = [activeOrders[v][c] EXCEPT !.filled = n]
  OBVIOUS
<1>4. e.tif = Entry(v, c).tif /\ e.quantity = Entry(v, c).quantity /\ Entry(v, c).quantity \in Nat
  BY <1>2, <1>3 DEF BookShape, Entry
<1>5. e # Absent
  <2>1. Absent.quantity = 0
    BY DEF Absent
  <2>. QED
    BY <1>4, <2>1
<1>6. PICK q : q = Append(Tail(pendingQueue[v]), c)
  OBVIOUS
<1>7. \A x : In(x, q) <=> In(x, Tail(pendingQueue[v])) \/ x = c
  BY <1>1, <1>6, InAppended
<1>8. activeOrders' = [activeOrders EXCEPT ![v][c] = e]
  <2>1. activeOrders' = [activeOrders EXCEPT ![v][c].filled = n]
    BY DEF Stays
  <2>. QED
    BY <1>2, <1>3, <2>1
<1>9. pendingQueue' = [pendingQueue EXCEPT ![v] = q]
  BY <1>6 DEF Stays
<1>10. Revisits(v, c, e, q)
  BY <1>4, <1>7, <1>8, <1>9 DEF Revisits
<1>. QED
  BY <1>5, <1>10

LEMMA OutcomeTended ==
  ASSUME IInv, Accounting, Market, Tended, VenueRejects = FALSE, lostReports' = << >>,
         NEW v \in Venues, NEW c \in OrderIds, AtFront(v, c), childrenOf' = childrenOf, pc' = pc, Outcome(v, c)
  PROVE  Tended' /\ \A x \in OrderIds : Busy(x) => Busy(x)'
<1>1. BookEntry(v, c) /\ OnBook(v, c)
  BY Visited DEF AtFront
<1>2. /\ Entry(v, c).filled = executed[c] /\ Entry(v, c).quantity = orders[c].quantity
      /\ executed[c] < orders[c].quantity /\ executed[c] \in Nat /\ orders[c].quantity \in Nat
  <2>1. orders[c] \in OrderShape
    BY DEF IInv, RouterShapes
  <2>. QED
    BY <1>1, <2>1 DEF BookEntry, Accounting, AccountShapes, OrderShape
<1>3. orders[c].tif = Entry(v, c).tif
  BY <1>1 DEF Tended, Firm
<1>4. ASSUME Leaves(v, c), Speaks(c, Absent) PROVE Tended' /\ \A x \in OrderIds : Busy(x) => Busy(x)'
  BY <1>4, LeaveRevisits, VisitTended
<1>5. ASSUME NEW n \in Nat, Stays(v, c, n), n < Entry(v, c).quantity, \A e : e # Absent => Speaks(c, e)
      PROVE  Tended' /\ \A x \in OrderIds : Busy(x) => Busy(x)'
  <2>1. PICK e, q : e # Absent /\ Revisits(v, c, e, q)
    BY <1>5, StayRevisits
  <2>2. Speaks(c, e)
    BY <1>5, <2>1
  <2>. QED
    BY <2>1, <2>2, VisitTended
<1>6. CASE \E r \in ReportShape : r.id = c /\ EndsUnfilled(v, c, r)
  <2>1. PICK r \in ReportShape : r.id = c /\ EndsUnfilled(v, c, r)
    BY <1>6
  <2>2. Notify(<<r>>) /\ Leaves(v, c) /\ r.state \in {"Canceled", "Rejected"}
    BY <2>1 DEF EndsUnfilled
  <2>3. r.state = "Rejected" => Entry(v, c).tif = "FOK"
    BY <2>1 DEF EndsUnfilled
  <2>4. Honest(r)
    BY <1>3, <2>1, <2>2, <2>3 DEF Honest
  <2>5. reportQueue' = Append(reportQueue, r)
    BY <2>2, PushedOne
  <2>6. Speaks(c, Absent)
    BY <2>1, <2>4, <2>5, SpeaksOne
  <2>. QED
    BY <1>4, <2>2, <2>6
<1>7. CASE \E n \in Nat, r \in ReportShape : r.id = c /\ EndsFilled(v, c, n, r)
  <2>1. PICK n \in Nat, r \in ReportShape : r.id = c /\ EndsFilled(v, c, n, r)
    BY <1>7
  <2>2. Notify(<<r>>) /\ Leaves(v, c) /\ r.state = "Filled"
    BY <2>1 DEF EndsFilled
  <2>3. Honest(r)
    BY <2>2 DEF Honest
  <2>4. reportQueue' = Append(reportQueue, r)
    BY <2>2, PushedOne
  <2>5. Speaks(c, Absent)
    BY <2>1, <2>3, <2>4, SpeaksOne
  <2>. QED
    BY <1>4, <2>2, <2>5
<1>8. CASE \E n \in Nat, r, s \in ReportShape : r.id = c /\ s.id = c /\ EndsInPart(v, c, n, r, s)
  <2>1. PICK n \in Nat, r \in ReportShape, s \in ReportShape : r.id = c /\ s.id = c /\ EndsInPart(v, c, n, r, s)
    BY <1>8
  <2>2. /\ Notify(<<r, s>>) /\ Leaves(v, c) /\ r.state = "PartiallyFilled" /\ s.state = "Canceled"
        /\ Entry(v, c).tif = "IOC"
    BY <2>1 DEF EndsInPart
  <2>3. Honest(r) /\ Honest(s)
    BY <1>3, <2>1, <2>2 DEF Honest
  <2>4. reportQueue' = Append(Append(reportQueue, r), s)
    BY <2>2, PushedTwo
  <2>5. Speaks(c, Absent)
    BY <2>1, <2>3, <2>4, SpeaksTwo
  <2>. QED
    BY <1>4, <2>2, <2>5
<1>9. CASE \E n \in Nat, r \in ReportShape : r.id = c /\ StaysInPart(v, c, n, r)
  <2>1. PICK n \in Nat, r \in ReportShape : r.id = c /\ StaysInPart(v, c, n, r)
    BY <1>9
  <2>2. /\ Notify(<<r>>) /\ r.state = "PartiallyFilled" /\ Entry(v, c).tif = "GTC"
        /\ Stays(v, c, Entry(v, c).filled + n) /\ Entry(v, c).filled + n < Entry(v, c).quantity
    BY <2>1 DEF StaysInPart
  <2>3. Honest(r)
    BY <1>3, <2>1, <2>2 DEF Honest
  <2>4. reportQueue' = Append(reportQueue, r)
    BY <2>2, PushedOne
  <2>5. \A e : Speaks(c, e)
    BY <2>1, <2>3, <2>4, SpeaksOne
  <2>6. PICK m \in Nat : m = Entry(v, c).filled + n
    BY <1>2
  <2>. QED
    BY <1>5, <2>2, <2>5, <2>6
<1>10. CASE StaysMissed(v, c)
  <2>1. Stays(v, c, Entry(v, c).filled) /\ Notify(<< >>)
    BY <1>10 DEF StaysMissed
  <2>2. reportQueue' = reportQueue
    BY <2>1, AccountingFacts, NotifiedNone
  <2>3. \A i \in 1 .. Len(reportQueue) : In(reportQueue[i], reportQueue)
    BY DEF In
  <2>4. \A x : (About(x, reportQueue)' <=> About(x, reportQueue)) /\ (Greets(x, reportQueue)' <=> Greets(x, reportQueue))
    BY <2>2 DEF About, Greets
  <2>5. \A e : e # Absent => Speaks(c, e)
    BY <2>2, <2>3, <2>4 DEF Speaks
  <2>6. Entry(v, c).filled \in Nat /\ Entry(v, c).filled < Entry(v, c).quantity
    BY <1>2
  <2>. QED
    BY <1>5, <2>1, <2>5, <2>6
<1>. QED
  BY <1>6, <1>7, <1>8, <1>9, <1>10 DEF Outcome

LEMMA VenueKeeps ==
  ASSUME IInv, Accounting, Market, Tended, Cared, VenueRejects = FALSE, lostReports' = << >>,
         NEW v \in Venues, VenueStep(v)
  PROVE  Tended' /\ Cared'
<1>1. /\ UNCHANGED <<handlerVars, riskVars, gatewayVars, threadVars, connected>>
      /\ \/ UNCHANGED <<activeOrders, pendingQueue, reportQueue, lostReports, executed>>
         \/ \E id \in OrderIds : batch[v] > 0 /\ id = Head(pendingQueue[v]) /\ Outcome(v, id)
  BY Outcomes DEF Accounting, AccountShapes
<1>2. UNCHANGED <<orders, parentOf, childrenOf, clientQty, orderQueue, job, completed, deferred, rejected, sending, pc>>
  BY <1>1 DEF handlerVars, gatewayVars, threadVars
<1>3. Tended' /\ \A c \in OrderIds : Busy(c) => Busy(c)'
  <2>1. CASE UNCHANGED <<activeOrders, pendingQueue, reportQueue, lostReports, executed>>
    <3>1. Undisturbed
      BY <1>2, <2>1, EntriesStill DEF Undisturbed
    <3>. QED
      BY <3>1, TendedStill
  <2>2. ASSUME NEW c \in OrderIds, batch[v] > 0, c = Head(pendingQueue[v]), Outcome(v, c)
        PROVE  Tended' /\ \A x \in OrderIds : Busy(x) => Busy(x)'
    <3>1. AtFront(v, c)
      BY <1>2, <2>2 DEF AtFront
    <3>. QED
      BY <1>2, <2>2, <3>1, OutcomeTended
  <2>. QED
    BY <1>1, <2>1, <2>2
<1>4. Keeps
  BY <1>2, <1>3 DEF Keeps, Prepares
<1>. QED
  BY <1>3, <1>4, CaredStill
\* A report about a child: the child takes the state it tells, and the report
\* that ends it ends the round.
LEMMA ReportTaken ==
  ASSUME IInv, Accounting, Market, Tended, NEW r, NEW c \in OrderIds, NEW p \in OrderIds, Handles(r, c, p)
  PROVE  /\ orders'[c].state =
               IF r.state = "Accepted" /\ orders[c].state = "PartiallyFilled" THEN "PartiallyFilled" ELSE r.state
         /\ r.state \in {"Accepted", "PartiallyFilled", "Filled", "Canceled", "Rejected"}
         /\ orders[c].state = "PartiallyFilled" => orders[c].tif # "FOK"
         /\ Honest(r) /\ Truthful(r)
<1>0. Greeted /\ Firm /\ Departures /\ Reporting
  BY DEF Tended, Market
<1>u. /\ r \in ReportShape /\ c = r.id /\ Child(c) /\ reportQueue # << >> /\ r = Head(reportQueue)
      /\ orders'[c] = AfterReport(orders[c], r)
  BY DEF Handles
<1>q. reportQueue \in Seq(ReportShape)
  BY ReportsOfChildren
<1>1. reportQueue[1] = r /\ 1 \in 1 .. Len(reportQueue)
  BY <1>q, <1>u
<1>2. Honest(r) /\ Truthful(r) /\ About(c, reportQueue)
  BY <1>0, <1>1, <1>u DEF Firm, Reporting, About
<1>3. ~Sent(c)
  BY <1>0, <1>2 DEF Sent, Departures, Departing
<1>4. orders[c] \in OrderShape
  BY DEF IInv, RouterShapes
<1>5. ~IsTerminal(orders[c].state)
  BY <1>2 DEF Market, OpenWhileBusy, Busy
<1>6. orders[c].state \in {"PendingNew", "Accepted", "PartiallyFilled"}
  BY <1>0, <1>5, <1>u DEF Firm, ChildStates, IsTerminal
<1>7. orders[c].state = "PendingNew" => r.state = "Accepted"
  <2>1. ASSUME orders[c].state = "PendingNew" PROVE Greets(c, reportQueue)
    BY <1>0, <1>3, <1>u, <2>1 DEF Greeted
  <2>. QED
    BY <1>q, <1>u, <2>1, GreetsTail
<1>8. orders[c].state = "PartiallyFilled" => orders[c].tif # "FOK"
  BY <1>0, <1>u DEF Firm
<1>9. r.state = "Rejected" => orders[c].state = "Accepted"
  BY <1>2, <1>6, <1>7, <1>8, <1>u DEF Honest
<1>10. r.state \in {"Accepted", "PartiallyFilled", "Filled", "Canceled", "Rejected"}
  BY <1>u DEF ReportShape
<1>11. AfterReport(orders[c], r).state =
         IF r.state = "Accepted" /\ orders[c].state = "PartiallyFilled" THEN "PartiallyFilled" ELSE r.state
  BY <1>4, <1>6, <1>7, <1>9, <1>u, TakesReport
<1>. QED
  BY <1>2, <1>8, <1>10, <1>11, <1>u

LEMMA RoundEnds ==
  ASSUME IInv, IInv', Accounting, Market, Rounds, Tended, NEW r, NEW c \in OrderIds, NEW p \in OrderIds,
         Handles(r, c, p), ~Busy(c)', Ends(r)
  PROVE  deferred'.reroute \/ deferred'.completion
<1>1. /\ r \in ReportShape /\ c = r.id /\ Child(c) /\ p = parentOf[c] /\ ~Child(p) /\ p # c
      /\ reportQueue # << >> /\ r = Head(reportQueue) /\ reportQueue' = Tail(reportQueue)
      /\ orders'[c] = AfterReport(orders[c], r)
      /\ deferred'.completion <=> Closes(p, r)
      /\ deferred'.reroute <=> SendsOn(c, p, r)
  BY DEF Handles
<1>2. Busy(c)
  BY HandleMarket
<1>n. PICK l \in Nat, f \in Nat, q \in Nat : l = r.last /\ f = orders[p].filled /\ q = orders[p].quantity
  <2>1. orders[p] \in OrderShape
    BY DEF IInv, RouterShapes
  <2>. QED
    BY <1>1, <2>1 DEF OrderShape, ReportShape
<1>3. InReports(c, reportQueue) = l + 0
  <2>1. ~About(c, reportQueue')
    BY DEF Busy
  <2>2. InReports(c, reportQueue') = 0
    <3>1. \A i \in 1 .. Len(reportQueue') : reportQueue'[i].id # c
      BY <2>1 DEF About
    <3>2. reportQueue' \in Seq(ReportShape)
      BY DEF IInv, VenueShapes
    <3>. QED
      BY <3>1, <3>2, InReportsNone
  <2>3. InReports(c, reportQueue) = Share(c, r) + InReports(c, reportQueue)'
    BY <1>1, PoppedAbout
  <2>4. InReports(c, reportQueue)' = InReports(c, reportQueue')
    BY DEF InReports
  <2>. QED
    BY <1>1, <1>n, <2>2, <2>3, <2>4 DEF Share
<1>4. orders[c].quantity = q /\ executed[c] = f + l
  BY <1>1, <1>2, <1>3, <1>n DEF Rounds, InStep
<1>5. Closes(p, r) <=> f + l >= q
  BY <1>n DEF Closes, Fills
<1>6. /\ orders'[c].state =
            IF r.state = "Accepted" /\ orders[c].state = "PartiallyFilled" THEN "PartiallyFilled" ELSE r.state
      /\ Truthful(r)
  BY ReportTaken
<1>7. CASE r.state = "Filled"
  <2>1. executed[c] = orders[c].quantity
    BY <1>1, <1>6, <1>7 DEF Truthful
  <2>. QED
    BY <1>1, <1>4, <1>5, <1>n, <2>1
<1>8. CASE r.state \in {"Canceled", "Rejected"}
  <2>1. executed[c] < orders[c].quantity
    BY <1>1, <1>6, <1>8 DEF Truthful
  <2>2. ~Closes(p, r)
    BY <1>4, <1>5, <1>n, <2>1
  <2>3. AfterReport(orders[c], r).state = r.state
    BY <1>1, <1>6, <1>8
  <2>4. orders[p].state # "Filled"
    <3>1. orders[p].state = "Filled" => Calm(p)
      BY <1>1 DEF Rounds, Completions, Done
    <3>. QED
      BY <1>1, <1>2, <3>1 DEF Calm
  <2>5. ASSUME NEW i \in 1 .. Len(childrenOf[p]), childrenOf[p][i] # c
        PROVE  IsTerminal(orders[childrenOf[p][i]].state)
    <3>1. PICK d : d = childrenOf[p][i]
      OBVIOUS
    <3>2. d \in OrderIds
      <4>1. childrenOf[p] \in Seq(OrderIds)
        BY DEF IInv, RouterShapes
      <4>. QED
        BY <3>1, <4>1
    <3>3. parentOf[d] = p
      BY <3>1 DEF Tended, Kin
    <3>4. Child(d)
      BY <3>3, Ids DEF Child
    <3>5. ~Busy(d)
      BY <1>1, <1>2, <2>5, <3>1, <3>2, <3>3 DEF Rounds, OneAtATime
    <3>. QED
      BY <3>1, <3>2, <3>4, <3>5 DEF Tended, Over
  <2>6. SendsOn(c, p, r)
    BY <1>8, <2>2, <2>3, <2>4, <2>5 DEF SendsOn, IsTerminal
  <2>. QED
    BY <1>1, <2>6
<1>. QED
  BY <1>7, <1>8 DEF Ends

LEMMA HandleKeeps ==
  ASSUME IInv, IInv', Accounting, Market, Rounds, Tended, Cared,
         NEW r, NEW c \in OrderIds, NEW p \in OrderIds, Handles(r, c, p)
  PROVE  Tended' /\ Cared'
<1>0. Queued /\ Greeted /\ Firm /\ Over /\ Kin /\ Handing
  BY DEF Tended
<1>1. /\ UNCHANGED <<activeOrders, pendingQueue, childrenOf, parentOf, orderQueue, clientQty, rejected,
                     completed, job, sending>>
      /\ r \in ReportShape /\ c = r.id /\ Child(c) /\ p = parentOf[c] /\ ~Child(p) /\ p # c
      /\ pc["exec"] = "reports" /\ pc' = [pc EXCEPT !["exec"] = "deferred"]
      /\ reportQueue # << >> /\ r = Head(reportQueue) /\ reportQueue' = Tail(reportQueue)
      /\ \A x \in OrderIds : x \notin {c, p} => orders'[x] = orders[x]
      /\ orders'[c] = AfterReport(orders[c], r)
      /\ deferred'.id = c
  BY DEF Handles
<1>t. "exec" \in Threads
  BY DEF Threads
<1>2. pc'["exec"] = "deferred" /\ \A z \in Threads : z # "exec" => pc'[z] = pc[z]
  BY <1>1, <1>t, StepsOn
<1>c. \A x \in OrderIds : /\ Child(x)' <=> Child(x)
                          /\ Child(x) /\ x # c => orders'[x] = orders[x]
  BY <1>1 DEF Child
<1>3. Busy(c) /\ (Ends(r) => ~Busy(c)')
  BY HandleMarket
<1>4. /\ orders'[c].state =
            IF r.state = "Accepted" /\ orders[c].state = "PartiallyFilled" THEN "PartiallyFilled" ELSE r.state
      /\ r.state \in {"Accepted", "PartiallyFilled", "Filled", "Canceled", "Rejected"}
      /\ orders[c].state = "PartiallyFilled" => orders[c].tif # "FOK"
      /\ Honest(r)
  BY ReportTaken
<1>5. orders'[c].tif = orders[c].tif
  <2>1. orders[c] \in OrderShape
    BY DEF IInv, RouterShapes
  <2>. QED
    BY <1>1, <2>1, ReportedFields
<1>6. /\ \A x : About(x, reportQueue) <=> About(x, reportQueue)' \/ x = c
      /\ \A x : Closing(x, reportQueue) <=> Closing(x, reportQueue)' \/ (x = c /\ Ends(r))
      /\ \A i \in 1 .. Len(reportQueue') : In(reportQueue'[i], reportQueue)
  BY <1>1, PoppedAbout
<1>7. \A x \in OrderIds : /\ Sent(x)' <=> Sent(x)
                          /\ Booked(x)' <=> Booked(x)
                          /\ x # c => (About(x, reportQueue)' <=> About(x, reportQueue))
  BY <1>1, <1>6 DEF Sent, Booked, OnBook
<1>8. \A x \in OrderIds : x # c => (Busy(x)' <=> Busy(x))
  BY <1>7 DEF Busy
<1>9. \A v \in Venues, x \in OrderIds : (OnBook(v, x)' <=> OnBook(v, x)) /\ Entry(v, x)'.tif = Entry(v, x).tif
  BY <1>1, EntriesStill
<1>10. Queued'
  BY <1>0, <1>1, <1>9 DEF Queued, In
<1>11. Greeted'
  <2>1. ASSUME NEW x \in OrderIds, Child(x)', orders'[x].state = "PendingNew" PROVE Sent(x)' \/ Greets(x, reportQueue)'
    <3>1. x # c
      BY <1>4, <2>1
    <3>2. Sent(x) \/ Greets(x, reportQueue)
      BY <1>0, <1>c, <2>1, <3>1 DEF Greeted
    <3>3. Greets(x, reportQueue) => Greets(x, reportQueue')
      BY <1>1, <3>1, ReportsOfChildren, GreetsTail
    <3>4. Greets(x, reportQueue') => Greets(x, reportQueue)'
      BY DEF Greets
    <3>. QED
      BY <1>7, <3>2, <3>3, <3>4
  <2>. QED
    BY <2>1 DEF Greeted
<1>12. Firm'
  <2>1. ASSUME NEW v \in Venues, NEW x \in OrderIds, OnBook(v, x)' PROVE Entry(v, x)'.tif = orders'[x].tif
    <3>1. OnBook(v, x) /\ Child(x)
      BY <1>9, <2>1 DEF Market, Books, BookEntry
    <3>2. orders'[x].tif = orders[x].tif
      BY <1>5, <1>c, <3>1
    <3>. QED
      BY <1>0, <1>9, <3>1, <3>2 DEF Firm
  <2>2. ASSUME NEW i \in 1 .. Len(reportQueue') PROVE Honest(reportQueue[i])'
    <3>0. PICK s : s = reportQueue'[i]
      OBVIOUS
    <3>1. Honest(s) /\ s.id \in OrderIds /\ Child(s.id)
      BY <1>0, <1>6, <3>0, ReportsOfChildren DEF Firm, In
    <3>2. orders'[s.id].tif = orders[s.id].tif
      BY <1>5, <1>c, <3>1
    <3>. QED
      BY <3>0, <3>1, <3>2 DEF Honest
  <2>3. ASSUME NEW x \in OrderIds, Child(x)'
        PROVE  /\ orders'[x].state \in ChildStates
               /\ orders'[x].tif = "FOK" => orders'[x].state # "PartiallyFilled"
    <3>1. CASE x = c
      BY <1>1, <1>4, <1>5, <3>1 DEF ChildStates, Honest
    <3>2. CASE x # c
      BY <1>0, <1>c, <2>3, <3>2 DEF Firm
    <3>. QED
      BY <3>1, <3>2
  <2>. QED
    BY <2>1, <2>2, <2>3 DEF Firm
<1>e. ~Busy(c)' => Ends(r)
  <2>1. About(c, reportQueue) /\ Reporting
    BY <1>6 DEF Market
  <2>2. Booked(c) \/ Closing(c, reportQueue)
    BY <2>1 DEF Reporting
  <2>3. Closing(c, reportQueue)' => About(c, reportQueue)'
    BY DEF Closing, About
  <2>. QED
    BY <1>6, <1>7, <2>2, <2>3 DEF Busy
<1>13. Over'
  <2>1. ASSUME NEW x \in OrderIds, Child(x)' PROVE Busy(x)' \/ IsTerminal(orders'[x].state)
    <3>1. CASE x = c
      BY <1>4, <1>e, <3>1 DEF Ends, IsTerminal
    <3>2. CASE x # c
      BY <1>0, <1>8, <1>c, <2>1, <3>2 DEF Over
    <3>. QED
      BY <3>1, <3>2
  <2>. QED
    BY <2>1 DEF Over
<1>14. Kin'
  BY <1>0, <1>1 DEF Kin
<1>15. Handing'
  BY <1>0, <1>1, <1>2 DEF Handing
<1>16. ASSUME NEW q \in OrderIds, Attended(q) PROVE Attended(q)'
  <2>1. CASE \/ q \in rejected \/ completed[q] > 0
             \/ \E i \in 1 .. Len(orderQueue) : orderQueue[i].id = q
    BY <1>1, <2>1 DEF Attended
  <2>2. CASE \E t \in Threads : Prepares(t) /\ job[t].id = q
    <3>1. PICK t \in Threads : Prepares(t) /\ job[t].id = q
      BY <2>2
    <3>2. t # "exec"
      BY <1>1, <3>1 DEF Prepares
    <3>3. Prepares(t)' /\ job'[t].id = q
      BY <1>1, <1>2, <3>1, <3>2 DEF Prepares
    <3>. QED
      BY <3>3 DEF Attended
  <2>3. CASE \E x \in OrderIds : Busy(x) /\ parentOf[x] = q
    <3>1. PICK x \in OrderIds : Busy(x) /\ parentOf[x] = q
      BY <2>3
    <3>2. CASE Busy(x)'
      BY <1>1, <3>1, <3>2 DEF Attended
    <3>3. CASE ~Busy(x)'
      <4>1. x = c /\ q = p
        BY <1>1, <1>8, <3>1, <3>3
      <4>2. deferred'.reroute \/ deferred'.completion
        BY <1>e, <3>3, <4>1, RoundEnds
      <4>3. parentOf'[deferred'.id] = q
        BY <1>1, <4>1
      <4>. QED
        BY <4>2, <4>3 DEF Attended, Completes
    <3>. QED
      BY <3>2, <3>3
  <2>4. ~deferred.reroute /\ ~deferred.completion
    BY <1>1, PendingCallbacks
  <2>. QED
    BY <1>16, <2>1, <2>2, <2>3, <2>4 DEF Attended, Completes
<1>17. Cared'
  BY <1>1, <1>16 DEF Cared, ClientOrders
<1>. QED
  BY <1>10, <1>11, <1>12, <1>13, <1>14, <1>15, <1>17 DEF Tended
LEMMA InitTended == Init => Tended /\ Cared
<1> SUFFICES ASSUME Init PROVE Tended /\ Cared
  OBVIOUS
<1>1. /\ parentOf = [id \in OrderIds |-> INVALID_ORDER_ID] /\ childrenOf = [id \in OrderIds |-> << >>]
      /\ activeOrders = [v \in Venues |-> [id \in OrderIds |-> Absent]] /\ reportQueue = << >>
      /\ sending = [t \in Threads |-> INVALID_ORDER_ID] /\ clientQty = [id \in OrderIds |-> 0]
  BY DEF Init, ExchangeInit, HandlerInit
<1>2. /\ \A c \in OrderIds : ~Child(c)
      /\ \A v \in Venues, c \in OrderIds : ~OnBook(v, c)
      /\ \A t \in Threads : sending[t] \notin OrderIds
  BY <1>1, Ids DEF Child, OnBook
<1>3. 1 .. Len(<< >>) = {}
  BY EmptySeq
<1>4. Queued /\ Greeted /\ Over /\ Handing
  BY <1>2 DEF Queued, Greeted, Over, Handing
<1>5. Firm
  BY <1>1, <1>2, <1>3 DEF Firm
<1>6. Kin
  BY <1>1, <1>3 DEF Kin
<1>7. Cared
  BY <1>1 DEF Cared, ClientOrders
<1>. QED
  BY <1>4, <1>5, <1>6, <1>7 DEF Tended

LEMMA NextTended ==
  ASSUME IInv, IInv', Accounting, Market, Rounds, lostReports' = << >>, VenueRejects = FALSE,
         Tended, Cared, [Next]_vars
  PROVE  Tended' /\ Cared'
<1>0. "order" \in Threads /\ "exec" \in Threads
  BY DEF Threads
<1>1. CASE \E side \in SideChoices, quantity \in Quantities, tif \in TifChoices, strategy \in Strategies :
              SubmitOrder(side, quantity, tif, strategy)
  BY <1>1, SubmitKeeps
<1>2. CASE (\E id \in OrderIds : CancelOrder(id)) \/ KillSwitch \/ Stop \/ StopDisconnect \/ UNCHANGED vars
  BY <1>2, ClientKeeps
<1>3. ASSUME NEW t \in Threads, ProcessSingleOrder(t) PROVE Tended' /\ Cared'
  <2>g. GivesUp(t) => Tended' /\ Cared'
    BY ThreadKeeps
  <2>1. CASE Admit(t)
    BY <2>g, <2>1, AdmitEffect, PrepareKeeps
  <2>2. CASE Route(t)
    BY <2>g, <2>2, RouteEffect, PrepareKeeps
  <2>3. CASE Slice(t)
    <3>1. PICK p \in OrderIds, c \in OrderIds, o \in OrderShape, slice \in SliceShape : Hands(t, p, c, o, slice)
      BY <2>3, SliceEffect
    <3>. QED
      BY <3>1, HandKeeps
  <2>4. CASE Send(t)
    <3>1. PICK c \in OrderIds, v \in Venues : Delivers(t, c, v)
      BY <2>4, SendEffect
    <3>. QED
      BY <3>1, DeliverKeeps
  <2>. QED
    BY <1>3, <2>1, <2>2, <2>3, <2>4 DEF ProcessSingleOrder
<1>4. CASE OrderThread
  <2>1. CASE Loop("order") \/ PopCancel \/ (PopOrder /\ orderQueue = << >>)
    BY <1>0, <2>1, ThreadKeeps
  <2>2. CASE CancelChild
    BY <2>2, CancelKeeps
  <2>3. CASE PopOrder /\ orderQueue # << >>
    BY <2>3, TakeKeeps
  <2>. QED
    BY <1>0, <1>3, <1>4, <2>1, <2>2, <2>3 DEF OrderThread
<1>5. CASE ExecThread
  <2>1. CASE Loop("exec") \/ (PopReport /\ reportQueue = << >>)
    BY <1>0, <2>1, ThreadKeeps
  <2>2. CASE PopReport /\ reportQueue # << >>
    <3>1. PICK r, c, p : c \in OrderIds /\ p \in OrderIds /\ Handles(r, c, p)
      BY <2>2, ReportEffect
    <3>. QED
      BY <3>1, HandleKeeps
  <2>3. CASE RunDeferred
    <3>1. PICK c \in OrderIds : Runs(c)
      BY <2>3, RunEffect
    <3>. QED
      BY <3>1, RunKeeps
  <2>. QED
    BY <1>0, <1>3, <1>5, <2>1, <2>2, <2>3 DEF ExecThread
<1>6. CASE \E v \in Venues : VenueStep(v)
  BY <1>6, VenueKeeps
<1>. QED
  BY <1>1, <1>2, <1>4, <1>5, <1>6 DEF Next

\* What the router remembers of its orders while no report is lost.
Remembers == lostReports = << >> => Tended /\ Cared

\* Where nothing is under way, what an order waits for has come.
LEMMA QuietCared ==
  ASSUME IInv, Accounting, Tended, Cared, Quiet, NEW p \in ClientOrders
  PROVE  completed[p] > 0 \/ p \in rejected
<1>1. /\ orderQueue = << >> /\ reportQueue = << >> /\ \A v \in Venues : pendingQueue[v] = << >>
      /\ \A t \in Threads : pc[t] \in {"loop", "orders", "cancels", "reports"}
  BY DEF Quiet
<1>2. 1 .. Len(<< >>) = {} /\ "exec" \in Threads
  BY EmptySeq DEF Threads
<1>3. ~\E i \in 1 .. Len(orderQueue) : orderQueue[i].id = p
  BY <1>1, <1>2
<1>4. \A t \in Threads : ~Prepares(t)
  BY <1>1 DEF Prepares
<1>5. ASSUME NEW c \in OrderIds PROVE ~Busy(c)
  <2>1. ~Sent(c)
    <3>1. \A t \in Threads : sending[t] # c
      BY <1>1 DEF Tended, Handing
    <3>. QED
      BY <3>1 DEF Sent
  <2>2. ~Booked(c)
    <3>1. \A v \in Venues : ~In(c, pendingQueue[v])
      BY <1>1, InNothing
    <3>. QED
      BY <3>1 DEF Booked, Tended, Queued
  <2>3. ~About(c, reportQueue)
    BY <1>1, <1>2 DEF About
  <2>. QED
    BY <2>1, <2>2, <2>3 DEF Busy
<1>6. ~deferred.reroute /\ ~deferred.completion
  BY <1>1, <1>2, PendingCallbacks
<1>7. Attended(p)
  BY DEF Cared
<1>. QED
  BY <1>3, <1>4, <1>5, <1>6, <1>7 DEF Attended, Completes

(* While no report is lost and no venue rejects at random, a router whose   *)
(* strategy sends one slice at a time forgets nobody: when everything has   *)
(* come to rest every order was completed or refused, whatever was canceled *)
(* or ended with a rest (on_execution_report, the reroute and completion    *)
(* callbacks of gateway.cpp).                                               *)
THEOREM NobodyIsForgotten ==
  ASSUME Strategies \subseteq {"BestPrice"}, VenueRejects = FALSE
  PROVE  Spec => [](lostReports = << >> => NoStrandedParent)
<1>1. Init => Remembers
  BY InitTended DEF Remembers
<1>2. IInv /\ IInv' /\ Accounting /\ Lossless /\ Remembers /\ [Next]_vars => Remembers'
  BY LossesStay, NextTended DEF Lossless, Remembers
<1>3. IInv /\ Accounting /\ Remembers => (lostReports = << >> => NoStrandedParent)
  BY QuietCared DEF Remembers, NoStrandedParent
<1>. QED
  BY <1>1, <1>2, <1>3, GatewayInvariant, AccountingInvariant, RoundsInvariant, PTL DEF Spec
=============================================================================
