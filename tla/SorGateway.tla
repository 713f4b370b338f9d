----------------------------- MODULE SorGateway -----------------------------
(***************************************************************************)
(* sor/gateway/gateway: the router put together.  Clients push orders and  *)
(* cancels into two queues; the order thread drains them, runs each order  *)
(* through the risk check and the routing engine and sends the slices to   *)
(* the venues; the venues match on a thread of their own and push reports; *)
(* the execution thread applies the reports to the tracked orders and runs *)
(* the callbacks they trigger, the reroute of a parent among them: so      *)
(* process_single_order runs on either thread, and on both at once.        *)
(*                                                                         *)
(* One step per critical section.  Steps that no other thread can tell     *)
(* from one (the risk check and the tracking of an order without children; *)
(* the tracking of a child and on_order_accepted; the fill callback and    *)
(* the copy of the parent to reroute) are taken together.  The running_    *)
(* test and the push of submit_order and cancel_order are one step: an     *)
(* order pushed after the threads ended is as lost as one pushed after     *)
(* their last look at the queue.                                           *)
(***************************************************************************)
EXTENDS SimulatedExchange, ExecutionHandler, RiskManager, Functions

CONSTANTS MaxParents,     \* bound: orders clients submit
          Quantities,     \* quantities of the orders
          TifChoices,     \* their times in force
          SideChoices,    \* their sides
          Strategies,     \* their routing strategies
          MayCancel, MayStop, MayFailRoute, MayKill

ASSUME GatewayAssumption ==
    /\ MaxParents \in Nat
    /\ Quantities \subseteq Nat \ {0}
    /\ TifChoices \subseteq TimesInForce
    /\ SideChoices \subseteq Sides
    /\ Strategies \subseteq {"BestPrice", "LiquiditySweep"}
    /\ {MayCancel, MayStop, MayFailRoute, MayKill} \subseteq BOOLEAN

\* Identifiers are 64 bits wide and the venues are those of the configuration.
ASSUME FiniteAssumption == IsFiniteSet(OrderIds) /\ IsFiniteSet(Venues)

VARIABLES running,       \* running_
          nextId,        \* next_order_id_
          orderQueue,    \* order_queue_
          cancelQueue,   \* cancel_queue_
          pc,            \* where each thread is in its loop
          job,           \* the order of process_single_order on each thread
          slices,        \* the slices of its decision not yet sent
          sending,       \* the child being sent
          cancelList,    \* children the cancel being handled has yet to visit
          deferred,      \* callbacks of the report being handled
          fills,         \* fill_manager_: quantity recorded for each order
          clientQty,     \* history: quantity each client order asked for
          carried,       \* history: fills of a parent before its last reroute
          rejected,      \* history: orders process_single_order gave up
          completed,     \* history: completion callbacks of each order
          canceled       \* history: tracked orders whose cancel was handled

gatewayVars == <<running, nextId, orderQueue, cancelQueue, fills, clientQty,
                 carried, rejected, completed, canceled>>
threadVars  == <<pc, job, slices, sending, cancelList, deferred>>
vars == <<exchangeVars, handlerVars, riskVars, gatewayVars, threadVars>>

Threads == {"order", "exec"}
NoJob   == [id |-> INVALID_ORDER_ID, order |-> Untracked]
Nothing == [id |-> INVALID_ORDER_ID, fill |-> 0, reroute |-> FALSE, completion |-> FALSE]

Init ==
    /\ ExchangeInit /\ HandlerInit /\ RiskInit
    /\ running = TRUE
    /\ nextId = 1
    /\ orderQueue = << >> /\ cancelQueue = << >>
    /\ pc = [t \in Threads |-> "loop"]
    /\ job = [t \in Threads |-> NoJob]
    /\ slices = [t \in Threads |-> << >>]
    /\ sending = [t \in Threads |-> INVALID_ORDER_ID]
    /\ cancelList = << >>
    /\ deferred = Nothing
    /\ fills = [id \in OrderIds |-> 0]
    /\ clientQty = [id \in OrderIds |-> 0]
    /\ carried = [id \in OrderIds |-> 0]
    /\ rejected = {}
    /\ completed = [id \in OrderIds |-> 0]
    /\ canceled = {}

-----------------------------------------------------------------------------
(* Clients and operators                                                   *)

ClientOrders == {id \in OrderIds : clientQty[id] > 0}

SubmitOrder(side, quantity, tif, strategy) ==
    /\ running
    /\ Cardinality(ClientOrders) < MaxParents
    /\ nextId \in OrderIds
    /\ orderQueue' = Append(orderQueue, [id |-> nextId,
            order |-> MakeOrder("New", side, quantity, tif, strategy, INVALID_ORDER_ID)])
    /\ nextId' = nextId + 1
    /\ clientQty' = [clientQty EXCEPT ![nextId] = quantity]
    /\ UNCHANGED <<running, cancelQueue, fills, carried, rejected, completed, canceled>>
    /\ UNCHANGED <<exchangeVars, handlerVars, riskVars, threadVars>>

\* At most one cancel of an order is in the model.
CancelOrder(id) ==
    /\ MayCancel /\ running
    /\ id \in ClientOrders \ canceled
    /\ \A i \in DOMAIN cancelQueue : cancelQueue[i] # id
    /\ cancelQueue' = Append(cancelQueue, id)
    /\ UNCHANGED <<running, nextId, orderQueue, fills, clientQty, carried, rejected,
                   completed, canceled>>
    /\ UNCHANGED <<exchangeVars, handlerVars, riskVars, threadVars>>

KillSwitch ==
    /\ MayKill
    /\ ActivateKillSwitch \/ DeactivateKillSwitch
    /\ UNCHANGED <<exchangeVars, handlerVars, gatewayVars, threadVars>>

\* stop() sets the flag, joins both threads and only then disconnects.
Stop ==
    /\ MayStop /\ running
    /\ running' = FALSE
    /\ UNCHANGED <<nextId, orderQueue, cancelQueue, fills, clientQty, carried,
                   rejected, completed, canceled>>
    /\ UNCHANGED <<exchangeVars, handlerVars, riskVars, threadVars>>

\* mutant: the venues are disconnected before the threads are joined
StopDisconnectNoJoin ==
    /\ ~running
    /\ \E v \in Venues : connected[v]
    /\ Disconnect
    /\ UNCHANGED <<handlerVars, riskVars, gatewayVars, threadVars>>

StopDisconnect ==
    /\ ~running
    /\ \A t \in Threads : pc[t] = "exited"
    /\ \E v \in Venues : connected[v]
    /\ Disconnect
    /\ UNCHANGED <<handlerVars, riskVars, gatewayVars, threadVars>>

-----------------------------------------------------------------------------
(* Control of the two threads                                              *)

GoTo(t, to) == pc' = [pc EXCEPT ![t] = to]

\* Where a thread drains its (first) queue, and where process_single_order
\* returns to.
Drain(t) == IF t = "order" THEN "orders" ELSE "reports"

\* while (running_)
Loop(t) ==
    /\ pc[t] = "loop"
    /\ GoTo(t, IF running THEN Drain(t) ELSE "exited")
    /\ UNCHANGED <<job, slices, sending, cancelList, deferred>>
    /\ UNCHANGED <<exchangeVars, handlerVars, riskVars, gatewayVars>>

-----------------------------------------------------------------------------
(* process_single_order, on thread t                                       *)

\* Steps 1 to 3.  A refused order is only marked in the caller's copy.
Admit(t) ==
    LET order == job[t].order IN
    /\ pc[t] = "admit"
    /\ \/ /\ TRUE \in CheckOrder(order.side, order.quantity)
          /\ TrackOrder(job[t].id, [order EXCEPT !.state = Apply(@, "Submit")])
          /\ carried' = [carried EXCEPT ![job[t].id] = @ + orders[job[t].id].filled]
          /\ GoTo(t, "route")
          /\ UNCHANGED rejected
       \/ /\ FALSE \in CheckOrder(order.side, order.quantity)
          /\ rejected' = rejected \cup {job[t].id}
          /\ GoTo(t, Drain(t))
          /\ UNCHANGED <<handlerVars, carried>>
    /\ UNCHANGED <<job, slices, sending, cancelList, deferred>>
    /\ UNCHANGED <<running, nextId, orderQueue, cancelQueue, fills, clientQty, completed, canceled>>
    /\ UNCHANGED <<exchangeVars, riskVars>>

\* The decisions of the strategies for any market data: BestPrice sends all to
\* one venue; LiquiditySweep spreads at most all over several, immediate or cancel.
BestPriceDecisions(order) ==
    {<<[venue |-> v, quantity |-> order.quantity, tif |-> order.tif]>> : v \in Venues}

SweepSlices(quantity) == [venue : Venues, quantity : 1 .. quantity, tif : {"IOC"}]

LiquiditySweepDecisions(order) ==
    {d \in UNION {[1 .. n -> SweepSlices(order.quantity)] : n \in 1 .. Cardinality(Venues)} :
        /\ \A i, j \in DOMAIN d : d[i].venue = d[j].venue => i = j
        /\ SumFunction([i \in DOMAIN d |-> d[i].quantity]) <= order.quantity}

Decisions(order) ==
    IF order.strategy = "BestPrice" THEN BestPriceDecisions(order)
    ELSE LiquiditySweepDecisions(order)

\* Step 4: the engine checks the risk again and asks the strategy.
Route(t) ==
    LET order == job[t].order IN
    /\ pc[t] = "route"
    /\ \/ /\ TRUE \in CheckOrder(order.side, order.quantity)
          /\ \E d \in Decisions(order) : slices' = [slices EXCEPT ![t] = d]
          /\ GoTo(t, "slice")
          /\ UNCHANGED rejected
       \/ /\ FALSE \in CheckOrder(order.side, order.quantity) \/ MayFailRoute
          /\ rejected' = rejected \cup {job[t].id}
          /\ GoTo(t, Drain(t))
          /\ UNCHANGED slices
    /\ UNCHANGED <<job, sending, cancelList, deferred>>
    /\ UNCHANGED <<running, nextId, orderQueue, cancelQueue, fills, clientQty, carried,
                   completed, canceled>>
    /\ UNCHANGED <<exchangeVars, handlerVars, riskVars>>

\* Step 5, for each slice: track the child, count it in the risk manager...
Slice(t) ==
    LET slice == Head(slices[t])
        order == job[t].order
    IN  /\ pc[t] = "slice"
        /\ nextId \in OrderIds
        /\ TrackChildOrder(job[t].id, nextId, MakeOrder(Apply("New", "Submit"), order.side,
                                slice.quantity, slice.tif, order.strategy, slice.venue))
        /\ OnOrderAccepted(order.side, slice.quantity)
        /\ nextId' = nextId + 1
        /\ sending' = [sending EXCEPT ![t] = nextId]
        /\ slices' = [slices EXCEPT ![t] = Tail(@)]
        /\ GoTo(t, "send")
        /\ UNCHANGED <<job, cancelList, deferred>>
        /\ UNCHANGED <<running, orderQueue, cancelQueue, fills, clientQty, carried,
                       rejected, completed, canceled>>
        /\ UNCHANGED exchangeVars

\* ...and hand it to the venue.
Send(t) ==
    LET child == orders[sending[t]] IN
    /\ pc[t] = "send"
    /\ SendAccepted(child.venue, sending[t], child.quantity, child.tif)
    /\ sending' = [sending EXCEPT ![t] = INVALID_ORDER_ID]
    /\ GoTo(t, IF slices[t] = << >> THEN Drain(t) ELSE "slice")
    /\ UNCHANGED <<job, slices, cancelList, deferred>>
    /\ UNCHANGED <<handlerVars, riskVars, gatewayVars>>

ProcessSingleOrder(t) == Admit(t) \/ Route(t) \/ Slice(t) \/ Send(t)

-----------------------------------------------------------------------------
(* order_processing_loop                                                   *)

PopOrder ==
    /\ pc["order"] = "orders"
    /\ \/ /\ orderQueue # << >>
          /\ job' = [job EXCEPT !["order"] = Head(orderQueue)]
          /\ orderQueue' = Tail(orderQueue)
          /\ GoTo("order", "admit")
       \/ /\ orderQueue = << >>
          /\ GoTo("order", "cancels")
          /\ UNCHANGED <<job, orderQueue>>
    /\ UNCHANGED <<slices, sending, cancelList, deferred>>
    /\ UNCHANGED <<running, nextId, cancelQueue, fills, clientQty, carried, rejected,
                   completed, canceled>>
    /\ UNCHANGED <<exchangeVars, handlerVars, riskVars>>

\* A cancel of an order that is not tracked is dropped; otherwise the children
\* it has now are visited.
PopCancel ==
    /\ pc["order"] = "cancels"
    /\ \/ /\ cancelQueue # << >>
          /\ cancelQueue' = Tail(cancelQueue)
          /\ cancelList' = childrenOf[Head(cancelQueue)]
          /\ canceled' = IF Tracked(Head(cancelQueue)) THEN canceled \cup {Head(cancelQueue)}
                         ELSE canceled
          /\ GoTo("order", "cancelling")
       \/ /\ cancelQueue = << >>
          /\ GoTo("order", "loop")
          /\ UNCHANGED <<cancelQueue, cancelList, canceled>>
    /\ UNCHANGED <<job, slices, sending, deferred>>
    /\ UNCHANGED <<running, nextId, orderQueue, fills, clientQty, carried, rejected, completed>>
    /\ UNCHANGED <<exchangeVars, handlerVars, riskVars>>

\* Only the children that look active are canceled at their venue; the state of
\* the orders is left alone.
CancelChild ==
    /\ pc["order"] = "cancelling"
    /\ \/ /\ cancelList = << >>
          /\ GoTo("order", "cancels")
          /\ UNCHANGED <<cancelList, exchangeVars>>
       \/ /\ cancelList # << >>
          /\ LET child == orders[Head(cancelList)] IN
             IF IsActive(child.state) THEN CancelAtVenue(child.venue, Head(cancelList))
             ELSE UNCHANGED exchangeVars
          /\ cancelList' = Tail(cancelList)
          /\ UNCHANGED pc
    /\ UNCHANGED <<job, slices, sending, deferred>>
    /\ UNCHANGED <<handlerVars, riskVars, gatewayVars>>

-----------------------------------------------------------------------------
(* execution_processing_loop                                               *)

PopReport ==
    /\ pc["exec"] = "reports"
    /\ \/ /\ reportQueue # << >>
          /\ reportQueue' = Tail(reportQueue)
          /\ OnExecutionReport(Head(reportQueue))
          /\ deferred' = Deferred(Head(reportQueue))
          /\ GoTo("exec", "deferred")
       \/ /\ reportQueue = << >>
          /\ GoTo("exec", "loop")
          /\ UNCHANGED <<reportQueue, handlerVars, deferred>>
    /\ UNCHANGED <<activeOrders, pendingQueue, batch, connected, lostReports, executed>>
    /\ UNCHANGED <<job, slices, sending, cancelList>>
    /\ UNCHANGED <<riskVars, gatewayVars>>

\* mutant: the whole quantity is sent again
RerouteWhole(parent) ==
    [id |-> parent, order |-> [orders[parent] EXCEPT !.filled = 0, !.state = "New"]]

\* mutant: filled_quantity is not reset
RerouteKeepsFilled(parent) ==
    [id |-> parent,
     order |-> [orders[parent] EXCEPT !.quantity = orders[parent].remaining, !.state = "New"]]

RerouteJob(parent) ==
    [id |-> parent,
     order |-> [orders[parent] EXCEPT !.quantity = orders[parent].remaining,
                                      !.filled = 0, !.state = "New"]]

\* The fill callback, then the reroute or the completion callback.
RunDeferred ==
    LET id == deferred.id IN
    /\ pc["exec"] = "deferred"
    /\ IF deferred.fill > 0
       THEN /\ fills' = [fills EXCEPT ![id] = @ + deferred.fill]
            /\ OnFill(orders[id].side, deferred.fill)
       ELSE UNCHANGED <<fills, riskVars>>
    /\ IF deferred.reroute
       THEN /\ job' = [job EXCEPT !["exec"] = RerouteJob(parentOf[id])]
            /\ GoTo("exec", "admit")
       ELSE UNCHANGED job /\ GoTo("exec", "reports")
    /\ completed' = IF deferred.completion THEN [completed EXCEPT ![parentOf[id]] = @ + 1]
                    ELSE completed
    /\ deferred' = Nothing
    /\ UNCHANGED <<slices, sending, cancelList>>
    /\ UNCHANGED <<running, nextId, orderQueue, cancelQueue, clientQty, carried, rejected, canceled>>
    /\ UNCHANGED <<exchangeVars, handlerVars>>

-----------------------------------------------------------------------------

VenueStep(v) ==
    /\ ProcessMatching(v, 1 .. Max(Quantities))
    /\ UNCHANGED <<handlerVars, riskVars, gatewayVars, threadVars>>

OrderThread == Loop("order") \/ PopOrder \/ PopCancel \/ CancelChild \/ ProcessSingleOrder("order")
ExecThread  == Loop("exec") \/ PopReport \/ RunDeferred \/ ProcessSingleOrder("exec")

Next ==
    \/ \E side \in SideChoices, quantity \in Quantities, tif \in TifChoices,
          strategy \in Strategies : SubmitOrder(side, quantity, tif, strategy)
    \/ \E id \in OrderIds : CancelOrder(id)
    \/ KillSwitch
    \/ Stop
    \/ StopDisconnect
    \/ OrderThread
    \/ ExecThread
    \/ \E v \in Venues : VenueStep(v)

Spec == Init /\ [][Next]_vars

-----------------------------------------------------------------------------
(* Properties                                                              *)

\* The type of the state, and the bound of the report queue: on_execution_report
\* of the gateway never holds more than the queue's capacity.
TypeOK ==
    /\ activeOrders \in [Venues -> [OrderIds ->
            [quantity : Nat, filled : Nat, tif : TimesInForce, cancel : BOOLEAN]]]
    /\ \A v \in Venues : pendingQueue[v] \in Seq(OrderIds)
    /\ batch \in [Venues -> Nat] /\ connected \in [Venues -> BOOLEAN]
    /\ Len(reportQueue) <= ReportCapacity
    /\ \A id \in OrderIds : /\ orders[id].state \in OrderStates \cup {"Untracked"}
                            /\ orders[id].filled \in Nat
                            /\ childrenOf[id] \in Seq(OrderIds)
    /\ parentOf \in [OrderIds -> OrderIds \cup {INVALID_ORDER_ID}]
    /\ position.pendingBuy \in Nat /\ position.pendingSell \in Nat
    /\ pc["order"] \in {"loop", "orders", "admit", "route", "slice", "send",
                        "cancels", "cancelling", "exited"}
    /\ pc["exec"] \in {"loop", "reports", "deferred", "admit", "route", "slice", "send", "exited"}

Children(p)        == {c \in OrderIds : parentOf[c] = p}
ExecutedOf(p)      == SumFunctionOnSet(executed, Children(p))
InReports(c, reps) == SumFunction([i \in DOMAIN reps |-> IF reps[i].id = c THEN reps[i].last ELSE 0])
Unseen(c)          == InReports(c, reportQueue) + InReports(c, lostReports)

\* What may still execute for child c: what is left on a book, or all of a child
\* that is on its way to the venue.
LiveOf(c) ==
    SumFunction([v \in Venues |-> activeOrders[v][c].quantity - activeOrders[v][c].filled])
    + (IF \E t \in Threads : sending[t] = c THEN orders[c].quantity ELSE 0)

\* What thread t is about to send for parent p.
PlannedOn(t, p) ==
    IF job[t].id # p THEN 0
    ELSE IF pc[t] \in {"admit", "route"} THEN job[t].order.quantity
    ELSE SumFunction([i \in DOMAIN slices[t] |-> slices[t][i].quantity])

\* The router never lets more execute for a client's order than the client asked
\* for, whichever of its two threads sends the children (process_single_order and
\* the reroute callback of gateway.cpp).
NoOverAllocation ==
    \A p \in ClientOrders :
        ExecutedOf(p) + SumFunction([c \in Children(p) |-> LiveOf(c)])
            + PlannedOn("order", p) + PlannedOn("exec", p) <= clientQty[p]

\* What a parent shows as filled, with what its reroutes carried away and the
\* reports not yet handled or lost, is what the venues executed for it
\* (update_parent_from_child, track_order's overwrite on a reroute).
FillAccounting ==
    \A p \in ClientOrders :
        ExecutedOf(p) = carried[p] + orders[p].filled + SumFunction([c \in Children(p) |-> Unseen(c)])

\* Every execution the handler has seen reaches the fill manager and the risk
\* manager's position exactly once (the deferred fill callback).
FillsRecorded ==
    LET signed == [c \in OrderIds |-> IF orders[c].side = "Buy" THEN fills[c] ELSE -fills[c]] IN
    /\ \A c \in OrderIds :
          executed[c] = fills[c] + Unseen(c) + (IF deferred.id = c THEN deferred.fill ELSE 0)
    /\ position.net = SumFunction(signed)

\* An order that reached a terminal state never leaves it: neither a late report
\* nor a reroute revives it.
TerminalFinal ==
    [][\A id \in OrderIds : IsTerminal(orders[id].state) => orders'[id].state = orders[id].state]_vars

\* The completion callback runs once, for an order that has executed in full.
CompletionSound ==
    \A p \in ClientOrders :
        /\ completed[p] <= 1
        /\ completed[p] = 1 => orders[p].state = "Filled" /\ ExecutedOf(p) = clientQty[p]

\* Nothing is queued, on a book or being worked on.
Quiet ==
    /\ orderQueue = << >> /\ cancelQueue = << >> /\ reportQueue = << >>
    /\ \A t \in Threads : pc[t] \in {"loop", "orders", "cancels", "reports"}
    /\ \A v \in Venues : pendingQueue[v] = << >>

\* When everything has come to rest every order was completed or refused: a child
\* that ended with its parent unfilled was rerouted (on_execution_report).
NoStrandedParent == Quiet => \A p \in ClientOrders : completed[p] > 0 \/ p \in rejected

\* Neither side can take the position beyond the limit, whatever is still on its
\* way to the risk manager: check_order counts what is pending, and both threads
\* check before they send.
ExposureWithinLimit ==
    LET open(side) == SumFunction([c \in OrderIds |-> IF orders[c].side = side THEN LiveOf(c) ELSE 0])
        done(side) == SumFunction([c \in OrderIds |-> IF orders[c].side = side THEN executed[c] ELSE 0])
        net == done("Buy") - done("Sell")
    IN  MaxPositionQuantity > 0 =>
            /\ net + open("Buy") <= MaxPositionQuantity
            /\ net - open("Sell") >= -MaxPositionQuantity

\* A child that was tracked and counted never meets a venue that stop() has already
\* disconnected, which would refuse it without anyone noticing.
SendsReachVenue == \A t \in Threads : pc[t] = "send" => connected[orders[sending[t]].venue]

\* Once the cancel of an order was handled no further child of it is sent.
CancelEndsOrder == [][\A p \in canceled : childrenOf'[p] = childrenOf[p]]_vars

-----------------------------------------------------------------------------
(* Liveness                                                                *)

\* The threads keep running and the venues keep matching; while orders rest on a
\* venue's book, some order that is visited is executable and hit again and again.
Fairness ==
    /\ WF_vars(OrderThread) /\ WF_vars(ExecThread)
    /\ \A v \in Venues :
          /\ WF_vars(VenueStep(v))
          /\ SF_vars(/\ \E n \in 1 .. Max(Quantities) : MatchFilled(v, n)
                     /\ UNCHANGED <<handlerVars, riskVars, gatewayVars, threadVars>>)

FairSpec == Spec /\ Fairness

\* Every order a client submits is eventually reported complete, unless the risk
\* checks refuse it, however often it is canceled by the venue and rerouted (until
\* the model runs out of identifiers for its children).
EventuallyCompleted ==
    \A p \in OrderIds :
        clientQty[p] > 0 ~> (completed[p] > 0 \/ p \in rejected \/ nextId \notin OrderIds)
=============================================================================
