-------------------------- MODULE ExecutionHandler --------------------------
(***************************************************************************)
(* sor/execution/execution_handler: the parent and child orders the router *)
(* tracks, and what an execution report does to them.  Each operation runs *)
(* under the handler's mutex and is one step; the callbacks that           *)
(* on_execution_report defers until the mutex is released are what         *)
(* Deferred returns, for the gateway to run.  Average prices, versions,    *)
(* times and statistics are left out.                                      *)
(***************************************************************************)
EXTENDS Integers, Sequences, SorOrders

VARIABLES orders,      \* orders_; an identifier not in the map is Untracked
          childrenOf,  \* parent_to_children_
          parentOf     \* child_to_parent_

handlerVars == <<orders, childrenOf, parentOf>>

Untracked == [state |-> "Untracked", side |-> "Buy", quantity |-> 0, filled |-> 0,
              remaining |-> 0, tif |-> "GTC", strategy |-> "BestPrice", venue |-> 0]
Tracked(id) == orders[id].state # "Untracked"

HandlerInit ==
    /\ orders = [id \in OrderIds |-> Untracked]
    /\ childrenOf = [id \in OrderIds |-> << >>]
    /\ parentOf = [id \in OrderIds |-> INVALID_ORDER_ID]

\* Tracking an order again overwrites it and keeps its children.
TrackOrder(id, order) ==
    /\ orders' = [orders EXCEPT ![id] = order]
    /\ UNCHANGED <<childrenOf, parentOf>>

TrackChildOrder(parent, id, order) ==
    /\ orders' = [orders EXCEPT ![id] = order]
    /\ childrenOf' = [childrenOf EXCEPT ![parent] = Append(@, id)]
    /\ parentOf' = [parentOf EXCEPT ![id] = parent]

-----------------------------------------------------------------------------
(* on_execution_report                                                     *)

EventOf(state) ==
    CASE state = "Accepted"        -> "Acknowledge"
      [] state = "PartiallyFilled" -> "PartialFill"
      [] state = "Filled"          -> "Fill"
      [] state = "Canceled"        -> "CancelAck"
      [] state = "Rejected"        -> "Reject"
      [] state = "Expired"         -> "Expire"
      [] state = "PendingCancel"   -> "RequestCancel"
      [] state = "PendingReplace"  -> "RequestReplace"

\* The reported order.  A cancel of a live order passes through PendingCancel;
\* an event the table refuses leaves the state, but a fill is still booked.
AfterReport(order, r) ==
    LET before == IF r.state = "Canceled" /\ order.state \in {"Accepted", "PartiallyFilled"}
                  THEN Apply(order.state, "RequestCancel") ELSE order.state
        state  == Apply(before, EventOf(r.state))
        filled == IF r.last > 0 THEN r.cum ELSE order.filled
    IN  [order EXCEPT !.state = state, !.filled = filled,
                      !.remaining = IF r.last > 0 THEN order.quantity - filled ELSE @]

\* mutant: the parent adds the cumulative quantity
AfterChildFillCum(parent, r) ==
    IF r.last = 0 THEN parent
    ELSE [parent EXCEPT
            !.filled = @ + r.cum,
            !.remaining = parent.quantity - (parent.filled + r.cum),
            !.state = IF @ \in {"New", "PendingNew", "Accepted"} THEN "PartiallyFilled" ELSE @]

\* update_parent_from_child: the parent adds what this report filled.
AfterChildFill(parent, r) ==
    IF r.last = 0 THEN parent
    ELSE [parent EXCEPT
            !.filled = @ + r.last,
            !.remaining = parent.quantity - (parent.filled + r.last),
            !.state = IF @ \in {"New", "PendingNew", "Accepted"} THEN "PartiallyFilled" ELSE @]

\* mutant: the parent's own state and quantity are not looked at
NeedsRerouteAlways(parent, child, id, others) ==
    /\ IsTerminal(child.state) /\ child.state # "Filled"
    /\ \A i \in DOMAIN others : others[i] # id => IsTerminal(orders[others[i]].state)

\* mutant: only rejects are rerouted
NeedsRerouteRejected(parent, child, id, others) ==
    /\ child.state = "Rejected"
    /\ ~IsTerminal(parent.state)
    /\ parent.quantity - parent.filled > 0
    /\ \A i \in DOMAIN others : others[i] # id => IsTerminal(orders[others[i]].state)

\* A child that ended unfilled sends the parent's rest elsewhere once no
\* child that is tracked by now is still open.
NeedsReroute(parent, child, id, others) ==
    /\ IsTerminal(child.state) /\ child.state # "Filled"
    /\ ~IsTerminal(parent.state)
    /\ parent.quantity - parent.filled > 0
    /\ \A i \in DOMAIN others : others[i] # id => IsTerminal(orders[others[i]].state)

\* mutant: the fill callback is only run for full fills
DeferredFullOnly(r) ==
    LET child  == AfterReport(orders[r.id], r)
        pid    == parentOf[r.id]
        parent == AfterChildFill(orders[pid], r)
    IN  [id |-> r.id, fill |-> IF r.state = "Filled" THEN r.last ELSE 0,
         reroute |-> NeedsReroute(parent, child, r.id, childrenOf[pid]),
         completion |-> parent.filled >= parent.quantity]

\* What on_execution_report makes of report r.
Deferred(r) ==
    LET child  == AfterReport(orders[r.id], r)
        pid    == parentOf[r.id]
        parent == AfterChildFill(orders[pid], r)
    IN  IF ~Tracked(r.id)
        THEN [id |-> r.id, fill |-> 0, reroute |-> FALSE, completion |-> FALSE]
        ELSE [id |-> r.id, fill |-> r.last,
              reroute |-> /\ pid # INVALID_ORDER_ID
                          /\ NeedsReroute(parent, child, r.id, childrenOf[pid]),
              completion |-> IF pid = INVALID_ORDER_ID THEN child.state = "Filled"
                             ELSE parent.filled >= parent.quantity]

OnExecutionReport(r) ==
    LET child  == AfterReport(orders[r.id], r)
        pid    == parentOf[r.id]
        parent == AfterChildFill(orders[pid], r)
        closed == IF parent.filled >= parent.quantity
                  THEN [parent EXCEPT !.state = "Filled", !.remaining = 0]
                  ELSE IF NeedsReroute(parent, child, r.id, childrenOf[pid])
                       THEN [parent EXCEPT !.remaining = parent.quantity - parent.filled]
                       ELSE parent
    IN  /\ orders' = IF ~Tracked(r.id) THEN orders
                     ELSE IF pid = INVALID_ORDER_ID THEN [orders EXCEPT ![r.id] = child]
                     ELSE [orders EXCEPT ![r.id] = child, ![pid] = closed]
        /\ UNCHANGED <<childrenOf, parentOf>>
=============================================================================
