----------------------------- MODULE SorOrders -----------------------------
(***************************************************************************)
(* sor/core/order.h: the orders every part of the router passes around.    *)
(***************************************************************************)
EXTENDS OrderStateMachine

CONSTANT OrderIds   \* the identifiers generate_order_id may hand out

INVALID_ORDER_ID == 0
ASSUME OrderIdsAssumption == OrderIds \subseteq Nat /\ INVALID_ORDER_ID \notin OrderIds

Sides        == {"Buy", "Sell"}
TimesInForce == {"GTC", "IOC", "FOK"}

\* A new order, with the fields the properties tell apart.  Prices, symbols,
\* clients, times and versions are left out; Day behaves as GTC.
MakeOrder(state, side, quantity, tif, strategy, venue) ==
    [state |-> state, side |-> side, quantity |-> quantity, filled |-> 0,
     remaining |-> quantity, tif |-> tif, strategy |-> strategy, venue |-> venue]
=============================================================================
