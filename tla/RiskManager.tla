---------------------------- MODULE RiskManager ----------------------------
(***************************************************************************)
(* sor/risk/risk_manager for one symbol: the position the pre-trade check  *)
(* looks at and the events that move it.  Each operation runs under the    *)
(* manager's mutex.  The kill switch is the atomic flag it is; the rate    *)
(* limit and the checks on notional and loss depend on the clock and on    *)
(* prices, and are abstracted to a refusal that may happen at any check.   *)
(***************************************************************************)
EXTENDS Integers, FiniteSetsExt

CONSTANTS MaxOrderQuantity, MaxPositionQuantity, MaxOpenOrders,  \* 0: not enforced
          MayRefuse   \* the abstracted checks are configured

ASSUME RiskLimitsAssumption ==
    /\ MaxOrderQuantity \in Nat
    /\ MaxPositionQuantity \in Nat
    /\ MaxOpenOrders \in Nat
    /\ MayRefuse \in BOOLEAN

VARIABLES position,    \* PositionInfo of the symbol
          killSwitch   \* KillSwitch::active_

riskVars == <<position, killSwitch>>

RiskInit ==
    /\ position = [net |-> 0, open |-> 0, pendingBuy |-> 0, pendingSell |-> 0]
    /\ killSwitch = FALSE

Abs(n) == IF n < 0 THEN -n ELSE n

\* mutant: what is pending is not counted
ProjectedFilled(side, quantity) ==
    IF side = "Buy" THEN position.net + quantity ELSE position.net - quantity

\* Net position if everything pending on this side and the order were filled.
Projected(side, quantity) ==
    IF side = "Buy" THEN position.net + quantity + position.pendingBuy
    ELSE position.net - quantity - position.pendingSell

WithinLimits(side, quantity) ==
    /\ MaxOrderQuantity > 0 => quantity <= MaxOrderQuantity
    /\ MaxPositionQuantity > 0 => Abs(Projected(side, quantity)) <= MaxPositionQuantity
    /\ MaxOpenOrders > 0 => position.open < MaxOpenOrders

\* The results check_order may return: TRUE for Passed.
CheckOrder(side, quantity) ==
    {~killSwitch /\ WithinLimits(side, quantity)} \cup (IF MayRefuse THEN {FALSE} ELSE {})

OnFill(side, quantity) ==
    /\ position' =
         IF side = "Buy"
         THEN [position EXCEPT !.net = @ + quantity, !.pendingBuy = Max({0, @ - quantity})]
         ELSE [position EXCEPT !.net = @ - quantity, !.pendingSell = Max({0, @ - quantity})]
    /\ UNCHANGED killSwitch

OnOrderAccepted(side, quantity) ==
    /\ position' =
         IF side = "Buy"
         THEN [position EXCEPT !.open = @ + 1, !.pendingBuy = @ + quantity]
         ELSE [position EXCEPT !.open = @ + 1, !.pendingSell = @ + quantity]
    /\ UNCHANGED killSwitch

ActivateKillSwitch   == killSwitch' = TRUE /\ UNCHANGED position
DeactivateKillSwitch == killSwitch' = FALSE /\ UNCHANGED position
=============================================================================
