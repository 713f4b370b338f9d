------------------------- MODULE OrderStateMachine -------------------------
(***************************************************************************)
(* sor/state/order_state_machine and the state predicates of sor/core/     *)
(* order.cpp: the life cycle of an order as a partial function from a      *)
(* state and an event to the next state.  An event that the table does not *)
(* list leaves the order as it was.                                        *)
(***************************************************************************)
EXTENDS Naturals

OrderStates == {"New", "PendingNew", "Accepted", "PartiallyFilled", "Filled",
                "PendingCancel", "Canceled", "Rejected", "Expired", "PendingReplace"}

OrderEvents == {"Submit", "Acknowledge", "PartialFill", "Fill", "RequestCancel",
                "CancelAck", "Reject", "Expire", "RequestReplace", "ReplaceAck"}

\* TRANSITION_TABLE as <<from, event, to>>; the cells not listed are INVALID_STATE.
Transitions ==
    { <<"New", "Submit", "PendingNew">>,
      <<"PendingNew", "Acknowledge", "Accepted">>,
      <<"PendingNew", "Reject", "Rejected">>,
      <<"Accepted", "PartialFill", "PartiallyFilled">>,
      <<"Accepted", "Fill", "Filled">>,
      <<"Accepted", "RequestCancel", "PendingCancel">>,
      <<"Accepted", "Expire", "Expired">>,
      <<"Accepted", "RequestReplace", "PendingReplace">>,
      <<"Accepted", "Reject", "Rejected">>,
      <<"PartiallyFilled", "PartialFill", "PartiallyFilled">>,
      <<"PartiallyFilled", "Fill", "Filled">>,
      <<"PartiallyFilled", "RequestCancel", "PendingCancel">>,
      <<"PartiallyFilled", "Expire", "Expired">>,
      <<"PendingCancel", "CancelAck", "Canceled">>,
      <<"PendingCancel", "Fill", "Filled">>,
      <<"PendingCancel", "PartialFill", "PendingCancel">>,
      <<"PendingCancel", "Reject", "Accepted">>,
      <<"PendingReplace", "ReplaceAck", "Accepted">>,
      <<"PendingReplace", "Reject", "Accepted">>,
      <<"PendingReplace", "Fill", "Filled">> }

ValidTransition(from, event) == \E t \in Transitions : t[1] = from /\ t[2] = event

Apply(from, event) ==
    IF ValidTransition(from, event)
    THEN (CHOOSE t \in Transitions : t[1] = from /\ t[2] = event)[3]
    ELSE from

IsTerminal(state) == state \in {"Filled", "Canceled", "Rejected", "Expired"}
IsActive(state)   == state \in OrderStates /\ ~IsTerminal(state)
=============================================================================
