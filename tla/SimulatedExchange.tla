------------------------- MODULE SimulatedExchange -------------------------
(***************************************************************************)
(* sor/connectors/simulated_exchange: venues that accept, match, reject    *)
(* and cancel orders.  A venue holds its mutex while it works through the  *)
(* orders that were pending when process_matching started (batch), so      *)
(* send_order and cancel_order wait for the end of the batch.  Every       *)
(* execution report goes through the adapter's callback into the gateway's *)
(* bounded report queue; a push into a full queue fails unnoticed.         *)
(*                                                                         *)
(* Prices and probabilities are abstracted to their outcome: an order that *)
(* is matched is filled, missed (not executable, or the fill-probability   *)
(* gate) or rejected.                                                      *)
(***************************************************************************)
EXTENDS Integers, Sequences, FiniteSetsExt, SorOrders

CONSTANTS Venues,
          ReportCapacity,  \* capacity of the gateway's report_queue_
          VenueRejects     \* reject_probability > 0

ASSUME ReportCapacityAssumption == ReportCapacity \in Nat \ {0}
ASSUME VenueRejectsAssumption   == VenueRejects \in BOOLEAN

VARIABLES activeOrders,  \* active_orders_ of each venue
          pendingQueue,  \* pending_queue_ of each venue
          batch,         \* orders left to visit in the running process_matching
          connected,     \* connected_ of each venue
          reportQueue,   \* the gateway's report_queue_
          lostReports,   \* history: reports that met a full queue
          executed       \* history: quantity the venues filled for each order

exchangeVars == <<activeOrders, pendingQueue, batch, connected,
                  reportQueue, lostReports, executed>>

\* An identifier that is not in active_orders_.
Absent == [quantity |-> 0, filled |-> 0, tif |-> "GTC", cancel |-> FALSE]
OnBook(v, id) == activeOrders[v][id] # Absent

ExchangeInit ==
    /\ activeOrders = [v \in Venues |-> [id \in OrderIds |-> Absent]]
    /\ pendingQueue = [v \in Venues |-> << >>]
    /\ batch = [v \in Venues |-> 0]
    /\ connected = [v \in Venues |-> TRUE]
    /\ reportQueue = << >>
    /\ lostReports = << >>
    /\ executed = [id \in OrderIds |-> 0]

Report(id, state, last, cum) ==
    [id |-> id, state |-> state, last |-> last, cum |-> cum]

\* mutant: the report queue has no bound
NotifyUnbounded(reports) ==
    /\ reportQueue' = reportQueue \o reports
    /\ UNCHANGED lostReports

\* notify_execution for each report in turn.
Notify(reports) ==
    LET room == Min({Len(reports), ReportCapacity - Len(reportQueue)})
    IN  /\ reportQueue' = reportQueue \o SubSeq(reports, 1, room)
        /\ lostReports' = lostReports \o SubSeq(reports, room + 1, Len(reports))

-----------------------------------------------------------------------------
(* Calls from the gateway                                                  *)

SendAccepted(v, id, quantity, tif) ==
    /\ batch[v] = 0
    /\ connected[v]
    /\ ~OnBook(v, id)
    /\ activeOrders' = [activeOrders EXCEPT ![v][id] =
            [quantity |-> quantity, filled |-> 0, tif |-> tif, cancel |-> FALSE]]
    /\ pendingQueue' = [pendingQueue EXCEPT ![v] = Append(@, id)]
    /\ Notify(<<Report(id, "Accepted", 0, 0)>>)
    /\ UNCHANGED <<batch, connected, executed>>

\* cancel_order marks a known order; an unknown one is left alone.
CancelAtVenue(v, id) ==
    /\ batch[v] = 0
    /\ activeOrders' = IF connected[v] /\ OnBook(v, id)
                       THEN [activeOrders EXCEPT ![v][id].cancel = TRUE]
                       ELSE activeOrders
    /\ UNCHANGED <<pendingQueue, batch, connected, reportQueue, lostReports, executed>>

Disconnect ==
    /\ connected' = [v \in Venues |-> FALSE]
    /\ UNCHANGED <<activeOrders, pendingQueue, batch, reportQueue, lostReports, executed>>

-----------------------------------------------------------------------------
(* process_matching                                                        *)

MatchBegin(v) ==
    /\ batch[v] = 0
    /\ pendingQueue[v] # << >>
    /\ batch' = [batch EXCEPT ![v] = Len(pendingQueue[v])]
    /\ UNCHANGED <<activeOrders, pendingQueue, connected, reportQueue, lostReports, executed>>

\* The order at the front leaves the book with the given reports...
Leave(v, id, reports) ==
    /\ activeOrders' = [activeOrders EXCEPT ![v][id] = Absent]
    /\ pendingQueue' = [pendingQueue EXCEPT ![v] = Tail(@)]
    /\ Notify(reports)

\* mutant: a partly filled order is not queued again
RequeueForgotten(v, id, filled, reports) ==
    /\ activeOrders' = [activeOrders EXCEPT ![v][id].filled = filled]
    /\ pendingQueue' = [pendingQueue EXCEPT ![v] = Tail(@)]
    /\ Notify(reports)

\* ...or is queued again for the next round, with filled updated.
Requeue(v, id, filled, reports) ==
    /\ activeOrders' = [activeOrders EXCEPT ![v][id].filled = filled]
    /\ pendingQueue' = [pendingQueue EXCEPT ![v] = Append(Tail(@), id)]
    /\ Notify(reports)

\* generate_cancel_ack and generate_reject repeat what has been filled so far.
CancelAck(id, filled) == Report(id, "Canceled", 0, filled)
Reject(id, filled)    == Report(id, "Rejected", 0, filled)
Fill(id, n, filled, quantity) ==
    Report(id, IF filled = quantity THEN "Filled" ELSE "PartiallyFilled", n, filled)

Visit(v) == /\ batch[v] > 0
            /\ batch' = [batch EXCEPT ![v] = @ - 1]
            /\ UNCHANGED connected

MatchCanceled(v) ==
    LET id == Head(pendingQueue[v])
        order == activeOrders[v][id]
    IN  /\ Visit(v)
        /\ order.cancel
        /\ Leave(v, id, <<CancelAck(id, order.filled)>>)
        /\ UNCHANGED executed

MatchRejected(v) ==
    LET id == Head(pendingQueue[v])
        order == activeOrders[v][id]
    IN  /\ VenueRejects
        /\ Visit(v)
        /\ ~order.cancel
        /\ Leave(v, id, <<Reject(id, order.filled)>>)
        /\ UNCHANGED executed

MatchMissed(v) ==
    LET id == Head(pendingQueue[v])
        order == activeOrders[v][id]
    IN  /\ Visit(v)
        /\ ~order.cancel
        /\ \/ order.tif = "FOK" /\ Leave(v, id, <<Reject(id, order.filled)>>)
           \/ order.tif = "IOC" /\ Leave(v, id, <<CancelAck(id, order.filled)>>)
           \/ order.tif = "GTC" /\ Requeue(v, id, order.filled, << >>)
        /\ UNCHANGED executed

MatchFilled(v, n) ==
    LET id == Head(pendingQueue[v])
        order == activeOrders[v][id]
        filled == order.filled + n
        fill == Fill(id, n, filled, order.quantity)
    IN  /\ Visit(v)
        /\ ~order.cancel
        /\ filled <= order.quantity
        /\ \/ filled = order.quantity /\ Leave(v, id, <<fill>>)
           \/ /\ filled < order.quantity
              /\ order.tif = "IOC"
              /\ Leave(v, id, <<fill, CancelAck(id, filled)>>)
           \/ /\ filled < order.quantity
              /\ order.tif = "GTC"
              /\ Requeue(v, id, filled, <<fill>>)
        /\ executed' = [executed EXCEPT ![id] = @ + n]

ProcessMatching(v, Quantities) ==
    \/ MatchBegin(v)
    \/ MatchCanceled(v)
    \/ MatchRejected(v)
    \/ MatchMissed(v)
    \/ \E n \in Quantities : MatchFilled(v, n)
=============================================================================
