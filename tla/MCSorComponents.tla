-------------------------- MODULE MCSorComponents --------------------------
(***************************************************************************)
(* Instances for TLC of the components below the sor gateway.  They share  *)
(* no state: each behaviour exercises one of them and leaves the others in *)
(* an initial state, so that one run explores their sum, not their product.*)
(***************************************************************************)
EXTENDS MemoryPool, RateLimiter, MPSCQueue, SPSCQueue, BookSide, MarketRouting

VARIABLE exercised

vars == <<poolVars, rateVars, mpscVars, spscVars, bookVars, routeVars, exercised>>

Init ==
    /\ exercised \in {"pool", "rate", "mpsc", "spsc", "book", "route"}
    /\ PoolInit /\ RateInit /\ MpscInit /\ SpscInit /\ BookInit /\ RouteInit
    /\ exercised # "rate" => max_per_second = Min(Rates)
    /\ exercised # "book" => is_bid

Next ==
    /\ UNCHANGED exercised
    /\ \/ /\ exercised = "pool" /\ PoolNext
          /\ UNCHANGED <<rateVars, mpscVars, spscVars, bookVars, routeVars>>
       \/ /\ exercised = "rate" /\ RateNext
          /\ UNCHANGED <<poolVars, mpscVars, spscVars, bookVars, routeVars>>
       \/ /\ exercised = "mpsc" /\ MpscNext
          /\ UNCHANGED <<poolVars, rateVars, spscVars, bookVars, routeVars>>
       \/ /\ exercised = "spsc" /\ SpscNext
          /\ UNCHANGED <<poolVars, rateVars, mpscVars, bookVars, routeVars>>
       \/ /\ exercised = "book" /\ BookNext
          /\ UNCHANGED <<poolVars, rateVars, mpscVars, spscVars, routeVars>>
       \/ /\ exercised = "route" /\ RouteNext
          /\ UNCHANGED <<poolVars, rateVars, mpscVars, spscVars, bookVars>>

Spec == Init /\ [][Next]_vars

\* Books of one and two levels per side; a bid at 3 meets asks at 2 and 3, so
\* that the venues' quotes also lock and cross each other.
OneLevel(p, q)  == p :> q
TwoLevels(q, r) == 2 :> q @@ 3 :> r

MCBooks ==
    {[bids |-> OneLevel(1, 1), asks |-> a] :
        a \in {OneLevel(2, 2), OneLevel(3, 2), TwoLevels(1, 2), TwoLevels(2, 1)}}
    \cup {[bids |-> b, asks |-> OneLevel(4, 1)] : b \in {OneLevel(3, 1), TwoLevels(2, 1)}}
    \cup {NoBook}

MCOrders ==
    [side : {"Buy"}, quantity : {3}, strategy : {"BestPrice", "LiquiditySweep"}, tif : {"Day"}]
    \cup [side : {"Buy"}, quantity : {1, 4}, strategy : {"VWAP"}, tif : {"Day"}]
    \cup [side : {"Buy"}, quantity : {3}, strategy : {"SmartIOC"}, tif : {"IOC", "FOK"}]
    \cup [side : {"Sell"}, quantity : {2}, strategy : {"SmartIOC", "LiquiditySweep"}, tif : {"IOC"}]

\* The producers are interchangeable, and so are the venues.
Symmetry == Permutations(MpscProducers) \cup Permutations(RouteVenues)
=============================================================================
