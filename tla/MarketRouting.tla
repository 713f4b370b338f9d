--------------------------- MODULE MarketRouting ---------------------------
(***************************************************************************)
(* From quotes to slices: sor::market_data::MarketDataAggregator           *)
(* (aggregator.cpp), the market data step of RoutingEngine::route_order    *)
(* (engine.cpp) and the four strategies it dispatches to (best_price.cpp,  *)
(* liquidity_sweep.cpp, smart_ioc.cpp, vwap.cpp), for one symbol.          *)
(*                                                                         *)
(* Feed threads replace a venue's book and recompute the NBBO under the    *)
(* aggregator's lock; the router reads the NBBO and, under a second lock,  *)
(* the aggregated book, so quotes may change in between.  A side of a      *)
(* venue's book is a function from prices to quantities: BookSide says     *)
(* when the array is one.  Fees, latencies and fill rates only rank the    *)
(* venues, and the ranking is left open.                                   *)
(***************************************************************************)
EXTENDS Integers, SequencesExt

CONSTANTS RouteVenues,
          RouteBooks,          \* the books a feed may publish: [bids, asks]
          RouteOrders,         \* orders: [side, quantity, strategy, tif]
          RouteDepth,          \* MAX_DEPTH of the aggregated book
          MinSlice,            \* LiquiditySweep's min_slice_quantity_
          SlippageTicks,       \* SmartIOC's slippage_ticks_
          NumSlices, MaxShare  \* VWAP's num_slices and 1 / max_participation_rate

ASSUME RouteAssumption ==
    /\ RouteDepth \in Nat \ {0} /\ MinSlice \in Nat \ {0} /\ SlippageTicks \in Nat
    /\ NumSlices \in Nat \ {0} /\ MaxShare \in Nat \ {0, 1}

VARIABLES registered,   \* venues_, in the order of registration
          venue_books,  \* venue_books_
          nbbo_cache,   \* nbbo_cache_
          routing,      \* route_order: program counter, order and NBBO it read
          vwap_total,   \* VWAPStrategy::total_quantity_
          lateVenue     \* history: a venue had quotes before it was registered,
                        \* and no quote came since

routeVars == <<registered, venue_books, nbbo_cache, routing, vwap_total, lateVenue>>

INVALID_PRICE == 0
NoBook    == [bids |-> << >>, asks |-> << >>]
NoNbbo    == [bid |-> INVALID_PRICE, bid_qty |-> 0, ask |-> INVALID_PRICE, ask_qty |-> 0]
NotRouting == [pc |-> "idle", order |-> << >>, nbbo |-> NoNbbo]

-----------------------------------------------------------------------------
(* The aggregator                                                          *)

\* Buyers take asks, lowest first; sellers take bids, highest first.
PriceBetter(side, p, q) == IF side = "Buy" THEN p < q ELSE p > q

SideOf(book, side) == IF side = "Buy" THEN book.asks ELSE book.bids

BestPrice(book, side) ==
    LET prices == DOMAIN SideOf(book, side)
    IN  IF prices = {} THEN INVALID_PRICE
        ELSE CHOOSE p \in prices : \A q \in prices : ~PriceBetter(side, q, p)

\* Mutant: a venue with the same price replaces the quantity.
JoinBestLast(best, book, side) ==
    LET p == BestPrice(book, side) IN
    IF p # INVALID_PRICE /\ (best.price = INVALID_PRICE \/ ~PriceBetter(side, best.price, p))
    THEN [price |-> p, qty |-> SideOf(book, side)[p]] ELSE best

\* One venue's part in recalculate_nbbo, for the price and quantity of a side.
JoinBest(best, book, side) ==
    LET p == BestPrice(book, side) IN
    CASE p = INVALID_PRICE -> best
      [] p # INVALID_PRICE /\ (best.price = INVALID_PRICE \/ PriceBetter(side, p, best.price)) ->
            [price |-> p, qty |-> SideOf(book, side)[p]]
      [] p # INVALID_PRICE /\ p = best.price -> [best EXCEPT !.qty = @ + SideOf(book, side)[p]]
      [] OTHER -> best

RecalculateNbbo(books) ==
    LET side(s) == FoldLeft(LAMBDA best, v : JoinBest(best, books[v], s),
                            [price |-> INVALID_PRICE, qty |-> 0], registered)
    IN  [bid |-> side("Sell").price, bid_qty |-> side("Sell").qty,
         ask |-> side("Buy").price,  ask_qty |-> side("Buy").qty]

NbboValid(n) ==
    /\ n.bid # INVALID_PRICE /\ n.ask # INVALID_PRICE
    /\ n.bid < n.ask
    /\ n.bid_qty > 0 /\ n.ask_qty > 0

\* build_aggregated_book: the levels of one side over the registered venues,
\* best first, each with the venues that quote it, cut at MAX_DEPTH.
AggregatedLevels(side) ==
    LET quotes(v, p) == p \in DOMAIN SideOf(venue_books[v], side)
        prices == {p \in UNION {DOMAIN SideOf(venue_books[v], side) : v \in RouteVenues} :
                      \E i \in DOMAIN registered : quotes(registered[i], p)}
        sorted == SetToSortSeq(prices, LAMBDA p, q : PriceBetter(side, p, q))
        level(p) == [price |-> p,
                     parts |-> [i \in DOMAIN SelectSeq(registered, LAMBDA v : quotes(v, p)) |->
                                  LET v == SelectSeq(registered, LAMBDA w : quotes(w, p))[i]
                                  IN  [venue |-> v, quantity |-> SideOf(venue_books[v], side)[p]]]]
    IN  [i \in 1 .. (IF Len(sorted) < RouteDepth THEN Len(sorted) ELSE RouteDepth) |-> level(sorted[i])]

RegisterVenue(v) ==
    /\ v \notin Range(registered)
    /\ registered' = Append(registered, v)
    /\ lateVenue' = (lateVenue \/ venue_books[v] # NoBook)
    /\ UNCHANGED <<venue_books, nbbo_cache, routing, vwap_total>>

OnBookUpdate(v, book) ==
    /\ venue_books' = [venue_books EXCEPT ![v] = book]
    /\ nbbo_cache' = RecalculateNbbo(venue_books')
    /\ lateVenue' = FALSE
    /\ UNCHANGED <<registered, routing, vwap_total>>

-----------------------------------------------------------------------------
(* The strategies.  `open` are the venues with an available score, `lvls`  *)
(* the levels the order takes from; a decision is a set of slices.         *)

SliceOf(v, p, q, tif) == [venue |-> v, price |-> p, quantity |-> q, tif |-> tif]
Lesser(a, b) == IF a < b THEN a ELSE b
Greater(a, b) == IF a > b THEN a ELSE b
OpenParts(level, open) == SelectSeq(level.parts, LAMBDA x : x.venue \in open)
Total(parts) == FoldLeft(LAMBDA n, x : n + x.quantity, 0, parts)

\* BestPrice: the whole order to the venue with the best price after fees,
\* which each venue quotes at its own best level.
BestPriceRoute(order, lvls, open) ==
    LET at(v) == {i \in DOMAIN lvls : \E x \in Range(lvls[i].parts) : x.venue = v}
        quoting == {v \in open : at(v) # {}}
    IN  {{SliceOf(v, lvls[CHOOSE i \in at(v) : \A j \in at(v) : i <= j].price,
                  order.quantity, order.tif)} : v \in quoting}

\* The pro-rata share, in floating point: the quotient of an exact division
\* may come out just below it and be truncated (`low`).
ProRata(quantity, available, fill, low) ==
    IF low /\ (quantity * fill) % available = 0 THEN (quantity * fill) \div available - 1
    ELSE (quantity * fill) \div available

NoAllocation == [v \in RouteVenues |-> [price |-> INVALID_PRICE, quantity |-> 0]]
AddAllocation(alloc, v, p, q) == [alloc EXCEPT ![v] = [price |-> p, quantity |-> @.quantity + q]]

\* One venue's share of a level: nothing if it is dust that does not complete it.
SweepShare(acc, part, level, available, fill, low) ==
    LET left  == fill - acc.done
        share == Lesser(Lesser(ProRata(part.quantity, available, fill, low), part.quantity), left)
    IN  IF left <= 0 \/ (share < MinSlice /\ share < left) THEN acc
        ELSE [done |-> acc.done + share, alloc |-> AddAllocation(acc.alloc, part.venue, level.price, share)]

\* Mutant: every level gets the whole order.
SweepLevelRefilled(acc, level, open, low) ==
    LET parts == OpenParts(level, open)
        fill  == Lesser(acc.remaining, Total(parts))
    IN  IF fill <= 0 THEN acc
        ELSE [acc EXCEPT !.alloc = AddAllocation(@, parts[1].venue, level.price, fill)]

\* One level of the sweep; what rounding and dust left over goes to the first
\* of the venues with the most on it.
SweepLevel(acc, level, open, low) ==
    LET parts     == OpenParts(level, open)
        available == Total(parts)
        fill      == Lesser(acc.remaining, available)
        shared    == FoldLeft(LAMBDA a, x : SweepShare(a, x, level, available, fill,
                                                       <<level.price, x.venue>> \in low),
                              [done |-> 0, alloc |-> acc.alloc], parts)
        biggest   == parts[SelectInSeq(parts, LAMBDA x : \A y \in Range(parts) : y.quantity <= x.quantity)]
    IN  IF acc.remaining <= 0 \/ available <= 0 THEN acc
        ELSE [remaining |-> acc.remaining - fill,
              alloc |-> IF shared.done = fill THEN shared.alloc
                        ELSE AddAllocation(shared.alloc, biggest.venue, level.price, fill - shared.done)]

Slices(alloc, smallest, tif) ==
    {SliceOf(v, alloc[v].price, alloc[v].quantity, tif) :
        v \in {w \in RouteVenues : alloc[w].quantity >= smallest}}

LiquiditySweepRoute(order, lvls, open) ==
    {Slices(FoldLeft(LAMBDA acc, l : SweepLevel(acc, l, open, low),
                     [remaining |-> order.quantity, alloc |-> NoAllocation], lvls).alloc,
            MinSlice, "IOC") :
        low \in SUBSET UNION {{<<l.price, x.venue>> : x \in Range(l.parts)} : l \in Range(lvls)}}

\* SmartIOC: the levels within the tolerance of the NBBO the router read.
WorstAcceptable(nbbo, side) ==
    IF side = "Buy" THEN nbbo.ask + SlippageTicks ELSE Greater(nbbo.bid - SlippageTicks, 1)

\* Mutant: the tolerance is not applied.
WithinSlippageAll(lvls, nbbo, side) == lvls

WithinSlippage(lvls, nbbo, side) ==
    SelectSeq(lvls, LAMBDA l : ~PriceBetter(side, WorstAcceptable(nbbo, side), l.price))

\* FOK: one venue that has all of it within the tolerance.
FokRoute(order, lvls, open) ==
    LET has(v)   == FoldLeft(LAMBDA n, l : n + Total(OpenParts(l, {v})), 0, lvls)
        last(v)  == SelectSeq(lvls, LAMBDA l : OpenParts(l, {v}) # << >>)
        enough   == {v \in open : has(v) >= order.quantity}
    IN  {{SliceOf(v, Last(last(v)).price, order.quantity, "FOK")} : v \in enough}

\* IOC: level by level, the venues of a level in the order of their quality.
IocLevel(acc, level, open, ranking) ==
    FoldLeft(LAMBDA a, v :
                LET fill == Lesser(a.remaining, Total(OpenParts(level, {v} \cap open)))
                IN  IF fill <= 0 THEN a
                    ELSE [remaining |-> a.remaining - fill,
                          alloc |-> AddAllocation(a.alloc, v, level.price, fill)],
             acc, ranking)

IocRoute(order, lvls, open) ==
    {Slices(FoldLeft(LAMBDA acc, l : IocLevel(acc, l, open, ranking),
                     [remaining |-> order.quantity, alloc |-> NoAllocation], lvls).alloc, 1, "IOC") :
        ranking \in SetToAllKPermutations(RouteVenues)}

\* VWAP: one slice of the schedule of the order it was begun with (`total`),
\* up to twice the base slice when behind schedule, to a venue of the best
\* level.  Nothing reports fills to it, so nothing ever remains but the total.
VwapQuantities(total) ==
    LET base == Greater(1, total \div NumSlices)
    IN  {Greater(1, Lesser(Lesser(q, Greater(1, total \div MaxShare)), total)) : q \in base .. 2 * base}

VwapRoute(total, lvls, open) ==
    LET top == SelectInSeq(lvls, LAMBDA l : OpenParts(l, open) # << >>)
    IN  IF top = 0 THEN {}
        ELSE {{SliceOf(x.venue, lvls[top].price, q, "IOC")} :
                 x \in Range(OpenParts(lvls[top], open)), q \in VwapQuantities(total)}

\* The total VWAP works with: that of the order it was begun with, for good.
VwapTotal(order) == IF vwap_total = 0 THEN order.quantity ELSE vwap_total

\* What the order's strategy may answer; an empty decision rejects the order.
Route(order, nbbo, open) ==
    LET lvls == AggregatedLevels(order.side)
        band == WithinSlippage(lvls, nbbo, order.side)
    IN  CASE order.strategy = "BestPrice"      -> BestPriceRoute(order, lvls, open)
          [] order.strategy = "LiquiditySweep" -> LiquiditySweepRoute(order, lvls, open)
          [] order.strategy = "VWAP"           -> VwapRoute(VwapTotal(order), lvls, open)
          [] order.strategy = "SmartIOC" /\ order.tif = "FOK" -> FokRoute(order, band, open)
          [] order.strategy = "SmartIOC" /\ order.tif # "FOK" -> IocRoute(order, band, open)

-----------------------------------------------------------------------------
(* route_order, from its market data step on                               *)

RouteNbbo(order) ==
    /\ routing.pc = "idle"
    /\ NbboValid(nbbo_cache)
    /\ routing' = [pc |-> "book", order |-> order, nbbo |-> nbbo_cache]
    /\ UNCHANGED <<registered, venue_books, nbbo_cache, vwap_total, lateVenue>>

\* The aggregated book is read and the strategy decides.
RouteBook ==
    /\ routing.pc = "book"
    /\ routing' = NotRouting
    /\ vwap_total' = IF routing.order.strategy = "VWAP" THEN VwapTotal(routing.order) ELSE vwap_total
    /\ UNCHANGED <<registered, venue_books, nbbo_cache, lateVenue>>

RouteInit ==
    /\ registered = << >>
    /\ venue_books = [v \in RouteVenues |-> NoBook]
    /\ nbbo_cache = NoNbbo
    /\ routing = NotRouting
    /\ vwap_total = 0
    /\ lateVenue = FALSE

RouteNext ==
    \/ \E v \in RouteVenues : RegisterVenue(v)
    \/ \E v \in RouteVenues, book \in RouteBooks : OnBookUpdate(v, book)
    \/ \E order \in RouteOrders : RouteNbbo(order)
    \/ RouteBook

RouteSpec == RouteInit /\ [][RouteNext]_routeVars

-----------------------------------------------------------------------------
(***************************************************************************)
(* Properties                                                              *)
(***************************************************************************)

\* The cached NBBO is the top of the aggregated book, price and quantity, as
\* long as the venues are registered before their quotes arrive: register_venue
\* does not recompute it.
NbboIsTopOfBook ==
    LET top(side) == AggregatedLevels(side)
        is(side, price, qty) == IF top(side) = << >> THEN price = INVALID_PRICE
                                ELSE price = top(side)[1].price /\ qty = Total(top(side)[1].parts)
    IN  lateVenue \/ /\ is("Buy", nbbo_cache.ask, nbbo_cache.ask_qty)
                     /\ is("Sell", nbbo_cache.bid, nbbo_cache.bid_qty)

\* The decisions that route_order may return in this state.
Deciding(P(_)) ==
    routing.pc = "book" =>
        \A open \in SUBSET RouteVenues : \A d \in Route(routing.order, routing.nbbo, open) : P(d)

\* What SorGateway takes for granted of a strategy, for every market: no slice
\* is empty, no venue gets two, and together they are no more than the order.
\* BestPrice sends all of it.  VWAP is the exception: its slices are those of
\* the first order it ever saw, and a smaller one gets more than it asked for.
DecisionWithinOrder ==
    Deciding(LAMBDA d :
        LET sum == FoldSet(LAMBDA s, n : n + s.quantity, 0, d)
        IN  /\ \A s \in d : s.quantity > 0
            /\ \A s, t \in d : s.venue = t.venue => s = t
            /\ sum <= IF routing.order.strategy = "VWAP" THEN VwapTotal(routing.order)
                      ELSE routing.order.quantity
            /\ routing.order.strategy = "BestPrice" => sum = routing.order.quantity)

\* SmartIOC takes no price beyond its tolerance of the NBBO it read, and no
\* more at a venue than the book shows there up to that price, although the
\* book is read after the NBBO and may be of another market.
IocWithinSlippage ==
    LET order == routing.order
        shown(s) == FoldLeft(LAMBDA n, l : n + Total(OpenParts(l, {s.venue})), 0,
                             SelectSeq(AggregatedLevels(order.side),
                                       LAMBDA l : ~PriceBetter(order.side, s.price, l.price)))
    IN  (routing.pc = "book" /\ order.strategy = "SmartIOC") =>
            Deciding(LAMBDA d : \A s \in d :
                /\ ~PriceBetter(order.side, WorstAcceptable(routing.nbbo, order.side), s.price)
                /\ s.quantity <= shown(s))
=============================================================================
