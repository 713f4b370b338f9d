------------------------------ MODULE BookSide ------------------------------
(***************************************************************************)
(* sor::market_data::BookSide (sor/market_data/book.cpp): the price levels *)
(* of one side of a venue's book, best first, in an array of MAX_DEPTH.    *)
(* The feeds rebuild a side with clear and insert_sorted; update and       *)
(* remove change one level.  The array operations are checked against what *)
(* a side is meant to be: the best MAX_DEPTH of the prices it was given.   *)
(***************************************************************************)
EXTENDS Integers, SequencesExt

CONSTANTS BookPrices, BookQuantities, BookDepth   \* BookDepth is MAX_DEPTH

ASSUME BookPricesAssumption     == BookPrices \subseteq Nat \ {0}
ASSUME BookQuantitiesAssumption == BookQuantities \subseteq Nat
ASSUME BookDepthAssumption      == BookDepth \in Nat \ {0}

VARIABLES is_bid,     \* which side this is; update() is not told
          levels,     \* levels[0 .. depth - 1]
          quoted,     \* reference: the levels a side of this depth should hold
          misled      \* history: a case in which the array differs from it

bookVars == <<is_bid, levels, quoted, misled>>

BookLevel(p, q) == [price |-> p, quantity |-> q]
BookBetter(bid, p, q) == IF bid THEN p > q ELSE p < q

BookInit ==
    /\ is_bid \in BOOLEAN
    /\ levels = << >>
    /\ quoted = {}
    /\ misled = FALSE

\* The place the search loop of insert_sorted ends at: the first level that is
\* not better than the price, or behind the last.
InsertionPoint(side, price, bid) ==
    LET at == SelectInSeq(side, LAMBDA l : ~BookBetter(bid, l.price, price))
    IN  IF at = 0 THEN Len(side) + 1 ELSE at

\* Mutant: equal prices are not recognised at the insertion point.
InsertSortedTwice(side, level, bid) ==
    LET full == Len(side) >= BookDepth
        kept == IF full THEN Front(side) ELSE side
        pos  == InsertionPoint(kept, level.price, bid)
    IN  IF full /\ ~BookBetter(bid, level.price, Last(side).price) THEN side
        ELSE InsertAt(kept, pos, level)

\* insert_sorted: a full side drops its worst level for a better one before it
\* looks for the place of the new one, which may replace a level instead.
InsertSorted(side, level, bid) ==
    LET full == Len(side) >= BookDepth
        kept == IF full THEN Front(side) ELSE side
        pos  == InsertionPoint(kept, level.price, bid)
    IN  IF full /\ ~BookBetter(bid, level.price, Last(side).price) THEN side
        ELSE IF pos <= Len(kept) /\ kept[pos].price = level.price THEN [kept EXCEPT ![pos] = level]
        ELSE InsertAt(kept, pos, level)

\* The level the search loops of update and remove end at, 0 if there is none.
FirstPriced(side, price) == SelectInSeq(side, LAMBDA l : l.price = price)

RemoveLevel(side, price) ==
    LET at == FirstPriced(side, price)
    IN  IF at = 0 THEN side ELSE RemoveAt(side, at)

\* The direction update() infers: from the first two levels, and from one
\* level by a comparison that is true of every other price.
InferredBid(side) == Len(side) = 1 \/ side[1].price > side[2].price

UpdateLevel(side, level) ==
    LET at == FirstPriced(side, level.price)
    IN  CASE at # 0 /\ level.quantity > 0 -> [side EXCEPT ![at] = level]
          [] at # 0 /\ level.quantity = 0 -> RemoveLevel(side, level.price)
          [] at = 0 /\ level.quantity = 0 -> side
          [] OTHER -> IF side = << >> THEN <<level>>
                      ELSE InsertSorted(side, level, InferredBid(side))

-----------------------------------------------------------------------------
(* The reference: sets of levels, without an order and without an array.   *)

Quote(side, level) == {l \in side : l.price # level.price} \cup {level}

BestLevels(side) ==
    {l \in side : Cardinality({m \in side : BookBetter(is_bid, m.price, l.price)}) < BookDepth}

HasPrice(side, price) == \E l \in side : l.price = price

-----------------------------------------------------------------------------
BookInsert(level) ==
    /\ levels' = InsertSorted(levels, level, is_bid)
    /\ quoted' = BestLevels(Quote(quoted, level))
    /\ misled' = (misled \/ (Len(levels) = BookDepth /\ HasPrice(quoted, level.price)))
    /\ UNCHANGED is_bid

BookUpdate(level) ==
    /\ levels' = UpdateLevel(levels, level)
    /\ quoted' = IF level.quantity > 0 THEN BestLevels(Quote(quoted, level))
                 ELSE {l \in quoted : l.price # level.price}
    /\ misled' = (misled \/ (~is_bid /\ Len(levels) = 1 /\ level.quantity > 0
                                     /\ ~HasPrice(quoted, level.price)))
    /\ UNCHANGED is_bid

BookRemove(price) ==
    /\ levels' = RemoveLevel(levels, price)
    /\ quoted' = {l \in quoted : l.price # price}
    /\ UNCHANGED <<is_bid, misled>>

BookClear ==
    /\ levels' = << >>
    /\ quoted' = {}
    /\ misled' = FALSE
    /\ UNCHANGED is_bid

BookNext ==
    \/ \E p \in BookPrices, q \in BookQuantities : BookInsert(BookLevel(p, q))
    \/ \E p \in BookPrices, q \in BookQuantities \cup {0} : BookUpdate(BookLevel(p, q))
    \/ \E p \in BookPrices : BookRemove(p)
    \/ BookClear

BookSpec == BookInit /\ [][BookNext]_bookVars

-----------------------------------------------------------------------------
\* Whatever sequence of updates, inserts and removals it gets, a side holds
\* the best MAX_DEPTH of its quotes, each price once with its last quantity,
\* best first.  Two cases break that and are all that do: insert_sorted of a
\* price a full side already has drops the worst level for nothing (line 77),
\* and update() takes an ask side with one level for a bid side (line 53).
BookMatchesReference ==
    misled \/ /\ {levels[i] : i \in DOMAIN levels} = quoted
              /\ \A i \in 1 .. Len(levels) - 1 :
                    BookBetter(is_bid, levels[i].price, levels[i + 1].price)
=============================================================================
