------------------------------ MODULE Inventory ------------------------------
(***************************************************************************)
(* InventoryState (core/types.py): the position in one symbol at average   *)
(* cost, what closing it has realized, and the fees; and Portfolio         *)
(* (core/portfolio.py), the inventories of the symbols filled so far.      *)
(***************************************************************************)
EXTENDS Market, Rational

Flat == [position |-> 0, avgEntry |-> Whole(0), realized |-> Whole(0), fees |-> Whole(0)]

\* Faulty: a position that turns over keeps its old average.
AvgEntry_stale(inv, side, size, price) ==
    IF inv.position = 0 THEN price
    ELSE IF side * inv.position > 0
    THEN Times(Plus(Scaled(Abs(inv.position), inv.avgEntry), Scaled(size, price)),
               <<1, Abs(inv.position) + size>>)
    ELSE inv.avgEntry

\* What size more lots at price make of the average entry price: the weighted
\* mean when they add to the position, the old average when they reduce it,
\* their own price when they open a position or turn it over.
AvgEntry(inv, side, size, price) ==
    CASE inv.position = 0 -> price
      [] side * inv.position > 0 ->
            Times(Plus(Scaled(Abs(inv.position), inv.avgEntry), Scaled(size, price)),
                  <<1, Abs(inv.position) + size>>)
      [] OTHER -> IF size > Abs(inv.position) THEN price ELSE inv.avgEntry

\* What closing realizes, for the lots that close.
Closed(inv, side, size, price) ==
    IF side * inv.position < 0
    THEN Scaled(-side * Lesser(size, Abs(inv.position)),
                Plus(price, Scaled(-1, inv.avgEntry)))
    ELSE Whole(0)

ApplyFill(inv, side, size, price, rate) ==
    [position |-> inv.position + side * size,
     avgEntry |-> AvgEntry(inv, side, size, price),
     realized |-> Plus(inv.realized, Closed(inv, side, size, price)),
     fees     |-> Plus(inv.fees, Times(Scaled(size, price), rate))]

\* realized_pnl + unrealized_pnl(mid) - fees_paid
TotalPnl(inv, mid) ==
    Plus(Plus(inv.realized, Scaled(-1, inv.fees)),
         Scaled(inv.position, Plus(mid, Scaled(-1, inv.avgEntry))))
-----------------------------------------------------------------------------

NoPositions == [s \in {} |-> Flat]

\* apply_fill: the inventory of a symbol is created when it is first asked for.
PortfolioFill(positions, s, side, size, price, rate) ==
    [x \in DOMAIN positions \cup {s} |->
        LET held == IF x \in DOMAIN positions THEN positions[x] ELSE Flat
        IN  IF x = s THEN ApplyFill(held, side, size, price, rate) ELSE held]

Total(amounts) == FoldFunction(Plus, Whole(0), amounts)

\* total_pnl: a symbol without a mid is left where it was bought.
PortfolioPnl(positions, mids) ==
    LET Price(s) == IF s \in DOMAIN mids THEN mids[s] ELSE positions[s].avgEntry
    IN  Total([s \in DOMAIN positions |-> TotalPnl(positions[s], Price(s))])
=============================================================================
