--------------------------- MODULE MatchingEngine ---------------------------
(***************************************************************************)
(* The pure part of spot trading (backend/src/modules/trading/             *)
(* trading.engine.ts and the arithmetic of trading.types.ts): which fills  *)
(* a taker gets from a resting book sorted by price-time priority, what an *)
(* order must lock, and what fee a fill pays.                              *)
(*                                                                         *)
(* Quantities are integers in base steps, quote amounts integers in the    *)
(* smallest quote unit, and a price is in quote units per QScale base      *)
(* steps: the exact notional of a fill is price * quantity / QScale, and   *)
(* flooring it loses dust whenever QScale does not divide the product.     *)
(***************************************************************************)
EXTENDS Integers, Sequences, SequencesExt

CONSTANT QScale     \* base steps per unit the price is quoted in

ASSUME QScaleAssumption == QScale \in Nat \ {0}

NoPrice == 0        \* the null price of a MARKET order

LeastOf(m, n) == IF m <= n THEN m ELSE n

(* Mutant: the notional of a fill is rounded up.                           *)
quoteFloorRoundedUp(price, quantity) == (price * quantity + QScale - 1) \div QScale

quoteFloor(price, quantity) == (price * quantity) \div QScale

quoteCeil(price, quantity) == (price * quantity + QScale - 1) \div QScale

(* The amount an order reserves: base for SELL, quote for BUY.             *)
computeLockRequirement(order) ==
    CASE order.side = "SELL" -> order.quantity
      [] order.side = "BUY" /\ order.type = "MARKET" -> order.budget
      [] order.side = "BUY" /\ order.type = "LIMIT" ->
            quoteCeil(order.price, order.quantity)

(* A fee on a received amount, floored to the smallest unit.               *)
computeFee(received, bps) == (received * bps) \div 10000

(* Mutant: the comparison of the SELL side is the one of the BUY side.     *)
crossesOneSided(takerSide, takerPrice, makerPrice) == makerPrice <= takerPrice

crosses(takerSide, takerPrice, makerPrice) ==
    IF takerSide = "BUY" THEN makerPrice <= takerPrice
                         ELSE makerPrice >= takerPrice

(* loadRestingBook's price order, strictly ahead: a BUY taker reads asks   *)
(* low to high with null prices last, a SELL taker bids high to low with   *)
(* null prices first (the defaults of Postgres).                           *)
Ahead(takerSide, p, q) ==
    IF takerSide = "BUY"
    THEN p # NoPrice /\ (q = NoPrice \/ p < q)
    ELSE q # NoPrice /\ (p = NoPrice \/ p > q)

BudgetDriven(taker) == taker.type = "MARKET" /\ taker.side = "BUY"

(* Largest base quantity whose notional fits the remaining budget.  A null *)
(* price divides by zero: any quantity is affordable.                      *)
Affordable(budget, maker) ==
    IF maker.price = NoPrice THEN maker.remaining
                             ELSE (budget * QScale) \div maker.price

(* What the loop carries from one resting order to the next.               *)
LoopStart(taker) ==
    [remaining |-> IF BudgetDriven(taker) THEN taker.budget
                                          ELSE taker.quantity,
     fills |-> << >>, filled |-> 0, quote |-> 0, stop |-> FALSE]

(* Mutant: a fill may leave part of a resting order for the next one.      *)
FillQuantityByLots(taker, loop, maker) ==
    IF BudgetDriven(taker)
    THEN LeastOf(maker.remaining, Affordable(loop.remaining, maker))
    ELSE LeastOf(LeastOf(maker.remaining, loop.remaining), 1)

FillQuantity(taker, loop, maker) ==
    IF BudgetDriven(taker)
    THEN LeastOf(maker.remaining, Affordable(loop.remaining, maker))
    ELSE LeastOf(maker.remaining, loop.remaining)

(* Mutant: an equal price does not cross.                                  *)
BreaksAtEqualPrice(taker, loop, maker) ==
    \/ /\ taker.type = "LIMIT"
       /\ ~crosses(taker.side, taker.price, maker.price) \/ taker.price = maker.price
    \/ /\ maker.remaining > 0
       /\ \/ loop.remaining <= 0
          \/ FillQuantity(taker, loop, maker) <= 0
          \/ quoteFloor(maker.price, FillQuantity(taker, loop, maker)) <= 0

(* The loop breaks at this maker: the limit no longer crosses, the taker   *)
(* is spent, or the fill would be worth less than one quote unit.          *)
Breaks(taker, loop, maker) ==
    \/ taker.type = "LIMIT" /\ ~crosses(taker.side, taker.price, maker.price)
    \/ /\ maker.remaining > 0
       /\ \/ loop.remaining <= 0
          \/ FillQuantity(taker, loop, maker) <= 0
          \/ quoteFloor(maker.price, FillQuantity(taker, loop, maker)) <= 0

Fill(taker, loop, maker) ==
    LET qty   == FillQuantity(taker, loop, maker)
        quote == quoteFloor(maker.price, qty)
    IN  [loop EXCEPT
            !.fills = Append(@, [maker |-> maker.id, price |-> maker.price,
                                 quantity |-> qty, quoteAmount |-> quote]),
            !.filled = @ + qty,
            !.quote = @ + quote,
            !.remaining = @ - (IF BudgetDriven(taker) THEN quote ELSE qty)]

LoopBody(taker, loop, maker) ==
    CASE loop.stop -> loop
      [] ~loop.stop /\ Breaks(taker, loop, maker) -> [loop EXCEPT !.stop = TRUE]
      [] ~loop.stop /\ ~Breaks(taker, loop, maker) /\ maker.remaining <= 0 ->
            loop
      [] OTHER -> Fill(taker, loop, maker)

(* The fills of a taker against a book of [id, price, remaining].          *)
matchOrder(taker, book) ==
    LET loop == FoldLeft(LAMBDA l, maker : LoopBody(taker, l, maker),
                         LoopStart(taker), book)
    IN  [fills |-> loop.fills, filledQuantity |-> loop.filled,
         quoteTotal |-> loop.quote]
=============================================================================
