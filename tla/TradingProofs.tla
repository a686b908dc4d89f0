--------------------------- MODULE TradingProofs ---------------------------
(***************************************************************************)
(* Proofs about the matching engine, and about the spot trading built on   *)
(* it: for every number of orders, requests, errors and restarts, every    *)
(* book, price and fee.                                                    *)
(*                                                                         *)
(* The engine: a taker never owes more than it locked, fills respect       *)
(* price-time priority, and nothing the taker could still trade is left    *)
(* behind.  The invariant speaks of the loop between two resting orders:   *)
(* what it has filled accounts for what the taker has used up              *)
(* (TakenAccounted), each fill is of a resting order behind the earlier    *)
(* ones (FillsAreSound), nothing eligible was skipped (NothingSkipped), a  *)
(* partial fill is the last one unless it left dust (PartialFillLast), and *)
(* a loop that has stopped can name the order it stopped at (StoppedAt).   *)
(*                                                                         *)
(* Trading: the market lock excludes, the rows are well formed, and every  *)
(* row of the public tape stands for money that moved between two reserved *)
(* orders within both their limits.  The inductive invariant adds to those *)
(* what the requests under way rely on: who waits in the chain (Queued),   *)
(* what is reserved before an order may trade (Reserved), and what the     *)
(* local state of a matchAndSettle still says about rows that other        *)
(* requests may have changed (PassSound).                                  *)
(*                                                                         *)
(* With one request at a time more can be said: closed orders stay closed  *)
(* (Alone), and trades go by price and time (InOrder).                     *)
(***************************************************************************)
EXTENDS Trading, MatchingRun, LedgerCallsProofs, WellFoundedInduction,
        FiniteSetTheorems, SequenceTheorems

-----------------------------------------------------------------------------
(* Arithmetic and induction.                                               *)

(* Flooring: the quotient is the largest multiple that fits.               *)
LEMMA Floored ==
    ASSUME NEW a \in Nat, NEW b \in Nat \ {0}
    PROVE  /\ a \div b \in Nat
           /\ (a \div b) * b <= a
           /\ a < (a \div b) * b + b
OBVIOUS

LEMMA Scaled ==
    ASSUME NEW a \in Nat, NEW b \in Nat, NEW c \in Nat, a <= b
    PROVE  a * c <= b * c /\ c * a <= c * b
OBVIOUS

LEMMA Unscaled ==
    ASSUME NEW a \in Nat, NEW b \in Nat, NEW c \in Nat \ {0}
    PROVE  /\ a * c <= b * c => a <= b
           /\ a * c < b * c => a < b
OBVIOUS

-----------------------------------------------------------------------------
(* The taker and the book.                                                 *)

LEMMA TakerFacts ==
    ASSUME Parameters, NEW t \in Takers
    PROVE  /\ t.side \in {"BUY", "SELL"} /\ t.type \in {"LIMIT", "MARKET"}
           /\ t.price \in Nat /\ t.quantity \in Nat /\ t.budget \in Nat
           /\ t.type = "LIMIT" => t.price # NoPrice
           /\ BudgetDriven(t) \in BOOLEAN
           /\ BudgetDriven(t) => t.type # "LIMIT" /\ t.side = "BUY"
BY DEF Parameters, Takers, BudgetDriven, NoPrice

(* A book as the loop reads it: a sequence of resting orders, each no      *)
(* better than any before it.                                              *)
RestingRows == [id : Nat, price : Nat, remaining : Nat]

IsBook(side, b) ==
    /\ b \in Seq(RestingRows)
    /\ \A k \in DOMAIN b : b[k].id = k
    /\ \A k \in DOMAIN b : \A j \in 1..(k - 1) :
          ~Ahead(side, b[k].price, b[j].price)

LEMMA BooksAreBooks ==
    ASSUME Parameters, NEW side \in {"BUY", "SELL"}, NEW b \in Books(side)
    PROVE  IsBook(side, b)
<1> DEFINE Priced == [price : 1..MaxPrice, remaining : 0..MaxQuantity]
           Null == IF side = "BUY"
                   THEN [price : {NoPrice}, remaining : 1..MaxQuantity]
                   ELSE [price : {NoPrice}, remaining : {0}]
           Entries == Priced \cup Null
           Of(n) == {[k \in 1..n |-> [id |-> k, price |-> m[k].price,
                                      remaining |-> m[k].remaining]] :
                       m \in {m \in [1..n -> Entries] :
                                \A k \in 1..(n - 1) :
                                   ~Ahead(side, m[k + 1].price, m[k].price)}}
<1>b. Books(side) = UNION {Of(n) : n \in 0..MaxDepth}
  BY DEF Books
<1>c. PICK n \in 0..MaxDepth : b \in Of(n)
  <2> HIDE DEF Of
  <2> QED
    BY <1>b
<1>1. PICK m \in [1..n -> Entries] :
         /\ \A k \in 1..(n - 1) : ~Ahead(side, m[k + 1].price, m[k].price)
         /\ b = [k \in 1..n |-> [id |-> k, price |-> m[k].price,
                                 remaining |-> m[k].remaining]]
  BY <1>c
<1>0. n \in Nat
  BY DEF Parameters
<1>2. \A k \in 1..n : m[k].price \in Nat /\ m[k].remaining \in Nat
  BY DEF Parameters, NoPrice
<1>3. /\ b \in Seq(RestingRows)
      /\ DOMAIN b = 1..n
      /\ \A k \in 1..n : b[k].id = k /\ b[k].price = m[k].price
  <2>1. b \in [1..n -> RestingRows]
    BY <1>0, <1>1, <1>2 DEF RestingRows
  <2> QED
    BY <1>0, <1>1, <2>1
<1>4. \A k \in 1..n : b[k].price \in Nat
  BY <1>2, <1>3
<1> DEFINE S == {k \in Nat : k <= n =>
                    \A j \in 1..(k - 1) : ~Ahead(side, b[k].price, b[j].price)}
<1>5. 0 \in S
  OBVIOUS
<1>6. ASSUME NEW k \in 0..(n - 1), k \in S PROVE k + 1 \in S
  <2>1. ASSUME NEW j \in 1..k PROVE ~Ahead(side, b[k + 1].price, b[j].price)
    <3>1. ~Ahead(side, b[k + 1].price, b[k].price)
      BY <1>0, <1>1, <1>3
    <3>2. j = k \/ ~Ahead(side, b[k].price, b[j].price)
      BY <1>0, <1>6
    <3>3. PICK x \in Nat, y \in Nat, z \in Nat :
             x = b[k + 1].price /\ y = b[k].price /\ z = b[j].price
      <4>1. k + 1 \in 1..n /\ k \in 1..n /\ j \in 1..n
        BY <1>0
      <4>2. b[k + 1].price \in Nat /\ b[k].price \in Nat /\ b[j].price \in Nat
        <5> HIDE DEF S
        <5> QED
          BY <1>4, <4>1
      <4> QED
        BY <4>2
    <3>4. ~Ahead(side, x, y)
      BY <3>1, <3>3
    <3>5. z = y \/ ~Ahead(side, y, z)
      <4>1. CASE j = k
        BY <3>3, <4>1
      <4>2. CASE ~Ahead(side, b[k].price, b[j].price)
        BY <3>3, <4>2
      <4> QED
        BY <3>2, <4>1, <4>2
    <3>6. ~Ahead(side, x, z)
      BY <3>4, <3>5 DEF Ahead, NoPrice
    <3> QED
      BY <3>3, <3>6
  <2> QED
    BY <1>0, <2>1
<1> HIDE DEF S
<1>7. \A k \in 0..n : k \in S
  BY <1>0, <1>5, <1>6, InductionUpTo
<1> QED
  BY <1>0, <1>3, <1>7 DEF S, IsBook

-----------------------------------------------------------------------------
(* One turn of the loop.                                                   *)

Fills == [maker : Nat, price : Nat, quantity : Nat, quoteAmount : Nat]

EngineLoops == [remaining : Nat, fills : Seq(Fills), filled : Nat, quote : Nat,
          stop : BOOLEAN]

(* What a fill takes: something of the resting order and no more than is   *)
(* left of either side, and, if it takes less than the resting order has,  *)
(* what the taker has left buys nothing more at that price.                *)
LEMMA FillTakes ==
    ASSUME Parameters, NEW t \in Takers, NEW l \in EngineLoops,
           NEW m \in RestingRows,
           m.remaining > 0, ~Breaks(t, l, m),
           NEW q, q = FillQuantity(t, l, m), NEW a, a = quoteFloor(m.price, q)
    PROVE  /\ q \in Nat \ {0} /\ a \in Nat \ {0} /\ m.price \in Nat \ {0}
           /\ q <= m.remaining
           /\ a * QScale <= m.price * q
           /\ t.type = "LIMIT" => crosses(t.side, t.price, m.price)
           /\ ~BudgetDriven(t) =>
                 /\ q <= l.remaining
                 /\ q < m.remaining => q = l.remaining
           /\ BudgetDriven(t) =>
                 /\ a <= l.remaining
                 /\ m.price <= l.remaining * QScale
                 /\ q < m.remaining /\ a * QScale = m.price * q =>
                       (l.remaining - a) * QScale < m.price
<1>0. QScale \in Nat \ {0}
  BY QScaleAssumption
<1>1. l.remaining \in Nat /\ m.price \in Nat /\ m.remaining \in Nat
  BY DEF EngineLoops, RestingRows
<1>2. /\ t.type = "LIMIT" => crosses(t.side, t.price, m.price)
      /\ l.remaining > 0 /\ ~(q <= 0) /\ ~(a <= 0)
  BY <1>1 DEF Breaks
<1> DEFINE aff == (l.remaining * QScale) \div m.price
<1>3. l.remaining * QScale \in Nat
  BY <1>0, <1>1
<1>4. m.price # 0 => /\ aff \in Nat
                     /\ aff * m.price <= l.remaining * QScale
                     /\ l.remaining * QScale < aff * m.price + m.price
  BY <1>1, <1>3, Floored
<1>5. /\ ~BudgetDriven(t) => q = LeastOf(m.remaining, l.remaining)
      /\ BudgetDriven(t) /\ m.price # 0 => q = LeastOf(m.remaining, aff)
      /\ BudgetDriven(t) /\ m.price = 0 => q = LeastOf(m.remaining, m.remaining)
  BY DEF FillQuantity, Affordable, NoPrice
<1> HIDE DEF aff
<1>6. q \in Nat \ {0} /\ q <= m.remaining
  BY <1>1, <1>2, <1>4, <1>5 DEF LeastOf
<1>7. m.price * q \in Nat
  BY <1>1, <1>6
<1>8. /\ a \in Nat \ {0} /\ a * QScale <= m.price * q
  BY <1>0, <1>2, <1>7, Floored DEF quoteFloor
<1>9. m.price # 0
  BY <1>0, <1>1, <1>6, <1>8
<1>10. ASSUME ~BudgetDriven(t)
       PROVE q <= l.remaining /\ (q < m.remaining => q = l.remaining)
  BY <1>10, <1>1, <1>5 DEF LeastOf
<1>11. ASSUME BudgetDriven(t)
       PROVE  /\ a <= l.remaining
              /\ m.price <= l.remaining * QScale
              /\ q < m.remaining /\ a * QScale = m.price * q =>
                    (l.remaining - a) * QScale < m.price
  <2>1. q <= aff /\ aff \in Nat /\ (q < m.remaining => q = aff)
    BY <1>11, <1>1, <1>4, <1>5, <1>9 DEF LeastOf
  <2>2. m.price * q <= m.price * aff
    BY <2>1, <1>1, <1>6, Scaled
  <2>3. aff * m.price = m.price * aff
    BY <2>1, <1>1
  <2>4. aff * m.price \in Nat /\ a * QScale \in Nat
    BY <2>1, <1>0, <1>1, <1>8
  <2>5. a * QScale <= l.remaining * QScale
    BY <2>2, <2>3, <2>4, <1>3, <1>4, <1>7, <1>8, <1>9
  <2>6. a <= l.remaining
    BY <2>5, <1>0, <1>1, <1>8, Unscaled
  <2>7. m.price <= m.price * q
    BY <1>1, <1>6
  <2>8. m.price <= l.remaining * QScale
    BY <2>2, <2>3, <2>4, <2>7, <1>1, <1>3, <1>4, <1>7, <1>9
  <2>9. (l.remaining - a) * QScale = l.remaining * QScale - a * QScale
    BY <1>0, <1>1, <1>8
  <2> QED
    BY <2>1, <2>3, <2>4, <2>6, <2>8, <2>9, <1>1, <1>3, <1>4, <1>7, <1>9
<1> QED
  BY <1>1, <1>2, <1>6, <1>8, <1>9, <1>10, <1>11

(* What a turn that fills does to the loop.                                *)
Filled(t, l, m, q, a, n) ==
    /\ n \in EngineLoops
    /\ n.fills = Append(l.fills, [maker |-> m.id, price |-> m.price,
                                  quantity |-> q, quoteAmount |-> a])
    /\ n.filled = l.filled + q
    /\ n.quote = l.quote + a
    /\ n.remaining = l.remaining - (IF BudgetDriven(t) THEN a ELSE q)
    /\ n.stop = FALSE

LEMMA BodyFills ==
    ASSUME Parameters, NEW t \in Takers, NEW l \in EngineLoops, NEW m \in RestingRows,
           ~l.stop, ~Breaks(t, l, m), ~(m.remaining <= 0),
           NEW q, q = FillQuantity(t, l, m), NEW a, a = quoteFloor(m.price, q),
           NEW n, n = LoopBody(t, l, m)
    PROVE  Filled(t, l, m, q, a, n)
<1>1. m.remaining > 0
  BY DEF RestingRows
<1>2. /\ q \in Nat /\ a \in Nat
      /\ ~BudgetDriven(t) => q <= l.remaining
      /\ BudgetDriven(t) => a <= l.remaining
  BY <1>1, FillTakes
<1> DEFINE fs == Append(l.fills, [maker |-> m.id, price |-> m.price,
                                  quantity |-> q, quoteAmount |-> a])
           x == l.filled + q
           y == l.quote + a
           z == l.remaining - (IF BudgetDriven(t) THEN a ELSE q)
<1>3. n = [l EXCEPT !.fills = fs, !.filled = x, !.quote = y, !.remaining = z]
  BY DEF LoopBody, Fill
<1>4. fs \in Seq(Fills)
  BY <1>2 DEF EngineLoops, Fills, RestingRows
<1>5. x \in Nat /\ y \in Nat /\ z \in Nat
  BY <1>2 DEF EngineLoops
<1> HIDE DEF fs, x, y, z
<1>6. /\ n \in EngineLoops /\ n.fills = fs /\ n.filled = x /\ n.quote = y
      /\ n.remaining = z /\ n.stop = l.stop
  BY <1>3, <1>4, <1>5 DEF EngineLoops
<1>7. l.stop = FALSE
  BY DEF EngineLoops
<1> QED
  BY <1>6, <1>7 DEF fs, x, y, z, Filled

(* What one that does not fill does.                                       *)
LEMMA BodyStays ==
    ASSUME Parameters, NEW t \in Takers, NEW l \in EngineLoops, NEW m \in RestingRows,
           l.stop \/ Breaks(t, l, m) \/ m.remaining <= 0,
           NEW n, n = LoopBody(t, l, m)
    PROVE  /\ n \in EngineLoops
           /\ l.stop => n = l
           /\ ~l.stop /\ Breaks(t, l, m) => n = [l EXCEPT !.stop = TRUE]
           /\ ~l.stop /\ ~Breaks(t, l, m) => n = l
<1>1. /\ l.stop => n = l
      /\ ~l.stop /\ Breaks(t, l, m) => n = [l EXCEPT !.stop = TRUE]
      /\ ~l.stop /\ ~Breaks(t, l, m) => n = l
  BY DEF LoopBody
<1> QED
  BY <1>1 DEF EngineLoops

-----------------------------------------------------------------------------
(* The invariants.                                                         *)

Typed ==
    /\ taker \in Takers
    /\ book \in Books(taker.side)
    /\ i \in 1..(Len(book) + 1)
    /\ loop \in EngineLoops

TakenAccounted ==
    /\ ~BudgetDriven(taker) => loop.filled + loop.remaining = taker.quantity
    /\ BudgetDriven(taker) => loop.quote + loop.remaining = taker.budget
    /\ taker.type = "LIMIT" /\ taker.side = "BUY" =>
          loop.quote * QScale <= taker.price * loop.filled

FillsAreSound ==
    /\ \A f \in DOMAIN loop.fills :
          /\ loop.fills[f].maker \in 1..(i - 1)
          /\ loop.fills[f].price = book[loop.fills[f].maker].price
          /\ loop.fills[f].price # 0
          /\ loop.fills[f].quantity \in 1..book[loop.fills[f].maker].remaining
    /\ \A f, g \in DOMAIN loop.fills :
          f < g => loop.fills[f].maker < loop.fills[g].maker

HasFill(j) == \E f \in DOMAIN loop.fills : loop.fills[f].maker = j

NoneSkippedBefore(k) == \A j \in 1..(k - 1) : Eligible(j) => HasFill(j)

NothingSkipped ==
    /\ ~loop.stop => NoneSkippedBefore(i)
    /\ \A f \in DOMAIN loop.fills : NoneSkippedBefore(loop.fills[f].maker)

Partial(f) ==
    /\ loop.fills[f].quantity < book[loop.fills[f].maker].remaining
    /\ BudgetDriven(taker) => Exact(loop.fills[f])

PartialFillLast ==
    \A f \in DOMAIN loop.fills : Partial(f) =>
        /\ f = Len(loop.fills)
        /\ ~BudgetDriven(taker) => loop.remaining = 0
        /\ BudgetDriven(taker) => loop.remaining * QScale < loop.fills[f].price

StoppedAt ==
    loop.stop => \E s \in 1..(i - 1) :
                    /\ Breaks(taker, loop, book[s])
                    /\ NoneSkippedBefore(s) /\ ~HasFill(s)

ObstructedStops == Obstructed => loop.fills = << >> /\ (i > 1 => loop.stop)

EngineInv ==
    /\ Typed
    /\ TakenAccounted
    /\ FillsAreSound
    /\ NothingSkipped
    /\ PartialFillLast
    /\ StoppedAt
    /\ ObstructedStops

LEMMA InitEngineInv == ASSUME Parameters, EngineInit PROVE EngineInv
<1>1. taker \in Takers /\ book \in Books(taker.side) /\ i = 1
      /\ loop = LoopStart(taker)
  BY DEF EngineInit
<1>2. taker.quantity \in Nat /\ taker.budget \in Nat /\ taker.price \in Nat
      /\ taker.side \in {"BUY", "SELL"}
  BY <1>1, TakerFacts
<1>3. IsBook(taker.side, book)
  BY <1>1, <1>2, BooksAreBooks
<1>4. /\ loop \in EngineLoops /\ loop.fills = << >> /\ loop.filled = 0 /\ loop.quote = 0
      /\ loop.stop = FALSE
      /\ loop.remaining = IF BudgetDriven(taker) THEN taker.budget
                                                 ELSE taker.quantity
  BY <1>1, <1>2 DEF LoopStart, EngineLoops
<1>5. Typed
  BY <1>1, <1>3, <1>4 DEF Typed, IsBook
<1>6. TakenAccounted
  BY <1>2, <1>4, QScaleAssumption DEF TakenAccounted
<1>7. FillsAreSound /\ NothingSkipped /\ PartialFillLast
  BY <1>1, <1>4 DEF FillsAreSound, NothingSkipped, NoneSkippedBefore, PartialFillLast
<1>8. StoppedAt /\ ObstructedStops
  BY <1>1, <1>4 DEF StoppedAt, ObstructedStops
<1> QED
  BY <1>5, <1>6, <1>7, <1>8 DEF EngineInv

(* The order the loop looks at, and the shape of the turn it takes.        *)
EngineTurn ==
    /\ i \in 1..Len(book)
    /\ loop' = LoopBody(taker, loop, book[i])
    /\ i' = i + 1
    /\ UNCHANGED <<taker, book>>

LEMMA TurnTyped ==
    ASSUME Parameters, Typed, EngineTurn
    PROVE  /\ Typed'
           /\ book[i] \in RestingRows
           /\ IsBook(taker.side, book)
           /\ DOMAIN book = 1..Len(book) /\ Len(book) \in Nat
           /\ \A k \in DOMAIN book : book[k] \in RestingRows
           /\ loop.fills \in Seq(Fills) /\ DOMAIN loop.fills = 1..Len(loop.fills)
           /\ Len(loop.fills) \in Nat
           /\ taker.price \in Nat /\ taker.quantity \in Nat /\ taker.budget \in Nat
<1>1. taker \in Takers /\ book \in Books(taker.side) /\ loop \in EngineLoops
  BY DEF Typed
<1>2. taker.side \in {"BUY", "SELL"} /\ taker.price \in Nat
      /\ taker.quantity \in Nat /\ taker.budget \in Nat
  BY <1>1, TakerFacts
<1>3. IsBook(taker.side, book)
  BY <1>1, <1>2, BooksAreBooks
<1>4. /\ DOMAIN book = 1..Len(book) /\ Len(book) \in Nat
      /\ \A k \in DOMAIN book : book[k] \in RestingRows
  BY <1>3 DEF IsBook
<1>5. book[i] \in RestingRows
  BY <1>4 DEF EngineTurn
<1>6. loop' \in EngineLoops
  <2> DEFINE m == book[i]
             q == FillQuantity(taker, loop, m)
             a == quoteFloor(m.price, q)
  <2>1. loop' = LoopBody(taker, loop, m) /\ m \in RestingRows
    BY <1>5 DEF EngineTurn
  <2>2. q = FillQuantity(taker, loop, m) /\ a = quoteFloor(m.price, q)
    OBVIOUS
  <2> HIDE DEF m, q, a
  <2>3. CASE loop.stop \/ Breaks(taker, loop, m) \/ m.remaining <= 0
    BY <1>1, <2>1, <2>3, BodyStays
  <2>4. CASE ~(loop.stop \/ Breaks(taker, loop, m) \/ m.remaining <= 0)
    BY <1>1, <2>1, <2>2, <2>4, BodyFills DEF Filled
  <2> QED
    BY <2>3, <2>4
<1>7. Typed'
  <2>1. taker' = taker /\ book' = book /\ i' = i + 1 /\ i \in 1..Len(book)
    BY DEF EngineTurn
  <2>2. taker' \in Takers /\ book' \in Books(taker'.side)
    BY <1>1, <2>1
  <2>3. i' \in 1..(Len(book') + 1)
    BY <1>4, <2>1
  <2> QED
    BY <1>6, <2>2, <2>3 DEF Typed
<1> QED
  BY <1>1, <1>2, <1>3, <1>4, <1>5, <1>7 DEF EngineLoops

(* A turn that leaves the fills and the quantities alone.                  *)
LEMMA TurnWithoutFill ==
    ASSUME Parameters, EngineInv, EngineTurn,
           loop.stop \/ Breaks(taker, loop, book[i]) \/ book[i].remaining <= 0
    PROVE  EngineInv'
<1> DEFINE m == book[i]
<1>1. /\ Typed' /\ m \in RestingRows /\ IsBook(taker.side, book)
      /\ DOMAIN book = 1..Len(book) /\ Len(book) \in Nat
  BY TurnTyped DEF EngineInv
<1>2. /\ i \in 1..Len(book) /\ i' = i + 1 /\ taker' = taker /\ book' = book
      /\ loop' = LoopBody(taker, loop, m)
  BY DEF EngineTurn
<1>3. loop \in EngineLoops /\ taker \in Takers
  BY DEF EngineInv, Typed
<1> HIDE DEF m
<1>4. /\ loop.stop => loop' = loop
      /\ ~loop.stop /\ Breaks(taker, loop, m) => loop' = [loop EXCEPT !.stop = TRUE]
      /\ ~loop.stop /\ ~Breaks(taker, loop, m) => loop' = loop
  <2>1. loop.stop \/ Breaks(taker, loop, m) \/ m.remaining <= 0
    BY DEF m
  <2> QED
    BY <1>1, <1>2, <1>3, <2>1, BodyStays
<1>5. /\ loop'.fills = loop.fills /\ loop'.remaining = loop.remaining
      /\ loop'.filled = loop.filled /\ loop'.quote = loop.quote
      /\ loop'.stop = (loop.stop \/ Breaks(taker, loop, m))
  BY <1>3, <1>4 DEF EngineLoops
<1>6. TakenAccounted'
  BY <1>2, <1>5 DEF EngineInv, TakenAccounted, BudgetDriven
<1>7. FillsAreSound'
  BY <1>1, <1>2, <1>5 DEF EngineInv, FillsAreSound
<1>8. \A j : HasFill(j)' <=> HasFill(j)
  BY <1>5 DEF HasFill
<1>9. \A k : NoneSkippedBefore(k)' <=> NoneSkippedBefore(k)
  BY <1>2, <1>8 DEF NoneSkippedBefore, Eligible
<1>10. NothingSkipped'
  <2>1. ASSUME ~loop'.stop PROVE NoneSkippedBefore(i + 1)
    <3>1. ~loop.stop /\ ~Breaks(taker, loop, m)
      BY <2>1, <1>5
    <3>2. NoneSkippedBefore(i)
      BY <3>1 DEF EngineInv, NothingSkipped
    <3>3. ~Eligible(i)
      BY <3>1, <1>1 DEF Eligible, m, RestingRows
    <3> QED
      BY <3>2, <3>3, <1>1, <1>2 DEF NoneSkippedBefore
  <2>2. \A f \in DOMAIN loop'.fills : NoneSkippedBefore(loop'.fills[f].maker)
    BY <1>5 DEF EngineInv, NothingSkipped
  <2> QED
    BY <2>1, <2>2, <1>2, <1>9 DEF NothingSkipped
<1>11. PartialFillLast'
  BY <1>2, <1>5 DEF EngineInv, PartialFillLast, Partial, BudgetDriven, Exact
<1>12. StoppedAt'
  <2>1. \A k : Breaks(taker, loop, book[k]) => Breaks(taker', loop', book'[k])
    BY <1>2, <1>5 DEF Breaks, FillQuantity, Affordable, BudgetDriven
  <2>2. CASE loop.stop
    <3>1. PICK s \in 1..(i - 1) : /\ Breaks(taker, loop, book[s])
                                  /\ NoneSkippedBefore(s) /\ ~HasFill(s)
      BY <2>2 DEF EngineInv, StoppedAt
    <3>2. /\ s \in 1..(i' - 1) /\ Breaks(taker', loop', book'[s])
          /\ NoneSkippedBefore(s)' /\ ~HasFill(s)'
      BY <3>1, <2>1, <1>1, <1>2, <1>8, <1>9
    <3> QED
      BY <3>2 DEF StoppedAt
  <2>3. CASE ~loop.stop /\ Breaks(taker, loop, m)
    <3>1. NoneSkippedBefore(i)
      BY <2>3 DEF EngineInv, NothingSkipped
    <3>2. PICK s \in 1..Len(book) : s = i
      BY <1>2
    <3>3. s \in 1..(i' - 1)
      BY <3>2, <1>1, <1>2
    <3>4. Breaks(taker', loop', book'[s])
      BY <3>2, <2>1, <2>3 DEF m
    <3>5. NoneSkippedBefore(s)'
      BY <3>1, <3>2, <1>9
    <3>6. ~HasFill(s)
      BY <3>2, <1>1, <1>2 DEF EngineInv, FillsAreSound, HasFill
    <3>7. ~HasFill(s)'
      BY <3>6, <1>8
    <3> QED
      BY <3>3, <3>4, <3>5, <3>7 DEF StoppedAt
  <2> QED
    BY <2>2, <2>3, <1>5 DEF StoppedAt
<1>13. ObstructedStops'
  <2>1. Obstructed' <=> Obstructed
    BY <1>2 DEF Obstructed
  <2>2. ASSUME Obstructed PROVE loop'.fills = << >> /\ loop'.stop
    <3>1. loop.fills = << >> /\ (i > 1 => loop.stop)
      BY <2>2 DEF EngineInv, ObstructedStops
    <3>2. i = 1 => Breaks(taker, loop, m)
      <4>1. taker.price \in Nat /\ taker.price # NoPrice
        BY <1>3, <2>2, TakerFacts DEF Obstructed
      <4> QED
        BY <2>2, <4>1 DEF Obstructed, Breaks, crosses, m, NoPrice
    <3>3. i = 1 \/ i > 1
      BY <1>1, <1>2
    <3> QED
      BY <3>1, <3>2, <3>3, <1>5
  <2> QED
    BY <2>1, <2>2 DEF ObstructedStops
<1> QED
  BY <1>1, <1>6, <1>7, <1>10, <1>11, <1>12, <1>13 DEF EngineInv

(* A turn that fills.                                                      *)
LEMMA TurnWithFill ==
    ASSUME Parameters, EngineInv, EngineTurn,
           ~loop.stop, ~Breaks(taker, loop, book[i]), ~(book[i].remaining <= 0)
    PROVE  EngineInv'
<1> DEFINE m == book[i]
           q == FillQuantity(taker, loop, m)
           a == quoteFloor(m.price, q)
           e == Len(loop.fills) + 1
<1>1. /\ Typed' /\ m \in RestingRows /\ IsBook(taker.side, book)
      /\ DOMAIN book = 1..Len(book) /\ Len(book) \in Nat
      /\ \A k \in DOMAIN book : book[k] \in RestingRows
      /\ loop.fills \in Seq(Fills) /\ DOMAIN loop.fills = 1..Len(loop.fills)
      /\ Len(loop.fills) \in Nat
      /\ taker.price \in Nat /\ taker.quantity \in Nat /\ taker.budget \in Nat
  BY TurnTyped DEF EngineInv
<1>2. /\ i \in 1..Len(book) /\ i' = i + 1 /\ taker' = taker /\ book' = book
      /\ loop' = LoopBody(taker, loop, m)
  BY DEF EngineTurn
<1>3. loop \in EngineLoops /\ taker \in Takers
  BY DEF EngineInv, Typed
<1>4. m.id = i /\ m = book[i] /\ m.price \in Nat /\ m.remaining \in Nat /\ m.id \in Nat
  BY <1>1, <1>2 DEF IsBook, RestingRows
<1>5. q = FillQuantity(taker, loop, m) /\ a = quoteFloor(m.price, q)
  OBVIOUS
<1>6. ~loop.stop /\ ~Breaks(taker, loop, m) /\ ~(m.remaining <= 0) /\ m.remaining > 0
  BY <1>4
<1> HIDE DEF m, q, a
<1>7. /\ loop' \in EngineLoops
      /\ loop'.fills = Append(loop.fills, [maker |-> m.id, price |-> m.price,
                                           quantity |-> q, quoteAmount |-> a])
      /\ loop'.filled = loop.filled + q
      /\ loop'.quote = loop.quote + a
      /\ loop'.remaining = loop.remaining - (IF BudgetDriven(taker) THEN a ELSE q)
      /\ loop'.stop = FALSE
  <2>1. /\ taker \in Takers /\ loop \in EngineLoops /\ m \in RestingRows
        /\ ~loop.stop /\ ~Breaks(taker, loop, m) /\ ~(m.remaining <= 0)
        /\ loop' = LoopBody(taker, loop, m)
    BY <1>1, <1>2, <1>3, <1>6
  <2> HIDE DEF e
  <2>2. PICK x : x = q
    OBVIOUS
  <2>3. PICK y : y = a
    OBVIOUS
  <2>4. x = FillQuantity(taker, loop, m) /\ y = quoteFloor(m.price, x)
    BY <1>5, <2>2, <2>3
  <2>5. Filled(taker, loop, m, x, y, loop')
    BY <2>1, <2>4, BodyFills
  <2> QED
    BY <2>2, <2>3, <2>5 DEF Filled
<1>8. /\ q \in Nat \ {0} /\ a \in Nat \ {0} /\ m.price \in Nat \ {0}
      /\ q <= m.remaining
      /\ a * QScale <= m.price * q
      /\ taker.type = "LIMIT" => crosses(taker.side, taker.price, m.price)
      /\ ~BudgetDriven(taker) =>
            /\ q <= loop.remaining
            /\ q < m.remaining => q = loop.remaining
      /\ BudgetDriven(taker) =>
            /\ a <= loop.remaining
            /\ m.price <= loop.remaining * QScale
            /\ q < m.remaining /\ a * QScale = m.price * q =>
                  (loop.remaining - a) * QScale < m.price
  BY <1>1, <1>3, <1>5, <1>6, FillTakes
<1>9. /\ DOMAIN loop'.fills = 1..e /\ Len(loop'.fills) = e
      /\ \A f \in DOMAIN loop.fills : f \in 1..e /\ f # e /\ loop'.fills[f] = loop.fills[f]
      /\ \A f \in DOMAIN loop'.fills : f = e \/ f \in DOMAIN loop.fills
      /\ loop'.fills[e] = [maker |-> i, price |-> m.price,
                           quantity |-> q, quoteAmount |-> a]
      /\ e \in DOMAIN loop'.fills /\ e \in Nat
  <2> DEFINE x == [maker |-> m.id, price |-> m.price,
                   quantity |-> q, quoteAmount |-> a]
  <2>0. loop'.fills = Append(loop.fills, x)
    BY <1>7
  <2>1. x = [maker |-> i, price |-> m.price, quantity |-> q, quoteAmount |-> a]
    BY <1>4
  <2>2. x \in Fills
    BY <1>4, <1>8 DEF Fills
  <2> HIDE DEF x
  <2> QED
    BY <1>1, <2>0, <2>1, <2>2
<1> HIDE DEF e
<1>10. loop.remaining \in Nat /\ loop.filled \in Nat /\ loop.quote \in Nat
  BY <1>3 DEF EngineLoops
<1>11. \A f \in DOMAIN loop.fills :
          /\ loop.fills[f].maker \in 1..(i - 1)
          /\ loop.fills[f].price = book[loop.fills[f].maker].price
          /\ loop.fills[f].price # 0
          /\ loop.fills[f].quantity \in 1..book[loop.fills[f].maker].remaining
  BY DEF EngineInv, FillsAreSound
<1>12. TakenAccounted'
  <2>1. /\ ~BudgetDriven(taker) => loop'.filled + loop'.remaining = taker.quantity
        /\ BudgetDriven(taker) => loop'.quote + loop'.remaining = taker.budget
    BY <1>1, <1>7, <1>8, <1>10 DEF EngineInv, TakenAccounted
  <2>2. ASSUME taker.type = "LIMIT", taker.side = "BUY"
        PROVE  loop'.quote * QScale <= taker.price * loop'.filled
    <3>1. loop.quote * QScale <= taker.price * loop.filled
      BY <2>2 DEF EngineInv, TakenAccounted
    <3>2. m.price <= taker.price
      BY <2>2, <1>8 DEF crosses
    <3>3. m.price * q <= taker.price * q
      BY <3>2, <1>1, <1>8, Scaled
    <3>4. (loop.quote + a) * QScale = loop.quote * QScale + a * QScale
      BY <1>8, <1>10, QScaleAssumption
    <3>5. taker.price * (loop.filled + q) = taker.price * loop.filled + taker.price * q
      BY <1>1, <1>8, <1>10
    <3>6. /\ loop.quote * QScale \in Nat /\ a * QScale \in Nat /\ m.price * q \in Nat
          /\ taker.price * loop.filled \in Nat /\ taker.price * q \in Nat
      <4>1. QScale \in Nat /\ a \in Nat /\ q \in Nat /\ m.price \in Nat
        BY <1>8, QScaleAssumption
      <4>2. loop.quote \in Nat /\ loop.filled \in Nat /\ taker.price \in Nat
        BY <1>1, <1>10
      <4> QED
        BY <4>1, <4>2
    <3>7. (loop.quote + a) * QScale <= taker.price * (loop.filled + q)
      BY <3>1, <3>3, <3>4, <3>5, <3>6, <1>8
    <3> QED
      BY <3>7, <1>7
  <2> QED
    BY <2>1, <2>2, <1>2 DEF TakenAccounted, BudgetDriven
<1>13. FillsAreSound'
  <2>1. \A f \in DOMAIN loop'.fills :
          /\ loop'.fills[f].maker \in 1..i
          /\ loop'.fills[f].price = book[loop'.fills[f].maker].price
          /\ loop'.fills[f].price # 0
          /\ loop'.fills[f].quantity \in 1..book[loop'.fills[f].maker].remaining
    <3>1. ASSUME NEW f \in DOMAIN loop.fills
          PROVE  /\ loop'.fills[f].maker \in 1..i
                 /\ loop'.fills[f].price = book[loop'.fills[f].maker].price
                 /\ loop'.fills[f].price # 0
                 /\ loop'.fills[f].quantity \in 1..book[loop'.fills[f].maker].remaining
      <4>1. loop'.fills[f] = loop.fills[f]
        BY <1>9
      <4>2. i \in Nat
        BY <1>1, <1>2
      <4>3. loop.fills[f].maker \in 1..(i - 1) => loop.fills[f].maker \in 1..i
        BY <4>2
      <4> QED
        BY <4>1, <4>3, <1>11
    <3>2. /\ loop'.fills[e].maker \in 1..i
          /\ loop'.fills[e].price = book[loop'.fills[e].maker].price
          /\ loop'.fills[e].price # 0
          /\ loop'.fills[e].quantity \in 1..book[loop'.fills[e].maker].remaining
      BY <1>1, <1>2, <1>4, <1>8, <1>9
    <3>3. DOMAIN loop'.fills = DOMAIN loop.fills \cup {e}
      BY <1>9
    <3> QED
      BY <3>1, <3>2, <3>3, SMTT(20)
  <2>2. ASSUME NEW f \in DOMAIN loop'.fills, NEW g \in DOMAIN loop'.fills, f < g
        PROVE  loop'.fills[f].maker < loop'.fills[g].maker
    <3>1. f \in DOMAIN loop.fills
      BY <2>2, <1>1, <1>9
    <3>2. CASE g \in DOMAIN loop.fills
      <4>1. loop.fills[f].maker < loop.fills[g].maker
        BY <2>2, <3>1, <3>2 DEF EngineInv, FillsAreSound
      <4> QED
        BY <3>1, <3>2, <4>1, <1>9
    <3>3. CASE g = e
      <4>1. loop'.fills[f] = loop.fills[f] /\ loop'.fills[g].maker = i
        BY <3>1, <3>3, <1>9
      <4>2. loop.fills[f].maker < i
        BY <3>1, <1>1, <1>2, <1>11
      <4> QED
        BY <4>1, <4>2
    <3> QED
      BY <3>2, <3>3, <1>9
  <2> QED
    BY <2>1, <2>2, <1>1, <1>2 DEF FillsAreSound
<1>14. \A j : HasFill(j) \/ j = i => HasFill(j)'
  BY <1>9 DEF HasFill
<1>15. \A k : NoneSkippedBefore(k) => NoneSkippedBefore(k)'
  BY <1>2, <1>14 DEF NoneSkippedBefore, Eligible
<1>16. NothingSkipped'
  <2>1. PICK k \in 1..Len(book) : k = i
    BY <1>2
  <2>2. NoneSkippedBefore(k)
    BY <2>1, <1>6 DEF EngineInv, NothingSkipped
  <2>3. NoneSkippedBefore(k)'
    BY <2>2, <1>15
  <2>4. NoneSkippedBefore(k + 1)'
    BY <2>1, <2>3, <1>2, <1>14 DEF NoneSkippedBefore
  <2>5. \A f \in DOMAIN loop.fills : NoneSkippedBefore(loop.fills[f].maker)
    BY DEF EngineInv, NothingSkipped
  <2>6. ASSUME NEW f \in DOMAIN loop'.fills, NEW x, x = loop'.fills[f].maker
        PROVE  NoneSkippedBefore(x)'
    <3>1. CASE f = e
      BY <3>1, <2>1, <2>3, <2>6, <1>9
    <3>2. CASE f \in DOMAIN loop.fills
      <4>1. NoneSkippedBefore(x)
        BY <3>2, <2>5, <2>6, <1>9
      <4> QED
        BY <4>1, <1>15
    <3> QED
      BY <3>1, <3>2, <1>9
  <2>7. i' = k + 1
    BY <2>1, <1>2
  <2> QED
    BY <2>4, <2>6, <2>7 DEF NothingSkipped
<1>17. PartialFillLast'
  <2>1. ASSUME NEW f \in DOMAIN loop.fills PROVE ~Partial(f)
    <3> SUFFICES ASSUME Partial(f) PROVE FALSE
      OBVIOUS
    <3>1. /\ ~BudgetDriven(taker) => loop.remaining = 0
          /\ BudgetDriven(taker) => loop.remaining * QScale < loop.fills[f].price
      BY DEF EngineInv, PartialFillLast
    <3>2. BudgetDriven(taker)
      BY <3>1, <1>8
    <3>3. taker.side = "BUY"
      BY <3>2 DEF BudgetDriven
    <3>4. ~Ahead("BUY", m.price, loop.fills[f].price)
      <4>1. PICK k \in DOMAIN book : k = i
        BY <1>1, <1>2
      <4>2. PICK j \in 1..(k - 1) : j = loop.fills[f].maker
        BY <4>1, <1>11
      <4>3. ~Ahead("BUY", book[k].price, book[j].price)
        BY <3>3, <1>1 DEF IsBook
      <4>4. loop.fills[f].price = book[j].price
        BY <4>2, <1>11
      <4> QED
        BY <4>1, <4>3, <4>4, <1>4
    <3>5. loop.fills[f].price \in Nat
      <4>1. loop.fills[f] \in Fills
        BY <1>1
      <4> QED
        BY <4>1 DEF Fills
    <3>6. loop.fills[f].price <= m.price
      BY <3>4, <3>5, <1>8, <1>11 DEF Ahead, NoPrice
    <3>7. loop.remaining * QScale \in Nat
      BY <1>10, QScaleAssumption
    <3> QED
      BY <3>1, <3>2, <3>5, <3>6, <3>7, <1>8
  <2>2. \A f \in DOMAIN loop.fills : Partial(f)' => Partial(f)
    BY <1>2, <1>9 DEF Partial, BudgetDriven, Exact
  <2>3. PICK z \in Nat : z = e
    BY <1>9
  <2>4. ASSUME Partial(z)'
        PROVE  /\ ~BudgetDriven(taker) => loop'.remaining = 0
               /\ BudgetDriven(taker) => loop'.remaining * QScale < m.price
    <3>1. loop'.fills[z].quantity = q /\ loop'.fills[z].maker = i
          /\ loop'.fills[z].quoteAmount = a /\ loop'.fills[z].price = m.price
      BY <2>3, <1>9
    <3>2. q < m.remaining
      BY <2>4, <3>1, <1>2, <1>4 DEF Partial
    <3>3. BudgetDriven(taker) => a * QScale = m.price * q
      BY <2>4, <3>1, <1>2 DEF Partial, Exact, BudgetDriven
    <3> QED
      BY <3>2, <3>3, <1>7, <1>8, <1>10
  <2>5. loop'.fills[z].price = m.price /\ z = Len(loop'.fills)
    BY <2>3, <1>9
  <2>6. \A f \in DOMAIN loop'.fills : Partial(f)' => f = z
    BY <2>1, <2>2, <2>3, <1>9
  <2> QED
    BY <2>4, <2>5, <2>6, <1>2 DEF PartialFillLast, BudgetDriven
<1>18. StoppedAt'
  BY <1>7 DEF StoppedAt
<1>19. ObstructedStops'
  <2>1. Obstructed' <=> Obstructed
    BY <1>2 DEF Obstructed
  <2>2. ASSUME Obstructed PROVE FALSE
    <3>1. i = 1
      <4>1. i > 1 => loop.stop
        BY <2>2 DEF EngineInv, ObstructedStops
      <4> QED
        BY <4>1, <1>1, <1>2, <1>6
    <3> QED
      BY <2>2, <3>1, <1>4, <1>8 DEF Obstructed, NoPrice
  <2> QED
    BY <2>1, <2>2 DEF ObstructedStops
<1> QED
  BY <1>1, <1>12, <1>13, <1>16, <1>17, <1>18, <1>19 DEF EngineInv

LEMMA NextEngineInv == ASSUME Parameters, EngineInv, [EngineNext]_engineVars PROVE EngineInv'
<1>1. CASE UNCHANGED engineVars
  BY <1>1 DEF engineVars, EngineInv, Typed, TakenAccounted, FillsAreSound, NothingSkipped,
      NoneSkippedBefore, HasFill, Eligible, PartialFillLast, Partial, Exact, StoppedAt,
      ObstructedStops, Obstructed, BudgetDriven
<1>2. CASE EngineNext /\ ~UNCHANGED engineVars
  <2>1. i \in 1..(Len(book) + 1)
    BY DEF EngineInv, Typed
  <2>2. i <= Len(book) /\ loop' = LoopBody(taker, loop, book[i])
        /\ i' = i + 1 /\ UNCHANGED <<taker, book>>
    BY <1>2 DEF EngineNext
  <2>3. Len(book) \in Nat
    <3>1. IsBook(taker.side, book)
      BY TakerFacts, BooksAreBooks DEF EngineInv, Typed
    <3> QED
      BY <3>1 DEF IsBook
  <2>4. EngineTurn
    BY <2>1, <2>2, <2>3 DEF EngineTurn
  <2> QED
    BY <2>4, TurnWithoutFill, TurnWithFill
<1> QED
  BY <1>1, <1>2

LEMMA AlwaysEngineInv == ASSUME Parameters PROVE EngineSpec => []EngineInv
<1>1. EngineInit => EngineInv
  BY InitEngineInv
<1>2. EngineInv /\ [EngineNext]_engineVars => EngineInv'
  BY NextEngineInv
<1> QED
  BY <1>1, <1>2, PTL DEF EngineSpec

-----------------------------------------------------------------------------
(* The theorems.                                                           *)

(* computeLockRequirement reserves enough: whatever the scale, the book    *)
(* and the rounding, a taker never owes more than it locked.               *)
THEOREM LockCovers == ASSUME Parameters PROVE EngineSpec => []LockCoversExecution
<1>1. ASSUME EngineInv PROVE LockCoversExecution
  <2>1. loop \in EngineLoops /\ taker \in Takers
    BY <1>1 DEF EngineInv, Typed
  <2>2. /\ taker.side \in {"BUY", "SELL"} /\ taker.type \in {"LIMIT", "MARKET"}
        /\ taker.price \in Nat /\ taker.quantity \in Nat /\ taker.budget \in Nat
    BY <2>1, TakerFacts
  <2>3. loop.remaining \in Nat /\ loop.filled \in Nat /\ loop.quote \in Nat
    BY <2>1 DEF EngineLoops
  <2>4. TakenAccounted
    BY <1>1 DEF EngineInv
  <2>5. CASE taker.side = "SELL"
    BY <2>2, <2>3, <2>4, <2>5 DEF TakenAccounted, BudgetDriven, LockCoversExecution,
        computeLockRequirement
  <2>6. CASE taker.side = "BUY" /\ taker.type = "MARKET"
    BY <2>2, <2>3, <2>4, <2>6 DEF TakenAccounted, BudgetDriven, LockCoversExecution,
        computeLockRequirement
  <2>7. CASE taker.side = "BUY" /\ taker.type = "LIMIT"
    <3> DEFINE x == taker.price * taker.quantity
               c == (x + QScale - 1) \div QScale
    <3>1. loop.filled <= taker.quantity
      BY <2>2, <2>3, <2>4, <2>7 DEF TakenAccounted, BudgetDriven
    <3>2. loop.quote * QScale <= taker.price * loop.filled
      BY <2>4, <2>7 DEF TakenAccounted
    <3>3. taker.price * loop.filled <= x
      BY <2>2, <2>3, <3>1, Scaled
    <3>4. x \in Nat /\ taker.price * loop.filled \in Nat
      BY <2>2, <2>3
    <3>5. QScale \in Nat \ {0} /\ x + QScale - 1 \in Nat
      BY <3>4, QScaleAssumption
    <3> HIDE DEF x
    <3>6. c \in Nat /\ x + QScale - 1 < c * QScale + QScale
      BY <3>5, Floored
    <3> HIDE DEF c
    <3>7. loop.quote * QScale < (c + 1) * QScale
      <4>1. (c + 1) * QScale = c * QScale + QScale
        BY <3>5, <3>6
      <4>2. loop.quote * QScale \in Nat /\ c * QScale \in Nat
        BY <2>3, <3>5, <3>6
      <4> QED
        BY <3>2, <3>3, <3>4, <3>5, <3>6, <4>1, <4>2
    <3>8. loop.quote < c + 1
      BY <2>3, <3>5, <3>6, <3>7, Unscaled
    <3>9. loop.quote <= c
      BY <2>3, <3>6, <3>8
    <3> QED
      BY <2>7, <3>9 DEF LockCoversExecution, computeLockRequirement, quoteCeil, c, x
  <2> QED
    BY <2>2, <2>5, <2>6, <2>7
<1> QED
  BY <1>1, AlwaysEngineInv, PTL

(* A resting order the loop filled was filled once, and FilledOf finds     *)
(* that fill.                                                              *)
LEMMA FilledOfFill ==
    ASSUME Parameters, EngineInv, NEW k \in DOMAIN book
    PROVE  /\ ~HasFill(k) => FilledOf(k) = 0
           /\ \A f \in DOMAIN loop.fills :
                 loop.fills[f].maker = k => FilledOf(k) = loop.fills[f].quantity
<1> DEFINE S == {f \in DOMAIN loop.fills : loop.fills[f].maker = book[k].id}
           It(g) == [s \in SUBSET S |->
                       IF s = {} THEN 0
                       ELSE LET x == CHOOSE x \in s : TRUE
                            IN  loop.fills[x].quantity + g[s \ {x}]]
           iter == CHOOSE g : g = It(g)
<1>0. book[k].id = k
  BY TakerFacts, BooksAreBooks DEF EngineInv, Typed, IsBook
<1>1. FilledOf(k) = iter[S]
  BY DEF FilledOf, MapThenSumSet, MapThenFoldSet
<1>2. ASSUME S = {} PROVE FilledOf(k) = 0
  <2> DEFINE g == [s \in SUBSET {} |-> 0]
  <2>1. g = It(g)
    BY <1>2
  <2>2. iter = It(iter)
    <3> HIDE DEF g, It
    <3> QED
      BY <2>1
  <2>3. It(iter)[{}] = 0
    BY <1>2
  <2> QED
    BY <1>1, <1>2, <2>2, <2>3
<1>3. ASSUME NEW f, S = {f}, loop.fills[f].quantity \in Nat
      PROVE  FilledOf(k) = loop.fills[f].quantity
  <2> DEFINE g == [s \in SUBSET {f} |-> IF s = {} THEN 0 ELSE loop.fills[f].quantity]
  <2>0. \A s \in SUBSET {f} : s # {} => s = {f} /\ (CHOOSE x \in s : TRUE) = f
    OBVIOUS
  <2>1. g = It(g)
    BY <1>3, <2>0
  <2>2. iter = It(iter)
    <3> HIDE DEF g, It
    <3> QED
      BY <2>1
  <2>3. ASSUME NEW h PROVE It(h)[{}] = 0 /\ It(h)[{f}] = loop.fills[f].quantity + h[{}]
    <3>1. {} \in SUBSET S /\ {f} \in SUBSET S /\ {f} # {} /\ {f} \ {f} = {}
      BY <1>3
    <3>2. (CHOOSE x \in {f} : TRUE) = f
      OBVIOUS
    <3> HIDE DEF S
    <3> QED
      BY <3>1, <3>2
  <2> HIDE DEF It, iter
  <2>4. It(iter)[{}] = 0 /\ It(iter)[{f}] = loop.fills[f].quantity + iter[{}]
    BY <2>3
  <2>5. iter[{}] = 0 /\ iter[{f}] = loop.fills[f].quantity + iter[{}]
    BY <2>2, <2>4
  <2> HIDE DEF S
  <2> QED
    BY <1>1, <1>3, <2>5
<1>4. ~HasFill(k) => S = {}
  BY <1>0 DEF HasFill
<1>5. ASSUME NEW f \in DOMAIN loop.fills, loop.fills[f].maker = k
      PROVE  FilledOf(k) = loop.fills[f].quantity
  <2>1. S = {f}
    <3>1. \A g, h \in DOMAIN loop.fills :
             g < h => loop.fills[g].maker < loop.fills[h].maker
      BY DEF EngineInv, FillsAreSound
    <3>2. DOMAIN loop.fills \subseteq Nat
      BY DEF EngineInv, Typed, EngineLoops
    <3>3. \A g \in DOMAIN loop.fills : loop.fills[g].maker \in Nat
      <4>1. \A g \in DOMAIN loop.fills : loop.fills[g] \in Fills
        BY DEF EngineInv, Typed, EngineLoops
      <4> QED
        BY <4>1 DEF Fills
    <3>4. \A g \in DOMAIN loop.fills : loop.fills[g].maker = k => g = f
      BY <1>5, <3>1, <3>2, <3>3
    <3> QED
      BY <1>0, <1>5, <3>4
  <2>2. loop.fills[f] \in Fills
    BY DEF EngineInv, Typed, EngineLoops
  <2> QED
    BY <1>3, <2>1, <2>2 DEF Fills
<1> QED
  BY <1>2, <1>4, <1>5

(* What FilledOf says of a resting order that still has something left,    *)
(* dust aside: it was not filled at all, or its fill is the last one.      *)
LEMMA LeftBehind ==
    ASSUME Parameters, EngineInv, NEW k \in DOMAIN book,
           FilledOf(k) # book[k].remaining, ~LostDust(k)
    PROVE  \/ ~HasFill(k)
           \/ /\ \A f \in DOMAIN loop.fills : loop.fills[f].maker <= k
              /\ ~BudgetDriven(taker) => loop.remaining = 0
              /\ BudgetDriven(taker) => loop.remaining * QScale < book[k].price
<1> SUFFICES ASSUME HasFill(k)
             PROVE  /\ \A f \in DOMAIN loop.fills : loop.fills[f].maker <= k
                    /\ ~BudgetDriven(taker) => loop.remaining = 0
                    /\ BudgetDriven(taker) => loop.remaining * QScale < book[k].price
  OBVIOUS
<1>1. PICK f \in DOMAIN loop.fills : loop.fills[f].maker = k
  BY DEF HasFill
<1>2. book[k].id = k
  BY TakerFacts, BooksAreBooks DEF EngineInv, Typed, IsBook
<1>3. FilledOf(k) = loop.fills[f].quantity
  BY <1>1, FilledOfFill
<1>4. /\ loop.fills[f].quantity \in 1..book[k].remaining
      /\ loop.fills[f].price = book[k].price
      /\ \A g, h \in DOMAIN loop.fills :
            g < h => loop.fills[g].maker < loop.fills[h].maker
  BY <1>1 DEF EngineInv, FillsAreSound
<1>5. book[k].remaining \in Nat
  <2>1. book \in Seq(RestingRows)
    BY TakerFacts, BooksAreBooks DEF EngineInv, Typed, IsBook
  <2>2. book[k] \in RestingRows
    BY <2>1
  <2> QED
    BY <2>2 DEF RestingRows
<1>6. loop.fills[f].quantity < book[k].remaining
  BY <1>3, <1>4, <1>5
<1>7. BudgetDriven(taker) => Exact(loop.fills[f])
  BY <1>1, <1>2 DEF LostDust
<1>8. Partial(f)
  BY <1>1, <1>6, <1>7 DEF Partial
<1>9. /\ f = Len(loop.fills)
      /\ ~BudgetDriven(taker) => loop.remaining = 0
      /\ BudgetDriven(taker) => loop.remaining * QScale < loop.fills[f].price
  BY <1>8 DEF EngineInv, PartialFillLast
<1>10. loop.fills \in Seq(Fills)
  BY DEF EngineInv, Typed, EngineLoops
<1>11. \A g \in DOMAIN loop.fills : loop.fills[g].maker \in Nat
  <2>1. \A g \in DOMAIN loop.fills : loop.fills[g] \in Fills
    BY <1>10
  <2> QED
    BY <2>1 DEF Fills
<1>12. \A g \in DOMAIN loop.fills : g = f \/ g < f
  <2>1. DOMAIN loop.fills = 1..Len(loop.fills) /\ Len(loop.fills) \in Nat
    BY <1>10
  <2> QED
    BY <1>9, <2>1
<1>13. \A g \in DOMAIN loop.fills : loop.fills[g].maker <= k
  BY <1>1, <1>4, <1>11, <1>12
<1> QED
  BY <1>4, <1>9, <1>13

(* Price-time priority: nothing is taken from a resting order while an     *)
(* eligible one ahead of it still has something left, dust aside.          *)
THEOREM PriorityKept == ASSUME Parameters PROVE EngineSpec => []PriceTimePriority
<1>1. ASSUME EngineInv PROVE PriceTimePriority
  <2> SUFFICES ASSUME NEW j \in DOMAIN book, NEW k \in DOMAIN book,
                      j < k, FilledOf(k) > 0, Eligible(j), ~LostDust(j),
                      FilledOf(j) # book[j].remaining
               PROVE  FALSE
    BY DEF PriceTimePriority
  <2>1. HasFill(k)
    BY <1>1, FilledOfFill
  <2>2. PICK f \in DOMAIN loop.fills : loop.fills[f].maker = k
    BY <2>1 DEF HasFill
  <2>3. NoneSkippedBefore(k)
    BY <1>1, <2>2 DEF EngineInv, NothingSkipped
  <2>4. j \in Nat /\ k \in Nat /\ j \in 1..(k - 1)
    BY <1>1, TakerFacts, BooksAreBooks DEF EngineInv, Typed, IsBook
  <2>5. HasFill(j)
    BY <2>3, <2>4 DEF NoneSkippedBefore
  <2>6. \A g \in DOMAIN loop.fills : loop.fills[g].maker <= j
    BY <1>1, <2>5, LeftBehind
  <2> QED
    BY <2>2, <2>4, <2>6
<1> QED
  BY <1>1, AlwaysEngineInv, PTL

(* The notional of nothing.                                                *)
LEMMA NothingIsWorthNothing ==
    ASSUME NEW p \in Nat, NEW q \in Nat, p = 0 \/ q = 0 \/ quoteFloor(p, q) <= 0
    PROVE  quoteFloor(p, q) = 0
<1>1. p * q \in Nat /\ QScale \in Nat \ {0}
  BY QScaleAssumption
<1>2. quoteFloor(p, q) \in Nat /\ quoteFloor(p, q) * QScale <= p * q
  BY <1>1, Floored DEF quoteFloor
<1>3. p = 0 \/ q = 0 => p * q = 0
  OBVIOUS
<1> QED
  BY <1>1, <1>2, <1>3

(* A budget worth less than one step at this price affords nothing.        *)
LEMMA NothingAffordable ==
    ASSUME NEW x \in Nat, NEW m \in RestingRows, x * QScale < m.price
    PROVE  Affordable(x, m) = 0
<1>1. x * QScale \in Nat /\ m.price \in Nat
  BY QScaleAssumption DEF RestingRows
<1>2. m.price \in Nat \ {0}
  BY <1>1
<1> DEFINE a == (x * QScale) \div m.price
<1>3. a \in Nat /\ a * m.price <= x * QScale
  BY <1>1, <1>2, Floored
<1> HIDE DEF a
<1>4. a = 0
  <2> SUFFICES ASSUME a >= 1 PROVE FALSE
    BY <1>3
  <2>1. m.price <= a * m.price
    BY <1>1, <1>3
  <2> QED
    BY <1>1, <1>3, <2>1
<1> QED
  BY <1>2, <1>4 DEF Affordable, NoPrice, a

(* Two numbers and the lesser of them.                                     *)
LEMMA TradableIsNat ==
    ASSUME NEW x \in Nat, NEW y \in Nat
    PROVE  /\ LeastOf(x, y) \in Nat
           /\ y = 0 => LeastOf(x, y) = 0
BY DEF LeastOf

LEMMA MinIsLeast ==
    ASSUME NEW S, S \subseteq Nat, S # {}
    PROVE  Min(S) \in S /\ \A x \in S : Min(S) <= x
<1>1. \E n \in S : \A m \in S : n <= m
  BY LeastNat
<1> QED
  BY <1>1 DEF Min

(* The loop gives what matching should be: when it is done, the best order *)
(* it leaves liquidity in offers the taker less than one quote unit, dust  *)
(* aside; an order without a price ahead of the bids stops a LIMIT SELL    *)
(* before its first fill.                                                  *)
THEOREM MatchingIsComplete == ASSUME Parameters PROVE EngineSpec => []Complete
<1>1. ASSUME EngineInv PROVE Complete
  <2> DEFINE left == {k \in DOMAIN book :
                        Eligible(k) /\ FilledOf(k) < book[k].remaining}
             m == Min(left)
  <2>1. Obstructed => loop.fills = << >>
    BY <1>1 DEF EngineInv, ObstructedStops
  <2> SUFFICES ASSUME Done, ~Obstructed, left # {}, ~LostDust(m)
               PROVE  quoteFloor(book[m].price, Tradable(m)) = 0
    BY <2>1 DEF Complete
  <2>2. /\ IsBook(taker.side, book) /\ taker.side \in {"BUY", "SELL"}
        /\ taker.price \in Nat
    BY <1>1, TakerFacts, BooksAreBooks DEF EngineInv, Typed
  <2>3. /\ DOMAIN book = 1..Len(book) /\ Len(book) \in Nat
        /\ \A k \in DOMAIN book : book[k] \in RestingRows
        /\ \A k \in DOMAIN book : book[k].price \in Nat /\ book[k].remaining \in Nat
    <3>1. \A k \in DOMAIN book : book[k] \in RestingRows
      BY <2>2 DEF IsBook
    <3> QED
      BY <2>2, <3>1 DEF IsBook, RestingRows
  <2>4. left \subseteq Nat
    BY <2>3
  <2> HIDE DEF left
  <2>5. m \in left /\ \A k \in left : m <= k
    BY <2>4, MinIsLeast
  <2> USE DEF left
  <2> HIDE DEF m
  <2>6. /\ m \in DOMAIN book /\ m \in Nat /\ Eligible(m)
        /\ FilledOf(m) < book[m].remaining
    BY <2>4, <2>5
  <2>7. book[m] \in RestingRows /\ book[m].price \in Nat /\ book[m].remaining \in Nat
    BY <2>3, <2>6
  <2>8. loop.remaining \in Nat
    BY <1>1 DEF EngineInv, Typed, EngineLoops
  <2>9. FilledOf(m) \in Nat
    <3>1. ASSUME NEW f \in DOMAIN loop.fills PROVE loop.fills[f].quantity \in Nat
      <4>1. loop.fills[f] \in Fills
        BY <1>1 DEF EngineInv, Typed, EngineLoops
      <4> QED
        BY <4>1 DEF Fills
    <3> QED
      BY <1>1, <2>6, <3>1, FilledOfFill DEF HasFill
  <2>10. book[m].remaining - FilledOf(m) \in Nat
    BY <2>6, <2>7, <2>9
  <2>11. i \in Nat /\ m <= i - 1
    BY <1>1, <2>3, <2>6 DEF Done, EngineInv, Typed
  <2>12. CASE HasFill(m)
    <3>1. /\ ~BudgetDriven(taker) => loop.remaining = 0
          /\ BudgetDriven(taker) => loop.remaining * QScale < book[m].price
      BY <1>1, <2>6, <2>7, <2>9, <2>12, LeftBehind
    <3>2. BudgetDriven(taker) => Affordable(loop.remaining, book[m]) = 0
      BY <3>1, <2>7, <2>8, NothingAffordable
    <3>3. Tradable(m) = 0
      BY <3>1, <3>2, <2>10, TradableIsNat DEF Tradable
    <3> QED
      BY <3>3, <2>7, NothingIsWorthNothing
  <2>13. CASE ~HasFill(m)
    <3>1. loop.stop
      <4> SUFFICES ASSUME ~loop.stop PROVE FALSE
        OBVIOUS
      <4>1. NoneSkippedBefore(i)
        BY <1>1 DEF EngineInv, NothingSkipped
      <4>2. m \in 1..(i - 1)
        BY <2>3, <2>6, <2>11
      <4> QED
        BY <4>1, <4>2, <2>6, <2>13 DEF NoneSkippedBefore
    <3>2. PICK s \in 1..(i - 1) : /\ Breaks(taker, loop, book[s])
                                  /\ NoneSkippedBefore(s) /\ ~HasFill(s)
      BY <1>1, <3>1 DEF EngineInv, StoppedAt
    <3>3. s \in DOMAIN book /\ s \in Nat
      BY <1>1, <2>3 DEF EngineInv, Typed
    <3>4. s <= m
      BY <2>3, <2>6, <2>13, <3>2, <3>3 DEF NoneSkippedBefore
    <3>5. CASE taker.type = "LIMIT" /\ ~crosses(taker.side, taker.price, book[s].price)
      <4>1. crosses(taker.side, taker.price, book[m].price)
        BY <3>5, <2>6 DEF Eligible
      <4>2. s < m
        BY <3>4, <3>5, <4>1, <3>3, <2>6
      <4>3. ~Ahead(taker.side, book[m].price, book[s].price)
        <5>1. s \in 1..(m - 1)
          BY <4>2, <3>3, <2>3, <2>6
        <5> QED
          BY <5>1, <2>2, <2>6 DEF IsBook
      <4>4. book[s].price \in Nat
        BY <2>3, <3>3
      <4>5. CASE taker.side = "BUY"
        <5>1. book[m].price = 0
          BY <3>5, <4>1, <4>3, <4>4, <4>5, <2>2, <2>7 DEF crosses, Ahead, NoPrice
        <5>2. Tradable(m) \in Nat
          BY <5>1, <3>5, <2>8, <2>10, TradableIsNat DEF Tradable, BudgetDriven
        <5> QED
          BY <5>1, <5>2, <2>7, NothingIsWorthNothing
      <4>6. CASE taker.side = "SELL"
        <5>1. book[s].price = NoPrice
          BY <3>5, <4>1, <4>3, <4>4, <4>6, <2>2, <2>7 DEF crosses, Ahead, NoPrice
        <5>2. book[1].price = NoPrice
          <6>1. CASE s = 1
            BY <6>1, <5>1
          <6>2. CASE s # 1
            <7>1. 1 \in 1..(s - 1) /\ 1 \in DOMAIN book
              BY <6>2, <2>3, <3>2, <3>3
            <7>2. ~Ahead("SELL", book[s].price, book[1].price)
              BY <7>1, <3>3, <2>2, <4>6 DEF IsBook
            <7> QED
              BY <7>2, <5>1 DEF Ahead
          <6> QED
            BY <6>1, <6>2
        <5>3. book # << >>
          BY <2>3, <3>3
        <5> QED
          BY <3>5, <4>6, <5>2, <5>3 DEF Obstructed
      <4> QED
        BY <4>5, <4>6, <2>2
    <3>6. CASE /\ ~(taker.type = "LIMIT" /\ ~crosses(taker.side, taker.price, book[s].price))
               /\ book[s].remaining > 0
               /\ \/ loop.remaining <= 0
                  \/ FillQuantity(taker, loop, book[s]) <= 0
                  \/ quoteFloor(book[s].price, FillQuantity(taker, loop, book[s])) <= 0
      <4>1. Eligible(s)
        BY <3>6 DEF Eligible
      <4>2. s = m
        <5>1. FilledOf(s) = 0
          BY <1>1, <3>2, <3>3, FilledOfFill
        <5>2. s \in left
          BY <5>1, <4>1, <3>3, <3>6
        <5> QED
          BY <5>2, <3>3, <3>4, <2>5, <2>6
      <4>3. FilledOf(m) = 0
        BY <1>1, <2>6, <2>13, FilledOfFill
      <4> DEFINE x == IF BudgetDriven(taker) THEN Affordable(loop.remaining, book[m])
                                            ELSE loop.remaining
      <4>4. Tradable(m) = FillQuantity(taker, loop, book[m])
        BY <4>3, <2>7 DEF Tradable, FillQuantity
      <4>5. Tradable(m) = LeastOf(book[m].remaining, x)
        BY <4>4 DEF FillQuantity
      <4>6. x \in Nat
        <5>1. loop.remaining * QScale \in Nat
          BY <2>8, QScaleAssumption
        <5>2. book[m].price # 0 => (loop.remaining * QScale) \div book[m].price \in Nat
          BY <5>1, <2>7, Floored
        <5> QED
          BY <5>2, <2>7, <2>8 DEF Affordable, NoPrice
      <4>7. ASSUME loop.remaining = 0, book[m].price # 0 PROVE x = 0
        <5>1. loop.remaining * QScale < book[m].price
          BY <4>7, <2>7, QScaleAssumption
        <5>2. Affordable(loop.remaining, book[m]) = 0
          BY <5>1, <2>7, <2>8, NothingAffordable
        <5> QED
          BY <4>7, <5>2
      <4> HIDE DEF x
      <4>8. Tradable(m) \in Nat /\ (x = 0 => Tradable(m) = 0)
        BY <4>5, <4>6, <2>7, TradableIsNat
      <4>9. CASE loop.remaining <= 0
        BY <4>7, <4>8, <4>9, <2>7, <2>8, NothingIsWorthNothing
      <4>10. CASE FillQuantity(taker, loop, book[s]) <= 0
        BY <4>2, <4>4, <4>8, <4>10, <2>7, NothingIsWorthNothing
      <4>11. CASE quoteFloor(book[s].price, FillQuantity(taker, loop, book[s])) <= 0
        BY <4>2, <4>4, <4>8, <4>11, <2>7, NothingIsWorthNothing
      <4> QED
        BY <3>6, <4>9, <4>10, <4>11
    <3> QED
      BY <3>2, <3>5, <3>6 DEF Breaks
  <2> QED
    BY <2>12, <2>13
<1> QED
  BY <1>1, AlwaysEngineInv, PTL

(* matchOrder gives what matching should be: price-time priority, and      *)
(* nothing tradable left, dust and orders without a price aside.           *)
THEOREM ReferenceMatched == ASSUME Parameters PROVE EngineSpec => []MatchesReference
<1>1. PriceTimePriority /\ Complete => MatchesReference
  BY DEF MatchesReference
<1> QED BY <1>1, PriorityKept, MatchingIsComplete, PTL

-----------------------------------------------------------------------------
(* Arithmetic and induction.                                               *)

LEMMA DivNat ==
    ASSUME NEW a \in Nat, NEW b \in Nat \ {0}
    PROVE  a \div b \in Nat
OBVIOUS

LEMMA FloorOfNothing ==
    ASSUME NEW p \in Nat, NEW q \in Nat
    PROVE  /\ quoteFloor(p, q) \in Nat
           /\ p = 0 => quoteFloor(p, q) = 0
<1>1. p * q \in Nat /\ QScale \in Nat \ {0}
  BY QScaleAssumption
<1>2. quoteFloor(p, q) \in Nat
  BY <1>1, DivNat DEF quoteFloor
<1>3. 0 \div QScale = 0
  BY <1>1
<1>4. p = 0 => p * q = 0
  OBVIOUS
<1> QED
  BY <1>2, <1>3, <1>4 DEF quoteFloor

-----------------------------------------------------------------------------
(* The matching loop, turn by turn: the fold of matchOrder visits the      *)
(* prefixes of the book.                                                   *)

Turn(order, list, g, s) ==
    IF s = {} THEN LoopStart(order)
              ELSE LoopBody(order, g[s \ {Max(s)}], list[Max(s)])

(* What the loop carries after a set of positions of the book.             *)
Loop(order, list) ==
    CHOOSE g : g = [s \in SUBSET DOMAIN list |-> Turn(order, list, g, s)]

LEMMA MatchIsLoop ==
    ASSUME NEW order, NEW list
    PROVE  matchOrder(order, list) =
              [fills |-> Loop(order, list)[DOMAIN list].fills,
               filledQuantity |-> Loop(order, list)[DOMAIN list].filled,
               quoteTotal |-> Loop(order, list)[DOMAIN list].quote]
BY DEF matchOrder, FoldLeft, MapThenFoldSet, Loop, Turn

LEMMA MaxOfPrefix ==
    ASSUME NEW k \in Nat, NEW s, s \subseteq 1..(k + 1), k + 1 \in s
    PROVE  Max(s) = k + 1
<1>1. /\ k + 1 \in s /\ \A y \in s : k + 1 >= y
      /\ \A x \in s : (\A y \in s : x >= y) => x = k + 1
  OBVIOUS
<1> QED
  BY <1>1 DEF Max

(* The recursive definition of the fold has a solution.                    *)
LEMMA LoopExists ==
    ASSUME NEW order, NEW list, NEW n \in Nat
    PROVE  \E g : g = [s \in SUBSET (1..n) |-> Turn(order, list, g, s)]
<1> DEFINE S == {k \in Nat : \E g : g = [s \in SUBSET (1..k) |-> Turn(order, list, g, s)]}
<1>1. 0 \in S
  <2> DEFINE g == [s \in SUBSET (1..0) |-> LoopStart(order)]
  <2>1. \A s \in SUBSET (1..0) : Turn(order, list, g, s) = LoopStart(order)
    BY DEF Turn
  <2>2. g = [s \in SUBSET (1..0) |-> Turn(order, list, g, s)]
    BY <2>1
  <2> QED
    BY <2>2
<1>2. ASSUME NEW k \in Nat, k \in S PROVE k + 1 \in S
  <2>1. PICK g : g = [s \in SUBSET (1..k) |-> Turn(order, list, g, s)]
    BY <1>2
  <2> DEFINE h == [s \in SUBSET (1..(k + 1)) |->
                      IF s \subseteq 1..k THEN g[s] ELSE Turn(order, list, g, s)]
  <2>2. ASSUME NEW s \in SUBSET (1..(k + 1)) PROVE h[s] = Turn(order, list, h, s)
    <3>1. CASE s = {}
      BY <2>1, <3>1 DEF Turn
    <3>2. CASE s # {} /\ s \subseteq 1..k
      <4>1. g[s] = Turn(order, list, g, s)
        BY <2>1, <3>2
      <4>2. h[s \ {Max(s)}] = g[s \ {Max(s)}] /\ h[s] = g[s]
        BY <3>2
      <4> QED
        BY <4>1, <4>2, <3>2 DEF Turn
    <3>3. CASE ~(s \subseteq 1..k)
      <4>0. k + 1 \in s
        BY <3>3
      <4>1. k + 1 \in s /\ Max(s) = k + 1
        BY <4>0, MaxOfPrefix
      <4>2. h[s \ {Max(s)}] = g[s \ {Max(s)}] /\ h[s] = Turn(order, list, g, s)
        BY <4>1, <3>3
      <4> HIDE DEF h
      <4> QED
        BY <4>1, <4>2 DEF Turn
    <3> QED
      BY <3>1, <3>2, <3>3
  <2>3. h = [s \in SUBSET (1..(k + 1)) |-> Turn(order, list, h, s)]
    BY <2>2
  <2>4. \E f : f = [s \in SUBSET (1..(k + 1)) |-> Turn(order, list, f, s)]
    <3> HIDE DEF h
    <3> QED
      BY <2>3
  <2> QED
    BY <2>4
<1> HIDE DEF S
<1>3. n \in S
  BY <1>1, <1>2, InductionUpTo
<1> QED
  BY <1>3 DEF S

LEMMA LoopUnfolds ==
    ASSUME NEW order, NEW list, NEW n \in Nat, DOMAIN list = 1..n
    PROVE  /\ Loop(order, list)[{}] = LoopStart(order)
           /\ \A k \in 1..n : Loop(order, list)[1..k]
                    = LoopBody(order, Loop(order, list)[1..(k - 1)], list[k])
<1> DEFINE r == Loop(order, list)
<1>1. r = [s \in SUBSET (1..n) |-> Turn(order, list, r, s)]
  BY LoopExists DEF Loop
<1> HIDE DEF r
<1>2. r[{}] = LoopStart(order)
  BY <1>1 DEF Turn
<1>3. ASSUME NEW k \in 1..n PROVE r[1..k] = LoopBody(order, r[1..(k - 1)], list[k])
  <2>1. Max(1..k) = k
    BY DEF Max
  <2>2. (1..k) \ {k} = 1..(k - 1) /\ 1..k # {} /\ 1..k \in SUBSET (1..n)
    OBVIOUS
  <2>3. r[1..k] = Turn(order, list, r, 1..k)
    BY <1>1, <2>2
  <2> QED
    BY <2>1, <2>2, <2>3 DEF Turn
<1> QED
  BY <1>2, <1>3 DEF r

(* A resting order as the loop reads it, a fill, what the loop carries.    *)
Resters == [id : Nat, price : Nat, remaining : Nat]

BookFills == [maker : Nat, price : Nat, quantity : Nat, quoteAmount : Nat]

Loops == [remaining : Int, fills : Seq(BookFills), filled : Nat, quote : Nat,
          stop : BOOLEAN]

(* A fill of resting order m: at its price, which is one, and within the   *)
(* limit of the taker.                                                     *)
FillOf(t, m, f) ==
    /\ f.maker = m.id
    /\ f.price = m.price
    /\ f.price # NoPrice
    /\ t.type = "LIMIT" => crosses(t.side, t.price, f.price)

LEMMA TurnFills ==
    ASSUME NEW t, NEW l \in Loops, NEW m \in Resters, NEW n, n = LoopBody(t, l, m)
    PROVE  /\ n \in Loops
           /\ \/ n.fills = l.fills
              \/ \E f \in BookFills : n.fills = Append(l.fills, f) /\ FillOf(t, m, f)
<1>1. CASE n = l
  BY <1>1
<1>2. CASE n = [l EXCEPT !.stop = TRUE]
  BY <1>2 DEF Loops
<1>3. CASE /\ ~Breaks(t, l, m) /\ ~(m.remaining <= 0)
           /\ n = Fill(t, l, m)
  <2> DEFINE q == FillQuantity(t, l, m)
             a == quoteFloor(m.price, q)
             f == [maker |-> m.id, price |-> m.price, quantity |-> q,
                   quoteAmount |-> a]
             x == l.filled + q
             y == l.quote + a
             z == l.remaining - (IF BudgetDriven(t) THEN a ELSE q)
             fs == Append(l.fills, f)
  <2>1. l.remaining \in Int /\ m.price \in Nat /\ m.remaining \in Nat /\ m.id \in Nat
        /\ l.filled \in Nat /\ l.quote \in Nat /\ l.fills \in Seq(BookFills)
    BY DEF Loops, Resters
  <2>2. /\ t.type = "LIMIT" => crosses(t.side, t.price, m.price)
        /\ l.remaining \in Nat /\ ~(q <= 0) /\ ~(a <= 0)
    BY <1>3, <2>1 DEF Breaks
  <2>3. q \in Nat
    <3>1. l.remaining * QScale \in Nat
      BY <2>2, QScaleAssumption
    <3>2. m.price # 0 => (l.remaining * QScale) \div m.price \in Nat
      BY <2>1, <3>1, DivNat
    <3>3. Affordable(l.remaining, m) \in Nat
      BY <2>1, <3>2 DEF Affordable, NoPrice
    <3> QED
      BY <2>1, <2>2, <3>3 DEF FillQuantity, LeastOf
  <2> HIDE DEF q
  <2>4. a \in Nat /\ m.price # NoPrice
    <3>1. a \in Nat /\ (m.price = 0 => a = 0)
      BY <2>1, <2>3, FloorOfNothing
    <3> HIDE DEF a
    <3> QED
      BY <2>2, <3>1 DEF NoPrice
  <2>5. n = [l EXCEPT !.fills = fs, !.filled = x, !.quote = y, !.remaining = z]
    BY <1>3 DEF Fill, q
  <2> HIDE DEF a
  <2>6. f \in BookFills /\ FillOf(t, m, f)
    BY <2>1, <2>2, <2>3, <2>4 DEF BookFills, FillOf
  <2> HIDE DEF f
  <2>7. fs \in Seq(BookFills) /\ x \in Nat /\ y \in Nat /\ z \in Int
    <3>1. fs \in Seq(BookFills)
      BY <2>1, <2>6
    <3>2. x \in Nat /\ y \in Nat
      BY <2>1, <2>3, <2>4
    <3>3. z \in Int
      BY <2>1, <2>3, <2>4
    <3> QED
      BY <3>1, <3>2, <3>3
  <2>8. fs = Append(l.fills, f)
    OBVIOUS
  <2> HIDE DEF fs, x, y, z
  <2>9. n \in Loops /\ n.fills = fs
    BY <2>5, <2>7 DEF Loops
  <2> QED
    BY <2>6, <2>8, <2>9
<1> QED
  BY <1>1, <1>2, <1>3 DEF LoopBody

(* Every fill of matchOrder is of a resting order of the book.             *)
LEMMA MatchFills ==
    ASSUME NEW t, t.quantity \in Nat, t.budget \in Nat,
           NEW n \in Nat, NEW b \in [1..n -> Resters],
           NEW r, r = matchOrder(t, b)
    PROVE  /\ r.fills \in Seq(BookFills)
           /\ r.filledQuantity \in Nat /\ r.quoteTotal \in Nat
           /\ \A j \in DOMAIN r.fills : \E k \in 1..n : FillOf(t, b[k], r.fills[j])
<1> DEFINE L(k) == Loop(t, b)[1..k]
           Sound(l) == /\ l \in Loops
                       /\ \A j \in DOMAIN l.fills :
                             \E h \in 1..n : FillOf(t, b[h], l.fills[j])
           S == {k \in Nat : k <= n => Sound(L(k))}
<1>1. DOMAIN b = 1..n
  OBVIOUS
<1>2. /\ L(0) = LoopStart(t)
      /\ \A k \in 1..n : L(k) = LoopBody(t, L(k - 1), b[k])
  <2>1. 1..0 = {}
    OBVIOUS
  <2> QED
    BY <1>1, <2>1, LoopUnfolds
<1> HIDE DEF L
<1>3. 0 \in S
  <2>1. PICK z \in Int : z = IF BudgetDriven(t) THEN t.budget ELSE t.quantity
    OBVIOUS
  <2>2. L(0) = [remaining |-> z, fills |-> << >>, filled |-> 0, quote |-> 0,
                stop |-> FALSE]
    BY <1>2, <2>1 DEF LoopStart
  <2>3. << >> \in Seq(BookFills)
    OBVIOUS
  <2>4. /\ [remaining |-> z, fills |-> << >>, filled |-> 0, quote |-> 0,
          stop |-> FALSE] \in Loops
        /\ [remaining |-> z, fills |-> << >>, filled |-> 0, quote |-> 0,
          stop |-> FALSE].fills = << >>
    BY <2>3 DEF Loops
  <2>5. L(0) \in Loops /\ L(0).fills = << >>
    BY <2>2, <2>4
  <2>6. DOMAIN L(0).fills = {}
    BY <2>5
  <2> QED
    BY <2>5, <2>6
<1>4. ASSUME NEW k \in 0..(n - 1), k \in S PROVE k + 1 \in S
  <2> DEFINE l == L(k)
             x == L(k + 1)
             m == b[k + 1]
  <2>1. Sound(l)
    BY <1>4
  <2>2. k + 1 \in 1..n /\ m \in Resters
    BY <1>4
  <2>3. x = LoopBody(t, l, m)
    BY <1>2, <2>2
  <2> HIDE DEF l, x, m
  <2>4. x \in Loops
    BY <2>1, <2>2, <2>3, TurnFills
  <2>5. CASE x.fills = l.fills
    BY <2>1, <2>4, <2>5 DEF x
  <2>6. CASE \E f \in BookFills : x.fills = Append(l.fills, f) /\ FillOf(t, m, f)
    <3>1. PICK f \in BookFills : x.fills = Append(l.fills, f) /\ FillOf(t, m, f)
      BY <2>6
    <3>2. l.fills \in Seq(BookFills)
      BY <2>1 DEF Loops
    <3>3. /\ x.fills[Len(l.fills) + 1] = f
          /\ \A j \in DOMAIN x.fills : j = Len(l.fills) + 1 \/ j \in DOMAIN l.fills
          /\ \A j \in DOMAIN l.fills : x.fills[j] = l.fills[j]
      BY <3>1, <3>2
    <3>4. \A j \in DOMAIN x.fills : \E h \in 1..n : FillOf(t, b[h], x.fills[j])
      BY <2>1, <2>2, <3>1, <3>3 DEF m
    <3> QED
      BY <2>4, <3>4 DEF x
  <2> QED
    BY <2>1, <2>2, <2>3, <2>5, <2>6, TurnFills
<1> HIDE DEF S
<1>5. \A k \in 0..n : k \in S
  BY <1>3, <1>4, InductionUpTo
<1>6. Sound(L(n))
  <2>1. n \in S
    BY <1>5
  <2> QED
    BY <2>1 DEF S
<1>7. r = [fills |-> L(n).fills, filledQuantity |-> L(n).filled,
           quoteTotal |-> L(n).quote]
  BY <1>1, MatchIsLoop DEF L
<1> QED
  BY <1>6, <1>7 DEF Loops

-----------------------------------------------------------------------------
(* The book.                                                               *)

LEMMA RowsTyped ==
    ASSUME orders \in Seq(OrderRows)
    PROVE  /\ Len(orders) \in Nat /\ Orders = 1..Len(orders)
           /\ \A o \in Orders : orders[o] \in OrderRows
           /\ \A o \in Orders :
                 /\ orders[o].price \in Nat /\ orders[o].quantity \in Nat
                 /\ orders[o].budget \in Nat /\ orders[o].locked \in Nat
                 /\ orders[o].filled \in Nat /\ orders[o].spent \in Nat
                 /\ orders[o].user \in Users /\ orders[o].side \in {"BUY", "SELL"}
                 /\ orders[o].type \in {"LIMIT", "MARKET"}
                 /\ orders[o].status \in Statuses
<1>1. Len(orders) \in Nat /\ Orders = 1..Len(orders)
  BY DEF Orders
<1>2. \A o \in Orders : orders[o] \in OrderRows
  BY DEF Orders
<1> QED
  BY <1>1, <1>2 DEF OrderRows

(* The book order is a strict total order of the order table.              *)
LEMMA BeforeIsTotal ==
    ASSUME orders \in Seq(OrderRows), NEW o,
           NEW j \in Orders, NEW k \in Orders, NEW l \in Orders
    PROVE  /\ j # k => Before(o, j, k) \/ Before(o, k, j)
           /\ Before(o, j, k) /\ Before(o, k, l) => Before(o, j, l)
<1>1. /\ j \in Nat /\ k \in Nat /\ l \in Nat
      /\ orders[j].price \in Nat /\ orders[k].price \in Nat /\ orders[l].price \in Nat
  BY RowsTyped
<1>2. PICK p \in Nat, q \in Nat, r \in Nat :
         p = orders[j].price /\ q = orders[k].price /\ r = orders[l].price
  BY <1>1
<1> DEFINE buy == orders[o].side = "BUY"
           A(x, y) == IF buy THEN x # 0 /\ (y = 0 \/ x < y)
                             ELSE y # 0 /\ (x = 0 \/ x > y)
<1>3. /\ Before(o, j, k) <=> A(p, q) \/ (p = q /\ j < k)
      /\ Before(o, k, j) <=> A(q, p) \/ (q = p /\ k < j)
      /\ Before(o, k, l) <=> A(q, r) \/ (q = r /\ k < l)
      /\ Before(o, j, l) <=> A(p, r) \/ (p = r /\ j < l)
  BY <1>2 DEF Before, Ahead, NoPrice
<1> HIDE DEF buy
<1>4. /\ j # k => (A(p, q) \/ (p = q /\ j < k)) \/ (A(q, p) \/ (q = p /\ k < j))
      /\ (A(p, q) \/ (p = q /\ j < k)) /\ (A(q, r) \/ (q = r /\ k < l))
            => A(p, r) \/ (p = r /\ j < l)
  BY <1>1
<1> HIDE DEF A
<1> QED
  BY <1>3, <1>4

Enumerates(o, s, n) == \A j, k \in 1..n : j < k => Before(o, s[j], s[k])

(* A set of orders can be put in book order, by inserting them one by one. *)
LEMMA Insert ==
    ASSUME orders \in Seq(OrderRows), NEW o,
           NEW R, R \subseteq Orders, NEW x \in Orders, x \notin R,
           NEW n \in Nat, NEW s \in [1..n -> R], Enumerates(o, s, n)
    PROVE  \E z \in [1..(n + 1) -> R \cup {x}] : Enumerates(o, z, n + 1)
<1> DEFINE T == {p \in 1..(n + 1) : p = n + 1 \/ Before(o, x, s[p])}
<1>1. n + 1 \in T /\ T \subseteq Nat
  OBVIOUS
<1> HIDE DEF T
<1>2. PICK p \in T : \A q \in T : p <= q
  BY <1>1, LeastNat
<1> USE DEF T
<1> DEFINE z == [j \in 1..(n + 1) |-> IF j < p THEN s[j]
                                      ELSE IF j = p THEN x ELSE s[j - 1]]
<1>3. z \in [1..(n + 1) -> R \cup {x}]
  OBVIOUS
<1>4. \A j \in 1..n : s[j] \in Orders /\ s[j] # x
  OBVIOUS
<1>5. \A j \in 1..n : j < p => Before(o, s[j], x)
  <2> SUFFICES ASSUME NEW j \in 1..n, j < p PROVE Before(o, s[j], x)
    OBVIOUS
  <2>1. j \notin T
    BY <1>2
  <2>2. ~Before(o, x, s[j])
    BY <2>1
  <2> QED
    BY <2>2, <1>4, BeforeIsTotal
<1>6. \A j \in 1..n : p <= j => Before(o, x, s[j])
  <2> SUFFICES ASSUME NEW j \in 1..n, p <= j PROVE Before(o, x, s[j])
    OBVIOUS
  <2>1. p \in 1..n /\ Before(o, x, s[p])
    BY <1>2
  <2>2. j = p \/ Before(o, s[p], s[j])
    BY <2>1 DEF Enumerates
  <2> QED
    BY <2>1, <2>2, <1>4, BeforeIsTotal
<1>7. ASSUME NEW j \in 1..(n + 1), NEW k \in 1..(n + 1), j < k
      PROVE  Before(o, z[j], z[k])
  <2>1. CASE k < p
    BY <2>1, <1>7 DEF Enumerates
  <2>2. CASE k = p
    <3>1. j \in 1..n /\ z[j] = s[j] /\ z[k] = x
      BY <2>2, <1>7
    <3> QED
      BY <3>1, <2>2, <1>5, <1>7
  <2>3. CASE k > p
    <3>1. k - 1 \in 1..n /\ z[k] = s[k - 1] /\ p <= k - 1
      BY <2>3, <1>7
    <3>2. CASE j < p
      <4>1. j \in 1..n /\ z[j] = s[j] /\ j < k - 1
        BY <3>2, <2>3, <1>7
      <4> QED
        BY <3>1, <4>1 DEF Enumerates
    <3>3. CASE j = p
      <4>1. z[j] = x
        BY <3>3
      <4> QED
        BY <3>1, <4>1, <1>6
    <3>4. CASE j > p
      <4>1. j - 1 \in 1..n /\ z[j] = s[j - 1] /\ j - 1 < k - 1
        BY <3>4, <1>7
      <4> QED
        BY <3>1, <4>1 DEF Enumerates
    <3> QED
      BY <3>2, <3>3, <3>4
  <2> QED
    BY <2>1, <2>2, <2>3
<1> HIDE DEF z
<1> QED
  BY <1>3, <1>7 DEF Enumerates

Sortable(o, R) ==
    /\ IsFiniteSet(R) /\ Cardinality(R) \in Nat
    /\ \E s \in [1..Cardinality(R) -> R] : Enumerates(o, s, Cardinality(R))

LEMMA SortableBy ==
    ASSUME NEW o, NEW R, IsFiniteSet(R), NEW n \in Nat, n = Cardinality(R),
           NEW s \in [1..n -> R], Enumerates(o, s, n)
    PROVE  Sortable(o, R)
BY DEF Sortable

LEMMA SortedExists ==
    ASSUME orders \in Seq(OrderRows), NEW o, NEW R, R \subseteq Orders
    PROVE  Sortable(o, R)
<1> DEFINE N == Len(orders)
           U(k) == R \cap 1..k
           S == {k \in Nat : k <= N => Sortable(o, U(k))}
<1>1. N \in Nat /\ Orders = 1..N
  BY RowsTyped
<1> HIDE DEF N
<1>2. 0 \in S
  <2>0. PICK n \in Nat : n = 0
    OBVIOUS
  <2> DEFINE s == [j \in 1..n |-> j]
  <2>1. PICK E : E = {}
    OBVIOUS
  <2>2. IsFiniteSet(E) /\ n = Cardinality(E)
    BY <2>0, <2>1, FS_EmptySet
  <2>3. s \in [1..n -> E]
    BY <2>0, <2>1
  <2>4. Enumerates(o, s, n)
    BY <2>0 DEF Enumerates
  <2> HIDE DEF s
  <2>5. Sortable(o, E)
    BY <2>2, <2>3, <2>4, SortableBy
  <2>6. U(0) = E
    BY <2>1
  <2> HIDE DEF U
  <2> QED
    BY <2>5, <2>6
<1>3. ASSUME NEW k \in 0..(N - 1), k \in S PROVE k + 1 \in S
  <2>1. Sortable(o, U(k))
    BY <1>1, <1>3
  <2>2. CASE k + 1 \notin R
    <3>1. U(k + 1) = U(k)
      BY <2>2, <1>1
    <3> HIDE DEF U
    <3> QED
      BY <3>1, <2>1, <1>1
  <2>3. CASE k + 1 \in R
    <3> DEFINE V == U(k)
               W == U(k + 1)
               c == Cardinality(V)
    <3>1. W = V \cup {k + 1} /\ k + 1 \notin V /\ k + 1 \in Orders /\ V \subseteq Orders
      BY <2>3, <1>1
    <3>2. Sortable(o, V)
      BY <2>1
    <3> HIDE DEF V, W
    <3>3. PICK s \in [1..c -> V] : Enumerates(o, s, c)
      BY <3>2 DEF Sortable
    <3>4. c \in Nat /\ IsFiniteSet(V)
      BY <3>2 DEF Sortable
    <3>5. IsFiniteSet(W) /\ Cardinality(W) = c + 1
      BY <3>1, <3>4, FS_AddElement
    <3> HIDE DEF c
    <3>6. PICK z \in [1..(c + 1) -> V \cup {k + 1}] : Enumerates(o, z, c + 1)
      BY <3>1, <3>3, <3>4, Insert
    <3>7. Sortable(o, W)
      BY <3>1, <3>4, <3>5, <3>6, SortableBy
    <3> QED
      BY <3>7, <1>1 DEF W
  <2> QED
    BY <2>2, <2>3
<1>4. \A k \in 0..N : k \in S
  <2> HIDE DEF S
  <2> QED
    BY <1>1, <1>2, <1>3, InductionUpTo
<1>5. Sortable(o, U(N))
  <2>1. N \in S
    BY <1>1, <1>4
  <2> QED
    BY <2>1, <1>1
<1>6. U(N) = R
  BY <1>1
<1> HIDE DEF U
<1> QED
  BY <1>5, <1>6

LEMMA Prefix ==
    ASSUME NEW S, NEW n \in Nat, NEW s \in [1..n -> S], NEW x \in Nat, x <= n
    PROVE  /\ SubSeq(s, 1, x) \in [1..x -> S]
           /\ \A h \in 1..x : SubSeq(s, 1, x)[h] = s[h]
<1>1. s \in Seq(S) /\ Len(s) = n
  OBVIOUS
<1>2. /\ Len(SubSeq(s, 1, x)) = x /\ DOMAIN SubSeq(s, 1, x) = 1..x
      /\ \A h \in 1..x : SubSeq(s, 1, x)[h] = s[h]
  BY <1>1
<1>3. SubSeq(s, 1, x) \in Seq(S)
  BY <1>1
<1>4. PICK z \in Seq(S) : z = SubSeq(s, 1, x)
  BY <1>3
<1>5. z \in [1..Len(z) -> S]
  BY LenProperties
<1> QED
  BY <1>2, <1>4, <1>5

LEMMA RestingBook ==
    ASSUME orders \in Seq(OrderRows), NEW o \in Orders,
           NEW b, b = loadRestingBook(o)
    PROVE  \E n \in Nat : b \in [1..n -> Resting(o)] /\ Enumerates(o, b, n)
<1> DEFINE c == Cardinality(Resting(o))
           s == CHOOSE s \in [1..c -> Resting(o)] :
                   \A j, k \in 1..c : j < k => Before(o, s[j], s[k])
           x == LeastOf(c, BookScanLimit)
<1>1. Resting(o) \subseteq Orders
  BY DEF Resting
<1>2. Sortable(o, Resting(o))
  BY <1>1, SortedExists
<1>3. c \in Nat /\ s \in [1..c -> Resting(o)] /\ Enumerates(o, s, c)
  BY <1>2 DEF Sortable, Enumerates
<1>4. b = SubSeq(s, 1, x)
  BY DEF loadRestingBook
<1>5. x \in Nat /\ x <= c
  BY <1>3, NumbersAssumption DEF LeastOf
<1> HIDE DEF c, s, x
<1>6. b \in [1..x -> Resting(o)] /\ \A h \in 1..x : b[h] = s[h]
  BY <1>3, <1>4, <1>5, Prefix
<1>7. Enumerates(o, b, x)
  BY <1>3, <1>5, <1>6 DEF Enumerates
<1> QED
  BY <1>5, <1>6, <1>7

(* The book handed to matchOrder: the rows of resting orders.              *)
LEMMA BookTyped ==
    ASSUME orders \in Seq(OrderRows), NEW o \in Orders,
           \A m \in Orders : FilledRowAllowed(m, orders[m].filled)
    PROVE  \E n \in Nat :
              /\ BookOf(o) \in [1..n -> Resters]
              /\ \A k \in 1..n : /\ BookOf(o)[k].id \in Resting(o)
                                 /\ BookOf(o)[k].price = orders[BookOf(o)[k].id].price
<1> DEFINE b == loadRestingBook(o)
           Row(m) == [id |-> m, price |-> orders[m].price,
                      remaining |-> IF BudgetDriven(orders[m]) THEN 0 ELSE Remaining(m)]
<1>1. PICK n \in Nat : b \in [1..n -> Resting(o)]
  BY RestingBook
<1>2. BookOf(o) = [k \in DOMAIN b |-> Row(b[k])]
  BY DEF BookOf
<1> HIDE DEF b
<1>3. ASSUME NEW m \in Resting(o) PROVE Row(m) \in Resters
  <2>1. m \in Orders /\ m \in Nat /\ orders[m].price \in Nat
        /\ orders[m].quantity \in Nat /\ orders[m].filled \in Nat
    BY RowsTyped DEF Resting
  <2>2. BudgetDriven(orders[m]) \/ orders[m].filled <= orders[m].quantity
    BY <2>1 DEF FilledRowAllowed
  <2> DEFINE r == IF BudgetDriven(orders[m]) THEN 0 ELSE Remaining(m)
  <2>3. r \in Nat
    BY <2>1, <2>2 DEF Remaining
  <2> HIDE DEF r
  <2>4. [id |-> m, price |-> orders[m].price, remaining |-> r] \in Resters
    BY <2>1, <2>3 DEF Resters
  <2> QED
    BY <2>4 DEF r
<1>4. \A m \in Resting(o) : Row(m).id = m /\ Row(m).price = orders[m].price
  OBVIOUS
<1>5. BookOf(o) \in [1..n -> Resters]
  <2> HIDE DEF Row
  <2> QED
    BY <1>1, <1>2, <1>3
<1>6. ASSUME NEW k \in 1..n
      PROVE  /\ BookOf(o)[k].id \in Resting(o)
             /\ BookOf(o)[k].price = orders[BookOf(o)[k].id].price
  <2>1. BookOf(o)[k] = Row(b[k]) /\ b[k] \in Resting(o)
    BY <1>1, <1>2
  <2> HIDE DEF Row
  <2> QED
    BY <2>1, <1>4
<1> QED
  BY <1>5, <1>6

-----------------------------------------------------------------------------
(* The inductive invariant.                                                *)

(* Whoever is in the chain waits there or runs.                            *)
Queued ==
    \A k \in DOMAIN queue :
        /\ queue[k].kind = "place" =>
              place[queue[k].order] \in InPass \cup {"waiting"}
        /\ queue[k].kind = "cancel" =>
              cancel[queue[k].order] \in InCancel \cup {"waiting"}

(* An order that may trade has been reserved for.                          *)
LockTaken == InPass \cup {"open", "enqueue", "waiting"}

Reserved ==
    \A o \in Orders :
        place[o] \in LockTaken \/ orders[o].status \in Open => LockRef(o) \in posted

(* What a fill found by MatchOrder goes on saying about the rows, whatever *)
(* is written to them before it is settled.                                *)
FillSound(o, f) ==
    /\ LockRef(f.maker) \in posted
    /\ orders[o].user # orders[f.maker].user
    /\ orders[o].side # orders[f.maker].side
    /\ orders[f.maker].type = "LIMIT"
    /\ f.price = orders[f.maker].price
    /\ orders[o].type = "LIMIT" => crosses(orders[o].side, orders[o].price, f.price)

PassSound ==
    \A o \in Orders : place[o] \in InPass =>
        /\ \A k \in DOMAIN pass.fills : FillSound(o, pass.fills[k])
        /\ place[o] \in {"settle", "trade", "maker", "makerRelease"} =>
              pass.next \in DOMAIN pass.fills
        /\ place[o] = "trade" => TradeRef(o, CurrentFill.maker) \in posted

PricesKept ==
    \A o \in Orders : orders[o].type = "LIMIT" <=> orders[o].price # NoPrice

Chain == MarketLockExclusive /\ Queued

Tape == TradesAreSettled /\ TradesWithinLimits

IInv == TypeOK /\ Chain /\ Reserved /\ PassSound /\ PricesKept /\ Tape

Tasks == [kind : {"place", "cancel"}, order : Orders]

-----------------------------------------------------------------------------
(* The chain of requests.                                                  *)

LEMMA QueueFacts ==
    ASSUME TypeOK
    PROVE  /\ queue \in Seq(Tasks) /\ Len(queue) \in Nat
           /\ DOMAIN queue = 1..Len(queue)
           /\ \A k \in DOMAIN queue :
                 /\ queue[k].kind \in {"place", "cancel"} /\ queue[k].order \in Orders
                 /\ queue[k] = Task(queue[k].kind, queue[k].order)
           /\ \A kind, o : Holds(kind, o) =>
                 /\ queue # << >> /\ 1 \in DOMAIN queue /\ queue[1] = Task(kind, o)
                 /\ queue[1].kind = kind /\ queue[1].order = o
           /\ DOMAIN place = Orders /\ DOMAIN cancel = Orders
<1>1. queue \in Seq(Tasks)
  BY DEF TypeOK, Tasks
<1>2. Len(queue) \in Nat /\ DOMAIN queue = 1..Len(queue)
  BY <1>1
<1>3. ASSUME NEW k \in DOMAIN queue
      PROVE  /\ queue[k].kind \in {"place", "cancel"} /\ queue[k].order \in Orders
             /\ queue[k] = Task(queue[k].kind, queue[k].order)
  <2>1. queue[k] \in Tasks
    BY <1>1, <1>3
  <2> QED
    BY <2>1 DEF Tasks, Task
<1>4. ASSUME NEW kind, NEW o, Holds(kind, o)
      PROVE  /\ queue # << >> /\ 1 \in DOMAIN queue /\ queue[1] = Task(kind, o)
             /\ queue[1].kind = kind /\ queue[1].order = o
  <2>1. queue # << >> /\ Head(queue) = Task(kind, o)
    BY <1>4 DEF Holds
  <2>2. 1 \in DOMAIN queue /\ Head(queue) = queue[1]
    BY <1>1, <2>1
  <2> QED
    BY <2>1, <2>2 DEF Task
<1> QED
  BY <1>1, <1>2, <1>3, <1>4 DEF TypeOK

(* The chain has one head.                                                 *)
LEMMA OneHolder ==
    ASSUME NEW kind, NEW o, Holds(kind, o), NEW other, NEW x, Holds(other, x)
    PROVE  other = kind /\ x = o
<1>1. Task(kind, o) = Task(other, x)
  BY DEF Holds
<1>2. Task(kind, o).kind = Task(other, x).kind /\ Task(kind, o).order = Task(other, x).order
  BY <1>1
<1> QED
  BY <1>2 DEF Task

(* The effect of Tail and of Append on the entries of the chain.           *)
LEMMA TailEntries ==
    ASSUME TypeOK, queue # << >>, queue' = Tail(queue)
    PROVE  \A k \in DOMAIN queue' : k + 1 \in DOMAIN queue /\ k + 1 # 1
                                       /\ queue'[k] = queue[k + 1] /\ k \in Nat
<1>1. queue \in Seq(Tasks)
  BY QueueFacts
<1> QED
  BY <1>1

LEMMA AppendEntries ==
    ASSUME TypeOK, NEW t, queue' = Append(queue, t)
    PROVE  /\ \A k \in DOMAIN queue' :
                 \/ k \in DOMAIN queue /\ queue'[k] = queue[k]
                 \/ k = Len(queue) + 1 /\ queue'[k] = t
           /\ queue # << >> => queue' # << >> /\ Head(queue') = Head(queue)
           /\ queue = << >> => queue' # << >> /\ Head(queue') = t
<1>1. queue \in Seq(Tasks)
  BY QueueFacts
<1> QED
  BY <1>1

(* A request under way takes a step that leaves the chain alone.           *)
LEMMA PlaceMoves ==
    ASSUME TypeOK, Chain, NEW o \in Orders, NEW pc, Orders' = Orders,
           queue' = queue, cancel' = cancel, place' = [place EXCEPT ![o] = pc],
           \/ Holds("place", o) /\ pc \in InPass
           \/ place[o] \notin InPass \cup {"waiting"} /\ pc \notin InPass
    PROVE  Chain'
<1>1. /\ place'[o] = pc /\ \A x \in Orders : x # o => place'[x] = place[x]
  BY QueueFacts
<1>2. \A kind, x : Holds(kind, x)' <=> Holds(kind, x)
  BY DEF Holds
<1>3. MarketLockExclusive'
  <2>1. \A x \in Orders : place'[x] \in InPass => Holds("place", x)
    BY <1>1 DEF Chain, MarketLockExclusive
  <2>2. \A x \in Orders : cancel'[x] \in InCancel => Holds("cancel", x)
    BY DEF Chain, MarketLockExclusive
  <2> QED
    BY <2>1, <2>2, <1>2 DEF Chain, MarketLockExclusive
<1>4. Queued'
  <2> SUFFICES ASSUME NEW k \in DOMAIN queue
               PROVE  /\ queue[k].kind = "place" =>
                            place'[queue[k].order] \in InPass \cup {"waiting"}
                      /\ queue[k].kind = "cancel" =>
                            cancel'[queue[k].order] \in InCancel \cup {"waiting"}
    BY DEF Queued
  <2>1. queue[k].order \in Orders
    BY QueueFacts
  <2> QED
    BY <2>1, <1>1 DEF Chain, Queued
<1> QED
  BY <1>3, <1>4 DEF Chain

(* It joins the chain ...                                                  *)
LEMMA PlaceJoins ==
    ASSUME TypeOK, Chain, NEW o \in Orders, Orders' = Orders,
           place[o] \notin InPass \cup {"waiting"}, cancel' = cancel,
           queue' = Append(queue, Task("place", o)),
           place' = [place EXCEPT ![o] = "waiting"]
    PROVE  Chain'
<1>1. /\ place'[o] = "waiting" /\ \A x \in Orders : x # o => place'[x] = place[x]
  BY QueueFacts
<1>2. \A kind, x : Holds(kind, x) => Holds(kind, x)'
  BY AppendEntries DEF Holds
<1>3. \A k \in DOMAIN queue' :
         \/ k \in DOMAIN queue /\ queue'[k] = queue[k]
         \/ k = Len(queue) + 1 /\ queue'[k] = Task("place", o)
  BY AppendEntries
<1>4. \A k \in DOMAIN queue : queue[k] # Task("place", o)
  BY QueueFacts DEF Chain, Queued, Task
<1>5. \A x \in Orders : place'[x] \in InPass => Holds("place", x)'
  BY <1>1, <1>2 DEF Chain, MarketLockExclusive, InPass
<1>6. \A x \in Orders : cancel'[x] \in InCancel => Holds("cancel", x)'
  BY <1>2 DEF Chain, MarketLockExclusive
<1>7. \A j, k \in DOMAIN queue' : queue'[j] = queue'[k] => j = k
  BY <1>3, <1>4 DEF Chain, MarketLockExclusive
<1>8. Queued'
  <2> SUFFICES ASSUME NEW k \in DOMAIN queue'
               PROVE  /\ queue'[k].kind = "place" =>
                            place'[queue'[k].order] \in InPass \cup {"waiting"}
                      /\ queue'[k].kind = "cancel" =>
                            cancel'[queue'[k].order] \in InCancel \cup {"waiting"}
    BY DEF Queued
  <2>1. CASE k \in DOMAIN queue /\ queue'[k] = queue[k]
    <3>1. queue[k].order \in Orders
      BY <2>1, QueueFacts
    <3> QED
      BY <2>1, <3>1, <1>1 DEF Chain, Queued
  <2>2. CASE queue'[k] = Task("place", o)
    BY <2>2, <1>1 DEF Task
  <2> QED
    BY <2>1, <2>2, <1>3
<1> QED
  BY <1>5, <1>6, <1>7, <1>8 DEF Chain, MarketLockExclusive

(* ... and leaves it at the end, when it alone was past its wait.                                           *)
LEMMA PlaceEnds ==
    ASSUME TypeOK, Chain, NEW o \in Orders, NEW pc, Orders' = Orders,
           Holds("place", o), pc \notin InPass, cancel' = cancel,
           queue' = Tail(queue), place' = [place EXCEPT ![o] = pc]
    PROVE  Chain' /\ \A x \in Orders : place'[x] \notin InPass
<1>1. /\ place'[o] = pc /\ \A x \in Orders : x # o => place'[x] = place[x]
  BY QueueFacts
<1>2. queue # << >> /\ 1 \in DOMAIN queue /\ queue[1] = Task("place", o)
  BY QueueFacts
<1>3. \A x \in Orders : place[x] \in InPass => x = o
  BY OneHolder DEF Chain, MarketLockExclusive
<1>4. \A x \in Orders : cancel[x] \notin InCancel
  BY OneHolder DEF Chain, MarketLockExclusive
<1>5. \A k \in DOMAIN queue' : k + 1 \in DOMAIN queue /\ k + 1 # 1
                                  /\ queue'[k] = queue[k + 1] /\ k \in Nat
  BY <1>2, TailEntries
<1>6. \A x \in Orders : place'[x] \notin InPass
  BY <1>1, <1>3
<1>7. \A j, k \in DOMAIN queue' : queue'[j] = queue'[k] => j = k
  <2> SUFFICES ASSUME NEW j \in DOMAIN queue', NEW k \in DOMAIN queue',
                      queue'[j] = queue'[k]
               PROVE  j = k
    OBVIOUS
  <2>1. j + 1 = k + 1
    BY <1>5 DEF Chain, MarketLockExclusive
  <2> QED
    BY <2>1, <1>5
<1>8. Queued'
  <2> SUFFICES ASSUME NEW k \in DOMAIN queue'
               PROVE  /\ queue'[k].kind = "place" =>
                            place'[queue'[k].order] \in InPass \cup {"waiting"}
                      /\ queue'[k].kind = "cancel" =>
                            cancel'[queue'[k].order] \in InCancel \cup {"waiting"}
    BY DEF Queued
  <2>1. k + 1 \in DOMAIN queue /\ k + 1 # 1 /\ queue'[k] = queue[k + 1]
    BY <1>5
  <2>2. queue[k + 1] # Task("place", o)
    BY <2>1, <1>2 DEF Chain, MarketLockExclusive
  <2>3. /\ queue[k + 1].order \in Orders
        /\ queue[k + 1] = Task(queue[k + 1].kind, queue[k + 1].order)
    BY <2>1, QueueFacts
  <2>4. queue[k + 1].kind = "place" => queue[k + 1].order # o
    BY <2>2, <2>3
  <2> QED
    BY <2>1, <2>3, <2>4, <1>1 DEF Chain, Queued
<1> QED
  BY <1>4, <1>6, <1>7, <1>8 DEF Chain, MarketLockExclusive

(* A cancellation that runs gets to its next step ...                      *)
LEMMA CancelMoves ==
    ASSUME TypeOK, Chain, NEW o \in Orders, Holds("cancel", o),
           NEW pc \in InCancel, Orders' = Orders, queue' = queue, place' = place,
           cancel' = [cancel EXCEPT ![o] = pc]
    PROVE  Chain'
<1>1. /\ cancel'[o] = pc /\ \A x \in Orders : x # o => cancel'[x] = cancel[x]
  BY QueueFacts
<1>2. \A kind, x : Holds(kind, x)' <=> Holds(kind, x)
  BY DEF Holds
<1>3. MarketLockExclusive'
  BY <1>1, <1>2 DEF Chain, MarketLockExclusive
<1>4. Queued'
  <2> SUFFICES ASSUME NEW k \in DOMAIN queue
               PROVE  /\ queue[k].kind = "place" =>
                            place'[queue[k].order] \in InPass \cup {"waiting"}
                      /\ queue[k].kind = "cancel" =>
                            cancel'[queue[k].order] \in InCancel \cup {"waiting"}
    BY DEF Queued
  <2>1. queue[k].order \in Orders
    BY QueueFacts
  <2> QED
    BY <2>1, <1>1 DEF Chain, Queued
<1> QED
  BY <1>3, <1>4 DEF Chain

(* ... it joins the chain ...                                              *)
LEMMA CancelJoins ==
    ASSUME TypeOK, Chain, NEW o \in Orders, Orders' = Orders,
           cancel[o] \notin InCancel \cup {"waiting"}, place' = place,
           queue' = Append(queue, Task("cancel", o)),
           cancel' = [cancel EXCEPT ![o] = "waiting"]
    PROVE  Chain'
<1>1. /\ cancel'[o] = "waiting" /\ \A x \in Orders : x # o => cancel'[x] = cancel[x]
  BY QueueFacts
<1>2. \A kind, x : Holds(kind, x) => Holds(kind, x)'
  BY AppendEntries DEF Holds
<1>3. \A k \in DOMAIN queue' :
         \/ k \in DOMAIN queue /\ queue'[k] = queue[k]
         \/ k = Len(queue) + 1 /\ queue'[k] = Task("cancel", o)
  BY AppendEntries
<1>4. \A k \in DOMAIN queue : queue[k] # Task("cancel", o)
  BY QueueFacts DEF Chain, Queued, Task
<1>5. \A x \in Orders : place'[x] \in InPass => Holds("place", x)'
  BY <1>2 DEF Chain, MarketLockExclusive
<1>6. \A x \in Orders : cancel'[x] \in InCancel => Holds("cancel", x)'
  BY <1>1, <1>2 DEF Chain, MarketLockExclusive, InCancel
<1>7. \A j, k \in DOMAIN queue' : queue'[j] = queue'[k] => j = k
  BY <1>3, <1>4 DEF Chain, MarketLockExclusive
<1>8. Queued'
  <2> SUFFICES ASSUME NEW k \in DOMAIN queue'
               PROVE  /\ queue'[k].kind = "place" =>
                            place'[queue'[k].order] \in InPass \cup {"waiting"}
                      /\ queue'[k].kind = "cancel" =>
                            cancel'[queue'[k].order] \in InCancel \cup {"waiting"}
    BY DEF Queued
  <2>1. CASE k \in DOMAIN queue /\ queue'[k] = queue[k]
    <3>1. queue[k].order \in Orders
      BY <2>1, QueueFacts
    <3> QED
      BY <2>1, <3>1, <1>1 DEF Chain, Queued
  <2>2. CASE queue'[k] = Task("cancel", o)
    BY <2>2, <1>1 DEF Task
  <2> QED
    BY <2>1, <2>2, <1>3
<1> QED
  BY <1>5, <1>6, <1>7, <1>8 DEF Chain, MarketLockExclusive

(* ... and leaves it.                                                      *)
LEMMA CancelEnds ==
    ASSUME TypeOK, Chain, NEW o \in Orders, NEW pc, Orders' = Orders,
           Holds("cancel", o), pc \notin InCancel, place' = place,
           queue' = Tail(queue), cancel' = [cancel EXCEPT ![o] = pc]
    PROVE  Chain' /\ \A x \in Orders : place'[x] \notin InPass
<1>1. /\ cancel'[o] = pc /\ \A x \in Orders : x # o => cancel'[x] = cancel[x]
  BY QueueFacts
<1>2. queue # << >> /\ 1 \in DOMAIN queue /\ queue[1] = Task("cancel", o)
  BY QueueFacts
<1>3. \A x \in Orders : place[x] \notin InPass
  BY OneHolder DEF Chain, MarketLockExclusive
<1>4. \A x \in Orders : cancel[x] \in InCancel => x = o
  BY OneHolder DEF Chain, MarketLockExclusive
<1>5. \A k \in DOMAIN queue' : k + 1 \in DOMAIN queue /\ k + 1 # 1
                                  /\ queue'[k] = queue[k + 1] /\ k \in Nat
  BY <1>2, TailEntries
<1>6. \A x \in Orders : cancel'[x] \notin InCancel
  BY <1>1, <1>4
<1>7. \A j, k \in DOMAIN queue' : queue'[j] = queue'[k] => j = k
  <2> SUFFICES ASSUME NEW j \in DOMAIN queue', NEW k \in DOMAIN queue',
                      queue'[j] = queue'[k]
               PROVE  j = k
    OBVIOUS
  <2>1. j + 1 = k + 1
    BY <1>5 DEF Chain, MarketLockExclusive
  <2> QED
    BY <2>1, <1>5
<1>8. Queued'
  <2> SUFFICES ASSUME NEW k \in DOMAIN queue'
               PROVE  /\ queue'[k].kind = "place" =>
                            place'[queue'[k].order] \in InPass \cup {"waiting"}
                      /\ queue'[k].kind = "cancel" =>
                            cancel'[queue'[k].order] \in InCancel \cup {"waiting"}
    BY DEF Queued
  <2>1. k + 1 \in DOMAIN queue /\ k + 1 # 1 /\ queue'[k] = queue[k + 1]
    BY <1>5
  <2>2. queue[k + 1] # Task("cancel", o)
    BY <2>1, <1>2 DEF Chain, MarketLockExclusive
  <2>3. /\ queue[k + 1].order \in Orders
        /\ queue[k + 1] = Task(queue[k + 1].kind, queue[k + 1].order)
    BY <2>1, QueueFacts
  <2>4. queue[k + 1].kind = "cancel" => queue[k + 1].order # o
    BY <2>2, <2>3
  <2> QED
    BY <2>1, <2>3, <2>4, <1>1 DEF Chain, Queued
<1> QED
  BY <1>3, <1>6, <1>7, <1>8 DEF Chain, MarketLockExclusive

-----------------------------------------------------------------------------
(* The rows, the references and the pass, from one state to the next.      *)

(* An order's terms never change.                                          *)
SameTerms(m) ==
    /\ orders'[m].user = orders[m].user /\ orders'[m].side = orders[m].side
    /\ orders'[m].type = orders[m].type /\ orders'[m].price = orders[m].price
    /\ orders'[m].quantity = orders[m].quantity

RowsKept ==
    /\ orders' \in Seq(OrderRows) /\ Len(orders') <= MaxOrders
    /\ Orders' = Orders
    /\ \A m \in Orders : FilledRowAllowed(m, orders[m].filled)'
    /\ \A m \in Orders : SameTerms(m)

LEMMA RowsUntouched ==
    ASSUME TypeOK, orders' = orders
    PROVE  RowsKept
<1>1. Orders' = Orders
  BY DEF Orders
<1>2. \A m \in Orders : SameTerms(m)
  BY DEF SameTerms
<1>3. orders' \in Seq(OrderRows) /\ Len(orders') <= MaxOrders
  BY DEF TypeOK
<1>4. \A m \in Orders : FilledRowAllowed(m, orders[m].filled)'
  BY DEF TypeOK, FilledRowAllowed, BudgetDriven
<1> QED
  BY <1>1, <1>2, <1>3, <1>4 DEF RowsKept

LEMMA RowChange ==
    ASSUME TypeOK, NEW m \in Orders, NEW row \in OrderRows,
           row.user = orders[m].user, row.side = orders[m].side,
           row.type = orders[m].type, row.price = orders[m].price,
           row.quantity = orders[m].quantity,
           BudgetDriven(row) \/ row.filled <= row.quantity,
           orders' = [orders EXCEPT ![m] = row]
    PROVE  RowsKept /\ orders'[m] = row
           /\ \A x \in Orders : x # m => orders'[x] = orders[x]
<1>1. orders \in Seq(OrderRows) /\ Len(orders) <= MaxOrders
  BY DEF TypeOK
<1>2. Len(orders') = Len(orders) /\ orders' \in Seq(OrderRows) /\ Orders' = Orders
  BY <1>1 DEF Orders
<1>3. orders'[m] = row /\ \A x \in Orders : x # m => orders'[x] = orders[x]
  BY <1>1 DEF Orders
<1>4. \A x \in Orders : SameTerms(x)
  BY <1>3 DEF SameTerms
<1>5. ASSUME NEW x \in Orders PROVE FilledRowAllowed(x, orders[x].filled)'
  <2>1. FilledRowAllowed(x, orders[x].filled)
    BY DEF TypeOK
  <2> QED
    BY <2>1, <1>3 DEF FilledRowAllowed, BudgetDriven
<1> QED
  BY <1>1, <1>2, <1>3, <1>4, <1>5 DEF RowsKept

References == {"ORDER_LOCK", "ORDER_UNLOCK", "TRADE"} \X Orders \X Orders

PlaceStates == InPass \cup {"lock", "reject", "open", "enqueue", "waiting",
                            "done", "failed"}

CancelStates == InCancel \cup {"none", "waiting", "done", "failed"}

Passes == [fills : Seq(FillRecords), next : Nat \ {0}, filled : Nat, quote : Nat]

LEMMA TypeParts ==
    ASSUME TypeOK
    PROVE  /\ balance \in [Accounts -> Int] /\ posted \subseteq References
           /\ orders \in Seq(OrderRows) /\ trades \in Seq(TradeRows)
           /\ place \in [Orders -> PlaceStates] /\ cancel \in [Orders -> CancelStates]
           /\ queue \in Seq(Tasks) /\ pass \in Passes
           /\ errors \in 0..MaxErrors /\ crashes \in 0..MaxCrashes
BY DEF TypeOK, References, PlaceStates, CancelStates, Passes, Tasks

LEMMA TypeKept ==
    ASSUME TypeOK, RowsKept,
           balance' \in [Accounts -> Int], posted' \subseteq References,
           trades' \in Seq(TradeRows), place' \in [Orders -> PlaceStates],
           cancel' \in [Orders -> CancelStates], queue' \in Seq(Tasks),
           pass' \in Passes, errors' \in 0..MaxErrors, crashes' \in 0..MaxCrashes
    PROVE  TypeOK'
BY DEF TypeOK, RowsKept, References, PlaceStates, CancelStates, Passes, Tasks,
       TradeRows, FillRecords

(* What every step that keeps the rows and the references keeps.           *)
LEMMA FillsStaySound ==
    ASSUME RowsKept, posted \subseteq posted',
           NEW o \in Orders, NEW f, f.maker \in Orders, FillSound(o, f)
    PROVE  FillSound(o, f)'
<1>1. SameTerms(o) /\ SameTerms(f.maker)
  BY DEF RowsKept
<1>2. LockRef(f.maker) \in posted'
  BY DEF FillSound
<1> QED
  BY <1>1, <1>2 DEF SameTerms, FillSound, LockRef

LEMMA TapeEntries ==
    ASSUME TypeOK
    PROVE  \A k \in DOMAIN trades : trades[k].taker \in Orders /\ trades[k].maker \in Orders
                                       /\ trades[k].price \in Nat
<1>1. trades \in Seq(TradeRows)
  BY DEF TypeOK
<1>2. \A k \in DOMAIN trades : trades[k] \in TradeRows
  BY <1>1
<1> QED
  BY <1>2 DEF TradeRows

(* What the tape says of one of its rows.                                  *)
Settled(row) ==
    /\ TradeRef(row.taker, row.maker) \in posted
    /\ LockRef(row.taker) \in posted /\ LockRef(row.maker) \in posted

WithinLimit(q, price) ==
    q.type = "LIMIT" => IF q.side = "BUY" THEN price <= q.price ELSE price >= q.price

Agreed(row) ==
    /\ orders[row.taker].user # orders[row.maker].user
    /\ orders[row.taker].side # orders[row.maker].side
    /\ orders[row.maker].type = "LIMIT"
    /\ WithinLimit(orders[row.taker], row.price)
    /\ WithinLimit(orders[row.maker], row.price)

LEMMA TapeByRow ==
    Tape <=> \A k \in DOMAIN trades : Settled(trades[k]) /\ Agreed(trades[k])
BY DEF Tape, TradesAreSettled, TradesWithinLimits, Settled, Agreed, WithinLimit

LEMMA RowStaysOnTape ==
    ASSUME RowsKept, posted \subseteq posted', NEW row,
           row.taker \in Orders, row.maker \in Orders, Settled(row), Agreed(row)
    PROVE  Settled(row)' /\ Agreed(row)'
<1>1. SameTerms(row.taker) /\ SameTerms(row.maker)
  BY DEF RowsKept
<1>2. Settled(row)'
  BY DEF Settled, TradeRef, LockRef
<1> QED
  BY <1>1, <1>2 DEF SameTerms, Agreed, WithinLimit

LEMMA Quiet ==
    ASSUME IInv, RowsKept, posted \subseteq posted', trades' = trades
    PROVE  PricesKept' /\ Tape'
<1>1. PricesKept'
  BY DEF IInv, PricesKept, RowsKept, SameTerms
<1>2. \A k \in DOMAIN trades : Settled(trades[k]) /\ Agreed(trades[k])
  BY TapeByRow DEF IInv
<1>3. ASSUME NEW k \in DOMAIN trades'
      PROVE  (Settled(trades[k]) /\ Agreed(trades[k]))'
  <2>1. trades'[k] = trades[k] /\ k \in DOMAIN trades
    OBVIOUS
  <2>2. trades[k].taker \in Orders /\ trades[k].maker \in Orders
    BY <2>1, TapeEntries DEF IInv
  <2>3. PICK row : row = trades[k]
    OBVIOUS
  <2>4. Settled(row) /\ Agreed(row)
    BY <2>1, <2>3, <1>2
  <2>5. Settled(row)' /\ Agreed(row)'
    BY <2>2, <2>3, <2>4, RowStaysOnTape
  <2> QED
    BY <2>1, <2>3, <2>5 DEF Settled, Agreed, WithinLimit, TradeRef, LockRef
<1>4. Tape'
  BY <1>3 DEF Tape, TradesAreSettled, TradesWithinLimits, Settled, Agreed, WithinLimit
<1> QED
  BY <1>1, <1>4

LEMMA ReservedKept ==
    ASSUME IInv, RowsKept, posted \subseteq posted',
           \A x \in Orders :
              place'[x] \in LockTaken \/ orders'[x].status \in Open =>
                 \/ place[x] \in LockTaken
                 \/ orders[x].status \in Open
                 \/ LockRef(x) \in posted'
    PROVE  Reserved'
BY DEF IInv, Reserved, RowsKept, LockRef

-----------------------------------------------------------------------------
(* The matchAndSettle under way.                                           *)

LEMMA PassFacts ==
    ASSUME TypeOK
    PROVE  /\ pass.fills \in Seq(FillRecords) /\ pass.next \in Nat \ {0}
           /\ pass.filled \in Nat /\ pass.quote \in Nat
           /\ Len(pass.fills) \in Nat /\ DOMAIN pass.fills = 1..Len(pass.fills)
           /\ \A k \in DOMAIN pass.fills :
                 /\ pass.fills[k] \in FillRecords /\ pass.fills[k].maker \in Orders
                 /\ pass.fills[k].quantity \in Nat /\ pass.fills[k].quoteAmount \in Nat
                 /\ pass.fills[k].price \in Nat
<1>1. /\ pass.fills \in Seq(FillRecords) /\ pass.next \in Nat \ {0}
      /\ pass.filled \in Nat /\ pass.quote \in Nat
  BY TypeParts DEF Passes
<1>2. /\ Len(pass.fills) \in Nat /\ DOMAIN pass.fills = 1..Len(pass.fills)
      /\ \A k \in DOMAIN pass.fills : pass.fills[k] \in FillRecords
  BY <1>1
<1> QED
  BY <1>1, <1>2 DEF FillRecords

LEMMA FillsKept ==
    ASSUME IInv, RowsKept, posted \subseteq posted', pass'.fills = pass.fills,
           NEW x \in Orders, place[x] \in InPass
    PROVE  \A k \in DOMAIN pass'.fills : FillSound(x, pass.fills[k])'
<1> SUFFICES ASSUME NEW k \in DOMAIN pass'.fills PROVE FillSound(x, pass.fills[k])'
  OBVIOUS
<1>1. k \in DOMAIN pass.fills /\ pass'.fills[k] = pass.fills[k]
  OBVIOUS
<1>2. PICK f : f = pass.fills[k]
  OBVIOUS
<1>3. FillSound(x, f) /\ f.maker \in Orders
  BY <1>1, <1>2, PassFacts DEF IInv, PassSound
<1>4. FillSound(x, f)'
  BY <1>3, FillsStaySound
<1> QED
  BY <1>1, <1>2, <1>4 DEF FillSound, LockRef, crosses

(* A step of something else ...                                            *)
LEMMA PassStays ==
    ASSUME IInv, RowsKept, posted \subseteq posted', pass' = pass,
           \A x \in Orders : place'[x] \in InPass => place'[x] = place[x]
    PROVE  PassSound'
<1>1. Orders' = Orders
  BY DEF RowsKept
<1>2. ASSUME NEW x \in Orders, place'[x] \in InPass
      PROVE  \A k \in DOMAIN pass'.fills : FillSound(x, pass.fills[k])'
  BY <1>2, FillsKept
<1>3. ASSUME NEW x \in Orders, place'[x] \in InPass
      PROVE  /\ place'[x] \in {"settle", "trade", "maker", "makerRelease"} =>
                   pass'.next \in DOMAIN pass'.fills
             /\ place'[x] = "trade" => TradeRef(x, CurrentFill'.maker) \in posted'
  BY <1>3 DEF IInv, PassSound, CurrentFill, TradeRef
<1> QED
  BY <1>1, <1>2, <1>3 DEF PassSound, TradeRef

(* ... a step of the pass itself ...                                       *)
LEMMA PassMoves ==
    ASSUME IInv, RowsKept, posted \subseteq posted', pass'.fills = pass.fills,
           NEW o \in Orders, place[o] \in InPass, Holds("place", o),
           NEW pc, place' = [place EXCEPT ![o] = pc],
           pc \in {"settle", "trade", "maker", "makerRelease"} =>
              pass'.next \in DOMAIN pass.fills,
           pc = "trade" => TradeRef(o, pass.fills[pass'.next].maker) \in posted'
    PROVE  PassSound'
<1>1. Orders' = Orders
  BY DEF RowsKept
<1>2. /\ place'[o] = pc /\ \A x \in Orders : x # o => place'[x] = place[x]
  BY QueueFacts DEF IInv
<1>3. \A x \in Orders : x # o => place[x] \notin InPass
  BY OneHolder DEF IInv, Chain, MarketLockExclusive
<1>4. \A k \in DOMAIN pass'.fills : FillSound(o, pass.fills[k])'
  BY FillsKept
<1>5. /\ pc \in {"settle", "trade", "maker", "makerRelease"} =>
            pass'.next \in DOMAIN pass'.fills
      /\ pc = "trade" => TradeRef(o, CurrentFill'.maker) \in posted'
  BY DEF CurrentFill
<1> QED
  BY <1>1, <1>2, <1>3, <1>4, <1>5 DEF PassSound, TradeRef

(* ... and its end.                                                        *)
LEMMA PassGone ==
    ASSUME Orders' = Orders, \A x \in Orders : place'[x] \notin InPass
    PROVE  PassSound'
BY DEF PassSound

LEMMA NoPassTyped == NoPass \in Passes
<1>1. << >> \in Seq(FillRecords)
  OBVIOUS
<1> QED
  BY <1>1 DEF NoPass, Passes

-----------------------------------------------------------------------------
(* The postings.                                                           *)

Names == [owner : Users \cup {NoUser},
          kind : {"USER_AVAILABLE", "USER_LOCKED", "FEE_REVENUE"}, asset : Assets]

LineRows == [account : Names, direction : {"DEBIT", "CREDIT"}, amount : Int]

LEMMA Lines ==
    ASSUME NEW name \in Names, NEW n \in Int
    PROVE  Debit(name, n) \in LineRows /\ Credit(name, n) \in LineRows
BY DEF Debit, Credit, LineRows, Names

(* A posting of typed lines, whoever makes it.                             *)
LEMMA Posts ==
    ASSUME TypeOK, NEW ref \in References, NEW lines \in Seq(LineRows),
           Post(ref, lines)
    PROVE  /\ balance' \in [Accounts -> Int] /\ posted \subseteq posted'
           /\ posted' \subseteq References /\ ref \in posted'
<1>1. \A h \in DOMAIN lines : lines[h].direction \in {"DEBIT", "CREDIT"}
                                 /\ lines[h].amount \in Int
  <2>1. \A h \in DOMAIN lines : lines[h] \in LineRows
    OBVIOUS
  <2> QED
    BY <2>1 DEF LineRows
<1>2. balance' \in [Accounts -> Int]
  BY <1>1, PostType DEF TypeOK
<1>3. posted' = posted \cup {ref}
  BY PostEffect
<1> QED
  BY <1>2, <1>3, TypeParts

LEMMA NamesOfOrders ==
    ASSUME TypeOK, NEW o \in Orders
    PROVE  /\ Available(orders[o].user, lockedAsset(o)) \in Names
           /\ Locked(orders[o].user, lockedAsset(o)) \in Names
           /\ \A x \in {Base, Quote} : /\ Available(orders[o].user, x) \in Names
                                       /\ Locked(orders[o].user, x) \in Names
                                       /\ System("FEE_REVENUE", x) \in Names
<1>1. orders[o].user \in Users
  BY TypeParts, RowsTyped
<1>2. Base \in Assets /\ Quote \in Assets /\ lockedAsset(o) \in Assets
  BY MarketAssumption DEF lockedAsset
<1>3. \A x \in Assets : /\ Available(orders[o].user, x) \in Names
                         /\ Locked(orders[o].user, x) \in Names
                         /\ System("FEE_REVENUE", x) \in Names
  BY <1>1 DEF Available, Locked, System, Names
<1> QED
  BY <1>2, <1>3

LEMMA Locks ==
    ASSUME TypeOK, NEW o \in Orders, Post(LockRef(o), LockLines(o))
    PROVE  /\ balance' \in [Accounts -> Int] /\ posted \subseteq posted'
           /\ posted' \subseteq References /\ LockRef(o) \in posted'
<1>1. orders[o].locked \in Int
  BY TypeParts, RowsTyped
<1>2. LockLines(o) \in Seq(LineRows)
  BY <1>1, NamesOfOrders, Lines DEF LockLines
<1>3. LockRef(o) \in References
  BY DEF LockRef, References
<1> QED
  BY <1>2, <1>3, Posts

LEMMA Releases ==
    ASSUME TypeOK, NEW o \in Orders, releaseSurplus(o)
    PROVE  /\ balance' \in [Accounts -> Int] /\ posted \subseteq posted'
           /\ posted' \subseteq References
<1>1. CASE UNCHANGED ledger
  BY <1>1, TypeParts DEF ledger
<1>2. CASE Post(UnlockRef(o), SurplusLines(o))
  <2>1. Surplus(o) \in Int
    BY TypeParts, RowsTyped DEF Surplus
  <2>2. SurplusLines(o) \in Seq(LineRows)
    BY <2>1, NamesOfOrders, Lines DEF SurplusLines
  <2>3. UnlockRef(o) \in References
    BY DEF UnlockRef, References
  <2> QED
    BY <1>2, <2>2, <2>3, Posts
<1> QED
  BY <1>1, <1>2 DEF releaseSurplus

(* Fees and the lines of a settlement.                                     *)
LEMMA FeeNat ==
    ASSUME NEW n \in Nat, NEW bps \in Nat
    PROVE  computeFee(n, bps) \in Nat
<1>1. n * bps \in Nat
  OBVIOUS
<1> QED
  BY <1>1, DivNat DEF computeFee

LEMMA FeesNat ==
    ASSUME NEW o, NEW f, f.quantity \in Nat, f.quoteAmount \in Nat
    PROVE  buyerFee(o, f) \in Nat /\ sellerFee(o, f) \in Nat
<1>1. TakerBps \in Nat /\ MakerBps \in Nat
  BY NumbersAssumption
<1> QED
  BY <1>1, FeeNat DEF buyerFee, sellerFee

LEMMA FeeLinesTyped ==
    ASSUME NEW x, System("FEE_REVENUE", x) \in Names, NEW fee \in Nat
    PROVE  FeeLines(x, fee) \in Seq(LineRows)
<1>1. Credit(System("FEE_REVENUE", x), fee) \in LineRows
  BY Lines
<1> QED
  BY <1>1 DEF FeeLines

LEMMA ConcatTyped ==
    ASSUME NEW S, NEW s \in Seq(S), NEW t \in Seq(S)
    PROVE  s \o t \in Seq(S)
OBVIOUS

LEMMA Settles ==
    ASSUME TypeOK, NEW o \in Orders, NEW f \in FillRecords,
           Post(TradeRef(o, f.maker), SettleLines(o, f))
    PROVE  /\ balance' \in [Accounts -> Int] /\ posted \subseteq posted'
           /\ posted' \subseteq References /\ TradeRef(o, f.maker) \in posted'
<1>1. /\ f.maker \in Orders /\ f.quantity \in Nat /\ f.quoteAmount \in Nat
  BY DEF FillRecords
<1>2. buyerFee(o, f) \in Nat /\ sellerFee(o, f) \in Nat
  BY <1>1, FeesNat
<1>3. Buyer(o, f.maker) \in Orders /\ Seller(o, f.maker) \in Orders
  BY <1>1 DEF Buyer, Seller
<1> DEFINE buyer == orders[Buyer(o, f.maker)].user
           seller == orders[Seller(o, f.maker)].user
           four == <<Debit(Locked(buyer, Quote), f.quoteAmount),
                     Credit(Available(seller, Quote), f.quoteAmount - sellerFee(o, f)),
                     Debit(Locked(seller, Base), f.quantity),
                     Credit(Available(buyer, Base), f.quantity - buyerFee(o, f))>>
<1>4. /\ Locked(buyer, Quote) \in Names /\ Available(seller, Quote) \in Names
      /\ Locked(seller, Base) \in Names /\ Available(buyer, Base) \in Names
      /\ System("FEE_REVENUE", Quote) \in Names /\ System("FEE_REVENUE", Base) \in Names
  BY <1>3, NamesOfOrders
<1>5. /\ f.quoteAmount - sellerFee(o, f) \in Int /\ f.quantity - buyerFee(o, f) \in Int
      /\ f.quoteAmount \in Int /\ f.quantity \in Int
  BY <1>1, <1>2
<1>6. four \in Seq(LineRows)
  <2> HIDE DEF buyer, seller
  <2>1. /\ Debit(Locked(buyer, Quote), f.quoteAmount) \in LineRows
        /\ Credit(Available(seller, Quote), f.quoteAmount - sellerFee(o, f)) \in LineRows
        /\ Debit(Locked(seller, Base), f.quantity) \in LineRows
        /\ Credit(Available(buyer, Base), f.quantity - buyerFee(o, f)) \in LineRows
    BY <1>4, <1>5, Lines
  <2> QED
    BY <2>1
<1>7. FeeLines(Quote, sellerFee(o, f)) \in Seq(LineRows)
      /\ FeeLines(Base, buyerFee(o, f)) \in Seq(LineRows)
  BY <1>2, <1>4, FeeLinesTyped
<1> HIDE DEF four
<1>8. four \o FeeLines(Quote, sellerFee(o, f)) \in Seq(LineRows)
  BY <1>6, <1>7, ConcatTyped
<1>9. (four \o FeeLines(Quote, sellerFee(o, f))) \o FeeLines(Base, buyerFee(o, f))
          \in Seq(LineRows)
  BY <1>7, <1>8, ConcatTyped
<1>10. SettleLines(o, f) \in Seq(LineRows)
  BY <1>9 DEF SettleLines, four, buyer, seller
<1>11. TradeRef(o, f.maker) \in References
  BY <1>1 DEF TradeRef, References
<1> QED
  BY <1>10, <1>11, Posts

LEMMA LockRequirementNat ==
    ASSUME NEW h \in OrderInputs
    PROVE  computeLockRequirement(h) \in Nat
<1>1. /\ h.price \in Nat /\ h.quantity \in Nat /\ h.budget \in Nat
      /\ h.side \in {"BUY", "SELL"} /\ h.type \in {"LIMIT", "MARKET"}
  BY InputsAssumption
<1>2. PICK n \in Nat : n = h.price * h.quantity
  BY <1>1
<1>3. n + QScale - 1 \in Nat
  BY QScaleAssumption
<1>4. quoteCeil(h.price, h.quantity) \in Nat
  BY <1>2, <1>3, QScaleAssumption, DivNat DEF quoteCeil
<1> QED
  BY <1>1, <1>4 DEF computeLockRequirement

-----------------------------------------------------------------------------
(* The steps of a placement, before the market lock.                       *)

LEMMA PlaceTyped ==
    ASSUME TypeOK, NEW o \in Orders, NEW pc \in PlaceStates,
           place' = [place EXCEPT ![o] = pc]
    PROVE  /\ place' \in [Orders -> PlaceStates] /\ place'[o] = pc
           /\ \A x \in Orders : x # o => place'[x] = place[x]
BY TypeParts

LEMMA CancelTyped ==
    ASSUME TypeOK, NEW o \in Orders, NEW pc \in CancelStates,
           cancel' = [cancel EXCEPT ![o] = pc]
    PROVE  /\ cancel' \in [Orders -> CancelStates] /\ cancel'[o] = pc
           /\ \A x \in Orders : x # o => cancel'[x] = cancel[x]
BY TypeParts

LEMMA QueueTyped ==
    ASSUME TypeOK, NEW o \in Orders, NEW kind \in {"place", "cancel"}
    PROVE  /\ Append(queue, Task(kind, o)) \in Seq(Tasks)
           /\ Holds(kind, o) => Tail(queue) \in Seq(Tasks)
<1>1. queue \in Seq(Tasks) /\ Task(kind, o) \in Tasks
  BY TypeParts DEF Task, Tasks
<1> QED
  BY <1>1 DEF Holds

LEMMA StatusChange ==
    ASSUME TypeOK, NEW o \in Orders, NEW status \in Statuses, SetStatus(o, status)
    PROVE  /\ RowsKept /\ orders'[o].status = status
           /\ \A x \in Orders : x # o => orders'[x] = orders[x]
<1>1. orders[o] \in OrderRows
  BY TypeParts, RowsTyped
<1>2. PICK row : row = [orders[o] EXCEPT !.status = status]
  OBVIOUS
<1>3. /\ row \in OrderRows /\ row.status = status
      /\ row.user = orders[o].user /\ row.side = orders[o].side
      /\ row.type = orders[o].type /\ row.price = orders[o].price
      /\ row.quantity = orders[o].quantity /\ row.filled = orders[o].filled
  BY <1>1, <1>2 DEF OrderRows
<1>4. BudgetDriven(row) \/ row.filled <= row.quantity
  BY <1>3 DEF TypeOK, FilledRowAllowed, BudgetDriven
<1>5. orders' = [orders EXCEPT ![o] = row]
  BY <1>2 DEF SetStatus
<1> QED
  BY <1>3, <1>4, <1>5, RowChange

LEMMA LockFundsKeeps ==
    ASSUME IInv, NEW o \in Orders, LockFunds(o)
    PROVE  IInv'
<1>1. TypeOK /\ Chain
  BY DEF IInv
<1>2. RowsKept
  BY <1>1, RowsUntouched DEF LockFunds
<1>3. PICK pc \in {"open", "reject"} :
         /\ place' = [place EXCEPT ![o] = pc]
         /\ pc = "open" => Post(LockRef(o), LockLines(o))
         /\ pc = "reject" => UNCHANGED ledger
  BY DEF LockFunds, GoPlace
<1>4. /\ balance' \in [Accounts -> Int] /\ posted \subseteq posted'
      /\ posted' \subseteq References
      /\ pc = "open" => LockRef(o) \in posted'
  BY <1>1, <1>3, Locks, TypeParts DEF ledger
<1>5. pc \in PlaceStates
  BY DEF PlaceStates
<1>6. /\ place' \in [Orders -> PlaceStates] /\ place'[o] = pc
      /\ \A x \in Orders : x # o => place'[x] = place[x]
  BY <1>1, <1>3, <1>5, PlaceTyped
<1>7. TypeOK'
  BY <1>1, <1>2, <1>4, <1>6, TypeParts, TypeKept DEF LockFunds
<1>8. Chain'
  BY <1>1, <1>2, <1>3, PlaceMoves DEF LockFunds, InPass, RowsKept
<1>9. Reserved'
  BY <1>2, <1>4, <1>6, ReservedKept DEF LockFunds, LockTaken, InPass
<1>10. PassSound'
  BY <1>2, <1>4, <1>6, PassStays DEF LockFunds, InPass
<1>11. PricesKept' /\ Tape'
  BY <1>2, <1>4, Quiet DEF LockFunds
<1> QED
  BY <1>7, <1>8, <1>9, <1>10, <1>11 DEF IInv

LEMMA RejectOrderKeeps ==
    ASSUME IInv, NEW o \in Orders, RejectOrder(o)
    PROVE  IInv'
<1>1. TypeOK /\ Chain
  BY DEF IInv
<1>2. /\ RowsKept /\ orders'[o].status = "REJECTED"
      /\ \A x \in Orders : x # o => orders'[x] = orders[x]
  BY <1>1, StatusChange DEF RejectOrder, Statuses, Terminal
<1>3. posted' = posted /\ balance' = balance /\ pass' = pass /\ trades' = trades
  BY DEF RejectOrder
<1>4. place[o] = "reject" /\ place' = [place EXCEPT ![o] = "failed"]
  BY DEF RejectOrder, GoPlace
<1>5. /\ place' \in [Orders -> PlaceStates] /\ place'[o] = "failed"
      /\ \A x \in Orders : x # o => place'[x] = place[x]
  BY <1>1, <1>4, PlaceTyped DEF PlaceStates
<1>6. TypeOK'
  BY <1>1, <1>2, <1>3, <1>5, TypeParts, TypeKept DEF RejectOrder
<1>7. Chain'
  BY <1>1, <1>2, <1>4, PlaceMoves DEF RejectOrder, InPass, RowsKept
<1>8. Reserved'
  BY <1>2, <1>3, <1>5, ReservedKept DEF LockTaken, InPass, Open
<1>9. PassSound'
  BY <1>2, <1>3, <1>5, PassStays DEF InPass
<1>10. PricesKept' /\ Tape'
  BY <1>2, <1>3, Quiet
<1> QED
  BY <1>6, <1>7, <1>8, <1>9, <1>10 DEF IInv

LEMMA OpenOrderKeeps ==
    ASSUME IInv, NEW o \in Orders, OpenOrder(o)
    PROVE  IInv'
<1>1. TypeOK /\ Chain
  BY DEF IInv
<1>2. /\ RowsKept /\ orders'[o].status = "OPEN"
      /\ \A x \in Orders : x # o => orders'[x] = orders[x]
  BY <1>1, StatusChange DEF OpenOrder, Statuses, Open
<1>3. posted' = posted /\ balance' = balance /\ pass' = pass /\ trades' = trades
  BY DEF OpenOrder
<1>4. place[o] = "open" /\ place' = [place EXCEPT ![o] = "enqueue"]
  BY DEF OpenOrder, GoPlace
<1>5. /\ place' \in [Orders -> PlaceStates] /\ place'[o] = "enqueue"
      /\ \A x \in Orders : x # o => place'[x] = place[x]
  BY <1>1, <1>4, PlaceTyped DEF PlaceStates
<1>6. TypeOK'
  BY <1>1, <1>2, <1>3, <1>5, TypeParts, TypeKept DEF OpenOrder
<1>7. Chain'
  BY <1>1, <1>2, <1>4, PlaceMoves DEF OpenOrder, InPass, RowsKept
<1>8. Reserved'
  BY <1>2, <1>3, <1>4, <1>5, ReservedKept DEF LockTaken, InPass
<1>9. PassSound'
  BY <1>2, <1>3, <1>5, PassStays DEF InPass
<1>10. PricesKept' /\ Tape'
  BY <1>2, <1>3, Quiet
<1> QED
  BY <1>6, <1>7, <1>8, <1>9, <1>10 DEF IInv

LEMMA EnqueuePlaceKeeps ==
    ASSUME IInv, NEW o \in Orders, EnqueuePlace(o)
    PROVE  IInv'
<1>1. TypeOK /\ Chain
  BY DEF IInv
<1>2. RowsKept /\ orders' = orders
  BY <1>1, RowsUntouched DEF EnqueuePlace
<1>3. posted' = posted /\ balance' = balance /\ pass' = pass /\ trades' = trades
  BY DEF EnqueuePlace
<1>4. /\ place[o] = "enqueue" /\ place' = [place EXCEPT ![o] = "waiting"]
      /\ queue' = Append(queue, Task("place", o)) /\ cancel' = cancel
  BY DEF EnqueuePlace, GoPlace
<1>5. /\ place' \in [Orders -> PlaceStates] /\ place'[o] = "waiting"
      /\ \A x \in Orders : x # o => place'[x] = place[x]
  BY <1>1, <1>4, PlaceTyped DEF PlaceStates
<1>6. TypeOK'
  BY <1>1, <1>2, <1>3, <1>4, <1>5, TypeParts, TypeKept, QueueTyped DEF EnqueuePlace
<1>7. Chain'
  BY <1>1, <1>2, <1>4, PlaceJoins DEF InPass, RowsKept
<1>8. Reserved'
  BY <1>2, <1>3, <1>4, <1>5, ReservedKept DEF LockTaken, InPass
<1>9. PassSound'
  BY <1>2, <1>3, <1>5, PassStays DEF InPass
<1>10. PricesKept' /\ Tape'
  BY <1>2, <1>3, Quiet
<1> QED
  BY <1>6, <1>7, <1>8, <1>9, <1>10 DEF IInv

-----------------------------------------------------------------------------
(* The steps of a placement, under the market lock.                        *)

(* The fills of a pass are of resting orders, as their rows stand.         *)
LEMMA FillsOfBook ==
    ASSUME IInv, NEW o \in Orders, NEW r, r = matchOrder(orders[o], BookOf(o))
    PROVE  /\ r.fills \in Seq(FillRecords)
           /\ r.filledQuantity \in Nat /\ r.quoteTotal \in Nat
           /\ \A j \in DOMAIN r.fills : /\ FillSound(o, r.fills[j])
                                        /\ orders[r.fills[j].maker].status \in Open
<1>1. /\ TypeOK /\ orders \in Seq(OrderRows)
      /\ \A m \in Orders : FilledRowAllowed(m, orders[m].filled)
  BY DEF IInv, TypeOK
<1>2. PICK n \in Nat :
         /\ BookOf(o) \in [1..n -> Resters]
         /\ \A k \in 1..n : /\ BookOf(o)[k].id \in Resting(o)
                            /\ BookOf(o)[k].price = orders[BookOf(o)[k].id].price
  BY <1>1, BookTyped
<1>3. PICK t : t = orders[o]
  OBVIOUS
<1>4. PICK b : b = BookOf(o)
  OBVIOUS
<1>5. t.quantity \in Nat /\ t.budget \in Nat
  BY <1>1, <1>3, RowsTyped
<1>6. b \in [1..n -> Resters] /\ r = matchOrder(t, b)
  BY <1>2, <1>3, <1>4
<1>7. /\ r.fills \in Seq(BookFills)
      /\ r.filledQuantity \in Nat /\ r.quoteTotal \in Nat
      /\ \A j \in DOMAIN r.fills : \E k \in 1..n : FillOf(t, b[k], r.fills[j])
  BY <1>5, <1>6, MatchFills
<1>8. ASSUME NEW j \in DOMAIN r.fills
      PROVE  /\ r.fills[j] \in FillRecords /\ FillSound(o, r.fills[j])
             /\ orders[r.fills[j].maker].status \in Open
  <2>1. PICK k \in 1..n : FillOf(t, b[k], r.fills[j])
    BY <1>7
  <2>2. r.fills[j] \in BookFills
    BY <1>7
  <2>3. /\ r.fills[j].maker \in Resting(o)
        /\ r.fills[j].price = orders[r.fills[j].maker].price
        /\ r.fills[j].price # NoPrice
        /\ t.type = "LIMIT" => crosses(t.side, t.price, r.fills[j].price)
    BY <2>1, <1>2, <1>4 DEF FillOf
  <2>4. /\ r.fills[j].maker \in Orders
        /\ orders[r.fills[j].maker].side # orders[o].side
        /\ orders[r.fills[j].maker].status \in Open
        /\ orders[r.fills[j].maker].user # orders[o].user
    BY <2>3 DEF Resting
  <2>5. r.fills[j] \in FillRecords
    BY <2>2, <2>4 DEF BookFills, FillRecords
  <2>6. LockRef(r.fills[j].maker) \in posted
    BY <2>4 DEF IInv, Reserved
  <2>7. orders[r.fills[j].maker].type = "LIMIT"
    BY <2>3, <2>4 DEF IInv, PricesKept
  <2> QED
    BY <2>3, <2>4, <2>5, <2>6, <2>7, <1>3 DEF FillSound
<1>9. r.fills \in Seq(FillRecords)
  <2>1. PICK fs \in Seq(BookFills) : fs = r.fills
    BY <1>7
  <2>2. \A j \in DOMAIN fs : fs[j] \in FillRecords
    BY <2>1, <1>8
  <2>3. PICK len \in Nat : DOMAIN fs = 1..len /\ fs = [j \in 1..len |-> fs[j]]
    BY <2>1
  <2>4. fs \in Seq(FillRecords)
    BY <2>2, <2>3
  <2> QED
    BY <2>1, <2>4
<1> QED
  BY <1>7, <1>8, <1>9

LEMMA MatchOrderKeeps ==
    ASSUME IInv, NEW o \in Orders, MatchOrder(o)
    PROVE  IInv'
<1>1. TypeOK /\ Chain /\ Holds("place", o) /\ place[o] = "waiting"
  BY DEF IInv, MatchOrder
<1>2. RowsKept /\ orders' = orders
  BY <1>1, RowsUntouched DEF MatchOrder
<1>3. /\ posted' = posted /\ balance' = balance /\ trades' = trades
      /\ queue' = queue /\ cancel' = cancel
  BY DEF MatchOrder
<1>4. PICK r : /\ r = matchOrder(orders[o], BookOf(o))
               /\ pass' = [fills |-> r.fills, next |-> 1,
                           filled |-> r.filledQuantity, quote |-> r.quoteTotal]
               /\ GoPlace(o, IF r.fills = << >> THEN "finalize" ELSE "settle")
  BY DEF MatchOrder
<1>5. /\ r.fills \in Seq(FillRecords)
      /\ r.filledQuantity \in Nat /\ r.quoteTotal \in Nat
      /\ \A j \in DOMAIN r.fills : FillSound(o, r.fills[j])
  BY <1>4, FillsOfBook
<1>6. PICK pc \in {"finalize", "settle"} :
         /\ place' = [place EXCEPT ![o] = pc]
         /\ pc = "settle" => r.fills # << >>
  BY <1>4 DEF GoPlace
<1>7. /\ place' \in [Orders -> PlaceStates] /\ place'[o] = pc
      /\ \A x \in Orders : x # o => place'[x] = place[x]
  BY <1>1, <1>6, PlaceTyped DEF PlaceStates, InPass
<1>8. pass' \in Passes
  BY <1>4, <1>5 DEF Passes
<1>9. TypeOK'
  BY <1>1, <1>2, <1>3, <1>7, <1>8, TypeParts, TypeKept DEF MatchOrder
<1>10. Chain'
  BY <1>1, <1>2, <1>3, <1>6, PlaceMoves DEF InPass, RowsKept
<1>11. Reserved'
  BY <1>1, <1>2, <1>3, <1>7, ReservedKept DEF LockTaken
<1>12. PassSound'
  <2>1. pass'.fills = r.fills /\ pass'.next = 1
    BY <1>4
  <2>2. \A x \in Orders : place'[x] \in InPass => x = o
    BY <1>7, <1>1, OneHolder DEF Chain, MarketLockExclusive
  <2>3. ASSUME NEW k \in DOMAIN r.fills PROVE FillSound(o, r.fills[k])'
    <3>1. r.fills[k] \in FillRecords
      BY <1>5
    <3>2. r.fills[k].maker \in Orders
      BY <3>1 DEF FillRecords
    <3> QED
      BY <1>2, <1>3, <1>5, <3>2, FillsStaySound
  <2>4. pc = "settle" => 1 \in DOMAIN r.fills
    BY <1>5, <1>6
  <2>5. Orders' = Orders /\ place'[o] \in {"finalize", "settle"}
    BY <1>2, <1>7 DEF RowsKept
  <2>6. \A k \in DOMAIN pass'.fills : FillSound(o, pass.fills[k])'
    BY <2>1, <2>3 DEF FillSound, LockRef
  <2> QED
    BY <1>7, <2>1, <2>2, <2>4, <2>5, <2>6 DEF PassSound
<1>13. PricesKept' /\ Tape'
  BY <1>2, <1>3, Quiet
<1> QED
  BY <1>9, <1>10, <1>11, <1>12, <1>13 DEF IInv

(* The fill being settled.                                                 *)
LEMMA CurrentFacts ==
    ASSUME IInv, NEW o \in Orders,
           place[o] \in {"settle", "trade", "maker", "makerRelease"}
    PROVE  /\ pass.next \in DOMAIN pass.fills /\ CurrentFill \in FillRecords
           /\ CurrentFill.maker \in Orders /\ CurrentFill.price \in Nat
           /\ CurrentFill.quantity \in Nat /\ CurrentFill.quoteAmount \in Nat
           /\ FillSound(o, CurrentFill)
<1>1. TypeOK /\ place[o] \in InPass
  BY DEF IInv, InPass
<1>2. pass.next \in DOMAIN pass.fills /\ FillSound(o, CurrentFill)
  BY <1>1 DEF IInv, PassSound, CurrentFill
<1> QED
  BY <1>1, <1>2, PassFacts DEF CurrentFill

LEMMA SettleFillKeeps ==
    ASSUME IInv, NEW o \in Orders, SettleFill(o)
    PROVE  IInv'
<1>1. TypeOK /\ Chain /\ Holds("place", o) /\ place[o] = "settle"
  BY DEF IInv, SettleFill
<1>2. RowsKept /\ orders' = orders
  BY <1>1, RowsUntouched DEF SettleFill
<1>3. /\ pass' = pass /\ trades' = trades /\ queue' = queue /\ cancel' = cancel
      /\ place' = [place EXCEPT ![o] = "trade"]
  BY DEF SettleFill, GoPlace
<1>4. PICK f : f = CurrentFill
  OBVIOUS
<1>5. f \in FillRecords /\ Post(TradeRef(o, f.maker), SettleLines(o, f))
      /\ pass.next \in DOMAIN pass.fills
  BY <1>1, <1>4, CurrentFacts DEF SettleFill
<1>6. /\ balance' \in [Accounts -> Int] /\ posted \subseteq posted'
      /\ posted' \subseteq References /\ TradeRef(o, f.maker) \in posted'
  BY <1>1, <1>5, Settles
<1>7. /\ place' \in [Orders -> PlaceStates] /\ place'[o] = "trade"
      /\ \A x \in Orders : x # o => place'[x] = place[x]
  BY <1>1, <1>3, PlaceTyped DEF PlaceStates, InPass
<1>8. TypeOK'
  BY <1>1, <1>2, <1>3, <1>6, <1>7, TypeParts, TypeKept DEF SettleFill
<1>9. Chain'
  BY <1>1, <1>2, <1>3, PlaceMoves DEF InPass, RowsKept
<1>10. Reserved'
  BY <1>1, <1>2, <1>6, <1>7, ReservedKept DEF LockTaken, InPass
<1>11. PassSound'
  BY <1>1, <1>2, <1>3, <1>4, <1>5, <1>6, PassMoves DEF InPass, CurrentFill
<1>12. PricesKept' /\ Tape'
  BY <1>2, <1>3, <1>6, Quiet
<1> QED
  BY <1>8, <1>9, <1>10, <1>11, <1>12 DEF IInv

(* The row of a fill that is sound belongs on the tape.                    *)
LEMMA NewRow ==
    ASSUME IInv, NEW o \in Orders, NEW f \in FillRecords, FillSound(o, f),
           LockRef(o) \in posted, TradeRef(o, f.maker) \in posted,
           NEW row, row = TradeRow(o, f)
    PROVE  row \in TradeRows /\ Settled(row) /\ Agreed(row)
<1>1. /\ f.maker \in Orders /\ f.price \in Nat /\ f.quantity \in Nat
      /\ f.quoteAmount \in Nat
  BY DEF FillRecords
<1>2. buyerFee(o, f) \in Nat /\ sellerFee(o, f) \in Nat
  BY <1>1, FeesNat
<1>3. row \in TradeRows
  BY <1>1, <1>2 DEF TradeRow, TradeRows
<1>4. row.taker = o /\ row.maker = f.maker /\ row.price = f.price
  BY DEF TradeRow
<1>5. Settled(row)
  BY <1>4 DEF Settled, FillSound
<1>6. WithinLimit(orders[o], f.price)
  <2>1. orders[o].price \in Nat
    BY TypeParts, RowsTyped DEF IInv
  <2> QED
    BY <2>1, <1>1 DEF FillSound, crosses, WithinLimit
<1>7. WithinLimit(orders[f.maker], f.price)
  BY <1>1 DEF FillSound, WithinLimit
<1>8. Agreed(row)
  BY <1>4, <1>6, <1>7 DEF Agreed, FillSound
<1> QED
  BY <1>3, <1>5, <1>8

LEMMA CreateTradeKeeps ==
    ASSUME IInv, NEW o \in Orders, CreateTrade(o)
    PROVE  IInv'
<1>1. TypeOK /\ Chain /\ Holds("place", o) /\ place[o] = "trade"
  BY DEF IInv, CreateTrade
<1>2. RowsKept /\ orders' = orders
  BY <1>1, RowsUntouched DEF CreateTrade
<1>3. /\ pass' = pass /\ queue' = queue /\ cancel' = cancel
      /\ posted' = posted /\ balance' = balance
      /\ place' = [place EXCEPT ![o] = "maker"]
  BY DEF CreateTrade, GoPlace
<1>4. PICK f : f = CurrentFill
  OBVIOUS
<1>5. f \in FillRecords /\ FillSound(o, f) /\ pass.next \in DOMAIN pass.fills
  BY <1>1, <1>4, CurrentFacts
<1>6. LockRef(o) \in posted /\ TradeRef(o, f.maker) \in posted
  BY <1>1, <1>4 DEF IInv, Reserved, PassSound, LockTaken, InPass
<1>7. PICK row : row = TradeRow(o, f)
  OBVIOUS
<1>8. row \in TradeRows /\ Settled(row) /\ Agreed(row)
  BY <1>5, <1>6, <1>7, NewRow
<1>9. trades' = trades \/ trades' = Append(trades, row)
  <2>1. trades' = trades \/ trades' = Append(trades, TradeRow(o, CurrentFill))
    BY DEF CreateTrade
  <2>2. TradeRow(o, CurrentFill) = row
    BY <1>4, <1>7
  <2> QED
    BY <2>1, <2>2
<1>10. trades \in Seq(TradeRows)
  BY <1>1, TypeParts
<1>11. trades' \in Seq(TradeRows)
  BY <1>8, <1>9, <1>10
<1>12. \A k \in DOMAIN trades' : \/ trades'[k] = row
                                 \/ k \in DOMAIN trades /\ trades'[k] = trades[k]
  <2>1. CASE trades' = Append(trades, row)
    BY <2>1, <1>8, <1>10
  <2> QED
    BY <2>1, <1>9
<1>13. /\ place' \in [Orders -> PlaceStates] /\ place'[o] = "maker"
       /\ \A x \in Orders : x # o => place'[x] = place[x]
  BY <1>1, <1>3, PlaceTyped DEF PlaceStates, InPass
<1>14. TypeOK'
  BY <1>1, <1>2, <1>3, <1>11, <1>13, TypeParts, TypeKept DEF CreateTrade
<1>15. Chain'
  BY <1>1, <1>2, <1>3, PlaceMoves DEF InPass, RowsKept
<1>16. Reserved'
  BY <1>1, <1>2, <1>3, <1>13, ReservedKept DEF LockTaken, InPass
<1>17. PassSound'
  BY <1>1, <1>2, <1>3, <1>5, PassMoves DEF InPass
<1>18. PricesKept'
  BY <1>2 DEF PricesKept, IInv, Orders
<1>19. Tape'
  <2>1. \A k \in DOMAIN trades : Settled(trades[k]) /\ Agreed(trades[k])
    BY TapeByRow DEF IInv
  <2>2. \A k \in DOMAIN trades' : Settled(trades'[k]) /\ Agreed(trades'[k])
    BY <2>1, <1>8, <1>12
  <2> QED
    BY <2>2, <1>2, <1>3 DEF Tape, TradesAreSettled, TradesWithinLimits, Settled,
       Agreed, WithinLimit, TradeRef, LockRef
<1> QED
  BY <1>14, <1>15, <1>16, <1>17, <1>18, <1>19 DEF IInv

(* After a fill: the next one, or the taker.                               *)
LEMMA NextFill ==
    ASSUME TypeOK, NEW o \in Orders, AfterFill(o, pass.next + 1)
    PROVE  \E pc \in {"settle", "finalize"} :
              /\ place' = [place EXCEPT ![o] = pc]
              /\ pass' \in Passes /\ pass'.fills = pass.fills
              /\ pass'.next = pass.next + 1
              /\ pass'.filled = pass.filled /\ pass'.quote = pass.quote
              /\ pc = "settle" => pass'.next \in DOMAIN pass.fills
              /\ pc = "finalize" => pass'.next > Len(pass.fills)
<1>1. /\ pass \in Passes /\ pass.next \in Nat \ {0} /\ Len(pass.fills) \in Nat
      /\ DOMAIN pass.fills = 1..Len(pass.fills)
  BY PassFacts, TypeParts
<1>2. PICK n \in Nat \ {0} : n = pass.next + 1
  BY <1>1
<1>3. pass' = [pass EXCEPT !.next = n]
  BY <1>2 DEF AfterFill
<1>4. /\ pass' \in Passes /\ pass'.fills = pass.fills /\ pass'.next = n
      /\ pass'.filled = pass.filled /\ pass'.quote = pass.quote
  BY <1>1, <1>3 DEF Passes
<1>5. PICK pc : pc = IF n > Len(pass.fills) THEN "finalize" ELSE "settle"
  OBVIOUS
<1>6. place' = [place EXCEPT ![o] = pc]
  BY <1>2, <1>5 DEF AfterFill, GoPlace
<1>7. pc \in {"settle", "finalize"}
  BY <1>5
<1>8. /\ pc = "settle" => n \in DOMAIN pass.fills
      /\ pc = "finalize" => n > Len(pass.fills)
  BY <1>1, <1>5
<1> QED
  BY <1>2, <1>4, <1>6, <1>7, <1>8

(* The maker's row advances by the fill, and no other row changes.         *)
LEMMA UpdateMakerRows ==
    ASSUME IInv, NEW o \in Orders, UpdateMaker(o)
    PROVE  \E m \in Orders :
              /\ m = CurrentFill.maker /\ m # o /\ LockRef(m) \in posted
              /\ RowsKept /\ \A x \in Orders : x # m => orders'[x] = orders[x]
              /\ orders'[m].filled = orders[m].filled + CurrentFill.quantity
              /\ orders'[m].spent = orders[m].spent + CurrentFill.quoteAmount
              /\ orders'[m].locked = orders[m].locked
              /\ orders'[m].budget = orders[m].budget
              /\ orders'[m].status
                    = IF orders[m].quantity
                            - (orders[m].filled + CurrentFill.quantity) <= 0
                      THEN "FILLED" ELSE "PARTIALLY_FILLED"
<1>1. TypeOK /\ place[o] = "maker"
  BY DEF IInv, UpdateMaker
<1>2. PICK f : f = CurrentFill
  OBVIOUS
<1>3. /\ f.maker \in Orders /\ f.quantity \in Nat /\ f.quoteAmount \in Nat
      /\ FillSound(o, f) /\ pass.next \in DOMAIN pass.fills
  BY <1>1, <1>2, CurrentFacts
<1>4. PICK m \in Orders : m = f.maker
  BY <1>3
<1>5. orders[m] \in OrderRows /\ orders[m].filled \in Nat /\ orders[m].spent \in Nat
  BY <1>1, TypeParts, RowsTyped
<1>6. PICK filled \in Nat : filled = orders[m].filled + f.quantity
  BY <1>3, <1>5
<1>7. PICK spent \in Nat : spent = orders[m].spent + f.quoteAmount
  BY <1>3, <1>5
<1>8. PICK closed \in BOOLEAN : closed <=> orders[m].quantity - filled <= 0
  OBVIOUS
<1>9. PICK status \in Statuses : status = IF closed THEN "FILLED" ELSE "PARTIALLY_FILLED"
  BY DEF Statuses, Open, Terminal
<1>10. PICK row : row = [orders[m] EXCEPT !.filled = filled, !.spent = spent,
                                          !.status = status]
  OBVIOUS
<1>11. /\ row \in OrderRows /\ row.filled = filled /\ row.spent = spent
       /\ row.user = orders[m].user /\ row.side = orders[m].side
       /\ row.type = orders[m].type /\ row.price = orders[m].price
       /\ row.quantity = orders[m].quantity /\ row.locked = orders[m].locked
       /\ row.budget = orders[m].budget /\ row.status = status
  BY <1>5, <1>10 DEF OrderRows
<1>12. orders' = [orders EXCEPT ![m] = row]
  <2>1. orders' = [orders EXCEPT ![m].filled = filled, ![m].spent = spent,
                                 ![m].status = status]
    BY <1>2, <1>4, <1>6, <1>7, <1>8, <1>9 DEF UpdateMaker
  <2> QED
    BY <2>1, <1>10
<1>13. FilledRowAllowed(m, filled)
  BY <1>2, <1>4, <1>6 DEF UpdateMaker
<1>14. BudgetDriven(row) \/ row.filled <= row.quantity
  BY <1>11, <1>13 DEF FilledRowAllowed, BudgetDriven
<1>15. /\ RowsKept /\ orders'[m] = row
       /\ \A x \in Orders : x # m => orders'[x] = orders[x]
  BY <1>1, <1>11, <1>12, <1>14, RowChange
<1> QED
  BY <1>2, <1>3, <1>4, <1>6, <1>7, <1>8, <1>9, <1>11, <1>15 DEF FillSound

LEMMA UpdateMakerKeeps ==
    ASSUME IInv, NEW o \in Orders, UpdateMaker(o)
    PROVE  IInv'
<1>1. /\ TypeOK /\ Chain /\ Holds("place", o) /\ place[o] = "maker"
      /\ pass.next \in DOMAIN pass.fills
  BY CurrentFacts DEF IInv, UpdateMaker
<1>2. PICK m \in Orders :
         /\ LockRef(m) \in posted /\ RowsKept
         /\ \A x \in Orders : x # m => orders'[x] = orders[x]
  BY UpdateMakerRows
<1>3. /\ posted' = posted /\ balance' = balance /\ trades' = trades
       /\ queue' = queue /\ cancel' = cancel
  BY DEF UpdateMaker
<1>4. PICK pc \in {"settle", "finalize", "makerRelease"} :
          /\ place' = [place EXCEPT ![o] = pc]
          /\ pass' \in Passes /\ pass'.fills = pass.fills
          /\ pc \in {"settle", "makerRelease"} => pass'.next \in DOMAIN pass.fills
  <2>1. CASE GoPlace(o, "makerRelease") /\ UNCHANGED pass
    BY <2>1, <1>1, TypeParts DEF GoPlace
  <2>2. CASE AfterFill(o, pass.next + 1)
    <3>1. PICK pc \in {"settle", "finalize"} :
              /\ place' = [place EXCEPT ![o] = pc]
              /\ pass' \in Passes /\ pass'.fills = pass.fills
              /\ pc = "settle" => pass'.next \in DOMAIN pass.fills
      BY <2>2, <1>1, NextFill
    <3> QED
      BY <3>1
  <2> QED
    BY <2>1, <2>2 DEF UpdateMaker
<1>5. /\ place' \in [Orders -> PlaceStates] /\ place'[o] = pc
       /\ \A x \in Orders : x # o => place'[x] = place[x]
  BY <1>1, <1>4, PlaceTyped DEF PlaceStates, InPass
<1>6. TypeOK'
  BY <1>1, <1>2, <1>3, <1>4, <1>5, TypeParts, TypeKept DEF UpdateMaker
<1>7. Chain'
  BY <1>1, <1>2, <1>3, <1>4, PlaceMoves DEF InPass, RowsKept
<1>8. Reserved'
  BY <1>1, <1>2, <1>3, <1>5, ReservedKept DEF LockTaken, InPass
<1>9. PassSound'
  BY <1>1, <1>2, <1>3, <1>4, PassMoves DEF InPass
<1>10. PricesKept' /\ Tape'
  BY <1>2, <1>3, Quiet
<1> QED
  BY <1>6, <1>7, <1>8, <1>9, <1>10 DEF IInv

LEMMA ReleaseMakerKeeps ==
    ASSUME IInv, NEW o \in Orders, ReleaseMaker(o)
    PROVE  IInv'
<1>1. TypeOK /\ Chain /\ Holds("place", o) /\ place[o] = "makerRelease"
  BY DEF IInv, ReleaseMaker
<1>2. RowsKept /\ orders' = orders
  BY <1>1, RowsUntouched DEF ReleaseMaker
<1>3. trades' = trades /\ queue' = queue /\ cancel' = cancel
  BY DEF ReleaseMaker
<1>4. PICK m \in Orders : m = CurrentFill.maker
  BY <1>1, CurrentFacts
<1>5. releaseSurplus(m)
  BY <1>4 DEF ReleaseMaker
<1>6. /\ balance' \in [Accounts -> Int] /\ posted \subseteq posted'
      /\ posted' \subseteq References
  BY <1>1, <1>5, Releases
<1>7. PICK pc \in {"settle", "finalize"} :
         /\ place' = [place EXCEPT ![o] = pc]
         /\ pass' \in Passes /\ pass'.fills = pass.fills
         /\ pc = "settle" => pass'.next \in DOMAIN pass.fills
  BY <1>1, NextFill DEF ReleaseMaker
<1>8. /\ place' \in [Orders -> PlaceStates] /\ place'[o] = pc
      /\ \A x \in Orders : x # o => place'[x] = place[x]
  BY <1>1, <1>7, PlaceTyped DEF PlaceStates, InPass
<1>9. TypeOK'
  BY <1>1, <1>2, <1>3, <1>6, <1>7, <1>8, TypeParts, TypeKept DEF ReleaseMaker
<1>10. Chain'
  BY <1>1, <1>2, <1>3, <1>7, PlaceMoves DEF InPass, RowsKept
<1>11. Reserved'
  BY <1>1, <1>2, <1>6, <1>8, ReservedKept DEF LockTaken, InPass
<1>12. PassSound'
  BY <1>1, <1>2, <1>6, <1>7, PassMoves DEF InPass
<1>13. PricesKept' /\ Tape'
  BY <1>2, <1>3, <1>6, Quiet
<1> QED
  BY <1>9, <1>10, <1>11, <1>12, <1>13 DEF IInv

(* The last step of a placement that held the lock.                        *)
LEMMA PlacementEnds ==
    ASSUME IInv, NEW o \in Orders, Holds("place", o), RowsKept,
           place[o] \in LockTaken \/ orders'[o].status \in Open => LockRef(o) \in posted',
           \A x \in Orders : x # o => orders'[x] = orders[x],
           NEW pc \in {"done", "failed"}, GoPlace(o, pc), Unlock,
           balance' \in [Accounts -> Int], posted \subseteq posted',
           posted' \subseteq References, trades' = trades, cancel' = cancel,
           errors' \in 0..MaxErrors, crashes' \in 0..MaxCrashes
    PROVE  IInv'
<1>1. TypeOK /\ Chain /\ place' = [place EXCEPT ![o] = pc]
  BY DEF IInv, GoPlace
<1>2. /\ place' \in [Orders -> PlaceStates] /\ place'[o] = pc
      /\ \A x \in Orders : x # o => place'[x] = place[x]
  BY <1>1, PlaceTyped DEF PlaceStates
<1>3. queue' \in Seq(Tasks) /\ queue' = Tail(queue)
  BY <1>1, QueueTyped DEF Unlock
<1>4. pass' \in Passes
  <2>1. pass' = NoPass
    BY DEF Unlock
  <2>2. FillRecords' = FillRecords
    BY DEF RowsKept, FillRecords
  <2> QED
    BY <2>1, NoPassTyped
<1>5. TypeOK'
  BY <1>1, <1>2, <1>3, <1>4, TypeParts, TypeKept
<1>6. Orders' = Orders
  BY DEF RowsKept
<1>7. Chain' /\ \A x \in Orders : place'[x] \notin InPass
  BY <1>1, <1>3, <1>6, PlaceEnds DEF InPass
<1>8. Reserved'
  BY <1>2, ReservedKept DEF LockTaken, InPass
<1>9. PassSound'
  BY <1>6, <1>7, PassGone
<1>10. PricesKept' /\ Tape'
  BY Quiet
<1> QED
  BY <1>5, <1>7, <1>8, <1>9, <1>10 DEF IInv

LEMMA FinalizeTakerRows ==
    ASSUME IInv, NEW o \in Orders, FinalizeTaker(o)
    PROVE  /\ RowsKept /\ \A x \in Orders : x # o => orders'[x] = orders[x]
           /\ orders'[o].filled = pass.filled /\ orders'[o].spent = pass.quote
           /\ orders'[o].locked = orders[o].locked /\ orders'[o].budget = orders[o].budget
           /\ orders'[o].status = TakerStatus(o) /\ TakerStatus(o) # "PENDING"
<1>1. TypeOK
  BY DEF IInv, FinalizeTaker
<1>2. PICK filled \in Nat : filled = pass.filled
  BY <1>1, PassFacts
<1>3. PICK spent \in Nat : spent = pass.quote
  BY <1>1, PassFacts
<1>4. /\ orders[o] \in OrderRows /\ orders[o].type \in {"LIMIT", "MARKET"}
      /\ orders[o].quantity \in Nat
  BY <1>1, TypeParts, RowsTyped
<1>5. TakerStatus(o) \in Statuses /\ TakerStatus(o) # "PENDING"
  BY <1>2, <1>4 DEF TakerStatus, Statuses, Open, Terminal
<1>6. PICK status \in Statuses : status = TakerStatus(o)
  BY <1>5
<1>7. PICK row : row = [orders[o] EXCEPT !.filled = filled, !.spent = spent,
                                         !.status = status]
  OBVIOUS
<1>8. /\ row \in OrderRows /\ row.filled = filled /\ row.spent = spent
      /\ row.user = orders[o].user /\ row.side = orders[o].side
      /\ row.type = orders[o].type /\ row.price = orders[o].price
      /\ row.quantity = orders[o].quantity /\ row.locked = orders[o].locked
      /\ row.budget = orders[o].budget /\ row.status = status
  BY <1>4, <1>7 DEF OrderRows
<1>9. orders' = [orders EXCEPT ![o] = row]
  <2>1. orders' = [orders EXCEPT ![o].filled = filled, ![o].spent = spent,
                                 ![o].status = status]
    BY <1>2, <1>3, <1>6 DEF FinalizeTaker
  <2> QED
    BY <2>1, <1>7
<1>10. BudgetDriven(row) \/ row.filled <= row.quantity
  BY <1>2, <1>8 DEF FinalizeTaker, FilledRowAllowed, BudgetDriven
<1>11. /\ RowsKept /\ orders'[o] = row
       /\ \A x \in Orders : x # o => orders'[x] = orders[x]
  BY <1>1, <1>8, <1>9, <1>10, RowChange
<1> QED
  BY <1>2, <1>3, <1>5, <1>6, <1>8, <1>11

LEMMA FinalizeTakerKeeps ==
    ASSUME IInv, NEW o \in Orders, FinalizeTaker(o)
    PROVE  IInv'
<1>1. TypeOK /\ Chain /\ Holds("place", o) /\ place[o] = "finalize"
  BY DEF IInv, FinalizeTaker
<1>2. RowsKept /\ \A x \in Orders : x # o => orders'[x] = orders[x]
  BY FinalizeTakerRows
<1>3. /\ posted' = posted /\ balance' = balance /\ trades' = trades
       /\ cancel' = cancel /\ errors' = errors /\ crashes' = crashes
  BY DEF FinalizeTaker
<1>4. LockRef(o) \in posted
  BY <1>1 DEF IInv, Reserved, LockTaken, InPass
<1>5. CASE GoPlace(o, "done") /\ Unlock
  BY <1>5, <1>1, <1>2, <1>3, <1>4, TypeParts, PlacementEnds
<1>6. CASE GoPlace(o, "takerRelease") /\ UNCHANGED <<queue, pass>>
  <2>1. place' = [place EXCEPT ![o] = "takerRelease"] /\ queue' = queue /\ pass' = pass
    BY <1>6 DEF GoPlace
  <2>2. /\ place' \in [Orders -> PlaceStates] /\ place'[o] = "takerRelease"
        /\ \A x \in Orders : x # o => place'[x] = place[x]
    BY <1>1, <2>1, PlaceTyped DEF PlaceStates, InPass
  <2>3. TypeOK'
    BY <1>1, <1>2, <1>3, <2>1, <2>2, TypeParts, TypeKept
  <2>4. Chain'
    BY <1>1, <1>2, <1>3, <2>1, PlaceMoves DEF InPass, RowsKept
  <2>5. Reserved'
    BY <1>2, <1>3, <1>4, <2>2, ReservedKept
  <2>6. PassSound'
    BY <1>1, <1>2, <1>3, <2>1, PassMoves DEF InPass
  <2>7. PricesKept' /\ Tape'
    BY <1>2, <1>3, Quiet
  <2> QED
    BY <2>3, <2>4, <2>5, <2>6, <2>7 DEF IInv
<1> QED
  BY <1>5, <1>6 DEF FinalizeTaker

LEMMA ReleaseTakerKeeps ==
    ASSUME IInv, NEW o \in Orders, ReleaseTaker(o)
    PROVE  IInv'
<1>1. TypeOK /\ Holds("place", o) /\ place[o] = "takerRelease"
  BY DEF IInv, ReleaseTaker
<1>2. RowsKept /\ orders' = orders
  BY <1>1, RowsUntouched DEF ReleaseTaker
<1>3. /\ balance' \in [Accounts -> Int] /\ posted \subseteq posted'
      /\ posted' \subseteq References
  BY <1>1, Releases DEF ReleaseTaker
<1>4. LockRef(o) \in posted'
  BY <1>1, <1>3 DEF IInv, Reserved, LockTaken, InPass
<1> QED
  BY <1>1, <1>2, <1>3, <1>4, TypeParts, PlacementEnds DEF ReleaseTaker

-----------------------------------------------------------------------------
(* Cancellations, and requests that fail.                                  *)

(* The last step of a cancellation.                                        *)
LEMMA CancellationEnds ==
    ASSUME IInv, NEW o \in Orders, Holds("cancel", o), orders' = orders,
           NEW pc \in {"done", "failed"}, GoCancel(o, pc), Unlock,
           balance' \in [Accounts -> Int], posted \subseteq posted',
           posted' \subseteq References, trades' = trades, place' = place,
           errors' \in 0..MaxErrors, crashes' \in 0..MaxCrashes
    PROVE  IInv'
<1>1. TypeOK /\ Chain /\ cancel' = [cancel EXCEPT ![o] = pc]
  BY DEF IInv, GoCancel
<1>2. RowsKept /\ Orders' = Orders
  BY <1>1, RowsUntouched DEF RowsKept
<1>3. cancel' \in [Orders -> CancelStates]
  BY <1>1, CancelTyped DEF CancelStates
<1>4. queue' \in Seq(Tasks) /\ queue' = Tail(queue)
  BY <1>1, QueueTyped DEF Unlock
<1>5. pass' \in Passes
  BY NoPassTyped DEF Unlock
<1>6. TypeOK'
  BY <1>1, <1>2, <1>3, <1>4, <1>5, TypeParts, TypeKept
<1>7. Chain' /\ \A x \in Orders : place'[x] \notin InPass
  BY <1>1, <1>2, <1>4, CancelEnds DEF InCancel
<1>8. Reserved'
  BY <1>2, ReservedKept
<1>9. PassSound'
  BY <1>2, <1>7, PassGone
<1>10. PricesKept' /\ Tape'
  BY <1>2, Quiet
<1> QED
  BY <1>6, <1>7, <1>8, <1>9, <1>10 DEF IInv

LEMMA RequestCancelKeeps ==
    ASSUME IInv, NEW o \in Orders, RequestCancel(o)
    PROVE  IInv'
<1>1. TypeOK /\ Chain
  BY DEF IInv
<1>2. RowsKept /\ orders' = orders /\ Orders' = Orders
  BY <1>1, RowsUntouched DEF RequestCancel, RowsKept
<1>3. /\ posted' = posted /\ balance' = balance /\ pass' = pass /\ trades' = trades
      /\ place' = place
  BY DEF RequestCancel
<1>4. /\ cancel[o] \in {"none", "failed"} /\ cancel' = [cancel EXCEPT ![o] = "waiting"]
      /\ queue' = Append(queue, Task("cancel", o))
  BY DEF RequestCancel, GoCancel
<1>5. cancel' \in [Orders -> CancelStates]
  BY <1>1, <1>4, CancelTyped DEF CancelStates
<1>6. TypeOK'
  BY <1>1, <1>2, <1>3, <1>4, <1>5, TypeParts, TypeKept, QueueTyped DEF RequestCancel
<1>7. Chain'
  BY <1>1, <1>2, <1>3, <1>4, CancelJoins DEF InCancel
<1>8. Reserved'
  BY <1>2, <1>3, ReservedKept
<1>9. PassSound'
  BY <1>2, <1>3, PassStays
<1>10. PricesKept' /\ Tape'
  BY <1>2, <1>3, Quiet
<1> QED
  BY <1>6, <1>7, <1>8, <1>9, <1>10 DEF IInv

(* A cancellation that goes on keeps the lock and, but for the status of   *)
(* its order, the rows.                                                    *)
LEMMA CancellationGoesOn ==
    ASSUME IInv, NEW o \in Orders, Holds("cancel", o), NEW pc \in InCancel,
           GoCancel(o, pc), RowsKept,
           \A x \in Orders : orders'[x].status \in Open => orders[x].status \in Open,
           UNCHANGED <<balance, posted, trades, place, queue, pass, errors, crashes>>
    PROVE  IInv'
<1>1. TypeOK /\ Chain /\ Orders' = Orders
  BY DEF IInv, RowsKept
<1>2. /\ posted' = posted /\ balance' = balance /\ trades' = trades /\ queue' = queue
      /\ place' = place /\ pass' = pass /\ errors' = errors /\ crashes' = crashes
      /\ cancel' = [cancel EXCEPT ![o] = pc]
  BY DEF GoCancel
<1>3. cancel' \in [Orders -> CancelStates]
  BY <1>1, <1>2, CancelTyped DEF CancelStates
<1>4. TypeOK'
  BY <1>1, <1>2, <1>3, TypeParts, TypeKept
<1>5. Chain'
  BY <1>1, <1>2, CancelMoves
<1>6. Reserved'
  BY <1>2, ReservedKept
<1>7. PassSound'
  BY <1>2, PassStays
<1>8. PricesKept' /\ Tape'
  BY <1>2, Quiet
<1> QED
  BY <1>4, <1>5, <1>6, <1>7, <1>8 DEF IInv

LEMMA CheckCancelKeeps ==
    ASSUME IInv, NEW o \in Orders, CheckCancel(o)
    PROVE  IInv'
<1>1. /\ TypeOK /\ Holds("cancel", o) /\ orders' = orders
      /\ UNCHANGED <<balance, posted, trades, place, errors, crashes>>
  BY DEF IInv, CheckCancel
<1>2. CASE GoCancel(o, "update") /\ UNCHANGED <<queue, pass>>
  <2>1. "update" \in InCancel /\ RowsKept
    BY <1>1, RowsUntouched DEF InCancel
  <2> QED
    BY <1>1, <1>2, <2>1, CancellationGoesOn
<1>3. CASE GoCancel(o, "done") /\ Unlock
  BY <1>1, <1>3, TypeParts, CancellationEnds
<1> QED
  BY <1>2, <1>3 DEF CheckCancel

LEMMA CancelOrderKeeps ==
    ASSUME IInv, NEW o \in Orders, CancelOrder(o)
    PROVE  IInv'
<1>1. /\ TypeOK /\ Holds("cancel", o)
      /\ SetStatus(o, "CANCELLED") /\ GoCancel(o, "release")
      /\ UNCHANGED <<balance, posted, trades, place, queue, pass, errors, crashes>>
  BY DEF IInv, CancelOrder
<1>2. /\ RowsKept /\ orders'[o].status = "CANCELLED"
      /\ \A x \in Orders : x # o => orders'[x] = orders[x]
  BY <1>1, StatusChange DEF Statuses, Terminal
<1>3. "release" \in InCancel
  BY DEF InCancel
<1>4. \A x \in Orders : orders'[x].status \in Open => orders[x].status \in Open
  BY <1>2 DEF Open
<1> QED
  BY <1>1, <1>2, <1>3, <1>4, CancellationGoesOn

LEMMA ReleaseCancelledKeeps ==
    ASSUME IInv, NEW o \in Orders, ReleaseCancelled(o)
    PROVE  IInv'
<1>1. TypeOK
  BY DEF IInv
<1>2. /\ balance' \in [Accounts -> Int] /\ posted \subseteq posted'
      /\ posted' \subseteq References
  BY <1>1, Releases DEF ReleaseCancelled
<1> QED
  BY <1>1, <1>2, TypeParts, CancellationEnds DEF ReleaseCancelled

LEMMA FailCancelKeeps ==
    ASSUME IInv, NEW o \in Orders, Holds("cancel", o), FailCancel(o),
           errors' \in 0..MaxErrors
    PROVE  IInv'
<1>1. TypeOK
  BY DEF IInv
<1> QED
  BY <1>1, TypeParts, CancellationEnds DEF FailCancel

LEMMA FailPlaceKeeps ==
    ASSUME IInv, NEW o \in Orders, FailPlace(o), errors' \in 0..MaxErrors,
           place[o] \in {"lock", "reject", "open"} \/ Holds("place", o)
    PROVE  IInv'
<1>1. TypeOK /\ Chain
  BY DEF IInv
<1>2. RowsKept /\ orders' = orders /\ Orders' = Orders
  BY <1>1, RowsUntouched DEF FailPlace, RowsKept
<1>3. /\ posted' = posted /\ balance' = balance /\ trades' = trades
      /\ cancel' = cancel /\ crashes' = crashes
      /\ place' = [place EXCEPT ![o] = "failed"]
  BY DEF FailPlace, GoPlace
<1>4. CASE Holds("place", o)
  <2>1. GoPlace(o, "failed") /\ Unlock
    BY <1>4 DEF FailPlace
  <2>2. place[o] \in LockTaken \/ orders'[o].status \in Open => LockRef(o) \in posted'
    BY <1>2, <1>3 DEF IInv, Reserved
  <2> QED
    BY <1>1, <1>2, <1>3, <1>4, <2>1, <2>2, TypeParts, PlacementEnds
<1>5. CASE ~Holds("place", o)
  <2>1. queue' = queue /\ pass' = pass /\ place[o] \in {"lock", "reject", "open"}
    BY <1>5 DEF FailPlace
  <2>2. /\ place' \in [Orders -> PlaceStates] /\ place'[o] = "failed"
        /\ \A x \in Orders : x # o => place'[x] = place[x]
    BY <1>1, <1>3, PlaceTyped DEF PlaceStates
  <2>3. TypeOK'
    BY <1>1, <1>2, <1>3, <2>1, <2>2, TypeParts, TypeKept
  <2>4. Chain'
    BY <1>1, <1>2, <1>3, <2>1, PlaceMoves DEF InPass
  <2>5. Reserved'
    BY <1>2, <1>3, <2>2, ReservedKept DEF LockTaken, InPass
  <2>6. PassSound'
    BY <1>2, <1>3, <2>1, <2>2, PassStays DEF InPass
  <2>7. PricesKept' /\ Tape'
    BY <1>2, <1>3, Quiet
  <2> QED
    BY <2>3, <2>4, <2>5, <2>6, <2>7 DEF IInv
<1> QED
  BY <1>4, <1>5

LEMMA ErrorCounted ==
    ASSUME TypeOK, errors < MaxErrors, errors' = errors + 1
    PROVE  errors' \in 0..MaxErrors
<1>1. errors \in 0..MaxErrors /\ MaxErrors \in Nat
  BY NumbersAssumption DEF TypeOK
<1> QED
  BY <1>1

LEMMA CrashKeeps ==
    ASSUME IInv, Crash
    PROVE  IInv'
<1>1. TypeOK
  BY DEF IInv
<1>2. RowsKept /\ orders' = orders /\ Orders' = Orders
  BY <1>1, RowsUntouched DEF Crash, RowsKept
<1>3. /\ posted' = posted /\ balance' = balance /\ trades' = trades
      /\ errors' = errors /\ queue' = << >> /\ pass' = NoPass
  BY DEF Crash
<1>4. /\ place' = [o \in Orders |-> IF place[o] \in Ended THEN place[o] ELSE "failed"]
      /\ cancel' = [o \in Orders |-> IF cancel[o] \in Ended THEN cancel[o] ELSE "failed"]
  BY DEF Crash
<1>5. place' \in [Orders -> PlaceStates] /\ cancel' \in [Orders -> CancelStates]
  BY <1>1, <1>4, TypeParts DEF PlaceStates, CancelStates
<1>6. crashes' \in 0..MaxCrashes
  BY <1>1, NumbersAssumption DEF Crash, TypeOK
<1>7. queue' \in Seq(Tasks) /\ pass' \in Passes
  BY <1>3, NoPassTyped
<1>8. TypeOK'
  BY <1>1, <1>2, <1>3, <1>5, <1>6, <1>7, TypeParts, TypeKept
<1>9. \A x \in Orders : place'[x] \in Ended /\ cancel'[x] \in Ended
  BY <1>4 DEF Ended
<1>10. Chain'
  <2>1. \A x \in Orders : place'[x] \notin InPass /\ cancel'[x] \notin InCancel
    BY <1>9 DEF InPass, InCancel, Ended
  <2>2. DOMAIN queue' = {}
    BY <1>3
  <2> QED
    BY <1>2, <2>1, <2>2 DEF Chain, MarketLockExclusive, Queued
<1>11. Reserved'
  BY <1>2, <1>3, <1>9, ReservedKept DEF LockTaken, InPass, Ended
<1>12. PassSound'
  BY <1>2, <1>9, PassGone DEF InPass, Ended
<1>13. PricesKept' /\ Tape'
  BY <1>2, <1>3, Quiet
<1> QED
  BY <1>8, <1>10, <1>11, <1>12, <1>13 DEF IInv

-----------------------------------------------------------------------------
(* A new order.                                                            *)

LEMMA SeqSubset ==
    ASSUME NEW S, NEW T, S \subseteq T, NEW s \in Seq(S)
    PROVE  s \in Seq(T)
<1>1. Len(s) \in Nat /\ s = [j \in 1..Len(s) |-> s[j]]
      /\ \A j \in 1..Len(s) : s[j] \in T
  OBVIOUS
<1> QED
  BY <1>1

Grown(S, s, n, e, t) ==
    /\ t \in [1..(n + 1) -> S] /\ t[n + 1] = e
    /\ \A j \in 1..n : t[j] = s[j]

LEMMA OneMore ==
    ASSUME NEW S, NEW n \in Nat, NEW s \in [1..n -> S], NEW e \in S,
           NEW t, t = Append(s, e)
    PROVE  Grown(S, s, n, e, t)
<1>1. s = [j \in 1..n |-> s[j]] /\ \A j \in 1..n : s[j] \in S
  OBVIOUS
<1>2. s \in Seq(S)
  BY <1>1
<1>3. Len(s) = n
  BY <1>2, LenProperties
<1>4. /\ Append(s, e) \in Seq(S) /\ Len(Append(s, e)) = n + 1
      /\ Append(s, e)[n + 1] = e /\ \A j \in 1..n : Append(s, e)[j] = s[j]
  BY <1>2, <1>3, AppendProperties
<1>5. Append(s, e) \in [1..(n + 1) -> S]
  BY <1>4, LenProperties
<1> QED
  BY <1>4, <1>5 DEF Grown

(* The new order is the last one, and its placement the only new request.  *)
LEMMA NewOrder ==
    ASSUME TypeOK, NEW input \in OrderInputs, PlaceOrder(input),
           NEW n \in Nat, n = Len(orders)
    PROVE  /\ Orders = 1..n /\ orders' \in Seq(OrderRows) /\ Len(orders') = n + 1
           /\ Orders' = 1..(n + 1) /\ \A x \in Orders : orders'[x] = orders[x]
           /\ orders'[n + 1].status = "PENDING" /\ orders'[n + 1].filled = 0
           /\ orders'[n + 1].quantity = input.quantity
           /\ orders'[n + 1].type = input.type /\ orders'[n + 1].price = input.price
           /\ orders'[n + 1].side = input.side /\ orders'[n + 1].user = input.user
           /\ orders'[n + 1].budget = input.budget /\ orders'[n + 1].spent = 0
           /\ orders'[n + 1].locked = computeLockRequirement(orders'[n + 1])
           /\ place' \in [Orders' -> PlaceStates] /\ place'[n + 1] = "lock"
           /\ \A x \in Orders : place'[x] = place[x]
           /\ cancel' \in [Orders' -> CancelStates] /\ cancel'[n + 1] = "none"
           /\ \A x \in Orders : cancel'[x] = cancel[x]
<1> DEFINE row == [user |-> input.user, side |-> input.side, type |-> input.type,
                   price |-> input.price, quantity |-> input.quantity,
                   budget |-> input.budget, locked |-> computeLockRequirement(input),
                   filled |-> 0, spent |-> 0, status |-> "PENDING"]
<1>1. /\ input.user \in Users /\ input.side \in {"BUY", "SELL"}
      /\ input.type \in {"LIMIT", "MARKET"} /\ input.price \in Nat
      /\ input.quantity \in Nat /\ input.budget \in Nat
      /\ input.type = "LIMIT" <=> input.price # NoPrice
  BY InputsAssumption
<1>2. row \in OrderRows
  <2>1. computeLockRequirement(input) \in Nat
    BY LockRequirementNat
  <2> QED
    BY <2>1, <1>1 DEF OrderRows, Statuses
<1>3. /\ row.status = "PENDING" /\ row.filled = 0 /\ row.quantity = input.quantity
      /\ row.type = input.type /\ row.price = input.price /\ row.side = input.side
      /\ row.user = input.user /\ row.budget = input.budget /\ row.spent = 0
      /\ row.locked = computeLockRequirement(row)
  BY DEF computeLockRequirement
<1> HIDE DEF row
<1>4. orders' = Append(orders, row)
  BY DEF PlaceOrder, row
<1>5. /\ orders \in Seq(OrderRows) /\ Orders = 1..n
  BY TypeParts, RowsTyped
<1>6. /\ orders' \in Seq(OrderRows) /\ Len(orders') = n + 1 /\ Orders' = 1..(n + 1)
      /\ orders'[n + 1] = row /\ \A x \in Orders : orders'[x] = orders[x]
  BY <1>2, <1>4, <1>5 DEF Orders
<1>7. /\ place' \in [Orders' -> PlaceStates] /\ place'[n + 1] = "lock"
       /\ \A x \in Orders : place'[x] = place[x]
  <2>1. PICK s \in [1..n -> PlaceStates] : s = place
    BY <1>5, TypeParts
  <2>2. "lock" \in PlaceStates
    BY DEF PlaceStates
  <2>3. PICK e \in PlaceStates : e = "lock"
    BY <2>2
  <2>4. PICK t : t = Append(s, e)
    OBVIOUS
  <2>5. place' = t
    BY <2>1, <2>3, <2>4 DEF PlaceOrder
  <2>6. Grown(PlaceStates, s, n, e, t)
    BY <2>4, OneMore
  <2>7. /\ t \in [1..(n + 1) -> PlaceStates] /\ t[n + 1] = "lock"
        /\ \A x \in Orders : t[x] = place[x]
    BY <2>1, <2>3, <2>6, <1>5 DEF Grown
  <2> QED
    BY <2>5, <2>7, <1>6
<1>8. /\ cancel' \in [Orders' -> CancelStates] /\ cancel'[n + 1] = "none"
       /\ \A x \in Orders : cancel'[x] = cancel[x]
  <2>1. PICK s \in [1..n -> CancelStates] : s = cancel
    BY <1>5, TypeParts
  <2>2. "none" \in CancelStates
    BY DEF CancelStates
  <2>3. PICK e \in CancelStates : e = "none"
    BY <2>2
  <2>4. PICK t : t = Append(s, e)
    OBVIOUS
  <2>5. cancel' = t
    BY <2>1, <2>3, <2>4 DEF PlaceOrder
  <2>6. Grown(CancelStates, s, n, e, t)
    BY <2>4, OneMore
  <2>7. /\ t \in [1..(n + 1) -> CancelStates] /\ t[n + 1] = "none"
        /\ \A x \in Orders : t[x] = cancel[x]
    BY <2>1, <2>3, <2>6, <1>5 DEF Grown
  <2> QED
    BY <2>5, <2>7, <1>6
<1> QED
  BY <1>3, <1>5, <1>6, <1>7, <1>8

LEMMA PlaceOrderKeeps ==
    ASSUME IInv, NEW input \in OrderInputs, PlaceOrder(input)
    PROVE  IInv'
<1>1. TypeOK
  BY DEF IInv
<1>2. /\ input.quantity \in Nat
      /\ input.type = "LIMIT" <=> input.price # NoPrice
  BY InputsAssumption
<1>3. PICK n \in Nat : n = Len(orders)
  BY <1>1, TypeParts
<1>4. PICK row : row = orders'[n + 1]
  OBVIOUS
<1>5. /\ row.status = "PENDING" /\ row.filled = 0 /\ row.quantity = input.quantity
      /\ row.type = input.type /\ row.price = input.price
  BY <1>1, <1>4, <1>3, NewOrder
<1>6. /\ Orders = 1..n
      /\ orders' \in Seq(OrderRows) /\ Len(orders') = n + 1 /\ Orders' = 1..(n + 1)
      /\ orders'[n + 1] = row /\ \A x \in Orders : orders'[x] = orders[x]
  BY <1>1, <1>4, <1>3, NewOrder
<1>7. n + 1 \notin Orders /\ Orders \subseteq Orders'
      /\ \A x \in Orders' : x \in Orders \/ x = n + 1
  BY <1>6
<1>8. /\ posted' = posted /\ balance' = balance /\ trades' = trades
       /\ errors' = errors /\ crashes' = crashes /\ queue' = queue /\ pass' = pass
  BY DEF PlaceOrder
<1>9. /\ place' \in [Orders' -> PlaceStates] /\ place'[n + 1] = "lock"
       /\ \A x \in Orders : place'[x] = place[x]
  BY <1>1, <1>3, NewOrder
<1>10. /\ cancel' \in [Orders' -> CancelStates] /\ cancel'[n + 1] = "none"
       /\ \A x \in Orders : cancel'[x] = cancel[x]
  BY <1>1, <1>3, NewOrder
<1>11. TypeOK'
  <2>1. Len(orders') <= MaxOrders
    BY <1>3, <1>6, NumbersAssumption DEF PlaceOrder
  <2>2. ASSUME NEW x \in Orders' PROVE FilledRowAllowed(x, orders[x].filled)'
    <3>1. CASE x \in Orders
      BY <3>1, <1>1, <1>6 DEF TypeOK, FilledRowAllowed, BudgetDriven
    <3>2. CASE x = n + 1
      BY <3>2, <1>2, <1>5, <1>6 DEF FilledRowAllowed
    <3> QED
      BY <3>1, <3>2, <1>7
  <2>3. posted' \subseteq References'
    BY <1>1, <1>7, <1>8, TypeParts DEF References
  <2>4. trades' \in Seq(TradeRows)'
    <3>1. TradeRows \subseteq TradeRows'
      BY <1>7 DEF TradeRows
    <3> QED
      BY <3>1, <1>1, <1>8, TypeParts, SeqSubset
  <2>5. queue' \in Seq(Tasks)'
    <3>1. Tasks \subseteq Tasks'
      BY <1>7 DEF Tasks
    <3> QED
      BY <3>1, <1>1, <1>8, TypeParts, SeqSubset
  <2>6. pass' \in Passes'
    <3>1. FillRecords \subseteq FillRecords'
      BY <1>7 DEF FillRecords
    <3>2. pass.fills \in Seq(FillRecords')
      BY <3>1, <1>1, PassFacts, SeqSubset
    <3>3. pass \in Passes
      BY <1>1, TypeParts
    <3> QED
      BY <3>2, <3>3, <1>8 DEF Passes
  <2> QED
    BY <1>1, <1>6, <1>8, <1>9, <1>10, <2>1, <2>2, <2>3, <2>4, <2>5, <2>6, TypeParts
       DEF TypeOK, References, PlaceStates, CancelStates, Passes, Tasks
<1>12. Chain'
  <2>1. \A kind, x : Holds(kind, x)' <=> Holds(kind, x)
    BY <1>8 DEF Holds
  <2>2. MarketLockExclusive'
    <3>1. \A x \in Orders' : place'[x] \in InPass => Holds("place", x)
      BY <1>7, <1>9 DEF IInv, Chain, MarketLockExclusive, InPass
    <3>2. \A x \in Orders' : cancel'[x] \in InCancel => Holds("cancel", x)
      BY <1>7, <1>10 DEF IInv, Chain, MarketLockExclusive, InCancel
    <3> QED
      BY <3>1, <3>2, <2>1, <1>8 DEF IInv, Chain, MarketLockExclusive
  <2>3. Queued'
    <3> SUFFICES ASSUME NEW k \in DOMAIN queue
                 PROVE  /\ queue[k].kind = "place" =>
                              place'[queue[k].order] \in InPass \cup {"waiting"}
                        /\ queue[k].kind = "cancel" =>
                              cancel'[queue[k].order] \in InCancel \cup {"waiting"}
      BY <1>8 DEF Queued
    <3>1. queue[k].order \in Orders
      BY <1>1, QueueFacts
    <3> QED
      BY <3>1, <1>9, <1>10 DEF IInv, Chain, Queued
  <2> QED
    BY <2>2, <2>3 DEF Chain
<1>13. Reserved'
  BY <1>5, <1>6, <1>7, <1>8, <1>9 DEF IInv, Reserved, LockTaken, InPass, Open, LockRef
<1>14. PassSound'
  <2>1. ASSUME NEW x \in Orders, place'[x] \in InPass
        PROVE  \A k \in DOMAIN pass.fills : FillSound(x, pass.fills[k])'
    <3> SUFFICES ASSUME NEW k \in DOMAIN pass.fills
                 PROVE  FillSound(x, pass.fills[k])'
      OBVIOUS
    <3>1. FillSound(x, pass.fills[k])
      BY <2>1, <1>9 DEF IInv, PassSound
    <3>2. pass.fills[k].maker \in Orders
      BY <1>1, PassFacts
    <3> QED
      BY <3>1, <3>2, <1>6, <1>8 DEF FillSound, LockRef
  <2>2. ASSUME NEW x \in Orders, place'[x] \in InPass
        PROVE  /\ place'[x] \in {"settle", "trade", "maker", "makerRelease"} =>
                     pass.next \in DOMAIN pass.fills
               /\ place'[x] = "trade" => TradeRef(x, CurrentFill.maker) \in posted
    BY <2>2, <1>9 DEF IInv, PassSound
  <2>3. place'[n + 1] \notin InPass
    BY <1>9 DEF InPass
  <2> QED
    BY <2>1, <2>2, <2>3, <1>7, <1>8 DEF PassSound, CurrentFill, TradeRef
<1>15. PricesKept'
  BY <1>2, <1>5, <1>6, <1>7 DEF IInv, PricesKept
<1>16. Tape'
  <2>1. \A k \in DOMAIN trades : Settled(trades[k]) /\ Agreed(trades[k])
    BY TapeByRow DEF IInv
  <2>2. \A k \in DOMAIN trades : trades[k].taker \in Orders /\ trades[k].maker \in Orders
    BY <1>1, TapeEntries
  <2>3. ASSUME NEW k \in DOMAIN trades
        PROVE  (Settled(trades[k]) /\ Agreed(trades[k]))'
    BY <2>1, <2>2, <1>6, <1>8 DEF Settled, Agreed, WithinLimit, TradeRef, LockRef
  <2> QED
    BY <2>3, <1>8 DEF Tape, TradesAreSettled, TradesWithinLimits, Settled, Agreed,
       WithinLimit
<1> QED
  BY <1>11, <1>12, <1>13, <1>14, <1>15, <1>16 DEF IInv

-----------------------------------------------------------------------------
LEMMA InitHolds == Init => IInv
<1> SUFFICES ASSUME Init PROVE IInv
  OBVIOUS
<1>1. /\ orders = << >> /\ trades = << >> /\ place = << >> /\ cancel = << >>
      /\ queue = << >> /\ posted = {} /\ pass = NoPass /\ errors = 0 /\ crashes = 0
  BY DEF Init
<1>2. Orders = {} /\ DOMAIN trades = {} /\ DOMAIN queue = {}
      /\ DOMAIN place = {} /\ DOMAIN cancel = {} /\ Len(orders) = 0
  BY <1>1 DEF Orders
<1>3. balance \in [Accounts -> Int]
  <2>1. ASSUME NEW name \in Accounts, name.kind = "USER_AVAILABLE"
        PROVE  Funds[<<name.owner, name.asset>>] \in Nat
    <3>1. name.owner \in Users /\ name.asset \in Assets
      BY <2>1 DEF Accounts, AccountNames, isUserAccount, UserKinds
    <3>2. <<name.owner, name.asset>> \in Users \X Assets
      BY <3>1
    <3> QED
      BY <3>2, FundsAssumption
  <2> QED
    BY <2>1 DEF Init
<1>4. TypeOK
  <2>1. MaxOrders \in Nat /\ 0 \in 0..MaxErrors /\ 0 \in 0..MaxCrashes
    BY NumbersAssumption
  <2>2. orders \in Seq(OrderRows) /\ trades \in Seq(TradeRows) /\ queue \in Seq(Tasks)
    BY <1>1
  <2>3. place \in [Orders -> PlaceStates] /\ cancel \in [Orders -> CancelStates]
    BY <1>1, <1>2
  <2>4. pass \in Passes
    BY <1>1, NoPassTyped
  <2> QED
    BY <1>1, <1>2, <1>3, <2>1, <2>2, <2>3, <2>4
       DEF TypeOK, Tasks, PlaceStates, CancelStates, Passes
<1> QED
  BY <1>2, <1>4 DEF IInv, Chain, MarketLockExclusive, Queued, Reserved, PassSound,
     PricesKept, Tape, TradesAreSettled, TradesWithinLimits

LEMMA StutterKeeps ==
    ASSUME IInv, UNCHANGED vars
    PROVE  IInv'
<1>1. /\ orders' = orders /\ posted' = posted /\ balance' = balance /\ pass' = pass
      /\ trades' = trades /\ place' = place /\ cancel' = cancel /\ queue' = queue
      /\ errors' = errors /\ crashes' = crashes
  BY DEF vars
<1>2. TypeOK /\ RowsKept /\ Orders' = Orders
  BY <1>1, RowsUntouched DEF IInv, RowsKept
<1>3. TypeOK'
  BY <1>1, <1>2, TypeParts, TypeKept
<1>4. Chain'
  BY <1>1, <1>2 DEF IInv, Chain, MarketLockExclusive, Queued, Holds
<1>5. Reserved' /\ PassSound' /\ PricesKept' /\ Tape'
  BY <1>1, <1>2, ReservedKept, PassStays, Quiet
<1> QED
  BY <1>3, <1>4, <1>5 DEF IInv

LEMMA PlaceStepKeeps ==
    ASSUME IInv, NEW o \in Orders, PlaceStep(o)
    PROVE  IInv'
<1>1. CASE StepRefused(o)
  <2>1. Holds("place", o) /\ FailPlace(o) /\ errors' = errors
    BY <1>1 DEF StepRefused
  <2> QED
    BY <2>1, FailPlaceKeeps, TypeParts DEF IInv
<1> QED
  BY <1>1, LockFundsKeeps, RejectOrderKeeps, OpenOrderKeeps, EnqueuePlaceKeeps,
     MatchOrderKeeps, SettleFillKeeps, CreateTradeKeeps, UpdateMakerKeeps,
     ReleaseMakerKeeps, FinalizeTakerKeeps, ReleaseTakerKeeps DEF PlaceStep

LEMMA CancelStepKeeps ==
    ASSUME IInv, NEW o \in Orders, CancelStep(o)
    PROVE  IInv'
<1>1. CASE CancelRefused(o)
  <2>1. Holds("cancel", o) /\ FailCancel(o) /\ errors' = errors
    BY <1>1 DEF CancelRefused
  <2> QED
    BY <2>1, FailCancelKeeps, TypeParts DEF IInv
<1> QED
  BY <1>1, CheckCancelKeeps, CancelOrderKeeps, ReleaseCancelledKeeps DEF CancelStep

LEMMA NextKeeps == IInv /\ [Next]_vars => IInv'
<1> SUFFICES ASSUME IInv, [Next]_vars PROVE IInv'
  OBVIOUS
<1>1. ASSUME NEW input \in OrderInputs, PlaceOrder(input) PROVE IInv'
  BY <1>1, PlaceOrderKeeps
<1>2. ASSUME NEW o \in Orders, PlaceStep(o) PROVE IInv'
  BY <1>2, PlaceStepKeeps
<1>3. ASSUME NEW o \in Orders, RequestCancel(o) PROVE IInv'
  BY <1>3, RequestCancelKeeps
<1>4. ASSUME NEW o \in Orders, CancelStep(o) PROVE IInv'
  BY <1>4, CancelStepKeeps
<1>5. ASSUME NEW o \in Orders, PlaceError(o) PROVE IInv'
  BY <1>5, ErrorCounted, FailPlaceKeeps DEF PlaceError, IInv
<1>6. ASSUME NEW o \in Orders, CancelError(o) PROVE IInv'
  BY <1>6, ErrorCounted, FailCancelKeeps DEF CancelError, IInv
<1>7. CASE Crash
  BY <1>7, CrashKeeps
<1>8. CASE Idle
  BY <1>8, StutterKeeps DEF Idle
<1>9. CASE UNCHANGED vars
  BY <1>9, StutterKeeps
<1> QED
  BY <1>1, <1>2, <1>3, <1>4, <1>5, <1>6, <1>7, <1>8, <1>9 DEF Next

LEMMA Inductive == Spec => []IInv
BY InitHolds, NextKeeps, PTL DEF Spec

(* Every row, reference and request stays well formed, and no order row    *)
(* holds more than its quantity filled (orders_filled_chk), for every      *)
(* interleaving of requests, failure and restart.                          *)
THEOREM TypeCorrect == Spec => []TypeOK
<1>1. IInv => TypeOK
  BY DEF IInv
<1> QED
  BY <1>1, Inductive, PTL

(* withMarketLock excludes, however many requests queue up, fail in the    *)
(* middle, or are lost in a restart: at most one is past its wait, it is   *)
(* the head of the chain, and none is in the chain twice.                  *)
THEOREM LockExcludes == Spec => []MarketLockExclusive
<1>1. IInv => MarketLockExclusive
  BY DEF IInv, Chain
<1> QED
  BY <1>1, Inductive, PTL

(* Whatever matchOrder finds in whatever book, and whatever other requests *)
(* write to the rows meanwhile: every trade is between two users, on       *)
(* opposite sides, with a LIMIT maker, at a price within both limits.      *)
THEOREM WithinLimits == Spec => []TradesWithinLimits
<1>1. IInv => TradesWithinLimits
  BY DEF IInv, Tape
<1> QED
  BY <1>1, Inductive, PTL

(* Every row of the public tape is backed by its settlement and by the     *)
(* reservations of both its orders, within the limits of both.             *)
THEOREM TapeSound == Spec => []TapeIsSound
<1>1. IInv => TapeIsSound
  BY DEF IInv, Tape, TapeIsSound
<1> QED
  BY <1>1, Inductive, PTL
-----------------------------------------------------------------------------
(* One request at a time.  FILLED, CANCELLED and REJECTED are final when   *)
(* requests do not overlap; when they do, a cancellation can run between   *)
(* the lock of an order and the write that opens it.                       *)

(* A book names each resting order once, so a pass has one fill of each.   *)
LEMMA BookNamesOnce ==
    ASSUME orders \in Seq(OrderRows), NEW o \in Orders,
           NEW j \in DOMAIN BookOf(o), NEW k \in DOMAIN BookOf(o),
           BookOf(o)[j].id = BookOf(o)[k].id
    PROVE  j = k
<1> DEFINE b == loadRestingBook(o)
           Row(m) == [id |-> m, price |-> orders[m].price,
                      remaining |-> IF BudgetDriven(orders[m]) THEN 0 ELSE Remaining(m)]
<1>1. PICK n \in Nat : b \in [1..n -> Resting(o)] /\ Enumerates(o, b, n)
  BY RestingBook
<1>2. BookOf(o) = [h \in DOMAIN b |-> Row(b[h])]
  BY DEF BookOf
<1>3. \A m : Row(m).id = m
  OBVIOUS
<1> HIDE DEF b, Row
<1>4. j \in 1..n /\ k \in 1..n /\ BookOf(o)[j].id = b[j] /\ BookOf(o)[k].id = b[k]
  BY <1>1, <1>2, <1>3
<1>5. PICK m \in Orders : m = b[j] /\ m = b[k]
  BY <1>1, <1>4 DEF Resting
<1>6. ~Before(o, m, m)
  <2>1. m \in Nat /\ orders[m].price \in Nat
    BY RowsTyped
  <2> QED
    BY <2>1 DEF Before, Ahead, NoPrice
<1>7. ~(j < k) /\ ~(k < j)
  BY <1>1, <1>4, <1>5, <1>6 DEF Enumerates
<1> QED
  BY <1>4, <1>7

LEMMA FillsOnce ==
    ASSUME NEW t, t.quantity \in Nat, t.budget \in Nat,
           NEW n \in Nat, NEW b \in [1..n -> Resters],
           \A h, k \in 1..n : b[h].id = b[k].id => h = k,
           NEW r, r = matchOrder(t, b)
    PROVE  \A j, k \in DOMAIN r.fills : r.fills[j].maker = r.fills[k].maker => j = k
<1> DEFINE L(k) == Loop(t, b)[1..k]
           Known(k, l) == \A j \in DOMAIN l.fills :
                             \E h \in 1..k : l.fills[j].maker = b[h].id
           Once(l) == \A j, k \in DOMAIN l.fills :
                         l.fills[j].maker = l.fills[k].maker => j = k
           S == {k \in Nat : k <= n => L(k) \in Loops /\ Known(k, L(k)) /\ Once(L(k))}
<1>1. DOMAIN b = 1..n
  OBVIOUS
<1>2. /\ L(0) = LoopStart(t)
      /\ \A k \in 1..n : L(k) = LoopBody(t, L(k - 1), b[k])
  <2>1. PICK g : g = Loop(t, b)
    OBVIOUS
  <2>2. /\ g[{}] = LoopStart(t)
        /\ \A k \in 1..n : g[1..k] = LoopBody(t, g[1..(k - 1)], b[k])
    BY <1>1, <2>1, LoopUnfolds
  <2>3. 1..0 = {}
    OBVIOUS
  <2>4. \A k : L(k) = g[1..k]
    BY <2>1
  <2> HIDE DEF L
  <2> QED
    BY <2>2, <2>3, <2>4
<1> HIDE DEF L
<1>3. 0 \in S
  <2>1. PICK z \in Int : z = IF BudgetDriven(t) THEN t.budget ELSE t.quantity
    OBVIOUS
  <2>2. PICK l : l = [remaining |-> z, fills |-> << >>, filled |-> 0, quote |-> 0,
                      stop |-> FALSE]
    OBVIOUS
  <2>3. << >> \in Seq(BookFills)
    OBVIOUS
  <2>4. l \in Loops /\ l.fills = << >>
    BY <2>2, <2>3 DEF Loops
  <2>5. L(0) = l /\ DOMAIN l.fills = {}
    BY <1>2, <2>1, <2>2, <2>4 DEF LoopStart
  <2> QED
    BY <2>4, <2>5
<1>4. ASSUME NEW k \in 0..(n - 1), k \in S PROVE k + 1 \in S
  <2> DEFINE l == L(k)
             x == L(k + 1)
             m == b[k + 1]
  <2>1. l \in Loops /\ Known(k, l) /\ Once(l)
    BY <1>4
  <2>2. k + 1 \in 1..n /\ m \in Resters
    BY <1>4
  <2>3. x = LoopBody(t, l, m)
    BY <1>2, <2>2
  <2> HIDE DEF l, x, m
  <2>4. x \in Loops
    BY <2>1, <2>2, <2>3, TurnFills
  <2>5. CASE x.fills = l.fills
    <3>1. Known(k + 1, x) /\ Once(x)
      BY <2>1, <2>5
    <3> QED
      BY <2>4, <3>1 DEF x
  <2>6. CASE \E f \in BookFills : x.fills = Append(l.fills, f) /\ FillOf(t, m, f)
    <3>1. PICK f \in BookFills : x.fills = Append(l.fills, f) /\ FillOf(t, m, f)
      BY <2>6
    <3>2. l.fills \in Seq(BookFills)
      BY <2>1 DEF Loops
    <3>3. /\ x.fills[Len(l.fills) + 1] = f
          /\ \A j \in DOMAIN x.fills : j = Len(l.fills) + 1 \/ j \in DOMAIN l.fills
          /\ \A j \in DOMAIN l.fills : x.fills[j] = l.fills[j]
      BY <3>1, <3>2
    <3>4. f.maker = m.id
      BY <3>1 DEF FillOf
    <3>5. Known(k + 1, x)
      BY <2>1, <2>2, <3>3, <3>4 DEF m
    <3>6. \A j \in DOMAIN l.fills : l.fills[j].maker # f.maker
      <4> SUFFICES ASSUME NEW j \in DOMAIN l.fills, l.fills[j].maker = f.maker
                   PROVE  FALSE
        OBVIOUS
      <4>1. PICK h \in 1..k : l.fills[j].maker = b[h].id
        BY <2>1
      <4> HIDE DEF S, Known, Once
      <4>2. h \in 1..n /\ k + 1 \in 1..n /\ h # k + 1
        BY <2>2
      <4>3. b[h].id = b[k + 1].id
        BY <4>1, <3>4 DEF m
      <4> QED
        BY <4>2, <4>3
    <3>7. Once(x)
      BY <2>1, <3>3, <3>6
    <3> QED
      BY <2>4, <3>5, <3>7 DEF x
  <2>7. \/ x.fills = l.fills
        \/ \E f \in BookFills : x.fills = Append(l.fills, f) /\ FillOf(t, m, f)
    BY <2>1, <2>2, <2>3, TurnFills
  <2> HIDE DEF S
  <2> QED
    BY <2>5, <2>6, <2>7
<1>5. \A k \in 0..n : k \in S
  <2> HIDE DEF S
  <2> QED
    BY <1>3, <1>4, InductionUpTo
<1>6. Once(L(n))
  <2>1. n \in S
    BY <1>5
  <2> QED
    BY <2>1
<1>7. r.fills = L(n).fills
  BY <1>1, MatchIsLoop DEF L
<1> QED
  BY <1>6, <1>7

OneRequest ==
    \A o, p \in Orders :
        place[o] \notin Ended => cancel[p] \in Ended /\ (place[p] \notin Ended => p = o)

(* Nothing closed the order of the placement under way ...                 *)
TakerLive ==
    \A o \in Orders :
        place[o] \notin Ended \cup {"takerRelease"} => orders[o].status \notin Terminal

(* ... nor the makers it still has to fill.                                *)
Settling == {"settle", "trade", "maker", "makerRelease"}

Due(pc) == IF pc = "makerRelease" THEN pass.next + 1 ELSE pass.next

MakersDue(k) ==
    \A j \in DOMAIN pass.fills :
        j >= k => orders[pass.fills[j].maker].status \in Open

MakersOnce ==
    \A j, k \in DOMAIN pass.fills : pass.fills[j].maker = pass.fills[k].maker => j = k

MakersLive ==
    \A o \in Orders : place[o] \in Settling => MakersOnce /\ MakersDue(Due(place[o]))

(* A cancellation finds its order as it has just read it.                  *)
CancelLive ==
    \A o \in Orders : cancel[o] = "update" => orders[o].status \in Cancellable

Alone == OneRequest /\ TakerLive /\ MakersLive /\ CancelLive

(* No step changes the row of a closed order.                              *)
ClosedStay == \A o \in Orders : orders[o].status \in Terminal => orders'[o] = orders[o]

LEMMA NoneUnderWay ==
    ASSUME TypeOK, MaxInFlight = 1, InFlight < MaxInFlight
    PROVE  \A x \in Orders : place[x] \in Ended /\ cancel[x] \in Ended
<1> DEFINE A == {x \in Orders : place[x] \notin Ended}
           B == {x \in Orders : cancel[x] \notin Ended}
<1>1. IsFiniteSet(Orders)
  <2>1. Orders = 1..Len(orders) /\ Len(orders) \in Nat
    BY TypeParts, RowsTyped
  <2> QED
    BY <2>1, FS_Interval
<1>2. A \subseteq Orders /\ B \subseteq Orders
  OBVIOUS
<1>3. InFlight = Cardinality(A) + Cardinality(B)
  BY DEF InFlight
<1> HIDE DEF A, B
<1>4. IsFiniteSet(A) /\ IsFiniteSet(B)
  BY <1>1, <1>2, FS_Subset
<1>5. Cardinality(A) \in Nat /\ Cardinality(B) \in Nat
  BY <1>4, FS_CardinalityType
<1>6. Cardinality(A) = 0 /\ Cardinality(B) = 0
  BY <1>3, <1>5
<1>7. A = {} /\ B = {}
  BY <1>4, <1>6, FS_EmptySet
<1> QED
  BY <1>7 DEF A, B

(* When no placement is under way afterwards ...                           *)
LEMMA NoneLeft ==
    ASSUME Orders' = Orders, \A x \in Orders : place'[x] \in Ended, CancelLive'
    PROVE  Alone'
BY DEF Alone, OneRequest, TakerLive, MakersLive, Settling, Ended

(* ... and when the one under way took a step.                             *)
LEMMA OneMoves ==
    ASSUME TypeOK, Alone, Orders' = Orders, NEW o \in Orders, place[o] \notin Ended,
           NEW pc \in PlaceStates, place' = [place EXCEPT ![o] = pc], cancel' = cancel,
           pc \notin Ended \cup {"takerRelease"} => orders'[o].status \notin Terminal,
           pc \in Settling => MakersOnce' /\ MakersDue(Due(pc))'
    PROVE  Alone'
<1>1. /\ place'[o] = pc /\ \A x \in Orders : x # o => place'[x] = place[x]
  BY PlaceTyped
<1>2. \A x \in Orders : cancel[x] \in Ended /\ (x # o => place[x] \in Ended)
  BY DEF Alone, OneRequest
<1>3. OneRequest'
  BY <1>1, <1>2 DEF OneRequest
<1>4. TakerLive'
  BY <1>1, <1>2 DEF TakerLive
<1>5. MakersLive'
  <2> SUFFICES ASSUME NEW x \in Orders, place'[x] \in Settling
               PROVE  (MakersOnce /\ MakersDue(Due(place[x])))'
    BY DEF MakersLive
  <2>1. x = o
    BY <1>1, <1>2 DEF Settling, Ended
  <2> QED
    BY <2>1, <1>1 DEF MakersDue, Due
<1>6. CancelLive'
  BY <1>2 DEF CancelLive, Ended
<1> QED
  BY <1>3, <1>4, <1>5, <1>6 DEF Alone

(* The makers of a pass that writes no row stay live.                      *)
LEMMA MakersStay ==
    ASSUME TypeOK, Alone, NEW o \in Orders, place[o] \in Settling,
           orders' = orders, pass'.fills = pass.fills, NEW pc,
           Due(pc)' >= Due(place[o]), Due(pc)' \in Nat
    PROVE  MakersOnce' /\ MakersDue(Due(pc))'
<1>1. MakersOnce /\ MakersDue(Due(place[o]))
  BY DEF Alone, MakersLive
<1>2. MakersOnce'
  BY <1>1 DEF MakersOnce
<1>3. PICK d \in Nat : d = Due(pc)'
  OBVIOUS
<1>4. DOMAIN pass.fills \subseteq Nat /\ pass.next \in Nat
  BY PassFacts
<1>5. Due(place[o]) \in Nat
  BY <1>4 DEF Due
<1>6. \A j \in DOMAIN pass.fills : j >= d => j >= Due(place[o])
  BY <1>3, <1>4, <1>5
<1>7. \A j \in DOMAIN pass'.fills : j >= d => orders'[pass'.fills[j].maker].status \in Open
  BY <1>1, <1>6 DEF MakersDue
<1> QED
  BY <1>2, <1>3, <1>7 DEF MakersDue, Due

LEMMA BeforeLockAlone ==
    ASSUME IInv, Alone, NEW o \in Orders,
           LockFunds(o) \/ RejectOrder(o) \/ OpenOrder(o) \/ EnqueuePlace(o)
    PROVE  Alone' /\ ClosedStay
<1>1. TypeOK
  BY DEF IInv
<1>2. CASE LockFunds(o)
  <2>1. /\ place[o] = "lock" /\ orders' = orders /\ cancel' = cancel
        /\ \E pc \in {"open", "reject"} : place' = [place EXCEPT ![o] = pc]
    BY <1>2 DEF LockFunds, GoPlace
  <2>2. PICK pc \in {"open", "reject"} : place' = [place EXCEPT ![o] = pc]
    BY <2>1
  <2>3. orders[o].status \notin Terminal /\ Orders' = Orders
    BY <2>1 DEF Alone, TakerLive, Ended, Orders
  <2>4. Alone'
    BY <1>1, <2>1, <2>2, <2>3, OneMoves DEF PlaceStates, Ended, Settling
  <2> QED
    BY <2>1, <2>4 DEF ClosedStay
<1>3. CASE RejectOrder(o)
  <2>1. /\ place[o] = "reject" /\ cancel' = cancel
        /\ place' = [place EXCEPT ![o] = "failed"]
    BY <1>3 DEF RejectOrder, GoPlace
  <2>2. /\ RowsKept /\ \A x \in Orders : x # o => orders'[x] = orders[x]
    BY <1>1, <1>3, StatusChange DEF RejectOrder, Statuses, Terminal
  <2>3. orders[o].status \notin Terminal /\ Orders' = Orders
    BY <2>1, <2>2 DEF Alone, TakerLive, Ended, RowsKept
  <2>4. Alone'
    BY <1>1, <2>1, <2>2, <2>3, OneMoves DEF PlaceStates, Ended, Settling
  <2> QED
    BY <2>2, <2>3, <2>4 DEF ClosedStay
<1>4. CASE OpenOrder(o)
  <2>1. /\ place[o] = "open" /\ cancel' = cancel
        /\ place' = [place EXCEPT ![o] = "enqueue"]
    BY <1>4 DEF OpenOrder, GoPlace
  <2>2. /\ RowsKept /\ \A x \in Orders : x # o => orders'[x] = orders[x]
        /\ orders'[o].status = "OPEN"
    BY <1>1, <1>4, StatusChange DEF OpenOrder, Statuses, Open
  <2>3. orders[o].status \notin Terminal /\ Orders' = Orders
    BY <2>1, <2>2 DEF Alone, TakerLive, Ended, RowsKept
  <2>4. orders'[o].status \notin Terminal
    BY <2>2 DEF Terminal
  <2>5. Alone'
    BY <1>1, <2>1, <2>2, <2>3, <2>4, OneMoves DEF PlaceStates, Ended, Settling
  <2> QED
    BY <2>2, <2>3, <2>5 DEF ClosedStay
<1>5. CASE EnqueuePlace(o)
  <2>1. /\ place[o] = "enqueue" /\ cancel' = cancel /\ orders' = orders
        /\ place' = [place EXCEPT ![o] = "waiting"]
    BY <1>5 DEF EnqueuePlace, GoPlace
  <2>2. orders[o].status \notin Terminal /\ Orders' = Orders
    BY <2>1 DEF Alone, TakerLive, Ended, Orders
  <2>3. Alone'
    BY <1>1, <2>1, <2>2, OneMoves DEF PlaceStates, Ended, Settling
  <2> QED
    BY <2>1, <2>3 DEF ClosedStay
<1> QED
  BY <1>2, <1>3, <1>4, <1>5

LEMMA MatchOrderAlone ==
    ASSUME IInv, Alone, NEW o \in Orders, MatchOrder(o)
    PROVE  Alone' /\ ClosedStay
<1>1. /\ TypeOK /\ orders \in Seq(OrderRows)
      /\ \A m \in Orders : FilledRowAllowed(m, orders[m].filled)
  BY DEF IInv, TypeOK
<1>2. /\ place[o] = "waiting" /\ orders' = orders /\ Orders' = Orders /\ cancel' = cancel
  BY DEF MatchOrder, Orders
<1>3. PICK r : /\ r = matchOrder(orders[o], BookOf(o))
               /\ pass' = [fills |-> r.fills, next |-> 1,
                           filled |-> r.filledQuantity, quote |-> r.quoteTotal]
               /\ GoPlace(o, IF r.fills = << >> THEN "finalize" ELSE "settle")
  BY DEF MatchOrder
<1>4. PICK pc \in {"finalize", "settle"} : place' = [place EXCEPT ![o] = pc]
  BY <1>3 DEF GoPlace
<1>5. MakersOnce'
  <2>1. PICK n \in Nat : BookOf(o) \in [1..n -> Resters]
    BY <1>1, BookTyped
  <2>2. \A j, k \in 1..n : BookOf(o)[j].id = BookOf(o)[k].id => j = k
    BY <1>1, <2>1, BookNamesOnce
  <2>3. PICK t, b : t = orders[o] /\ b = BookOf(o)
    OBVIOUS
  <2>4. t.quantity \in Nat /\ t.budget \in Nat
    BY <1>1, <2>3, RowsTyped
  <2>5. \A j, k \in DOMAIN r.fills : r.fills[j].maker = r.fills[k].maker => j = k
    BY <1>3, <2>1, <2>2, <2>3, <2>4, FillsOnce
  <2>6. pass'.fills = r.fills
    BY <1>3
  <2> QED
    BY <2>5, <2>6 DEF MakersOnce
<1>6. MakersDue(Due(pc))'
  <2>1. \A j \in DOMAIN r.fills : orders[r.fills[j].maker].status \in Open
    BY <1>3, FillsOfBook
  <2>2. pass'.fills = r.fills
    BY <1>3
  <2> QED
    BY <1>2, <2>1, <2>2 DEF MakersDue
<1>7. orders[o].status \notin Terminal
  BY <1>2 DEF Alone, TakerLive, Ended
<1>8. Alone'
  BY <1>1, <1>2, <1>4, <1>5, <1>6, <1>7, OneMoves DEF PlaceStates, InPass, Ended
<1> QED
  BY <1>2, <1>8 DEF ClosedStay

LEMMA FillStepAlone ==
    ASSUME IInv, Alone, NEW o \in Orders, SettleFill(o) \/ CreateTrade(o)
    PROVE  Alone' /\ ClosedStay
<1>1. TypeOK
  BY DEF IInv
<1>2. /\ place[o] \in {"settle", "trade"} /\ orders' = orders /\ Orders' = Orders
      /\ cancel' = cancel /\ pass' = pass
  BY DEF SettleFill, CreateTrade, Orders
<1>3. PICK pc \in {"trade", "maker"} : place' = [place EXCEPT ![o] = pc]
  BY DEF SettleFill, CreateTrade, GoPlace
<1>4. pass.next \in Nat /\ Due(pc)' = pass.next /\ Due(place[o]) = pass.next
  BY <1>1, <1>2, <1>3, PassFacts DEF Due
<1>5. MakersOnce' /\ MakersDue(Due(pc))'
  BY <1>1, <1>2, <1>4, MakersStay DEF Settling
<1>6. orders[o].status \notin Terminal
  BY <1>2 DEF Alone, TakerLive, Ended
<1>7. Alone'
  BY <1>1, <1>2, <1>3, <1>5, <1>6, OneMoves DEF PlaceStates, InPass, Ended
<1> QED
  BY <1>2, <1>7 DEF ClosedStay

LEMMA ReleaseMakerAlone ==
    ASSUME IInv, Alone, NEW o \in Orders, ReleaseMaker(o)
    PROVE  Alone' /\ ClosedStay
<1>1. TypeOK
  BY DEF IInv
<1>2. /\ place[o] = "makerRelease" /\ orders' = orders /\ Orders' = Orders
      /\ cancel' = cancel
  BY DEF ReleaseMaker, Orders
<1>3. PICK pc \in {"settle", "finalize"} :
         /\ place' = [place EXCEPT ![o] = pc]
         /\ pass'.fills = pass.fills /\ pass'.next = pass.next + 1
  BY <1>1, NextFill DEF ReleaseMaker
<1>4. pass.next \in Nat /\ Due(pc)' = pass.next + 1 /\ Due(place[o]) = pass.next + 1
  BY <1>1, <1>2, <1>3, PassFacts DEF Due
<1>5. MakersOnce' /\ MakersDue(Due(pc))'
  BY <1>1, <1>2, <1>3, <1>4, MakersStay DEF Settling
<1>6. orders[o].status \notin Terminal
  BY <1>2 DEF Alone, TakerLive, Ended
<1>7. Alone'
  BY <1>1, <1>2, <1>3, <1>5, <1>6, OneMoves DEF PlaceStates, InPass, Ended
<1> QED
  BY <1>2, <1>7 DEF ClosedStay

(* A pass writes to a maker once, and reaches it live.                     *)
LEMMA UpdateMakerAlone ==
    ASSUME IInv, Alone, NEW o \in Orders, UpdateMaker(o)
    PROVE  Alone' /\ ClosedStay
<1>1. TypeOK /\ place[o] = "maker" /\ cancel' = cancel
  BY DEF IInv, UpdateMaker
<1>2. PICK m \in Orders :
         /\ m = CurrentFill.maker /\ m # o /\ RowsKept
         /\ \A x \in Orders : x # m => orders'[x] = orders[x]
  BY UpdateMakerRows
<1>3. /\ Orders' = Orders /\ orders'[o] = orders[o]
      /\ \A x \in Orders : x # m => orders'[x] = orders[x]
  BY <1>2 DEF RowsKept
<1>4. MakersOnce /\ MakersDue(pass.next)
  BY <1>1 DEF Alone, MakersLive, Settling, Due
<1>5. /\ pass.next \in DOMAIN pass.fills /\ pass.next \in Nat
      /\ DOMAIN pass.fills \subseteq Nat
      /\ \A k \in DOMAIN pass.fills : pass.fills[k].maker \in Orders
  BY <1>1, CurrentFacts, PassFacts
<1>6. orders[m].status \notin Terminal
  BY <1>2, <1>4, <1>5 DEF MakersDue, CurrentFill, Open, Terminal
<1>7. PICK pc \in {"settle", "finalize", "makerRelease"} :
         /\ place' = [place EXCEPT ![o] = pc] /\ pass'.fills = pass.fills
         /\ Due(pc)' = pass.next + 1
  <2>1. CASE GoPlace(o, "makerRelease") /\ UNCHANGED pass
    BY <2>1 DEF GoPlace, Due
  <2>2. CASE AfterFill(o, pass.next + 1)
    <3>1. PICK pc \in {"settle", "finalize"} :
              /\ place' = [place EXCEPT ![o] = pc]
              /\ pass'.fills = pass.fills /\ pass'.next = pass.next + 1
      BY <2>2, <1>1, NextFill
    <3> QED
      BY <3>1 DEF Due
  <2> QED
    BY <2>1, <2>2 DEF UpdateMaker
<1>8. MakersOnce'
  BY <1>4, <1>7 DEF MakersOnce
<1>9. MakersDue(Due(pc))'
  <2> SUFFICES ASSUME NEW j \in DOMAIN pass.fills, j >= pass.next + 1
               PROVE  orders'[pass.fills[j].maker].status \in Open
    BY <1>7 DEF MakersDue, Due
  <2>1. j # pass.next /\ j >= pass.next
    BY <1>5
  <2>2. pass.fills[j].maker # m
    BY <1>2, <1>4, <1>5, <2>1 DEF MakersOnce, CurrentFill
  <2>3. orders[pass.fills[j].maker].status \in Open
    BY <1>4, <2>1 DEF MakersDue
  <2> QED
    BY <1>3, <1>5, <2>2, <2>3
<1>10. orders'[o].status \notin Terminal
  BY <1>1, <1>3 DEF Alone, TakerLive, Ended
<1>11. Alone'
  BY <1>1, <1>3, <1>7, <1>8, <1>9, <1>10, OneMoves DEF PlaceStates, InPass, Ended
<1> QED
  BY <1>3, <1>6, <1>11 DEF ClosedStay

(* The request at the head of the chain is under way.                      *)
LEMMA HolderUnderWay ==
    ASSUME IInv, NEW o \in Orders
    PROVE  /\ Holds("place", o) => place[o] \notin Ended
           /\ Holds("cancel", o) => cancel[o] \notin Ended
<1>1. TypeOK /\ Queued
  BY DEF IInv, Chain
<1>2. Holds("place", o) => place[o] \in InPass \cup {"waiting"}
  BY <1>1, QueueFacts DEF Queued
<1>3. Holds("cancel", o) => cancel[o] \in InCancel \cup {"waiting"}
  BY <1>1, QueueFacts DEF Queued
<1> QED
  BY <1>2, <1>3 DEF InPass, InCancel, Ended

LEMMA FinalizeTakerAlone ==
    ASSUME IInv, Alone, NEW o \in Orders, FinalizeTaker(o)
    PROVE  Alone' /\ ClosedStay
<1>1. TypeOK /\ place[o] = "finalize" /\ cancel' = cancel
  BY DEF IInv, FinalizeTaker
<1>2. Orders' = Orders /\ \A x \in Orders : x # o => orders'[x] = orders[x]
  BY FinalizeTakerRows DEF RowsKept
<1>3. PICK pc \in {"takerRelease", "done"} : place' = [place EXCEPT ![o] = pc]
  BY DEF FinalizeTaker, GoPlace
<1>4. orders[o].status \notin Terminal
  BY <1>1 DEF Alone, TakerLive, Ended
<1>5. Alone'
  BY <1>1, <1>2, <1>3, OneMoves DEF PlaceStates, InPass, Ended, Settling
<1> QED
  BY <1>2, <1>4, <1>5 DEF ClosedStay

(* The last step of a placement, whether it succeeds or fails.             *)
LEMMA LastStepAlone ==
    ASSUME TypeOK, Alone, NEW o \in Orders, place[o] \notin Ended,
           NEW pc \in {"done", "failed"}, GoPlace(o, pc),
           orders' = orders, cancel' = cancel
    PROVE  Alone' /\ ClosedStay
<1>1. Orders' = Orders /\ place' = [place EXCEPT ![o] = pc]
  BY DEF Orders, GoPlace
<1>2. Alone'
  BY <1>1, OneMoves DEF PlaceStates, Ended, Settling
<1> QED
  BY <1>2 DEF ClosedStay

LEMMA PlaceStepAlone ==
    ASSUME IInv, Alone, NEW o \in Orders, PlaceStep(o)
    PROVE  Alone' /\ ClosedStay
<1>1. TypeOK
  BY DEF IInv
<1>2. CASE ReleaseTaker(o)
  <2>1. Holds("place", o) /\ GoPlace(o, "done") /\ orders' = orders /\ cancel' = cancel
    BY <1>2 DEF ReleaseTaker
  <2> QED
    BY <1>1, <2>1, HolderUnderWay, LastStepAlone
<1>3. CASE StepRefused(o)
  <2>1. Holds("place", o) /\ GoPlace(o, "failed") /\ orders' = orders /\ cancel' = cancel
    BY <1>3 DEF StepRefused, FailPlace
  <2> QED
    BY <1>1, <2>1, HolderUnderWay, LastStepAlone
<1> QED
  BY <1>2, <1>3, BeforeLockAlone, MatchOrderAlone, FillStepAlone, UpdateMakerAlone,
     ReleaseMakerAlone, FinalizeTakerAlone DEF PlaceStep

(* A cancellation runs when no placement does.                             *)
LEMMA CancelAlone ==
    ASSUME IInv, Alone, NEW o \in Orders,
           \/ CancelStep(o)
           \/ CancelError(o)
    PROVE  Alone' /\ ClosedStay
<1>1. TypeOK
  BY DEF IInv
<1>2. Holds("cancel", o) /\ place' = place
  BY DEF CancelStep, CheckCancel, CancelOrder, ReleaseCancelled, CancelRefused,
     CancelError, FailCancel
<1>3. \A x \in Orders : place'[x] \in Ended
  BY <1>2, HolderUnderWay DEF Alone, OneRequest
<1>4. ASSUME NEW pc \in CancelStates \ {"update"}, GoCancel(o, pc), orders' = orders
      PROVE  Alone' /\ ClosedStay
  <2>1. Orders' = Orders
    BY <1>4 DEF Orders
  <2>2. cancel'[o] = pc /\ \A x \in Orders : x # o => cancel'[x] = cancel[x]
    BY <1>1, <1>4, CancelTyped DEF GoCancel
  <2>3. CancelLive'
    BY <1>4, <2>1, <2>2 DEF Alone, CancelLive
  <2> QED
    BY <1>3, <1>4, <2>1, <2>3, NoneLeft DEF ClosedStay
<1>5. CASE CheckCancel(o) /\ orders[o].status \in Cancellable /\ GoCancel(o, "update")
  <2>1. orders' = orders /\ Orders' = Orders
    BY <1>5 DEF CheckCancel, Orders
  <2>2. cancel'[o] = "update" /\ \A x \in Orders : x # o => cancel'[x] = cancel[x]
    BY <1>1, <1>5, CancelTyped DEF GoCancel, CancelStates, InCancel
  <2>3. CancelLive'
    BY <1>5, <2>1, <2>2 DEF Alone, CancelLive
  <2> QED
    BY <1>3, <2>1, <2>3, NoneLeft DEF ClosedStay
<1>6. CASE CancelOrder(o)
  <2>1. /\ cancel[o] = "update" /\ SetStatus(o, "CANCELLED") /\ GoCancel(o, "release")
    BY <1>6 DEF CancelOrder
  <2>2. RowsKept /\ \A x \in Orders : x # o => orders'[x] = orders[x]
    BY <1>1, <2>1, StatusChange DEF Statuses, Terminal
  <2>3. orders[o].status \notin Terminal /\ Orders' = Orders
    BY <2>1, <2>2 DEF Alone, CancelLive, Cancellable, Terminal, RowsKept
  <2>4. cancel'[o] = "release" /\ \A x \in Orders : x # o => cancel'[x] = cancel[x]
    BY <1>1, <2>1, CancelTyped DEF GoCancel, CancelStates, InCancel
  <2>5. CancelLive'
    BY <2>2, <2>3, <2>4 DEF Alone, CancelLive
  <2> QED
    BY <1>3, <2>2, <2>3, <2>5, NoneLeft DEF ClosedStay
<1>7. \/ \E pc \in {"done", "failed"} : GoCancel(o, pc) /\ orders' = orders
      \/ CheckCancel(o) /\ orders[o].status \in Cancellable /\ GoCancel(o, "update")
      \/ CancelOrder(o)
  BY DEF CancelStep, CheckCancel, ReleaseCancelled, CancelRefused, CancelError, FailCancel
<1>8. {"done", "failed"} \subseteq CancelStates \ {"update"}
  BY DEF CancelStates, InCancel
<1> QED
  BY <1>4, <1>5, <1>6, <1>7, <1>8

LEMMA PlaceOrderAlone ==
    ASSUME IInv, Alone, MaxInFlight = 1, NEW input \in OrderInputs, PlaceOrder(input)
    PROVE  Alone' /\ ClosedStay
<1>1. TypeOK /\ InFlight < MaxInFlight
  BY DEF IInv, PlaceOrder
<1>2. \A x \in Orders : place[x] \in Ended /\ cancel[x] \in Ended
  BY <1>1, NoneUnderWay
<1>3. PICK n \in Nat : n = Len(orders)
  BY <1>1, TypeParts
<1>4. /\ Orders = 1..n /\ Orders' = 1..(n + 1)
      /\ \A x \in Orders : orders'[x] = orders[x]
      /\ orders'[n + 1].status = "PENDING"
      /\ place'[n + 1] = "lock" /\ \A x \in Orders : place'[x] = place[x]
      /\ cancel'[n + 1] = "none" /\ \A x \in Orders : cancel'[x] = cancel[x]
  BY <1>1, <1>3, NewOrder
<1>5. \A x \in Orders' : x \in Orders \/ x = n + 1
  BY <1>4
<1>6. \A x \in Orders' : cancel'[x] \in Ended /\ (x # n + 1 => place'[x] \in Ended)
  BY <1>2, <1>4, <1>5 DEF Ended
<1>7. OneRequest'
  BY <1>6 DEF OneRequest
<1>8. TakerLive'
  BY <1>4, <1>6 DEF TakerLive, Terminal
<1>9. MakersLive'
  BY <1>4, <1>6 DEF MakersLive, Settling, Ended
<1>10. CancelLive'
  BY <1>6 DEF CancelLive, Ended
<1> QED
  BY <1>4, <1>7, <1>8, <1>9, <1>10 DEF Alone, ClosedStay

LEMMA NextAlone ==
    ASSUME IInv, Alone, MaxInFlight = 1, [Next]_vars
    PROVE  Alone' /\ ClosedStay
<1>1. TypeOK
  BY DEF IInv
<1>2. ASSUME NEW o \in Orders, RequestCancel(o) PROVE Alone' /\ ClosedStay
  <2>1. /\ InFlight < MaxInFlight /\ place' = place /\ orders' = orders
        /\ Orders' = Orders /\ GoCancel(o, "waiting")
    BY <1>2 DEF RequestCancel, Orders
  <2>2. cancel'[o] = "waiting" /\ \A x \in Orders : x # o => cancel'[x] = cancel[x]
    BY <1>1, <2>1, CancelTyped DEF GoCancel, CancelStates
  <2>3. CancelLive'
    BY <2>1, <2>2 DEF Alone, CancelLive
  <2> QED
    BY <1>1, <2>1, <2>3, NoneUnderWay, NoneLeft DEF ClosedStay
<1>3. ASSUME NEW o \in Orders, PlaceError(o) PROVE Alone' /\ ClosedStay
  <2>1. /\ GoPlace(o, "failed") /\ orders' = orders /\ cancel' = cancel
        /\ place[o] \in {"lock", "reject", "open"} \/ Holds("place", o)
    BY <1>3 DEF PlaceError, FailPlace
  <2>2. place[o] \notin Ended
    BY <2>1, HolderUnderWay DEF Ended
  <2> QED
    BY <1>1, <2>1, <2>2, LastStepAlone
<1>4. CASE Crash
  <2>1. /\ place' = [o \in Orders |-> IF place[o] \in Ended THEN place[o] ELSE "failed"]
        /\ cancel' = [o \in Orders |-> IF cancel[o] \in Ended THEN cancel[o] ELSE "failed"]
        /\ orders' = orders /\ Orders' = Orders
    BY <1>4 DEF Crash, Orders
  <2>2. \A x \in Orders : place'[x] \in Ended /\ cancel'[x] \in Ended
    BY <2>1 DEF Ended
  <2>3. CancelLive'
    BY <2>1, <2>2 DEF CancelLive, Ended
  <2> QED
    BY <2>1, <2>2, <2>3, NoneLeft DEF ClosedStay
<1>5. CASE UNCHANGED vars
  <2>1. orders' = orders /\ place' = place /\ cancel' = cancel /\ pass' = pass
        /\ Orders' = Orders
    BY <1>5 DEF vars, Orders
  <2> QED
    BY <2>1 DEF Alone, OneRequest, TakerLive, MakersLive, CancelLive, MakersOnce, MakersDue, Due,
       ClosedStay
<1> QED
  BY <1>2, <1>3, <1>4, <1>5, PlaceOrderAlone, PlaceStepAlone, CancelAlone DEF Next, Idle

(* A FILLED, CANCELLED or REJECTED order never changes again, as long as   *)
(* requests come one at a time: no pass writes to a maker it has closed,   *)
(* no retry or restart reopens an order, and a cancellation of a closed    *)
(* order does nothing.                                                     *)
THEOREM ClosedIsFinal ==
    ASSUME MaxInFlight = 1
    PROVE  Spec => TerminalIsFinal
<1>1. Init => Alone
  <2>1. Init => Orders = {}
    BY DEF Init, Orders
  <2> QED
    BY <2>1 DEF Alone, OneRequest, TakerLive, MakersLive, CancelLive
<1>2. IInv /\ Alone /\ [Next]_vars => Alone' /\ ClosedStay
  BY NextAlone
<1>3. Spec => []Alone
  BY <1>1, <1>2, Inductive, PTL DEF Spec
<1>4. Spec => [][ClosedStay]_vars
  BY <1>2, <1>3, Inductive, PTL DEF Spec
<1> QED
  BY <1>4 DEF TerminalIsFinal, ClosedStay
-----------------------------------------------------------------------------
(* Price-time priority, one request at a time: nothing that was ahead of   *)
(* the maker of a trade has anything left.  A pass may skip part of an     *)
(* order when the notional of a fill is not a whole number of quote units, *)
(* but then the trade row of that fill is refused, and the pass ends.      *)

LEMMA AffordsNothing ==
    ASSUME NEW x \in Nat, NEW p \in Nat, x * QScale < p
    PROVE  (x * QScale) \div p = 0
<1>1. x * QScale \in Nat /\ p \in Nat \ {0}
  BY QScaleAssumption
<1> DEFINE a == (x * QScale) \div p
<1>2. a \in Nat /\ a * p <= x * QScale
  BY <1>1, Floored
<1> HIDE DEF a
<1>3. a >= 1 => p <= a * p
  BY <1>1, <1>2
<1>4. a = 0
  BY <1>1, <1>2, <1>3
<1> QED
  BY <1>4 DEF a

(* A fill takes all of a resting order, or leaves the taker nothing to     *)
(* spend at its price.                                                     *)
Takes(t, m, n, f) ==
    /\ n.stop = FALSE /\ f.maker = m.id /\ f.price = m.price /\ m.price # 0
    /\ \/ f.quantity = m.remaining
       \/ ~BudgetDriven(t) /\ n.remaining = 0
       \/ /\ BudgetDriven(t) /\ n.remaining \in Int
          /\ Exact(f) /\ n.remaining > 0 => n.remaining * QScale < m.price

LEMMA TurnTakes ==
    ASSUME NEW t, NEW l \in Loops, NEW m \in Resters, ~l.stop, ~Breaks(t, l, m),
           ~(m.remaining <= 0), NEW n, n = LoopBody(t, l, m)
    PROVE  \E f \in BookFills : n.fills = Append(l.fills, f) /\ Takes(t, m, n, f)
<1> DEFINE q == FillQuantity(t, l, m)
           a == quoteFloor(m.price, q)
           f == [maker |-> m.id, price |-> m.price, quantity |-> q, quoteAmount |-> a]
           x == l.filled + q
           y == l.quote + a
           z == l.remaining - (IF BudgetDriven(t) THEN a ELSE q)
           fs == Append(l.fills, f)
           aff == (l.remaining * QScale) \div m.price
<1>1. l.remaining \in Int /\ m.price \in Nat /\ m.remaining \in Nat /\ m.id \in Nat
      /\ l.stop = FALSE /\ QScale \in Nat \ {0}
  BY QScaleAssumption DEF Loops, Resters
<1>2. l.remaining \in Nat /\ ~(q <= 0) /\ ~(a <= 0)
  BY <1>1 DEF Breaks
<1>3. l.remaining * QScale \in Nat
  BY <1>1, <1>2
<1>4. m.price # 0 => aff \in Nat /\ l.remaining * QScale < aff * m.price + m.price
  BY <1>1, <1>3, Floored
<1>5. /\ ~BudgetDriven(t) => q = LeastOf(m.remaining, l.remaining)
      /\ BudgetDriven(t) /\ m.price # 0 => q = LeastOf(m.remaining, aff)
      /\ BudgetDriven(t) /\ m.price = 0 => q = LeastOf(m.remaining, m.remaining)
  BY DEF FillQuantity, Affordable, NoPrice
<1> HIDE DEF q, aff
<1>6. q \in Nat
  BY <1>1, <1>2, <1>4, <1>5 DEF LeastOf
<1>7. a \in Nat /\ (m.price = 0 => a = 0)
  BY <1>1, <1>6, FloorOfNothing
<1> HIDE DEF a
<1>8. m.price # 0
  BY <1>2, <1>7
<1>9. n = [l EXCEPT !.fills = fs, !.filled = x, !.quote = y, !.remaining = z]
  BY <1>1 DEF LoopBody, Fill, q, a
<1>10. f \in BookFills /\ f.maker = m.id /\ f.price = m.price /\ f.quantity = q
       /\ f.quoteAmount = a
  BY <1>1, <1>6, <1>7 DEF BookFills
<1> HIDE DEF f
<1>11. fs = Append(l.fills, f) /\ z \in Int
  BY <1>1, <1>6, <1>7
<1>12. n.fills = fs /\ n.remaining = z /\ n.stop = FALSE
  <2> HIDE DEF fs, x, y, z
  <2> QED
    BY <1>1, <1>9 DEF Loops
<1>13. CASE ~BudgetDriven(t)
  <2>1. q = m.remaining \/ q = l.remaining
    BY <1>13, <1>5 DEF LeastOf
  <2>2. q = l.remaining => z = 0
    BY <1>13, <1>1
  <2> QED
    BY <1>8, <1>10, <1>11, <1>12, <1>13, <2>1, <2>2 DEF Takes
<1>14. CASE BudgetDriven(t)
  <2>1. q = m.remaining \/ q = aff
    BY <1>14, <1>5, <1>8 DEF LeastOf
  <2>2. ASSUME q = aff, Exact(f) PROVE z * QScale < m.price
    <3>1. a * QScale = m.price * q
      BY <2>2, <1>10 DEF Exact
    <3>2. z = l.remaining - a
      BY <1>14
    <3>3. z * QScale = l.remaining * QScale - a * QScale
      BY <3>2, <1>1, <1>2, <1>7
    <3>4. aff * m.price = m.price * q /\ m.price * q \in Nat
      BY <2>2, <1>1, <1>6
    <3> QED
      BY <3>1, <3>3, <3>4, <1>1, <1>3, <1>4, <1>8
  <2> QED
    BY <1>8, <1>10, <1>11, <1>12, <1>14, <2>1, <2>2 DEF Takes
<1> QED
  BY <1>13, <1>14

(* Nothing of the taker is left for the orders from here on.               *)
NoMore(t, l, b, k, n) == \A h \in (k + 1)..n : b[h].remaining <= 0 \/ Breaks(t, l, b[h])

LEMMA PartialIsLast ==
    ASSUME NEW t, NEW l, NEW n \in Nat, NEW b \in [1..n -> Resters], NEW k \in 1..n,
           BudgetDriven(t) =>
              \A h \in (k + 1)..n : b[h].price = 0 \/ b[k].price <= b[h].price,
           \/ ~BudgetDriven(t) /\ l.remaining = 0
           \/ /\ BudgetDriven(t) /\ l.remaining \in Int
              /\ l.remaining > 0 => l.remaining * QScale < b[k].price
    PROVE  NoMore(t, l, b, k, n)
<1> SUFFICES ASSUME NEW h \in (k + 1)..n, ~(b[h].remaining <= 0)
             PROVE  Breaks(t, l, b[h])
  BY DEF NoMore
<1>1. h \in 1..n
  OBVIOUS
<1>2. /\ b[h].price \in Nat /\ b[h].remaining \in Nat /\ b[h].remaining > 0
      /\ b[k].price \in Nat
  <2>1. b[h] \in Resters /\ b[k] \in Resters
    BY <1>1
  <2> QED
    BY <2>1 DEF Resters
<1>3. CASE l.remaining <= 0
  BY <1>2, <1>3 DEF Breaks
<1>4. CASE ~BudgetDriven(t)
  BY <1>2, <1>4 DEF Breaks
<1>5. CASE BudgetDriven(t) /\ ~(l.remaining <= 0) /\ b[h].price = 0
  <2>1. FillQuantity(t, l, b[h]) = b[h].remaining
    BY <1>2, <1>5 DEF FillQuantity, Affordable, NoPrice, LeastOf
  <2>2. quoteFloor(b[h].price, b[h].remaining) = 0
    BY <1>2, <1>5, FloorOfNothing
  <2> QED
    BY <2>1, <2>2, <1>2 DEF Breaks
<1>6. CASE BudgetDriven(t) /\ ~(l.remaining <= 0) /\ b[h].price # 0
  <2>1. /\ l.remaining \in Nat /\ l.remaining * QScale < b[k].price
        /\ b[k].price <= b[h].price
    BY <1>6
  <2>2. l.remaining * QScale \in Nat
    BY <2>1, QScaleAssumption
  <2>3. l.remaining * QScale < b[h].price
    BY <2>1, <2>2, <1>2
  <2>4. Affordable(l.remaining, b[h]) = 0
    BY <2>1, <2>3, <1>2, <1>6, AffordsNothing DEF Affordable, NoPrice
  <2>5. FillQuantity(t, l, b[h]) <= 0
    BY <2>4, <1>2, <1>6 DEF FillQuantity, LeastOf
  <2> QED
    BY <2>5, <1>2 DEF Breaks
<1> QED
  BY <1>3, <1>4, <1>5, <1>6

(* The first c fills have used up a resting order, all those before        *)
(* position y of the book, or, of a whole pass, those ahead of fill j.     *)
UsedUp(fs, c, m) ==
    \/ m.remaining <= 0
    \/ \E x \in 1..c : fs[x].maker = m.id /\ fs[x].quantity = m.remaining

AllUsedUp(b, fs, c, y) == \A h \in 1..(y - 1) : UsedUp(fs, c, b[h])

InTurn(b, n, fs, j) ==
    (\A x \in 1..(j - 1) : Exact(fs[x])) =>
        \E y \in 1..n : fs[j].maker = b[y].id /\ AllUsedUp(b, fs, j - 1, y)

(* Between two turns of a loop without dust: all is used up so far, or     *)
(* nothing more will be filled.                                            *)
OnTurn(t, l, b, k, n) ==
    l.stop = FALSE /\ (\A x \in DOMAIN l.fills : Exact(l.fills[x])) =>
        NoMore(t, l, b, k, n) \/ AllUsedUp(b, l.fills, Len(l.fills), k + 1)

LEMMA LongerPrefix ==
    ASSUME NEW c \in Nat, NEW d \in Nat, c <= d, NEW fs, NEW gs,
           \A x \in 1..c : gs[x] = fs[x]
    PROVE  /\ \A m : UsedUp(fs, c, m) => UsedUp(gs, d, m)
           /\ \A b, y : AllUsedUp(b, fs, c, y) => AllUsedUp(b, gs, d, y)
<1>1. \A m : UsedUp(fs, c, m) => UsedUp(gs, d, m)
  BY DEF UsedUp
<1> QED
  BY <1>1 DEF AllUsedUp

(* A turn that fills nothing.                                              *)
LEMMA TurnPasses ==
    ASSUME NEW t, NEW n \in Nat, NEW b \in [1..n -> Resters], NEW k \in 0..(n - 1),
           NEW l \in Loops, OnTurn(t, l, b, k, n),
           l.stop \/ Breaks(t, l, b[k + 1]) \/ b[k + 1].remaining <= 0,
           NEW x, x = LoopBody(t, l, b[k + 1])
    PROVE  x.fills = l.fills /\ OnTurn(t, x, b, k + 1, n)
<1>1. l.stop \in BOOLEAN
  BY DEF Loops
<1>2. CASE l.stop
  <2>1. x = l /\ l.stop = TRUE
    BY <1>1, <1>2 DEF LoopBody
  <2> QED
    BY <2>1 DEF OnTurn
<1>3. CASE ~l.stop /\ Breaks(t, l, b[k + 1])
  <2>1. x = [l EXCEPT !.stop = TRUE]
    BY <1>3 DEF LoopBody
  <2>2. x.stop = TRUE /\ x.fills = l.fills
    BY <2>1 DEF Loops
  <2> QED
    BY <2>2 DEF OnTurn
<1>4. CASE ~l.stop /\ ~Breaks(t, l, b[k + 1]) /\ b[k + 1].remaining <= 0
  <2>1. x = l
    BY <1>4 DEF LoopBody
  <2>2. NoMore(t, l, b, k, n) => NoMore(t, l, b, k + 1, n)
    BY DEF NoMore
  <2>3. ASSUME AllUsedUp(b, l.fills, Len(l.fills), k + 1)
        PROVE  AllUsedUp(b, l.fills, Len(l.fills), k + 2)
    <3> SUFFICES ASSUME NEW h \in 1..(k + 1) PROVE UsedUp(l.fills, Len(l.fills), b[h])
      BY DEF AllUsedUp
    <3>1. CASE h = k + 1
      BY <3>1, <1>4 DEF UsedUp
    <3>2. CASE h # k + 1
      BY <3>2, <2>3 DEF AllUsedUp
    <3> QED
      BY <3>1, <3>2
  <2>4. (k + 1) + 1 = k + 2
    OBVIOUS
  <2> QED
    BY <2>1, <2>2, <2>3, <2>4 DEF OnTurn
<1> QED
  BY <1>2, <1>3, <1>4

(* The buyer with a budget meets the sellers by rising price.              *)
Rising(t, b, n) ==
    BudgetDriven(t) =>
        \A h, k \in 1..n : k < h => b[h].price = 0 \/ b[k].price <= b[h].price

OneLonger(fs, gs, c) == Len(fs) = c + 1 /\ \A h \in 1..c : fs[h] = gs[h]

(* A turn that fills: all before it was used up.                           *)
LEMMA TurnInOrder ==
    ASSUME NEW t, NEW n \in Nat, NEW b \in [1..n -> Resters], NEW k \in 0..(n - 1),
           Rising(t, b, n), NEW l \in Loops, OnTurn(t, l, b, k, n),
           ~l.stop, ~Breaks(t, l, b[k + 1]), ~(b[k + 1].remaining <= 0),
           NEW x, x = LoopBody(t, l, b[k + 1]), NEW c \in Nat, c = Len(l.fills)
    PROVE  /\ OneLonger(x.fills, l.fills, c)
           /\ InTurn(b, n, x.fills, c + 1) /\ OnTurn(t, x, b, k + 1, n)
<1>1. k + 1 \in 1..n /\ k + 2 = (k + 1) + 1
  OBVIOUS
<1>2. PICK m \in Resters : m = b[k + 1]
  BY <1>1
<1>3. PICK f \in BookFills : x.fills = Append(l.fills, f) /\ Takes(t, m, x, f)
  <2>1. /\ ~Breaks(t, l, m) /\ ~(m.remaining <= 0)
        /\ x = LoopBody(t, l, m)
    BY <1>2
  <2> QED
    BY <2>1, TurnTakes
<1>4. l.fills \in Seq(BookFills) /\ l.stop = FALSE
  BY DEF Loops
<1>5. /\ Len(x.fills) = c + 1 /\ \A h \in 1..c : x.fills[h] = l.fills[h]
      /\ x.fills[c + 1] = f /\ DOMAIN x.fills = 1..(c + 1) /\ DOMAIN l.fills = 1..c
  BY <1>3, <1>4
<1>6. ASSUME \A h \in 1..c : Exact(x.fills[h])
      PROVE  AllUsedUp(b, x.fills, c, k + 1)
  <2>1. \A h \in DOMAIN l.fills : Exact(l.fills[h])
    BY <1>5, <1>6
  <2>2. ~NoMore(t, l, b, k, n)
    BY <1>1 DEF NoMore
  <2>3. AllUsedUp(b, l.fills, c, k + 1)
    BY <2>1, <2>2, <1>4 DEF OnTurn
  <2>4. c <= c /\ \A h \in 1..c : x.fills[h] = l.fills[h]
    BY <1>5
  <2>5. \A y : AllUsedUp(b, l.fills, c, y) => AllUsedUp(b, x.fills, c, y)
    BY <2>4, LongerPrefix
  <2> QED
    BY <2>3, <2>5
<1>7. InTurn(b, n, x.fills, c + 1)
  <2>1. (c + 1) - 1 = c
    OBVIOUS
  <2> QED
    BY <2>1, <1>2, <1>1, <1>3, <1>5, <1>6 DEF InTurn, Takes
<1>8. OnTurn(t, x, b, k + 1, n)
  <2> SUFFICES ASSUME \A h \in DOMAIN x.fills : Exact(x.fills[h])
               PROVE  \/ NoMore(t, x, b, k + 1, n)
                      \/ AllUsedUp(b, x.fills, c + 1, (k + 1) + 1)
    BY <1>5 DEF OnTurn
  <2>1. AllUsedUp(b, x.fills, c, k + 1) /\ Exact(f)
    <3>1. \A h \in 1..(c + 1) : Exact(x.fills[h])
      BY <1>5
    <3>2. (\A h \in 1..c : Exact(x.fills[h])) /\ Exact(x.fills[c + 1])
      BY <3>1
    <3> QED
      BY <3>2, <1>5, <1>6
  <2>2. AllUsedUp(b, x.fills, c + 1, k + 1)
    <3>1. c + 1 \in Nat /\ c <= c + 1
      OBVIOUS
    <3>2. \A y : AllUsedUp(b, x.fills, c, y) => AllUsedUp(b, x.fills, c + 1, y)
      BY <3>1, LongerPrefix
    <3> QED
      BY <2>1, <3>2
  <2>3. CASE f.quantity = m.remaining
    <3>1. UsedUp(x.fills, c + 1, b[k + 1])
      BY <2>3, <1>2, <1>3, <1>5 DEF UsedUp, Takes
    <3> SUFFICES ASSUME NEW h \in 1..(k + 1) PROVE UsedUp(x.fills, c + 1, b[h])
      BY DEF AllUsedUp
    <3>2. h = k + 1 \/ h \in 1..k
      OBVIOUS
    <3>3. h \in 1..k => UsedUp(x.fills, c + 1, b[h])
      BY <2>2 DEF AllUsedUp
    <3> QED
      BY <3>1, <3>2, <3>3
  <2>4. CASE f.quantity # m.remaining
    <3>1. \/ ~BudgetDriven(t) /\ x.remaining = 0
          \/ /\ BudgetDriven(t) /\ x.remaining \in Int
             /\ x.remaining > 0 => x.remaining * QScale < b[k + 1].price
      BY <2>1, <2>4, <1>2, <1>3 DEF Takes
    <3>2. BudgetDriven(t) =>
             \A h \in ((k + 1) + 1)..n : b[h].price = 0 \/ b[k + 1].price <= b[h].price
      BY <1>1 DEF Rising
    <3>3. NoMore(t, x, b, k + 1, n)
      BY <3>1, <3>2, <1>1, PartialIsLast
    <3> QED
      BY <3>3
  <2> QED
    BY <2>3, <2>4
<1>9. OneLonger(x.fills, l.fills, c)
  BY <1>5 DEF OneLonger
<1> QED
  BY <1>7, <1>8, <1>9

LEMMA FillsInTurn ==
    ASSUME NEW t, t.quantity \in Nat, t.budget \in Nat,
           NEW n \in Nat, NEW b \in [1..n -> Resters],
           Rising(t, b, n), NEW r, r = matchOrder(t, b)
    PROVE  \A j \in DOMAIN r.fills : InTurn(b, n, r.fills, j)
<1> DEFINE L(k) == Loop(t, b)[1..k]
           Sound(k, l) == /\ l \in Loops /\ OnTurn(t, l, b, k, n)
                          /\ \A j \in DOMAIN l.fills : InTurn(b, n, l.fills, j)
           S == {k \in Nat : k <= n => Sound(k, L(k))}
<1>1. DOMAIN b = 1..n
  OBVIOUS
<1>2. /\ L(0) = LoopStart(t)
      /\ \A k \in 1..n : L(k) = LoopBody(t, L(k - 1), b[k])
  <2>1. 1..0 = {}
    OBVIOUS
  <2> QED
    BY <1>1, <2>1, LoopUnfolds
<1> HIDE DEF L
<1>3. 0 \in S
  <2>1. PICK z \in Int : z = IF BudgetDriven(t) THEN t.budget ELSE t.quantity
    OBVIOUS
  <2>2. PICK l : l = [remaining |-> z, fills |-> << >>, filled |-> 0, quote |-> 0,
                      stop |-> FALSE]
    OBVIOUS
  <2>3. << >> \in Seq(BookFills)
    OBVIOUS
  <2>4. l \in Loops /\ l.fills = << >>
    BY <2>2, <2>3 DEF Loops
  <2>5. L(0) = l /\ DOMAIN l.fills = {}
    BY <1>2, <2>1, <2>2, <2>4 DEF LoopStart
  <2>6. OnTurn(t, l, b, 0, n)
    BY DEF OnTurn, AllUsedUp
  <2> QED
    BY <2>4, <2>5, <2>6
<1>4. ASSUME NEW k \in 0..(n - 1), k \in S PROVE k + 1 \in S
  <2> DEFINE l == L(k)
             x == L(k + 1)
             m == b[k + 1]
  <2>1. Sound(k, l)
    BY <1>4
  <2>2. k + 1 \in 1..n /\ m \in Resters
    BY <1>4
  <2>3. x = LoopBody(t, l, m)
    BY <1>2, <2>2
  <2> HIDE DEF l, x, S
  <2>4. x \in Loops
    BY <2>1, <2>2, <2>3, TurnFills
  <2>5. ASSUME l.stop \/ Breaks(t, l, m) \/ m.remaining <= 0
        PROVE  Sound(k + 1, x)
    <3>1. x.fills = l.fills /\ OnTurn(t, x, b, k + 1, n)
      BY <2>1, <2>3, <2>5, TurnPasses
    <3> QED
      BY <2>1, <2>4, <3>1
  <2>6. ASSUME ~l.stop, ~Breaks(t, l, m), ~(m.remaining <= 0)
        PROVE  Sound(k + 1, x)
    <3>1. PICK c \in Nat : c = Len(l.fills) /\ DOMAIN l.fills = 1..c
      BY <2>1 DEF Loops
    <3>2. /\ Len(x.fills) = c + 1 /\ \A h \in 1..c : x.fills[h] = l.fills[h]
          /\ InTurn(b, n, x.fills, c + 1) /\ OnTurn(t, x, b, k + 1, n)
      <4>1. OnTurn(t, l, b, k, n) /\ l \in Loops /\ c = Len(l.fills)
        BY <2>1, <3>1
      <4>2. /\ ~Breaks(t, l, b[k + 1]) /\ ~(b[k + 1].remaining <= 0)
            /\ x = LoopBody(t, l, b[k + 1])
        BY <2>3, <2>6
      <4> HIDE DEF Sound, m
      <4>3. ~l.stop
        BY <2>6
      <4> HIDE DEF l, x
      <4>4. b[k + 1] \in Resters
        BY <2>2 DEF m
      <4>5. InTurn(b, n, x.fills, c + 1)
        BY <4>1, <4>2, <4>3, TurnInOrder
      <4>6. OnTurn(t, x, b, k + 1, n)
        BY <4>1, <4>2, <4>3, TurnInOrder
      <4>7. OneLonger(x.fills, l.fills, c)
        BY <4>1, <4>2, <4>3, TurnInOrder
      <4> QED
        BY <4>5, <4>6, <4>7 DEF OneLonger
    <3>3. DOMAIN x.fills = 1..(c + 1)
      BY <2>4, <3>2 DEF Loops
    <3>4. ASSUME NEW j \in 1..c PROVE InTurn(b, n, x.fills, j)
      <4>1. InTurn(b, n, l.fills, j)
        BY <2>1, <3>1
      <4>2. /\ j - 1 \in Nat /\ x.fills[j] = l.fills[j]
            /\ \A h \in 1..(j - 1) : x.fills[h] = l.fills[h]
        BY <3>2
      <4>3. \A y : AllUsedUp(b, l.fills, j - 1, y) => AllUsedUp(b, x.fills, j - 1, y)
        <5>1. PICK h \in Nat : h = j - 1 /\ h <= h
          OBVIOUS
        <5>2. \A y \in 1..h : x.fills[y] = l.fills[y]
          BY <4>2, <5>1
        <5>3. \A y : AllUsedUp(b, l.fills, h, y) => AllUsedUp(b, x.fills, h, y)
          BY <5>1, <5>2, LongerPrefix
        <5> QED
          BY <5>1, <5>3
      <4> QED
        BY <4>1, <4>2, <4>3 DEF InTurn
    <3>5. \A j \in DOMAIN x.fills : InTurn(b, n, x.fills, j)
      BY <3>2, <3>3, <3>4
    <3> QED
      BY <2>4, <3>2, <3>5
  <2>7. Sound(k + 1, x)
    BY <2>5, <2>6
  <2> QED
    BY <2>7 DEF S, x
<1>5. \A k \in 0..n : k \in S
  <2> HIDE DEF S
  <2> QED
    BY <1>3, <1>4, InductionUpTo
<1>6. Sound(n, L(n))
  <2>1. n \in S
    BY <1>5
  <2> QED
    BY <2>1
<1>7. r.fills = L(n).fills
  BY <1>1, MatchIsLoop DEF L
<1> QED
  BY <1>6, <1>7

(* An enumeration of a finite set in book order leaves nothing out.        *)
LEMMA EnumeratesAll ==
    ASSUME orders \in Seq(OrderRows), NEW o, NEW R, R \subseteq Orders,
           IsFiniteSet(R), NEW c \in Nat, c = Cardinality(R),
           NEW s \in [1..c -> R], Enumerates(o, s, c)
    PROVE  \A m \in R : \E h \in 1..c : s[h] = m
<1>1. \A j \in 1..c : s[j] \in Orders /\ ~Before(o, s[j], s[j])
  <2> SUFFICES ASSUME NEW j \in 1..c PROVE s[j] \in Orders /\ ~Before(o, s[j], s[j])
    OBVIOUS
  <2>1. PICK m \in Orders : m = s[j]
    OBVIOUS
  <2>2. m \in Nat /\ orders[m].price \in Nat
    BY RowsTyped
  <2>3. ~Before(o, m, m)
    BY <2>2 DEF Before, Ahead, NoPrice
  <2> QED
    BY <2>1, <2>3
<1>2. \A j, k \in 1..c : s[j] = s[k] => j = k
  <2> SUFFICES ASSUME NEW j \in 1..c, NEW k \in 1..c, s[j] = s[k] PROVE j = k
    OBVIOUS
  <2>1. ~(j < k) /\ ~(k < j)
    BY <1>1 DEF Enumerates
  <2> QED
    BY <2>1
<1>3. PICK I : I = 1..c
  OBVIOUS
<1>4. s \in Injection(I, R)
  BY <1>2, <1>3 DEF Injection, IsInjective
<1>5. IsFiniteSet(I) /\ Cardinality(I) = Cardinality(R)
  BY <1>3, FS_Interval
<1>6. s \in Surjection(I, R)
  BY <1>4, <1>5, FS_Injection
<1> QED
  BY <1>3, <1>6 DEF Surjection

(* Up to the scan limit, whatever is ahead of a row of the book is in the  *)
(* book ahead of it.                                                       *)
LEMMA BookFromTheTop ==
    ASSUME orders \in Seq(OrderRows), NEW o \in Orders,
           NEW b, b = loadRestingBook(o)
    PROVE  \E n \in Nat :
              /\ b \in [1..n -> Resting(o)] /\ Enumerates(o, b, n)
              /\ \A y \in 1..n, m \in Resting(o) :
                    Before(o, m, b[y]) => \E k \in 1..(y - 1) : b[k] = m
<1> DEFINE c == Cardinality(Resting(o))
           s == CHOOSE s \in [1..c -> Resting(o)] :
                   \A j, k \in 1..c : j < k => Before(o, s[j], s[k])
           x == LeastOf(c, BookScanLimit)
<1>1. Resting(o) \subseteq Orders
  BY DEF Resting
<1>2. Sortable(o, Resting(o))
  BY <1>1, SortedExists
<1>3. c \in Nat /\ s \in [1..c -> Resting(o)] /\ Enumerates(o, s, c)
      /\ IsFiniteSet(Resting(o))
  BY <1>2 DEF Sortable, Enumerates
<1>4. b = SubSeq(s, 1, x)
  BY DEF loadRestingBook
<1>5. x \in Nat /\ x <= c
  BY <1>3, NumbersAssumption DEF LeastOf
<1>6. \A m \in Resting(o) : \E h \in 1..c : s[h] = m
  <2>1. PICK R : R = Resting(o)
    OBVIOUS
  <2>2. PICK a \in Nat : a = c /\ a = Cardinality(R)
    BY <1>3, <2>1
  <2>3. PICK z : z = s
    OBVIOUS
  <2> HIDE DEF c, s
  <2>4. \A m \in R : \E h \in 1..a : z[h] = m
    BY <1>1, <1>3, <2>1, <2>2, <2>3, EnumeratesAll
  <2> QED
    BY <2>1, <2>2, <2>3, <2>4
<1> HIDE DEF c, s, x
<1>7. b \in [1..x -> Resting(o)] /\ \A h \in 1..x : b[h] = s[h]
  BY <1>3, <1>4, <1>5, Prefix
<1>8. Enumerates(o, b, x)
  BY <1>3, <1>5, <1>7 DEF Enumerates
<1>9. ASSUME NEW y \in 1..x, NEW m \in Resting(o), Before(o, m, b[y])
      PROVE  \E k \in 1..(y - 1) : b[k] = m
  <2>1. PICK h \in 1..c : s[h] = m
    BY <1>6
  <2>2. m \in Orders /\ b[y] \in Orders /\ b[y] = s[y] /\ y \in 1..c
    BY <1>1, <1>3, <1>5, <1>7
  <2>3. ~Before(o, m, m)
    <3>1. m \in Nat /\ orders[m].price \in Nat
      BY <2>2, RowsTyped
    <3> QED
      BY <3>1 DEF Before, Ahead, NoPrice
  <2>4. ~Before(o, b[y], m)
    BY <1>9, <2>2, <2>3, BeforeIsTotal
  <2>5. ~(y < h) /\ h # y
    BY <1>3, <1>9, <2>1, <2>2, <2>3, <2>4 DEF Enumerates
  <2>6. h \in 1..(y - 1) /\ h \in 1..x
    BY <2>1, <2>5, <1>3, <1>5
  <2> QED
    BY <2>1, <2>6, <1>7
<1> QED
  BY <1>5, <1>7, <1>8, <1>9

(* A MARKET BUY order has a budget and no quantity.                        *)
NoQuantity == \A o \in Orders : BudgetDriven(orders[o]) => orders[o].quantity = 0

(* What a row of the book says of the order table.                         *)
RowOf(row, m) ==
    /\ row.id = m /\ row.price = orders[m].price /\ row.remaining \in Nat
    /\ row.remaining <= 0 => Remaining(m) <= 0
    /\ ~(row.remaining <= 0) => Remaining(m) = row.remaining

LEMMA BookInOrder ==
    ASSUME orders \in Seq(OrderRows), NEW o \in Orders, NoQuantity,
           \A m \in Orders : FilledRowAllowed(m, orders[m].filled)
    PROVE  \E n \in Nat :
              /\ BookOf(o) \in [1..n -> Resters] /\ Rising(orders[o], BookOf(o), n)
              /\ \A k \in 1..n : \E m \in Orders : RowOf(BookOf(o)[k], m)
              /\ \A y \in 1..n, m \in Resting(o) :
                    Before(o, m, BookOf(o)[y].id) =>
                       \E k \in 1..(y - 1) : BookOf(o)[k].id = m
<1> DEFINE b == loadRestingBook(o)
           Row(m) == [id |-> m, price |-> orders[m].price,
                      remaining |-> IF BudgetDriven(orders[m]) THEN 0 ELSE Remaining(m)]
<1>1. PICK n \in Nat :
         /\ b \in [1..n -> Resting(o)] /\ Enumerates(o, b, n)
         /\ \A y \in 1..n, m \in Resting(o) :
               Before(o, m, b[y]) => \E k \in 1..(y - 1) : b[k] = m
  BY BookFromTheTop
<1>2. BookOf(o) = [k \in DOMAIN b |-> Row(b[k])]
  BY DEF BookOf
<1> HIDE DEF b
<1>3. ASSUME NEW m \in Orders PROVE RowOf(Row(m), m) /\ Row(m).id = m
  <2>1. orders[m].quantity \in Nat /\ orders[m].filled \in Nat /\ Remaining(m) \in Int
    BY RowsTyped DEF Remaining
  <2>2. PICK r : r = IF BudgetDriven(orders[m]) THEN 0 ELSE Remaining(m)
    OBVIOUS
  <2>3. Row(m).id = m /\ Row(m).price = orders[m].price /\ Row(m).remaining = r
    BY <2>2
  <2>4. CASE BudgetDriven(orders[m])
    <3>1. r = 0 /\ Remaining(m) <= 0
      BY <2>1, <2>2, <2>4 DEF NoQuantity, Remaining
    <3> QED
      BY <3>1, <2>3 DEF RowOf
  <2>5. CASE ~BudgetDriven(orders[m])
    <3>1. orders[m].filled <= orders[m].quantity
      BY <2>5 DEF FilledRowAllowed
    <3>2. r = Remaining(m) /\ r \in Nat
      BY <2>1, <2>2, <2>5, <3>1 DEF Remaining
    <3> QED
      BY <3>2, <2>3 DEF RowOf
  <2> QED
    BY <2>4, <2>5
<1>4. \A k \in 1..n : /\ b[k] \in Orders /\ BookOf(o)[k] = Row(b[k])
                      /\ BookOf(o)[k].id = b[k]
                      /\ BookOf(o)[k].price = orders[b[k]].price
  BY <1>1, <1>2, <1>3 DEF Resting
<1> HIDE DEF Row
<1>5. ASSUME NEW k \in 1..n PROVE BookOf(o)[k] \in Resters
  <2>1. PICK m \in Orders : m = b[k]
    BY <1>4
  <2>2. RowOf(BookOf(o)[k], m)
    BY <1>3, <1>4, <2>1
  <2>3. m \in Nat /\ orders[m].price \in Nat
    BY RowsTyped
  <2>4. PICK r : r = IF BudgetDriven(orders[m]) THEN 0 ELSE Remaining(m)
    OBVIOUS
  <2>5. BookOf(o)[k] = [id |-> m, price |-> orders[m].price, remaining |-> r]
    BY <1>4, <2>1, <2>4 DEF Row
  <2>6. r \in Nat
    BY <2>2, <2>5 DEF RowOf
  <2> QED
    BY <2>3, <2>5, <2>6 DEF Resters
<1>6. BookOf(o) \in [1..n -> Resters]
  BY <1>1, <1>2, <1>5
<1>7. Rising(orders[o], BookOf(o), n)
  <2> SUFFICES ASSUME orders[o].side = "BUY",
                      NEW h \in 1..n, NEW k \in 1..n, k < h
               PROVE  BookOf(o)[h].price = 0 \/ BookOf(o)[k].price <= BookOf(o)[h].price
    BY DEF Rising, BudgetDriven
  <2>1. Before(o, b[k], b[h])
    BY <1>1 DEF Enumerates
  <2>2. orders[b[k]].price \in Nat /\ orders[b[h]].price \in Nat
    BY <1>4, RowsTyped
  <2>3. orders[b[h]].price = 0 \/ orders[b[k]].price <= orders[b[h]].price
    BY <2>1, <2>2 DEF Before, Ahead, NoPrice
  <2> QED
    BY <2>3, <1>4
<1>8. \A k \in 1..n : \E m \in Orders : RowOf(BookOf(o)[k], m)
  BY <1>3, <1>4
<1>9. ASSUME NEW y \in 1..n, NEW m \in Resting(o), Before(o, m, BookOf(o)[y].id)
      PROVE  \E k \in 1..(y - 1) : BookOf(o)[k].id = m
  <2>1. PICK k \in 1..(y - 1) : b[k] = m
    BY <1>1, <1>4, <1>9
  <2>2. k \in 1..n
    OBVIOUS
  <2> QED
    BY <2>1, <2>2, <1>4
<1> QED
  BY <1>6, <1>7, <1>8, <1>9

(* What is ahead of the maker of a fill still due has nothing left, or is  *)
(* filled completely before it, as long as the trade rows before it are    *)
(* not refused.                                                            *)
SpentBy(m, d, j) ==
    \/ Remaining(m) <= 0
    \/ \E k \in d..(j - 1) : /\ pass.fills[k].maker = m
                             /\ pass.fills[k].quantity = Remaining(m)

Exactly(k) == \A x \in 1..k : TradeRowAllowed(pass.fills[x])

Best(o, d) ==
    \A j \in DOMAIN pass.fills :
        j >= d /\ Exactly(j - 1) =>
            \A m \in Resting(o) : Before(o, m, pass.fills[j].maker) => SpentBy(m, d, j)

(* The fills that have their trade row.                                    *)
Written(pc) == IF pc \in {"maker", "makerRelease"} THEN pass.next ELSE pass.next - 1

PassInOrder ==
    \A o \in Orders :
        place[o] \in Settling => Best(o, Due(place[o])) /\ Exactly(Written(place[o]))

(* A pass finds no trade row of its own but those it has written.          *)
Passed == InPass \cup {"done", "failed"}

WrittenBy(row) ==
    /\ place[row.taker] \in Passed
    /\ place[row.taker] \in Settling =>
          \E j \in 1..Written(place[row.taker]) : pass.fills[j].maker = row.maker

TapeOfPass == \A k \in DOMAIN trades : WrittenBy(trades[k])

InOrder == NoQuantity /\ PassInOrder /\ TapeOfPass

(* The maker of a new trade row is the best one left.                      *)
NewTradeBest ==
    Len(trades') > Len(trades) =>
        LET t == trades'[Len(trades')]
        IN  ~\E m \in Resting(t.taker) :
                /\ m # t.maker
                /\ Before(t.taker, m, t.maker)
                /\ Remaining(m) > 0

LEMMA SameRowsSameBook ==
    ASSUME orders' = orders
    PROVE  /\ Orders' = Orders /\ \A m : Remaining(m)' = Remaining(m)
           /\ \A o : Resting(o)' = Resting(o)
           /\ \A o, m, n : Before(o, m, n)' <=> Before(o, m, n)
           /\ NoQuantity => NoQuantity'
BY DEF Orders, Remaining, Resting, Before, NoQuantity

LEMMA MatchBest ==
    ASSUME IInv, NoQuantity, NEW o \in Orders, NEW r, r = matchOrder(orders[o], BookOf(o)),
           orders' = orders, pass'.fills = r.fills
    PROVE  Best(o, 1)'
<1>1. /\ TypeOK /\ orders \in Seq(OrderRows)
      /\ \A m \in Orders : FilledRowAllowed(m, orders[m].filled)
  BY DEF IInv, TypeOK
<1>2. PICK b : b = BookOf(o)
  OBVIOUS
<1>3. PICK n \in Nat :
         /\ b \in [1..n -> Resters] /\ Rising(orders[o], b, n)
         /\ \A k \in 1..n : \E m \in Orders : RowOf(b[k], m)
         /\ \A y \in 1..n, m \in Resting(o) :
               Before(o, m, b[y].id) => \E k \in 1..(y - 1) : b[k].id = m
  BY <1>1, <1>2, BookInOrder
<1>4. PICK t : t = orders[o]
  OBVIOUS
<1>5. t.quantity \in Nat /\ t.budget \in Nat
  BY <1>1, <1>4, RowsTyped
<1>6. \A j \in DOMAIN r.fills : InTurn(b, n, r.fills, j)
  <2>1. Rising(t, b, n) /\ r = matchOrder(t, b)
    BY <1>2, <1>3, <1>4
  <2> QED
    BY <1>3, <1>5, <2>1, FillsInTurn
<1>7. DOMAIN r.fills \subseteq Nat
  BY FillsOfBook
<1>8. ASSUME NEW j \in DOMAIN r.fills, \A x \in 1..(j - 1) : TradeRowAllowed(r.fills[x]),
             NEW m \in Resting(o), Before(o, m, r.fills[j].maker)
      PROVE  \/ Remaining(m) <= 0
             \/ \E k \in 1..(j - 1) : /\ r.fills[k].maker = m
                                      /\ r.fills[k].quantity = Remaining(m)
  <2>1. \A x \in 1..(j - 1) : Exact(r.fills[x])
    BY <1>8 DEF TradeRowAllowed, Exact
  <2>2. PICK y \in 1..n : /\ r.fills[j].maker = b[y].id
                          /\ AllUsedUp(b, r.fills, j - 1, y)
    BY <1>6, <2>1 DEF InTurn
  <2>3. PICK k \in 1..(y - 1) : b[k].id = m
    BY <1>3, <1>8, <2>2
  <2>4. k \in 1..n /\ UsedUp(r.fills, j - 1, b[k])
    BY <2>2 DEF AllUsedUp
  <2>5. RowOf(b[k], m)
    BY <1>3, <2>3, <2>4 DEF RowOf
  <2>6. CASE b[k].remaining <= 0
    BY <2>5, <2>6 DEF RowOf
  <2>7. CASE ~(b[k].remaining <= 0)
    <3>1. PICK x \in 1..(j - 1) : /\ r.fills[x].maker = b[k].id
                                  /\ r.fills[x].quantity = b[k].remaining
      BY <2>4, <2>7 DEF UsedUp
    <3> QED
      BY <2>3, <2>5, <2>7, <3>1 DEF RowOf
  <2> QED
    BY <2>6, <2>7
<1>9. /\ \A m : Remaining(m)' = Remaining(m) /\ Resting(o)' = Resting(o)
      /\ \A m, k : Before(o, m, k)' <=> Before(o, m, k)
  BY SameRowsSameBook
<1> SUFFICES ASSUME NEW j \in DOMAIN r.fills, Exactly(j - 1)',
                    NEW m \in Resting(o), Before(o, m, r.fills[j].maker)
             PROVE  SpentBy(m, 1, j)'
  BY <1>9 DEF Best
<1>10. \A x \in 1..(j - 1) : TradeRowAllowed(r.fills[x])
  BY DEF Exactly, TradeRowAllowed
<1> QED
  BY <1>8, <1>9, <1>10 DEF SpentBy

LEMMA BudgetsKept ==
    ASSUME RowsKept, NoQuantity
    PROVE  NoQuantity'
BY DEF RowsKept, SameTerms, NoQuantity, BudgetDriven

LEMMA SameTape ==
    ASSUME TypeOK, trades' = trades
    PROVE  /\ DOMAIN trades' = DOMAIN trades /\ NewTradeBest
           /\ \A k \in DOMAIN trades : trades'[k] = trades[k]
<1>1. Len(trades') = Len(trades) /\ Len(trades) \in Nat
  BY TypeParts
<1> QED
  BY <1>1 DEF NewTradeBest

(* A step that leaves no pass between its match and its end.               *)
LEMMA NoPassInOrder ==
    ASSUME TypeOK, InOrder, RowsKept, trades' = trades,
           \A x \in Orders : place'[x] \notin Settling,
           \A x \in Orders : place[x] \in Passed => place'[x] \in Passed
    PROVE  InOrder' /\ NewTradeBest
<1>1. NoQuantity' /\ Orders' = Orders
  BY BudgetsKept DEF InOrder, RowsKept
<1>2. PassInOrder'
  BY <1>1 DEF PassInOrder
<1>3. TapeOfPass'
  <2> SUFFICES ASSUME NEW k \in DOMAIN trades' PROVE WrittenBy(trades[k])'
    BY DEF TapeOfPass
  <2>1. k \in DOMAIN trades /\ trades'[k] = trades[k] /\ trades[k].taker \in Orders
    BY TapeEntries
  <2>2. place[trades[k].taker] \in Passed
    BY <2>1 DEF InOrder, TapeOfPass, WrittenBy
  <2> QED
    BY <2>1, <2>2 DEF WrittenBy
<1> QED
  BY <1>1, <1>2, <1>3, SameTape DEF InOrder

(* The rows of a pass on the tape are those of its first w fills, and only *)
(* it adds to the tape.                                                    *)
PassOnTape(o, w) ==
    \A k \in DOMAIN trades :
        trades[k].taker = o => \E j \in 1..w : pass.fills[j].maker = trades[k].maker

TapeGrows(o) ==
    \A k \in DOMAIN trades' :
        trades'[k].taker = o \/ (k \in DOMAIN trades /\ trades'[k] = trades[k])

(* The pass under way takes a step.                                        *)
LEMMA PassInOrderMoves ==
    ASSUME TypeOK, OneRequest, InOrder, RowsKept, NEW o \in Orders,
           place[o] \notin Ended, NEW pc, place' = [place EXCEPT ![o] = pc],
           pc \in Passed,
           pc \in Settling => /\ Best(o, Due(pc))' /\ Exactly(Written(pc))'
                             /\ PassOnTape(o, Written(pc))',
           TapeGrows(o)
    PROVE  InOrder'
<1>1. NoQuantity' /\ Orders' = Orders
  BY BudgetsKept DEF InOrder, RowsKept
<1>2. /\ place'[o] = pc /\ \A x \in Orders : x # o => place'[x] = place[x]
  BY PlaceTyped DEF Passed, PlaceStates
<1>3. \A x \in Orders : x # o => place[x] \notin Settling
  BY DEF OneRequest, Ended, Settling
<1>4. PassInOrder'
  <2> SUFFICES ASSUME NEW x \in Orders, place'[x] \in Settling
               PROVE  (Best(x, Due(place[x])) /\ Exactly(Written(place[x])))'
    BY <1>1 DEF PassInOrder
  <2>1. x = o
    BY <1>2, <1>3
  <2> QED
    BY <1>2, <2>1 DEF Best, Exactly, Due, Written, SpentBy
<1>5. TapeOfPass'
  <2> SUFFICES ASSUME NEW k \in DOMAIN trades' PROVE WrittenBy(trades[k])'
    BY DEF TapeOfPass
  <2>1. CASE trades'[k].taker = o
    BY <2>1, <1>2 DEF WrittenBy, Written, PassOnTape
  <2>2. CASE trades'[k].taker # o
    <3>1. k \in DOMAIN trades /\ trades'[k] = trades[k] /\ trades[k].taker \in Orders
      BY <2>2, TapeEntries DEF TapeGrows
    <3>2. place[trades[k].taker] \in Passed
      BY <3>1 DEF InOrder, TapeOfPass, WrittenBy
    <3> QED
      BY <2>2, <3>1, <3>2, <1>2, <1>3 DEF WrittenBy
  <2> QED
    BY <2>1, <2>2
<1> QED
  BY <1>1, <1>4, <1>5 DEF InOrder

LEMMA MatchOrderInOrder ==
    ASSUME IInv, OneRequest, InOrder, NEW o \in Orders, MatchOrder(o)
    PROVE  InOrder' /\ NewTradeBest
<1>1. TypeOK /\ place[o] = "waiting" /\ orders' = orders /\ trades' = trades
  BY DEF IInv, MatchOrder
<1>2. PICK r : /\ r = matchOrder(orders[o], BookOf(o))
               /\ pass' = [fills |-> r.fills, next |-> 1,
                           filled |-> r.filledQuantity, quote |-> r.quoteTotal]
               /\ GoPlace(o, IF r.fills = << >> THEN "finalize" ELSE "settle")
  BY DEF MatchOrder
<1>3. PICK pc \in {"finalize", "settle"} : place' = [place EXCEPT ![o] = pc]
  BY <1>2 DEF GoPlace
<1>4. pass'.fills = r.fills /\ pass'.next = 1
  BY <1>2
<1>5. Best(o, Due(pc))'
  <2>1. Best(o, 1)'
    BY <1>1, <1>2, <1>4, MatchBest DEF InOrder
  <2>2. Due(pc)' = 1
    BY <1>4 DEF Due
  <2> QED
    BY <2>1, <2>2 DEF Best, SpentBy, Due
<1>6. Exactly(Written(pc))'
  <2>1. Written(pc)' = 0
    BY <1>4 DEF Written
  <2> QED
    BY <2>1 DEF Exactly, Written
<1>7. \A k \in DOMAIN trades : trades[k].taker # o
  BY <1>1 DEF InOrder, TapeOfPass, WrittenBy, Passed, InPass
<1>8. RowsKept
  BY <1>1, RowsUntouched
<1>9. place[o] \notin Ended /\ pc \in Passed
  BY <1>1 DEF Passed, InPass, Ended
<1>10. TapeGrows(o) /\ PassOnTape(o, Written(pc))'
  BY <1>1, <1>7 DEF TapeGrows, PassOnTape
<1>11. InOrder'
  BY <1>1, <1>3, <1>5, <1>6, <1>8, <1>9, <1>10, PassInOrderMoves
<1> QED
  BY <1>1, <1>11, SameTape

LEMMA BestStays ==
    ASSUME orders' = orders, pass'.fills = pass.fills, NEW o, NEW d, Best(o, d)
    PROVE  Best(o, d)'
<1>1. /\ \A m : Remaining(m)' = Remaining(m) /\ Resting(o)' = Resting(o)
      /\ \A m, n : Before(o, m, n)' <=> Before(o, m, n)
  BY SameRowsSameBook
<1>2. \A k : Exactly(k)' <=> Exactly(k)
  BY DEF Exactly, TradeRowAllowed
<1>3. \A m, j : SpentBy(m, d, j)' <=> SpentBy(m, d, j)
  BY <1>1 DEF SpentBy
<1> QED
  BY <1>1, <1>2, <1>3 DEF Best

LEMMA Unfinished ==
    ASSUME TypeOK, InOrder, NEW o \in Orders, place[o] \in Settling
    PROVE  /\ Best(o, Due(place[o])) /\ Exactly(Written(place[o]))
           /\ PassOnTape(o, Written(place[o]))
           /\ place[o] \notin Ended /\ Settling \subseteq Passed
<1>1. PassOnTape(o, Written(place[o]))
  BY DEF InOrder, TapeOfPass, WrittenBy, PassOnTape
<1> QED
  BY <1>1 DEF InOrder, PassInOrder, Settling, Passed, InPass, Ended

(* A step that neither writes a row nor passes over a fill.                *)
LEMMA StillInOrder ==
    ASSUME IInv, OneRequest, InOrder, NEW o \in Orders, place[o] \in Settling,
           orders' = orders, trades' = trades, pass'.fills = pass.fills,
           NEW pc \in Settling \cup {"finalize"}, place' = [place EXCEPT ![o] = pc],
           Due(pc)' = Due(place[o]), Written(pc)' = Written(place[o])
    PROVE  InOrder' /\ NewTradeBest
<1>1. TypeOK /\ RowsKept
  BY RowsUntouched DEF IInv
<1>2. /\ Best(o, Due(place[o])) /\ Exactly(Written(place[o]))
      /\ PassOnTape(o, Written(place[o])) /\ place[o] \notin Ended /\ pc \in Passed
  BY <1>1, Unfinished DEF Passed, InPass
<1>3. Best(o, Due(pc))'
  <2>1. PICK d : d = Due(place[o])
    OBVIOUS
  <2>2. Best(o, d)'
    BY <1>2, <2>1, BestStays
  <2>3. d = Due(pc)'
    BY <2>1
  <2> QED
    BY <2>2, <2>3 DEF Best, SpentBy, Due
<1>4. Exactly(Written(pc))' /\ PassOnTape(o, Written(pc))'
  <2>1. PICK w : w = Written(place[o]) /\ w = Written(pc)'
    OBVIOUS
  <2> QED
    BY <1>2, <2>1 DEF Exactly, PassOnTape, TradeRowAllowed, Written
<1>5. TapeGrows(o)
  BY DEF TapeGrows
<1>6. InOrder'
  BY <1>1, <1>2, <1>3, <1>4, <1>5, PassInOrderMoves
<1> QED
  BY <1>1, <1>6, SameTape

LEMMA FillStepInOrder ==
    ASSUME IInv, OneRequest, InOrder, NEW o \in Orders, SettleFill(o) \/ ReleaseMaker(o)
    PROVE  InOrder' /\ NewTradeBest
<1>1. TypeOK /\ orders' = orders /\ trades' = trades /\ pass.next \in Nat
  BY PassFacts DEF IInv, SettleFill, ReleaseMaker
<1>2. CASE SettleFill(o)
  <2>1. /\ place[o] = "settle" /\ place' = [place EXCEPT ![o] = "trade"]
        /\ pass' = pass
    BY <1>2 DEF SettleFill, GoPlace
  <2>2. Due("trade")' = Due(place[o]) /\ Written("trade")' = Written(place[o])
    BY <2>1 DEF Due, Written
  <2> QED
    BY <1>1, <2>1, <2>2, StillInOrder DEF Settling
<1>3. CASE ReleaseMaker(o)
  <2>1. place[o] = "makerRelease"
    BY <1>3 DEF ReleaseMaker
  <2>2. PICK pc \in {"settle", "finalize"} :
           /\ place' = [place EXCEPT ![o] = pc]
           /\ pass'.fills = pass.fills /\ pass'.next = pass.next + 1
    BY <1>1, <1>3, NextFill DEF ReleaseMaker
  <2>3. Due(pc)' = Due(place[o]) /\ Written(pc)' = Written(place[o])
    BY <1>1, <2>1, <2>2 DEF Due, Written
  <2> QED
    BY <1>1, <2>1, <2>2, <2>3, StillInOrder DEF Settling
<1> QED
  BY <1>2, <1>3

(* The trade row of the fill under way is new, and so exact, and what was  *)
(* ahead of its maker is spent by now.                                     *)
LEMMA CreateTradeInOrder ==
    ASSUME IInv, OneRequest, MakersLive, InOrder, NEW o \in Orders, CreateTrade(o)
    PROVE  InOrder' /\ NewTradeBest
<1>1. /\ TypeOK /\ RowsKept /\ place[o] = "trade" /\ orders' = orders /\ pass' = pass
      /\ place' = [place EXCEPT ![o] = "maker"]
  BY RowsUntouched DEF IInv, CreateTrade, GoPlace
<1>2. PICK n \in Nat \ {0} : n = pass.next
  BY <1>1, PassFacts
<1>3. PICK f : f = pass.fills[n]
  OBVIOUS
<1>4. n \in DOMAIN pass.fills /\ DOMAIN pass.fills \subseteq Nat /\ f = CurrentFill
      /\ \A k \in DOMAIN pass.fills : k \in 1..Len(pass.fills)
      /\ DOMAIN pass.fills = 1..Len(pass.fills) /\ Len(pass.fills) \in Nat
  BY <1>1, <1>2, <1>3, CurrentFacts, PassFacts DEF CurrentFill
<1>5. /\ Best(o, n) /\ Exactly(n - 1) /\ PassOnTape(o, n - 1)
      /\ place[o] \notin Ended /\ MakersOnce
  BY <1>1, <1>2, Unfinished DEF Settling, Due, Written, MakersLive
<1>6. ~TradeExists(o, f.maker)
  <2> SUFFICES ASSUME NEW k \in DOMAIN trades, trades[k].taker = o,
                      trades[k].maker = f.maker
               PROVE  FALSE
    BY DEF TradeExists
  <2>1. PICK j \in 1..(n - 1) : pass.fills[j].maker = f.maker
    BY <1>5 DEF PassOnTape
  <2>2. j \in DOMAIN pass.fills /\ j # n
    BY <1>4
  <2> QED
    BY <2>1, <2>2, <1>3, <1>4, <1>5 DEF MakersOnce
<1>7. /\ TradeRowAllowed(f) /\ trades' = Append(trades, TradeRow(o, f))
  BY <1>4, <1>6 DEF CreateTrade
<1>8. PICK row : row = TradeRow(o, f)
  OBVIOUS
<1>9. row.taker = o /\ row.maker = f.maker
  BY <1>8 DEF TradeRow
<1>10. PICK c \in Nat : c = Len(trades) /\ DOMAIN trades = 1..c
  <2>1. trades \in Seq(TradeRows)
    BY <1>1, TypeParts
  <2> QED
    BY <2>1
<1>11. /\ DOMAIN trades' = 1..(c + 1) /\ Len(trades') = c + 1 /\ trades'[c + 1] = row
       /\ \A k \in 1..c : trades'[k] = trades[k]
  <2>1. trades \in Seq(TradeRows)
    BY <1>1, TypeParts
  <2> QED
    BY <2>1, <1>7, <1>8, <1>10
<1>12. Best(o, Due("maker"))'
  <2>1. Best(o, n)'
    BY <1>1, <1>5, BestStays
  <2> QED
    BY <2>1, <1>1, <1>2 DEF Best, SpentBy, Due
<1>13. Exactly(Written("maker"))'
  <2>1. \A x \in 1..n : TradeRowAllowed(pass.fills[x])
    BY <1>3, <1>5, <1>7 DEF Exactly
  <2> QED
    BY <2>1, <1>1, <1>2 DEF Exactly, Written, TradeRowAllowed
<1>14. PassOnTape(o, Written("maker"))'
  <2> SUFFICES ASSUME NEW k \in 1..(c + 1), trades'[k].taker = o
               PROVE  \E j \in 1..n : pass.fills[j].maker = trades'[k].maker
    BY <1>1, <1>2, <1>11 DEF PassOnTape, Written
  <2>1. CASE k = c + 1
    BY <2>1, <1>3, <1>9, <1>11
  <2>2. CASE k \in 1..c
    <3>1. PICK j \in 1..(n - 1) : pass.fills[j].maker = trades[k].maker
      BY <2>2, <1>5, <1>10, <1>11 DEF PassOnTape
    <3> QED
      BY <2>2, <3>1, <1>11
  <2> QED
    BY <2>1, <2>2
<1>15. TapeGrows(o)
  BY <1>9, <1>10, <1>11 DEF TapeGrows
<1>16. InOrder'
  <2>1. "maker" \in Passed
    BY DEF Passed, InPass
  <2> QED
    BY <2>1, <1>1, <1>5, <1>12, <1>13, <1>14, <1>15, PassInOrderMoves
<1>17. ASSUME NEW m \in Resting(o), Before(o, m, f.maker), Remaining(m) > 0
       PROVE  FALSE
  <2>1. SpentBy(m, n, n)
    <3>1. Best(o, n) /\ n \in DOMAIN pass.fills /\ n >= n /\ Exactly(n - 1)
      BY <1>4, <1>5
    <3>2. Before(o, m, pass.fills[n].maker)
      BY <1>3, <1>17
    <3> QED
      BY <3>1, <3>2 DEF Best
  <2>2. m \in Orders /\ Remaining(m) \in Int
    <3>1. m \in Orders
      BY DEF Resting
    <3>2. orders[m].quantity \in Nat /\ orders[m].filled \in Nat
      BY <1>1, <3>1, TypeParts, RowsTyped
    <3> QED
      BY <3>1, <3>2 DEF Remaining
  <2> QED
    BY <2>1, <2>2, <1>17 DEF SpentBy
<1> QED
  BY <1>9, <1>11, <1>16, <1>17 DEF NewTradeBest

(* The row of the maker moves on with the pass.                            *)
LEMMA UpdateMakerInOrder ==
    ASSUME IInv, OneRequest, MakersLive, InOrder, NEW o \in Orders, UpdateMaker(o)
    PROVE  InOrder' /\ NewTradeBest
<1>1. TypeOK /\ place[o] = "maker" /\ trades' = trades
  BY DEF IInv, UpdateMaker
<1>2. PICK w \in Orders :
         /\ w = CurrentFill.maker /\ w # o /\ RowsKept
         /\ \A x \in Orders : x # w => orders'[x] = orders[x]
         /\ orders'[w].filled = orders[w].filled + CurrentFill.quantity
  BY UpdateMakerRows
<1>3. PICK n \in Nat \ {0} : n = pass.next
  BY <1>1, PassFacts
<1>4. PICK fs : fs = pass.fills
  OBVIOUS
<1>5. /\ n \in DOMAIN fs /\ DOMAIN fs \subseteq Nat /\ fs[n].maker = w
      /\ fs[n].quantity \in Nat /\ orders'[w].filled = orders[w].filled + fs[n].quantity
      /\ \A k \in DOMAIN fs : fs[k].maker \in Orders
      /\ DOMAIN fs = 1..Len(fs) /\ Len(fs) \in Nat
  BY <1>1, <1>2, <1>3, <1>4, CurrentFacts, PassFacts DEF CurrentFill
<1>6. /\ Best(o, n) /\ Exactly(n) /\ PassOnTape(o, n) /\ place[o] \notin Ended
      /\ MakersOnce /\ MakersDue(n)
  BY <1>1, <1>3, Unfinished DEF Settling, Due, Written, MakersLive
<1>7. PICK pc \in {"settle", "finalize", "makerRelease"} :
         /\ place' = [place EXCEPT ![o] = pc] /\ pass'.fills = fs
         /\ Due(pc)' = n + 1 /\ Written(pc)' = n
  <2>1. CASE GoPlace(o, "makerRelease") /\ UNCHANGED pass
    BY <2>1, <1>3, <1>4 DEF GoPlace, Due, Written
  <2>2. CASE AfterFill(o, pass.next + 1)
    <3>1. PICK pc \in {"settle", "finalize"} :
              /\ place' = [place EXCEPT ![o] = pc]
              /\ pass'.fills = fs /\ pass'.next = n + 1
      BY <2>2, <1>1, <1>3, <1>4, NextFill
    <3>2. Due(pc)' = n + 1 /\ Written(pc)' = n
      BY <3>1 DEF Due, Written
    <3> QED
      BY <3>1, <3>2
  <2> QED
    BY <2>1, <2>2 DEF UpdateMaker
<1>8. ASSUME NEW j \in DOMAIN fs, j >= n + 1, Exactly(j - 1), NEW m \in Resting(o)',
             Before(o, m, fs[j].maker)'
      PROVE  SpentBy(m, n + 1, j)'
  <2>1. /\ m \in Orders /\ orders'[m].status \in Open /\ orders'[m].side # orders'[o].side
        /\ orders'[m].user # orders'[o].user
    BY <1>2 DEF Resting, RowsKept
  <2>2. SameTerms(m) /\ SameTerms(o) /\ SameTerms(fs[j].maker)
    BY <1>2, <1>5, <2>1 DEF RowsKept
  <2>3. orders[m].status \in Open
    <3>1. orders[w].status \in Open
      BY <1>4, <1>5, <1>6 DEF MakersDue
    <3> QED
      BY <3>1, <1>2, <2>1
  <2>4. m \in Resting(o) /\ Before(o, m, fs[j].maker)
    BY <1>8, <2>1, <2>2, <2>3 DEF Resting, SameTerms, Before
  <2>5. SpentBy(m, n, j)
    BY <1>4, <1>5, <1>6, <1>8, <2>4 DEF Best
  <2>6. /\ orders[m].quantity \in Nat /\ orders[m].filled \in Nat
        /\ orders'[m].quantity = orders[m].quantity
    BY <1>1, <2>1, <2>2, TypeParts, RowsTyped DEF SameTerms
  <2>7. CASE m # w
    <3>1. Remaining(m)' = Remaining(m)
      BY <2>1, <2>7, <1>2 DEF Remaining
    <3>2. \A k \in n..(j - 1) : fs[k].maker = m => k \in (n + 1)..(j - 1)
      BY <2>7, <1>5
    <3> QED
      BY <2>5, <3>1, <3>2, <1>4, <1>7 DEF SpentBy
  <2>8. CASE m = w
    <3>1. Remaining(m)' = Remaining(m) - fs[n].quantity
      BY <2>6, <2>8, <1>5 DEF Remaining
    <3>2. Remaining(m) \in Int
      BY <2>6 DEF Remaining
    <3>3. CASE Remaining(m) <= 0
      <4>1. Remaining(m)' <= 0
        BY <3>1, <3>2, <3>3, <1>5
      <4> QED
        BY <4>1 DEF SpentBy
    <3>4. CASE \E k \in n..(j - 1) : fs[k].maker = m /\ fs[k].quantity = Remaining(m)
      <4>1. PICK k \in n..(j - 1) : fs[k].maker = m /\ fs[k].quantity = Remaining(m)
        BY <3>4
      <4>2. k \in DOMAIN fs
        BY <1>5
      <4>3. k = n
        BY <4>1, <4>2, <2>8, <1>4, <1>5, <1>6 DEF MakersOnce
      <4>4. Remaining(m)' <= 0
        BY <3>1, <3>2, <4>1, <4>3
      <4> QED
        BY <4>4 DEF SpentBy
    <3> QED
      BY <2>5, <3>3, <3>4, <1>4 DEF SpentBy
  <2> QED
    BY <2>7, <2>8
<1>9. Best(o, Due(pc))'
  <2>1. \A k : Exactly(k)' <=> Exactly(k)
    BY <1>4, <1>7 DEF Exactly, TradeRowAllowed
  <2>2. Best(o, n + 1)'
    BY <1>7, <1>8, <2>1 DEF Best
  <2> QED
    BY <2>2, <1>7 DEF Best, SpentBy, Due
<1>10. Exactly(Written(pc))' /\ PassOnTape(o, Written(pc))'
  BY <1>1, <1>4, <1>6, <1>7 DEF Exactly, PassOnTape, TradeRowAllowed, Written
<1>11. TapeGrows(o) /\ pc \in Passed
  BY <1>1 DEF TapeGrows, Passed, InPass
<1>12. InOrder'
  BY <1>1, <1>2, <1>6, <1>7, <1>9, <1>10, <1>11, PassInOrderMoves
<1> QED
  BY <1>1, <1>12, SameTape

(* The steps of a placement outside the pass, and its failures.            *)
LEMMA OutsideInOrder ==
    ASSUME TypeOK, OneRequest, InOrder, RowsKept, trades' = trades, NEW o \in Orders,
           place[o] \notin Ended, NEW pc \in PlaceStates, GoPlace(o, pc),
           pc \notin Settling, place[o] \in Passed => pc \in Passed
    PROVE  InOrder' /\ NewTradeBest
<1>1. /\ place'[o] = pc /\ \A x \in Orders : x # o => place'[x] = place[x]
  BY PlaceTyped DEF GoPlace
<1>2. \A x \in Orders : x # o => place[x] \notin Settling
  BY DEF OneRequest, Ended, Settling
<1> QED
  BY <1>1, <1>2, NoPassInOrder

LEMMA PlaceStepInOrder ==
    ASSUME IInv, Alone, InOrder, NEW o \in Orders, PlaceStep(o)
    PROVE  InOrder' /\ NewTradeBest
<1>1. TypeOK /\ OneRequest /\ MakersLive
  BY DEF IInv, Alone
<1>2. CASE LockFunds(o) \/ EnqueuePlace(o)
  <2>1. /\ place[o] \in {"lock", "enqueue"} /\ orders' = orders /\ trades' = trades
        /\ \E pc \in {"open", "reject", "waiting"} : GoPlace(o, pc)
    BY <1>2 DEF LockFunds, EnqueuePlace
  <2>2. RowsKept
    BY <1>1, <2>1, RowsUntouched
  <2> QED
    BY <1>1, <2>1, <2>2, OutsideInOrder DEF PlaceStates, Passed, InPass, Settling, Ended
<1>3. CASE RejectOrder(o) \/ OpenOrder(o)
  <2>1. /\ place[o] \in {"reject", "open"} /\ trades' = trades
        /\ \E pc \in {"failed", "enqueue"} : GoPlace(o, pc)
        /\ \E status \in Statuses : SetStatus(o, status)
    BY <1>3 DEF RejectOrder, OpenOrder, Statuses, Open, Terminal
  <2>2. RowsKept
    BY <1>1, <2>1, StatusChange
  <2> QED
    BY <1>1, <2>1, <2>2, OutsideInOrder DEF PlaceStates, Passed, InPass, Settling, Ended
<1>4. CASE FinalizeTaker(o)
  <2>1. /\ place[o] = "finalize" /\ trades' = trades
        /\ \E pc \in {"takerRelease", "done"} : GoPlace(o, pc)
    BY <1>4 DEF FinalizeTaker
  <2>2. RowsKept
    BY <1>4, FinalizeTakerRows
  <2> QED
    BY <1>1, <2>1, <2>2, OutsideInOrder DEF PlaceStates, Passed, InPass, Settling, Ended
<1>5. CASE ReleaseTaker(o) \/ StepRefused(o)
  <2>1. /\ Holds("place", o) /\ orders' = orders /\ trades' = trades
        /\ \E pc \in {"done", "failed"} : GoPlace(o, pc)
    BY <1>5 DEF ReleaseTaker, StepRefused, FailPlace
  <2>2. RowsKept /\ place[o] \notin Ended
    BY <1>1, <2>1, RowsUntouched, HolderUnderWay
  <2> QED
    BY <1>1, <2>1, <2>2, OutsideInOrder DEF PlaceStates, Passed, InPass, Settling
<1> QED
  BY <1>1, <1>2, <1>3, <1>4, <1>5, MatchOrderInOrder, FillStepInOrder,
     CreateTradeInOrder, UpdateMakerInOrder DEF PlaceStep

(* When no placement is under way.                                         *)
LEMMA IdleInOrder ==
    ASSUME TypeOK, InOrder, RowsKept, trades' = trades, place' = place,
           \A x \in Orders : place[x] \in Ended
    PROVE  InOrder' /\ NewTradeBest
BY NoPassInOrder DEF Settling, Ended

LEMMA CancelInOrder ==
    ASSUME IInv, Alone, InOrder, NEW o \in Orders, CancelStep(o) \/ CancelError(o)
    PROVE  InOrder' /\ NewTradeBest
<1>1. TypeOK
  BY DEF IInv
<1>2. /\ Holds("cancel", o) /\ place' = place /\ trades' = trades
      /\ \/ orders' = orders
         \/ SetStatus(o, "CANCELLED")
  BY DEF CancelStep, CheckCancel, CancelOrder, ReleaseCancelled, CancelRefused,
     CancelError, FailCancel
<1>3. \A x \in Orders : place[x] \in Ended
  BY <1>2, HolderUnderWay DEF Alone, OneRequest
<1>4. RowsKept
  <2>1. "CANCELLED" \in Statuses
    BY DEF Statuses, Terminal
  <2> QED
    BY <1>1, <1>2, <2>1, RowsUntouched, StatusChange
<1> QED
  BY <1>1, <1>2, <1>3, <1>4, IdleInOrder

LEMMA PlaceOrderInOrder ==
    ASSUME IInv, InOrder, MaxInFlight = 1, NEW input \in OrderInputs, PlaceOrder(input)
    PROVE  InOrder' /\ NewTradeBest
<1>1. TypeOK /\ InFlight < MaxInFlight /\ trades' = trades
  BY DEF IInv, PlaceOrder
<1>2. \A x \in Orders : place[x] \in Ended
  BY <1>1, NoneUnderWay
<1>3. PICK n \in Nat : n = Len(orders)
  BY <1>1, TypeParts
<1>4. /\ Orders = 1..n /\ Orders' = 1..(n + 1)
      /\ \A x \in Orders : orders'[x] = orders[x]
      /\ orders'[n + 1].quantity = input.quantity
      /\ orders'[n + 1].type = input.type /\ orders'[n + 1].side = input.side
      /\ place'[n + 1] = "lock" /\ \A x \in Orders : place'[x] = place[x]
  BY <1>1, <1>3, NewOrder
<1>5. \A x \in Orders' : x \in Orders \/ x = n + 1
  BY <1>4
<1>6. NoQuantity'
  <2>1. BudgetDriven(orders'[n + 1]) => orders'[n + 1].quantity = 0
    BY <1>4, InputsAssumption DEF BudgetDriven
  <2>2. \A x \in Orders : BudgetDriven(orders'[x]) => orders'[x].quantity = 0
    BY <1>4 DEF InOrder, NoQuantity
  <2> QED
    BY <1>5, <2>1, <2>2 DEF NoQuantity, BudgetDriven
<1>7. PassInOrder'
  BY <1>2, <1>4, <1>5 DEF PassInOrder, Settling, Ended
<1>8. TapeOfPass'
  <2> SUFFICES ASSUME NEW k \in DOMAIN trades' PROVE WrittenBy(trades[k])'
    BY DEF TapeOfPass
  <2>1. k \in DOMAIN trades /\ trades'[k] = trades[k] /\ trades[k].taker \in Orders
    BY <1>1, TapeEntries
  <2>2. place[trades[k].taker] \in Passed \cap Ended
    BY <2>1, <1>2 DEF InOrder, TapeOfPass, WrittenBy
  <2> QED
    BY <2>1, <2>2, <1>4 DEF WrittenBy, Settling, Ended
<1> QED
  BY <1>1, <1>6, <1>7, <1>8, SameTape DEF InOrder

LEMMA NextInOrder ==
    ASSUME IInv, Alone, InOrder, MaxInFlight = 1, [Next]_vars
    PROVE  InOrder' /\ NewTradeBest
<1>1. TypeOK /\ OneRequest
  BY DEF IInv, Alone
<1>2. ASSUME NEW o \in Orders, RequestCancel(o) PROVE InOrder' /\ NewTradeBest
  <2>1. /\ InFlight < MaxInFlight /\ place' = place /\ orders' = orders
        /\ trades' = trades
    BY <1>2 DEF RequestCancel
  <2> QED
    BY <1>1, <2>1, NoneUnderWay, RowsUntouched, IdleInOrder
<1>3. ASSUME NEW o \in Orders, PlaceError(o) PROVE InOrder' /\ NewTradeBest
  <2>1. /\ GoPlace(o, "failed") /\ orders' = orders /\ trades' = trades
        /\ place[o] \in {"lock", "reject", "open"} \/ Holds("place", o)
    BY <1>3 DEF PlaceError, FailPlace
  <2>2. place[o] \notin Ended /\ RowsKept
    BY <1>1, <2>1, HolderUnderWay, RowsUntouched DEF Ended
  <2> QED
    BY <1>1, <2>1, <2>2, OutsideInOrder DEF PlaceStates, Passed, Settling
<1>4. CASE Crash
  <2>1. /\ place' = [o \in Orders |-> IF place[o] \in Ended THEN place[o] ELSE "failed"]
        /\ orders' = orders /\ trades' = trades
    BY <1>4 DEF Crash
  <2>2. \A x \in Orders : /\ place'[x] \notin Settling
                          /\ place[x] \in Passed => place'[x] \in Passed
    BY <2>1 DEF Ended, Settling, Passed
  <2> QED
    BY <1>1, <2>1, <2>2, RowsUntouched, NoPassInOrder
<1>5. CASE UNCHANGED vars
  <2>1. orders' = orders /\ place' = place /\ trades' = trades /\ pass' = pass
    BY <1>5 DEF vars
  <2>2. NewTradeBest
    BY <1>1, <2>1, SameTape
  <2>3. InOrder'
    BY <2>1, SameRowsSameBook DEF InOrder, PassInOrder, TapeOfPass, WrittenBy, Written,
       Due, Best, SpentBy, Exactly, TradeRowAllowed
  <2> QED
    BY <2>2, <2>3
<1> QED
  BY <1>2, <1>3, <1>4, <1>5, PlaceOrderInOrder, PlaceStepInOrder, CancelInOrder
     DEF Next, Idle

(* Every trade is with the best resting order of another user that still   *)
(* has something left, as long as requests come one at a time: a pass      *)
(* takes the book in price-time order and uses up each order before the    *)
(* next one, and where rounding would let it skip a part of one, the trade *)
(* row of that fill is refused and the pass ends.                          *)
THEOREM PriorityOnTape ==
    ASSUME MaxInFlight = 1
    PROVE  Spec => PriceTimePriorityKept
<1>1. Init => Alone /\ InOrder
  <2>1. Init => Orders = {} /\ DOMAIN trades = {}
    BY DEF Init, Orders
  <2> QED
    BY <2>1 DEF Alone, OneRequest, TakerLive, MakersLive, CancelLive, InOrder, NoQuantity,
       PassInOrder, TapeOfPass
<1>2. IInv /\ Alone /\ InOrder /\ [Next]_vars => Alone' /\ InOrder' /\ NewTradeBest
  BY NextAlone, NextInOrder
<1>3. Spec => [](Alone /\ InOrder)
  BY <1>1, <1>2, Inductive, PTL DEF Spec
<1>4. Spec => [][NewTradeBest]_vars
  BY <1>2, <1>3, Inductive, PTL DEF Spec
<1> QED
  BY <1>4 DEF PriceTimePriorityKept, NewTradeBest
=============================================================================
