---------------------------- MODULE MatchingRun ----------------------------
(***************************************************************************)
(* The loop of matchOrder run maker by maker over every taker and every    *)
(* sorted book of a bounded size, and compared with what the matching      *)
(* should be, stated without a loop.                                       *)
(***************************************************************************)
EXTENDS MatchingEngine, FiniteSetsExt

CONSTANTS
    MaxPrice,       \* bound: prices 1..MaxPrice
    MaxQuantity,    \* bound: quantities and remainders up to this
    MaxBudget,      \* bound: budgets of MARKET BUY orders
    MaxDepth        \* bound: resting orders in the book

VARIABLES
    taker,          \* the incoming order
    book,           \* the resting orders, sorted, not yet consumed
    i,              \* the maker the loop looks at next
    loop            \* what the loop carries

engineVars == <<taker, book, i, loop>>

(* What an instance must assume of the bounds.                             *)
Parameters ==
    MaxPrice \in Nat /\ MaxQuantity \in Nat /\ MaxBudget \in Nat /\ MaxDepth \in Nat

Takers ==
    [side : {"BUY", "SELL"}, type : {"LIMIT"}, price : 1..MaxPrice,
     quantity : 1..MaxQuantity, budget : {0}]
    \cup [side : {"SELL"}, type : {"MARKET"}, price : {NoPrice},
          quantity : 1..MaxQuantity, budget : {0}]
    \cup [side : {"BUY"}, type : {"MARKET"}, price : {NoPrice},
          quantity : {0}, budget : 1..MaxBudget]

(* The books loadRestingBook returns, MARKET orders still in flight among  *)
(* them: they have no price, and a MARKET BUY has remaining '0'.  A LIMIT  *)
(* order rests with nothing left only until its status is updated.         *)
Books(side) ==
    LET Priced == [price : 1..MaxPrice, remaining : 0..MaxQuantity]
        Null == IF side = "BUY"
                THEN [price : {NoPrice}, remaining : 1..MaxQuantity]
                ELSE [price : {NoPrice}, remaining : {0}]
        Resting == Priced \cup Null
    IN  UNION { {[k \in 1..n |-> [id |-> k, price |-> b[k].price,
                                  remaining |-> b[k].remaining]] :
                    b \in {m \in [1..n -> Resting] :
                        \A k \in 1..(n - 1) :
                            ~Ahead(side, m[k + 1].price, m[k].price)}} :
                n \in 0..MaxDepth }

EngineInit ==
    /\ taker \in Takers
    /\ book \in Books(taker.side)
    /\ i = 1
    /\ loop = LoopStart(taker)

EngineNext ==
    \/ /\ i <= Len(book)
       /\ loop' = LoopBody(taker, loop, book[i])
       /\ i' = i + 1
       /\ UNCHANGED <<taker, book>>
    \/ /\ i > Len(book)
       /\ UNCHANGED engineVars

EngineSpec == EngineInit /\ [][EngineNext]_engineVars

-----------------------------------------------------------------------------
Done == i > Len(book)

FilledOf(k) ==
    MapThenSumSet(LAMBDA f : loop.fills[f].quantity,
                  {f \in DOMAIN loop.fills : loop.fills[f].maker = book[k].id})

Eligible(k) ==
    /\ book[k].remaining > 0
    /\ taker.type = "LIMIT" => crosses(taker.side, taker.price, book[k].price)

(* computeLockRequirement reserves enough: whatever the book and however   *)
(* the fills round, the taker never owes more than it locked.              *)
LockCoversExecution ==
    (IF taker.side = "BUY" THEN loop.quote ELSE loop.filled)
        <= computeLockRequirement(taker)

(* The notional of a fill is a whole number of quote units: the only fills *)
(* whose rows the schema admits (trades_quote_chk).                        *)
Exact(f) == f.quoteAmount * QScale = f.price * f.quantity

(* A MARKET BUY keeps the quote its fill of resting order k lost to the    *)
(* rounding, which may buy a quote unit's worth from an order further on.  *)
LostDust(k) ==
    /\ BudgetDriven(taker)
    /\ \E f \in DOMAIN loop.fills :
          loop.fills[f].maker = book[k].id /\ ~Exact(loop.fills[f])

(* Price-time priority: nothing is taken from a resting order while an     *)
(* eligible one ahead of it in the book still has something left, dust     *)
(* aside.                                                                  *)
PriceTimePriority ==
    \A j, k \in DOMAIN book :
        j < k /\ FilledOf(k) > 0 /\ Eligible(j) =>
            FilledOf(j) = book[j].remaining \/ LostDust(j)

(* Book position 1 holds an order without a price, which the price test of *)
(* a LIMIT SELL taker takes for a bid of zero.                             *)
Obstructed ==
    /\ taker.type = "LIMIT" /\ taker.side = "SELL"
    /\ book # << >> /\ book[1].price = NoPrice

(* What the taker could still trade with resting order k, in base.         *)
Tradable(k) ==
    LET left == book[k].remaining - FilledOf(k)
    IN  LeastOf(left, IF BudgetDriven(taker)
                      THEN Affordable(loop.remaining, book[k])
                      ELSE loop.remaining)

(* Matching is complete when the best order it leaves liquidity in offers  *)
(* the taker less than one quote unit, or its fill left dust.  Only an     *)
(* order without a price ahead of the bids keeps a LIMIT SELL from         *)
(* matching at all.                                                        *)
Complete ==
    LET left == {k \in DOMAIN book : Eligible(k) /\ FilledOf(k) < book[k].remaining}
    IN  Done =>
          IF Obstructed THEN loop.fills = << >>
          ELSE left # {} =>
                   \/ quoteFloor(book[Min(left)].price, Tradable(Min(left))) = 0
                   \/ LostDust(Min(left))

(* The loop gives what matching should be, stated without a loop: nothing  *)
(* is passed over by price and time, and nothing the taker could still     *)
(* trade is left, dust aside.                                              *)
MatchesReference == PriceTimePriority /\ Complete
=============================================================================
