------------------------------ MODULE Trading ------------------------------
(***************************************************************************)
(* Spot trading of one market (backend/src/modules/trading/                *)
(* trading.service.ts, trading.repository.ts): placeOrder and cancelOrder  *)
(* requests as they interleave at their awaits, the in-process market lock *)
(* that queues them, and the order, trade and ledger rows they write one   *)
(* at a time.  Postings are the atomic calls of module LedgerCalls.        *)
(*                                                                         *)
(* One placement and at most one cancellation at a time run per order, so  *)
(* a request is identified by its kind and its order.  Order ids are       *)
(* positions in the order table: creation order, the tie-break of the book.*)
(***************************************************************************)
EXTENDS LedgerCalls, MatchingEngine

CONSTANTS
    OrderInputs,    \* the placeOrder bodies: [user, side, type, price,
                    \* quantity, budget], one per validateAgainstMarket case
    Funds,          \* the opening USER_AVAILABLE balance of each user, asset
    TakerBps,       \* market.takerFeeBps
    MakerBps,       \* market.makerFeeBps
    MinNotional,    \* market.minNotional, in quote units
    BookScanLimit,  \* BOOK_SCAN_LIMIT (500 in the code)
    MaxOrders,      \* bound: orders placed in a behaviour
    MaxInFlight,    \* bound: requests under way at once
    MaxErrors,      \* bound: database errors in a behaviour
    MaxCrashes      \* bound: restarts of the process in a behaviour

Base == "USDT"
Quote == "INR"

ASSUME MarketAssumption == {Base, Quote} \subseteq Assets

(* What the request schemas let through: a LIMIT order has a positive      *)
(* price and a MARKET order none, and a MARKET BUY a budget and no         *)
(* quantity.                                                               *)
ASSUME InputsAssumption ==
    /\ OrderInputs \subseteq
          [user : Users, side : {"BUY", "SELL"}, type : {"LIMIT", "MARKET"},
           price : Nat, quantity : Nat, budget : Nat]
    /\ \A input \in OrderInputs :
          /\ input.type = "LIMIT" <=> input.price # NoPrice
          /\ BudgetDriven(input) => input.quantity = 0

ASSUME FundsAssumption == Funds \in [Users \X Assets -> Nat]

ASSUME NumbersAssumption ==
    /\ {TakerBps, MakerBps, BookScanLimit} \subseteq Nat
    /\ {MaxOrders, MaxErrors, MaxCrashes} \subseteq Nat

VARIABLES
    orders,         \* the orders table
    trades,         \* the trades table, by seq
    place,          \* per order: where its placeOrder request is
    cancel,         \* per order: where its cancelOrder request is
    queue,          \* the promise chain of withMarketLock; its head runs
    pass,           \* the local state of the matchAndSettle under way
    errors,         \* database errors so far
    crashes         \* restarts so far

vars == <<balance, posted, orders, trades, place, cancel, queue, pass,
          errors, crashes>>

Orders == DOMAIN orders

NoPass == [fills |-> << >>, next |-> 1, filled |-> 0, quote |-> 0]

Init ==
    /\ balance = [name \in Accounts |->
                     IF name.kind = "USER_AVAILABLE"
                     THEN Funds[<<name.owner, name.asset>>] ELSE 0]
    /\ posted = {}
    /\ orders = << >>
    /\ trades = << >>
    /\ place = << >>
    /\ cancel = << >>
    /\ queue = << >>
    /\ pass = NoPass
    /\ errors = 0
    /\ crashes = 0

-----------------------------------------------------------------------------
LockRef(o) == <<"ORDER_LOCK", o, o>>

(* Mutant: a reference type the ledger does not know.                      *)
UnlockRefMisspelt(o) == <<"ORDER_RELEASE", o, o>>

UnlockRef(o) == <<"ORDER_UNLOCK", o, o>>
TradeRef(t, m) == <<"TRADE", t, m>>     \* deterministicUuid(taker:maker)

lockedAsset(o) == IF orders[o].side = "BUY" THEN Quote ELSE Base

LockLines(o) ==
    <<Debit(Available(orders[o].user, lockedAsset(o)), orders[o].locked),
      Credit(Locked(orders[o].user, lockedAsset(o)), orders[o].locked)>>

(* Mutant: a BUY order, too, is taken to have spent its filled quantity.   *)
SurplusOfQuantity(o) == orders[o].locked - orders[o].filled

(* What releaseSurplus gives back: the lock less what the row says it      *)
(* spent.  Nothing is posted when nothing is left.                         *)
Surplus(o) ==
    orders[o].locked - (IF orders[o].side = "BUY" THEN orders[o].spent
                                                   ELSE orders[o].filled)

SurplusLines(o) ==
    <<Debit(Locked(orders[o].user, lockedAsset(o)), Surplus(o)),
      Credit(Available(orders[o].user, lockedAsset(o)), Surplus(o))>>

releaseSurplus(o) ==
    IF Surplus(o) <= 0 THEN UNCHANGED ledger
                       ELSE Post(UnlockRef(o), SurplusLines(o))

ReleaseRefused(o) == Surplus(o) > 0 /\ Refused(UnlockRef(o), SurplusLines(o))

-----------------------------------------------------------------------------
(* Requests under way, and the market lock.                                *)
Task(kind, o) == [kind |-> kind, order |-> o]

Ended == {"none", "done", "failed"}

InFlight ==
    Cardinality({o \in Orders : place[o] \notin Ended})
        + Cardinality({o \in Orders : cancel[o] \notin Ended})

Holds(kind, o) == queue # << >> /\ Head(queue) = Task(kind, o)

GoPlace(o, pc) == place' = [place EXCEPT ![o] = pc]
GoCancel(o, pc) == cancel' = [cancel EXCEPT ![o] = pc]

(* The lock passes to the next request whether this one succeeds or fails. *)
Unlock == queue' = Tail(queue) /\ pass' = NoPass

-----------------------------------------------------------------------------
(* placeOrder, before the market lock.                                     *)

(* validateAgainstMarket and createOrder.  A repeated clientOrderId        *)
(* returns the existing order and changes nothing.                         *)
PlaceOrder(input) ==
    /\ Len(orders) < MaxOrders
    /\ InFlight < MaxInFlight
    /\ input.type = "LIMIT"
          => input.price * input.quantity >= MinNotional * QScale
    /\ BudgetDriven(input) => input.budget >= MinNotional
    /\ orders' = Append(orders,
           [user |-> input.user, side |-> input.side, type |-> input.type,
            price |-> input.price, quantity |-> input.quantity,
            budget |-> input.budget, locked |-> computeLockRequirement(input),
            filled |-> 0, spent |-> 0, status |-> "PENDING"])
    /\ place' = Append(place, "lock")
    /\ cancel' = Append(cancel, "none")
    /\ UNCHANGED <<balance, posted, trades, queue, pass, errors, crashes>>

(* USER_AVAILABLE -> USER_LOCKED, or INSUFFICIENT_BALANCE.                 *)
LockFunds(o) ==
    /\ place[o] = "lock"
    /\ \/ /\ Post(LockRef(o), LockLines(o))
          /\ GoPlace(o, "open")
       \/ /\ Refused(LockRef(o), LockLines(o))
          /\ GoPlace(o, "reject")
          /\ UNCHANGED ledger
    /\ UNCHANGED <<orders, trades, cancel, queue, pass, errors, crashes>>

SetStatus(o, status) == orders' = [orders EXCEPT ![o].status = status]

RejectOrder(o) ==
    /\ place[o] = "reject"
    /\ SetStatus(o, "REJECTED")
    /\ GoPlace(o, "failed")
    /\ UNCHANGED <<balance, posted, trades, cancel, queue, pass, errors, crashes>>

(* updateOrder is unconditional: whatever happened to the row meanwhile.   *)
OpenOrder(o) ==
    /\ place[o] = "open"
    /\ SetStatus(o, "OPEN")
    /\ GoPlace(o, "enqueue")
    /\ UNCHANGED <<balance, posted, trades, cancel, queue, pass, errors, crashes>>

(* Mutant: a placement goes ahead of the requests that wait.               *)
EnqueuePlaceFirst(o) ==
    /\ place[o] = "enqueue"
    /\ queue' = <<Task("place", o)>> \o queue
    /\ GoPlace(o, "waiting")
    /\ UNCHANGED <<balance, posted, orders, trades, cancel, pass, errors, crashes>>

EnqueuePlace(o) ==
    /\ place[o] = "enqueue"
    /\ queue' = Append(queue, Task("place", o))
    /\ GoPlace(o, "waiting")
    /\ UNCHANGED <<balance, posted, orders, trades, cancel, pass, errors, crashes>>

-----------------------------------------------------------------------------
(* matchAndSettle, under the market lock.                                  *)

Open == {"OPEN", "PARTIALLY_FILLED"}
Terminal == {"FILLED", "CANCELLED", "REJECTED"}

Remaining(o) == orders[o].quantity - orders[o].filled

(* Mutant: the taker's own orders are in the book.                         *)
RestingWithOwn(o) ==
    {m \in Orders : orders[m].side # orders[o].side /\ orders[m].status \in Open}

Resting(o) ==
    {m \in Orders : /\ orders[m].side # orders[o].side
                    /\ orders[m].status \in Open
                    /\ orders[m].user # orders[o].user}

Before(o, m, n) ==
    \/ Ahead(orders[o].side, orders[m].price, orders[n].price)
    \/ orders[m].price = orders[n].price /\ m < n

(* Mutant: the book is ordered by age alone.                               *)
loadRestingBookByAge(o) ==
    LET n == Cardinality(Resting(o))
        sorted == CHOOSE s \in [1..n -> Resting(o)] :
                     \A j, k \in 1..n : j < k => s[j] < s[k]
    IN  SubSeq(sorted, 1, LeastOf(n, BookScanLimit))

loadRestingBook(o) ==
    LET n == Cardinality(Resting(o))
        sorted == CHOOSE s \in [1..n -> Resting(o)] :
                     \A j, k \in 1..n : j < k => Before(o, s[j], s[k])
    IN  SubSeq(sorted, 1, LeastOf(n, BookScanLimit))

BookOf(o) ==
    [k \in DOMAIN loadRestingBook(o) |->
        LET m == loadRestingBook(o)[k]
        IN  [id |-> m, price |-> orders[m].price,
             remaining |-> IF BudgetDriven(orders[m]) THEN 0 ELSE Remaining(m)]]

AfterFill(o, next) ==
    /\ pass' = [pass EXCEPT !.next = next]
    /\ GoPlace(o, IF next > Len(pass.fills) THEN "finalize" ELSE "settle")

MatchOrder(o) ==
    /\ Holds("place", o)
    /\ place[o] = "waiting"
    /\ \E book \in {BookOf(o)} : \E result \in {matchOrder(orders[o], book)} :
          /\ pass' = [fills |-> result.fills, next |-> 1,
                      filled |-> result.filledQuantity,
                      quote |-> result.quoteTotal]
          /\ GoPlace(o, IF result.fills = << >> THEN "finalize" ELSE "settle")
    /\ UNCHANGED <<balance, posted, orders, trades, cancel, queue, errors, crashes>>

CurrentFill == pass.fills[pass.next]

Buyer(o, m) == IF orders[o].side = "BUY" THEN o ELSE m
Seller(o, m) == IF orders[o].side = "BUY" THEN m ELSE o

FeeLines(asset, fee) ==
    IF fee > 0 THEN <<Credit(System("FEE_REVENUE", asset), fee)>> ELSE << >>

(* Each side pays on what it receives, at the rate of its role.            *)
buyerFee(o, f) ==
    computeFee(f.quantity, IF Buyer(o, f.maker) = o THEN TakerBps ELSE MakerBps)
sellerFee(o, f) ==
    computeFee(f.quoteAmount, IF Seller(o, f.maker) = o THEN TakerBps ELSE MakerBps)

SettleLines(o, f) ==
    LET buyer  == orders[Buyer(o, f.maker)].user
        seller == orders[Seller(o, f.maker)].user
    IN  <<Debit(Locked(buyer, Quote), f.quoteAmount),
          Credit(Available(seller, Quote), f.quoteAmount - sellerFee(o, f)),
          Debit(Locked(seller, Base), f.quantity),
          Credit(Available(buyer, Base), f.quantity - buyerFee(o, f))>>
        \o FeeLines(Quote, sellerFee(o, f)) \o FeeLines(Base, buyerFee(o, f))

(* Mutant: a settlement the ledger refuses is taken for done.              *)
SettleFillSwallowed(o) ==
    LET f == CurrentFill IN
    /\ Holds("place", o)
    /\ place[o] = "settle"
    /\ \/ Post(TradeRef(o, f.maker), SettleLines(o, f))
       \/ Refused(TradeRef(o, f.maker), SettleLines(o, f)) /\ UNCHANGED ledger
    /\ GoPlace(o, "trade")
    /\ UNCHANGED <<orders, trades, cancel, queue, pass, errors, crashes>>

(* settleFill: first the ledger ...                                        *)
SettleFill(o) ==
    /\ Holds("place", o)
    /\ place[o] = "settle"
    /\ Post(TradeRef(o, CurrentFill.maker), SettleLines(o, CurrentFill))
    /\ GoPlace(o, "trade")
    /\ UNCHANGED <<orders, trades, cancel, queue, pass, errors, crashes>>

(* trades_quote_chk: the row's quote amount is price * quantity within     *)
(* 1e-12, which is nothing at the scales of the assets.                    *)
TradeRowAllowed(f) ==
    /\ f.price > 0
    /\ f.quoteAmount * QScale = f.price * f.quantity

TradeExists(t, m) ==
    \E k \in DOMAIN trades : trades[k].taker = t /\ trades[k].maker = m

(* Mutant: the fees are written to the wrong columns.                      *)
TradeRowFeesSwapped(o, f) ==
    [taker |-> o, maker |-> f.maker, price |-> f.price,
     quantity |-> f.quantity, quoteAmount |-> f.quoteAmount,
     makerFee |-> IF Buyer(o, f.maker) = o THEN buyerFee(o, f) ELSE sellerFee(o, f),
     takerFee |-> IF Buyer(o, f.maker) = o THEN sellerFee(o, f) ELSE buyerFee(o, f)]

(* The row of a fill.  A maker that buys paid the buyer's fee.             *)
TradeRow(o, f) ==
    [taker |-> o, maker |-> f.maker, price |-> f.price,
     quantity |-> f.quantity, quoteAmount |-> f.quoteAmount,
     makerFee |-> IF orders[f.maker].side = "BUY" THEN buyerFee(o, f)
                                                  ELSE sellerFee(o, f),
     takerFee |-> IF orders[f.maker].side = "BUY" THEN sellerFee(o, f)
                                                  ELSE buyerFee(o, f)]

(* ... then the trade row; an existing row of the same fill is returned.   *)
CreateTrade(o) ==
    LET f == CurrentFill IN
    /\ Holds("place", o)
    /\ place[o] = "trade"
    /\ TradeExists(o, f.maker) \/ TradeRowAllowed(f)
    /\ trades' = IF TradeExists(o, f.maker) THEN trades
                 ELSE Append(trades, TradeRow(o, f))
    /\ GoPlace(o, "maker")
    /\ UNCHANGED <<balance, posted, orders, cancel, queue, pass, errors, crashes>>

(* orders_filled_chk, for rows that have a quantity.                       *)
FilledRowAllowed(o, filled) ==
    BudgetDriven(orders[o]) \/ filled <= orders[o].quantity

(* Mutant: the maker's quoteSpent is not advanced.                         *)
UpdateMakerQuantityOnly(o) ==
    LET m      == CurrentFill.maker
        filled == orders[m].filled + CurrentFill.quantity
        closed == orders[m].quantity - filled <= 0
    IN
    /\ Holds("place", o)
    /\ place[o] = "maker"
    /\ FilledRowAllowed(m, filled)
    /\ orders' = [orders EXCEPT
           ![m].filled = filled,
           ![m].status = IF closed THEN "FILLED" ELSE "PARTIALLY_FILLED"]
    /\ IF closed THEN GoPlace(o, "makerRelease") /\ UNCHANGED pass
                 ELSE AfterFill(o, pass.next + 1)
    /\ UNCHANGED <<balance, posted, trades, cancel, queue, errors, crashes>>

UpdateMaker(o) ==
    LET m      == CurrentFill.maker
        filled == orders[m].filled + CurrentFill.quantity
        closed == orders[m].quantity - filled <= 0
    IN
    /\ Holds("place", o)
    /\ place[o] = "maker"
    /\ FilledRowAllowed(m, filled)
    /\ orders' = [orders EXCEPT
           ![m].filled = filled,
           ![m].spent = @ + CurrentFill.quoteAmount,
           ![m].status = IF closed THEN "FILLED" ELSE "PARTIALLY_FILLED"]
    /\ IF closed THEN GoPlace(o, "makerRelease") /\ UNCHANGED pass
                 ELSE AfterFill(o, pass.next + 1)
    /\ UNCHANGED <<balance, posted, trades, cancel, queue, errors, crashes>>

ReleaseMaker(o) ==
    /\ Holds("place", o)
    /\ place[o] = "makerRelease"
    /\ releaseSurplus(CurrentFill.maker)
    /\ AfterFill(o, pass.next + 1)
    /\ UNCHANGED <<orders, trades, cancel, queue, errors, crashes>>

TakerStatus(o) ==
    CASE orders[o].type = "LIMIT" /\ pass.filled >= orders[o].quantity -> "FILLED"
      [] orders[o].type = "LIMIT" /\ pass.filled < orders[o].quantity ->
            IF pass.filled > 0 THEN "PARTIALLY_FILLED" ELSE "OPEN"
      [] orders[o].type = "MARKET" ->
            IF pass.filled > 0 THEN "FILLED" ELSE "CANCELLED"

(* The taker's row takes the totals of this pass, whatever it held before. *)
FinalizeTaker(o) ==
    /\ Holds("place", o)
    /\ place[o] = "finalize"
    /\ FilledRowAllowed(o, pass.filled)
    /\ orders' = [orders EXCEPT ![o].filled = pass.filled,
                                ![o].spent = pass.quote,
                                ![o].status = TakerStatus(o)]
    /\ IF TakerStatus(o) \in Terminal
       THEN GoPlace(o, "takerRelease") /\ UNCHANGED <<queue, pass>>
       ELSE GoPlace(o, "done") /\ Unlock
    /\ UNCHANGED <<balance, posted, trades, cancel, errors, crashes>>

ReleaseTaker(o) ==
    /\ Holds("place", o)
    /\ place[o] = "takerRelease"
    /\ releaseSurplus(o)
    /\ GoPlace(o, "done")
    /\ Unlock
    /\ UNCHANGED <<orders, trades, cancel, errors, crashes>>

-----------------------------------------------------------------------------
(* cancelOrder.  The owner finds the order in the order history as soon as *)
(* the row exists.                                                         *)
RequestCancel(o) ==
    /\ InFlight < MaxInFlight
    /\ cancel[o] \in {"none", "failed"}
    /\ queue' = Append(queue, Task("cancel", o))
    /\ GoCancel(o, "waiting")
    /\ UNCHANGED <<balance, posted, orders, trades, place, pass, errors, crashes>>

(* Mutant: an order that just filled can still be cancelled.               *)
CancellableIfFilled == {"PENDING", "OPEN", "PARTIALLY_FILLED", "FILLED"}

Cancellable == {"PENDING", "OPEN", "PARTIALLY_FILLED"}

CheckCancel(o) ==
    /\ Holds("cancel", o)
    /\ cancel[o] = "waiting"
    /\ \/ /\ orders[o].status \in Cancellable
          /\ GoCancel(o, "update")
          /\ UNCHANGED <<queue, pass>>
       \/ /\ orders[o].status \notin Cancellable
          /\ GoCancel(o, "done")
          /\ Unlock
    /\ UNCHANGED <<balance, posted, orders, trades, place, errors, crashes>>

(* The update is unconditional: the placement of the same order, before it *)
(* waits for the market lock, may have written another status since.       *)
CancelOrder(o) ==
    /\ Holds("cancel", o)
    /\ cancel[o] = "update"
    /\ SetStatus(o, "CANCELLED")
    /\ GoCancel(o, "release")
    /\ UNCHANGED <<balance, posted, trades, place, queue, pass, errors, crashes>>

ReleaseCancelled(o) ==
    /\ Holds("cancel", o)
    /\ cancel[o] = "release"
    /\ releaseSurplus(o)
    /\ GoCancel(o, "done")
    /\ Unlock
    /\ UNCHANGED <<orders, trades, place, errors, crashes>>

-----------------------------------------------------------------------------
(* A request that throws ends there: the rows it wrote stay as they are,   *)
(* and the market lock, if it held it, passes on.                          *)
InPass == {"settle", "trade", "maker", "makerRelease", "finalize", "takerRelease"}
InCancel == {"update", "release"}

(* Mutant: the chain continues only after requests that succeed.           *)
FailPlaceHoldingLock(o) ==
    /\ GoPlace(o, "failed")
    /\ UNCHANGED <<balance, posted, orders, trades, cancel, queue, pass, crashes>>

FailPlace(o) ==
    /\ GoPlace(o, "failed")
    /\ IF Holds("place", o) THEN Unlock ELSE UNCHANGED <<queue, pass>>
    /\ UNCHANGED <<balance, posted, orders, trades, cancel, crashes>>

FailCancel(o) ==
    /\ GoCancel(o, "failed")
    /\ Unlock
    /\ UNCHANGED <<balance, posted, orders, trades, place, crashes>>

(* The step's own write is refused: an insufficient locked balance, or a   *)
(* CHECK constraint of the schema.                                         *)
StepRefused(o) ==
    /\ Holds("place", o)
    /\ \/ /\ place[o] = "settle"
          /\ Refused(TradeRef(o, CurrentFill.maker), SettleLines(o, CurrentFill))
       \/ /\ place[o] = "trade"
          /\ ~TradeExists(o, CurrentFill.maker)
          /\ ~TradeRowAllowed(CurrentFill)
       \/ /\ place[o] = "maker"
          /\ ~FilledRowAllowed(CurrentFill.maker,
                 orders[CurrentFill.maker].filled + CurrentFill.quantity)
       \/ place[o] = "makerRelease" /\ ReleaseRefused(CurrentFill.maker)
       \/ place[o] = "finalize" /\ ~FilledRowAllowed(o, pass.filled)
       \/ place[o] = "takerRelease" /\ ReleaseRefused(o)
    /\ FailPlace(o)
    /\ UNCHANGED errors

CancelRefused(o) ==
    /\ Holds("cancel", o)
    /\ cancel[o] = "release"
    /\ ReleaseRefused(o)
    /\ FailCancel(o)
    /\ UNCHANGED errors

(* The database fails the step instead, or fails after doing it and before *)
(* the answer arrives, which is an error at the step that follows.         *)
PlaceError(o) ==
    /\ errors < MaxErrors
    /\ errors' = errors + 1
    /\ \/ place[o] \in {"lock", "reject", "open"}
       \/ Holds("place", o)
    /\ FailPlace(o)

CancelError(o) ==
    /\ errors < MaxErrors
    /\ errors' = errors + 1
    /\ Holds("cancel", o)
    /\ FailCancel(o)

(* The process restarts: every request under way and the chain of promises *)
(* are gone, the rows remain, and nothing resumes them.                    *)
Crash ==
    LET Lost(pc) == [o \in Orders |-> IF pc[o] \in Ended THEN pc[o] ELSE "failed"]
    IN
    /\ crashes < MaxCrashes
    /\ InFlight > 0
    /\ crashes' = crashes + 1
    /\ place' = Lost(place)
    /\ cancel' = Lost(cancel)
    /\ queue' = << >>
    /\ pass' = NoPass
    /\ UNCHANGED <<balance, posted, orders, trades, errors>>

-----------------------------------------------------------------------------
PlaceStep(o) ==
    \/ LockFunds(o) \/ RejectOrder(o) \/ OpenOrder(o) \/ EnqueuePlace(o)
    \/ MatchOrder(o) \/ SettleFill(o) \/ CreateTrade(o) \/ UpdateMaker(o)
    \/ ReleaseMaker(o) \/ FinalizeTaker(o) \/ ReleaseTaker(o)
    \/ StepRefused(o)

CancelStep(o) ==
    CheckCancel(o) \/ CancelOrder(o) \/ ReleaseCancelled(o) \/ CancelRefused(o)

(* No request is under way and none need come.                             *)
Idle == InFlight = 0 /\ UNCHANGED vars

Next ==
    \/ \E input \in OrderInputs : PlaceOrder(input)
    \/ \E o \in Orders : \/ PlaceStep(o)
                         \/ RequestCancel(o)
                         \/ CancelStep(o)
                         \/ PlaceError(o)
                         \/ CancelError(o)
    \/ Crash
    \/ Idle

Spec == Init /\ [][Next]_vars

(* The event loop never rests while a step of some request can be taken;   *)
(* users need not act, and no failure need happen.                         *)
FairSpec ==
    Spec /\ WF_vars(\E o \in Orders : PlaceStep(o) \/ CancelStep(o))

-----------------------------------------------------------------------------
Statuses == Open \cup Terminal \cup {"PENDING"}

OrderRows ==
    [user : Users, side : {"BUY", "SELL"}, type : {"LIMIT", "MARKET"},
     price : Nat, quantity : Nat, budget : Nat, locked : Nat, filled : Nat,
     spent : Nat, status : Statuses]

FillRecords == [maker : Orders, price : Nat, quantity : Nat, quoteAmount : Nat]

TradeRows ==
    [taker : Orders, maker : Orders, price : Nat, quantity : Nat,
     quoteAmount : Nat, makerFee : Nat, takerFee : Nat]

TypeOK ==
    /\ balance \in [Accounts -> Int]
    /\ posted \subseteq ({"ORDER_LOCK", "ORDER_UNLOCK", "TRADE"} \X Orders \X Orders)
    /\ orders \in Seq(OrderRows)
    /\ Len(orders) <= MaxOrders
    /\ \A o \in Orders : FilledRowAllowed(o, orders[o].filled)
    /\ trades \in Seq(TradeRows)
    /\ place \in [Orders -> InPass \cup {"lock", "reject", "open", "enqueue",
                                         "waiting", "done", "failed"}]
    /\ cancel \in [Orders -> InCancel \cup {"none", "waiting", "done", "failed"}]
    /\ queue \in Seq([kind : {"place", "cancel"}, order : Orders])
    /\ pass \in [fills : Seq(FillRecords), next : Nat \ {0}, filled : Nat,
                 quote : Nat]
    /\ errors \in 0..MaxErrors /\ crashes \in 0..MaxCrashes

(* withMarketLock: at most one request is past its wait, it is the head of *)
(* the chain, and no request is in the chain twice.                        *)
MarketLockExclusive ==
    /\ \A o \in Orders : place[o] \in InPass => Holds("place", o)
    /\ \A o \in Orders : cancel[o] \in InCancel => Holds("cancel", o)
    /\ \A j, k \in DOMAIN queue : queue[j] = queue[k] => j = k

(* A row of the public tape stands for money that moved, between orders    *)
(* whose funds had been reserved: an order that was rejected, or whose     *)
(* lock failed, never trades.                                              *)
TradesAreSettled ==
    \A k \in DOMAIN trades :
        /\ TradeRef(trades[k].taker, trades[k].maker) \in posted
        /\ LockRef(trades[k].taker) \in posted
        /\ LockRef(trades[k].maker) \in posted

(* Both parties of a trade get their limit or better, never their own      *)
(* order, and opposite sides; and although MARKET orders in flight are in  *)
(* the book, without a price, they are never the maker.                    *)
TradesWithinLimits ==
    \A k \in DOMAIN trades :
        LET t == orders[trades[k].taker]
            m == orders[trades[k].maker]
        IN  /\ t.user # m.user /\ t.side # m.side
            /\ m.type = "LIMIT"
            /\ \A q \in {t, m} :
                  q.type = "LIMIT" =>
                      IF q.side = "BUY" THEN trades[k].price <= q.price
                                        ELSE trades[k].price >= q.price

(* Whatever overlaps or fails, every row of the tape is backed by its      *)
(* settlement and both reservations, within the limits of both parties,    *)
(* and the rows stay within what the schema allows.                        *)
TapeIsSound == TypeOK /\ TradesAreSettled /\ TradesWithinLimits

(* Every request returns: the chain of promises never wedges, although the *)
(* requests ahead in it may throw.                                         *)
Busy(o) == o \in Orders /\ (place[o] \notin Ended \/ cancel[o] \notin Ended)

RequestsReturn == \A o \in 1..MaxOrders : Busy(o) ~> ~Busy(o)

-----------------------------------------------------------------------------
(* What holds between requests.                                            *)
AtRest == InFlight = 0

TradesOf(o) == {k \in DOMAIN trades : trades[k].taker = o \/ trades[k].maker = o}
TradedQuantity(o) == MapThenSumSet(LAMBDA k : trades[k].quantity, TradesOf(o))
TradedQuote(o) == MapThenSumSet(LAMBDA k : trades[k].quoteAmount, TradesOf(o))

Outstanding(o) == IF orders[o].status \in Terminal THEN 0 ELSE Surplus(o)

(* Every live order is fully backed by its owner's USER_LOCKED balance and *)
(* nothing else is locked: closing an order, however it closes, gives back *)
(* all it did not spend.                                                   *)
LocksMatchOrders ==
    AtRest =>
        \A u \in Users, x \in {Base, Quote} :
            balance[Locked(u, x)] =
                MapThenSumSet(LAMBDA o : Outstanding(o),
                    {o \in Orders : orders[o].user = u /\ lockedAsset(o) = x})

(* The fill state of an order is what the tape says it traded.             *)
OrdersMatchTape ==
    AtRest =>
        \A o \in Orders : /\ orders[o].filled = TradedQuantity(o)
                         /\ orders[o].spent = TradedQuote(o)

(* Whoever reads the tape can account for every balance: a user's wealth   *)
(* changed by what its orders received, paid and were charged, and the     *)
(* exchange earned exactly the fees the rows show.                         *)
QuantityReceived(k, side) == IF side = "BUY" THEN trades[k].quantity
                                             ELSE trades[k].quoteAmount
QuantityPaid(k, side) == IF side = "BUY" THEN trades[k].quoteAmount
                                         ELSE trades[k].quantity

(* What trade k brought order o in asset x.                                *)
Delta(k, o, x) ==
    LET fee == IF trades[k].taker = o THEN trades[k].takerFee
                                      ELSE trades[k].makerFee
    IN  IF x = lockedAsset(o) THEN -QuantityPaid(k, orders[o].side)
                              ELSE QuantityReceived(k, orders[o].side) - fee

BalancesMatchTape ==
    AtRest =>
        \A x \in {Base, Quote} :
            LET Gained(u) ==
                    MapThenSumSet(LAMBDA o :
                        MapThenSumSet(LAMBDA k : Delta(k, o, x), TradesOf(o)),
                        {o \in Orders : orders[o].user = u})
            IN  /\ \A u \in Users :
                      balance[Available(u, x)] + balance[Locked(u, x)]
                          = Funds[u, x] + Gained(u)
                /\ balance[System("FEE_REVENUE", x)]
                      = -MapThenSumSet(LAMBDA u : Gained(u), Users)

(* The user's money is explained by the user's orders and the tape.        *)
MoneyMatchesTape == LocksMatchOrders /\ BalancesMatchTape

(* No two resting orders of different users cross, and only LIMIT orders   *)
(* rest: matching leaves nothing it could have done.                       *)
BookIsUncrossed ==
    AtRest =>
        \A b, s \in {o \in Orders : orders[o].status \in Open} :
            /\ orders[b].type = "LIMIT"
            /\ (/\ orders[b].side = "BUY" /\ orders[s].side = "SELL"
                /\ orders[b].user # orders[s].user)
                  => orders[b].price < orders[s].price

(* FILLED, CANCELLED and REJECTED are final.                               *)
TerminalIsFinal ==
    [][\A o \in Orders : orders[o].status \in Terminal => orders'[o] = orders[o]]_vars

(* A trade is always with the best resting order of another user that      *)
(* still has something left.                                               *)
PriceTimePriorityKept ==
    [][Len(trades') > Len(trades) =>
          LET t == trades'[Len(trades')]
          IN  ~\E m \in Resting(t.taker) :
                  /\ m # t.maker
                  /\ Before(t.taker, m, t.maker)
                  /\ Remaining(m) > 0]_vars

-----------------------------------------------------------------------------
(* What the comments and the documents say of the program, and the code    *)
(* does not do.                                                            *)

(* The market lock prevents "a maker order being double-spent by two       *)
(* concurrent takers": no order trades more than its quantity.             *)
TradedWithinQuantity ==
    \A o \in Orders :
        ~BudgetDriven(orders[o]) => TradedQuantity(o) <= orders[o].quantity

(* "Cancel/expire -> release remaining USER_LOCKED -> USER_AVAILABLE": a   *)
(* user whose orders are all closed has nothing locked.                    *)
ClosedOrdersLockNothing ==
    AtRest =>
        \A u \in Users :
            (\A o \in Orders : orders[o].user = u => orders[o].status \in Terminal)
                => \A x \in {Base, Quote} : balance[Locked(u, x)] = 0

(* "Settle each fill atomically: insert trades row + a balanced            *)
(* ledger_transaction and update both orders": a settled fill has its row. *)
SettledFillsHaveTrades ==
    AtRest => \A t, m \in Orders : TradeRef(t, m) \in posted => TradeExists(t, m)
=============================================================================
