----------------------------- MODULE MCTrading -----------------------------
(***************************************************************************)
(* Instances of Trading: two users who can both buy and sell, small prices *)
(* and quantities, and fees large enough to be more than zero on them.     *)
(***************************************************************************)
EXTENDS Trading

MCUsers == {"alice", "bob"}
MCAssets == {"USDT", "INR"}
MCSystemKinds == {"FEE_REVENUE"}

CONSTANTS QuoteFunds, BaseFunds, Prices, Quantities, Budgets

MCFunds == [u \in MCUsers, x \in MCAssets |-> IF x = "INR" THEN QuoteFunds
                                                          ELSE BaseFunds]

LimitInputs ==
    [user : MCUsers, side : {"BUY", "SELL"}, type : {"LIMIT"}, price : Prices,
     quantity : Quantities, budget : {0}]
MarketInputs ==
    [user : MCUsers, side : {"SELL"}, type : {"MARKET"}, price : {NoPrice},
     quantity : Quantities, budget : {0}]
    \cup [user : MCUsers, side : {"BUY"}, type : {"MARKET"}, price : {NoPrice},
          quantity : {0}, budget : Budgets]

MCOrderInputs == LimitInputs \cup MarketInputs

(* alice only buys and bob only sells: the users are interchangeable, and  *)
(* this is one case of each kind of order with a counterparty.             *)
MCOneSidedInputs ==
    {input \in MCOrderInputs : input.user = "alice" <=> input.side = "BUY"}
=============================================================================
