----------------------------- MODULE Conversion -----------------------------
(***************************************************************************)
(* Conversions between INR and USDT against the treasury                   *)
(* (backend/src/modules/conversion/): a quote binds an amount to a rate    *)
(* for a short time, and executing it posts one settlement, records the    *)
(* conversion and consumes the quote's snapshot.  The execution is the     *)
(* handler behind module Idempotency.  The user's KYC, checked first by    *)
(* both operations, is approved.                                           *)
(***************************************************************************)
EXTENDS LedgerCalls, Idempotency

CONSTANTS
    Quotes,         \* the quotes that may be asked for
    QuoteOf,        \* the quote each request executes
    Owner,          \* the user
    Amounts,        \* the amounts a quote may be asked for
    Rate,           \* INR units for a USDT unit, the spread applied
    Bps,            \* 10000, the denominator of feeBps and tdsBps
    feeBps, tdsBps, \* config.conversion
    Opening         \* the opening balances: of the user, of the treasury

INR == "INR"
USDT == "USDT"
Sides == {"INR_TO_USDT", "USDT_TO_INR"}

(* What an instance must assume of the parameters.                         *)
Parameters ==
    /\ {INR, USDT} \subseteq Assets /\ Owner \in Users
    /\ {"LIQUIDITY", "FEE_REVENUE", "TDS_PAYABLE"} \subseteq SystemKinds
    /\ Rate \in Nat \ {0} /\ Bps \in Nat \ {0}
    /\ feeBps \in 0..Bps /\ tdsBps \in 0..Bps
    /\ \A x \in {INR, USDT} : Opening.user[x] \in Nat /\ Opening.treasury[x] \in Nat

VARIABLES
    quote,          \* price_quotes with their plan, and whether they expired
    snapshots,      \* the quotes whose snapshot is in Redis
    conversions     \* conversions: the number of rows of each quote

conversionVars == <<quote, snapshots, conversions>>
vars == <<ledger, requests, conversionVars>>

NoQuote == [expired |-> FALSE, plan |-> [side |-> "none"]]

Init ==
    /\ balance = [name \in Accounts |->
                     IF name.kind = "USER_AVAILABLE" /\ name.owner = Owner
                     THEN Opening.user[name.asset]
                     ELSE IF name.kind = "LIQUIDITY" THEN Opening.treasury[name.asset]
                     ELSE 0]
    /\ posted = {}
    /\ InitRequests
    /\ quote = [q \in Quotes |-> NoQuote]
    /\ snapshots = {}
    /\ conversions = [q \in Quotes |-> 0]

-----------------------------------------------------------------------------
(* computePlan, in the smallest units of both assets, rounding down.       *)
Part(n, bps) == (n * bps) \div Bps

(* Mutant: the user's share is rounded by itself.                          *)
computePlanByShare(side, amount) ==
    IF side = "INR_TO_USDT"
    THEN LET fee == Part(amount, feeBps) IN
         [side |-> side, inr |-> amount, usdt |-> (amount - fee) \div Rate,
          fee |-> fee, tds |-> 0, gross |-> amount]
    ELSE LET gross == amount * Rate IN
         [side |-> side, inr |-> Part(gross, Bps - feeBps - tdsBps), usdt |-> amount,
          fee |-> Part(gross, feeBps), tds |-> Part(gross, tdsBps), gross |-> gross]

computePlan(side, amount) ==
    IF side = "INR_TO_USDT"
    THEN LET fee == Part(amount, feeBps) IN
         [side |-> side, inr |-> amount, usdt |-> (amount - fee) \div Rate,
          fee |-> fee, tds |-> 0, gross |-> amount]
    ELSE LET gross == amount * Rate
             fee == Part(gross, feeBps)
             tds == Part(gross, tdsBps) IN
         [side |-> side, inr |-> gross - fee - tds, usdt |-> amount,
          fee |-> fee, tds |-> tds, gross |-> gross]

IfPositive(n, line) == IF n > 0 THEN <<line>> ELSE <<>>

buildLines(plan) ==
    IF plan.side = "INR_TO_USDT"
    THEN <<Debit(Available(Owner, INR), plan.inr),
           Credit(System("LIQUIDITY", INR), plan.inr - plan.fee)>>
         \o IfPositive(plan.fee, Credit(System("FEE_REVENUE", INR), plan.fee))
         \o <<Debit(System("LIQUIDITY", USDT), plan.usdt),
              Credit(Available(Owner, USDT), plan.usdt)>>
    ELSE <<Debit(Available(Owner, USDT), plan.usdt),
           Credit(System("LIQUIDITY", USDT), plan.usdt),
           Debit(System("LIQUIDITY", INR), plan.gross),
           Credit(Available(Owner, INR), plan.inr)>>
         \o IfPositive(plan.fee, Credit(System("FEE_REVENUE", INR), plan.fee))
         \o IfPositive(plan.tds, Credit(System("TDS_PAYABLE", INR), plan.tds))

createQuote(q) ==
    /\ quote[q] = NoQuote
    /\ \E side \in Sides, amount \in Amounts :
          LET plan == computePlan(side, amount) IN
          /\ plan.usdt > 0 /\ plan.inr > 0
          /\ quote' = [quote EXCEPT ![q].plan = plan]
    /\ snapshots' = snapshots \cup {q}
    /\ UNCHANGED <<ledger, requests, conversions>>

(* The quote and its snapshot live equally long.                           *)
Expire(q) ==
    /\ quote[q] # NoQuote /\ ~quote[q].expired
    /\ quote' = [quote EXCEPT ![q].expired = TRUE]
    /\ snapshots' = snapshots \ {q}
    /\ UNCHANGED <<ledger, requests, conversions>>

-----------------------------------------------------------------------------
(* executeConversion.                                                      *)
Plan(r) == quote[QuoteOf[r]].plan

(* A quote that has been asked for, and the conversion it already gave.    *)
FindConversion(r) ==
    /\ At(r, "quote")
    /\ IF quote[QuoteOf[r]] = NoQuote THEN Respond(r, "QUOTE_NOT_FOUND")
       ELSE IF conversions[QuoteOf[r]] > 0 THEN Respond(r, "CONVERTED")
       ELSE Go(r, [at |-> "snapshot"])
    /\ UNCHANGED <<ledger, keys, failures, conversionVars>>

ReadSnapshot(r) ==
    /\ At(r, "snapshot")
    /\ IF QuoteOf[r] \notin snapshots THEN Respond(r, "QUOTE_EXPIRED")
       ELSE Go(r, [at |-> "liquidity"])
    /\ UNCHANGED <<ledger, keys, failures, conversionVars>>

(* Mutant: the treasury is asked for the asset it receives.                *)
LiquidOfOther(plan) ==
    IF plan.side = "INR_TO_USDT"
    THEN balance[System("LIQUIDITY", INR)] >= plan.gross
    ELSE balance[System("LIQUIDITY", USDT)] >= plan.usdt

Liquid(plan) ==
    IF plan.side = "INR_TO_USDT"
    THEN balance[System("LIQUIDITY", USDT)] >= plan.usdt
    ELSE balance[System("LIQUIDITY", INR)] >= plan.gross

CheckLiquidity(r) ==
    /\ At(r, "liquidity")
    /\ IF Liquid(Plan(r)) THEN Go(r, [at |-> "settle"])
       ELSE Respond(r, "INSUFFICIENT_LIQUIDITY")
    /\ UNCHANGED <<ledger, keys, failures, conversionVars>>

SettleRef(q) == <<"CONVERSION", q>>

Settle(r) ==
    LET lines == buildLines(Plan(r)) IN
    /\ At(r, "settle")
    /\ \/ /\ Post(SettleRef(QuoteOf[r]), lines)
          /\ Go(r, [at |-> "record"])
       \/ /\ Refused(SettleRef(QuoteOf[r]), lines)
          /\ Respond(r, IF assertPostingBalanced(lines) THEN "INSUFFICIENT_BALANCE"
                        ELSE "UNBALANCED_POSTING")
          /\ UNCHANGED ledger
    /\ UNCHANGED <<keys, failures, conversionVars>>

createConversion(r) ==
    /\ At(r, "record")
    /\ conversions' = [conversions EXCEPT ![QuoteOf[r]] = @ + 1]
    /\ Go(r, [at |-> "consume"])
    /\ UNCHANGED <<ledger, keys, failures, quote, snapshots>>

(* The snapshot is consumed, and kept if Redis does not answer.            *)
ConsumeSnapshot(r) ==
    /\ At(r, "consume")
    /\ snapshots' \in {snapshots, snapshots \ {QuoteOf[r]}}
    /\ Respond(r, "CONVERTED")
    /\ UNCHANGED <<ledger, keys, failures, quote, conversions>>

Handle(r) ==
    \/ FindConversion(r) \/ ReadSnapshot(r) \/ CheckLiquidity(r) \/ Settle(r)
    \/ createConversion(r) \/ ConsumeSnapshot(r)

Serve(r) ==
    \/ Lookup(r) \/ Claim(r) \/ Store(r) \/ StoreFails(r) \/ HandlerFails(r)
    \/ ProcessLost(r)

Next ==
    \/ \E q \in Quotes : createQuote(q) \/ Expire(q)
    \/ \E r \in Requests :
          Handle(r) \/ (Serve(r) /\ UNCHANGED <<ledger, conversionVars>>)

Spec == Init /\ [][Next]_vars

-----------------------------------------------------------------------------
TypeOK ==
    /\ posted \subseteq {"CONVERSION"} \X Quotes
    /\ snapshots \subseteq Quotes
    /\ conversions \in [Quotes -> 0..Cardinality(Requests)]
    /\ failures \in 0..MaxFailures

Converted(q) == SettleRef(q) \in posted

(* A quote is converted once and recorded once, and a client that is told  *)
(* so has the money: however its request is retried with its key, after    *)
(* errors and lost processes.                                              *)
ConvertedOnce ==
    /\ \A q \in Quotes : conversions[q] <= 1 /\ (conversions[q] = 1 => Converted(q))
    /\ \A r \in Requests :
          At(r, "ended") /\ request[r].answer = "CONVERTED" => conversions[QuoteOf[r]] = 1

(* The plan of every quote settles: the legs balance whatever is rounded,  *)
(* and are refused for nothing but what the user does not have.            *)
PlansSettle ==
    \A r \in Requests :
        request[r].at \in {"store", "ended"} => request[r].answer # "UNBALANCED_POSTING"

(* The treasury never owes what it does not have.                          *)
TreasuryCovered ==
    \A x \in {INR, USDT} : balance[System("LIQUIDITY", x)] >= 0
=============================================================================
