------------------------------- MODULE MCRails -------------------------------
(***************************************************************************)
(* The rails by which money comes in, INR goes out and INR and USDT are    *)
(* converted, on one ledger, and the addresses deposits are sent to.       *)
(*                                                                         *)
(* INR of one user.  "gateway": two webhooks and the verification of one   *)
(* gateway deposit at once.  "faulty": the same with one failure at any    *)
(* step.  "checkers": three admins on two claims to one transfer, a small  *)
(* one and one above the threshold, with one failure.  "alone": one        *)
(* withdrawal, the only money the user has locked, two admins acting on it *)
(* at once while its request still runs, and two failures.  "together": a  *)
(* gateway deposit and a claim, and two withdrawals that spend them, each  *)
(* row handled by one call at a time.                                      *)
(*                                                                         *)
(* Crypto deposits of two users.  "scan": one worker, two transfers, a     *)
(* reorganisation between two cycles and a lost cycle.  "workers": two     *)
(* workers over one transfer on a chain that only grows.  "submit": two    *)
(* users and an admin over one transaction, with a reorganisation between  *)
(* calls and two failures.  "other": the same over one that pays the       *)
(* master wallet nothing.  "races": a reorganisation at any step of the    *)
(* scan, and a failed fetch.  "addresses": three calls at once for the     *)
(* addresses of three users, one failure.                                  *)
(*                                                                         *)
(* Conversions of one user.  "retries": three requests with the key of one *)
(* quote at once, and two failures.  "quotes": two with one key and one    *)
(* with its own, for another quote, at once, and one failure.  "treasury": *)
(* two quotes executed one after the other against a small treasury.       *)
(***************************************************************************)
EXTENDS Postings, TLC

CONSTANTS Scenarios, Admins, Clerks, NoAdmin, Handlers,
          Callers, Admin, NoOwner, OneWorker, TwoWorkers, Calls

VARIABLES scenario, balance, posted,
          deposit, recorded, emitted, handler, verify, desk, approvers, lost,
          row, request, review, failures,
          chain, hashes, reorgs, cursor, worker, claim, call,
          keys, quote, snapshots, conversions, addresses

MCUsers == {"alice", "bob"}
MCAssets == {"INR", "USDT"}
MCSystemKinds == {"GATEWAY_CLEARING", "MANUAL_BANK_CLEARING", "SWEEP_CLEARING",
                  "LIQUIDITY", "FEE_REVENUE", "TDS_PAYABLE"}

Gateways == {"g1"}
Claims == {"m1", "m2"}
MCWithdrawals == {"w1", "w2"}
MCAmount == [x \in Gateways \cup Claims \cup MCWithdrawals |->
                IF x = "m2" THEN 5 ELSE 2]
MCUtr == [d \in Claims |-> "utr"]

-----------------------------------------------------------------------------
Gateway == INSTANCE Deposit WITH
    GatewayDeposits <- Gateways, ManualDeposits <- {}, Amount <- MCAmount,
    Utr <- MCUtr, Owner <- "alice", DualThreshold <- 5, Overlap <- TRUE,
    MaxFailures <- 0

Faulty == INSTANCE Deposit WITH
    GatewayDeposits <- Gateways, ManualDeposits <- {}, Amount <- MCAmount,
    Utr <- MCUtr, Owner <- "alice", DualThreshold <- 5, Overlap <- TRUE,
    MaxFailures <- 1

Checkers == INSTANCE Deposit WITH
    GatewayDeposits <- {}, ManualDeposits <- Claims, Amount <- MCAmount,
    Utr <- MCUtr, Owner <- "alice", DualThreshold <- 5, Overlap <- TRUE,
    MaxFailures <- 1

Alone == INSTANCE InrWithdrawal WITH
    Withdrawals <- {"w1"}, Amount <- MCAmount, Owner <- "alice",
    OpeningBalance <- 3, OtherLocks <- 0,
    Overlap <- TRUE, EarlyReview <- TRUE, MaxFailures <- 2

In == INSTANCE Deposit WITH
    GatewayDeposits <- Gateways, ManualDeposits <- {"m2"}, Amount <- MCAmount,
    Utr <- MCUtr, Owner <- "alice", DualThreshold <- 5, Overlap <- FALSE,
    MaxFailures <- 0, Admins <- Clerks

Out == INSTANCE InrWithdrawal WITH
    Withdrawals <- MCWithdrawals, Amount <- MCAmount, Owner <- "alice",
    OpeningBalance <- 0, OtherLocks <- 0,
    Overlap <- FALSE, EarlyReview <- FALSE, MaxFailures <- 0, Admins <- Clerks

OnChain == [t \in {"t1", "t2"} |-> IF t = "t1" THEN 1 ELSE 2]
SubmittedAmount == [t \in {"t1", "t2"} |-> IF t = "t1" THEN 1 ELSE 0]
MCOwner == [t \in {"t1", "t2"} |-> IF t = "t1" THEN "alice" ELSE "bob"]

Scan == INSTANCE DepositScanner WITH
    Transfers <- {"t1", "t2"}, Amount <- OnChain, Owner <- MCOwner,
    Required <- 3, Final <- 3, SafetyLag <- 1, ReorgBuffer <- 3,
    MaxHeight <- 5, MaxReorgs <- 1, ScanWorkers <- OneWorker,
    CalmReorgs <- TRUE, FailedFetches <- FALSE, MaxFailures <- 1

Workers == INSTANCE DepositScanner WITH
    Transfers <- {"t1"}, Amount <- OnChain, Owner <- MCOwner,
    Required <- 2, Final <- 2, SafetyLag <- 0, ReorgBuffer <- 2,
    MaxHeight <- 4, MaxReorgs <- 0, ScanWorkers <- TwoWorkers,
    CalmReorgs <- TRUE, FailedFetches <- FALSE, MaxFailures <- 0

Races == INSTANCE DepositScanner WITH
    Transfers <- {"t1"}, Amount <- OnChain, Owner <- MCOwner,
    Required <- 3, Final <- 3, SafetyLag <- 1, ReorgBuffer <- 3,
    MaxHeight <- 6, MaxReorgs <- 1, ScanWorkers <- OneWorker,
    CalmReorgs <- FALSE, FailedFetches <- TRUE, MaxFailures <- 1

Submissions == INSTANCE MasterDeposit WITH
    Transfers <- {"t1"}, Amount <- SubmittedAmount,
    Required <- 2, Final <- 3, MaxHeight <- 5, MaxReorgs <- 1,
    CalmReorgs <- TRUE, MaxFailures <- 2

Other == INSTANCE MasterDeposit WITH
    Transfers <- {"t2"}, Amount <- SubmittedAmount,
    Required <- 2, Final <- 3, MaxHeight <- 4, MaxReorgs <- 0,
    CalmReorgs <- TRUE, MaxFailures <- 0

Retried == [r \in {"first", "second", "third"} |-> "q1"]
Crossed == [r \in {"first", "second", "other"} |-> IF r = "other" THEN "q2" ELSE "q1"]
Single == [first |-> "q1", second |-> "q2"]
Rich == [user |-> [INR |-> 6, USDT |-> 3], treasury |-> [INR |-> 9, USDT |-> 9]]
Poor == [user |-> [INR |-> 20, USDT |-> 9], treasury |-> [INR |-> 7, USDT |-> 1]]

Retries == INSTANCE Conversion WITH
    Requests <- DOMAIN Retried, KeyOf <- Retried, QuoteOf <- Retried,
    HandlerStart <- "quote", Quotes <- {"q1"}, Owner <- "alice",
    Amounts <- {4}, Rate <- 2, Bps <- 10, feeBps <- 2, tdsBps <- 1,
    Opening <- Rich, Overlap <- TRUE, MaxFailures <- 2

TwoQuotes == INSTANCE Conversion WITH
    Requests <- DOMAIN Crossed, KeyOf <- Crossed, QuoteOf <- Crossed,
    HandlerStart <- "quote", Quotes <- {"q1", "q2"}, Owner <- "alice",
    Amounts <- {4}, Rate <- 2, Bps <- 10, feeBps <- 2, tdsBps <- 1,
    Opening <- Rich, Overlap <- TRUE, MaxFailures <- 1

Treasury == INSTANCE Conversion WITH
    Requests <- DOMAIN Single, KeyOf <- Single, QuoteOf <- Single,
    HandlerStart <- "quote", Quotes <- {"q1", "q2"}, Owner <- "alice",
    Amounts <- 1..6, Rate <- 3, Bps <- 10, feeBps <- 2, tdsBps <- 1,
    Opening <- Poor, Overlap <- FALSE, MaxFailures <- 0

Addresses == INSTANCE DepositAddress WITH
    Owners <- {"alice", "bob", "carol"}, MaxAllocAttempts <- 2, MaxFailures <- 1

ASSUME Parameters ==
    /\ Gateway!Parameters /\ Faulty!Parameters /\ Checkers!Parameters
    /\ Alone!Parameters /\ In!Parameters /\ Out!Parameters
    /\ Scan!Parameters /\ Workers!Parameters /\ Races!Parameters
    /\ Submissions!Parameters /\ Other!Parameters
    /\ Retries!Parameters /\ TwoQuotes!Parameters /\ Treasury!Parameters

-----------------------------------------------------------------------------
depositVars == <<deposit, recorded, emitted, handler, verify, desk, approvers, lost>>
chainVars == <<chain, hashes, reorgs>>
scannerVars == <<cursor, worker>>
conversionVars == <<keys, quote, snapshots, conversions>>

Depositing == {"gateway", "faulty", "checkers", "together"}
Paying == {"alone", "together"}
Converting == {"retries", "quotes", "treasury"}
Scanning == {"scan", "workers", "races"}
Submitting == {"submit", "other"}
OnTheChain == Scanning \cup Submitting
Requesting == Paying \cup Converting
Calling == Submitting \cup {"addresses"}
Failing == Requesting \cup OnTheChain \cup {"addresses"}

(* Of the components a scenario does not run, nothing is kept.             *)
NoDeposits ==
    /\ deposit = <<>> /\ recorded = {} /\ emitted = {} /\ handler = <<>>
    /\ verify = <<>> /\ desk = <<>> /\ approvers = <<>> /\ lost = 0

NoConversions ==
    keys = <<>> /\ quote = <<>> /\ snapshots = {} /\ conversions = <<>>

Init ==
    /\ scenario \in Scenarios
    /\ scenario = "gateway" => Gateway!Init
    /\ scenario = "faulty" => Faulty!Init
    /\ scenario = "checkers" => Checkers!Init
    /\ scenario = "alone" => Alone!Init
    /\ scenario = "together" => In!Init /\ Out!Init
    /\ scenario = "scan" => Scan!Init
    /\ scenario = "workers" => Workers!Init
    /\ scenario = "races" => Races!Init
    /\ scenario = "submit" => Submissions!Init
    /\ scenario = "other" => Other!Init
    /\ scenario = "retries" => Retries!Init
    /\ scenario = "quotes" => TwoQuotes!Init
    /\ scenario = "treasury" => Treasury!Init
    /\ scenario = "addresses" => Addresses!Init /\ balance = <<>> /\ posted = {}
    /\ scenario \notin Depositing => NoDeposits
    /\ scenario \notin Paying => review = <<>>
    /\ scenario \notin Requesting => request = <<>>
    /\ scenario \notin Paying \cup Scanning => row = <<>>
    /\ scenario \notin Failing => failures = 0
    /\ scenario \notin OnTheChain => chain = <<>> /\ hashes = 0 /\ reorgs = 0
    /\ scenario \notin Scanning => cursor = 0 /\ worker = <<>>
    /\ scenario \notin Submitting => claim = <<>>
    /\ scenario \notin Calling => call = <<>>
    /\ scenario \notin Converting => NoConversions
    /\ scenario # "addresses" => addresses = {}

Next ==
    /\ UNCHANGED scenario
    /\ \/ scenario = "gateway" /\ Gateway!Next
       \/ scenario = "faulty" /\ Faulty!Next
       \/ scenario = "checkers" /\ Checkers!Next
       \/ scenario = "alone" /\ Alone!Next
       \/ scenario = "together" /\ In!Next /\ UNCHANGED <<request, review, row, failures>>
       \/ scenario = "together" /\ Out!Next /\ UNCHANGED depositVars
       \/ scenario = "scan" /\ Scan!Next
       \/ scenario = "workers" /\ Workers!Next
       \/ scenario = "races" /\ Races!Next
       \/ scenario = "submit" /\ Submissions!Next
       \/ scenario = "other" /\ Other!Next
       \/ scenario = "retries" /\ Retries!Next
       \/ scenario = "quotes" /\ TwoQuotes!Next
       \/ scenario = "treasury" /\ Treasury!Next
       \/ scenario = "addresses" /\ Addresses!Next /\ UNCHANGED <<balance, posted>>
    /\ scenario \notin Depositing => UNCHANGED depositVars
    /\ scenario \notin Paying => UNCHANGED review
    /\ scenario \notin Requesting => UNCHANGED request
    /\ scenario \notin Paying \cup Scanning => UNCHANGED row
    /\ scenario \notin Failing => UNCHANGED failures
    /\ scenario \notin OnTheChain => UNCHANGED chainVars
    /\ scenario \notin Scanning => UNCHANGED scannerVars
    /\ scenario \notin Submitting => UNCHANGED claim
    /\ scenario \notin Calling => UNCHANGED call
    /\ scenario \notin Converting => UNCHANGED conversionVars
    /\ scenario # "addresses" => UNCHANGED addresses

vars == <<scenario, balance, posted, depositVars, request, review, row, failures,
          chainVars, scannerVars, claim, call, conversionVars, addresses>>

Step(name, step) == scenario = name /\ step /\ UNCHANGED scenario

NoChain ==
    UNCHANGED <<request, review, row, failures, chainVars, scannerVars, claim, call,
                conversionVars, addresses>>

NoInr ==
    UNCHANGED <<depositVars, request, review, claim, call, conversionVars, addresses>>

(* The gateway delivers an event until it is answered, and a handler that  *)
(* has started finishes; a worker's timer starts a new cycle after each.   *)
Spec ==
    /\ Init /\ [][Next]_vars
    /\ \A h \in Handlers : WF_vars(Step("gateway", Gateway!HandlerStep(h) /\ NoChain))
    /\ \A e \in Gateway!Events : WF_vars(Step("gateway", Gateway!Deliver(e) /\ NoChain))
    /\ \A w \in OneWorker : WF_vars(Step("scan", Scan!Cycle(w) /\ NoInr))
    /\ \A w \in TwoWorkers : WF_vars(Step("workers", Workers!Cycle(w) /\ NoInr))

-----------------------------------------------------------------------------
When(s, property) == scenario = s => property

(* "exactly once, never twice, never on a reorged/dropped tx": the users   *)
(* have no more money than the deep transfers that paid it, whatever       *)
(* workers, resubmissions and rechecks overlap, and whatever was           *)
(* reorganised between them.                                               *)
CreditedOnChain ==
    /\ When("scan", Scan!CreditedOnChain)
    /\ When("workers", Workers!CreditedOnChain)
    /\ When("races", Races!CreditedOnChain)
    /\ When("submit", Submissions!CreditedOnChain)
    /\ When("other", Other!CreditedOnChain)

(* Money appears only for a payment the gateway captured in full, or a     *)
(* transfer enough different admins approved, or a transfer deep on the    *)
(* chain, and once for each, whatever overlaps or fails.                   *)
CreditIsBacked ==
    /\ When("gateway", Gateway!CreditIsBacked)
    /\ When("faulty", Faulty!CreditIsBacked)
    /\ When("checkers", Checkers!CreditIsBacked /\ Checkers!TransferCreditedOnce)
    /\ CreditedOnChain

(* A row never shows money that did not move: a successful deposit was     *)
(* credited, a paid or rejected withdrawal was paid or given back, and a   *)
(* submitted transaction was credited to the user that holds its row.  A   *)
(* withdrawal that is no longer shown holds no money, but for the lost     *)
(* answer of a committed reservation.                                      *)
ShownIsMoved ==
    /\ When("gateway", Gateway!DepositInv /\ Gateway!ShownIsMoved)
    /\ When("faulty", Faulty!DepositInv /\ Faulty!ShownIsMoved)
    /\ When("checkers", Checkers!DepositInv /\ Checkers!ShownIsMoved)
    /\ When("alone", /\ Alone!ShownIsMoved /\ Alone!CallsMoved
                     /\ Alone!NotYetReserved /\ Alone!StrandedAsLost)
    /\ When("together", /\ Out!Sequential
                        /\ Out!NotYetReserved /\ Out!StrandedAsLost)
    /\ When("scan", Scan!CreditedIsPosted)
    /\ When("workers", Workers!CreditedIsPosted)
    /\ When("submit", Submissions!CreditedToOwner /\ Submissions!ConfirmedIsCredited)
    /\ When("other", Other!ConfirmedIsCredited)

(* The rows a user is shown explain the user's money: between calls, what  *)
(* is available is what successful deposits brought less what withdrawals  *)
(* hold or paid, and what is locked is what open withdrawals hold.  And    *)
(* where reviews of a withdrawal overlap and calls are lost, the pools are *)
(* what its postings made of them, and never negative.                     *)
BalanceMatchesHistory ==
    /\ When("together",
            In!Quiet /\ Out!AtRest =>
                /\ balance[In!Available("alice", "INR")]
                      = In!Successful - Out!Having({"PENDING", "APPROVED", "PAID"})
                /\ balance[In!Locked("alice", "INR")]
                      = Out!Having({"PENDING", "APPROVED"}))
    /\ When("alone", Alone!PoolAsPosted)

(* A reservation is placed once, and given back or paid out once, although *)
(* reject and markPaid each post before they look at the row again: the    *)
(* postings implement module Reservation.                                  *)
ImplementsReservation == Out!ImplementsReservation

(* A quote is converted once, recorded once, and answered for as it was,   *)
(* however its request is retried with its key (executeConversion itself   *)
(* has no unique index on the quote), and "a replay with the same key      *)
(* returns the ORIGINAL response": no two requests with one key get        *)
(* different answers, errors and conflicts aside.  A quote settles in legs *)
(* that balance whatever the rounding, from what the treasury has, one     *)
(* request at a time.  Requests for a deposit address race, fail and are   *)
(* lost: each user has one, the one every request was answered with, and   *)
(* the derivation indexes are given out once each, from 0.                 *)
AnsweredOnce ==
    /\ When("retries", Retries!ConvertedOnce /\ Retries!OneResponsePerKey)
    /\ When("quotes", /\ TwoQuotes!ConvertedOnce
                      /\ TwoQuotes!OneResponsePerKey
                      /\ TwoQuotes!PlansSettle)
    /\ When("treasury", /\ Treasury!ConvertedOnce
                        /\ Treasury!PlansSettle
                        /\ Treasury!TreasuryCovered)
    /\ When("addresses", Addresses!AddressesHold)

CapturedIsCredited == scenario = "gateway" => Gateway!CapturedIsCredited

(* A transfer that stays on the chain, deep enough, is credited and shown  *)
(* as credited in the end, after a reorganisation or a lost cycle too.     *)
MinedIsCredited ==
    \A t \in {"t1", "t2"} :
        <>[](\/ scenario = "scan" /\ Scan!Scannable(t)
             \/ scenario = "workers" /\ t \in DOMAIN row /\ Workers!Scannable(t))
        => <>[](/\ t \in DOMAIN row /\ row[t].status = "CREDITED"
                /\ Scan!CreditRef(t) \in posted)
=============================================================================
