----------------------------- MODULE Withdrawal -----------------------------
(***************************************************************************)
(* Crypto withdrawals (backend/src/modules/withdrawal/): the user's        *)
(* request with its ledger hold, the admins' approve and reject requests,  *)
(* the workers that claim, sign, broadcast and confirm, and the network    *)
(* the transactions are sent to, interleaved at the services' awaits.      *)
(*                                                                         *)
(* One user withdraws to one address; every withdrawal has one             *)
(* requestWithdrawal call.                                                 *)
(* Row updates are single statements: conditional ones (updateMany with a  *)
(* status) take effect or count zero rows, the others always take effect.  *)
(* The chain is external: a transaction sent once is mined or dropped.     *)
(***************************************************************************)
EXTENDS LedgerCalls

CONSTANTS
    Withdrawals,    \* the withdrawals requested in a behaviour
    Amount,         \* the gross amount of each
    Fee,            \* config.withdrawal.feeUsdt
    DualThreshold,  \* config.withdrawal.dualApprovalThreshold
    DailyLimit,     \* the user's usdtDailyWithdrawal; one day is modelled
    OpeningBalance, \* the user's USER_AVAILABLE balance at the start
    Owner,          \* the user
    Admins,         \* the reviewers
    NoAdmin,        \* a null approvedBy, approvedBy2
    Workers,        \* the executors running at once
    EarlyReview,    \* whether admins act on rows whose request still runs
    MayFreeze,      \* whether the global freeze may be switched on
    MaxFailures     \* bound: database errors and lost processes

Asset == "USDT"
NoNonce == -1

(* What an instance must assume of the parameters.                         *)
Parameters ==
    /\ Asset \in Assets /\ Owner \in Users
    /\ {"HOT_WALLET", "FEE_REVENUE"} \subseteq SystemKinds
    /\ NoAdmin \notin Admins
    /\ Fee \in Nat /\ OpeningBalance \in Nat /\ MaxFailures \in Nat
    /\ \A w \in Withdrawals : Amount[w] \in Nat /\ Amount[w] > Fee

VARIABLES
    row,            \* crypto_withdrawals: status, hold bound, approvers, nonce
    request,        \* per withdrawal: where its requestWithdrawal call is
    review,         \* per admin: the approve or reject request under way
    worker,         \* per worker: its cycle, with the rows it listed
    nextNonce,      \* wallet_nonces of the hot wallet
    chain,          \* the transactions sent, and what became of them
    frozen,         \* system_flags.withdrawals_frozen
    allowed,        \* the user's address in withdrawal_addresses
    approvals,      \* history: the admins whose approval was accepted
    failures        \* database errors and lost processes so far

gates == <<frozen, allowed>>
vars == <<balance, posted, row, request, review, worker, nextNonce, chain,
          gates, approvals, failures>>

NoRow == [status |-> "NONE", hold |-> FALSE, approvedBy |-> NoAdmin,
          approvedBy2 |-> NoAdmin, nonce |-> NoNonce]

IdleReview == [at |-> "idle"]
IdleWorker == [at |-> "list", pass |-> "broadcast", todo |-> {}]

Init ==
    /\ balance = [name \in Accounts |->
                     IF name = Available(Owner, Asset) THEN OpeningBalance ELSE 0]
    /\ posted = {}
    /\ row = [w \in Withdrawals |-> NoRow]
    /\ request = [w \in Withdrawals |-> "none"]
    /\ review = [a \in Admins |-> IdleReview]
    /\ worker = [k \in Workers |-> IdleWorker]
    /\ nextNonce = 0
    /\ chain = {}
    /\ frozen = FALSE
    /\ allowed = "no"
    /\ approvals = [w \in Withdrawals |-> {}]
    /\ failures = 0

Set(w, status) == row' = [row EXCEPT ![w].status = status]

-----------------------------------------------------------------------------
(* The ledger movements.                                                   *)
HoldRef(w) == <<"HOLD", w>>

(* Mutant: a reference type the ledger does not know.                      *)
ReleaseRefMisspelt(w) == <<"UNHOLD", w>>

ReleaseRef(w) == <<"RELEASE", w>>
FinalRef(w) == <<"FINAL", w>>

HoldLines(w) == <<Debit(Available(Owner, Asset), Amount[w]),
                  Credit(Locked(Owner, Asset), Amount[w])>>

(* Mutant: the release gives back what would have left on the chain.       *)
ReleaseLinesNet(w) == <<Debit(Locked(Owner, Asset), Amount[w] - Fee),
                        Credit(Available(Owner, Asset), Amount[w] - Fee)>>

ReleaseLines(w) == <<Debit(Locked(Owner, Asset), Amount[w]),
                     Credit(Available(Owner, Asset), Amount[w])>>

FinalLines(w) ==
    <<Debit(Locked(Owner, Asset), Amount[w]),
      Credit(System("HOT_WALLET", Asset), Amount[w] - Fee)>>
        \o (IF Fee > 0 THEN <<Credit(System("FEE_REVENUE", Asset), Fee)>>
                       ELSE << >>)

(* A release that either happens or is refused and throws.                 *)
releaseHold(w) ==
    \/ Post(ReleaseRef(w), ReleaseLines(w))
    \/ Refused(ReleaseRef(w), ReleaseLines(w)) /\ UNCHANGED ledger

-----------------------------------------------------------------------------
(* requestWithdrawal.                                                      *)
GoRequest(w, at) == request' = [request EXCEPT ![w] = at]

(* What sumTodayWithdrawals counts.                                        *)
Counting == {w \in Withdrawals :
                row[w].status \notin {"NONE", "REJECTED", "FAILED", "CANCELLED"}}

sumTodayWithdrawals == MapThenSumSet(LAMBDA w : Amount[w], Counting)

(* An address is added once, and may be used when its cooling-off is over. *)
AddAddress ==
    /\ allowed = "no"
    /\ allowed' = "cooling"
    /\ UNCHANGED <<balance, posted, row, request, review, worker, nextNonce,
                   chain, frozen, approvals, failures>>

CoolingOffEnds ==
    /\ allowed = "cooling"
    /\ allowed' = "usable"
    /\ UNCHANGED <<balance, posted, row, request, review, worker, nextNonce,
                   chain, frozen, approvals, failures>>

(* The checks that read the flag, the user, the address and the day's      *)
(* total; a request that fails one of them changes nothing.                *)
CheckRequest(w) ==
    /\ request[w] = "none"
    /\ ~frozen
    /\ allowed = "usable"
    /\ sumTodayWithdrawals + Amount[w] <= DailyLimit
    /\ GoRequest(w, "create")
    /\ UNCHANGED <<balance, posted, row, review, worker, nextNonce, chain,
                   gates, approvals, failures>>

CreateWithdrawal(w) ==
    /\ request[w] = "create"
    /\ Set(w, "REQUESTED")
    /\ GoRequest(w, "hold")
    /\ UNCHANGED <<balance, posted, review, worker, nextNonce, chain, gates,
                   approvals, failures>>

PlaceHold(w) ==
    /\ request[w] = "hold"
    /\ \/ Post(HoldRef(w), HoldLines(w)) /\ GoRequest(w, "bind")
       \/ /\ Refused(HoldRef(w), HoldLines(w))
          /\ GoRequest(w, "refuse")
          /\ UNCHANGED ledger
    /\ UNCHANGED <<row, review, worker, nextNonce, chain, gates, approvals,
                   failures>>

(* setHold is unconditional: whatever happened to the row meanwhile.       *)
SetHold(w) ==
    /\ request[w] = "bind"
    /\ row' = [row EXCEPT ![w].status = "PENDING_APPROVAL", ![w].hold = TRUE]
    /\ GoRequest(w, "done")
    /\ UNCHANGED <<balance, posted, review, worker, nextNonce, chain, gates,
                   approvals, failures>>

MarkRequestFailed(w) ==
    /\ request[w] = "refuse"
    /\ Set(w, "FAILED")
    /\ GoRequest(w, "done")
    /\ UNCHANGED <<balance, posted, review, worker, nextNonce, chain, gates,
                   approvals, failures>>

-----------------------------------------------------------------------------
(* approve and reject: the row is read, then conditionally updated.        *)
Large(w) == Amount[w] >= DualThreshold

GoReview(a, r) == review' = [review EXCEPT ![a] = r]

(* findById, and the early returns that depend on what it read.            *)
OpenReview(a, w, kind) ==
    LET seen == row[w] IN
    /\ review[a] = IdleReview
    /\ seen.status # "NONE"
    /\ EarlyReview \/ request[w] = "done"
    /\ kind = "approve" =>
          /\ seen.status = "PENDING_APPROVAL"
          /\ ~(Large(w) /\ seen.approvedBy = a)
    /\ GoReview(a, [at |-> kind, withdrawal |-> w, seen |-> seen])
    /\ UNCHANGED <<balance, posted, row, request, worker, nextNonce, chain,
                   gates, approvals, failures>>

(* The where clauses of firstApprove, approveSmall and secondApprove.      *)
isSecond(a) == LET r == review[a]
               IN  Large(r.withdrawal) /\ r.seen.approvedBy # NoAdmin

Approvable(a) ==
    LET now == row[review[a].withdrawal] IN
    /\ now.status = "PENDING_APPROVAL"
    /\ IF isSecond(a)
       THEN /\ now.approvedBy = review[a].seen.approvedBy
            /\ now.approvedBy2 = NoAdmin
            /\ now.approvedBy # a
       ELSE now.approvedBy = NoAdmin

(* Mutant: one approval is enough whatever the amount.                     *)
ApprovedRowAtOnce(a, now) ==
    [now EXCEPT !.status = "APPROVED", !.approvedBy = a]

ApprovedRow(a, now) ==
    IF isSecond(a)
    THEN [now EXCEPT !.status = "APPROVED", !.approvedBy2 = a]
    ELSE [now EXCEPT !.status = IF Large(review[a].withdrawal)
                                THEN "PENDING_APPROVAL" ELSE "APPROVED",
                     !.approvedBy = a]

Approve(a) ==
    /\ review[a].at = "approve"
    /\ LET w == review[a].withdrawal IN
       \/ /\ Approvable(a)
          /\ row' = [row EXCEPT ![w] = ApprovedRow(a, row[w])]
          /\ approvals' = [approvals EXCEPT ![w] = @ \cup {a}]
       \/ ~Approvable(a) /\ UNCHANGED <<row, approvals>>
    /\ GoReview(a, IdleReview)
    /\ UNCHANGED <<balance, posted, request, worker, nextNonce, chain, gates,
                   failures>>

(* Mutant: a withdrawal being signed or on the chain can be rejected.      *)
RejectableInFlight == {"REQUESTED", "PENDING_APPROVAL", "APPROVED", "SIGNING",
                       "BROADCAST", "CONFIRMING"}

Rejectable == {"REQUESTED", "RISK_CHECK", "PENDING_APPROVAL", "APPROVED",
               "QUEUED"}

(* The rejecting admin overwrites approvedBy, which dual_chk refuses to    *)
(* the one who gave the second approval.                                   *)
RejectAllowed(a) ==
    LET now == row[review[a].withdrawal]
    IN  now.status \in Rejectable /\ now.approvedBy2 # a

(* The hold is released if the row read before the update had one.         *)
Reject(a) ==
    LET w == review[a].withdrawal IN
    /\ review[a].at = "reject"
    /\ \/ /\ RejectAllowed(a)
          /\ row' = [row EXCEPT ![w].status = "REJECTED", ![w].approvedBy = a]
          /\ GoReview(a, IF review[a].seen.hold
                         THEN [review[a] EXCEPT !.at = "release"]
                         ELSE IdleReview)
       \/ ~RejectAllowed(a) /\ GoReview(a, IdleReview) /\ UNCHANGED row
    /\ UNCHANGED <<balance, posted, request, worker, nextNonce, chain, gates,
                   approvals, failures>>

ReleaseRejected(a) ==
    /\ review[a].at = "release"
    /\ releaseHold(review[a].withdrawal)
    /\ GoReview(a, IdleReview)
    /\ UNCHANGED <<row, request, worker, nextNonce, chain, gates, approvals,
                   failures>>

-----------------------------------------------------------------------------
(* The executor: a broadcast pass over the rows it finds APPROVED, then a  *)
(* confirmation pass over those in flight, one row at a time, each as it   *)
(* was when the pass listed it.                                            *)
GoWorker(k, x) == worker' = [worker EXCEPT ![k] = x]

NextItem(k) == [at |-> "item", pass |-> worker[k].pass, todo |-> worker[k].todo]

Listed(statuses) ==
    {[withdrawal |-> w, seen |-> row[w]] :
        w \in {v \in Withdrawals : row[v].status \in statuses}}

(* listForBroadcast, listForConfirmation.                                  *)
List(k) ==
    /\ worker[k].at = "list"
    /\ GoWorker(k, [at |-> "item", pass |-> worker[k].pass,
           todo |-> Listed(IF worker[k].pass = "broadcast" THEN {"APPROVED"}
                           ELSE {"BROADCAST", "CONFIRMING"})])
    /\ UNCHANGED <<balance, posted, row, request, review, nextNonce, chain,
                   gates, approvals, failures>>

EndPass(k) ==
    /\ worker[k].at = "item"
    /\ worker[k].todo = {}
    /\ GoWorker(k, [at |-> "list", todo |-> {},
           pass |-> IF worker[k].pass = "broadcast" THEN "confirm"
                                                    ELSE "broadcast"])
    /\ UNCHANGED <<balance, posted, row, request, review, nextNonce, chain,
                   gates, approvals, failures>>

Take(k, item, at) ==
    GoWorker(k, [at |-> at, pass |-> worker[k].pass,
                 todo |-> worker[k].todo \ {item}, item |-> item,
                 nonce |-> NoNonce])

Skip(k, item) ==
    GoWorker(k, [worker[k] EXCEPT !.todo = @ \ {item}])

(* Mutant: the claim trusts the status the pass listed.                    *)
ClaimableAsListed(item) == item.seen.status = "APPROVED"

Claimable(item) == row[item.withdrawal].status = "APPROVED"

(* claimForBroadcast: a row someone else claimed, or that was rejected, is *)
(* left alone.                                                             *)
Claim(k, item) ==
    /\ worker[k].at = "item" /\ worker[k].pass = "broadcast"
    /\ item \in worker[k].todo
    /\ \/ Claimable(item) /\ Set(item.withdrawal, "SIGNING") /\ Take(k, item, "nonce")
       \/ ~Claimable(item) /\ Skip(k, item) /\ UNCHANGED row
    /\ UNCHANGED <<balance, posted, request, review, nextNonce, chain, gates,
                   approvals, failures>>

Continue(k, at) == GoWorker(k, [worker[k] EXCEPT !.at = at])

Current(k) == worker[k].item.withdrawal

(* Mutant: the nonce is read, not incremented.                             *)
AllocateNonceRead(k) ==
    /\ worker[k].at = "nonce"
    /\ GoWorker(k, [worker[k] EXCEPT !.at = "send", !.nonce = nextNonce])
    /\ UNCHANGED <<balance, posted, row, request, review, nextNonce, chain,
                   gates, approvals, failures>>

AllocateNonce(k) ==
    /\ worker[k].at = "nonce"
    /\ nextNonce' = nextNonce + 1
    /\ GoWorker(k, [worker[k] EXCEPT !.at = "send", !.nonce = nextNonce])
    /\ UNCHANGED <<balance, posted, row, request, review, chain, gates,
                   approvals, failures>>

(* signTransfer and broadcast.                                             *)
Broadcast(k) ==
    /\ worker[k].at = "send"
    /\ chain' = chain \cup {[withdrawal |-> Current(k), nonce |-> worker[k].nonce,
                             state |-> "pending"]}
    /\ Continue(k, "record")
    /\ UNCHANGED <<balance, posted, row, request, review, nextNonce, gates,
                   approvals, failures>>

BroadcastRow(k) ==
    row' = [row EXCEPT ![Current(k)].status = "BROADCAST",
                       ![Current(k)].nonce = worker[k].nonce]

SetBroadcast(k) ==
    /\ worker[k].at = "record"
    /\ BroadcastRow(k)
    /\ GoWorker(k, NextItem(k))
    /\ UNCHANGED <<balance, posted, request, review, nextNonce, chain, gates,
                   approvals, failures>>

(* getConfirmations of the transaction the row named when it was listed.   *)
Sent(item) == {t \in chain : /\ t.withdrawal = item.withdrawal
                             /\ t.nonce = item.seen.nonce}

(* Mutant: a transaction is final at its first confirmation.               *)
FateAtFirstConfirmation(t) == IF t.state = "seen" THEN "deep" ELSE t.state

Fate(t) == t.state

Poll(k, item) ==
    /\ worker[k].at = "item" /\ worker[k].pass = "confirm"
    /\ item \in worker[k].todo
    /\ \E t \in Sent(item) :
          \/ Fate(t) = "failed" /\ Take(k, item, "fail")
          \/ Fate(t) = "deep" /\ Take(k, item, "final")
          \/ /\ Fate(t) = "seen" /\ item.seen.status = "BROADCAST"
             /\ Take(k, item, "promote")
          \/ /\ Fate(t) = "pending" \/ item.seen.status # "BROADCAST"
             /\ Fate(t) \notin {"failed", "deep"}
             /\ Skip(k, item)
    /\ UNCHANGED <<balance, posted, row, request, review, nextNonce, chain,
                   gates, approvals, failures>>

SetConfirming(k) ==
    /\ worker[k].at = "promote"
    /\ row' = [row EXCEPT ![Current(k)].status =
                   IF @ = "BROADCAST" THEN "CONFIRMING" ELSE @]
    /\ GoWorker(k, NextItem(k))
    /\ UNCHANGED <<balance, posted, request, review, nextNonce, chain, gates,
                   approvals, failures>>

(* finalizeWithdrawal: the ledger first ...                                *)
FinalizeLedger(k) ==
    /\ worker[k].at = "final"
    /\ \/ Post(FinalRef(Current(k)), FinalLines(Current(k))) /\ Continue(k, "complete")
       \/ /\ Refused(FinalRef(Current(k)), FinalLines(Current(k)))
          /\ GoWorker(k, IdleWorker)
          /\ UNCHANGED ledger
    /\ UNCHANGED <<row, request, review, nextNonce, chain, gates, approvals,
                   failures>>

(* Mutant: only a withdrawal seen CONFIRMING can complete.                 *)
CompletableConfirming == {"CONFIRMING"}

Completable == {"BROADCAST", "CONFIRMING"}

(* ... then the row, unless a peer completed it.                           *)
MarkCompleted(k) ==
    /\ worker[k].at = "complete"
    /\ row' = [row EXCEPT ![Current(k)].status =
                   IF @ \in Completable THEN "COMPLETED" ELSE @]
    /\ GoWorker(k, NextItem(k))
    /\ UNCHANGED <<balance, posted, request, review, nextNonce, chain, gates,
                   approvals, failures>>

Failable == {"SIGNING", "BROADCAST", "CONFIRMING", "APPROVED", "QUEUED"}

(* Mutant: the hold of a withdrawal that is failed is not released.        *)
MarkFailedOnly(k) ==
    /\ worker[k].at = "fail"
    /\ row' = [row EXCEPT ![Current(k)].status = IF @ \in Failable THEN "FAILED" ELSE @]
    /\ GoWorker(k, NextItem(k))
    /\ UNCHANGED <<balance, posted, request, review, nextNonce, chain, gates,
                   approvals, failures>>

(* failWithdrawal.                                                         *)
MarkFailed(k) ==
    /\ worker[k].at = "fail"
    /\ \/ /\ row[Current(k)].status \in Failable
          /\ Set(Current(k), "FAILED")
          /\ IF worker[k].item.seen.hold THEN Continue(k, "release")
                                         ELSE GoWorker(k, NextItem(k))
       \/ /\ row[Current(k)].status \notin Failable
          /\ GoWorker(k, NextItem(k))
          /\ UNCHANGED row
    /\ UNCHANGED <<balance, posted, request, review, nextNonce, chain, gates,
                   approvals, failures>>

ReleaseFailed(k) ==
    /\ worker[k].at = "release"
    /\ \/ Post(ReleaseRef(Current(k)), ReleaseLines(Current(k)))
          /\ GoWorker(k, NextItem(k))
       \/ /\ Refused(ReleaseRef(Current(k)), ReleaseLines(Current(k)))
          /\ GoWorker(k, IdleWorker)
          /\ UNCHANGED ledger
    /\ UNCHANGED <<row, request, review, nextNonce, chain, gates, approvals,
                   failures>>

-----------------------------------------------------------------------------
(* The network, the freeze switch, and failures.                           *)
Become(t, state) == chain' = (chain \ {t}) \cup {[t EXCEPT !.state = state]}

Mine(t) ==
    /\ \/ t.state = "pending" /\ Become(t, "seen")
       \/ t.state = "seen" /\ Become(t, "deep")
    /\ UNCHANGED <<balance, posted, row, request, review, worker, nextNonce,
                   gates, approvals, failures>>

Drop(t) ==
    /\ t.state \in {"pending", "seen"}
    /\ Become(t, "failed")
    /\ UNCHANGED <<balance, posted, row, request, review, worker, nextNonce,
                   gates, approvals, failures>>

Decide(w) == \E t \in chain : t.withdrawal = w /\ (Mine(t) \/ Drop(t))

Freeze ==
    /\ MayFreeze
    /\ frozen' = TRUE
    /\ UNCHANGED <<balance, posted, row, request, review, worker, nextNonce,
                   chain, allowed, approvals, failures>>

Failure == failures < MaxFailures /\ failures' = failures + 1

(* A request or a cycle is lost: its process restarts, or the database     *)
(* fails a step, or the answer to it, and the error propagates.            *)
RequestLost(w) ==
    /\ Failure
    /\ request[w] \in {"create", "hold", "bind", "refuse"}
    /\ GoRequest(w, "done")
    /\ UNCHANGED <<balance, posted, row, review, worker, nextNonce, chain,
                   gates, approvals>>

ReviewLost(a) ==
    /\ Failure
    /\ review[a] # IdleReview
    /\ GoReview(a, IdleReview)
    /\ UNCHANGED <<balance, posted, row, request, worker, nextNonce, chain,
                   gates, approvals>>

WorkerLost(k) ==
    /\ Failure
    /\ worker[k] # IdleWorker
    /\ GoWorker(k, IdleWorker)
    /\ UNCHANGED <<balance, posted, row, request, review, nextNonce, chain,
                   gates, approvals>>

(* An error inside broadcastWithdrawal's try, possibly of a write that     *)
(* took effect: caught, and the withdrawal is failed.                      *)
BroadcastError(k) ==
    /\ Failure
    /\ worker[k].at \in {"nonce", "send", "record"}
    /\ \/ UNCHANGED row
       \/ worker[k].at = "record" /\ BroadcastRow(k)
    /\ Continue(k, "fail")
    /\ UNCHANGED <<balance, posted, request, review, nextNonce, chain, gates,
                   approvals>>

-----------------------------------------------------------------------------
RequestStep(w) ==
    CheckRequest(w) \/ CreateWithdrawal(w) \/ PlaceHold(w) \/ SetHold(w)
        \/ MarkRequestFailed(w)

ReviewStep(a) == Approve(a) \/ Reject(a) \/ ReleaseRejected(a)

WorkerStep(k) ==
    \/ List(k) \/ EndPass(k)
    \/ \E item \in worker[k].todo : Claim(k, item) \/ Poll(k, item)
    \/ AllocateNonce(k) \/ Broadcast(k) \/ SetBroadcast(k)
    \/ SetConfirming(k) \/ FinalizeLedger(k) \/ MarkCompleted(k)
    \/ MarkFailed(k) \/ ReleaseFailed(k)

Next ==
    \/ \E w \in Withdrawals : RequestStep(w) \/ RequestLost(w)
    \/ \E a \in Admins :
          \/ \E w \in Withdrawals, kind \in {"approve", "reject"} :
                OpenReview(a, w, kind)
          \/ ReviewStep(a)
          \/ ReviewLost(a)
    \/ \E k \in Workers : WorkerStep(k) \/ BroadcastError(k) \/ WorkerLost(k)
    \/ \E w \in Withdrawals : Decide(w)
    \/ Freeze \/ AddAddress \/ CoolingOffEnds

Spec == Init /\ [][Next]_vars

-----------------------------------------------------------------------------
Statuses == {"NONE", "REQUESTED", "PENDING_APPROVAL", "APPROVED", "SIGNING",
             "BROADCAST", "CONFIRMING", "COMPLETED", "REJECTED", "FAILED"}

Rows == [status : Statuses, hold : BOOLEAN, approvedBy : Admins \cup {NoAdmin},
         approvedBy2 : Admins \cup {NoAdmin}, nonce : Nat \cup {NoNonce}]

Reviews == [at : {"approve", "reject", "release"}, withdrawal : Withdrawals,
            seen : Rows]

(* What a worker does with the item it took, and the states it is in.      *)
Handling == {"nonce", "send", "record", "promote", "final", "complete", "fail",
             "release"}
Passes == {"broadcast", "confirm"}
Items == [withdrawal : Withdrawals, seen : Rows]
Polling == [at : {"list", "item"}, pass : Passes, todo : SUBSET Items]
Working == {x \in [at : Handling, pass : Passes, todo : SUBSET Items,
                   item : Items, nonce : Nat \cup {NoNonce}] :
                x.at = "send" => x.nonce \in Nat}

TypeOK ==
    /\ balance \in [Accounts -> Int]
    /\ posted \subseteq {"HOLD", "RELEASE", "FINAL"} \X Withdrawals
    /\ row \in [Withdrawals -> Rows]
    /\ \A w \in Withdrawals :
          \/ row[w].approvedBy = NoAdmin /\ row[w].approvedBy2 = NoAdmin
          \/ row[w].approvedBy \notin {NoAdmin, row[w].approvedBy2}
    /\ request \in [Withdrawals -> {"none", "create", "hold", "bind", "refuse",
                                    "done"}]
    /\ review \in [Admins -> Reviews \cup {IdleReview}]
    /\ worker \in [Workers -> Polling \cup Working]
    /\ nextNonce \in Nat
    /\ chain \subseteq [withdrawal : Withdrawals, nonce : Nat,
                        state : {"pending", "seen", "deep", "failed"}]
    /\ frozen \in BOOLEAN /\ allowed \in {"no", "cooling", "usable"}
    /\ approvals \in [Withdrawals -> SUBSET Admins]
    /\ failures \in 0..MaxFailures

(* However many workers run, a withdrawal is sent at most once, and no two *)
(* share a nonce.                                                          *)
SentOnce ==
    \A s, t \in chain :
        s.withdrawal = t.withdrawal \/ s.nonce = t.nonce => s = t

(* A large withdrawal on the chain had the consent of two admins.          *)
DualControl ==
    \A t \in chain :
        Large(t.withdrawal) => Cardinality(approvals[t.withdrawal]) >= 2

(* The ledger agrees with the chain: what was finalized was mined deep     *)
(* enough, and a COMPLETED row was finalized.                              *)
CompletedIsPaid ==
    /\ \A w \in Withdrawals :
          row[w].status = "COMPLETED" => FinalRef(w) \in posted
    /\ \A w \in Withdrawals :
          FinalRef(w) \in posted
              => \E t \in chain : t.withdrawal = w /\ t.state = "deep"

(* The hold is given back only while nothing was sent or what was sent has *)
(* been dropped: "unspendable until the on-chain outcome is known".        *)
HeldUntilOutcomeKnown ==
    \A t \in chain : ReleaseRef(t.withdrawal) \in posted => t.state = "failed"

(* The postings of a withdrawal are those of a reservation: the hold is     *)
(* placed once, and released or finalized once, never both.                *)
MoneyOf(w) ==
    CASE FinalRef(w) \in posted /\ ReleaseRef(w) \in posted -> "both"
      [] FinalRef(w) \in posted /\ ReleaseRef(w) \notin posted -> "paid"
      [] FinalRef(w) \notin posted /\ ReleaseRef(w) \in posted -> "released"
      [] OTHER -> IF HoldRef(w) \in posted THEN "reserved" ELSE "free"

Money == INSTANCE Reservation WITH phase <- [w \in Withdrawals |-> MoneyOf(w)]
ImplementsReservation == Money!Spec

(* The outcomes of a withdrawal on the chain: paid out and completed, given *)
(* back and failed, or failed with its hold locked and nobody to release   *)
(* it.                                                                     *)
OnChain(w) == row[w].status \in {"BROADCAST", "CONFIRMING"}
Became(w, state) == \E t \in chain : t.withdrawal = w /\ t.state = state

PaidDeep(w) ==
    row[w].status = "COMPLETED" /\ FinalRef(w) \in posted /\ Became(w, "deep")

GivenBack(w) == row[w].status = "FAILED" /\ ReleaseRef(w) \in posted

WorkedOn(w, step) ==
    \E k \in Workers : worker[k].at = step /\ worker[k].item.withdrawal = w

Stranded(w) ==
    /\ row[w].status = "FAILED"
    /\ HoldRef(w) \in posted /\ ReleaseRef(w) \notin posted
    /\ ~WorkedOn(w, "release")

(* The error of a broadcast that was recorded is about to be caught: the   *)
(* withdrawal will be failed whatever becomes of its transaction.          *)
ErrorCaught(w) ==
    \E k \in Workers :
        /\ worker[k].at = "fail" /\ worker[k].pass = "broadcast"
        /\ worker[k].item.withdrawal = w

(* "On threshold COMPLETED ... On drop/failure FAILED, release the hold":  *)
(* a withdrawal on the chain is paid out after it was mined deep, or given *)
(* back after it was dropped or a broadcast error was caught, although the *)
(* worker may restart between any two steps and repeat them.  A hold is    *)
(* stranded by nothing but a failure, that falls between markFailed and    *)
(* releaseHold.                                                            *)
OnChainIsSettled ==
    /\ \A w \in Withdrawals :
          /\ OnChain(w) /\ ~ErrorCaught(w)
                ~> PaidDeep(w) \/ (Became(w, "failed") /\ (GivenBack(w) \/ Stranded(w)))
          /\ OnChain(w) ~> PaidDeep(w) \/ GivenBack(w) \/ Stranded(w)
    /\ [][\A w \in Withdrawals :
              Stranded(w)' => Stranded(w) \/ (WorkedOn(w, "release") /\ failures' > failures)]_vars

(* What holds between requests and cycles.                                 *)
AtRest ==
    /\ \A w \in Withdrawals : request[w] \in {"none", "done"}
    /\ \A a \in Admins : review[a] = IdleReview
    /\ \A k \in Workers : worker[k].at = "list"

Live == {w \in Withdrawals : row[w].status \in {"PENDING_APPROVAL", "APPROVED",
                                               "BROADCAST", "CONFIRMING"}}
Completed == {w \in Withdrawals : row[w].status = "COMPLETED"}
Total(S) == MapThenSumSet(LAMBDA w : Amount[w], S)

(* Every live withdrawal is backed by its hold, every closed one gave it   *)
(* back or paid it out, net to the chain and the fee to the exchange.      *)
LocksMatchWithdrawals ==
    AtRest =>
        /\ balance[Locked(Owner, Asset)] = Total(Live)
        /\ balance[Available(Owner, Asset)]
              = OpeningBalance - Total(Live) - Total(Completed)
        /\ balance[System("FEE_REVENUE", Asset)] = Fee * Cardinality(Completed)

-----------------------------------------------------------------------------
(* What the safety properties rest on: the invariants that tie a worker's  *)
(* place in its cycle, and a review's, to the row, the ledger and the chain. *)

Handles(k) == worker[k].at \in Handling
Signs(k) == worker[k].at \in {"nonce", "send"}

(* The statuses of a withdrawal that was claimed once.                     *)
Taken == {"SIGNING", "BROADCAST", "CONFIRMING", "COMPLETED", "FAILED"}

(* A claim is exclusive: a row that is handled or sent stays claimed, and   *)
(* nobody handles a row that is being signed, which has no transaction.    *)
Claims ==
    /\ \A k \in Workers : Handles(k) => row[Current(k)].status \in Taken
    /\ \A t \in chain : row[t.withdrawal].status \in Taken
    /\ \A k, j \in Workers :
          Signs(k) /\ Handles(j) /\ Current(j) = Current(k) => j = k
    /\ \A k \in Workers, t \in chain : Signs(k) => t.withdrawal # Current(k)
    /\ \A w \in Withdrawals :
          request[w] # "done" => row[w].status \in {"NONE", "REQUESTED", "REJECTED"}

(* A nonce is handed out once.                                             *)
Nonces ==
    /\ \A t \in chain : t.nonce < nextNonce
    /\ \A k \in Workers : worker[k].at = "send" =>
          /\ worker[k].nonce < nextNonce
          /\ \A t \in chain : t.nonce # worker[k].nonce
          /\ \A j \in Workers : worker[j].at = "send"
                                 /\ worker[j].nonce = worker[k].nonce => j = k

(* Who finalizes has seen the transaction deep, who completes has posted.  *)
Finalizing ==
    \A k \in Workers :
        /\ worker[k].at = "final"
              => \E t \in chain : t.withdrawal = Current(k) /\ t.state = "deep"
        /\ worker[k].at = "complete" => FinalRef(Current(k)) \in posted

(* A bound hold was posted; reviews and workers act on rows that have one. *)
HeldRows ==
    \A w \in Withdrawals :
        /\ row[w].hold => HoldRef(w) \in posted /\ request[w] = "done"
        /\ request[w] = "bind" => HoldRef(w) \in posted
        /\ row[w].status \in {"PENDING_APPROVAL", "APPROVED"} => row[w].hold

HeldReviews ==
    \A a \in Admins : review[a].at # "idle" =>
        /\ review[a].seen.hold => row[review[a].withdrawal].hold
        /\ review[a].at = "release" => review[a].seen.hold

HeldWork ==
    /\ \A k \in Workers : Handles(k) => row[Current(k)].hold
    /\ \A t \in chain : row[t.withdrawal].hold

Held == HeldRows /\ HeldReviews /\ HeldWork

(* Money leaves the locked account only after it came there.               *)
MovedFromHold ==
    \A w \in Withdrawals :
        ReleaseRef(w) \in posted \/ FinalRef(w) \in posted => HoldRef(w) \in posted

(* A withdrawal is sent at most once, its money moves only from its hold,  *)
(* and what is recorded as paid was mined.                                 *)
PaidAsSent == SentOnce /\ MovedFromHold /\ CompletedIsPaid

(* Without failures, what is released was rejected or dropped.             *)
Dropped(w) == \E t \in chain : t.withdrawal = w /\ t.state = "failed"
Closed(w) == row[w].status = "REJECTED" /\ row[w].hold

Released ==
    failures = 0 =>
        /\ \A w \in Withdrawals : ReleaseRef(w) \in posted => Closed(w) \/ Dropped(w)
        /\ \A a \in Admins : review[a].at = "release" => Closed(review[a].withdrawal)
        /\ \A k \in Workers :
              worker[k].at \in {"fail", "release"} => Dropped(Current(k))

(* When reviews wait for the request: the row remembers who approved it,   *)
(* and what is approved, handled or sent had the consent it needs.         *)
Consented(w) ==
    Large(w) => \E a, b \in approvals[w] : a # b

Reviewed ==
    /\ \A a \in Admins : review[a].at # "idle" => request[review[a].withdrawal] = "done"
    /\ \A w \in Withdrawals :
          /\ request[w] # "done" => row[w].approvedBy = NoAdmin
          /\ row[w].status = "PENDING_APPROVAL" =>
                /\ row[w].approvedBy2 = NoAdmin
                /\ row[w].approvedBy \in approvals[w] \cup {NoAdmin}
          /\ row[w].status = "APPROVED" => Consented(w)
          /\ IsFiniteSet(approvals[w])
    /\ \A k \in Workers : Handles(k) => Consented(Current(k))
    /\ \A t \in chain : Consented(t.withdrawal)

(* With one worker a listed row in flight stays so until its turn, and what *)
(* the worker pays or gives back is decided by the row's status.           *)
SoleWorker == \A j, k \in Workers : j = k

ConfirmPass(k) ==
    /\ \A item \in worker[k].todo :
          /\ OnChain(item.withdrawal)
          /\ Handles(k) => item.withdrawal # Current(k)
    /\ \A i, j \in worker[k].todo : i.withdrawal = j.withdrawal => i = j

Settling ==
    /\ \A k \in Workers :
          /\ worker[k].at \in {"nonce", "send", "record"}
                => row[Current(k)].status = "SIGNING"
          /\ worker[k].at = "final" => OnChain(Current(k))
          /\ worker[k].at = "fail" => FinalRef(Current(k)) \notin posted
          /\ worker[k].at = "release" => row[Current(k)].status = "FAILED"
          /\ worker[k].pass = "confirm" => ConfirmPass(k)
    /\ \A a \in Admins : review[a].at = "release" => Closed(review[a].withdrawal)
    /\ \A w \in Withdrawals :
          /\ ReleaseRef(w) \in posted => Closed(w) \/ row[w].status = "FAILED"
          /\ FinalRef(w) \in posted => OnChain(w) \/ row[w].status = "COMPLETED"

(* When nothing fails and reviews wait for the request, every posting is    *)
(* matched by the row or by whoever is about to write the row.             *)
Sends(k) == worker[k].at \in {"nonce", "send", "record"}
Settles(k) == worker[k].at \in {"promote", "final", "complete", "fail", "release"}
InFlight == {"BROADCAST", "CONFIRMING", "COMPLETED", "FAILED"}

(* How far the request came tells the status, and whether a hold is posted. *)
RowsByRequest ==
    \A w \in Withdrawals :
        /\ request[w] \in {"none", "create"} => row[w].status = "NONE"
        /\ request[w] \in {"hold", "bind", "refuse"} => row[w].status = "REQUESTED"
        /\ request[w] = "done" =>
              /\ row[w].status \notin {"NONE", "REQUESTED"}
              /\ row[w].hold \/ row[w].status = "FAILED"
        /\ HoldRef(w) \in posted => row[w].hold \/ request[w] = "bind"

(* A review saw the hold that the row has.                                 *)
ReviewsByRow ==
    \A a \in Admins : review[a].at # "idle" =>
        /\ request[review[a].withdrawal] = "done"
        /\ row[review[a].withdrawal].hold => review[a].seen.hold

(* A row is SIGNING while one worker sends it, and what a worker listed or *)
(* settles is in flight and was held.                                      *)
WorkByRow ==
    /\ \A k \in Workers : Sends(k) =>
          /\ row[Current(k)].status = "SIGNING"
          /\ \A j \in Workers : Sends(j) /\ Current(j) = Current(k) => j = k
    /\ \A k \in Workers : Settles(k) =>
          /\ row[Current(k)].status \in InFlight
          /\ worker[k].item.seen.hold
          /\ worker[k].at = "release" => row[Current(k)].status = "FAILED"
    /\ \A k \in Workers : worker[k].pass = "confirm" =>
          \A item \in worker[k].todo :
              row[item.withdrawal].status \in InFlight /\ item.seen.hold
    /\ \A w \in Withdrawals : row[w].status = "SIGNING" =>
          \E k \in Workers : Sends(k) /\ Current(k) = w

(* A rejected withdrawal gave its hold back or is about to ...             *)
RejectedRows ==
    \A w \in Withdrawals :
        /\ ReleaseRef(w) \in posted => row[w].status \in {"REJECTED", "FAILED"}
        /\ row[w].status = "REJECTED" =>
              \/ ReleaseRef(w) \in posted
              \/ \E a \in Admins : review[a].at = "release" /\ review[a].withdrawal = w

(* ... and so did one that failed, whose transaction was dropped ...       *)
FailedRows ==
    \A w \in Withdrawals :
        row[w].status = "FAILED" /\ row[w].hold =>
            /\ Dropped(w)
            /\ \/ ReleaseRef(w) \in posted
               \/ \E k \in Workers : worker[k].at = "release" /\ Current(k) = w

(* ... while one that was paid out is completed or about to be.            *)
PaidRows ==
    \A w \in Withdrawals :
        FinalRef(w) \in posted =>
            \/ row[w].status = "COMPLETED"
            \/ /\ OnChain(w)
               /\ \E k \in Workers : worker[k].at = "complete" /\ Current(k) = w

Booked ==
    /\ RowsByRequest /\ ReviewsByRow /\ WorkByRow
    /\ RejectedRows /\ FailedRows /\ PaidRows

(* The user's and the exchange's balances are what the postings say.       *)
Reserved == {w \in Withdrawals : MoneyOf(w) = "reserved"}
PaidOut == {w \in Withdrawals : FinalRef(w) \in posted}

Backed ==
    /\ balance[Locked(Owner, Asset)] = Total(Reserved)
    /\ balance[Available(Owner, Asset)]
          = OpeningBalance - Total(Reserved) - Total(PaidOut)
    /\ balance[System("FEE_REVENUE", Asset)] = Fee * Cardinality(PaidOut)
=============================================================================
