--------------------------- MODULE InrWithdrawal ---------------------------
(***************************************************************************)
(* INR withdrawals (backend/src/modules/inr-withdrawal/): the user's       *)
(* request with its reservation, and the admins' approve, reject and       *)
(* markPaid, interleaved at the service's awaits.                          *)
(*                                                                         *)
(* The three reviews read the row, then move the money, then update the    *)
(* row on a condition, so what keeps two of them from moving the same      *)
(* money is only the ledger: its references, and the guard on the user's   *)
(* USER_LOCKED balance, which is shared by all the user's reservations and *)
(* open orders.                                                            *)
(***************************************************************************)
EXTENDS LedgerCalls

CONSTANTS
    Withdrawals,    \* the withdrawals requested in a behaviour
    Amount,         \* the amount of each
    Owner,          \* the user
    OpeningBalance, \* the user's USER_AVAILABLE balance at the start
    OtherLocks,     \* the user's USER_LOCKED balance at the start: open orders
    Admins,         \* the reviewers
    Overlap,        \* whether two admins review one row at a time
    EarlyReview,    \* whether admins act on rows whose request still runs
    MaxFailures     \* bound: database errors and lost processes

Asset == "INR"

(* What an instance must assume of the parameters.                         *)
Parameters ==
    /\ Asset \in Assets /\ Owner \in Users
    /\ "MANUAL_BANK_CLEARING" \in SystemKinds
    /\ \A w \in Withdrawals : Amount[w] \in Nat \ {0}
    /\ OpeningBalance \in Nat /\ OtherLocks \in Nat /\ MaxFailures \in Nat

VARIABLES
    row,            \* inr_withdrawals: status, and whether a txn is bound
    request,        \* per withdrawal: where its requestWithdrawal call is
    review,         \* per admin: the review under way
    failures        \* database errors and lost processes so far

vars == <<balance, posted, row, request, review, failures>>

NoRow == [status |-> "NONE", lockTxn |-> FALSE, finalTxn |-> FALSE]

IdleReview == [at |-> "idle"]

Init ==
    /\ balance = [name \in Accounts |->
                     CASE name = Available(Owner, Asset) -> OpeningBalance
                       [] name = Locked(Owner, Asset) -> OtherLocks
                       [] OTHER -> 0]
    /\ posted = {}
    /\ row = [w \in Withdrawals |-> NoRow]
    /\ request = [w \in Withdrawals |-> "none"]
    /\ review = [a \in Admins |-> IdleReview]
    /\ failures = 0

-----------------------------------------------------------------------------
(* The ledger movements.                                                   *)
LockRef(w) == <<"LOCK", w>>
ReleaseRef(w) == <<"RELEASE", w>>

(* Mutant: the payout is posted under the reservation's reference.         *)
PayoutRefShared(w) == <<"LOCK", w>>

PayoutRef(w) == <<"PAYOUT", w>>

LockLines(w) == <<Debit(Available(Owner, Asset), Amount[w]),
                  Credit(Locked(Owner, Asset), Amount[w])>>

ReleaseLines(w) == <<Debit(Locked(Owner, Asset), Amount[w]),
                     Credit(Available(Owner, Asset), Amount[w])>>

(* Mutant: the payout takes the money from the available balance.          *)
PayoutLinesAvailable(w) ==
    <<Debit(Available(Owner, Asset), Amount[w]),
      Credit(System("MANUAL_BANK_CLEARING", Asset), Amount[w])>>

PayoutLines(w) ==
    <<Debit(Locked(Owner, Asset), Amount[w]),
      Credit(System("MANUAL_BANK_CLEARING", Asset), Amount[w])>>

-----------------------------------------------------------------------------
(* requestWithdrawal.                                                      *)
GoRequest(w, at) == request' = [request EXCEPT ![w] = at]

(* The pre-check of the wallet; the debit decides later.                   *)
CheckRequest(w) ==
    /\ request[w] = "none"
    /\ balance[Available(Owner, Asset)] >= Amount[w]
    /\ GoRequest(w, "create")
    /\ UNCHANGED <<balance, posted, row, review, failures>>

CreateRow(w) ==
    /\ request[w] = "create"
    /\ row' = [row EXCEPT ![w].status = "PENDING"]
    /\ GoRequest(w, "reserve")
    /\ UNCHANGED <<balance, posted, review, failures>>

(* Mutant: a refused reservation is bound like a posted one.               *)
ReserveUnchecked(w) ==
    /\ request[w] = "reserve"
    /\ \/ Post(LockRef(w), LockLines(w))
       \/ Refused(LockRef(w), LockLines(w)) /\ UNCHANGED ledger
    /\ GoRequest(w, "bind")
    /\ UNCHANGED <<row, review, failures>>

Reserve(w) ==
    /\ request[w] = "reserve"
    /\ \/ Post(LockRef(w), LockLines(w)) /\ GoRequest(w, "bind")
       \/ /\ Refused(LockRef(w), LockLines(w))
          /\ GoRequest(w, "undo")
          /\ UNCHANGED ledger
    /\ UNCHANGED <<row, review, failures>>

(* deleteIfPending, in the catch block of the reservation.                 *)
DeleteIfPending(w) ==
    /\ request[w] = "undo"
    /\ row' = [row EXCEPT ![w] = IF @.status = "PENDING" THEN NoRow ELSE @]
    /\ GoRequest(w, "done")
    /\ UNCHANGED <<balance, posted, review, failures>>

SetLockTxn(w) ==
    /\ request[w] = "bind"
    /\ row' = [row EXCEPT ![w].lockTxn = TRUE]
    /\ GoRequest(w, "done")
    /\ UNCHANGED <<balance, posted, review, failures>>

-----------------------------------------------------------------------------
(* approve, reject and markPaid.                                           *)
GoReview(a, r) == review' = [review EXCEPT ![a] = r]
Under(a) == review[a].withdrawal

(* What each of them requires of the row it read.                          *)
Reviewable(kind) ==
    CASE kind = "approve" -> {"PENDING"}
      [] kind = "release" -> {"PENDING", "APPROVED"}
      [] kind = "payout" -> {"APPROVED"}

OpenReview(a, w, kind) ==
    /\ review[a] = IdleReview
    /\ row[w].status \in Reviewable(kind)
    /\ EarlyReview \/ request[w] = "done"
    /\ Overlap \/ \A b \in Admins : review[b] = IdleReview
    /\ GoReview(a, [at |-> kind, withdrawal |-> w])
    /\ UNCHANGED <<balance, posted, row, request, failures>>

Approve(a) ==
    /\ review[a].at = "approve"
    /\ row' = [row EXCEPT ![Under(a)].status =
                   IF @ = "PENDING" THEN "APPROVED" ELSE @]
    /\ GoReview(a, IdleReview)
    /\ UNCHANGED <<balance, posted, request, failures>>

(* The posting of reject or markPaid; refused, it throws.                  *)
Release(a) ==
    /\ review[a].at = "release"
    /\ LET w == Under(a) IN
       \/ /\ Post(ReleaseRef(w), ReleaseLines(w))
          /\ GoReview(a, [review[a] EXCEPT !.at = "reject"])
       \/ /\ Refused(ReleaseRef(w), ReleaseLines(w))
          /\ GoReview(a, IdleReview)
          /\ UNCHANGED ledger
    /\ UNCHANGED <<row, request, failures>>

(* Mutant: a refused payout is recorded as paid.                           *)
PayoutUnchecked(a) ==
    /\ review[a].at = "payout"
    /\ LET w == Under(a) IN
       \/ Post(PayoutRef(w), PayoutLines(w))
       \/ Refused(PayoutRef(w), PayoutLines(w)) /\ UNCHANGED ledger
    /\ GoReview(a, [review[a] EXCEPT !.at = "pay"])
    /\ UNCHANGED <<row, request, failures>>

Payout(a) ==
    /\ review[a].at = "payout"
    /\ LET w == Under(a) IN
       \/ /\ Post(PayoutRef(w), PayoutLines(w))
          /\ GoReview(a, [review[a] EXCEPT !.at = "pay"])
       \/ /\ Refused(PayoutRef(w), PayoutLines(w))
          /\ GoReview(a, IdleReview)
          /\ UNCHANGED ledger
    /\ UNCHANGED <<row, request, failures>>

Reject(a) ==
    /\ review[a].at = "reject"
    /\ row' = [row EXCEPT ![Under(a)].status =
                   IF @ \in {"PENDING", "APPROVED"} THEN "REJECTED" ELSE @]
    /\ GoReview(a, IdleReview)
    /\ UNCHANGED <<balance, posted, request, failures>>

MarkPaid(a) ==
    /\ review[a].at = "pay"
    /\ row' = [row EXCEPT ![Under(a)] =
                   IF @.status = "APPROVED"
                   THEN [@ EXCEPT !.status = "PAID", !.finalTxn = TRUE] ELSE @]
    /\ GoReview(a, IdleReview)
    /\ UNCHANGED <<balance, posted, request, failures>>

-----------------------------------------------------------------------------
(* Failures.  A request or a review is lost with its process, or with an   *)
(* error of a step that propagates; an error of the reservation, before or *)
(* after it was committed, is caught.                                      *)
Failure == failures < MaxFailures /\ failures' = failures + 1

RequestLost(w) ==
    /\ Failure
    /\ request[w] \in {"create", "reserve", "undo", "bind"}
    /\ GoRequest(w, "done")
    /\ UNCHANGED <<balance, posted, row, review>>

ReserveError(w) ==
    /\ Failure
    /\ request[w] = "reserve"
    /\ Post(LockRef(w), LockLines(w)) \/ UNCHANGED ledger
    /\ GoRequest(w, "undo")
    /\ UNCHANGED <<row, review>>

ReviewLost(a) ==
    /\ Failure
    /\ review[a] # IdleReview
    /\ GoReview(a, IdleReview)
    /\ UNCHANGED <<balance, posted, row, request>>

-----------------------------------------------------------------------------
RequestStep(w) ==
    CheckRequest(w) \/ CreateRow(w) \/ Reserve(w) \/ DeleteIfPending(w)
        \/ SetLockTxn(w)

ReviewStep(a) == Approve(a) \/ Release(a) \/ Reject(a) \/ Payout(a) \/ MarkPaid(a)

Next ==
    \/ \E w \in Withdrawals : RequestStep(w) \/ RequestLost(w) \/ ReserveError(w)
    \/ \E a \in Admins :
          \/ \E w \in Withdrawals, kind \in {"approve", "release", "payout"} :
                OpenReview(a, w, kind)
          \/ ReviewStep(a)
          \/ ReviewLost(a)

Spec == Init /\ [][Next]_vars

-----------------------------------------------------------------------------
Rows == [status : {"NONE", "PENDING", "APPROVED", "REJECTED", "PAID"},
         lockTxn : BOOLEAN, finalTxn : BOOLEAN]

Reviews == [at : {"approve", "release", "reject", "payout", "pay"},
            withdrawal : Withdrawals]

TypeOK ==
    /\ balance \in [Accounts -> Int]
    /\ posted \subseteq {"LOCK", "RELEASE", "PAYOUT"} \X Withdrawals
    /\ row \in [Withdrawals -> Rows]
    /\ request \in [Withdrawals -> {"none", "create", "reserve", "undo", "bind",
                                    "done"}]
    /\ review \in [Admins -> {IdleReview} \cup Reviews]
    /\ failures \in 0..MaxFailures

(* A row is closed only after its money moved, whoever closed it and       *)
(* whatever was lost on the way.                                           *)
ClosedRowsMoved ==
    \A w \in Withdrawals :
        /\ row[w].status = "PAID" => PayoutRef(w) \in posted /\ row[w].finalTxn
        /\ row[w].status = "REJECTED" => ReleaseRef(w) \in posted
        /\ row[w].lockTxn => LockRef(w) \in posted

ShownIsMoved == TypeOK /\ ClosedRowsMoved

(* What the calls under way have moved before they write the row.          *)
CallsMoved ==
    /\ \A w \in Withdrawals : request[w] = "bind" => LockRef(w) \in posted
    /\ \A a \in Admins :
          /\ review[a].at = "reject" => ReleaseRef(Under(a)) \in posted
          /\ review[a].at = "pay" => PayoutRef(Under(a)) \in posted

(* "The row has no money movement bound to it, so roll it back cleanly":   *)
(* a row is deleted over a committed reservation, which nobody can then    *)
(* give back, only when the answer of that reservation was lost.           *)
StrandedByDeletion ==
    {w \in Withdrawals : /\ request[w] = "done" /\ row[w] = NoRow
                         /\ LockRef(w) \in posted /\ ReleaseRef(w) \notin posted}

StrandedAsLost == Cardinality(StrandedByDeletion) <= failures

(* Nothing is reserved before the reservation is called.                   *)
NotYetReserved ==
    \A w \in Withdrawals :
        request[w] \in {"none", "create", "reserve"} => LockRef(w) \notin posted

(* The user's balances are at every moment what the postings made of them, *)
(* whatever reviews overlap and whatever fails, and never negative: the    *)
(* guard on USER_LOCKED is all that keeps two reviews of a row apart.      *)
Total(S) == MapThenSumSet(LAMBDA w : Amount[w], S)

LockedTotal == Total({w \in Withdrawals : LockRef(w) \in posted})
ReleasedTotal == Total({w \in Withdrawals : ReleaseRef(w) \in posted})
PaidTotal == Total({w \in Withdrawals : PayoutRef(w) \in posted})

PoolAsPosted ==
    /\ balance[Locked(Owner, Asset)]
          = OtherLocks + LockedTotal - ReleasedTotal - PaidTotal
    /\ balance[Available(Owner, Asset)]
          = OpeningBalance - LockedTotal + ReleasedTotal
    /\ balance[System("MANUAL_BANK_CLEARING", Asset)] = PaidTotal
    /\ balance[Locked(Owner, Asset)] >= 0 /\ balance[Available(Owner, Asset)] >= 0

(* Without failures, and with one review at a time, of rows whose request  *)
(* is done, the row tells a review what was posted.                        *)
OneAtATime ==
    \A a, b \in Admins : a # b => review[a] = IdleReview \/ review[b] = IdleReview

RowTellsReservation ==
    \A w \in Withdrawals :
        /\ request[w] \in {"none", "create"} => row[w].status = "NONE"
        /\ request[w] \in {"reserve", "undo", "bind"} => row[w].status = "PENDING"
        /\ request[w] = "done" /\ row[w].status # "NONE" => LockRef(w) \in posted

StillThere(at) ==
    IF at = "approve" THEN {"PENDING"}
    ELSE IF at \in {"release", "reject"} THEN {"PENDING", "APPROVED"} ELSE {"APPROVED"}

RowTellsUse ==
    /\ \A a \in Admins : review[a] # IdleReview =>
          /\ request[Under(a)] = "done"
          /\ row[Under(a)].status \in StillThere(review[a].at)
    /\ \A w \in Withdrawals :
          /\ ReleaseRef(w) \in posted =>
                \/ row[w].status = "REJECTED"
                \/ \E a \in Admins : review[a] = [at |-> "reject", withdrawal |-> w]
          /\ PayoutRef(w) \in posted =>
                \/ row[w].status = "PAID"
                \/ \E a \in Admins : review[a] = [at |-> "pay", withdrawal |-> w]

Sequential == OneAtATime /\ RowTellsReservation /\ RowTellsUse

AtRest ==
    /\ \A w \in Withdrawals : request[w] \in {"none", "done"}
    /\ \A a \in Admins : review[a] = IdleReview

Having(statuses) ==
    Total({w \in Withdrawals : row[w].status \in statuses})

-----------------------------------------------------------------------------
(* The postings of a withdrawal are those of a reservation.                *)
MoneyOf(w) ==
    CASE PayoutRef(w) \in posted /\ ReleaseRef(w) \in posted -> "both"
      [] PayoutRef(w) \in posted /\ ReleaseRef(w) \notin posted -> "paid"
      [] PayoutRef(w) \notin posted /\ ReleaseRef(w) \in posted -> "released"
      [] OTHER -> IF LockRef(w) \in posted THEN "reserved" ELSE "free"

Money == INSTANCE Reservation WITH phase <- [w \in Withdrawals |-> MoneyOf(w)]

(* The reservation is placed once, and given back or paid out once.        *)
ImplementsReservation == Money!Spec
=============================================================================
