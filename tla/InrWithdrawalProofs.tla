------------------------ MODULE InrWithdrawalProofs ------------------------
(***************************************************************************)
(* Proofs about InrWithdrawal, for every overlap of reviews with each      *)
(* other and with the request, and whatever is lost: the types of its      *)
(* state, that what is shown as paid, rejected or reserved was posted,     *)
(* that a deleted row strands its money only by a lost answer, what the    *)
(* postings made of the user's balances, and that the postings of a        *)
(* withdrawal implement Reservation as long as the user has less locked    *)
(* elsewhere.                                                              *)
(***************************************************************************)
EXTENDS InrWithdrawal, LedgerCallsProofs

-----------------------------------------------------------------------------
(* The states of a review, and the effects of the steps that write one.    *)
LEMMA ReviewType ==
    ASSUME TypeOK, NEW a \in Admins
    PROVE  /\ review[a] = IdleReview \/ review[a] \in Reviews
           /\ review[a] = IdleReview <=> review[a].at = "idle"
           /\ review[a] # IdleReview => review[a] \in Reviews /\ Under(a) \in Withdrawals
BY DEF TypeOK, Reviews, IdleReview, Under

LEMMA GoReviewEffect ==
    ASSUME TypeOK, NEW a \in Admins, NEW x \in {IdleReview} \cup Reviews, GoReview(a, x)
    PROVE  /\ review' \in [Admins -> {IdleReview} \cup Reviews] /\ review'[a] = x
           /\ \A b \in Admins \ {a} : review'[b] = review[b]
BY DEF GoReview, TypeOK

LEMMA ReviewMoved ==
    ASSUME TypeOK, NEW a \in Admins, review[a].at # "idle", NEW step \in {"reject", "pay"}
    PROVE  /\ [review[a] EXCEPT !.at = step] \in Reviews
           /\ [review[a] EXCEPT !.at = step]
                 = [at |-> step, withdrawal |-> Under(a)]
BY ReviewType DEF Reviews, Under

LEMMA GoRequestEffect ==
    ASSUME TypeOK, NEW w \in Withdrawals,
           NEW at \in {"none", "create", "reserve", "undo", "bind", "done"},
           GoRequest(w, at)
    PROVE  /\ request' \in [Withdrawals -> {"none", "create", "reserve", "undo",
                                            "bind", "done"}]
           /\ request'[w] = at
           /\ \A v \in Withdrawals \ {w} : request'[v] = request[v]
BY DEF GoRequest, TypeOK

LEMMA SetEffect ==
    ASSUME TypeOK, NEW w \in Withdrawals, NEW x \in Rows, row' = [row EXCEPT ![w] = x]
    PROVE  /\ row' \in [Withdrawals -> Rows] /\ row'[w] = x
           /\ \A v \in Withdrawals \ {w} : row'[v] = row[v]
BY DEF TypeOK

(* What each statement leaves in the row it writes.                        *)
LEMMA CreateEffect ==
    ASSUME TypeOK, NEW w \in Withdrawals, row' = [row EXCEPT ![w].status = "PENDING"]
    PROVE  /\ row' \in [Withdrawals -> Rows]
           /\ row'[w].status = "PENDING" /\ row'[w].lockTxn = row[w].lockTxn
           /\ \A v \in Withdrawals \ {w} : row'[v] = row[v]
<1> DEFINE x == [row[w] EXCEPT !.status = "PENDING"]
<1>1. row[w] \in Rows
  BY DEF TypeOK
<1>2. x \in Rows /\ x.status = "PENDING" /\ x.lockTxn = row[w].lockTxn
  BY <1>1 DEF Rows
<1>3. row' = [row EXCEPT ![w] = x]
  OBVIOUS
<1> HIDE DEF x
<1> QED BY <1>2, <1>3, SetEffect

LEMMA DeleteEffect ==
    ASSUME TypeOK, NEW w \in Withdrawals,
           row' = [row EXCEPT ![w] = IF @.status = "PENDING" THEN NoRow ELSE @]
    PROVE  /\ row' \in [Withdrawals -> Rows]
           /\ row'[w] = IF row[w].status = "PENDING" THEN NoRow ELSE row[w]
           /\ \A v \in Withdrawals \ {w} : row'[v] = row[v]
<1>1. row[w] \in Rows /\ NoRow \in Rows
  BY DEF TypeOK, Rows, NoRow
<1> QED BY <1>1, SetEffect

LEMMA BindEffect ==
    ASSUME TypeOK, NEW w \in Withdrawals, row' = [row EXCEPT ![w].lockTxn = TRUE]
    PROVE  /\ row' \in [Withdrawals -> Rows]
           /\ row'[w].status = row[w].status /\ row'[w].lockTxn
           /\ row'[w].finalTxn = row[w].finalTxn
           /\ \A v \in Withdrawals \ {w} : row'[v] = row[v]
<1> DEFINE x == [row[w] EXCEPT !.lockTxn = TRUE]
<1>1. row[w] \in Rows
  BY DEF TypeOK
<1>2. /\ x \in Rows /\ x.status = row[w].status /\ x.lockTxn
      /\ x.finalTxn = row[w].finalTxn
  BY <1>1 DEF Rows
<1>3. row' = [row EXCEPT ![w] = x]
  OBVIOUS
<1> HIDE DEF x
<1> QED BY <1>2, <1>3, SetEffect

(* Approve, Reject and MarkPaid write a row only from the statuses they    *)
(* allow, and leave it as it is otherwise.                                 *)
LEMMA StatusEffect ==
    ASSUME TypeOK, NEW w \in Withdrawals, NEW from,
           NEW to \in {"APPROVED", "REJECTED"},
           row' = [row EXCEPT ![w].status = IF @ \in from THEN to ELSE @]
    PROVE  /\ row' \in [Withdrawals -> Rows]
           /\ row'[w].status = IF row[w].status \in from THEN to ELSE row[w].status
           /\ row'[w].lockTxn = row[w].lockTxn /\ row'[w].finalTxn = row[w].finalTxn
           /\ \A v \in Withdrawals \ {w} : row'[v] = row[v]
<1> DEFINE status == IF row[w].status \in from THEN to ELSE row[w].status
           x == [row[w] EXCEPT !.status = status]
<1>1. row[w] \in Rows
  BY DEF TypeOK
<1>2. status \in {"NONE", "PENDING", "APPROVED", "REJECTED", "PAID"}
  BY <1>1 DEF Rows
<1>3. row' = [row EXCEPT ![w] = x]
  OBVIOUS
<1> HIDE DEF status
<1>4. /\ x \in Rows /\ x.status = status
      /\ x.lockTxn = row[w].lockTxn /\ x.finalTxn = row[w].finalTxn
  BY <1>1, <1>2 DEF Rows
<1> HIDE DEF x
<1>5. /\ row' \in [Withdrawals -> Rows] /\ row'[w] = x
      /\ \A v \in Withdrawals \ {w} : row'[v] = row[v]
  BY <1>3, <1>4, SetEffect
<1> QED BY <1>4, <1>5 DEF status

LEMMA PaidEffect ==
    ASSUME TypeOK, NEW w \in Withdrawals,
           row' = [row EXCEPT ![w] =
                      IF @.status = "APPROVED"
                      THEN [@ EXCEPT !.status = "PAID", !.finalTxn = TRUE] ELSE @]
    PROVE  /\ row' \in [Withdrawals -> Rows]
           /\ \/ row[w].status # "APPROVED" /\ row'[w] = row[w]
              \/ row[w].status = "APPROVED" /\ row'[w].status = "PAID" /\ row'[w].finalTxn
           /\ row'[w].lockTxn = row[w].lockTxn
           /\ \A v \in Withdrawals \ {w} : row'[v] = row[v]
<1> DEFINE paid == [row[w] EXCEPT !.status = "PAID", !.finalTxn = TRUE]
           x == IF row[w].status = "APPROVED" THEN paid ELSE row[w]
<1>1. row[w] \in Rows
  BY DEF TypeOK
<1>2. /\ paid \in Rows /\ paid.status = "PAID" /\ paid.finalTxn
      /\ paid.lockTxn = row[w].lockTxn
  BY <1>1 DEF Rows
<1>3. row' = [row EXCEPT ![w] = x]
  OBVIOUS
<1> HIDE DEF paid
<1>4. x \in Rows
  BY <1>1, <1>2
<1>5. /\ row' \in [Withdrawals -> Rows] /\ row'[w] = x
      /\ \A v \in Withdrawals \ {w} : row'[v] = row[v]
  BY <1>3, <1>4, SetEffect
<1> QED BY <1>2, <1>5

-----------------------------------------------------------------------------
(* The postings are of whole amounts, and add their own reference.         *)
LEMMA LinesType ==
    ASSUME Parameters, NEW w \in Withdrawals,
           NEW lines \in {LockLines(w), ReleaseLines(w), PayoutLines(w)}
    PROVE  \A i \in DOMAIN lines :
              lines[i].direction \in {"DEBIT", "CREDIT"} /\ lines[i].amount \in Int
<1> DEFINE n == Amount[w]
<1>1. n \in Int
  BY DEF Parameters
<1>2. PICK from, to : lines = <<Debit(from, n), Credit(to, n)>>
  BY DEF LockLines, ReleaseLines, PayoutLines
<1>3. /\ Debit(from, n).direction = "DEBIT" /\ Credit(to, n).direction = "CREDIT"
      /\ Debit(from, n).amount = n /\ Credit(to, n).amount = n
  BY DEF Debit, Credit
<1> HIDE DEF n
<1> QED BY <1>1, <1>2, <1>3

Refs(w) == {LockRef(w), ReleaseRef(w), PayoutRef(w)}

LEMMA PostingEffect ==
    ASSUME Parameters, TypeOK, NEW w \in Withdrawals, NEW ref \in Refs(w),
           NEW lines \in {LockLines(w), ReleaseLines(w), PayoutLines(w)}, Post(ref, lines)
    PROVE  /\ posted' = posted \cup {ref}
           /\ posted' \subseteq {"LOCK", "RELEASE", "PAYOUT"} \X Withdrawals
           /\ balance' \in [Accounts -> Int]
<1>1. posted' = posted \cup {ref}
  BY PostEffect
<1>2. ref \in {"LOCK", "RELEASE", "PAYOUT"} \X Withdrawals
  BY DEF Refs, LockRef, ReleaseRef, PayoutRef
<1>3. balance' \in [Accounts -> Int]
  BY LinesType, PostType DEF TypeOK
<1> QED BY <1>1, <1>2, <1>3 DEF TypeOK

LEMMA RefsDiffer ==
    /\ \A w, v : /\ LockRef(w) # ReleaseRef(v) /\ LockRef(w) # PayoutRef(v)
                 /\ ReleaseRef(w) # PayoutRef(v)
    /\ \A w, v : w # v => /\ LockRef(w) # LockRef(v) /\ ReleaseRef(w) # ReleaseRef(v)
                          /\ PayoutRef(w) # PayoutRef(v)
BY DEF LockRef, ReleaseRef, PayoutRef

-----------------------------------------------------------------------------
(* Every step keeps the types.                                             *)
LEMMA TypeStep ==
    ASSUME Parameters, TypeOK, [Next]_vars
    PROVE  TypeOK'
<1>1. ASSUME NEW w \in Withdrawals, CheckRequest(w) PROVE TypeOK'
  BY <1>1, GoRequestEffect DEF CheckRequest, TypeOK
<1>2. ASSUME NEW w \in Withdrawals, CreateRow(w) PROVE TypeOK'
  <2>1. row' \in [Withdrawals -> Rows]
    BY <1>2, CreateEffect DEF CreateRow
  <2> QED BY <1>2, <2>1, GoRequestEffect DEF CreateRow, TypeOK
<1>3. ASSUME NEW w \in Withdrawals, Reserve(w) PROVE TypeOK'
  <2>1. \E at \in {"bind", "undo"} : GoRequest(w, at)
    BY <1>3 DEF Reserve
  <2>2. /\ posted' \subseteq {"LOCK", "RELEASE", "PAYOUT"} \X Withdrawals
        /\ balance' \in [Accounts -> Int]
    BY <1>3, PostingEffect DEF Reserve, Refs, ledger, TypeOK
  <2> QED BY <1>3, <2>1, <2>2, GoRequestEffect DEF Reserve, TypeOK
<1>4. ASSUME NEW w \in Withdrawals, DeleteIfPending(w) PROVE TypeOK'
  <2>1. row' \in [Withdrawals -> Rows]
    BY <1>4, DeleteEffect DEF DeleteIfPending
  <2> QED BY <1>4, <2>1, GoRequestEffect DEF DeleteIfPending, TypeOK
<1>5. ASSUME NEW w \in Withdrawals, SetLockTxn(w) PROVE TypeOK'
  <2>1. row' \in [Withdrawals -> Rows]
    BY <1>5, BindEffect DEF SetLockTxn
  <2> QED BY <1>5, <2>1, GoRequestEffect DEF SetLockTxn, TypeOK
<1>6. ASSUME NEW a \in Admins, NEW w \in Withdrawals,
             NEW kind \in {"approve", "release", "payout"}, OpenReview(a, w, kind)
      PROVE  TypeOK'
  <2>1. [at |-> kind, withdrawal |-> w] \in Reviews
    BY DEF Reviews
  <2> QED BY <1>6, <2>1, GoReviewEffect DEF OpenReview, TypeOK
<1>7. ASSUME NEW a \in Admins, Approve(a) PROVE TypeOK'
  <2>1. Under(a) \in Withdrawals
    BY <1>7, ReviewType DEF Approve
  <2>2. row' = [row EXCEPT ![Under(a)].status = IF @ \in {"PENDING"} THEN "APPROVED" ELSE @]
    BY <1>7 DEF Approve
  <2>3. row' \in [Withdrawals -> Rows]
    BY <2>1, <2>2, StatusEffect
  <2> QED BY <1>7, <2>3, GoReviewEffect DEF Approve, TypeOK
<1>8. ASSUME NEW a \in Admins, Release(a) \/ Payout(a) PROVE TypeOK'
  <2>1. Under(a) \in Withdrawals
    BY <1>8, ReviewType DEF Release, Payout
  <2>2. \E x \in {IdleReview} \cup Reviews : GoReview(a, x)
    BY <1>8, ReviewMoved DEF Release, Payout
  <2>3. /\ posted' \subseteq {"LOCK", "RELEASE", "PAYOUT"} \X Withdrawals
        /\ balance' \in [Accounts -> Int]
    BY <1>8, <2>1, PostingEffect DEF Release, Payout, Refs, ledger, TypeOK
  <2> QED BY <1>8, <2>2, <2>3, GoReviewEffect DEF Release, Payout, TypeOK
<1>9. ASSUME NEW a \in Admins, Reject(a) PROVE TypeOK'
  <2>1. Under(a) \in Withdrawals
    BY <1>9, ReviewType DEF Reject
  <2>2. row' \in [Withdrawals -> Rows]
    BY <1>9, <2>1, StatusEffect DEF Reject
  <2> QED BY <1>9, <2>2, GoReviewEffect DEF Reject, TypeOK
<1>10. ASSUME NEW a \in Admins, MarkPaid(a) PROVE TypeOK'
  <2>1. Under(a) \in Withdrawals
    BY <1>10, ReviewType DEF MarkPaid
  <2>2. row' \in [Withdrawals -> Rows]
    BY <1>10, <2>1, PaidEffect DEF MarkPaid
  <2> QED BY <1>10, <2>2, GoReviewEffect DEF MarkPaid, TypeOK
<1>11. ASSUME NEW w \in Withdrawals, RequestLost(w) PROVE TypeOK'
  BY <1>11, GoRequestEffect DEF RequestLost, Failure, TypeOK, Parameters
<1>12. ASSUME NEW w \in Withdrawals, ReserveError(w) PROVE TypeOK'
  <2>1. /\ posted' \subseteq {"LOCK", "RELEASE", "PAYOUT"} \X Withdrawals
        /\ balance' \in [Accounts -> Int]
    BY <1>12, PostingEffect DEF ReserveError, Refs, ledger, TypeOK
  <2> QED BY <1>12, <2>1, GoRequestEffect DEF ReserveError, Failure, TypeOK, Parameters
<1>13. ASSUME NEW a \in Admins, ReviewLost(a) PROVE TypeOK'
  BY <1>13, GoReviewEffect DEF ReviewLost, Failure, TypeOK, Parameters
<1>14. CASE UNCHANGED vars
  BY <1>14 DEF vars, TypeOK
<1> QED
  BY <1>1, <1>2, <1>3, <1>4, <1>5, <1>6, <1>7, <1>8, <1>9, <1>10, <1>11, <1>12,
     <1>13, <1>14
  DEF Next, RequestStep, ReviewStep

LEMMA Start == ASSUME Parameters, Init PROVE TypeOK
<1>1. balance \in [Accounts -> Int]
  BY DEF Init, Parameters
<1>2. row \in [Withdrawals -> Rows]
  BY DEF Init, NoRow, Rows
<1> QED BY <1>1, <1>2 DEF Init, TypeOK, Parameters

(* Rows, calls and references keep their types, whatever overlaps or is    *)
(* lost in requestWithdrawal, approve, reject and markPaid.                *)
THEOREM Typed == ASSUME Parameters PROVE Spec => []TypeOK
BY Start, TypeStep, PTL DEF Spec

-----------------------------------------------------------------------------
(* A row shows what its calls had moved before they wrote it: whoever else *)
(* is reviewing it, and whatever is lost, references are never taken away. *)
Shown(w) ==
    /\ row[w].status = "PAID" => PayoutRef(w) \in posted /\ row[w].finalTxn
    /\ row[w].status = "REJECTED" => ReleaseRef(w) \in posted
    /\ row[w].lockTxn => LockRef(w) \in posted

ReviewMovedIt(a) ==
    /\ review[a].at = "reject" => ReleaseRef(Under(a)) \in posted
    /\ review[a].at = "pay" => PayoutRef(Under(a)) \in posted

LEMMA ShownStep ==
    ASSUME Parameters, TypeOK, ClosedRowsMoved, CallsMoved, [Next]_vars
    PROVE  ClosedRowsMoved' /\ CallsMoved'
<1> DEFINE Goal == ClosedRowsMoved' /\ CallsMoved'
<1>U. /\ ClosedRowsMoved <=> \A w \in Withdrawals : Shown(w)
      /\ ClosedRowsMoved' <=> \A w \in Withdrawals : Shown(w)'
      /\ CallsMoved <=> /\ \A w \in Withdrawals : request[w] = "bind" => LockRef(w) \in posted
                        /\ \A a \in Admins : ReviewMovedIt(a)
      /\ CallsMoved' <=> /\ \A w \in Withdrawals : request'[w] = "bind" => LockRef(w) \in posted'
                         /\ \A a \in Admins : ReviewMovedIt(a)'
  BY DEF ClosedRowsMoved, CallsMoved, Shown, ReviewMovedIt
<1>R. ASSUME posted \subseteq posted', UNCHANGED row PROVE ClosedRowsMoved'
  BY <1>R, <1>U DEF Shown
<1>V. ASSUME posted \subseteq posted', UNCHANGED review PROVE \A a \in Admins : ReviewMovedIt(a)'
  BY <1>V, <1>U DEF ReviewMovedIt, Under
<1>Q. ASSUME posted \subseteq posted', UNCHANGED request
      PROVE  \A w \in Withdrawals : request'[w] = "bind" => LockRef(w) \in posted'
  BY <1>Q, <1>U
<1>G. ASSUME NEW w \in Withdrawals, NEW at \in {"create", "reserve", "undo", "bind", "done"},
             GoRequest(w, at), posted \subseteq posted', at = "bind" => LockRef(w) \in posted'
      PROVE  \A v \in Withdrawals : request'[v] = "bind" => LockRef(v) \in posted'
  BY <1>G, <1>U, GoRequestEffect
<1>A. ASSUME NEW a \in Admins, NEW x \in {IdleReview} \cup Reviews, GoReview(a, x),
             posted \subseteq posted',
             x.at = "reject" => ReleaseRef(x.withdrawal) \in posted',
             x.at = "pay" => PayoutRef(x.withdrawal) \in posted'
      PROVE  \A b \in Admins : ReviewMovedIt(b)'
  <2>1. review'[a] = x /\ \A b \in Admins \ {a} : review'[b] = review[b]
    BY <1>A, GoReviewEffect
  <2>2. ReviewMovedIt(a)'
    BY <1>A, <2>1 DEF ReviewMovedIt, Under
  <2>3. ASSUME NEW b \in Admins \ {a} PROVE ReviewMovedIt(b)'
    BY <1>A, <1>U, <2>1 DEF ReviewMovedIt, Under
  <2> QED BY <2>2, <2>3
<1>1. ASSUME NEW w \in Withdrawals, CheckRequest(w) \/ RequestLost(w) PROVE Goal
  BY <1>1, <1>R, <1>V, <1>G, <1>U DEF CheckRequest, RequestLost
<1>2. ASSUME NEW w \in Withdrawals, CreateRow(w) PROVE Goal
  <2>1. ClosedRowsMoved'
    BY <1>2, <1>U, CreateEffect DEF CreateRow, Shown
  <2> QED BY <1>2, <2>1, <1>V, <1>G, <1>U DEF CreateRow
<1>3. ASSUME NEW w \in Withdrawals, Reserve(w) \/ ReserveError(w) PROVE Goal
  <2>1. \/ posted' = posted \cup {LockRef(w)}
        \/ posted' = posted /\ GoRequest(w, "undo")
    BY <1>3, PostEffect DEF Reserve, ReserveError, ledger
  <2>2. \/ GoRequest(w, "bind") /\ LockRef(w) \in posted'
        \/ GoRequest(w, "undo")
    BY <1>3, PostEffect DEF Reserve, ReserveError
  <2>3. UNCHANGED <<row, review>>
    BY <1>3 DEF Reserve, ReserveError
  <2> QED BY <2>1, <2>2, <2>3, <1>R, <1>V, <1>G, <1>U
<1>4. ASSUME NEW w \in Withdrawals, DeleteIfPending(w) PROVE Goal
  <2>1. ClosedRowsMoved'
    BY <1>4, <1>U, DeleteEffect DEF DeleteIfPending, Shown, NoRow
  <2> QED BY <1>4, <2>1, <1>V, <1>G, <1>U DEF DeleteIfPending
<1>5. ASSUME NEW w \in Withdrawals, SetLockTxn(w) PROVE Goal
  <2>1. ClosedRowsMoved'
    BY <1>5, <1>U, BindEffect DEF SetLockTxn, Shown
  <2> QED BY <1>5, <2>1, <1>V, <1>G, <1>U DEF SetLockTxn
<1>6. ASSUME NEW a \in Admins, NEW w \in Withdrawals,
             NEW kind \in {"approve", "release", "payout"}, OpenReview(a, w, kind)
      PROVE  Goal
  <2>1. [at |-> kind, withdrawal |-> w] \in Reviews
    BY DEF Reviews
  <2> QED BY <1>6, <2>1, <1>R, <1>Q, <1>A, <1>U DEF OpenReview
<1>7. ASSUME NEW a \in Admins, Approve(a) PROVE Goal
  <2>0. Under(a) \in Withdrawals
    BY <1>7, ReviewType DEF Approve
  <2>1. row' = [row EXCEPT ![Under(a)].status = IF @ \in {"PENDING"} THEN "APPROVED" ELSE @]
    BY <1>7 DEF Approve
  <2>2. ClosedRowsMoved'
    BY <1>7, <1>U, <2>0, <2>1, StatusEffect DEF Approve, Shown
  <2> QED BY <1>7, <2>2, <1>Q, <1>A, <1>U DEF Approve, IdleReview
<1>8. ASSUME NEW a \in Admins, Release(a) PROVE Goal
  <2>0. Under(a) \in Withdrawals
    BY <1>8, ReviewType DEF Release
  <2>1. CASE /\ Post(ReleaseRef(Under(a)), ReleaseLines(Under(a)))
             /\ GoReview(a, [review[a] EXCEPT !.at = "reject"])
    <3>1. posted' = posted \cup {ReleaseRef(Under(a))}
      BY <2>1, PostEffect
    <3> DEFINE x == [review[a] EXCEPT !.at = "reject"]
    <3>2. x \in Reviews /\ x.at = "reject" /\ x.withdrawal = Under(a)
      BY <1>8, ReviewMoved DEF Release
    <3>3. GoReview(a, x)
      BY <2>1
    <3> HIDE DEF x
    <3> QED BY <1>8, <3>1, <3>2, <3>3, <1>R, <1>Q, <1>A, <1>U DEF Release
  <2>2. CASE GoReview(a, IdleReview) /\ UNCHANGED ledger
    BY <1>8, <2>2, <1>R, <1>Q, <1>A, <1>U DEF Release, IdleReview, ledger
  <2> QED BY <1>8, <2>1, <2>2 DEF Release
<1>9. ASSUME NEW a \in Admins, Payout(a) PROVE Goal
  <2>0. Under(a) \in Withdrawals
    BY <1>9, ReviewType DEF Payout
  <2>1. CASE /\ Post(PayoutRef(Under(a)), PayoutLines(Under(a)))
             /\ GoReview(a, [review[a] EXCEPT !.at = "pay"])
    <3>1. posted' = posted \cup {PayoutRef(Under(a))}
      BY <2>1, PostEffect
    <3> DEFINE x == [review[a] EXCEPT !.at = "pay"]
    <3>2. x \in Reviews /\ x.at = "pay" /\ x.withdrawal = Under(a)
      BY <1>9, ReviewMoved DEF Payout
    <3>3. GoReview(a, x)
      BY <2>1
    <3> HIDE DEF x
    <3> QED BY <1>9, <3>1, <3>2, <3>3, <1>R, <1>Q, <1>A, <1>U DEF Payout
  <2>2. CASE GoReview(a, IdleReview) /\ UNCHANGED ledger
    BY <1>9, <2>2, <1>R, <1>Q, <1>A, <1>U DEF Payout, IdleReview, ledger
  <2> QED BY <1>9, <2>1, <2>2 DEF Payout
<1>10. ASSUME NEW a \in Admins, Reject(a) PROVE Goal
  <2>0. Under(a) \in Withdrawals /\ ReleaseRef(Under(a)) \in posted
    BY <1>10, <1>U, ReviewType DEF Reject, ReviewMovedIt
  <2>1. ClosedRowsMoved'
    BY <1>10, <1>U, <2>0, StatusEffect DEF Reject, Shown
  <2> QED BY <1>10, <2>1, <1>Q, <1>A, <1>U DEF Reject, IdleReview
<1>11. ASSUME NEW a \in Admins, MarkPaid(a) PROVE Goal
  <2>0. Under(a) \in Withdrawals /\ PayoutRef(Under(a)) \in posted
    BY <1>11, <1>U, ReviewType DEF MarkPaid, ReviewMovedIt
  <2>1. ClosedRowsMoved'
    BY <1>11, <1>U, <2>0, PaidEffect DEF MarkPaid, Shown
  <2> QED BY <1>11, <2>1, <1>Q, <1>A, <1>U DEF MarkPaid, IdleReview
<1>12. ASSUME NEW a \in Admins, ReviewLost(a) PROVE Goal
  BY <1>12, <1>R, <1>Q, <1>A, <1>U DEF ReviewLost, IdleReview
<1>13. CASE UNCHANGED vars
  BY <1>13, <1>R, <1>Q, <1>V, <1>U DEF vars
<1> QED
  BY <1>1, <1>2, <1>3, <1>4, <1>5, <1>6, <1>7, <1>8, <1>9, <1>10, <1>11, <1>12,
     <1>13
  DEF Next, RequestStep, ReviewStep

(* A withdrawal shown as paid was paid out, one shown as rejected had its   *)
(* reservation given back, and one bound to a reservation reserved it,      *)
(* whichever reviews overlap and wherever calls are lost.                   *)
THEOREM ShownWithdrawalsMoved == ASSUME Parameters PROVE Spec => []ShownIsMoved
<1>1. Init => ClosedRowsMoved /\ CallsMoved
  BY DEF Init, ClosedRowsMoved, CallsMoved, NoRow, IdleReview
<1>2. TypeOK /\ ClosedRowsMoved /\ CallsMoved /\ [Next]_vars => ClosedRowsMoved' /\ CallsMoved'
  BY ShownStep
<1>3. TypeOK /\ ClosedRowsMoved => ShownIsMoved
  BY DEF ShownIsMoved
<1> QED BY <1>1, <1>2, <1>3, Typed, PTL DEF Spec

-----------------------------------------------------------------------------
(* What steps leave alone: the rows that are not there, and the references *)
(* of other withdrawals.                                                   *)
LEMMA SameRow ==
    ASSUME NEW x \in Rows, NEW y \in Rows, x.status = y.status,
           x.lockTxn = y.lockTxn, x.finalTxn = y.finalTxn
    PROVE  x = y
BY DEF Rows

(* The references a step may add are those of its own withdrawal.          *)
LEMMA ReviewPosts ==
    ASSUME NEW a \in Admins, ReviewStep(a)
    PROVE  /\ request' = request
           /\ posted' \subseteq posted \cup {ReleaseRef(Under(a)), PayoutRef(Under(a))}
<1>1. CASE Release(a)
  BY <1>1, PostEffect DEF Release, ledger
<1>2. CASE Payout(a)
  BY <1>2, PostEffect DEF Payout, ledger
<1>3. CASE Approve(a) \/ Reject(a) \/ MarkPaid(a)
  BY <1>3 DEF Approve, Reject, MarkPaid
<1> QED BY <1>1, <1>2, <1>3 DEF ReviewStep

LEMMA ReviewKeepsRows ==
    ASSUME TypeOK, NEW a \in Admins, ReviewStep(a), NEW w \in Withdrawals
    PROVE  /\ row'[w] \in Rows
           /\ row[w].status = "NONE" => row'[w] = row[w]
           /\ row'[w].status = "NONE" => row[w].status = "NONE"
<1>0. row[w] \in Rows
  BY DEF TypeOK
<1>1. CASE Approve(a)
  <2>0. Under(a) \in Withdrawals
    BY <1>1, ReviewType DEF Approve
  <2> DEFINE from == {"PENDING"}
  <2>1. row' = [row EXCEPT ![Under(a)].status = IF @ \in from THEN "APPROVED" ELSE @]
    BY <1>1 DEF Approve
  <2>2. from \subseteq {"PENDING", "APPROVED"}
    OBVIOUS
  <2> HIDE DEF from
  <2>3. /\ row' \in [Withdrawals -> Rows]
        /\ row'[Under(a)].status = IF row[Under(a)].status \in from THEN "APPROVED"
                                   ELSE row[Under(a)].status
        /\ row'[Under(a)].lockTxn = row[Under(a)].lockTxn
        /\ row'[Under(a)].finalTxn = row[Under(a)].finalTxn
        /\ \A v \in Withdrawals \ {Under(a)} : row'[v] = row[v]
    BY <2>0, <2>1, StatusEffect
  <2> QED BY <1>0, <2>0, <2>2, <2>3, SameRow
<1>2. CASE Reject(a)
  <2>0. Under(a) \in Withdrawals
    BY <1>2, ReviewType DEF Reject
  <2> DEFINE from == {"PENDING", "APPROVED"}
  <2>1. row' = [row EXCEPT ![Under(a)].status = IF @ \in from THEN "REJECTED" ELSE @]
    BY <1>2 DEF Reject
  <2>2. from \subseteq {"PENDING", "APPROVED"}
    OBVIOUS
  <2> HIDE DEF from
  <2>3. /\ row' \in [Withdrawals -> Rows]
        /\ row'[Under(a)].status = IF row[Under(a)].status \in from THEN "REJECTED"
                                   ELSE row[Under(a)].status
        /\ row'[Under(a)].lockTxn = row[Under(a)].lockTxn
        /\ row'[Under(a)].finalTxn = row[Under(a)].finalTxn
        /\ \A v \in Withdrawals \ {Under(a)} : row'[v] = row[v]
    BY <2>0, <2>1, StatusEffect
  <2> QED BY <1>0, <2>0, <2>2, <2>3, SameRow
<1>3. CASE MarkPaid(a)
  <2>0. Under(a) \in Withdrawals
    BY <1>3, ReviewType DEF MarkPaid
  <2> QED BY <1>0, <1>3, <2>0, PaidEffect DEF MarkPaid
<1>4. CASE Release(a) \/ Payout(a)
  BY <1>0, <1>4 DEF Release, Payout
<1> QED BY <1>1, <1>2, <1>3, <1>4 DEF ReviewStep

-----------------------------------------------------------------------------
(* A reservation is loose when it is committed and the request will, or    *)
(* did, delete its row.  A withdrawal becomes loose in ReserveError only,  *)
(* because a call that was answered goes on to bind its row.               *)
Begun(w) ==
    /\ request[w] \in {"none", "create", "reserve"} => LockRef(w) \notin posted
    /\ request[w] \in {"reserve", "undo", "bind"} => row[w].status # "NONE"

Loose(w) ==
    /\ LockRef(w) \in posted
    /\ request[w] = "undo" \/ (request[w] = "done" /\ row[w].status = "NONE")

LooseOnes == {w \in Withdrawals : Loose(w)}

(* What a step does to one withdrawal, unless its reservation's answer is  *)
(* lost in it.                                                             *)
KeepsIt(w) == Begun(w)' /\ (Loose(w)' => Loose(w))

LEMMA Aside ==
    ASSUME NEW w \in Withdrawals, Begun(w), request'[w] = request[w], row'[w] = row[w],
           LockRef(w) \in posted' <=> LockRef(w) \in posted
    PROVE  KeepsIt(w)
BY DEF KeepsIt, Begun, Loose

LEMMA RequestKeeps ==
    ASSUME TypeOK, NEW w \in Withdrawals, Begun(w), RequestStep(w) \/ RequestLost(w)
    PROVE  KeepsIt(w)
<1>1. CASE CheckRequest(w)
  BY <1>1, GoRequestEffect DEF CheckRequest, KeepsIt, Begun, Loose
<1>2. CASE CreateRow(w)
  <2>1. row'[w].status = "PENDING" /\ request'[w] = "reserve" /\ posted' = posted
    BY <1>2, CreateEffect, GoRequestEffect DEF CreateRow
  <2> QED BY <1>2, <2>1 DEF CreateRow, KeepsIt, Begun, Loose
<1>3. CASE Reserve(w)
  <2>1. CASE GoRequest(w, "bind") /\ UNCHANGED row
    BY <1>3, <2>1, GoRequestEffect DEF Reserve, KeepsIt, Begun, Loose
  <2>2. CASE GoRequest(w, "undo") /\ LockRef(w) \notin posted /\ UNCHANGED <<row, posted>>
    BY <1>3, <2>2, GoRequestEffect DEF Reserve, KeepsIt, Begun, Loose
  <2> QED BY <1>3, <2>1, <2>2 DEF Reserve, Refused, ledger
<1>4. CASE DeleteIfPending(w)
  <2>1. request[w] = "undo" /\ request'[w] = "done" /\ posted' = posted
    BY <1>4, GoRequestEffect DEF DeleteIfPending
  <2> QED BY <2>1 DEF KeepsIt, Begun, Loose
<1>5. CASE SetLockTxn(w)
  <2>1. /\ request[w] = "bind" /\ request'[w] = "done"
        /\ row'[w].status = row[w].status
    BY <1>5, BindEffect, GoRequestEffect DEF SetLockTxn
  <2> QED BY <2>1 DEF KeepsIt, Begun, Loose
<1>6. CASE RequestLost(w)
  <2>1. /\ request[w] \in {"create", "reserve", "undo", "bind"} /\ request'[w] = "done"
        /\ posted' = posted /\ row' = row
    BY <1>6, GoRequestEffect DEF RequestLost
  <2> QED BY <2>1 DEF KeepsIt, Begun, Loose
<1> QED BY <1>1, <1>2, <1>3, <1>4, <1>5, <1>6 DEF RequestStep

(* The steps of one request leave the other withdrawals alone.             *)
LEMMA RequestAside ==
    ASSUME TypeOK, NEW w \in Withdrawals,
           RequestStep(w) \/ RequestLost(w) \/ ReserveError(w),
           NEW v \in Withdrawals \ {w}
    PROVE  /\ request'[v] = request[v] /\ row'[v] = row[v]
           /\ LockRef(v) \in posted' <=> LockRef(v) \in posted
<1>1. \E at \in {"none", "create", "reserve", "undo", "bind", "done"} : GoRequest(w, at)
  BY DEF RequestStep, CheckRequest, CreateRow, Reserve, DeleteIfPending, SetLockTxn,
         RequestLost, ReserveError
<1>2. request'[v] = request[v]
  BY <1>1, GoRequestEffect
<1>3. row'[v] = row[v]
  BY CreateEffect, DeleteEffect, BindEffect
  DEF RequestStep, CheckRequest, CreateRow, Reserve, DeleteIfPending, SetLockTxn,
      RequestLost, ReserveError
<1>4. posted' = posted \/ posted' = posted \cup {LockRef(w)}
  BY PostEffect
  DEF RequestStep, CheckRequest, CreateRow, Reserve, DeleteIfPending, SetLockTxn,
      RequestLost, ReserveError, ledger
<1> QED BY <1>2, <1>3, <1>4, RefsDiffer

LEMMA ReviewsKeep ==
    ASSUME TypeOK, NEW a \in Admins, ReviewStep(a), NEW w \in Withdrawals, Begun(w)
    PROVE  KeepsIt(w)
<1>1. /\ request' = request
      /\ LockRef(w) \in posted' => LockRef(w) \in posted
  BY ReviewPosts, RefsDiffer
<1>2. row'[w].status = "NONE" <=> row[w].status = "NONE"
  BY ReviewKeepsRows
<1> QED BY <1>1, <1>2 DEF KeepsIt, Begun, Loose

(* A step makes at most one reservation loose, and then it is a failure.   *)
Few ==
    /\ \A w \in Withdrawals : Begun(w)
    /\ IsFiniteSet(LooseOnes) /\ Cardinality(LooseOnes) <= failures

LEMMA LooseStep ==
    ASSUME Parameters, TypeOK, \A w \in Withdrawals : Begun(w), [Next]_vars
    PROVE  /\ \A w \in Withdrawals : Begun(w)'
           /\ \/ LooseOnes' \subseteq LooseOnes /\ failures' >= failures
              \/ /\ failures' = failures + 1
                 /\ \E w \in Withdrawals : LooseOnes' \subseteq LooseOnes \cup {w}
<1> DEFINE Goal == /\ \A w \in Withdrawals : Begun(w)'
                   /\ \/ LooseOnes' \subseteq LooseOnes /\ failures' >= failures
                      \/ /\ failures' = failures + 1
                         /\ \E w \in Withdrawals : LooseOnes' \subseteq LooseOnes \cup {w}
<1>0. failures \in Nat
  BY DEF TypeOK, Parameters
<1>K. ASSUME \A v \in Withdrawals : KeepsIt(v), failures' = failures \/ failures' = failures + 1
      PROVE  Goal
  <2>1. LooseOnes' \subseteq LooseOnes
    BY <1>K DEF LooseOnes, KeepsIt
  <2>2. failures' >= failures
    BY <1>0, <1>K
  <2> QED BY <1>K, <2>1, <2>2 DEF KeepsIt
<1>1. ASSUME NEW w \in Withdrawals, RequestStep(w) \/ RequestLost(w) PROVE Goal
  <2>1. \A v \in Withdrawals : KeepsIt(v)
    BY <1>1, RequestKeeps, RequestAside, Aside
  <2>2. failures' = failures \/ failures' = failures + 1
    BY <1>1 DEF RequestStep, CheckRequest, CreateRow, Reserve, DeleteIfPending,
                SetLockTxn, RequestLost, Failure
  <2> QED BY <1>K, <2>1, <2>2
<1>2. ASSUME NEW w \in Withdrawals, ReserveError(w) PROVE Goal
  <2>1. \A v \in Withdrawals \ {w} : KeepsIt(v)
    BY <1>2, RequestAside, Aside
  <2>2. request'[w] = "undo" /\ row' = row /\ request[w] = "reserve"
    BY <1>2, GoRequestEffect DEF ReserveError
  <2>3. Begun(w)'
    BY <2>2 DEF Begun
  <2>4. LooseOnes' \subseteq LooseOnes \cup {w}
    BY <2>1 DEF LooseOnes, KeepsIt
  <2>5. failures' = failures + 1
    BY <1>2 DEF ReserveError, Failure
  <2> QED BY <2>1, <2>3, <2>4, <2>5 DEF KeepsIt
<1>3. ASSUME NEW a \in Admins, ReviewStep(a) PROVE Goal
  <2>1. \A v \in Withdrawals : KeepsIt(v)
    BY <1>3, ReviewsKeep
  <2>2. failures' = failures
    BY <1>3 DEF ReviewStep, Approve, Release, Reject, Payout, MarkPaid
  <2> QED BY <1>K, <2>1, <2>2
<1>4. ASSUME UNCHANGED <<request, row, posted>>,
             failures' = failures \/ failures' = failures + 1
      PROVE  Goal
  <2>1. \A v \in Withdrawals : KeepsIt(v)
    BY <1>4, Aside
  <2> QED BY <1>K, <1>4, <2>1
<1>5. ASSUME NEW a \in Admins, NEW w \in Withdrawals,
             NEW kind \in {"approve", "release", "payout"}, OpenReview(a, w, kind)
      PROVE  Goal
  BY <1>4, <1>5 DEF OpenReview
<1>6. ASSUME NEW a \in Admins, ReviewLost(a) PROVE Goal
  BY <1>4, <1>6 DEF ReviewLost, Failure
<1>7. CASE UNCHANGED vars
  BY <1>4, <1>7 DEF vars
<1> QED BY <1>1, <1>2, <1>3, <1>5, <1>6, <1>7 DEF Next

LEMMA FewStep ==
    ASSUME Parameters, TypeOK, Few, [Next]_vars
    PROVE  Few'
<1> DEFINE S == LooseOnes
           T == LooseOnes'
<1>1. failures \in Nat /\ IsFiniteSet(S) /\ Cardinality(S) \in Nat
      /\ Cardinality(S) <= failures
  BY FS_CardinalityType DEF Few, TypeOK, Parameters
<1>2. /\ \A w \in Withdrawals : Begun(w)'
      /\ \/ T \subseteq S /\ failures' >= failures
         \/ failures' = failures + 1 /\ \E w \in Withdrawals : T \subseteq S \cup {w}
  BY LooseStep DEF Few
<1>3. failures' \in Nat
  BY TypeStep DEF TypeOK, Parameters
<1> HIDE DEF S, T
<1>4. CASE T \subseteq S /\ failures' >= failures
  <2>1. IsFiniteSet(T) /\ Cardinality(T) \in Nat /\ Cardinality(T) <= Cardinality(S)
    BY <1>1, <1>4, FS_Subset, FS_CardinalityType
  <2>2. Cardinality(T) <= failures'
    BY <1>1, <1>3, <1>4, <2>1
  <2> QED BY <1>2, <2>1, <2>2 DEF Few, S, T
<1>5. CASE failures' = failures + 1 /\ \E w \in Withdrawals : T \subseteq S \cup {w}
  <2>1. PICK w \in Withdrawals : T \subseteq S \cup {w}
    BY <1>5
  <2>2. /\ IsFiniteSet(S \cup {w}) /\ Cardinality(S \cup {w}) \in Nat
        /\ Cardinality(S \cup {w}) <= Cardinality(S) + 1
    <3>1. /\ IsFiniteSet(S \cup {w})
          /\ \/ Cardinality(S \cup {w}) = Cardinality(S)
             \/ Cardinality(S \cup {w}) = Cardinality(S) + 1
      BY <1>1, FS_AddElement
    <3> QED BY <1>1, <3>1
  <2>3. /\ IsFiniteSet(T) /\ Cardinality(T) \in Nat
        /\ Cardinality(T) <= Cardinality(S \cup {w})
    BY <2>1, <2>2, FS_Subset, FS_CardinalityType
  <2>4. Cardinality(T) <= failures'
    BY <1>1, <1>5, <2>2, <2>3
  <2> QED BY <1>2, <2>3, <2>4 DEF Few, S, T
<1> QED BY <1>2, <1>4, <1>5

(* deleteIfPending rolls a request back with its reservation committed at  *)
(* most once for each answer that was lost, whichever reviews overlap the  *)
(* request and wherever calls are lost.                                    *)
THEOREM StrandedByLostAnswers ==
    ASSUME Parameters PROVE Spec => [](NotYetReserved /\ StrandedAsLost)
<1>1. Init => Few
  <2> SUFFICES ASSUME Init PROVE Few
    OBVIOUS
  <2>1. \A w \in Withdrawals : Begun(w) /\ ~Loose(w)
    BY DEF Init, Begun, Loose
  <2>2. LooseOnes = {}
    BY <2>1 DEF LooseOnes
  <2> QED BY <2>1, <2>2, FS_EmptySet DEF Few, Init
<1>2. TypeOK /\ Few /\ [Next]_vars => Few'
  BY FewStep
<1>3. TypeOK /\ Few => NotYetReserved /\ StrandedAsLost
  <2> SUFFICES ASSUME TypeOK, Few PROVE NotYetReserved /\ StrandedAsLost
    OBVIOUS
  <2>1. StrandedByDeletion \in SUBSET LooseOnes
    BY DEF StrandedByDeletion, LooseOnes, Loose, NoRow
  <2>2. /\ IsFiniteSet(StrandedByDeletion) /\ Cardinality(StrandedByDeletion) \in Nat
        /\ Cardinality(LooseOnes) \in Nat
        /\ Cardinality(StrandedByDeletion) <= Cardinality(LooseOnes)
    BY <2>1, FS_Subset, FS_CardinalityType DEF Few
  <2>3. failures \in Nat
    BY DEF TypeOK, Parameters
  <2>4. Cardinality(StrandedByDeletion) <= failures
    BY <2>2, <2>3 DEF Few
  <2> QED BY <2>4 DEF Few, Begun, NotYetReserved, StrandedAsLost
<1> QED BY <1>1, <1>2, <1>3, Typed, PTL DEF Spec

-----------------------------------------------------------------------------
(* What the three postings of a withdrawal do to the pools.                *)
LEMMA AccountsApart ==
    ASSUME Parameters
    PROVE  /\ {Available(Owner, Asset), Locked(Owner, Asset),
               System("MANUAL_BANK_CLEARING", Asset)} \subseteq Accounts
           /\ Available(Owner, Asset) # Locked(Owner, Asset)
           /\ System("MANUAL_BANK_CLEARING", Asset)
                 \notin {Available(Owner, Asset), Locked(Owner, Asset)}
           /\ isUserAccount(Available(Owner, Asset)) /\ isUserAccount(Locked(Owner, Asset))
<1>1. /\ Owner \in Users /\ Asset \in Assets /\ NoUser \notin Users
      /\ "MANUAL_BANK_CLEARING" \in SystemKinds /\ UserKinds \cap SystemKinds = {}
  BY KindsAssumption DEF Parameters
<1> QED BY <1>1 DEF Accounts, AccountNames, UserKinds, isUserAccount, Available, Locked, System

LEMMA TwoLines ==
    ASSUME balance \in [Accounts -> Int], NEW from \in Accounts, NEW to \in Accounts,
           from # to, NEW n \in Int
    PROVE  LET lines == <<Debit(from, n), Credit(to, n)>>
               new == Applied(balance, lines)
           IN  /\ new[from] = balance[from] - n /\ new[to] = balance[to] + n
               /\ \A c \in Accounts \ {from, to} : new[c] = balance[c]
               /\ CanPost(balance, lines) /\ isUserAccount(from) => balance[from] >= n
<1> DEFINE lines == <<Debit(from, n), Credit(to, n)>>
<1>1. /\ DOMAIN lines = {1, 2}
      /\ lines[1].account = from /\ lines[2].account = to
      /\ Signed(lines[1]) = -n /\ Signed(lines[2]) = n
      /\ lines[1].direction = "DEBIT" /\ lines[1].amount = n
  BY DEF Debit, Credit, Signed
<1> HIDE DEF lines
<1>2. DistinctAccounts(lines)
  BY <1>1 DEF DistinctAccounts
<1>3. \A c \in Accounts \ {from, to} : c \notin AccountsOf(lines)
  BY <1>1 DEF AccountsOf
<1>4. /\ Applied(balance, lines)[from] = balance[from] + (-n)
      /\ Applied(balance, lines)[to] = balance[to] + n
      /\ \A c \in Accounts \ {from, to} : Applied(balance, lines)[c] = balance[c]
  BY <1>1, <1>2, <1>3, AppliedAt
<1>5. CanPost(balance, lines) /\ isUserAccount(from) => balance[from] >= n
  BY <1>1 DEF CanPost, MayApply
<1> QED BY <1>4, <1>5 DEF lines

(* A step leaves the ledger alone, or makes one of the three postings of a *)
(* withdrawal for the first time, under the guard on the user's balances.  *)
PostsFor(ref, lines) ==
    /\ ref \notin posted /\ CanPost(balance, lines)
    /\ balance' = Applied(balance, lines)
    /\ posted' = posted \cup {ref}

MovesOf(w) ==
    \/ PostsFor(LockRef(w), LockLines(w))
    \/ PostsFor(ReleaseRef(w), ReleaseLines(w))
    \/ PostsFor(PayoutRef(w), PayoutLines(w))

LEMMA Movement ==
    ASSUME TypeOK, [Next]_vars
    PROVE  UNCHANGED ledger \/ \E w \in Withdrawals : MovesOf(w)
<1> DEFINE Goal == UNCHANGED ledger \/ \E w \in Withdrawals : MovesOf(w)
<1>0. ASSUME NEW ref, NEW lines, Post(ref, lines)
      PROVE  UNCHANGED ledger \/ PostsFor(ref, lines)
  BY <1>0 DEF Post, PostsFor
<1>1. ASSUME NEW w \in Withdrawals, Reserve(w) \/ ReserveError(w) PROVE Goal
  BY <1>0, <1>1 DEF Reserve, ReserveError, MovesOf
<1>2. ASSUME NEW a \in Admins, Release(a) \/ Payout(a) PROVE Goal
  <2>1. Under(a) \in Withdrawals
    BY <1>2, ReviewType DEF Release, Payout
  <2> QED BY <1>0, <1>2, <2>1 DEF Release, Payout, MovesOf
<1>3. ASSUME NEW w \in Withdrawals,
             CheckRequest(w) \/ CreateRow(w) \/ DeleteIfPending(w) \/ SetLockTxn(w)
                \/ RequestLost(w)
      PROVE  Goal
  BY <1>3 DEF CheckRequest, CreateRow, DeleteIfPending, SetLockTxn, RequestLost, ledger
<1>4. ASSUME NEW a \in Admins, Approve(a) \/ Reject(a) \/ MarkPaid(a) \/ ReviewLost(a)
      PROVE  Goal
  BY <1>4 DEF Approve, Reject, MarkPaid, ReviewLost, ledger
<1>5. ASSUME NEW a \in Admins, NEW w \in Withdrawals,
             NEW kind \in {"approve", "release", "payout"}, OpenReview(a, w, kind)
      PROVE  Goal
  BY <1>5 DEF OpenReview, ledger
<1>6. CASE UNCHANGED vars
  BY <1>6 DEF vars, ledger
<1> QED BY <1>1, <1>2, <1>3, <1>4, <1>5, <1>6 DEF Next, RequestStep, ReviewStep

(* Totals of amounts.                                                      *)
LEMMA TotalFacts ==
    ASSUME Parameters, IsFiniteSet(Withdrawals), NEW S \in SUBSET Withdrawals
    PROVE  /\ Total(S) \in Nat
           /\ \A w \in Withdrawals \ S : Total(S \cup {w}) = Total(S) + Amount[w]
           /\ \A w \in S : /\ Total(S) = Total(S \ {w}) + Amount[w]
                           /\ Total(S) >= Amount[w]
<1>1. \A w \in Withdrawals : Amount[w] \in Nat /\ Amount[w] \in Int
  BY DEF Parameters
<1>2. \A T \in SUBSET Withdrawals : IsFiniteSet(T) /\ Total(T) = SumOf(Amount, T)
  BY FS_Subset DEF Total, SumOf
<1>3. \A T \in SUBSET Withdrawals : Total(T) \in Int
  BY <1>1, <1>2, SumType
<1>4. \A T \in SUBSET Withdrawals : \A w \in T : Total(T) = Total(T \ {w}) + Amount[w]
  <2> SUFFICES ASSUME NEW T \in SUBSET Withdrawals, NEW w \in T
               PROVE  Total(T) = Total(T \ {w}) + Amount[w]
    OBVIOUS
  <2>1. SumOf(Amount, T) = Amount[w] + SumOf(Amount, T \ {w})
    BY <1>1, <1>2, SumRemove
  <2> QED BY <1>1, <1>2, <1>3, <2>1
<1>5. \A T \in SUBSET Withdrawals : Total(T) \in Nat
  <2> DEFINE P == {T \in SUBSET Withdrawals : Total(T) \in Nat}
  <2>1. ASSUME NEW T \in SUBSET Withdrawals, \A U \in SUBSET T : U # T => U \in P
        PROVE  T \in P
    <3>1. CASE T = {}
      <4>1. SumOf(Amount, T) = 0 /\ Total(T) = SumOf(Amount, T)
        BY <1>2, <3>1, SumUnfolds
      <4> QED BY <4>1
    <3>2. CASE T # {}
      <4>1. PICK w \in T : TRUE
        BY <3>2
      <4>2. Total(T \ {w}) \in Nat
        BY <2>1, <4>1
      <4> QED BY <1>1, <1>4, <4>1, <4>2
    <3> QED BY <3>1, <3>2
  <2> HIDE DEF P
  <2>2. \A T \in SUBSET Withdrawals : T \in P
    BY <2>1, SubsetInduction
  <2> QED BY <2>2 DEF P
<1>6. ASSUME NEW w \in Withdrawals \ S PROVE Total(S \cup {w}) = Total(S) + Amount[w]
  <2>1. (S \cup {w}) \ {w} = S /\ S \cup {w} \in SUBSET Withdrawals
    OBVIOUS
  <2> QED BY <1>4, <2>1
<1>7. \A w \in S : Total(S) >= Amount[w]
  <2> SUFFICES ASSUME NEW w \in S PROVE Total(S) >= Amount[w]
    OBVIOUS
  <2>1. Total(S) = Total(S \ {w}) + Amount[w] /\ Total(S \ {w}) \in Nat /\ Amount[w] \in Nat
    BY <1>1, <1>4, <1>5
  <2> QED BY <2>1
<1> QED BY <1>4, <1>5, <1>6, <1>7

LEMMA EmptyTotal == Total({}) = 0
<1>1. Total({}) = SumOf(Amount, {})
  BY DEF Total, SumOf
<1>2. SumOf(Amount, {}) = 0
  BY FS_EmptySet, SumUnfolds
<1> QED BY <1>1, <1>2

LEMMA AddsToTotal ==
    ASSUME Parameters, IsFiniteSet(Withdrawals), NEW ref, ref \notin posted,
           posted' = posted \cup {ref}, NEW v \in Withdrawals
    PROVE  /\ ref = LockRef(v) => /\ LockedTotal' = LockedTotal + Amount[v]
                                  /\ ReleasedTotal' = ReleasedTotal
                                  /\ PaidTotal' = PaidTotal
           /\ ref = ReleaseRef(v) => /\ LockedTotal' = LockedTotal
                                     /\ ReleasedTotal' = ReleasedTotal + Amount[v]
                                     /\ PaidTotal' = PaidTotal
           /\ ref = PayoutRef(v) => /\ LockedTotal' = LockedTotal
                                    /\ ReleasedTotal' = ReleasedTotal
                                    /\ PaidTotal' = PaidTotal + Amount[v]
<1> DEFINE L(p) == {w \in Withdrawals : LockRef(w) \in p}
           R(p) == {w \in Withdrawals : ReleaseRef(w) \in p}
           P(p) == {w \in Withdrawals : PayoutRef(w) \in p}
<1>1. /\ LockedTotal = Total(L(posted)) /\ LockedTotal' = Total(L(posted'))
      /\ ReleasedTotal = Total(R(posted)) /\ ReleasedTotal' = Total(R(posted'))
      /\ PaidTotal = Total(P(posted)) /\ PaidTotal' = Total(P(posted'))
  BY DEF LockedTotal, ReleasedTotal, PaidTotal, Total, MapThenSumSet, MapThenFoldSet
<1>2. ASSUME NEW S \in SUBSET Withdrawals, v \notin S
      PROVE  Total(S \cup {v}) = Total(S) + Amount[v]
  BY <1>2, TotalFacts
<1>3. CASE ref = LockRef(v)
  <2>1. /\ L(posted') = L(posted) \cup {v} /\ v \notin L(posted)
        /\ R(posted') = R(posted) /\ P(posted') = P(posted)
    BY <1>3, RefsDiffer
  <2> QED BY <1>1, <1>2, <1>3, <2>1, RefsDiffer
<1>4. CASE ref = ReleaseRef(v)
  <2>1. /\ R(posted') = R(posted) \cup {v} /\ v \notin R(posted)
        /\ L(posted') = L(posted) /\ P(posted') = P(posted)
    BY <1>4, RefsDiffer
  <2> QED BY <1>1, <1>2, <1>4, <2>1, RefsDiffer
<1>5. CASE ref = PayoutRef(v)
  <2>1. /\ P(posted') = P(posted) \cup {v} /\ v \notin P(posted)
        /\ L(posted') = L(posted) /\ R(posted') = R(posted)
    BY <1>5, RefsDiffer
  <2> QED BY <1>1, <1>2, <1>5, <2>1, RefsDiffer
<1> QED BY <1>3, <1>4, <1>5

LEMMA TotalTypes ==
    ASSUME Parameters, IsFiniteSet(Withdrawals)
    PROVE  LockedTotal \in Nat /\ ReleasedTotal \in Nat /\ PaidTotal \in Nat
BY TotalFacts DEF LockedTotal, ReleasedTotal, PaidTotal

LEMMA PoolStep ==
    ASSUME Parameters, IsFiniteSet(Withdrawals), TypeOK, PoolAsPosted, [Next]_vars
    PROVE  PoolAsPosted'
<1> DEFINE A == Available(Owner, Asset)
           L == Locked(Owner, Asset)
           B == System("MANUAL_BANK_CLEARING", Asset)
<1>0. /\ A \in Accounts /\ L \in Accounts /\ B \in Accounts
      /\ A # L /\ A # B /\ L # B /\ isUserAccount(A) /\ isUserAccount(L)
  BY AccountsApart
<1>1. /\ balance[A] \in Int /\ balance[L] \in Int /\ balance[B] \in Int
      /\ OtherLocks \in Int /\ OpeningBalance \in Int
      /\ LockedTotal \in Int /\ ReleasedTotal \in Int /\ PaidTotal \in Int
  BY <1>0, TotalTypes DEF TypeOK, Parameters
<1>U. /\ PoolAsPosted <=> /\ balance[L] = OtherLocks + LockedTotal - ReleasedTotal - PaidTotal
                          /\ balance[A] = OpeningBalance - LockedTotal + ReleasedTotal
                          /\ balance[B] = PaidTotal
                          /\ balance[L] >= 0 /\ balance[A] >= 0
      /\ PoolAsPosted' <=> /\ balance'[L] = OtherLocks + LockedTotal' - ReleasedTotal' - PaidTotal'
                           /\ balance'[A] = OpeningBalance - LockedTotal' + ReleasedTotal'
                           /\ balance'[B] = PaidTotal'
                           /\ balance'[L] >= 0 /\ balance'[A] >= 0
  BY DEF PoolAsPosted
<1> HIDE DEF A, L, B
<1>2. CASE UNCHANGED ledger
  <2>1. UNCHANGED <<LockedTotal, ReleasedTotal, PaidTotal>>
    BY <1>2 DEF ledger, LockedTotal, ReleasedTotal, PaidTotal
  <2> QED BY <1>2, <1>U, <2>1 DEF ledger
<1>3. ASSUME NEW w \in Withdrawals, MovesOf(w) PROVE PoolAsPosted'
  <2> DEFINE n == Amount[w]
  <2>1. n \in Int /\ n > 0
    BY DEF Parameters
  <2>2. balance \in [Accounts -> Int]
    BY DEF TypeOK
  <2>3. CASE PostsFor(LockRef(w), LockLines(w))
    <3>1. LockLines(w) = <<Debit(A, n), Credit(L, n)>>
      BY DEF LockLines, A, L
    <3>2. /\ LockedTotal' = LockedTotal + n /\ ReleasedTotal' = ReleasedTotal
          /\ PaidTotal' = PaidTotal
      BY <2>3, AddsToTotal DEF PostsFor
    <3> HIDE DEF n
    <3>3. /\ balance'[A] = balance[A] - n /\ balance'[L] = balance[L] + n
          /\ balance'[B] = balance[B] /\ balance[A] >= n
      BY <1>0, <2>1, <2>2, <2>3, <3>1, TwoLines DEF PostsFor
    <3> QED BY <1>1, <1>U, <2>1, <3>2, <3>3
  <2>4. CASE PostsFor(ReleaseRef(w), ReleaseLines(w))
    <3>1. ReleaseLines(w) = <<Debit(L, n), Credit(A, n)>>
      BY DEF ReleaseLines, A, L
    <3>2. /\ LockedTotal' = LockedTotal /\ ReleasedTotal' = ReleasedTotal + n
          /\ PaidTotal' = PaidTotal
      BY <2>4, AddsToTotal DEF PostsFor
    <3> HIDE DEF n
    <3>3. /\ balance'[L] = balance[L] - n /\ balance'[A] = balance[A] + n
          /\ balance'[B] = balance[B] /\ balance[L] >= n
      BY <1>0, <2>1, <2>2, <2>4, <3>1, TwoLines DEF PostsFor
    <3> QED BY <1>1, <1>U, <2>1, <3>2, <3>3
  <2>5. CASE PostsFor(PayoutRef(w), PayoutLines(w))
    <3>1. PayoutLines(w) = <<Debit(L, n), Credit(B, n)>>
      BY DEF PayoutLines, B, L
    <3>2. /\ LockedTotal' = LockedTotal /\ ReleasedTotal' = ReleasedTotal
          /\ PaidTotal' = PaidTotal + n
      BY <2>5, AddsToTotal DEF PostsFor
    <3> HIDE DEF n
    <3>3. /\ balance'[L] = balance[L] - n /\ balance'[B] = balance[B] + n
          /\ balance'[A] = balance[A] /\ balance[L] >= n
      BY <1>0, <2>1, <2>2, <2>5, <3>1, TwoLines DEF PostsFor
    <3> QED BY <1>1, <1>U, <2>1, <3>2, <3>3
  <2> QED BY <1>3, <2>3, <2>4, <2>5 DEF MovesOf
<1> QED BY <1>2, <1>3, Movement

(* The user's available and locked balances, and what left by the bank,     *)
(* are at every moment what the reservations, releases and payouts say, and *)
(* the user's are never negative: for any number of withdrawals, whichever  *)
(* reviews overlap each other or the request, and wherever calls are lost.  *)
THEOREM PoolHolds ==
    ASSUME Parameters, IsFiniteSet(Withdrawals) PROVE Spec => []PoolAsPosted
<1>1. Init => PoolAsPosted
  <2> SUFFICES ASSUME Init PROVE PoolAsPosted
    OBVIOUS
  <2>1. /\ balance[Locked(Owner, Asset)] = OtherLocks
        /\ balance[Available(Owner, Asset)] = OpeningBalance
        /\ balance[System("MANUAL_BANK_CLEARING", Asset)] = 0
    BY AccountsApart DEF Init
  <2>2. LockedTotal = Total({}) /\ ReleasedTotal = Total({}) /\ PaidTotal = Total({})
    BY DEF Init, LockedTotal, ReleasedTotal, PaidTotal
  <2> QED BY <2>1, <2>2, EmptyTotal DEF PoolAsPosted, Parameters
<1>2. TypeOK /\ PoolAsPosted /\ [Next]_vars => PoolAsPosted'
  BY PoolStep
<1> QED BY <1>1, <1>2, Typed, PTL DEF Spec

-----------------------------------------------------------------------------
(* A reservation is used after it was placed, and in one way.              *)
UsedRight ==
    \A w \in Withdrawals :
        /\ ReleaseRef(w) \in posted \/ PayoutRef(w) \in posted => LockRef(w) \in posted
        /\ ~(ReleaseRef(w) \in posted /\ PayoutRef(w) \in posted)

(* Where the user has less locked elsewhere than the withdrawal is for, a   *)
(* pool that is not negative cannot have paid for a second use of it.       *)
LEMMA UsedRightFromPool ==
    ASSUME Parameters, NEW only, Withdrawals = {only}, OtherLocks < Amount[only], PoolAsPosted
    PROVE  UsedRight
<1> DEFINE n == Amount[only]
<1>0. only \in Withdrawals /\ IsFiniteSet({only})
  BY FS_Singleton
<1>1. IsFiniteSet(Withdrawals) /\ n \in Int /\ n > 0 /\ OtherLocks \in Int
  BY <1>0 DEF Parameters
<1>2. Total({}) = 0 /\ Total({only}) = n
  <2>1. {} \in SUBSET Withdrawals /\ only \in Withdrawals \ {} /\ {} \cup {only} = {only}
    OBVIOUS
  <2>2. Total({} \cup {only}) = Total({}) + Amount[only]
    BY <1>1, <2>1, TotalFacts
  <2> QED BY <1>1, <2>1, <2>2, EmptyTotal
<1>3. /\ LockedTotal = IF LockRef(only) \in posted THEN n ELSE 0
      /\ ReleasedTotal = IF ReleaseRef(only) \in posted THEN n ELSE 0
      /\ PaidTotal = IF PayoutRef(only) \in posted THEN n ELSE 0
  <2>1. ASSUME NEW ref
        PROVE  {v \in {only} : ref \in posted} = IF ref \in posted THEN {only} ELSE {}
    OBVIOUS
  <2>2. /\ {v \in Withdrawals : LockRef(v) \in posted}
              = IF LockRef(only) \in posted THEN {only} ELSE {}
        /\ {v \in Withdrawals : ReleaseRef(v) \in posted}
              = IF ReleaseRef(only) \in posted THEN {only} ELSE {}
        /\ {v \in Withdrawals : PayoutRef(v) \in posted}
              = IF PayoutRef(only) \in posted THEN {only} ELSE {}
    OBVIOUS
  <2> HIDE DEF n
  <2> QED BY <1>2, <2>2 DEF LockedTotal, ReleasedTotal, PaidTotal
<1>4. OtherLocks + LockedTotal - ReleasedTotal - PaidTotal >= 0
  BY DEF PoolAsPosted
<1> HIDE DEF n
<1>5. /\ ReleaseRef(only) \in posted \/ PayoutRef(only) \in posted => LockRef(only) \in posted
      /\ ~(ReleaseRef(only) \in posted /\ PayoutRef(only) \in posted)
  BY <1>1, <1>3, <1>4 DEF n
<1> QED BY <1>5 DEF UsedRight

LEMMA PostsOne ==
    ASSUME TypeOK, [Next]_vars, posted' # posted
    PROVE  \E v \in Withdrawals : \E ref \in Refs(v) : posted' = posted \cup {ref}
<1>1. ASSUME NEW w \in Withdrawals, Reserve(w) \/ ReserveError(w)
      PROVE  \E ref \in Refs(w) : posted' = posted \cup {ref}
  BY <1>1, PostEffect DEF Reserve, ReserveError, ledger, Refs
<1>2. ASSUME NEW a \in Admins, Release(a) \/ Payout(a)
      PROVE  \E v \in Withdrawals : \E ref \in Refs(v) : posted' = posted \cup {ref}
  <2>1. Under(a) \in Withdrawals
    BY <1>2, ReviewType DEF Release, Payout
  <2> QED BY <1>2, <2>1, PostEffect DEF Release, Payout, ledger, Refs
<1>3. /\ \A w \in Withdrawals : ~CheckRequest(w) /\ ~CreateRow(w) /\ ~DeleteIfPending(w)
                                /\ ~SetLockTxn(w) /\ ~RequestLost(w)
      /\ \A a \in Admins : ~Approve(a) /\ ~Reject(a) /\ ~MarkPaid(a) /\ ~ReviewLost(a)
      /\ \A a \in Admins, w \in Withdrawals, kind \in {"approve", "release", "payout"} :
            ~OpenReview(a, w, kind)
      /\ ~UNCHANGED vars
  BY DEF CheckRequest, CreateRow, DeleteIfPending, SetLockTxn, RequestLost, Approve,
         Reject, MarkPaid, ReviewLost, OpenReview, vars
<1> QED BY <1>1, <1>2, <1>3 DEF Next, RequestStep, ReviewStep

(* A withdrawal for more than the user has locked elsewhere is reserved     *)
(* once, and given back or paid out once, although reject and markPaid      *)
(* each post before they look at the row again: whichever of them overlap,  *)
(* also with the request, and wherever calls are lost, the guard on the     *)
(* locked balance refuses the second.                                      *)
THEOREM Refinement ==
    ASSUME Parameters, NEW only, Withdrawals = {only}, OtherLocks < Amount[only]
    PROVE  Spec => ImplementsReservation
<1> DEFINE phase == [w \in Withdrawals |-> MoneyOf(w)]
<1>1. Init => Money!Init
  BY DEF Init, Money!Init, MoneyOf
<1>2. TypeOK /\ [Next]_vars /\ UsedRight /\ UsedRight' => [Money!Next]_phase
  <2> SUFFICES ASSUME TypeOK, [Next]_vars, UsedRight, UsedRight', phase' # phase
               PROVE  Money!Next
    OBVIOUS
  <2>v. PICK v \in Withdrawals : \E r \in Refs(v) : posted' = posted \cup {r}
    <3>1. posted' # posted
      <4> SUFFICES ASSUME posted' = posted PROVE FALSE
        OBVIOUS
      <4> QED BY DEF MoneyOf
    <3> QED BY <3>1, PostsOne
  <2>1. PICK ref \in Refs(v) : posted' = posted \cup {ref}
    BY <2>v
  <2>2. ref \notin posted
    <3> SUFFICES ASSUME posted' = posted PROVE FALSE
      BY <2>1
    <3> QED BY DEF MoneyOf
  <2>3. \A w \in Withdrawals \ {v} : MoneyOf(w)' = MoneyOf(w)
    <3> SUFFICES ASSUME NEW w \in Withdrawals \ {v} PROVE MoneyOf(w)' = MoneyOf(w)
      OBVIOUS
    <3>1. \A r \in Refs(w) : r # ref
      BY <2>1, RefsDiffer DEF Refs
    <3>2. \A r \in Refs(w) : r \in posted' <=> r \in posted
      BY <2>1, <3>1
    <3> QED BY <3>2 DEF MoneyOf, Refs
  <2>4. \/ MoneyOf(v) = "free" /\ MoneyOf(v)' = "reserved"
        \/ MoneyOf(v) = "reserved" /\ MoneyOf(v)' \in {"released", "paid"}
    <3>1. /\ ref = LockRef(v) => ReleaseRef(v) \notin posted /\ PayoutRef(v) \notin posted
          /\ ref # LockRef(v) => LockRef(v) \in posted
          /\ ref = ReleaseRef(v) => PayoutRef(v) \notin posted
          /\ ref = PayoutRef(v) => ReleaseRef(v) \notin posted
      BY <2>1, <2>2, RefsDiffer DEF UsedRight, Refs
    <3> QED BY <2>1, <2>2, <3>1, RefsDiffer DEF MoneyOf, Refs
  <2>5. ASSUME NEW from, NEW to, MoneyOf(v) = from, MoneyOf(v)' = to
        PROVE  Money!Move(v, from, to)
    <3>1. phase' = [phase EXCEPT ![v] = to]
      BY <2>3, <2>5
    <3> QED BY <2>5, <3>1 DEF Money!Move
  <2> QED BY <2>4, <2>5 DEF Money!Next
<1>3. IsFiniteSet(Withdrawals)
  BY FS_Singleton
<1>4. PoolAsPosted => UsedRight
  BY UsedRightFromPool
<1>5. Spec => [](TypeOK /\ UsedRight)
  BY <1>3, <1>4, PoolHolds, Typed, PTL
<1> QED BY <1>1, <1>2, <1>5, PTL DEF Spec, ImplementsReservation, Money!Spec
=============================================================================
