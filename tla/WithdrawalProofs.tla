-------------------------- MODULE WithdrawalProofs --------------------------
(***************************************************************************)
(* The safety of crypto withdrawals, for any withdrawals, admins, workers  *)
(* and failures.                                                           *)
(***************************************************************************)
EXTENDS Withdrawal, LedgerCallsProofs, FiniteSetTheorems

-----------------------------------------------------------------------------
(* The states of a worker, and the ways it moves between them.             *)
LEMMA WorkerStates ==
    ASSUME TypeOK, NEW k \in Workers
    PROVE  /\ worker[k].at \in {"list", "item"} => worker[k] \in Polling
           /\ worker[k].at \in Handling => worker[k] \in Working
           /\ worker[k].pass \in Passes /\ worker[k].todo \subseteq Items
BY DEF TypeOK, Polling, Working, Handling

LEMMA GoWorkerEffect ==
    ASSUME TypeOK, NEW k \in Workers, NEW x \in Polling \cup Working, GoWorker(k, x)
    PROVE  /\ worker' \in [Workers -> Polling \cup Working]
           /\ worker'[k] = x
           /\ \A j \in Workers \ {k} : worker'[j] = worker[j]
BY DEF GoWorker, TypeOK

LEMMA ContinueEffect ==
    ASSUME TypeOK, NEW k \in Workers, worker[k].at \in Handling,
           NEW at \in Handling \ {"send"}, Continue(k, at)
    PROVE  /\ worker' \in [Workers -> Polling \cup Working]
           /\ worker'[k].at = at /\ worker'[k].item = worker[k].item
           /\ worker'[k].nonce = worker[k].nonce
           /\ worker'[k].todo = worker[k].todo
           /\ worker'[k].pass = worker[k].pass
           /\ \A j \in Workers \ {k} : worker'[j] = worker[j]
<1> DEFINE x == [worker[k] EXCEPT !.at = at]
<1>1. worker[k] \in Working
  BY WorkerStates
<1>2. /\ x \in Working /\ x.at = at /\ x.item = worker[k].item
      /\ x.nonce = worker[k].nonce /\ x.todo = worker[k].todo
      /\ x.pass = worker[k].pass
  BY <1>1 DEF Working
<1>3. GoWorker(k, x)
  BY DEF Continue
<1> HIDE DEF x
<1> QED BY <1>2, <1>3, GoWorkerEffect

LEMMA NextItemEffect ==
    ASSUME TypeOK, NEW k \in Workers, GoWorker(k, NextItem(k)) \/ GoWorker(k, IdleWorker)
    PROVE  /\ worker' \in [Workers -> Polling \cup Working]
           /\ worker'[k].at \in {"list", "item"}
           /\ worker'[k].todo \subseteq worker[k].todo
           /\ worker'[k].todo = {} \/ worker'[k].pass = worker[k].pass
           /\ \A j \in Workers \ {k} : worker'[j] = worker[j]
<1>1. /\ NextItem(k) \in Polling /\ NextItem(k).at = "item"
      /\ NextItem(k).todo = worker[k].todo /\ NextItem(k).pass = worker[k].pass
  BY WorkerStates DEF NextItem, Polling
<1>2. /\ IdleWorker \in Polling /\ IdleWorker.at = "list" /\ IdleWorker.todo = {}
  BY DEF IdleWorker, Polling, Passes
<1>3. CASE GoWorker(k, NextItem(k))
  BY <1>1, <1>3, GoWorkerEffect
<1>4. CASE GoWorker(k, IdleWorker)
  BY <1>2, <1>4, GoWorkerEffect
<1> QED BY <1>3, <1>4

LEMMA TakeEffect ==
    ASSUME TypeOK, NEW k \in Workers, NEW item \in worker[k].todo,
           NEW at \in Handling \ {"send"}, Take(k, item, at)
    PROVE  /\ worker' \in [Workers -> Polling \cup Working]
           /\ worker'[k].at = at /\ worker'[k].item = item /\ item \in Items
           /\ worker'[k].todo = worker[k].todo \ {item}
           /\ worker'[k].pass = worker[k].pass
           /\ \A j \in Workers \ {k} : worker'[j] = worker[j]
<1> DEFINE x == [at |-> at, pass |-> worker[k].pass,
                 todo |-> worker[k].todo \ {item}, item |-> item,
                 nonce |-> NoNonce]
<1>1. /\ x \in Working /\ item \in Items
      /\ x.at = at /\ x.item = item /\ x.todo = worker[k].todo \ {item}
      /\ x.pass = worker[k].pass
  BY WorkerStates DEF Working
<1>2. GoWorker(k, x)
  BY DEF Take
<1> HIDE DEF x
<1> QED BY <1>1, <1>2, GoWorkerEffect

LEMMA SkipEffect ==
    ASSUME TypeOK, NEW k \in Workers, worker[k].at = "item", NEW item, Skip(k, item)
    PROVE  /\ worker' \in [Workers -> Polling \cup Working]
           /\ worker'[k].at = "item"
           /\ worker'[k].todo \subseteq worker[k].todo
           /\ worker'[k].pass = worker[k].pass
           /\ \A j \in Workers \ {k} : worker'[j] = worker[j]
<1> DEFINE x == [worker[k] EXCEPT !.todo = @ \ {item}]
<1>1. worker[k] \in Polling
  BY WorkerStates
<1>2. x \in Polling /\ x.at = "item" /\ x.todo \subseteq worker[k].todo
      /\ x.pass = worker[k].pass
  BY <1>1 DEF Polling
<1>3. GoWorker(k, x)
  BY DEF Skip
<1> HIDE DEF x
<1> QED BY <1>2, <1>3, GoWorkerEffect

(* What a pass lists are the rows as they are.                             *)
LEMMA ListEffect ==
    ASSUME TypeOK, NEW k \in Workers, List(k)
    PROVE  /\ worker' \in [Workers -> Polling \cup Working]
           /\ worker'[k].at = "item"
           /\ \A item \in worker'[k].todo :
                 item \in Items /\ item.seen = row[item.withdrawal]
           /\ worker'[k].pass = "confirm" =>
                 \A item \in worker'[k].todo : OnChain(item.withdrawal)
           /\ \A j \in Workers \ {k} : worker'[j] = worker[j]
<1>1. ASSUME NEW S
      PROVE  /\ Listed(S) \subseteq Items
             /\ \A item \in Listed(S) : /\ item.seen = row[item.withdrawal]
                                       /\ row[item.withdrawal].status \in S
  BY DEF Listed, Items, TypeOK
<1> DEFINE S == IF worker[k].pass = "broadcast" THEN {"APPROVED"}
                ELSE {"BROADCAST", "CONFIRMING"}
           x == [at |-> "item", pass |-> worker[k].pass, todo |-> Listed(S)]
<1>2. x \in Polling /\ x.at = "item" /\ x.todo = Listed(S)
      /\ x.pass = worker[k].pass
  BY <1>1, WorkerStates DEF Polling
<1>3. GoWorker(k, x)
  BY DEF List
<1>4. worker[k].pass = "confirm" => S = {"BROADCAST", "CONFIRMING"}
  OBVIOUS
<1> HIDE DEF x, S
<1> QED BY <1>1, <1>2, <1>3, <1>4, GoWorkerEffect DEF OnChain

-----------------------------------------------------------------------------
(* The columns of a row, and the effects of the statements that write it.  *)
LEMMA RowType ==
    ASSUME TypeOK, NEW w \in Withdrawals
    PROVE  /\ row[w] \in Rows
           /\ row[w].status \in Statuses /\ row[w].hold \in BOOLEAN
           /\ row[w].approvedBy \in Admins \cup {NoAdmin}
           /\ row[w].approvedBy2 \in Admins \cup {NoAdmin}
           /\ row[w].nonce \in Nat \cup {NoNonce}
BY DEF TypeOK, Rows

LEMMA SetEffect ==
    ASSUME TypeOK, NEW w \in Withdrawals, NEW status \in Statuses, Set(w, status)
    PROVE  /\ row' \in [Withdrawals -> Rows]
           /\ row'[w].status = status /\ row'[w].hold = row[w].hold
           /\ row'[w].approvedBy = row[w].approvedBy
           /\ row'[w].approvedBy2 = row[w].approvedBy2
           /\ \A v \in Withdrawals \ {w} : row'[v] = row[v]
<1> DEFINE r == [row[w] EXCEPT !.status = status]
<1>1. row[w] \in Rows
  BY RowType
<1>2. /\ r \in Rows /\ r.status = status /\ r.hold = row[w].hold
      /\ r.approvedBy = row[w].approvedBy /\ r.approvedBy2 = row[w].approvedBy2
  BY <1>1 DEF Rows
<1>3. row' = [row EXCEPT ![w] = r]
  BY DEF Set
<1> HIDE DEF r
<1> QED BY <1>2, <1>3 DEF TypeOK

LEMMA SetHoldEffect ==
    ASSUME TypeOK, NEW w \in Withdrawals, SetHold(w)
    PROVE  /\ row' \in [Withdrawals -> Rows]
           /\ row'[w].status = "PENDING_APPROVAL" /\ row'[w].hold = TRUE
           /\ row'[w].approvedBy = row[w].approvedBy
           /\ row'[w].approvedBy2 = row[w].approvedBy2
           /\ \A v \in Withdrawals \ {w} : row'[v] = row[v]
<1> DEFINE r == [row[w] EXCEPT !.status = "PENDING_APPROVAL", !.hold = TRUE]
<1>1. row[w] \in Rows
  BY RowType
<1>2. /\ r \in Rows /\ r.status = "PENDING_APPROVAL" /\ r.hold = TRUE
      /\ r.approvedBy = row[w].approvedBy /\ r.approvedBy2 = row[w].approvedBy2
  BY <1>1 DEF Rows, Statuses
<1>3. row' = [row EXCEPT ![w] = r]
  BY DEF SetHold, TypeOK
<1> HIDE DEF r
<1> QED BY <1>2, <1>3 DEF TypeOK

LEMMA BroadcastRowEffect ==
    ASSUME TypeOK, NEW k \in Workers, worker[k].at \in Handling, BroadcastRow(k)
    PROVE  /\ row' \in [Withdrawals -> Rows]
           /\ row'[Current(k)].status = "BROADCAST"
           /\ row'[Current(k)].hold = row[Current(k)].hold
           /\ row'[Current(k)].approvedBy = row[Current(k)].approvedBy
           /\ row'[Current(k)].approvedBy2 = row[Current(k)].approvedBy2
           /\ \A v \in Withdrawals \ {Current(k)} : row'[v] = row[v]
<1> DEFINE w == Current(k)
           r == [row[w] EXCEPT !.status = "BROADCAST", !.nonce = worker[k].nonce]
<1>1. worker[k] \in Working
  BY WorkerStates
<1>2. w \in Withdrawals /\ worker[k].nonce \in Nat \cup {NoNonce}
  BY <1>1 DEF Working, Items, Current
<1>3. row[w] \in Rows
  BY <1>2, RowType
<1>4. /\ r \in Rows /\ r.status = "BROADCAST" /\ r.hold = row[w].hold
      /\ r.approvedBy = row[w].approvedBy /\ r.approvedBy2 = row[w].approvedBy2
  BY <1>2, <1>3 DEF Rows, Statuses
<1>5. row' = [row EXCEPT ![w] = r]
  BY <1>2 DEF BroadcastRow, TypeOK
<1> HIDE DEF r
<1> QED BY <1>2, <1>4, <1>5 DEF TypeOK

LEMMA CurrentType ==
    ASSUME TypeOK, NEW k \in Workers, worker[k].at \in Handling
    PROVE  /\ Current(k) \in Withdrawals /\ worker[k].item \in Items
           /\ worker[k].nonce \in Nat \cup {NoNonce}
           /\ worker[k].at = "send" => worker[k].nonce \in Nat
BY WorkerStates DEF Working, Items, Current

LEMMA ReviewType ==
    ASSUME TypeOK, NEW a \in Admins
    PROVE  /\ review[a].at \in {"idle", "approve", "reject", "release"}
           /\ review[a].at # "idle" =>
                 /\ review[a] \in Reviews /\ review[a].withdrawal \in Withdrawals
                 /\ review[a].seen \in Rows
           /\ review[a].at = "idle" => review[a] = IdleReview
BY DEF TypeOK, Reviews, IdleReview

-----------------------------------------------------------------------------
(* The amounts of a withdrawal's postings.                                 *)
LEMMA LinesType ==
    ASSUME Parameters, NEW w \in Withdrawals, NEW lines,
           lines \in {HoldLines(w), ReleaseLines(w), FinalLines(w)}
    PROVE  \A i \in DOMAIN lines : lines[i].direction \in {"DEBIT", "CREDIT"}
                                       /\ lines[i].amount \in Int
<1>1. Amount[w] \in Int /\ Fee \in Int /\ Amount[w] - Fee \in Int
  BY DEF Parameters
<1>2. CASE lines = HoldLines(w)
  BY <1>1, <1>2 DEF HoldLines, Debit, Credit
<1>3. CASE lines = ReleaseLines(w)
  BY <1>1, <1>3 DEF ReleaseLines, Debit, Credit
<1>4. CASE lines = FinalLines(w)
  <2> DEFINE locked == Debit(Locked(Owner, Asset), Amount[w])
             paid == Credit(System("HOT_WALLET", Asset), Amount[w] - Fee)
             fee == Credit(System("FEE_REVENUE", Asset), Fee)
             L == [account : {Locked(Owner, Asset), System("HOT_WALLET", Asset),
                              System("FEE_REVENUE", Asset)},
                   direction : {"DEBIT", "CREDIT"}, amount : Int]
  <2>1. locked \in L /\ paid \in L /\ fee \in L
    BY <1>1 DEF Debit, Credit
  <2>2. lines = <<locked, paid>> \o (IF Fee > 0 THEN <<fee>> ELSE << >>)
    BY <1>4 DEF FinalLines
  <2>3. \A line \in L : line.direction \in {"DEBIT", "CREDIT"} /\ line.amount \in Int
    OBVIOUS
  <2> HIDE DEF locked, paid, fee, L
  <2>4. lines \in Seq(L)
    BY <2>1, <2>2
  <2>5. \A i \in DOMAIN lines : lines[i] \in L
    BY <2>4
  <2> QED BY <2>3, <2>5
<1> QED BY <1>2, <1>3, <1>4

LEMMA TypeInit == ASSUME Parameters, Init PROVE TypeOK
<1>1. balance \in [Accounts -> Int]
  BY DEF Init, Parameters
<1>2. row \in [Withdrawals -> Rows]
  BY DEF Init, NoRow, Rows, Statuses
<1>3. worker \in [Workers -> Polling \cup Working]
  BY DEF Init, IdleWorker, Polling, Passes
<1>4. \A w \in Withdrawals : /\ row[w].approvedBy = NoAdmin
                              /\ row[w].approvedBy2 = NoAdmin
  BY DEF Init, NoRow
<1>5. failures \in 0..MaxFailures
  BY DEF Init, Parameters
<1>6. /\ posted = {} /\ chain = {} /\ nextNonce \in Nat
      /\ frozen \in BOOLEAN /\ allowed \in {"no", "cooling", "usable"}
      /\ request \in [Withdrawals -> {"none", "create", "hold", "bind", "refuse",
                                     "done"}]
      /\ review \in [Admins -> Reviews \cup {IdleReview}]
      /\ approvals \in [Withdrawals -> SUBSET Admins]
  BY DEF Init
<1> QED BY <1>1, <1>2, <1>3, <1>4, <1>5, <1>6 DEF TypeOK
LEMMA Start ==
    ASSUME Init
    PROVE  /\ posted = {} /\ chain = {} /\ failures = 0
           /\ \A k \in Workers : worker[k].at = "list"
           /\ \A a \in Admins : review[a].at = "idle"
           /\ \A w \in Withdrawals :
                 /\ row[w].status = "NONE" /\ row[w].hold = FALSE
                 /\ row[w].approvedBy = NoAdmin /\ row[w].approvedBy2 = NoAdmin
                 /\ request[w] = "none" /\ approvals[w] = {}
BY DEF Init, IdleWorker, IdleReview, NoRow

LEMMA ReviewEffect ==
    ASSUME TypeOK, NEW a \in Admins, NEW r \in Reviews \cup {IdleReview}, GoReview(a, r)
    PROVE  /\ review' \in [Admins -> Reviews \cup {IdleReview}]
           /\ review'[a] = r
           /\ \A b \in Admins \ {a} : review'[b] = review[b]
BY DEF GoReview, TypeOK

(* The rows an accepted review writes.                                     *)
LEMMA ApproveRowEffect ==
    ASSUME TypeOK, Parameters, NEW a \in Admins, NEW w \in Withdrawals,
           review[a].at = "approve", w = review[a].withdrawal, Approvable(a),
           row' = [row EXCEPT ![w] = ApprovedRow(a, row[w])]
    PROVE  /\ row' \in [Withdrawals -> Rows]
           /\ row'[w].status \in {"PENDING_APPROVAL", "APPROVED"}
           /\ row'[w].hold = row[w].hold
           /\ a \in {row'[w].approvedBy, row'[w].approvedBy2}
           /\ row'[w].approvedBy \notin {NoAdmin, row'[w].approvedBy2}
           /\ row[w].approvedBy # NoAdmin => row'[w].approvedBy = row[w].approvedBy
           /\ row[w].approvedBy = NoAdmin => row'[w].approvedBy = a
           /\ row'[w].approvedBy2 # NoAdmin => row'[w].status = "APPROVED"
           /\ Large(w) /\ row'[w].status = "APPROVED" => row'[w].approvedBy2 = a
           /\ \A v \in Withdrawals \ {w} : row'[v] = row[v]
<1> DEFINE r == ApprovedRow(a, row[w])
<1>1. row[w] \in Rows
  BY RowType
<1>2. a # NoAdmin
  BY DEF Parameters
<1>3. CASE isSecond(a)
  <2>1. r = [row[w] EXCEPT !.status = "APPROVED", !.approvedBy2 = a]
    BY <1>3 DEF ApprovedRow
  <2>2. /\ r \in Rows /\ r.status = "APPROVED" /\ r.hold = row[w].hold
        /\ r.approvedBy = row[w].approvedBy /\ r.approvedBy2 = a
    BY <1>1, <2>1 DEF Rows, Statuses
  <2>3. row[w].approvedBy # NoAdmin /\ row[w].approvedBy # a
    BY <1>3 DEF Approvable, isSecond
  <2>4. row' = [row EXCEPT ![w] = r]
    OBVIOUS
  <2> HIDE DEF r
  <2> QED BY <1>2, <2>2, <2>3, <2>4 DEF TypeOK
<1>4. CASE ~isSecond(a)
  <2> DEFINE status == IF Large(w) THEN "PENDING_APPROVAL" ELSE "APPROVED"
  <2>1. r = [row[w] EXCEPT !.status = status, !.approvedBy = a]
    BY <1>4 DEF ApprovedRow
  <2>2. /\ r \in Rows /\ r.status = status /\ r.hold = row[w].hold
        /\ r.approvedBy = a /\ r.approvedBy2 = row[w].approvedBy2
    BY <1>1, <2>1 DEF Rows, Statuses
  <2>3. row[w].approvedBy = NoAdmin
    BY <1>4 DEF Approvable
  <2>4. QED
    BY <1>2, <2>2, <2>3 DEF TypeOK
<1> QED BY <1>3, <1>4

(* The workers' conditional updates of the row they handle.                *)
LEMMA SetConfirmingEffect ==
    ASSUME TypeOK, NEW k \in Workers, SetConfirming(k), NEW w, w = Current(k)
    PROVE  /\ w \in Withdrawals /\ row' \in [Withdrawals -> Rows]
           /\ row'[w].status = IF row[w].status = "BROADCAST" THEN "CONFIRMING"
                              ELSE row[w].status
           /\ row'[w].hold = row[w].hold
           /\ row'[w].approvedBy = row[w].approvedBy
           /\ row'[w].approvedBy2 = row[w].approvedBy2
           /\ \A v \in Withdrawals \ {w} : row'[v] = row[v]
<1> DEFINE r == [row[w] EXCEPT !.status = IF @ = "BROADCAST" THEN "CONFIRMING" ELSE @]
<1>1. w \in Withdrawals
  BY CurrentType DEF SetConfirming, Handling
<1>2. row[w] \in Rows
  BY <1>1, RowType
<1>3. /\ r \in Rows /\ r.hold = row[w].hold
      /\ r.status = IF row[w].status = "BROADCAST" THEN "CONFIRMING" ELSE row[w].status
      /\ r.approvedBy = row[w].approvedBy /\ r.approvedBy2 = row[w].approvedBy2
  BY <1>2 DEF Rows, Statuses
<1>4. row' = [row EXCEPT ![w] = r]
  BY DEF SetConfirming
<1> HIDE DEF r
<1> QED BY <1>1, <1>3, <1>4 DEF TypeOK

LEMMA MarkCompletedEffect ==
    ASSUME TypeOK, NEW k \in Workers, MarkCompleted(k), NEW w, w = Current(k)
    PROVE  /\ w \in Withdrawals /\ row' \in [Withdrawals -> Rows]
           /\ row'[w].status = IF row[w].status \in Completable THEN "COMPLETED"
                              ELSE row[w].status
           /\ row'[w].hold = row[w].hold
           /\ row'[w].approvedBy = row[w].approvedBy
           /\ row'[w].approvedBy2 = row[w].approvedBy2
           /\ \A v \in Withdrawals \ {w} : row'[v] = row[v]
<1> DEFINE r == [row[w] EXCEPT !.status = IF @ \in Completable THEN "COMPLETED" ELSE @]
<1>1. w \in Withdrawals
  BY CurrentType DEF MarkCompleted, Handling
<1>2. row[w] \in Rows
  BY <1>1, RowType
<1>3. /\ r \in Rows /\ r.hold = row[w].hold
      /\ r.status = IF row[w].status \in Completable THEN "COMPLETED" ELSE row[w].status
      /\ r.approvedBy = row[w].approvedBy /\ r.approvedBy2 = row[w].approvedBy2
  BY <1>2 DEF Rows, Statuses
<1>4. row' = [row EXCEPT ![w] = r]
  BY DEF MarkCompleted
<1> HIDE DEF r
<1> QED BY <1>1, <1>3, <1>4 DEF TypeOK

(* A rejection writes the row or finds it past rejecting; then the hold is *)
(* released if the row read had one.                                       *)
LEMMA RejectEffect ==
    ASSUME TypeOK, Parameters, NEW a \in Admins, Reject(a),
           NEW w, w = review[a].withdrawal
    PROVE  /\ w \in Withdrawals /\ review[a].seen \in Rows
           /\ review' \in [Admins -> Reviews \cup {IdleReview}]
           /\ \A b \in Admins \ {a} : review'[b] = review[b]
           /\ \/ UNCHANGED row /\ review'[a] = IdleReview
              \/ /\ row[w].status \in Rejectable
                 /\ row' \in [Withdrawals -> Rows]
                 /\ row'[w].status = "REJECTED" /\ row'[w].hold = row[w].hold
                 /\ row'[w].approvedBy = a
                 /\ row'[w].approvedBy2 = row[w].approvedBy2
                 /\ a \notin {NoAdmin, row[w].approvedBy2}
                 /\ \A v \in Withdrawals \ {w} : row'[v] = row[v]
                 /\ \/ review'[a] = IdleReview
                    \/ /\ review[a].seen.hold /\ review'[a].at = "release"
                       /\ review'[a].withdrawal = w
                       /\ review'[a].seen = review[a].seen
<1> DEFINE x == [review[a] EXCEPT !.at = "release"]
           r == [row[w] EXCEPT !.status = "REJECTED", !.approvedBy = a]
<1>1. review[a] \in Reviews
  BY ReviewType DEF Reject
<1>2. /\ x \in Reviews /\ x.at = "release" /\ x.withdrawal = w
      /\ x.seen = review[a].seen /\ w \in Withdrawals /\ review[a].seen \in Rows
  BY <1>1 DEF Reviews
<1>3. row[w] \in Rows
  BY <1>2, RowType
<1>4. /\ r \in Rows /\ r.status = "REJECTED" /\ r.hold = row[w].hold
      /\ r.approvedBy = a /\ r.approvedBy2 = row[w].approvedBy2
  BY <1>3 DEF Rows, Statuses
<1>5. CASE RejectAllowed(a)
  <2>1. row' = [row EXCEPT ![w].status = "REJECTED", ![w].approvedBy = a]
    BY <1>5 DEF Reject
  <2>2. GoReview(a, IdleReview) \/ (GoReview(a, x) /\ review[a].seen.hold)
    BY <1>5 DEF Reject
  <2>3. row[w].status \in Rejectable /\ a \notin {NoAdmin, row[w].approvedBy2}
    BY <1>5 DEF RejectAllowed, Parameters
  <2>4. /\ row' \in [Withdrawals -> Rows] /\ row'[w] = r
        /\ \A v \in Withdrawals \ {w} : row'[v] = row[v]
    <3>1. row' = [row EXCEPT ![w] = r]
      BY <2>1
    <3> HIDE DEF r
    <3> QED BY <1>2, <1>4, <3>1 DEF TypeOK
  <2> HIDE DEF r, x
  <2>5. /\ review' \in [Admins -> Reviews \cup {IdleReview}]
        /\ review'[a] = IdleReview \/ (review'[a] = x /\ review[a].seen.hold)
        /\ \A b \in Admins \ {a} : review'[b] = review[b]
    BY <1>2, <2>2, ReviewEffect
  <2> QED BY <1>2, <1>4, <2>3, <2>4, <2>5
<1>6. CASE ~RejectAllowed(a)
  BY <1>2, <1>6, ReviewEffect DEF Reject
<1> QED BY <1>5, <1>6

LEMMA EndPassEffect ==
    ASSUME TypeOK, NEW k \in Workers, EndPass(k)
    PROVE  /\ worker' \in [Workers -> Polling \cup Working]
           /\ worker'[k].at = "list" /\ worker'[k].todo = {}
           /\ \A j \in Workers \ {k} : worker'[j] = worker[j]
<1> DEFINE x == [at |-> "list", todo |-> {},
                 pass |-> IF worker[k].pass = "broadcast" THEN "confirm"
                                                          ELSE "broadcast"]
<1>1. x \in Polling /\ x.at = "list" /\ x.todo = {}
  BY DEF Polling, Passes
<1>2. GoWorker(k, x)
  BY DEF EndPass
<1> HIDE DEF x
<1> QED BY <1>1, <1>2, GoWorkerEffect

LEMMA NonceEffect ==
    ASSUME TypeOK, NEW k \in Workers, AllocateNonce(k)
    PROVE  /\ nextNonce' = nextNonce + 1 /\ nextNonce' \in Nat
           /\ worker' \in [Workers -> Polling \cup Working]
           /\ worker'[k].at = "send" /\ worker'[k].nonce = nextNonce
           /\ worker'[k].item = worker[k].item
           /\ worker'[k].todo = worker[k].todo
           /\ worker'[k].pass = worker[k].pass
           /\ \A j \in Workers \ {k} : worker'[j] = worker[j]
<1> DEFINE x == [worker[k] EXCEPT !.at = "send", !.nonce = nextNonce]
<1>1. worker[k] \in Working /\ nextNonce \in Nat
  BY WorkerStates DEF AllocateNonce, Handling, TypeOK
<1>2. /\ x \in Working /\ x.at = "send" /\ x.nonce = nextNonce
      /\ x.item = worker[k].item /\ x.todo = worker[k].todo
      /\ x.pass = worker[k].pass
  BY <1>1 DEF Working, Handling
<1>3. GoWorker(k, x) /\ nextNonce' = nextNonce + 1
  BY DEF AllocateNonce
<1> HIDE DEF x
<1> QED BY <1>1, <1>2, <1>3, GoWorkerEffect

(* What the network does to a transaction: it is replaced by itself with   *)
(* another outcome, which it had not reached before.                       *)
LEMMA DecideEffect ==
    ASSUME TypeOK, NEW w \in Withdrawals, Decide(w)
    PROVE  /\ \E t \in chain, u \in [withdrawal : Withdrawals, nonce : Nat,
                                  state : {"seen", "deep", "failed"}] :
                 /\ t.withdrawal = w /\ t.state \in {"pending", "seen"}
                 /\ u.withdrawal = t.withdrawal /\ u.nonce = t.nonce
                 /\ chain' = (chain \ {t}) \cup {u}
           /\ chain' \subseteq [withdrawal : Withdrawals, nonce : Nat,
                               state : {"pending", "seen", "deep", "failed"}]
           /\ UNCHANGED <<balance, posted, row, request, review, worker,
                          nextNonce, gates, approvals, failures>>
<1>1. PICK t \in chain : t.withdrawal = w /\ (Mine(t) \/ Drop(t))
  BY DEF Decide
<1>2. PICK state \in {"seen", "deep", "failed"} : Become(t, state)
  BY <1>1 DEF Mine, Drop
<1> DEFINE u == [t EXCEPT !.state = state]
<1>3. t \in [withdrawal : Withdrawals, nonce : Nat,
            state : {"pending", "seen", "deep", "failed"}]
  BY DEF TypeOK
<1>4. /\ u \in [withdrawal : Withdrawals, nonce : Nat,
               state : {"seen", "deep", "failed"}]
      /\ u \in [withdrawal : Withdrawals, nonce : Nat,
               state : {"pending", "seen", "deep", "failed"}]
      /\ u.withdrawal = t.withdrawal /\ u.nonce = t.nonce
  BY <1>3
<1>5. chain' = (chain \ {t}) \cup {u} /\ t.state \in {"pending", "seen"}
  BY <1>1, <1>2 DEF Become, Mine, Drop
<1>6. UNCHANGED <<balance, posted, row, request, review, worker, nextNonce,
                  gates, approvals, failures>>
  BY <1>1 DEF Mine, Drop
<1> HIDE DEF u
<1> QED BY <1>1, <1>4, <1>5, <1>6 DEF TypeOK

(* Every step keeps the types.                                             *)
LEMMA TypeStep == ASSUME Parameters, TypeOK, [Next]_vars PROVE TypeOK'
<1>1. ASSUME NEW w \in Withdrawals, CheckRequest(w) PROVE TypeOK'
  BY <1>1 DEF CheckRequest, GoRequest, gates, TypeOK
<1>2. ASSUME NEW w \in Withdrawals, CreateWithdrawal(w) PROVE TypeOK'
  BY <1>2, SetEffect DEF CreateWithdrawal, GoRequest, gates, TypeOK, Statuses
<1>3. ASSUME NEW w \in Withdrawals, PlaceHold(w) PROVE TypeOK'
  <2>1. balance' \in [Accounts -> Int]
    BY <1>3, LinesType, PostType DEF PlaceHold, ledger, TypeOK
  <2>2. posted' \subseteq {"HOLD", "RELEASE", "FINAL"} \X Withdrawals
    BY <1>3, PostEffect DEF PlaceHold, ledger, TypeOK, HoldRef
  <2> QED BY <1>3, <2>1, <2>2 DEF PlaceHold, GoRequest, gates, TypeOK
<1>4. ASSUME NEW w \in Withdrawals, SetHold(w) PROVE TypeOK'
  <2>1. row' \in [Withdrawals -> Rows]
    BY <1>4, SetHoldEffect
  <2> QED BY <1>4, <2>1 DEF SetHold, GoRequest, gates, TypeOK
<1>5. ASSUME NEW w \in Withdrawals, MarkRequestFailed(w) PROVE TypeOK'
  BY <1>5, SetEffect DEF MarkRequestFailed, GoRequest, gates, TypeOK, Statuses
<1>6. ASSUME NEW w \in Withdrawals, RequestLost(w) PROVE TypeOK'
  BY <1>6 DEF RequestLost, Failure, GoRequest, gates, TypeOK, Parameters
<1>7. ASSUME NEW a \in Admins, NEW w \in Withdrawals, NEW kind \in {"approve", "reject"},
             OpenReview(a, w, kind)
      PROVE  TypeOK'
  <2> DEFINE r == [at |-> kind, withdrawal |-> w, seen |-> row[w]]
  <2>1. r \in Reviews
    BY RowType DEF Reviews
  <2>2. GoReview(a, r)
    BY <1>7 DEF OpenReview
  <2> HIDE DEF r
  <2> QED BY <1>7, <2>1, <2>2, ReviewEffect DEF OpenReview, gates, TypeOK
<1>8. ASSUME NEW a \in Admins, Approve(a) PROVE TypeOK'
  <2> DEFINE w == review[a].withdrawal
  <2>1. w \in Withdrawals /\ review' \in [Admins -> Reviews \cup {IdleReview}]
    BY <1>8, ReviewType, ReviewEffect DEF Approve
  <2>2. CASE UNCHANGED <<row, approvals>>
    BY <1>8, <2>1, <2>2 DEF Approve, gates, TypeOK
  <2>3. CASE ~UNCHANGED <<row, approvals>>
    <3>1. /\ review[a].at = "approve" /\ Approvable(a)
          /\ row' = [row EXCEPT ![w] = ApprovedRow(a, row[w])]
          /\ approvals' = [approvals EXCEPT ![w] = @ \cup {a}]
      BY <1>8, <2>3 DEF Approve
    <3>2. approvals' \in [Withdrawals -> SUBSET Admins]
      BY <2>1, <3>1 DEF TypeOK
    <3> HIDE DEF w
    <3> QED BY <1>8, <2>1, <3>1, <3>2, ApproveRowEffect DEF w, Approve, gates, TypeOK
  <2> QED BY <2>2, <2>3
<1>9. ASSUME NEW a \in Admins, Reject(a) PROVE TypeOK'
  <2>1. review' \in [Admins -> Reviews \cup {IdleReview}]
    BY <1>9, RejectEffect
  <2>2. row' \in [Withdrawals -> Rows]
    BY <1>9, RejectEffect DEF TypeOK
  <2>3. UNCHANGED <<balance, posted, request, worker, nextNonce, chain, gates,
                    approvals, failures>>
    BY <1>9 DEF Reject
  <2>4. \A w \in Withdrawals :
           \/ row'[w].approvedBy = NoAdmin /\ row'[w].approvedBy2 = NoAdmin
           \/ row'[w].approvedBy \notin {NoAdmin, row'[w].approvedBy2}
    BY <1>9, RejectEffect DEF TypeOK
  <2> QED BY <2>1, <2>2, <2>3, <2>4 DEF gates, TypeOK
<1>10. ASSUME NEW a \in Admins, ReleaseRejected(a) PROVE TypeOK'
  <2> DEFINE w == review[a].withdrawal
  <2>1. w \in Withdrawals /\ review' \in [Admins -> Reviews \cup {IdleReview}]
    BY <1>10, ReviewType, ReviewEffect DEF ReleaseRejected
  <2>2. balance' \in [Accounts -> Int]
    BY <1>10, <2>1, LinesType, PostType DEF ReleaseRejected, releaseHold, ledger, TypeOK
  <2>3. posted' \subseteq {"HOLD", "RELEASE", "FINAL"} \X Withdrawals
    BY <1>10, <2>1, PostEffect DEF ReleaseRejected, releaseHold, ledger, TypeOK, ReleaseRef
  <2> QED BY <1>10, <2>1, <2>2, <2>3 DEF ReleaseRejected, gates, TypeOK
<1>11. ASSUME NEW a \in Admins, ReviewLost(a) PROVE TypeOK'
  BY <1>11, ReviewEffect DEF ReviewLost, Failure, gates, TypeOK, Parameters
<1>12. ASSUME NEW k \in Workers, List(k) PROVE TypeOK'
  BY <1>12, ListEffect DEF List, gates, TypeOK
<1>13. ASSUME NEW k \in Workers, EndPass(k) PROVE TypeOK'
  BY <1>13, EndPassEffect DEF EndPass, gates, TypeOK
<1>14. ASSUME NEW k \in Workers, NEW item \in worker[k].todo, Claim(k, item) PROVE TypeOK'
  <2>1. item.withdrawal \in Withdrawals
    BY WorkerStates DEF Items
  <2>2. CASE Claimable(item) /\ Set(item.withdrawal, "SIGNING") /\ Take(k, item, "nonce")
    BY <1>14, <2>1, <2>2, TakeEffect, SetEffect DEF Claim, gates, TypeOK, Statuses, Handling
  <2>3. CASE Skip(k, item) /\ UNCHANGED row
    BY <1>14, <2>3, SkipEffect DEF Claim, gates, TypeOK
  <2> QED BY <1>14, <2>2, <2>3 DEF Claim
<1>15. ASSUME NEW k \in Workers, NEW item \in worker[k].todo, Poll(k, item) PROVE TypeOK'
  <2>1. worker' \in [Workers -> Polling \cup Working]
    <3>1. \/ \E at \in {"fail", "final", "promote"} : Take(k, item, at)
          \/ Skip(k, item)
      BY <1>15 DEF Poll
    <3>2. worker[k].at = "item" /\ {"fail", "final", "promote"} \subseteq Handling \ {"send"}
      BY <1>15 DEF Poll, Handling
    <3> QED BY <3>1, <3>2, TakeEffect, SkipEffect
  <2> QED BY <1>15, <2>1 DEF Poll, gates, TypeOK
<1>16. ASSUME NEW k \in Workers, AllocateNonce(k) PROVE TypeOK'
  BY <1>16, NonceEffect DEF AllocateNonce, gates, TypeOK
<1>17. ASSUME NEW k \in Workers, Broadcast(k) PROVE TypeOK'
  <2>1. worker' \in [Workers -> Polling \cup Working]
    BY <1>17, ContinueEffect DEF Broadcast, Handling
  <2>2. chain' \subseteq [withdrawal : Withdrawals, nonce : Nat,
                         state : {"pending", "seen", "deep", "failed"}]
    BY <1>17, CurrentType DEF Broadcast, Handling, TypeOK
  <2> QED BY <1>17, <2>1, <2>2 DEF Broadcast, gates, TypeOK
<1>18. ASSUME NEW k \in Workers, SetBroadcast(k) PROVE TypeOK'
  BY <1>18, CurrentType, BroadcastRowEffect, NextItemEffect DEF SetBroadcast, gates, TypeOK, Handling
<1>19. ASSUME NEW k \in Workers, SetConfirming(k) PROVE TypeOK'
  <2>1. worker' \in [Workers -> Polling \cup Working]
    BY <1>19, NextItemEffect DEF SetConfirming
  <2>2. /\ row' \in [Withdrawals -> Rows]
        /\ \A w \in Withdrawals : /\ row'[w].approvedBy = row[w].approvedBy
                                 /\ row'[w].approvedBy2 = row[w].approvedBy2
    BY <1>19, SetConfirmingEffect
  <2> QED BY <1>19, <2>1, <2>2 DEF SetConfirming, gates, TypeOK
<1>20. ASSUME NEW k \in Workers, FinalizeLedger(k) PROVE TypeOK'
  <2>1. Current(k) \in Withdrawals
    BY <1>20, CurrentType DEF FinalizeLedger, Handling
  <2>2. worker' \in [Workers -> Polling \cup Working]
    BY <1>20, ContinueEffect, NextItemEffect DEF FinalizeLedger, Handling
  <2>3. balance' \in [Accounts -> Int]
    BY <1>20, <2>1, LinesType, PostType DEF FinalizeLedger, ledger, TypeOK
  <2>4. posted' \subseteq {"HOLD", "RELEASE", "FINAL"} \X Withdrawals
    BY <1>20, <2>1, PostEffect DEF FinalizeLedger, ledger, TypeOK, FinalRef
  <2> QED BY <1>20, <2>2, <2>3, <2>4 DEF FinalizeLedger, gates, TypeOK
<1>21. ASSUME NEW k \in Workers, MarkCompleted(k) PROVE TypeOK'
  <2>1. worker' \in [Workers -> Polling \cup Working]
    BY <1>21, NextItemEffect DEF MarkCompleted
  <2>2. /\ row' \in [Withdrawals -> Rows]
        /\ \A w \in Withdrawals : /\ row'[w].approvedBy = row[w].approvedBy
                                 /\ row'[w].approvedBy2 = row[w].approvedBy2
    BY <1>21, MarkCompletedEffect
  <2> QED BY <1>21, <2>1, <2>2 DEF MarkCompleted, gates, TypeOK
<1>22. ASSUME NEW k \in Workers, MarkFailed(k) PROVE TypeOK'
  <2>1. Current(k) \in Withdrawals /\ worker[k].at \in Handling
    BY <1>22, CurrentType DEF MarkFailed, Handling
  <2>2. worker' \in [Workers -> Polling \cup Working]
    BY <1>22, <2>1, ContinueEffect, NextItemEffect DEF MarkFailed, Handling
  <2> QED BY <1>22, <2>1, <2>2, SetEffect DEF MarkFailed, gates, TypeOK, Statuses
<1>23. ASSUME NEW k \in Workers, ReleaseFailed(k) PROVE TypeOK'
  <2>1. Current(k) \in Withdrawals
    BY <1>23, CurrentType DEF ReleaseFailed, Handling
  <2>2. worker' \in [Workers -> Polling \cup Working]
    BY <1>23, NextItemEffect DEF ReleaseFailed
  <2>3. balance' \in [Accounts -> Int]
    BY <1>23, <2>1, LinesType, PostType DEF ReleaseFailed, ledger, TypeOK
  <2>4. posted' \subseteq {"HOLD", "RELEASE", "FINAL"} \X Withdrawals
    BY <1>23, <2>1, PostEffect DEF ReleaseFailed, ledger, TypeOK, ReleaseRef
  <2> QED BY <1>23, <2>2, <2>3, <2>4 DEF ReleaseFailed, gates, TypeOK
<1>24. ASSUME NEW k \in Workers, BroadcastError(k) PROVE TypeOK'
  <2>1. worker[k].at \in Handling
    BY <1>24 DEF BroadcastError, Handling
  <2>2. worker' \in [Workers -> Polling \cup Working]
    BY <1>24, <2>1, ContinueEffect DEF BroadcastError, Handling
  <2>3. CASE UNCHANGED row
    BY <1>24, <2>2, <2>3 DEF BroadcastError, Failure, gates, TypeOK, Parameters
  <2>4. CASE BroadcastRow(k)
    BY <1>24, <2>1, <2>2, <2>4, CurrentType, BroadcastRowEffect
    DEF BroadcastError, Failure, gates, TypeOK, Parameters
  <2> QED BY <1>24, <2>3, <2>4 DEF BroadcastError
<1>25. ASSUME NEW k \in Workers, WorkerLost(k) PROVE TypeOK'
  BY <1>25, NextItemEffect DEF WorkerLost, Failure, gates, TypeOK, Parameters
<1>26. ASSUME NEW w \in Withdrawals, Decide(w) PROVE TypeOK'
  BY <1>26, DecideEffect DEF gates, TypeOK
<1>27. ASSUME Freeze \/ AddAddress \/ CoolingOffEnds PROVE TypeOK'
  BY <1>27 DEF Freeze, AddAddress, CoolingOffEnds, TypeOK
<1>28. ASSUME UNCHANGED vars PROVE TypeOK'
  BY <1>28 DEF vars, gates, TypeOK
<1> QED
  BY <1>1, <1>2, <1>3, <1>4, <1>5, <1>6, <1>7, <1>8, <1>9, <1>10,
     <1>11, <1>12, <1>13, <1>14, <1>15, <1>16, <1>17, <1>18, <1>19,
     <1>20, <1>21, <1>22, <1>23, <1>24, <1>25, <1>26, <1>27, <1>28
  DEF Next, RequestStep, ReviewStep, WorkerStep

(* Every variable keeps its type, whatever the withdrawals, the admins, the *)
(* workers and the failures: requestWithdrawal, withdrawal-review and       *)
(* withdrawal-executor only ever store what the columns may hold.           *)
THEOREM TypeCorrect == ASSUME Parameters PROVE Spec => []TypeOK
<1>1. Init => TypeOK
  BY TypeInit
<1>2. TypeOK /\ [Next]_vars => TypeOK'
  BY TypeStep
<1> QED BY <1>1, <1>2, PTL DEF Spec

-----------------------------------------------------------------------------
(* A worker that writes another taken status and moves on keeps the claims. *)
LEMMA TakenRow ==
    ASSUME TypeOK, Claims, NEW k \in Workers, NEW w, w = Current(k),
           w \in Withdrawals, UNCHANGED <<request, chain>>, row[w].status \in Taken,
           \/ UNCHANGED row
           \/ row'[w].status \in Taken /\ \A v \in Withdrawals \ {w} : row'[v] = row[v],
           \/ worker'[k].at \in {"list", "item"}
           \/ /\ worker'[k].at \in {"fail", "release"}
              /\ worker'[k].item = worker[k].item
              /\ Handles(k),
           \A j \in Workers \ {k} : worker'[j] = worker[j]
    PROVE  Claims'
<1> USE DEF Handles, Signs, Current, Handling
<1>1. row'[w].status \in Taken /\ \A v \in Withdrawals \ {w} : row'[v] = row[v]
  OBVIOUS
<1>2. \A j \in Workers : Handles(j)' => row'[Current(j)'].status \in Taken
  BY <1>1, CurrentType DEF Claims
<1>3. \A t \in chain' : row'[t.withdrawal].status \in Taken
  BY <1>1 DEF Claims, TypeOK
<1>4. \A j, i \in Workers :
         Signs(j)' /\ Handles(i)' /\ Current(i)' = Current(j)' => i = j
  BY DEF Claims
<1>5. \A j \in Workers, t \in chain' : Signs(j)' => t.withdrawal # Current(j)'
  BY DEF Claims
<1>6. \A v \in Withdrawals : request'[v] # "done" =>
         row'[v].status \in {"NONE", "REQUESTED", "REJECTED"}
  BY <1>1 DEF Claims, Taken
<1> QED BY <1>2, <1>3, <1>4, <1>5, <1>6 DEF Claims

(* So does one that writes a row nobody took.                              *)
LEMMA UntakenRow ==
    ASSUME TypeOK, Claims, NEW w \in Withdrawals, row[w].status \notin Taken,
           UNCHANGED <<worker, chain>>,
           \A v \in Withdrawals \ {w} :
               row'[v] = row[v] /\ request'[v] = request[v],
           request'[w] # "done" =>
               row'[w].status \in {"NONE", "REQUESTED", "REJECTED"}
    PROVE  Claims'
<1>1. \A k \in Workers : Handles(k) => Current(k) # w
  BY DEF Claims
<1>2. \A k \in Workers : Handles(k)' => row'[Current(k)'].status \in Taken
  BY <1>1, CurrentType DEF Claims, Handles, Current
<1>3. \A t \in chain' : row'[t.withdrawal].status \in Taken
  BY DEF Claims, TypeOK
<1>4. \A v \in Withdrawals : request'[v] # "done" =>
         row'[v].status \in {"NONE", "REQUESTED", "REJECTED"}
  BY DEF Claims
<1> QED BY <1>2, <1>3, <1>4 DEF Claims, Handles, Signs, Current

(* Every step keeps the claims exclusive.                                  *)
LEMMA ClaimsStep ==
    ASSUME Parameters, TypeOK, Claims, [Next]_vars
    PROVE  Claims'
<1>1. ASSUME NEW w \in Withdrawals, CheckRequest(w) PROVE Claims'
  BY <1>1
  DEF GoRequest, TypeOK, CheckRequest, Claims, Handles, Signs, Current,
      Handling, Taken
<1>2. ASSUME NEW w \in Withdrawals, CreateWithdrawal(w) PROVE Claims'
  <2>1. /\ request[w] # "done" /\ UNCHANGED <<worker, chain>>
        /\ \A v \in Withdrawals \ {w} : row'[v] = row[v] /\ request'[v] = request[v]
        /\ request'[w] # "done" => row'[w].status \in {"NONE", "REQUESTED", "REJECTED"}
    BY <1>2, SetEffect DEF CreateWithdrawal, GoRequest, TypeOK, Statuses
  <2>2. row[w].status \notin Taken
    BY <2>1 DEF Claims, Taken
  <2> QED BY <2>1, <2>2, UntakenRow
<1>3. ASSUME NEW w \in Withdrawals, PlaceHold(w) PROVE Claims'
  BY <1>3
  DEF GoRequest, TypeOK, PlaceHold, Claims, Handles, Signs, Current, Handling,
      Taken
<1>4. ASSUME NEW w \in Withdrawals, SetHold(w) PROVE Claims'
  <2>1. /\ request[w] # "done" /\ UNCHANGED <<worker, chain>>
        /\ \A v \in Withdrawals \ {w} : row'[v] = row[v] /\ request'[v] = request[v]
        /\ request'[w] # "done" => row'[w].status \in {"NONE", "REQUESTED", "REJECTED"}
    BY <1>4, SetHoldEffect DEF SetHold, GoRequest, TypeOK, Statuses
  <2>2. row[w].status \notin Taken
    BY <2>1 DEF Claims, Taken
  <2> QED BY <2>1, <2>2, UntakenRow
<1>5. ASSUME NEW w \in Withdrawals, MarkRequestFailed(w) PROVE Claims'
  <2>1. /\ request[w] # "done" /\ UNCHANGED <<worker, chain>>
        /\ \A v \in Withdrawals \ {w} : row'[v] = row[v] /\ request'[v] = request[v]
        /\ request'[w] # "done" => row'[w].status \in {"NONE", "REQUESTED", "REJECTED"}
    BY <1>5, SetEffect DEF MarkRequestFailed, GoRequest, TypeOK, Statuses
  <2>2. row[w].status \notin Taken
    BY <2>1 DEF Claims, Taken
  <2> QED BY <2>1, <2>2, UntakenRow
<1>6. ASSUME NEW w \in Withdrawals, RequestLost(w) PROVE Claims'
  BY <1>6
  DEF GoRequest, TypeOK, RequestLost, Claims, Handles, Signs, Current,
      Handling, Taken
<1>7. ASSUME NEW a \in Admins, Approve(a) PROVE Claims'
  <2> DEFINE w == review[a].withdrawal
  <2>1. w \in Withdrawals /\ UNCHANGED <<request, worker, chain>>
    BY <1>7, ReviewType DEF Approve
  <2>2. CASE UNCHANGED row
    BY <2>1, <2>2 DEF Claims, Handles, Signs, Current
  <2>3. CASE Approvable(a) /\ row' = [row EXCEPT ![w] = ApprovedRow(a, row[w])]
    <3>1. /\ row[w].status \notin Taken /\ request[w] = "done"
          /\ \A v \in Withdrawals \ {w} : row'[v] = row[v]
      <4>1. row[w].status = "PENDING_APPROVAL"
        BY <2>3 DEF Approvable
      <4> QED BY <1>7, <2>1, <2>3, <4>1, ApproveRowEffect DEF Approve, Claims, Taken
    <3> HIDE DEF w
    <3> QED BY <2>1, <3>1, CurrentType DEF Claims, Handles, Signs, Current, TypeOK
  <2> QED BY <1>7, <2>2, <2>3 DEF Approve
<1>8. ASSUME NEW a \in Admins, Reject(a) PROVE Claims'
  <2> DEFINE w == review[a].withdrawal
  <2>1. UNCHANGED <<request, worker, chain>>
    BY <1>8 DEF Reject
  <2>2. \/ UNCHANGED row
        \/ /\ w \in Withdrawals /\ row[w].status \notin Taken
           /\ row'[w].status = "REJECTED"
           /\ \A v \in Withdrawals \ {w} : row'[v] = row[v]
    BY <1>8, RejectEffect DEF Rejectable, Taken
  <2> HIDE DEF w
  <2> QED BY <2>1, <2>2, CurrentType DEF Claims, Handles, Signs, Current, TypeOK
<1>9. ASSUME NEW k \in Workers, List(k) PROVE Claims'
  BY <1>9, ListEffect
  DEF List, Claims, Handles, Signs, Current, Handling, Taken
<1>10. ASSUME NEW k \in Workers, EndPass(k) PROVE Claims'
  BY <1>10, EndPassEffect
  DEF EndPass, Claims, Handles, Signs, Current, Handling, Taken
<1>11. ASSUME NEW k \in Workers, NEW item \in worker[k].todo, Claim(k, item)
      PROVE  Claims'
  <2> DEFINE w == item.withdrawal
  <2>1. w \in Withdrawals
    BY WorkerStates DEF Items
  <2>2. CASE Skip(k, item) /\ UNCHANGED row
    BY <1>11, <2>2, SkipEffect DEF Claim, Claims, Handles, Signs, Current, Handling
  <2>3. CASE Claimable(item) /\ Set(w, "SIGNING") /\ Take(k, item, "nonce")
    <3>1. /\ worker'[k].at = "nonce" /\ worker'[k].item = item
          /\ \A j \in Workers \ {k} : worker'[j] = worker[j]
      BY <2>3, TakeEffect DEF Handling
    <3>2. /\ row'[w].status = "SIGNING"
          /\ \A v \in Withdrawals \ {w} : row'[v] = row[v]
      BY <2>1, <2>3, SetEffect DEF Statuses
    <3>3. row[w].status = "APPROVED" /\ UNCHANGED <<request, chain>>
      BY <1>11, <2>3 DEF Claim, Claimable
    <3>4. /\ \A j \in Workers : Handles(j) => Current(j) # w
          /\ \A t \in chain : t.withdrawal # w
          /\ request[w] = "done"
      BY <2>1, <3>3 DEF Claims, Taken
    <3> HIDE DEF w
    <3> USE DEF Handles, Signs, Current, Handling
    <3>5. \A j \in Workers : Handles(j)' => row'[Current(j)'].status \in Taken
      BY <2>1, <3>1, <3>2, <3>4, CurrentType DEF Claims, Taken, w
    <3>6. \A t \in chain' : row'[t.withdrawal].status \in Taken
      BY <3>2, <3>3, <3>4 DEF Claims, TypeOK
    <3>7. \A j, i \in Workers :
             Signs(j)' /\ Handles(i)' /\ Current(i)' = Current(j)' => i = j
      BY <3>1, <3>4 DEF Claims, w
    <3>8. \A j \in Workers, t \in chain' : Signs(j)' => t.withdrawal # Current(j)'
      BY <3>1, <3>3, <3>4 DEF Claims, w
    <3>9. \A v \in Withdrawals : request'[v] # "done" =>
             row'[v].status \in {"NONE", "REQUESTED", "REJECTED"}
      BY <3>2, <3>3, <3>4 DEF Claims
    <3> QED BY <3>5, <3>6, <3>7, <3>8, <3>9 DEF Claims
  <2> QED BY <1>11, <2>2, <2>3 DEF Claim
<1>12. ASSUME NEW k \in Workers, NEW item \in worker[k].todo, Poll(k, item)
      PROVE  Claims'
  <2>1. CASE Skip(k, item)
    BY <1>12, <2>1, SkipEffect DEF Poll, Claims, Handles, Signs, Current, Handling
  <2>2. CASE \E at \in {"fail", "final", "promote"} : Take(k, item, at)
    <3>1. PICK at \in {"fail", "final", "promote"} : Take(k, item, at)
      BY <2>2
    <3>2. /\ worker'[k].at = at /\ worker'[k].item = item
          /\ \A j \in Workers \ {k} : worker'[j] = worker[j]
      BY <3>1, TakeEffect DEF Handling
    <3>3. /\ \E t \in chain : t.withdrawal = item.withdrawal
          /\ UNCHANGED <<row, request, chain>>
      BY <1>12 DEF Poll, Sent
    <3> QED BY <3>2, <3>3 DEF Claims, Handles, Signs, Current, Handling
  <2> QED BY <1>12, <2>1, <2>2 DEF Poll
<1>13. ASSUME NEW k \in Workers, AllocateNonce(k) PROVE Claims'
  <2>1. /\ worker[k].at = "nonce" /\ worker'[k].at = "send"
        /\ UNCHANGED <<row, request, chain>>
        /\ \A j \in Workers : worker'[j].item = worker[j].item
        /\ \A j \in Workers \ {k} : worker'[j] = worker[j]
    BY <1>13, NonceEffect DEF AllocateNonce
  <2>2. \A j \in Workers : /\ Handles(j)' = Handles(j) /\ Signs(j)' = Signs(j)
                           /\ Current(j)' = Current(j)
    BY <2>1 DEF Handles, Signs, Current, Handling
  <2> QED BY <2>1, <2>2 DEF Claims
<1>14. ASSUME NEW k \in Workers, Broadcast(k) PROVE Claims'
  <2> DEFINE w == Current(k)
             t == [withdrawal |-> w, nonce |-> worker[k].nonce, state |-> "pending"]
  <2>1. /\ worker[k].at = "send" /\ chain' = chain \cup {t} /\ t.withdrawal = w
        /\ UNCHANGED <<row, request>>
    BY <1>14 DEF Broadcast
  <2>2. /\ worker'[k].at = "record" /\ worker'[k].item = worker[k].item
        /\ \A j \in Workers \ {k} : worker'[j] = worker[j]
    BY <1>14, ContinueEffect DEF Broadcast, Handling
  <2>3. row[w].status \in Taken
    BY <2>1 DEF Claims, Handles, Handling
  <2>4. \A j \in Workers \ {k} : Signs(j) => Current(j) # w
    BY <2>1 DEF Claims, Handles, Signs, Handling
  <2> HIDE DEF w, t
  <2> QED BY <2>1, <2>2, <2>3, <2>4 DEF Claims, Handles, Signs, Current, Handling
<1>15. ASSUME NEW k \in Workers, SetBroadcast(k) PROVE Claims'
  <2> DEFINE w == Current(k)
  <2>1. /\ w \in Withdrawals /\ row[w].status \in Taken /\ row'[w].status \in Taken
        /\ \A v \in Withdrawals \ {w} : row'[v] = row[v]
    BY <1>15, CurrentType, BroadcastRowEffect DEF SetBroadcast, Claims, Handles, Handling, Taken
  <2>2. /\ worker'[k].at \in {"list", "item"}
        /\ \A j \in Workers \ {k} : worker'[j] = worker[j]
        /\ UNCHANGED <<request, chain>>
    BY <1>15, NextItemEffect DEF SetBroadcast
  <2> QED BY <1>15, <2>1, <2>2, TakenRow DEF w, SetBroadcast, Handles, Handling
<1>16. ASSUME NEW k \in Workers, SetConfirming(k) PROVE Claims'
  <2> DEFINE w == Current(k)
  <2>1. /\ w \in Withdrawals /\ row[w].status \in Taken /\ row'[w].status \in Taken
        /\ \A v \in Withdrawals \ {w} : row'[v] = row[v]
    BY <1>16, CurrentType, SetConfirmingEffect DEF SetConfirming, Claims, Handles, Handling, Taken
  <2>2. /\ worker'[k].at \in {"list", "item"}
        /\ \A j \in Workers \ {k} : worker'[j] = worker[j]
        /\ UNCHANGED <<request, chain>>
    BY <1>16, NextItemEffect DEF SetConfirming
  <2> QED BY <1>16, <2>1, <2>2, TakenRow DEF w, SetConfirming, Handles, Handling
<1>17. ASSUME NEW k \in Workers, FinalizeLedger(k) PROVE Claims'
  BY <1>17, ContinueEffect, NextItemEffect
  DEF FinalizeLedger, Claims, Handles, Signs, Current, Handling, Taken
<1>18. ASSUME NEW k \in Workers, MarkCompleted(k) PROVE Claims'
  <2> DEFINE w == Current(k)
  <2>1. /\ w \in Withdrawals /\ row[w].status \in Taken /\ row'[w].status \in Taken
        /\ \A v \in Withdrawals \ {w} : row'[v] = row[v]
    BY <1>18, CurrentType, MarkCompletedEffect DEF MarkCompleted, Claims, Handles, Handling, Taken
  <2>2. /\ worker'[k].at \in {"list", "item"}
        /\ \A j \in Workers \ {k} : worker'[j] = worker[j]
        /\ UNCHANGED <<request, chain>>
    BY <1>18, NextItemEffect DEF MarkCompleted
  <2> QED BY <1>18, <2>1, <2>2, TakenRow DEF w, MarkCompleted, Handles, Handling
<1>19. ASSUME NEW k \in Workers, MarkFailed(k) PROVE Claims'
  <2> DEFINE w == Current(k)
  <2>1. /\ w \in Withdrawals /\ row[w].status \in Taken /\ worker[k].at = "fail"
        /\ UNCHANGED <<request, chain>>
    BY <1>19, CurrentType DEF MarkFailed, Claims, Handles, Handling
  <2>2. \/ UNCHANGED row
        \/ row'[w].status \in Taken /\ \A v \in Withdrawals \ {w} : row'[v] = row[v]
    BY <1>19, <2>1, SetEffect DEF MarkFailed, Taken, Statuses
  <2>3. /\ \/ worker'[k].at \in {"list", "item"}
           \/ worker'[k].at = "release" /\ worker'[k].item = worker[k].item
        /\ \A j \in Workers \ {k} : worker'[j] = worker[j]
    BY <1>19, <2>1, NextItemEffect, ContinueEffect DEF MarkFailed, Handling
  <2> QED BY <1>19, <2>1, <2>2, <2>3, TakenRow DEF w, Handles, Handling
<1>20. ASSUME NEW k \in Workers, ReleaseFailed(k) PROVE Claims'
  BY <1>20, NextItemEffect
  DEF ReleaseFailed, Claims, Handles, Signs, Current, Handling, Taken
<1>21. ASSUME NEW k \in Workers, BroadcastError(k) PROVE Claims'
  <2> DEFINE w == Current(k)
  <2>1. /\ w \in Withdrawals /\ row[w].status \in Taken /\ worker[k].at \in Handling
        /\ UNCHANGED <<request, chain>>
    BY <1>21, CurrentType DEF BroadcastError, Claims, Handles, Handling
  <2>2. \/ UNCHANGED row
        \/ row'[w].status \in Taken /\ \A v \in Withdrawals \ {w} : row'[v] = row[v]
    BY <1>21, <2>1, BroadcastRowEffect DEF BroadcastError, Taken
  <2>3. /\ worker'[k].at = "fail" /\ worker'[k].item = worker[k].item
        /\ \A j \in Workers \ {k} : worker'[j] = worker[j]
    BY <1>21, <2>1, ContinueEffect DEF BroadcastError, Handling
  <2> QED BY <1>21, <2>1, <2>2, <2>3, TakenRow DEF w, Handles, Handling
<1>22. ASSUME NEW k \in Workers, WorkerLost(k) PROVE Claims'
  BY <1>22, NextItemEffect
  DEF WorkerLost, Claims, Handles, Signs, Current, Handling, Taken
<1>23. ASSUME NEW w \in Withdrawals, Decide(w) PROVE Claims'
  <2>1. /\ UNCHANGED <<row, request, worker>>
        /\ \A t \in chain' : \E u \in chain : u.withdrawal = t.withdrawal
    BY <1>23, DecideEffect
  <2> QED BY <2>1 DEF Claims, Handles, Signs, Current
<1>24. ASSUME \/ \E a \in Admins : ReleaseRejected(a) \/ ReviewLost(a)
              \/ \E a \in Admins, w \in Withdrawals, kind \in {"approve", "reject"} :
                   OpenReview(a, w, kind)
              \/ Freeze \/ AddAddress \/ CoolingOffEnds
              \/ UNCHANGED vars
      PROVE  Claims'
  <2>1. UNCHANGED <<row, request, worker, chain>>
    BY <1>24 DEF Freeze, AddAddress, CoolingOffEnds, vars, gates, OpenReview,
                 ReleaseRejected, ReviewLost
  <2> QED BY <2>1 DEF Claims, Handles, Signs, Current
<1> QED
  BY <1>1, <1>2, <1>3, <1>4, <1>5, <1>6, <1>7, <1>8, <1>9, <1>10, <1>11,
     <1>12, <1>13, <1>14, <1>15, <1>16, <1>17, <1>18, <1>19, <1>20, <1>21,
     <1>22, <1>23, <1>24 DEF Next, RequestStep, ReviewStep, WorkerStep

-----------------------------------------------------------------------------
(* A nonce is handed out once, and so is a withdrawal sent.              *)
LEMMA KeepsNonces ==
    ASSUME Nonces, SentOnce, NEW k \in Workers, UNCHANGED <<nextNonce, chain>>,
           worker'[k].at # "send",
           \A j \in Workers \ {k} : worker'[j] = worker[j]
    PROVE  Nonces' /\ SentOnce'
BY DEF Nonces, SentOnce

LEMMA NoncesStep ==
    ASSUME Parameters, TypeOK, Claims, Nonces, SentOnce, [Next]_vars
    PROVE  Nonces' /\ SentOnce'
<1>1. ASSUME NEW k \in Workers, List(k) PROVE Nonces' /\ SentOnce'
  BY <1>1, ListEffect, KeepsNonces DEF List
<1>2. ASSUME NEW k \in Workers, EndPass(k) PROVE Nonces' /\ SentOnce'
  BY <1>2, EndPassEffect, KeepsNonces DEF EndPass
<1>3. ASSUME NEW k \in Workers, NEW item \in worker[k].todo, Claim(k, item)
      PROVE  Nonces' /\ SentOnce'
  <2>1. /\ worker'[k].at \in {"nonce", "item"}
        /\ \A j \in Workers \ {k} : worker'[j] = worker[j]
    BY <1>3, TakeEffect, SkipEffect DEF Claim, Handling
  <2> QED BY <1>3, <2>1, KeepsNonces DEF Claim
<1>4. ASSUME NEW k \in Workers, NEW item \in worker[k].todo, Poll(k, item)
      PROVE  Nonces' /\ SentOnce'
  <2>1. \/ \E at \in {"fail", "final", "promote"} : Take(k, item, at)
        \/ Skip(k, item)
    BY <1>4 DEF Poll
  <2>2. worker[k].at = "item"
    BY <1>4 DEF Poll
  <2>3. /\ worker'[k].at # "send"
        /\ \A j \in Workers \ {k} : worker'[j] = worker[j]
    BY <2>1, <2>2, TakeEffect, SkipEffect DEF Handling
  <2> QED BY <1>4, <2>3, KeepsNonces DEF Poll
<1>5. ASSUME NEW k \in Workers, AllocateNonce(k) PROVE Nonces' /\ SentOnce'
  <2>1. /\ UNCHANGED chain /\ nextNonce \in Nat /\ nextNonce' = nextNonce + 1
        /\ worker'[k].nonce = nextNonce
        /\ \A j \in Workers \ {k} : worker'[j] = worker[j]
    BY <1>5, NonceEffect DEF AllocateNonce, TypeOK
  <2>2. \A t \in chain : t.nonce \in Nat /\ t.nonce < nextNonce
    BY DEF Nonces, TypeOK
  <2>3. \A j \in Workers : worker[j].at = "send" =>
           worker[j].nonce \in Nat /\ worker[j].nonce < nextNonce
    BY CurrentType DEF Nonces, Handling
  <2> QED BY <2>1, <2>2, <2>3 DEF Nonces, SentOnce
<1>6. ASSUME NEW k \in Workers, Broadcast(k) PROVE Nonces' /\ SentOnce'
  <2> DEFINE t == [withdrawal |-> Current(k), nonce |-> worker[k].nonce,
                   state |-> "pending"]
  <2>1. /\ worker[k].at = "send" /\ chain' = chain \cup {t} /\ UNCHANGED nextNonce
        /\ t.withdrawal = Current(k) /\ t.nonce = worker[k].nonce
    BY <1>6 DEF Broadcast
  <2>2. /\ worker'[k].at = "record"
        /\ \A j \in Workers \ {k} : worker'[j] = worker[j]
    BY <1>6, ContinueEffect DEF Broadcast, Handling
  <2>3. \A s \in chain : s.withdrawal # Current(k) /\ s.nonce # worker[k].nonce
    BY <2>1 DEF Claims, Signs, Nonces
  <2>4. \A j \in Workers \ {k} :
           worker[j].at = "send" => worker[j].nonce # worker[k].nonce
    BY <2>1 DEF Nonces
  <2>5. worker[k].nonce < nextNonce
    BY <2>1 DEF Nonces
  <2> HIDE DEF t
  <2>6. SentOnce'
    BY <2>1, <2>3 DEF SentOnce
  <2>7. Nonces'
    BY <2>1, <2>2, <2>4, <2>5 DEF Nonces
  <2> QED BY <2>6, <2>7
<1>7. ASSUME NEW k \in Workers, SetBroadcast(k) PROVE Nonces' /\ SentOnce'
  BY <1>7, NextItemEffect, KeepsNonces DEF SetBroadcast
<1>8. ASSUME NEW k \in Workers, SetConfirming(k) PROVE Nonces' /\ SentOnce'
  BY <1>8, NextItemEffect, KeepsNonces DEF SetConfirming
<1>9. ASSUME NEW k \in Workers, FinalizeLedger(k) PROVE Nonces' /\ SentOnce'
  BY <1>9, ContinueEffect, NextItemEffect, KeepsNonces
  DEF Handling, FinalizeLedger
<1>10. ASSUME NEW k \in Workers, MarkCompleted(k) PROVE Nonces' /\ SentOnce'
  BY <1>10, NextItemEffect, KeepsNonces DEF MarkCompleted
<1>11. ASSUME NEW k \in Workers, MarkFailed(k) PROVE Nonces' /\ SentOnce'
  BY <1>11, ContinueEffect, NextItemEffect, KeepsNonces
  DEF Handling, MarkFailed
<1>12. ASSUME NEW k \in Workers, ReleaseFailed(k) PROVE Nonces' /\ SentOnce'
  BY <1>12, NextItemEffect, KeepsNonces DEF ReleaseFailed
<1>13. ASSUME NEW k \in Workers, BroadcastError(k) PROVE Nonces' /\ SentOnce'
  <2>1. worker[k].at \in Handling
    BY <1>13 DEF BroadcastError, Handling
  <2> QED BY <1>13, <2>1, ContinueEffect, KeepsNonces DEF BroadcastError, Handling
<1>14. ASSUME NEW k \in Workers, WorkerLost(k) PROVE Nonces' /\ SentOnce'
  BY <1>14, NextItemEffect, KeepsNonces DEF WorkerLost
<1>15. ASSUME NEW w \in Withdrawals, Decide(w) PROVE Nonces' /\ SentOnce'
  <2>1. PICK t \in chain, u \in [withdrawal : Withdrawals, nonce : Nat,
                               state : {"seen", "deep", "failed"}] :
           /\ u.withdrawal = t.withdrawal /\ u.nonce = t.nonce
           /\ chain' = (chain \ {t}) \cup {u}
    BY <1>15, DecideEffect
  <2>2. UNCHANGED <<worker, nextNonce>>
    BY <1>15, DecideEffect
  <2> QED BY <2>1, <2>2 DEF Nonces, SentOnce
<1>16. ASSUME \/ \E w \in Withdrawals : CheckRequest(w) \/ CreateWithdrawal(w) \/ PlaceHold(w) \/ SetHold(w) \/ MarkRequestFailed(w) \/ RequestLost(w)
              \/ \E a \in Admins : Approve(a) \/ Reject(a) \/ ReleaseRejected(a) \/ ReviewLost(a)
              \/ \E a \in Admins, w \in Withdrawals, kind \in {"approve", "reject"} :
                   OpenReview(a, w, kind)
              \/ Freeze \/ AddAddress \/ CoolingOffEnds
              \/ UNCHANGED vars
      PROVE  Nonces' /\ SentOnce'
  BY <1>16
  DEF Freeze, AddAddress, CoolingOffEnds, vars, gates, CheckRequest,
      CreateWithdrawal, PlaceHold, SetHold, MarkRequestFailed, RequestLost,
      OpenReview, Approve, Reject, ReleaseRejected, ReviewLost, Nonces,
      SentOnce
<1> QED
  BY <1>1, <1>2, <1>3, <1>4, <1>5, <1>6, <1>7, <1>8, <1>9, <1>10, <1>11,
     <1>12, <1>13, <1>14, <1>15, <1>16
  DEF Next, RequestStep, ReviewStep, WorkerStep

-----------------------------------------------------------------------------
(* However many workers run and whatever fails, claimForBroadcast and       *)
(* allocateNonce keep a withdrawal from being sent twice, and two of them   *)
(* from sharing a nonce.                                                   *)
SentInv == TypeOK /\ Claims /\ Nonces /\ SentOnce

LEMMA SentInvariant == ASSUME Parameters PROVE Spec => []SentInv
<1>1. Init => SentInv
  <2> SUFFICES ASSUME Init PROVE SentInv
    OBVIOUS
  <2>1. TypeOK
    BY TypeInit
  <2> QED BY <2>1, Start DEF SentInv, Claims, Nonces, SentOnce, Handles, Signs, Handling
<1>2. SentInv /\ [Next]_vars => SentInv'
  BY TypeStep, ClaimsStep, NoncesStep DEF SentInv
<1> QED BY <1>1, <1>2, PTL DEF Spec

(* allocateNonce and the conditional claims keep a withdrawal from being   *)
(* sent twice and a nonce from being used twice, however many workers run  *)
(* and wherever they are lost.                                             *)
THEOREM NeverSentTwice == ASSUME Parameters PROVE Spec => []SentOnce
<1>1. SentInv => SentOnce
  BY DEF SentInv
<1> QED BY <1>1, SentInvariant, PTL

-----------------------------------------------------------------------------
(* What is recorded as paid was posted, and what was posted was mined.     *)
LEMMA KeepsPaid ==
    ASSUME Finalizing, CompletedIsPaid, chain \subseteq chain', posted \subseteq posted',
           \A w \in Withdrawals : FinalRef(w) \in posted' => FinalRef(w) \in posted,
           \A w \in Withdrawals :
               row'[w].status = "COMPLETED" => row[w].status = "COMPLETED",
           \A k \in Workers :
               worker'[k].at \in {"final", "complete"} => worker'[k] = worker[k]
    PROVE  Finalizing' /\ CompletedIsPaid'
BY DEF Finalizing, CompletedIsPaid, Current

LEMMA PaidStep ==
    ASSUME Parameters, TypeOK, Finalizing, CompletedIsPaid, [Next]_vars
    PROVE  Finalizing' /\ CompletedIsPaid'
<1>1. ASSUME NEW w \in Withdrawals, CreateWithdrawal(w)
      PROVE  Finalizing' /\ CompletedIsPaid'
  <2>1. UNCHANGED <<chain, worker, posted>>
    BY <1>1 DEF CreateWithdrawal
  <2>2. \A v \in Withdrawals : row'[v].status = "COMPLETED" => row[v].status = "COMPLETED"
    BY <1>1, SetEffect DEF CreateWithdrawal, Statuses
  <2> QED BY <2>1, <2>2, KeepsPaid
<1>2. ASSUME NEW w \in Withdrawals, PlaceHold(w)
      PROVE  Finalizing' /\ CompletedIsPaid'
  <2>1. UNCHANGED <<chain, worker, row>>
    BY <1>2 DEF PlaceHold
  <2>2. /\ posted \subseteq posted'
        /\ \A v \in Withdrawals : FinalRef(v) \in posted' => FinalRef(v) \in posted
    BY <1>2, PostEffect DEF PlaceHold, releaseHold, ledger, HoldRef, ReleaseRef, FinalRef
  <2> QED BY <2>1, <2>2, KeepsPaid
<1>3. ASSUME NEW w \in Withdrawals, SetHold(w)
      PROVE  Finalizing' /\ CompletedIsPaid'
  <2>1. UNCHANGED <<chain, worker, posted>>
    BY <1>3 DEF SetHold
  <2>2. \A v \in Withdrawals : row'[v].status = "COMPLETED" => row[v].status = "COMPLETED"
    BY <1>3, SetHoldEffect DEF SetHold, Statuses
  <2> QED BY <2>1, <2>2, KeepsPaid
<1>4. ASSUME NEW w \in Withdrawals, MarkRequestFailed(w)
      PROVE  Finalizing' /\ CompletedIsPaid'
  <2>1. UNCHANGED <<chain, worker, posted>>
    BY <1>4 DEF MarkRequestFailed
  <2>2. \A v \in Withdrawals : row'[v].status = "COMPLETED" => row[v].status = "COMPLETED"
    BY <1>4, SetEffect DEF MarkRequestFailed, Statuses
  <2> QED BY <2>1, <2>2, KeepsPaid
<1>5. ASSUME NEW a \in Admins, Approve(a)
      PROVE  Finalizing' /\ CompletedIsPaid'
  <2>1. UNCHANGED <<chain, worker, posted>>
    BY <1>5 DEF Approve
  <2>2. \A v \in Withdrawals : row'[v].status = "COMPLETED" => row[v].status = "COMPLETED"
    BY <1>5, ReviewType, ApproveRowEffect DEF Approve
  <2> QED BY <2>1, <2>2, KeepsPaid
<1>6. ASSUME NEW a \in Admins, Reject(a) PROVE Finalizing' /\ CompletedIsPaid'
  <2>1. UNCHANGED <<chain, worker, posted>>
    BY <1>6 DEF Reject
  <2>2. \A v \in Withdrawals : row'[v].status = "COMPLETED" => row[v].status = "COMPLETED"
    BY <1>6, RejectEffect DEF Reject, Statuses
  <2> QED BY <2>1, <2>2, KeepsPaid
<1>7. ASSUME NEW a \in Admins, ReleaseRejected(a)
      PROVE  Finalizing' /\ CompletedIsPaid'
  <2>1. UNCHANGED <<chain, worker, row>>
    BY <1>7 DEF ReleaseRejected
  <2>2. /\ posted \subseteq posted'
        /\ \A v \in Withdrawals : FinalRef(v) \in posted' => FinalRef(v) \in posted
    BY <1>7, PostEffect DEF ReleaseRejected, releaseHold, ledger, HoldRef, ReleaseRef, FinalRef
  <2> QED BY <2>1, <2>2, KeepsPaid
<1>8. ASSUME NEW k \in Workers, List(k) PROVE Finalizing' /\ CompletedIsPaid'
  BY <1>8, ListEffect, KeepsPaid DEF List
<1>9. ASSUME NEW k \in Workers, EndPass(k)
      PROVE  Finalizing' /\ CompletedIsPaid'
  BY <1>9, EndPassEffect, KeepsPaid DEF EndPass
<1>10. ASSUME NEW k \in Workers, NEW item \in worker[k].todo, Claim(k, item)
      PROVE  Finalizing' /\ CompletedIsPaid'
  <2>1. /\ worker'[k].at \in {"nonce", "item"} /\ UNCHANGED <<chain, posted>>
        /\ \A j \in Workers \ {k} : worker'[j] = worker[j]
    BY <1>10, TakeEffect, SkipEffect DEF Claim, Handling
  <2>2. item.withdrawal \in Withdrawals
    BY WorkerStates DEF Items
  <2>3. \A v \in Withdrawals : row'[v].status = "COMPLETED" => row[v].status = "COMPLETED"
    BY <1>10, <2>2, SetEffect DEF Claim, Statuses
  <2> QED BY <2>1, <2>3, KeepsPaid
<1>11. ASSUME NEW k \in Workers, NEW item \in worker[k].todo, Poll(k, item)
      PROVE  Finalizing' /\ CompletedIsPaid'
  <2>1. UNCHANGED <<row, chain, posted>>
    BY <1>11 DEF Poll
  <2>2. CASE Take(k, item, "final")
    <3>1. \E t \in chain : t.withdrawal = item.withdrawal /\ t.state = "deep"
      <4>1. \A at \in {"fail", "promote"} : ~Take(k, item, at)
        BY <2>2, TakeEffect DEF Handling
      <4>2. ~Skip(k, item)
        BY <1>11, <2>2, TakeEffect, SkipEffect DEF Poll, Handling
      <4> QED BY <1>11, <4>1, <4>2 DEF Poll, Sent, Fate
    <3>2. /\ worker'[k].at = "final" /\ worker'[k].item = item
          /\ \A j \in Workers \ {k} : worker'[j] = worker[j]
      BY <2>2, TakeEffect DEF Handling
    <3> QED BY <2>1, <3>1, <3>2 DEF Finalizing, CompletedIsPaid, Current
  <2>3. CASE \/ \E at \in {"fail", "promote"} : Take(k, item, at)
             \/ Skip(k, item)
    <3>1. /\ worker'[k].at \in {"fail", "promote", "item"}
          /\ \A j \in Workers \ {k} : worker'[j] = worker[j]
      BY <1>11, <2>3, TakeEffect, SkipEffect DEF Poll, Handling
    <3> QED BY <2>1, <3>1, KeepsPaid
  <2> QED BY <1>11, <2>2, <2>3 DEF Poll
<1>12. ASSUME NEW k \in Workers, AllocateNonce(k)
      PROVE  Finalizing' /\ CompletedIsPaid'
  BY <1>12, NonceEffect, KeepsPaid DEF AllocateNonce
<1>13. ASSUME NEW k \in Workers, Broadcast(k)
      PROVE  Finalizing' /\ CompletedIsPaid'
  <2>1. chain \subseteq chain' /\ UNCHANGED <<row, posted>>
    BY <1>13 DEF Broadcast
  <2>2. /\ worker'[k].at = "record"
        /\ \A j \in Workers \ {k} : worker'[j] = worker[j]
    BY <1>13, ContinueEffect DEF Broadcast, Handling
  <2> QED BY <2>1, <2>2, KeepsPaid
<1>14. ASSUME NEW k \in Workers, SetBroadcast(k)
      PROVE  Finalizing' /\ CompletedIsPaid'
  <2>1. \A v \in Withdrawals : row'[v].status = "COMPLETED" => row[v].status = "COMPLETED"
    BY <1>14, CurrentType, BroadcastRowEffect DEF SetBroadcast, Handling
  <2> QED BY <1>14, <2>1, NextItemEffect, KeepsPaid DEF SetBroadcast
<1>15. ASSUME NEW k \in Workers, SetConfirming(k)
      PROVE  Finalizing' /\ CompletedIsPaid'
  <2>1. \A v \in Withdrawals : row'[v].status = "COMPLETED" => row[v].status = "COMPLETED"
    BY <1>15, SetConfirmingEffect
  <2> QED BY <1>15, <2>1, NextItemEffect, KeepsPaid DEF SetConfirming
<1>16. ASSUME NEW k \in Workers, FinalizeLedger(k)
      PROVE  Finalizing' /\ CompletedIsPaid'
  <2> DEFINE w == Current(k)
  <2>1. w \in Withdrawals /\ worker[k].at = "final" /\ UNCHANGED <<row, chain>>
    BY <1>16, CurrentType DEF FinalizeLedger, Handling
  <2>2. CASE Post(FinalRef(w), FinalLines(w)) /\ Continue(k, "complete")
    <3>1. posted' = posted \cup {FinalRef(w)}
      BY <2>2, PostEffect
    <3>2. /\ worker'[k].at = "complete" /\ worker'[k].item = worker[k].item
          /\ \A j \in Workers \ {k} : worker'[j] = worker[j]
      BY <2>1, <2>2, ContinueEffect DEF Handling
    <3>3. \E t \in chain : t.withdrawal = w /\ t.state = "deep"
      BY <2>1 DEF Finalizing
    <3>4. \A v \in Withdrawals : FinalRef(v) = FinalRef(w) => v = w
      BY DEF FinalRef
    <3>5. Finalizing'
      <4> USE DEF Finalizing, Current
      <4>1. FinalRef(Current(k)') \in posted'
        BY <3>1, <3>2
      <4> HIDE DEF w
      <4> QED BY <2>1, <3>1, <3>2, <4>1
    <3>6. CompletedIsPaid'
      <4> HIDE DEF w
      <4> QED BY <2>1, <3>1, <3>3, <3>4 DEF CompletedIsPaid
    <3> QED BY <3>5, <3>6
  <2>3. CASE UNCHANGED ledger /\ GoWorker(k, IdleWorker)
    BY <2>1, <2>3, NextItemEffect, KeepsPaid DEF ledger
  <2> QED BY <1>16, <2>2, <2>3 DEF FinalizeLedger
<1>17. ASSUME NEW k \in Workers, MarkCompleted(k)
      PROVE  Finalizing' /\ CompletedIsPaid'
  <2> DEFINE w == Current(k)
  <2>1. /\ FinalRef(w) \in posted /\ UNCHANGED <<chain, posted>>
        /\ \A v \in Withdrawals \ {w} : row'[v] = row[v]
    BY <1>17, MarkCompletedEffect DEF MarkCompleted, Finalizing
  <2>2. /\ worker'[k].at \in {"list", "item"}
        /\ \A j \in Workers \ {k} : worker'[j] = worker[j]
    BY <1>17, NextItemEffect DEF MarkCompleted
  <2> HIDE DEF w
  <2> QED BY <2>1, <2>2 DEF Finalizing, CompletedIsPaid, Current
<1>18. ASSUME NEW k \in Workers, MarkFailed(k)
      PROVE  Finalizing' /\ CompletedIsPaid'
  <2>1. Current(k) \in Withdrawals /\ worker[k].at \in Handling
    BY <1>18, CurrentType DEF MarkFailed, Handling
  <2>2. \A v \in Withdrawals : row'[v].status = "COMPLETED" => row[v].status = "COMPLETED"
    BY <1>18, <2>1, SetEffect DEF MarkFailed, Statuses
  <2>3. /\ worker'[k].at \in {"list", "item", "release"}
        /\ \A j \in Workers \ {k} : worker'[j] = worker[j]
    BY <1>18, <2>1, NextItemEffect, ContinueEffect DEF MarkFailed, Handling
  <2> QED BY <1>18, <2>2, <2>3, KeepsPaid DEF MarkFailed
<1>19. ASSUME NEW k \in Workers, ReleaseFailed(k)
      PROVE  Finalizing' /\ CompletedIsPaid'
  <2>1. /\ posted \subseteq posted'
        /\ \A v \in Withdrawals : FinalRef(v) \in posted' => FinalRef(v) \in posted
    BY <1>19, PostEffect DEF ReleaseFailed, ledger, ReleaseRef, FinalRef
  <2> QED BY <1>19, <2>1, NextItemEffect, KeepsPaid DEF ReleaseFailed
<1>20. ASSUME NEW k \in Workers, BroadcastError(k)
      PROVE  Finalizing' /\ CompletedIsPaid'
  <2>1. worker[k].at \in Handling
    BY <1>20 DEF BroadcastError, Handling
  <2>2. \A v \in Withdrawals : row'[v].status = "COMPLETED" => row[v].status = "COMPLETED"
    BY <1>20, <2>1, CurrentType, BroadcastRowEffect DEF BroadcastError
  <2> QED BY <1>20, <2>1, <2>2, ContinueEffect, KeepsPaid DEF BroadcastError, Handling
<1>21. ASSUME NEW k \in Workers, WorkerLost(k)
      PROVE  Finalizing' /\ CompletedIsPaid'
  BY <1>21, NextItemEffect, KeepsPaid DEF WorkerLost
<1>22. ASSUME NEW w \in Withdrawals, Decide(w)
      PROVE  Finalizing' /\ CompletedIsPaid'
  <2>1. PICK t \in chain, u \in [withdrawal : Withdrawals, nonce : Nat,
                               state : {"seen", "deep", "failed"}] :
           t.state \in {"pending", "seen"} /\ chain' = (chain \ {t}) \cup {u}
    BY <1>22, DecideEffect
  <2>2. \A v \in Withdrawals :
           (\E s \in chain : s.withdrawal = v /\ s.state = "deep")
              => \E s \in chain' : s.withdrawal = v /\ s.state = "deep"
    BY <2>1
  <2>3. UNCHANGED <<row, worker, posted>>
    BY <1>22, DecideEffect
  <2>4. \A k \in Workers : worker[k].at = "final" => Current(k) \in Withdrawals
    BY CurrentType DEF Handling
  <2>5. Finalizing'
    BY <2>2, <2>3, <2>4 DEF Finalizing, Current
  <2>6. CompletedIsPaid'
    BY <2>2, <2>3 DEF CompletedIsPaid
  <2> QED BY <2>5, <2>6
<1>23. ASSUME \/ \E w \in Withdrawals : CheckRequest(w) \/ RequestLost(w)
              \/ \E a \in Admins : ReviewLost(a)
              \/ \E a \in Admins, w \in Withdrawals, kind \in {"approve", "reject"} :
                   OpenReview(a, w, kind)
              \/ Freeze \/ AddAddress \/ CoolingOffEnds
              \/ UNCHANGED vars
      PROVE  Finalizing' /\ CompletedIsPaid'
  <2>1. UNCHANGED <<row, posted, worker, chain>>
    BY <1>23 DEF Freeze, AddAddress, CoolingOffEnds, vars, gates, CheckRequest,
                 RequestLost, OpenReview, ReviewLost
  <2> QED BY <2>1 DEF Finalizing, CompletedIsPaid, Current
<1> QED
  BY <1>1, <1>2, <1>3, <1>4, <1>5, <1>6, <1>7, <1>8, <1>9, <1>10, <1>11,
     <1>12, <1>13, <1>14, <1>15, <1>16, <1>17, <1>18, <1>19, <1>20, <1>21,
     <1>22, <1>23 DEF Next, RequestStep, ReviewStep, WorkerStep

LEMMA PaidInvariant ==
    ASSUME Parameters PROVE Spec => [](TypeOK /\ Finalizing /\ CompletedIsPaid)
<1>1. Init => TypeOK /\ Finalizing /\ CompletedIsPaid
  BY TypeInit, Start DEF Finalizing, CompletedIsPaid, FinalRef
<1>2. TypeOK /\ Finalizing /\ CompletedIsPaid /\ [Next]_vars
         => TypeOK' /\ Finalizing' /\ CompletedIsPaid'
  BY TypeStep, PaidStep
<1> QED BY <1>1, <1>2, PTL DEF Spec

(* A row finalizeWithdrawal marked COMPLETED has its ledger posting, and a  *)
(* posting that pays out has a transaction that is deep in the chain:       *)
(* whatever the interleaving of workers, restarts and failures.            *)
THEOREM PaidMeansMined == ASSUME Parameters PROVE Spec => []CompletedIsPaid
BY PaidInvariant, PTL

-----------------------------------------------------------------------------
(* The holds: bound once posted, kept, and used by who saw them.           *)
KeepsHolds == \A w \in Withdrawals : row[w].hold => row'[w].hold

LEMMA KeepsHeldReviews ==
    ASSUME TypeOK, Held, KeepsHolds,
           \A a \in Admins : review'[a].at = "idle" \/ review'[a] = review[a]
    PROVE  HeldReviews'
BY ReviewType DEF KeepsHolds, Held, HeldReviews

LEMMA KeepsHeldWork ==
    ASSUME TypeOK, Held, KeepsHolds,
           \A k \in Workers : Handles(k)' =>
               \/ Handles(k) /\ Current(k)' = Current(k)
               \/ row'[Current(k)'].hold,
           \A t \in chain' : t \in chain \/ row'[t.withdrawal].hold
    PROVE  HeldWork'
<1>1. \A k \in Workers : Handles(k)' => row'[Current(k)'].hold
  BY CurrentType DEF KeepsHolds, Held, HeldWork, Handles
<1>2. \A t \in chain' : row'[t.withdrawal].hold
  BY DEF TypeOK, KeepsHolds, Held, HeldWork
<1> QED BY <1>1, <1>2 DEF HeldWork

LEMMA HeldStep ==
    ASSUME Parameters, TypeOK, Held, [Next]_vars
    PROVE  Held'
<1>1. ASSUME NEW w \in Withdrawals, CheckRequest(w) PROVE Held'
  <2>1. HeldRows'
    BY <1>1 DEF CheckRequest, GoRequest, TypeOK, HeldRows, Held
  <2>2. HeldReviews' /\ HeldWork'
    BY <1>1, KeepsHeldReviews, KeepsHeldWork
    DEF CheckRequest, KeepsHolds, Handles, Current
  <2> QED BY <2>1, <2>2 DEF Held
<1>2. ASSUME NEW w \in Withdrawals, CreateWithdrawal(w) PROVE Held'
  <2>1. /\ row'[w].status \in {"REQUESTED", "PENDING_APPROVAL", "FAILED"}
        /\ row'[w].status = "PENDING_APPROVAL" => row'[w].hold
        /\ row'[w].hold = row[w].hold \/ request[w] = "bind"
        /\ row[w].hold => row'[w].hold
        /\ request[w] # "done" /\ request'[w] \in {"hold", "done"}
        /\ request[w] = "bind" => request'[w] = "done"
        /\ \A v \in Withdrawals \ {w} : row'[v] = row[v] /\ request'[v] = request[v]
        /\ UNCHANGED <<posted, review, worker, chain>>
    BY <1>2, SetEffect DEF CreateWithdrawal, GoRequest, TypeOK, Statuses
  <2>2. HeldRows'
    BY <2>1, RowType DEF HeldRows, Held
  <2>3. HeldReviews' /\ HeldWork'
    BY <2>1, KeepsHeldReviews, KeepsHeldWork DEF KeepsHolds, Handles, Current
  <2> QED BY <2>2, <2>3 DEF Held
<1>3. ASSUME NEW w \in Withdrawals, PlaceHold(w) PROVE Held'
  <2>1. /\ \/ UNCHANGED posted /\ request'[w] = "refuse"
           \/ posted' = posted \cup {HoldRef(w)} /\ request'[w] = "bind"
        /\ request[w] = "hold" /\ UNCHANGED <<row, review, worker, chain>>
        /\ \A v \in Withdrawals \ {w} : request'[v] = request[v]
    BY <1>3, PostEffect DEF PlaceHold, GoRequest, TypeOK, ledger
  <2>2. HeldRows'
    BY <2>1 DEF HeldRows, Held
  <2>3. HeldReviews' /\ HeldWork'
    BY <2>1, KeepsHeldReviews, KeepsHeldWork DEF KeepsHolds, Handles, Current
  <2> QED BY <2>2, <2>3 DEF Held
<1>4. ASSUME NEW w \in Withdrawals, SetHold(w) PROVE Held'
  <2>1. /\ row'[w].status \in {"REQUESTED", "PENDING_APPROVAL", "FAILED"}
        /\ row'[w].status = "PENDING_APPROVAL" => row'[w].hold
        /\ row'[w].hold = row[w].hold \/ request[w] = "bind"
        /\ row[w].hold => row'[w].hold
        /\ request[w] # "done" /\ request'[w] \in {"hold", "done"}
        /\ request[w] = "bind" => request'[w] = "done"
        /\ \A v \in Withdrawals \ {w} : row'[v] = row[v] /\ request'[v] = request[v]
        /\ UNCHANGED <<posted, review, worker, chain>>
    BY <1>4, SetHoldEffect DEF SetHold, GoRequest, TypeOK, Statuses
  <2>2. HeldRows'
    BY <2>1, RowType DEF HeldRows, Held
  <2>3. HeldReviews' /\ HeldWork'
    BY <2>1, KeepsHeldReviews, KeepsHeldWork DEF KeepsHolds, Handles, Current
  <2> QED BY <2>2, <2>3 DEF Held
<1>5. ASSUME NEW w \in Withdrawals, MarkRequestFailed(w) PROVE Held'
  <2>1. /\ row'[w].status \in {"REQUESTED", "PENDING_APPROVAL", "FAILED"}
        /\ row'[w].status = "PENDING_APPROVAL" => row'[w].hold
        /\ row'[w].hold = row[w].hold \/ request[w] = "bind"
        /\ row[w].hold => row'[w].hold
        /\ request[w] # "done" /\ request'[w] \in {"hold", "done"}
        /\ request[w] = "bind" => request'[w] = "done"
        /\ \A v \in Withdrawals \ {w} : row'[v] = row[v] /\ request'[v] = request[v]
        /\ UNCHANGED <<posted, review, worker, chain>>
    BY <1>5, SetEffect DEF MarkRequestFailed, GoRequest, TypeOK, Statuses
  <2>2. HeldRows'
    BY <2>1, RowType DEF HeldRows, Held
  <2>3. HeldReviews' /\ HeldWork'
    BY <2>1, KeepsHeldReviews, KeepsHeldWork DEF KeepsHolds, Handles, Current
  <2> QED BY <2>2, <2>3 DEF Held
<1>6. ASSUME NEW w \in Withdrawals, RequestLost(w) PROVE Held'
  <2>1. HeldRows'
    BY <1>6 DEF RequestLost, GoRequest, TypeOK, HeldRows, Held
  <2>2. HeldReviews' /\ HeldWork'
    BY <1>6, KeepsHeldReviews, KeepsHeldWork
    DEF RequestLost, KeepsHolds, Handles, Current
  <2> QED BY <2>1, <2>2 DEF Held
<1>7. ASSUME NEW a \in Admins, NEW w \in Withdrawals, NEW kind \in {"approve", "reject"}, OpenReview(a, w, kind)
      PROVE  Held'
  <2> DEFINE r == [at |-> kind, withdrawal |-> w, seen |-> row[w]]
  <2>1. r \in Reviews /\ r.at = kind /\ r.withdrawal = w /\ r.seen = row[w]
    BY RowType DEF Reviews
  <2>2. GoReview(a, r) /\ UNCHANGED <<row, request, posted, worker, chain>>
    BY <1>7 DEF OpenReview
  <2> HIDE DEF r
  <2>3. /\ review'[a].seen = row[w] /\ review'[a].withdrawal = w
        /\ review'[a].at # "release"
        /\ \A c \in Admins \ {a} : review'[c] = review[c]
    BY <2>1, <2>2, ReviewEffect
  <2>4. HeldReviews'
    BY <2>2, <2>3 DEF HeldReviews, Held
  <2> QED BY <2>2, <2>4, KeepsHeldWork
    DEF Held, HeldRows, KeepsHolds, Handles, Current
<1>8. ASSUME NEW a \in Admins, Approve(a) PROVE Held'
  <2> DEFINE w == review[a].withdrawal
  <2>1. /\ w \in Withdrawals
        /\ review'[a] = IdleReview /\ \A c \in Admins \ {a} : review'[c] = review[c]
        /\ UNCHANGED <<request, posted, worker, chain>>
    BY <1>8, ReviewType, ReviewEffect DEF Approve
  <2>2. \/ UNCHANGED row
        \/ /\ row[w].status = "PENDING_APPROVAL" /\ row'[w].hold = row[w].hold
           /\ \A v \in Withdrawals \ {w} : row'[v] = row[v]
    BY <1>8, <2>1, ApproveRowEffect DEF Approve, Approvable
  <2> HIDE DEF w
  <2>3. HeldRows'
    BY <2>1, <2>2 DEF HeldRows, Held
  <2>4. HeldReviews' /\ HeldWork'
    BY <2>1, <2>2, KeepsHeldReviews, KeepsHeldWork
    DEF IdleReview, KeepsHolds, Handles, Current
  <2> QED BY <2>3, <2>4 DEF Held
<1>9. ASSUME NEW a \in Admins, Reject(a) PROVE Held'
  <2> DEFINE w == review[a].withdrawal
  <2>1. w \in Withdrawals /\ UNCHANGED <<request, posted, worker, chain>>
    BY <1>9, RejectEffect DEF Reject
  <2>2. \/ UNCHANGED row
        \/ /\ row'[w].status = "REJECTED" /\ row'[w].hold = row[w].hold
           /\ \A v \in Withdrawals \ {w} : row'[v] = row[v]
    BY <1>9, RejectEffect
  <2>3. /\ \A c \in Admins \ {a} : review'[c] = review[c]
        /\ review'[a].at # "idle" => /\ review'[a].withdrawal = w
                                    /\ review'[a].seen = review[a].seen
                                    /\ review[a].seen.hold
    BY <1>9, RejectEffect DEF IdleReview
  <2>4. review[a].at = "reject"
    BY <1>9 DEF Reject
  <2>5. HeldRows'
    <3> HIDE DEF w
    <3> QED BY <2>1, <2>2 DEF HeldRows, Held
  <2>6. HeldReviews'
    BY <2>1, <2>2, <2>3, <2>4, ReviewType DEF HeldReviews, Held
  <2>7. HeldWork'
    <3> HIDE DEF w
    <3> QED BY <2>1, <2>2, KeepsHeldWork DEF KeepsHolds, Handles, Current
  <2> QED BY <2>5, <2>6, <2>7 DEF Held
<1>10. ASSUME NEW a \in Admins, ReleaseRejected(a) PROVE Held'
  <2>1. /\ review'[a] = IdleReview /\ \A c \in Admins \ {a} : review'[c] = review[c]
        /\ posted \subseteq posted' /\ UNCHANGED <<row, request, worker, chain>>
    BY <1>10, ReviewEffect, PostEffect DEF ReleaseRejected, releaseHold, ledger
  <2> QED BY <2>1, KeepsHeldReviews, KeepsHeldWork
    DEF Held, HeldRows, IdleReview, KeepsHolds, Handles, Current
<1>11. ASSUME NEW a \in Admins, ReviewLost(a) PROVE Held'
  <2>1. /\ review'[a] = IdleReview /\ \A c \in Admins \ {a} : review'[c] = review[c]
        /\ UNCHANGED <<row, request, posted, worker, chain>>
    BY <1>11, ReviewEffect DEF ReviewLost
  <2> QED BY <2>1, KeepsHeldReviews, KeepsHeldWork
    DEF Held, HeldRows, IdleReview, KeepsHolds, Handles, Current
<1>12. ASSUME NEW k \in Workers, List(k) PROVE Held'
  <2>1. /\ worker'[k].at \notin Handling
        /\ \A j \in Workers \ {k} : worker'[j] = worker[j]
    BY <1>12, ListEffect DEF List, Handling
  <2> QED BY <1>12, <2>1, KeepsHeldReviews, KeepsHeldWork
    DEF List, Held, HeldRows, Handles, KeepsHolds, Current
<1>13. ASSUME NEW k \in Workers, EndPass(k) PROVE Held'
  <2>1. /\ worker'[k].at \notin Handling
        /\ \A j \in Workers \ {k} : worker'[j] = worker[j]
    BY <1>13, EndPassEffect DEF EndPass, Handling
  <2> QED BY <1>13, <2>1, KeepsHeldReviews, KeepsHeldWork
    DEF EndPass, Held, HeldRows, Handles, KeepsHolds, Current
<1>14. ASSUME NEW k \in Workers, NEW item \in worker[k].todo, Claim(k, item)
      PROVE  Held'
  <2> DEFINE w == item.withdrawal
  <2>1. w \in Withdrawals /\ UNCHANGED <<request, review, posted, chain>>
    BY <1>14, WorkerStates DEF Items, Claim
  <2>2. CASE Claimable(item) /\ Set(w, "SIGNING") /\ Take(k, item, "nonce")
    <3>1. /\ row[w].status = "APPROVED" /\ row'[w].status = "SIGNING"
          /\ row'[w].hold = row[w].hold
          /\ \A v \in Withdrawals \ {w} : row'[v] = row[v]
      BY <2>1, <2>2, SetEffect DEF Claimable, Statuses
    <3>2. /\ worker'[k].at = "nonce" /\ worker'[k].item = item
          /\ \A j \in Workers \ {k} : worker'[j] = worker[j]
      BY <2>2, TakeEffect DEF Handling
    <3>3. HeldRows'
      <4> HIDE DEF w
      <4> QED BY <2>1, <3>1 DEF HeldRows, Held
    <3>4. row'[w].hold
      <4> HIDE DEF w
      <4> QED BY <2>1, <3>1 DEF HeldRows, Held
    <3>5. HeldWork'
      BY <2>1, <3>1, <3>2, <3>4, KeepsHeldWork DEF Handles, Current, KeepsHolds
    <3>6. HeldReviews'
      <4> HIDE DEF w
      <4> QED BY <2>1, <3>1, KeepsHeldReviews DEF KeepsHolds
    <3> QED BY <3>3, <3>5, <3>6 DEF Held
  <2>3. CASE Skip(k, item) /\ UNCHANGED row
    <3>1. /\ worker'[k].at \notin Handling
          /\ \A j \in Workers \ {k} : worker'[j] = worker[j]
      BY <1>14, <2>3, SkipEffect DEF Claim, Handling
    <3> QED BY <2>1, <2>3, <3>1, KeepsHeldReviews, KeepsHeldWork
      DEF Held, HeldRows, Handles, KeepsHolds, Current
  <2> QED BY <1>14, <2>2, <2>3 DEF Claim
<1>15. ASSUME NEW k \in Workers, NEW item \in worker[k].todo, Poll(k, item)
      PROVE  Held'
  <2>1. UNCHANGED <<row, request, review, posted, chain>>
    BY <1>15 DEF Poll
  <2>2. row[item.withdrawal].hold
    BY <1>15 DEF Poll, Sent, Held, HeldWork
  <2>3. \/ \E at \in {"fail", "final", "promote"} : Take(k, item, at)
        \/ Skip(k, item)
    BY <1>15 DEF Poll
  <2>4. /\ worker'[k].at \in Handling => worker'[k].item = item
        /\ \A j \in Workers \ {k} : worker'[j] = worker[j]
    BY <1>15, <2>3, TakeEffect, SkipEffect DEF Poll, Handling
  <2>5. HeldWork'
    BY <2>1, <2>2, <2>4, KeepsHeldWork DEF Handles, Current, KeepsHolds
  <2> QED BY <2>1, <2>5, KeepsHeldReviews DEF Held, HeldRows, KeepsHolds
<1>16. ASSUME NEW k \in Workers, AllocateNonce(k) PROVE Held'
  <2>1. /\ worker[k].at = "nonce" /\ worker'[k].item = worker[k].item
        /\ \A j \in Workers \ {k} : worker'[j] = worker[j]
        /\ UNCHANGED <<row, request, review, posted, chain>>
    BY <1>16, NonceEffect DEF AllocateNonce
  <2>2. HeldWork'
    BY <2>1, KeepsHeldWork DEF Handles, Current, Handling, KeepsHolds
  <2> QED BY <2>1, <2>2, KeepsHeldReviews DEF Held, HeldRows, KeepsHolds
<1>17. ASSUME NEW k \in Workers, Broadcast(k) PROVE Held'
  <2>1. /\ worker[k].at = "send" /\ worker'[k].item = worker[k].item
        /\ \A j \in Workers \ {k} : worker'[j] = worker[j]
        /\ UNCHANGED <<row, request, review, posted>>
    BY <1>17, ContinueEffect DEF Broadcast, Handling
  <2>2. row[Current(k)].hold
    BY <2>1 DEF Held, HeldWork, Handles, Handling
  <2>3. \A t \in chain' : t \in chain \/ t.withdrawal = Current(k)
    BY <1>17 DEF Broadcast
  <2>4. HeldWork'
    BY <2>1, <2>2, <2>3, KeepsHeldWork
    DEF Handles, Current, Handling, KeepsHolds
  <2> QED BY <2>1, <2>4, KeepsHeldReviews DEF Held, HeldRows, KeepsHolds
<1>18. ASSUME NEW k \in Workers, SetBroadcast(k) PROVE Held'
  <2> DEFINE w == Current(k)
  <2>1. /\ w \in Withdrawals /\ row'[w].hold = row[w].hold
        /\ row'[w].status = row[w].status
              \/ row'[w].status \notin {"PENDING_APPROVAL", "APPROVED"}
        /\ \A v \in Withdrawals \ {w} : row'[v] = row[v]
    BY <1>18, CurrentType, BroadcastRowEffect DEF SetBroadcast, Handling
  <2>2. /\ worker'[k].at \notin Handling
        /\ \A j \in Workers \ {k} : worker'[j] = worker[j]
        /\ UNCHANGED <<request, review, posted, chain>>
    BY <1>18, NextItemEffect DEF SetBroadcast, Handling
  <2> HIDE DEF w
  <2> QED BY <2>1, <2>2, KeepsHeldReviews, KeepsHeldWork
    DEF Held, HeldRows, Handles, KeepsHolds, Current
<1>19. ASSUME NEW k \in Workers, SetConfirming(k) PROVE Held'
  <2> DEFINE w == Current(k)
  <2>1. /\ w \in Withdrawals /\ row'[w].hold = row[w].hold
        /\ row'[w].status = row[w].status
              \/ row'[w].status \notin {"PENDING_APPROVAL", "APPROVED"}
        /\ \A v \in Withdrawals \ {w} : row'[v] = row[v]
    BY <1>19, CurrentType, SetConfirmingEffect DEF SetConfirming, Handling
  <2>2. /\ worker'[k].at \notin Handling
        /\ \A j \in Workers \ {k} : worker'[j] = worker[j]
        /\ UNCHANGED <<request, review, posted, chain>>
    BY <1>19, NextItemEffect DEF SetConfirming, Handling
  <2> HIDE DEF w
  <2> QED BY <2>1, <2>2, KeepsHeldReviews, KeepsHeldWork
    DEF Held, HeldRows, Handles, KeepsHolds, Current
<1>20. ASSUME NEW k \in Workers, FinalizeLedger(k) PROVE Held'
  <2>1. /\ UNCHANGED <<row, request, review, chain>> /\ posted \subseteq posted'
        /\ worker[k].at = "final"
    BY <1>20, PostEffect DEF FinalizeLedger, ledger
  <2>2. /\ worker'[k].at \in Handling => worker'[k].item = worker[k].item
        /\ \A j \in Workers \ {k} : worker'[j] = worker[j]
    BY <1>20, ContinueEffect, NextItemEffect DEF FinalizeLedger, Handling
  <2>3. HeldWork'
    BY <2>1, <2>2, KeepsHeldWork DEF Handles, Current, Handling, KeepsHolds
  <2> QED BY <2>1, <2>3, KeepsHeldReviews DEF Held, HeldRows, KeepsHolds
<1>21. ASSUME NEW k \in Workers, MarkCompleted(k) PROVE Held'
  <2> DEFINE w == Current(k)
  <2>1. /\ w \in Withdrawals /\ row'[w].hold = row[w].hold
        /\ row'[w].status = row[w].status
              \/ row'[w].status \notin {"PENDING_APPROVAL", "APPROVED"}
        /\ \A v \in Withdrawals \ {w} : row'[v] = row[v]
    BY <1>21, CurrentType, MarkCompletedEffect DEF MarkCompleted, Handling
  <2>2. /\ worker'[k].at \notin Handling
        /\ \A j \in Workers \ {k} : worker'[j] = worker[j]
        /\ UNCHANGED <<request, review, posted, chain>>
    BY <1>21, NextItemEffect DEF MarkCompleted, Handling
  <2> HIDE DEF w
  <2> QED BY <2>1, <2>2, KeepsHeldReviews, KeepsHeldWork
    DEF Held, HeldRows, Handles, KeepsHolds, Current
<1>22. ASSUME NEW k \in Workers, MarkFailed(k) PROVE Held'
  <2> DEFINE w == Current(k)
  <2>1. /\ w \in Withdrawals /\ worker[k].at = "fail"
        /\ UNCHANGED <<request, review, posted, chain>>
    BY <1>22, CurrentType DEF MarkFailed, Handling
  <2>2. \/ UNCHANGED row
        \/ /\ row'[w].status = "FAILED" /\ row'[w].hold = row[w].hold
           /\ \A v \in Withdrawals \ {w} : row'[v] = row[v]
    BY <1>22, <2>1, SetEffect DEF MarkFailed, Statuses
  <2>3. /\ worker'[k].at \in Handling => worker'[k].item = worker[k].item
        /\ \A j \in Workers \ {k} : worker'[j] = worker[j]
    BY <1>22, <2>1, NextItemEffect, ContinueEffect DEF MarkFailed, Handling
  <2> HIDE DEF w
  <2>4. HeldWork'
    BY <2>1, <2>2, <2>3, KeepsHeldWork
    DEF Handles, Current, Handling, KeepsHolds
  <2> QED BY <2>1, <2>2, <2>4, KeepsHeldReviews DEF Held, HeldRows, KeepsHolds
<1>23. ASSUME NEW k \in Workers, ReleaseFailed(k) PROVE Held'
  <2>1. /\ UNCHANGED <<row, request, review, chain>> /\ posted \subseteq posted'
    BY <1>23, PostEffect DEF ReleaseFailed, ledger
  <2>2. /\ worker'[k].at \notin Handling
        /\ \A j \in Workers \ {k} : worker'[j] = worker[j]
    BY <1>23, NextItemEffect DEF ReleaseFailed, Handling
  <2> QED BY <2>1, <2>2, KeepsHeldReviews, KeepsHeldWork
    DEF Held, HeldRows, Handles, KeepsHolds, Current
<1>24. ASSUME NEW k \in Workers, BroadcastError(k) PROVE Held'
  <2> DEFINE w == Current(k)
  <2>1. /\ w \in Withdrawals /\ worker[k].at \in Handling
        /\ UNCHANGED <<request, review, posted, chain>>
    BY <1>24, CurrentType DEF BroadcastError, Handling
  <2>2. \/ UNCHANGED row
        \/ /\ row'[w].status = "BROADCAST" /\ row'[w].hold = row[w].hold
           /\ \A v \in Withdrawals \ {w} : row'[v] = row[v]
    BY <1>24, <2>1, BroadcastRowEffect DEF BroadcastError
  <2>3. /\ worker'[k].item = worker[k].item
        /\ \A j \in Workers \ {k} : worker'[j] = worker[j]
    BY <1>24, <2>1, ContinueEffect DEF BroadcastError, Handling
  <2> HIDE DEF w
  <2>4. HeldWork'
    BY <2>1, <2>2, <2>3, KeepsHeldWork
    DEF Handles, Current, Handling, KeepsHolds
  <2> QED BY <2>1, <2>2, <2>4, KeepsHeldReviews DEF Held, HeldRows, KeepsHolds
<1>25. ASSUME NEW k \in Workers, WorkerLost(k) PROVE Held'
  <2>1. /\ worker'[k].at \notin Handling
        /\ \A j \in Workers \ {k} : worker'[j] = worker[j]
    BY <1>25, NextItemEffect DEF WorkerLost, Handling
  <2> QED BY <1>25, <2>1, KeepsHeldReviews, KeepsHeldWork
    DEF WorkerLost, Held, HeldRows, Handles, KeepsHolds, Current
<1>26. ASSUME NEW w \in Withdrawals, Decide(w) PROVE Held'
  <2>1. /\ UNCHANGED <<row, request, review, worker, posted>>
        /\ \A t \in chain' : \E u \in chain : u.withdrawal = t.withdrawal
    BY <1>26, DecideEffect
  <2>2. HeldWork'
    BY <2>1 DEF Held, HeldWork, Handles, Current
  <2> QED BY <2>1, <2>2 DEF Held, HeldRows, HeldReviews
<1>27. ASSUME \/ Freeze \/ AddAddress \/ CoolingOffEnds
              \/ UNCHANGED vars
      PROVE  Held'
  BY <1>27
  DEF Freeze, AddAddress, CoolingOffEnds, vars, gates, Held, HeldRows,
      HeldReviews, HeldWork, Handles, Current
<1> QED
  BY <1>1, <1>2, <1>3, <1>4, <1>5, <1>6, <1>7, <1>8, <1>9, <1>10, <1>11,
     <1>12, <1>13, <1>14, <1>15, <1>16, <1>17, <1>18, <1>19, <1>20, <1>21,
     <1>22, <1>23, <1>24, <1>25, <1>26, <1>27
  DEF Next, RequestStep, ReviewStep, WorkerStep

(* The steps that post nothing.                                            *)
Postless ==
    \/ \E w \in Withdrawals : CheckRequest(w) \/ CreateWithdrawal(w) \/ SetHold(w)
                              \/ MarkRequestFailed(w) \/ RequestLost(w)
    \/ \E a \in Admins : Approve(a) \/ Reject(a) \/ ReviewLost(a)
    \/ \E a \in Admins, w \in Withdrawals, kind \in {"approve", "reject"} :
          OpenReview(a, w, kind)
    \/ \E k \in Workers : List(k) \/ EndPass(k) \/ AllocateNonce(k) \/ Broadcast(k)
                          \/ SetBroadcast(k) \/ SetConfirming(k) \/ MarkCompleted(k)
                          \/ MarkFailed(k) \/ BroadcastError(k) \/ WorkerLost(k)
    \/ \E k \in Workers : \E item \in worker[k].todo : Claim(k, item) \/ Poll(k, item)
    \/ Freeze \/ AddAddress \/ CoolingOffEnds
    \/ UNCHANGED vars

LEMMA PostsNothing == ASSUME Postless PROVE UNCHANGED <<balance, posted>>
<1>1. ASSUME NEW w \in Withdrawals,
             \/ CheckRequest(w) \/ CreateWithdrawal(w) \/ SetHold(w)
             \/ MarkRequestFailed(w) \/ RequestLost(w)
      PROVE  UNCHANGED <<balance, posted>>
  BY <1>1 DEF CheckRequest, CreateWithdrawal, SetHold, MarkRequestFailed, RequestLost
<1>2. ASSUME NEW a \in Admins, Approve(a) \/ Reject(a) \/ ReviewLost(a)
      PROVE  UNCHANGED <<balance, posted>>
  BY <1>2 DEF Approve, Reject, ReviewLost
<1>3. ASSUME NEW a \in Admins, NEW w \in Withdrawals, NEW kind, OpenReview(a, w, kind)
      PROVE  UNCHANGED <<balance, posted>>
  BY <1>3 DEF OpenReview
<1>4. ASSUME NEW k \in Workers,
             \/ List(k) \/ EndPass(k) \/ AllocateNonce(k) \/ Broadcast(k)
             \/ SetBroadcast(k) \/ SetConfirming(k) \/ MarkCompleted(k)
             \/ MarkFailed(k) \/ BroadcastError(k) \/ WorkerLost(k)
      PROVE  UNCHANGED <<balance, posted>>
  BY <1>4 DEF List, EndPass, AllocateNonce, Broadcast, SetBroadcast, SetConfirming,
              MarkCompleted, MarkFailed, BroadcastError, WorkerLost
<1>5. ASSUME NEW k \in Workers, NEW item, Claim(k, item) \/ Poll(k, item)
      PROVE  UNCHANGED <<balance, posted>>
  BY <1>5 DEF Claim, Poll
<1>6. CASE Freeze \/ AddAddress \/ CoolingOffEnds \/ UNCHANGED vars
  BY <1>6 DEF Freeze, AddAddress, CoolingOffEnds, vars
<1> QED BY <1>1, <1>2, <1>3, <1>4, <1>5, <1>6 DEF Postless

-----------------------------------------------------------------------------
(* What leaves the locked account came there: reviews and workers release and  *)
(* finalize what has a bound hold.                                         *)
LEMMA MovedStep ==
    ASSUME TypeOK, Held, MovedFromHold, [Next]_vars
    PROVE  MovedFromHold'
<1>1. ASSUME NEW w \in Withdrawals, PlaceHold(w) PROVE MovedFromHold'
  BY <1>1, PostEffect
  DEF ledger, MovedFromHold, HoldRef, ReleaseRef, FinalRef, PlaceHold
<1>2. ASSUME NEW a \in Admins, ReleaseRejected(a) PROVE MovedFromHold'
  <2> DEFINE w == review[a].withdrawal
  <2>1. w \in Withdrawals /\ HoldRef(w) \in posted
    BY <1>2, ReviewType DEF ReleaseRejected, Held, HeldRows, HeldReviews
  <2>2. posted' \in {posted, posted \cup {ReleaseRef(w)}}
    BY <1>2, PostEffect DEF ReleaseRejected, releaseHold, ledger
  <2> HIDE DEF w
  <2> QED BY <2>1, <2>2 DEF MovedFromHold, HoldRef, ReleaseRef, FinalRef
<1>3. ASSUME NEW k \in Workers, FinalizeLedger(k) PROVE MovedFromHold'
  <2> DEFINE w == Current(k)
  <2>1. w \in Withdrawals /\ row[w].hold
    BY <1>3, CurrentType DEF FinalizeLedger, Handles, Handling, Held, HeldWork
  <2>2. HoldRef(w) \in posted
    BY <2>1 DEF Held, HeldRows
  <2>3. posted' \in {posted, posted \cup {FinalRef(w)}}
    BY <1>3, PostEffect DEF FinalizeLedger, ledger
  <2> HIDE DEF w
  <2> QED BY <2>1, <2>2, <2>3 DEF MovedFromHold, HoldRef, ReleaseRef, FinalRef
<1>4. ASSUME NEW k \in Workers, ReleaseFailed(k) PROVE MovedFromHold'
  <2> DEFINE w == Current(k)
  <2>1. w \in Withdrawals /\ row[w].hold
    BY <1>4, CurrentType DEF ReleaseFailed, Handles, Handling, Held, HeldWork
  <2>2. HoldRef(w) \in posted
    BY <2>1 DEF Held, HeldRows
  <2>3. posted' \in {posted, posted \cup {ReleaseRef(w)}}
    BY <1>4, PostEffect DEF ReleaseFailed, ledger
  <2> HIDE DEF w
  <2> QED BY <2>1, <2>2, <2>3 DEF MovedFromHold, HoldRef, ReleaseRef, FinalRef
<1>5. ASSUME NEW w \in Withdrawals, Decide(w) PROVE MovedFromHold'
  BY <1>5, DecideEffect DEF MovedFromHold
<1>6. CASE Postless
  BY <1>6, PostsNothing DEF MovedFromHold
<1> QED
  BY <1>1, <1>2, <1>3, <1>4, <1>5, <1>6
  DEF Next, RequestStep, ReviewStep, WorkerStep, Postless

LEMMA HeldInvariant == ASSUME Parameters PROVE Spec => [](Held /\ MovedFromHold)
<1>1. Init => Held /\ MovedFromHold
  BY Start DEF Held, HeldRows, HeldReviews, HeldWork, MovedFromHold, Handles, Handling
<1>2. TypeOK /\ Held /\ MovedFromHold /\ [Next]_vars => Held' /\ MovedFromHold'
  BY HeldStep, MovedStep
<1> QED BY <1>1, <1>2, TypeCorrect, PTL DEF Spec

(* No release and no payout without the hold, although reject and          *)
(* failWithdrawal decide on the release from a row read earlier, and        *)
(* setHold binds the hold only after it was posted.                        *)
THEOREM NothingMovesUnheld == ASSUME Parameters PROVE Spec => []MovedFromHold
BY HeldInvariant, PTL

(* Whatever fails: sent once, paid only from its hold, and recorded as     *)
(* paid only if it was mined.                                              *)
THEOREM AlwaysPaidAsSent == ASSUME Parameters PROVE Spec => []PaidAsSent
<1>1. SentOnce /\ MovedFromHold /\ CompletedIsPaid => PaidAsSent
  BY DEF PaidAsSent
<1> QED BY <1>1, NeverSentTwice, NothingMovesUnheld, PaidMeansMined, PTL

-----------------------------------------------------------------------------
(* Which ends are final.                                                   *)
(* A transaction that was dropped stays so.                                *)
LEMMA DroppedStays ==
    ASSUME TypeOK, [Next]_vars
    PROVE  \A v \in Withdrawals : Dropped(v) => Dropped(v)'
<1>1. ASSUME NEW k \in Workers, Broadcast(k)
      PROVE  \A v \in Withdrawals : Dropped(v) => Dropped(v)'
  BY <1>1 DEF Dropped, Broadcast
<1>2. ASSUME NEW w \in Withdrawals, Decide(w)
      PROVE  \A v \in Withdrawals : Dropped(v) => Dropped(v)'
  <2>1. PICK t \in chain : t.state \in {"pending", "seen"} /\ chain \ {t} \subseteq chain'
    <3>1. PICK t \in chain : Mine(t) \/ Drop(t)
      BY <1>2 DEF Decide
    <3>2. t.state \in {"pending", "seen"}
      BY <3>1 DEF Mine, Drop
    <3>3. PICK state \in {"seen", "deep", "failed"} : Become(t, state)
      BY <3>1 DEF Mine, Drop
    <3>4. chain \ {t} \subseteq chain'
      BY ONLY <3>3, Zenon DEF Become
    <3> QED BY ONLY <3>2, <3>4
  <2> QED BY <2>1 DEF Dropped
<1>3. ASSUME \/ \E w \in Withdrawals : CheckRequest(w) \/ CreateWithdrawal(w) \/ PlaceHold(w) \/ SetHold(w) \/ MarkRequestFailed(w) \/ RequestLost(w)
             \/ \E a \in Admins : Approve(a) \/ Reject(a) \/ ReleaseRejected(a) \/ ReviewLost(a)
             \/ \E a \in Admins, w \in Withdrawals, kind \in {"approve", "reject"} :
                   OpenReview(a, w, kind)
             \/ \E k \in Workers : List(k) \/ EndPass(k) \/ AllocateNonce(k) \/ SetBroadcast(k) \/ SetConfirming(k) \/ FinalizeLedger(k) \/ MarkCompleted(k) \/ MarkFailed(k) \/ ReleaseFailed(k) \/ BroadcastError(k) \/ WorkerLost(k)
             \/ \E k \in Workers : \E item \in worker[k].todo :
                   Claim(k, item) \/ Poll(k, item)
             \/ Freeze \/ AddAddress \/ CoolingOffEnds
             \/ UNCHANGED vars
      PROVE  \A v \in Withdrawals : Dropped(v) => Dropped(v)'
  BY <1>3
  DEF Freeze, AddAddress, CoolingOffEnds, vars, gates, CheckRequest,
      CreateWithdrawal, PlaceHold, SetHold, MarkRequestFailed, RequestLost,
      OpenReview, Approve, Reject, ReleaseRejected, ReviewLost, List, EndPass,
      Claim, Poll, AllocateNonce, SetBroadcast, SetConfirming, FinalizeLedger,
      MarkCompleted, MarkFailed, ReleaseFailed, BroadcastError, WorkerLost,
      Dropped
<1> QED
  BY <1>1, <1>2, <1>3 DEF Next, RequestStep, ReviewStep, WorkerStep

(* A rejected withdrawal with its hold bound is never taken up again.      *)
LEMMA ClosedStays ==
    ASSUME Parameters, TypeOK, Claims, Held, [Next]_vars
    PROVE  \A v \in Withdrawals : Closed(v) => Closed(v)'
<1>1. ASSUME NEW w \in Withdrawals, CreateWithdrawal(w)
      PROVE  \A v \in Withdrawals : Closed(v) => Closed(v)'
  <2>1. request[w] # "done" /\ \A v \in Withdrawals \ {w} : row'[v] = row[v]
    BY <1>1, SetEffect DEF CreateWithdrawal, Statuses
  <2>2. ~Closed(w)
    BY <2>1 DEF Closed, Held, HeldRows
  <2> QED BY <2>1, <2>2 DEF Closed
<1>2. ASSUME NEW w \in Withdrawals, SetHold(w)
      PROVE  \A v \in Withdrawals : Closed(v) => Closed(v)'
  <2>1. request[w] # "done" /\ \A v \in Withdrawals \ {w} : row'[v] = row[v]
    BY <1>2, SetHoldEffect DEF SetHold, Statuses
  <2>2. ~Closed(w)
    BY <2>1 DEF Closed, Held, HeldRows
  <2> QED BY <2>1, <2>2 DEF Closed
<1>3. ASSUME NEW w \in Withdrawals, MarkRequestFailed(w)
      PROVE  \A v \in Withdrawals : Closed(v) => Closed(v)'
  <2>1. request[w] # "done" /\ \A v \in Withdrawals \ {w} : row'[v] = row[v]
    BY <1>3, SetEffect DEF MarkRequestFailed, Statuses
  <2>2. ~Closed(w)
    BY <2>1 DEF Closed, Held, HeldRows
  <2> QED BY <2>1, <2>2 DEF Closed
<1>4. ASSUME NEW a \in Admins, Approve(a)
      PROVE  \A v \in Withdrawals : Closed(v) => Closed(v)'
  <2> DEFINE w == review[a].withdrawal
  <2>1. CASE UNCHANGED row
    BY <2>1 DEF Closed
  <2>2. CASE Approvable(a) /\ row' = [row EXCEPT ![w] = ApprovedRow(a, row[w])]
    <3>1. w \in Withdrawals /\ \A v \in Withdrawals \ {w} : row'[v] = row[v]
      BY <1>4, <2>2, ReviewType, ApproveRowEffect DEF Approve
    <3>2. ~Closed(w)
      BY <2>2 DEF Approvable, Closed
    <3> QED BY <3>1, <3>2 DEF Closed
  <2> QED BY <1>4, <2>1, <2>2 DEF Approve
<1>5. ASSUME NEW a \in Admins, Reject(a)
      PROVE  \A v \in Withdrawals : Closed(v) => Closed(v)'
  <2> DEFINE w == review[a].withdrawal
  <2>1. \/ UNCHANGED row
        \/ /\ row'[w].status = "REJECTED" /\ row'[w].hold = row[w].hold
           /\ \A v \in Withdrawals \ {w} : row'[v] = row[v]
    BY <1>5, RejectEffect
  <2> HIDE DEF w
  <2> QED BY <2>1 DEF Closed
<1>6. ASSUME NEW k \in Workers, NEW item \in worker[k].todo, Claim(k, item)
      PROVE  \A v \in Withdrawals : Closed(v) => Closed(v)'
  <2> DEFINE w == item.withdrawal
  <2>1. w \in Withdrawals
    BY WorkerStates DEF Items
  <2>2. \/ UNCHANGED row
        \/ row[w].status = "APPROVED" /\ \A v \in Withdrawals \ {w} : row'[v] = row[v]
    BY <1>6, <2>1, SetEffect DEF Claim, Claimable, Statuses
  <2> HIDE DEF w
  <2> QED BY <2>1, <2>2 DEF Closed
<1>7. ASSUME NEW k \in Workers, SetBroadcast(k)
      PROVE  \A v \in Withdrawals : Closed(v) => Closed(v)'
  <2> DEFINE w == Current(k)
  <2>1. row[w].status \in Taken
    BY <1>7 DEF SetBroadcast, Claims, Handles, Handling
  <2>2. UNCHANGED row \/ \A v \in Withdrawals \ {w} : row'[v] = row[v]
    BY <1>7, CurrentType, BroadcastRowEffect DEF SetBroadcast, Handling, Statuses
  <2> HIDE DEF w
  <2> QED BY <2>1, <2>2 DEF Closed, Taken
<1>8. ASSUME NEW k \in Workers, SetConfirming(k)
      PROVE  \A v \in Withdrawals : Closed(v) => Closed(v)'
  <2> DEFINE w == Current(k)
  <2>1. row[w].status \in Taken
    BY <1>8 DEF SetConfirming, Claims, Handles, Handling
  <2>2. UNCHANGED row \/ \A v \in Withdrawals \ {w} : row'[v] = row[v]
    BY <1>8, CurrentType, SetConfirmingEffect DEF SetConfirming, Handling, Statuses
  <2> HIDE DEF w
  <2> QED BY <2>1, <2>2 DEF Closed, Taken
<1>9. ASSUME NEW k \in Workers, MarkCompleted(k)
      PROVE  \A v \in Withdrawals : Closed(v) => Closed(v)'
  <2> DEFINE w == Current(k)
  <2>1. row[w].status \in Taken
    BY <1>9 DEF MarkCompleted, Claims, Handles, Handling
  <2>2. UNCHANGED row \/ \A v \in Withdrawals \ {w} : row'[v] = row[v]
    BY <1>9, CurrentType, MarkCompletedEffect DEF MarkCompleted, Handling, Statuses
  <2> HIDE DEF w
  <2> QED BY <2>1, <2>2 DEF Closed, Taken
<1>10. ASSUME NEW k \in Workers, MarkFailed(k)
      PROVE  \A v \in Withdrawals : Closed(v) => Closed(v)'
  <2> DEFINE w == Current(k)
  <2>1. row[w].status \in Taken
    BY <1>10 DEF MarkFailed, Claims, Handles, Handling
  <2>2. UNCHANGED row \/ \A v \in Withdrawals \ {w} : row'[v] = row[v]
    BY <1>10, CurrentType, SetEffect DEF MarkFailed, Handling, Statuses
  <2> HIDE DEF w
  <2> QED BY <2>1, <2>2 DEF Closed, Taken
<1>11. ASSUME NEW k \in Workers, BroadcastError(k)
      PROVE  \A v \in Withdrawals : Closed(v) => Closed(v)'
  <2> DEFINE w == Current(k)
  <2>1. row[w].status \in Taken
    BY <1>11 DEF BroadcastError, Claims, Handles, Handling
  <2>2. UNCHANGED row \/ \A v \in Withdrawals \ {w} : row'[v] = row[v]
    BY <1>11, CurrentType, BroadcastRowEffect DEF BroadcastError, Handling, Statuses
  <2> HIDE DEF w
  <2> QED BY <2>1, <2>2 DEF Closed, Taken
<1>12. ASSUME NEW w \in Withdrawals, Decide(w)
      PROVE  \A v \in Withdrawals : Closed(v) => Closed(v)'
  BY <1>12, DecideEffect DEF Closed
<1>13. ASSUME \/ \E w \in Withdrawals : CheckRequest(w) \/ PlaceHold(w) \/ RequestLost(w)
              \/ \E a \in Admins : ReleaseRejected(a) \/ ReviewLost(a)
              \/ \E a \in Admins, w \in Withdrawals, kind \in {"approve", "reject"} :
                   OpenReview(a, w, kind)
              \/ \E k \in Workers : List(k) \/ EndPass(k) \/ AllocateNonce(k) \/ Broadcast(k) \/ FinalizeLedger(k) \/ ReleaseFailed(k) \/ WorkerLost(k)
              \/ \E k \in Workers : \E item \in worker[k].todo :
                   Poll(k, item)
              \/ Freeze \/ AddAddress \/ CoolingOffEnds
              \/ UNCHANGED vars
      PROVE  \A v \in Withdrawals : Closed(v) => Closed(v)'
  BY <1>13
  DEF Freeze, AddAddress, CoolingOffEnds, vars, gates, CheckRequest,
      PlaceHold, RequestLost, OpenReview, ReleaseRejected, ReviewLost, List,
      EndPass, Poll, AllocateNonce, Broadcast, FinalizeLedger, ReleaseFailed,
      WorkerLost, Closed
<1> QED
  BY <1>1, <1>2, <1>3, <1>4, <1>5, <1>6, <1>7, <1>8, <1>9, <1>10, <1>11,
     <1>12, <1>13 DEF Next, RequestStep, ReviewStep, WorkerStep

-----------------------------------------------------------------------------
(* Without failures, a hold is given back only when the outcome is known.  *)
LEMMA KeepsReleased ==
    ASSUME TypeOK, Released, failures = 0,
           \A v \in Withdrawals : Closed(v) => Closed(v)',
           \A v \in Withdrawals : Dropped(v) => Dropped(v)',
           \A v \in Withdrawals : ReleaseRef(v) \in posted' =>
               ReleaseRef(v) \in posted \/ Closed(v) \/ Dropped(v),
           \A a \in Admins : review'[a].at = "release" =>
               review'[a] = review[a] \/ Closed(review[a].withdrawal)',
           \A k \in Workers : worker'[k].at \in {"fail", "release"} =>
               \/ /\ worker[k].at \in {"fail", "release"}
                  /\ Current(k)' = Current(k)
               \/ Dropped(Current(k))'
    PROVE  Released'
<1>1. \A v \in Withdrawals : ReleaseRef(v) \in posted' => Closed(v)' \/ Dropped(v)'
  BY DEF Released
<1>2. \A a \in Admins : review'[a].at = "release" => Closed(review[a].withdrawal)'
  BY ReviewType DEF Released
<1>3. \A k \in Workers : worker'[k].at \in {"fail", "release"} => Dropped(Current(k))'
  BY CurrentType DEF Released, Handling
<1> QED BY <1>1, <1>2, <1>3 DEF Released

(* Failures are counted.                                                  *)
LEMMA FailureCount ==
    ASSUME TypeOK, [Next]_vars, failures' = 0
    PROVE  failures = 0
<1>1. ASSUME NEW w \in Withdrawals, RequestLost(w) PROVE failures = 0
  BY <1>1 DEF Failure, TypeOK, RequestLost
<1>2. ASSUME NEW a \in Admins, ReviewLost(a) PROVE failures = 0
  BY <1>2 DEF Failure, TypeOK, ReviewLost
<1>3. ASSUME NEW k \in Workers, BroadcastError(k) PROVE failures = 0
  BY <1>3 DEF Failure, TypeOK, BroadcastError
<1>4. ASSUME NEW k \in Workers, WorkerLost(k) PROVE failures = 0
  BY <1>4 DEF Failure, TypeOK, WorkerLost
<1>5. ASSUME NEW w \in Withdrawals, Decide(w) PROVE failures = 0
  BY <1>5, DecideEffect
<1>6. ASSUME NEW w \in Withdrawals,
             \/ CheckRequest(w) \/ CreateWithdrawal(w) \/ PlaceHold(w)
             \/ SetHold(w) \/ MarkRequestFailed(w)
      PROVE  failures = 0
  BY <1>6 DEF CheckRequest, CreateWithdrawal, PlaceHold, SetHold, MarkRequestFailed
<1>7. ASSUME NEW a \in Admins, Approve(a) \/ Reject(a) \/ ReleaseRejected(a)
      PROVE  failures = 0
  BY <1>7 DEF Approve, Reject, ReleaseRejected
<1>8. ASSUME NEW a \in Admins, NEW w \in Withdrawals, NEW kind, OpenReview(a, w, kind)
      PROVE  failures = 0
  BY <1>8 DEF OpenReview
<1>9. ASSUME NEW k \in Workers,
             \/ List(k) \/ EndPass(k) \/ AllocateNonce(k) \/ Broadcast(k)
             \/ SetBroadcast(k) \/ SetConfirming(k) \/ FinalizeLedger(k)
             \/ MarkCompleted(k) \/ MarkFailed(k) \/ ReleaseFailed(k)
      PROVE  failures = 0
  BY <1>9 DEF List, EndPass, AllocateNonce, Broadcast, SetBroadcast, SetConfirming,
              FinalizeLedger, MarkCompleted, MarkFailed, ReleaseFailed
<1>10. ASSUME NEW k \in Workers, NEW item, Claim(k, item) \/ Poll(k, item)
       PROVE  failures = 0
  BY <1>10 DEF Claim, Poll
<1>11. CASE Freeze \/ AddAddress \/ CoolingOffEnds \/ UNCHANGED vars
  BY <1>11 DEF Freeze, AddAddress, CoolingOffEnds, vars
<1> QED
  BY <1>1, <1>2, <1>3, <1>4, <1>5, <1>6, <1>7, <1>8, <1>9, <1>10, <1>11
  DEF Next, RequestStep, ReviewStep, WorkerStep

LEMMA ReleasedStep ==
    ASSUME Parameters, TypeOK, Claims, Held, Released, [Next]_vars
    PROVE  Released'
<1> SUFFICES ASSUME failures' = 0 PROVE Released'
  BY DEF Released
<1>0. /\ failures = 0
      /\ \A v \in Withdrawals : Closed(v) => Closed(v)'
      /\ \A v \in Withdrawals : Dropped(v) => Dropped(v)'
  <2>1. failures = 0
    BY FailureCount
  <2> QED BY <2>1, ClosedStays, DroppedStays
<1>1. ASSUME NEW w \in Withdrawals, CheckRequest(w) PROVE Released'
  BY <1>1, <1>0, KeepsReleased DEF Current, CheckRequest
<1>2. ASSUME NEW w \in Withdrawals, CreateWithdrawal(w) PROVE Released'
  BY <1>2, <1>0, KeepsReleased DEF Current, CreateWithdrawal
<1>3. ASSUME NEW w \in Withdrawals, PlaceHold(w) PROVE Released'
  <2>1. \A v \in Withdrawals : ReleaseRef(v) \in posted' => ReleaseRef(v) \in posted
    BY <1>3, PostEffect DEF PlaceHold, ledger, HoldRef, ReleaseRef
  <2> QED BY <1>3, <1>0, <2>1, KeepsReleased DEF PlaceHold, Current
<1>4. ASSUME NEW w \in Withdrawals, SetHold(w) PROVE Released'
  BY <1>4, <1>0, KeepsReleased DEF Current, SetHold
<1>5. ASSUME NEW w \in Withdrawals, MarkRequestFailed(w) PROVE Released'
  BY <1>5, <1>0, KeepsReleased DEF Current, MarkRequestFailed
<1>6. ASSUME NEW w \in Withdrawals, RequestLost(w) PROVE Released'
  BY <1>6, <1>0 DEF Failure, TypeOK, RequestLost
<1>7. ASSUME NEW a \in Admins, NEW w \in Withdrawals, NEW kind \in {"approve", "reject"}, OpenReview(a, w, kind)
      PROVE  Released'
  <2> DEFINE r == [at |-> kind, withdrawal |-> w, seen |-> row[w]]
  <2>1. r \in Reviews /\ r.at # "release"
    BY RowType DEF Reviews
  <2>2. GoReview(a, r) /\ UNCHANGED <<posted, worker, failures>>
    BY <1>7 DEF OpenReview
  <2> HIDE DEF r
  <2>3. \A c \in Admins : review'[c].at = "release" => review'[c] = review[c]
    BY <2>1, <2>2, ReviewEffect
  <2> QED BY <1>0, <2>2, <2>3, KeepsReleased DEF Current
<1>8. ASSUME NEW a \in Admins, Approve(a) PROVE Released'
  <2>1. \A c \in Admins : review'[c].at = "release" => review'[c] = review[c]
    BY <1>8, ReviewEffect DEF Approve, IdleReview
  <2> QED BY <1>8, <1>0, <2>1, KeepsReleased DEF Approve, Current
<1>9. ASSUME NEW a \in Admins, Reject(a) PROVE Released'
  <2> DEFINE w == review[a].withdrawal
  <2>1. /\ \A c \in Admins \ {a} : review'[c] = review[c]
        /\ review'[a].at = "release" =>
              /\ review[a].seen.hold /\ review'[a].withdrawal = w
              /\ row'[w].status = "REJECTED" /\ row'[w].hold = row[w].hold
    BY <1>9, RejectEffect DEF IdleReview
  <2>2. review[a].seen.hold => row[w].hold
    BY <1>9 DEF Reject, Held, HeldReviews
  <2>3. review'[a].at = "release" => Closed(review[a].withdrawal)'
    BY <2>1, <2>2 DEF Closed
  <2> QED BY <1>9, <1>0, <2>1, <2>3, KeepsReleased DEF Reject, Current
<1>10. ASSUME NEW a \in Admins, ReleaseRejected(a) PROVE Released'
  <2> DEFINE w == review[a].withdrawal
  <2>1. w \in Withdrawals /\ Closed(w)
    BY <1>10, <1>0, ReviewType DEF ReleaseRejected, Released
  <2>2. posted' \in {posted, posted \cup {ReleaseRef(w)}}
    BY <1>10, PostEffect DEF ReleaseRejected, releaseHold, ledger
  <2>3. \A c \in Admins : review'[c].at = "release" => review'[c] = review[c]
    BY <1>10, ReviewEffect DEF ReleaseRejected, IdleReview
  <2>4. \A v \in Withdrawals : ReleaseRef(v) \in posted' =>
           ReleaseRef(v) \in posted \/ Closed(v)
    <3> HIDE DEF w
    <3> QED BY <2>1, <2>2 DEF ReleaseRef
  <2> QED BY <1>10, <1>0, <2>3, <2>4, KeepsReleased DEF ReleaseRejected, Current
<1>11. ASSUME NEW a \in Admins, ReviewLost(a) PROVE Released'
  BY <1>11, <1>0 DEF Failure, TypeOK, ReviewLost
<1>12. ASSUME NEW k \in Workers, List(k) PROVE Released'
  <2>1. /\ worker'[k].at \notin {"fail", "release"}
        /\ \A j \in Workers \ {k} : worker'[j] = worker[j]
    BY <1>12, ListEffect DEF List, Handling
  <2> QED BY <1>12, <1>0, <2>1, KeepsReleased DEF List, Current
<1>13. ASSUME NEW k \in Workers, EndPass(k) PROVE Released'
  <2>1. /\ worker'[k].at \notin {"fail", "release"}
        /\ \A j \in Workers \ {k} : worker'[j] = worker[j]
    BY <1>13, EndPassEffect DEF EndPass, Handling
  <2> QED BY <1>13, <1>0, <2>1, KeepsReleased DEF EndPass, Current
<1>14. ASSUME NEW k \in Workers, NEW item \in worker[k].todo, Claim(k, item)
      PROVE  Released'
  <2>1. /\ worker'[k].at \notin {"fail", "release"}
        /\ \A j \in Workers \ {k} : worker'[j] = worker[j]
    BY <1>14, TakeEffect, SkipEffect DEF Claim, Handling
  <2> QED BY <1>14, <1>0, <2>1, KeepsReleased DEF Claim, Current
<1>15. ASSUME NEW k \in Workers, NEW item \in worker[k].todo, Poll(k, item)
      PROVE  Released'
  <2>1. UNCHANGED <<row, chain, posted, review, failures>>
    BY <1>15 DEF Poll
  <2>2. /\ worker'[k].at \in {"fail", "release"} =>
              worker'[k].item = item /\ Dropped(item.withdrawal)
        /\ \A j \in Workers \ {k} : worker'[j] = worker[j]
    <3>1. CASE Take(k, item, "fail")
      <4>1. \A at \in {"final", "promote"} : ~Take(k, item, at)
        BY <3>1, TakeEffect DEF Handling
      <4>2. ~Skip(k, item)
        BY <1>15, <3>1, TakeEffect, SkipEffect DEF Poll, Handling
      <4>3. Dropped(item.withdrawal)
        BY <1>15, <4>1, <4>2 DEF Poll, Sent, Fate, Dropped
      <4> QED BY <3>1, <4>3, TakeEffect DEF Handling
    <3>2. CASE \E at \in {"final", "promote"} : Take(k, item, at)
      BY <3>2, TakeEffect DEF Handling
    <3>3. CASE Skip(k, item)
      BY <1>15, <3>3, SkipEffect DEF Poll
    <3> QED BY <1>15, <3>1, <3>2, <3>3 DEF Poll
  <2> QED BY <1>0, <2>1, <2>2, KeepsReleased DEF Current, Dropped
<1>16. ASSUME NEW k \in Workers, AllocateNonce(k) PROVE Released'
  <2>1. /\ worker'[k].at \notin {"fail", "release"}
        /\ \A j \in Workers \ {k} : worker'[j] = worker[j]
    BY <1>16, NonceEffect DEF AllocateNonce, Handling
  <2> QED BY <1>16, <1>0, <2>1, KeepsReleased DEF AllocateNonce, Current
<1>17. ASSUME NEW k \in Workers, Broadcast(k) PROVE Released'
  <2>1. /\ worker'[k].at \notin {"fail", "release"}
        /\ \A j \in Workers \ {k} : worker'[j] = worker[j]
    BY <1>17, ContinueEffect DEF Broadcast, Handling
  <2> QED BY <1>17, <1>0, <2>1, KeepsReleased DEF Broadcast, Current
<1>18. ASSUME NEW k \in Workers, SetBroadcast(k) PROVE Released'
  <2>1. /\ worker'[k].at \notin {"fail", "release"}
        /\ \A j \in Workers \ {k} : worker'[j] = worker[j]
    BY <1>18, NextItemEffect DEF SetBroadcast, Handling
  <2> QED BY <1>18, <1>0, <2>1, KeepsReleased DEF SetBroadcast, Current
<1>19. ASSUME NEW k \in Workers, SetConfirming(k) PROVE Released'
  <2>1. /\ worker'[k].at \notin {"fail", "release"}
        /\ \A j \in Workers \ {k} : worker'[j] = worker[j]
    BY <1>19, NextItemEffect DEF SetConfirming, Handling
  <2> QED BY <1>19, <1>0, <2>1, KeepsReleased DEF SetConfirming, Current
<1>20. ASSUME NEW k \in Workers, FinalizeLedger(k) PROVE Released'
  <2>1. /\ worker'[k].at \notin {"fail", "release"}
        /\ \A j \in Workers \ {k} : worker'[j] = worker[j]
    BY <1>20, ContinueEffect, NextItemEffect DEF FinalizeLedger, Handling
  <2>2. \A v \in Withdrawals : ReleaseRef(v) \in posted' => ReleaseRef(v) \in posted
    BY <1>20, PostEffect DEF FinalizeLedger, ledger, FinalRef, ReleaseRef
  <2> QED BY <1>20, <1>0, <2>1, <2>2, KeepsReleased DEF FinalizeLedger, Current
<1>21. ASSUME NEW k \in Workers, MarkCompleted(k) PROVE Released'
  <2>1. /\ worker'[k].at \notin {"fail", "release"}
        /\ \A j \in Workers \ {k} : worker'[j] = worker[j]
    BY <1>21, NextItemEffect DEF MarkCompleted, Handling
  <2> QED BY <1>21, <1>0, <2>1, KeepsReleased DEF MarkCompleted, Current
<1>22. ASSUME NEW k \in Workers, MarkFailed(k) PROVE Released'
  <2>1. worker[k].at = "fail" /\ UNCHANGED <<posted, review>>
    BY <1>22 DEF MarkFailed
  <2>2. /\ worker'[k].at = "release" => worker'[k].item = worker[k].item
        /\ worker'[k].at # "fail"
        /\ \A j \in Workers \ {k} : worker'[j] = worker[j]
    BY <1>22, NextItemEffect, ContinueEffect DEF MarkFailed, Handling
  <2> QED BY <1>0, <2>1, <2>2, KeepsReleased DEF Current
<1>23. ASSUME NEW k \in Workers, ReleaseFailed(k) PROVE Released'
  <2>1. /\ worker'[k].at \notin {"fail", "release"}
        /\ \A j \in Workers \ {k} : worker'[j] = worker[j]
    BY <1>23, NextItemEffect DEF ReleaseFailed
  <2>2. Current(k) \in Withdrawals /\ Dropped(Current(k))
    BY <1>23, <1>0, CurrentType DEF ReleaseFailed, Released, Handling
  <2>3. posted' \in {posted, posted \cup {ReleaseRef(Current(k))}}
    BY <1>23, PostEffect DEF ReleaseFailed, ledger
  <2>4. \A v \in Withdrawals : ReleaseRef(v) \in posted' =>
           ReleaseRef(v) \in posted \/ Dropped(v)
    BY <2>2, <2>3 DEF ReleaseRef
  <2> QED BY <1>23, <1>0, <2>1, <2>4, KeepsReleased DEF ReleaseFailed, Current
<1>24. ASSUME NEW k \in Workers, BroadcastError(k) PROVE Released'
  BY <1>24, <1>0 DEF Failure, TypeOK, BroadcastError
<1>25. ASSUME NEW k \in Workers, WorkerLost(k) PROVE Released'
  BY <1>25, <1>0 DEF Failure, TypeOK, WorkerLost
<1>26. ASSUME NEW w \in Withdrawals, Decide(w) PROVE Released'
  BY <1>26, <1>0, DecideEffect, KeepsReleased DEF Current
<1>27. ASSUME \/ Freeze \/ AddAddress \/ CoolingOffEnds
              \/ UNCHANGED vars
      PROVE  Released'
  BY <1>27, <1>0, KeepsReleased
  DEF Freeze, AddAddress, CoolingOffEnds, vars, gates, Current
<1> QED
  BY <1>1, <1>2, <1>3, <1>4, <1>5, <1>6, <1>7, <1>8, <1>9, <1>10, <1>11,
     <1>12, <1>13, <1>14, <1>15, <1>16, <1>17, <1>18, <1>19, <1>20, <1>21,
     <1>22, <1>23, <1>24, <1>25, <1>26, <1>27
  DEF Next, RequestStep, ReviewStep, WorkerStep

LEMMA ReleasedInvariant == ASSUME Parameters PROVE Spec => []Released
<1>1. Init => Released
  BY Start DEF Released, ReleaseRef
<1>2. SentInv /\ Held /\ Released /\ [Next]_vars => Released'
  BY ReleasedStep DEF SentInv
<1> QED BY <1>1, <1>2, SentInvariant, HeldInvariant, PTL DEF Spec

(* The release of a hold, by a rejection or by a failed broadcast, means    *)
(* that nothing was sent or that what was sent was dropped, as long as no   *)
(* call fails. An error of setBroadcast is what run WithdrawalLostRecord    *)
(* needs to refute it.                                                     *)
THEOREM HeldWithoutFailures ==
    ASSUME Parameters PROVE Spec => [](failures = 0 => HeldUntilOutcomeKnown)
<1>1. SentInv /\ Released => (failures = 0 => HeldUntilOutcomeKnown)
  <2> SUFFICES ASSUME SentInv, Released, failures = 0, NEW t \in chain,
                      ReleaseRef(t.withdrawal) \in posted
               PROVE  t.state = "failed"
    BY DEF HeldUntilOutcomeKnown
  <2>1. t.withdrawal \in Withdrawals /\ row[t.withdrawal].status \in Taken
    BY DEF SentInv, TypeOK, Claims
  <2>2. Dropped(t.withdrawal)
    BY <2>1 DEF Released, Closed, Taken
  <2> QED BY <2>2 DEF Dropped, SentInv, SentOnce
<1> QED BY <1>1, SentInvariant, ReleasedInvariant, PTL

(* Hence for a behaviour in which nothing fails at all.                    *)
THEOREM HeldUntilKnown ==
    ASSUME Parameters, MaxFailures = 0 PROVE Spec => []HeldUntilOutcomeKnown
<1>1. TypeOK => failures = 0
  BY DEF TypeOK
<1> QED BY <1>1, TypeCorrect, HeldWithoutFailures, PTL

-----------------------------------------------------------------------------
(* The consent of two admins for a large withdrawal, when reviews wait for the   *)
(* request to end.                                                         *)
LEMMA KeepsReviewed ==
    ASSUME TypeOK, Reviewed, UNCHANGED approvals,
           \A a \in Admins : review'[a].at # "idle" =>
               \/ review'[a] = review[a]
               \/ request'[review'[a].withdrawal] = "done",
           \A v \in Withdrawals :
               /\ request[v] = "done" => request'[v] = "done"
               /\ request'[v] # "done" => row'[v].approvedBy = row[v].approvedBy
               /\ row'[v].status \in {"PENDING_APPROVAL", "APPROVED"} => row'[v] = row[v],
           \A k \in Workers : Handles(k)' =>
               \/ Handles(k) /\ Current(k)' = Current(k)
               \/ Consented(Current(k)'),
           \A t \in chain' : t \in chain \/ Consented(t.withdrawal)
    PROVE  Reviewed'
<1>1. \A a \in Admins : review'[a].at # "idle" => request'[review'[a].withdrawal] = "done"
  BY ReviewType DEF Reviewed
<1>2. \A v \in Withdrawals : Consented(v) <=> Consented(v)'
  BY DEF Consented
<1>3. \A v \in Withdrawals :
         /\ request'[v] # "done" => row'[v].approvedBy = NoAdmin
         /\ row'[v].status = "PENDING_APPROVAL" =>
               /\ row'[v].approvedBy2 = NoAdmin
               /\ row'[v].approvedBy \in approvals'[v] \cup {NoAdmin}
         /\ row'[v].status = "APPROVED" => Consented(v)'
         /\ IsFiniteSet(approvals'[v])
  BY <1>2 DEF Reviewed
<1>4. \A k \in Workers : Handles(k)' => Consented(Current(k))'
  BY DEF Reviewed, Consented
<1>5. \A t \in chain' : Consented(t.withdrawal)'
  BY DEF Reviewed, Consented
<1> QED BY <1>1, <1>3, <1>4, <1>5 DEF Reviewed

LEMMA ReviewedStep ==
    ASSUME Parameters, EarlyReview = FALSE, TypeOK, Claims, Reviewed, [Next]_vars
    PROVE  Reviewed'
<1>1. ASSUME NEW w \in Withdrawals, CheckRequest(w) PROVE Reviewed'
  BY <1>1, KeepsReviewed DEF GoRequest, TypeOK, Handles, Current, CheckRequest
<1>2. ASSUME NEW w \in Withdrawals, CreateWithdrawal(w) PROVE Reviewed'
  BY <1>2, SetEffect, KeepsReviewed
  DEF GoRequest, TypeOK, Statuses, Handles, Current, CreateWithdrawal
<1>3. ASSUME NEW w \in Withdrawals, PlaceHold(w) PROVE Reviewed'
  BY <1>3, KeepsReviewed DEF GoRequest, TypeOK, Handles, Current, PlaceHold
<1>4. ASSUME NEW w \in Withdrawals, SetHold(w) PROVE Reviewed'
  <2>1. /\ request[w] = "bind" /\ request'[w] = "done"
        /\ row'[w].status = "PENDING_APPROVAL"
        /\ row'[w].approvedBy = row[w].approvedBy
        /\ row'[w].approvedBy2 = row[w].approvedBy2
        /\ \A v \in Withdrawals \ {w} : row'[v] = row[v] /\ request'[v] = request[v]
        /\ UNCHANGED <<review, worker, chain, approvals>>
    BY <1>4, SetHoldEffect DEF SetHold, GoRequest, TypeOK
  <2>2. row[w].approvedBy = NoAdmin /\ row[w].approvedBy2 = NoAdmin
    BY <2>1 DEF Reviewed, TypeOK
  <2>3. \A a \in Admins : review[a].at # "idle" => review[a].withdrawal # w
    BY <2>1 DEF Reviewed
  <2>4. \A a \in Admins : review'[a].at # "idle" => request'[review'[a].withdrawal] = "done"
    BY <2>1, <2>3, ReviewType DEF Reviewed
  <2>5. \A v \in Withdrawals :
           /\ request'[v] # "done" => row'[v].approvedBy = NoAdmin
           /\ row'[v].status = "PENDING_APPROVAL" =>
                 /\ row'[v].approvedBy2 = NoAdmin
                 /\ row'[v].approvedBy \in approvals'[v] \cup {NoAdmin}
           /\ row'[v].status = "APPROVED" => Consented(v)'
           /\ IsFiniteSet(approvals'[v])
    BY <2>1, <2>2 DEF Reviewed, Consented
  <2>6. /\ \A k \in Workers : Handles(k)' => Consented(Current(k))'
        /\ \A t \in chain' : Consented(t.withdrawal)'
    BY <2>1 DEF Reviewed, Consented, Handles, Current
  <2> QED BY <2>4, <2>5, <2>6 DEF Reviewed
<1>5. ASSUME NEW w \in Withdrawals, MarkRequestFailed(w) PROVE Reviewed'
  BY <1>5, SetEffect, KeepsReviewed
  DEF GoRequest, TypeOK, Statuses, Handles, Current, MarkRequestFailed
<1>6. ASSUME NEW w \in Withdrawals, RequestLost(w) PROVE Reviewed'
  BY <1>6, KeepsReviewed DEF GoRequest, TypeOK, Handles, Current, RequestLost
<1>7. ASSUME NEW a \in Admins, NEW w \in Withdrawals, NEW kind \in {"approve", "reject"}, OpenReview(a, w, kind)
      PROVE  Reviewed'
  <2> DEFINE r == [at |-> kind, withdrawal |-> w, seen |-> row[w]]
  <2>1. r \in Reviews /\ r.withdrawal = w
    BY RowType DEF Reviews
  <2>2. /\ GoReview(a, r) /\ request[w] = "done"
        /\ UNCHANGED <<row, request, worker, chain, approvals>>
    BY <1>7 DEF OpenReview
  <2> HIDE DEF r
  <2>3. /\ review'[a].withdrawal = w /\ \A c \in Admins \ {a} : review'[c] = review[c]
    BY <2>1, <2>2, ReviewEffect
  <2> QED BY <2>2, <2>3, KeepsReviewed DEF Handles, Current
<1>8. ASSUME NEW a \in Admins, Approve(a) PROVE Reviewed'
  <2>0. PICK w \in Withdrawals : w = review[a].withdrawal
    BY <1>8, ReviewType DEF Approve
  <2>1. /\ review'[a].at = "idle" /\ request[w] = "done"
        /\ \A c \in Admins \ {a} : review'[c] = review[c]
        /\ UNCHANGED <<request, worker, chain>>
    BY <1>8, <2>0, ReviewType, ReviewEffect DEF Approve, IdleReview, Reviewed
  <2>2. CASE UNCHANGED <<row, approvals>>
    BY <2>1, <2>2, KeepsReviewed DEF Handles, Current
  <2>3. CASE /\ Approvable(a) /\ row' = [row EXCEPT ![w] = ApprovedRow(a, row[w])]
             /\ approvals' = [approvals EXCEPT ![w] = @ \cup {a}]
    <3>1. /\ row'[w].approvedBy \notin {NoAdmin, row'[w].approvedBy2}
          /\ a \in {row'[w].approvedBy, row'[w].approvedBy2}
          /\ row[w].approvedBy # NoAdmin => row'[w].approvedBy = row[w].approvedBy
          /\ row[w].approvedBy = NoAdmin => row'[w].approvedBy = a
          /\ row'[w].approvedBy2 # NoAdmin => row'[w].status = "APPROVED"
          /\ Large(w) /\ row'[w].status = "APPROVED" => row'[w].approvedBy2 = a
          /\ \A v \in Withdrawals \ {w} : row'[v] = row[v]
      BY <1>8, <2>0, <2>3, ApproveRowEffect DEF Approve
    <3>2. /\ row[w].approvedBy \in approvals[w] \cup {NoAdmin}
          /\ IsFiniteSet(approvals[w])
      BY <2>0, <2>3 DEF Approvable, Reviewed
    <3>3. /\ approvals'[w] = approvals[w] \cup {a}
          /\ \A v \in Withdrawals \ {w} : approvals'[v] = approvals[v]
      BY <2>1, <2>3 DEF TypeOK
    <3>4. IsFiniteSet(approvals'[w])
      BY <3>2, <3>3, FS_AddElement
    <3>5. \A v \in Withdrawals : approvals[v] \subseteq approvals'[v]
      BY <2>1, <3>3
    <3>6. row'[w].approvedBy \in approvals'[w]
      BY <3>1, <3>2, <3>3
    <3>7. row'[w].status = "APPROVED" => Consented(w)'
      BY <3>1, <3>3, <3>6 DEF Consented, Large
    <3>8. \A v \in Withdrawals : Consented(v) => Consented(v)'
      BY <3>5 DEF Consented, Large
    <3>9. \A c \in Admins :
             review'[c].at # "idle" => request'[review'[c].withdrawal] = "done"
      BY <2>1 DEF Reviewed
    <3>10. \A v \in Withdrawals :
              /\ request'[v] # "done" => row'[v].approvedBy = NoAdmin
              /\ row'[v].status = "PENDING_APPROVAL" =>
                    /\ row'[v].approvedBy2 = NoAdmin
                    /\ row'[v].approvedBy \in approvals'[v] \cup {NoAdmin}
              /\ row'[v].status = "APPROVED" => Consented(v)'
              /\ IsFiniteSet(approvals'[v])
      BY <2>1, <3>1, <3>3, <3>4, <3>6, <3>7, <3>8 DEF Reviewed
    <3>11. \A k \in Workers : Handles(k)' => Consented(Current(k))'
      BY <2>1, <3>8, CurrentType DEF Reviewed, Handles, Current, Consented
    <3>12. \A t \in chain' : Consented(t.withdrawal)'
      BY <2>1, <3>8 DEF Reviewed, TypeOK, Consented
    <3> QED BY <3>9, <3>10, <3>11, <3>12 DEF Reviewed
  <2> QED BY <1>8, <2>0, <2>2, <2>3 DEF Approve
<1>9. ASSUME NEW a \in Admins, Reject(a) PROVE Reviewed'
  <2> DEFINE w == review[a].withdrawal
  <2>1. w \in Withdrawals /\ request[w] = "done"
    BY <1>9, RejectEffect DEF Reject, Reviewed
  <2>2. \/ UNCHANGED row
        \/ /\ row'[w].status = "REJECTED"
           /\ \A v \in Withdrawals \ {w} : row'[v] = row[v]
    BY <1>9, RejectEffect
  <2>3. /\ \A c \in Admins \ {a} : review'[c] = review[c]
        /\ review'[a].at # "idle" => review'[a].withdrawal = w
        /\ UNCHANGED <<request, worker, chain, approvals>>
    BY <1>9, RejectEffect DEF Reject, IdleReview
  <2> HIDE DEF w
  <2> QED BY <2>1, <2>2, <2>3, KeepsReviewed DEF Handles, Current
<1>10. ASSUME NEW a \in Admins, ReleaseRejected(a) PROVE Reviewed'
  <2>1. review'[a].at = "idle" /\ \A c \in Admins \ {a} : review'[c] = review[c]
    BY <1>10, ReviewEffect DEF ReleaseRejected, IdleReview
  <2> QED BY <1>10, <2>1, KeepsReviewed DEF ReleaseRejected, Handles, Current
<1>11. ASSUME NEW a \in Admins, ReviewLost(a) PROVE Reviewed'
  <2>1. review'[a].at = "idle" /\ \A c \in Admins \ {a} : review'[c] = review[c]
    BY <1>11, ReviewEffect DEF ReviewLost, IdleReview
  <2> QED BY <1>11, <2>1, KeepsReviewed DEF ReviewLost, Handles, Current
<1>12. ASSUME NEW k \in Workers, List(k) PROVE Reviewed'
  <2>1. /\ worker'[k].at \notin Handling
        /\ \A j \in Workers \ {k} : worker'[j] = worker[j]
    BY <1>12, ListEffect DEF List, Handling
  <2> QED BY <1>12, <2>1, KeepsReviewed DEF List, Handles, Current
<1>13. ASSUME NEW k \in Workers, EndPass(k) PROVE Reviewed'
  <2>1. /\ worker'[k].at \notin Handling
        /\ \A j \in Workers \ {k} : worker'[j] = worker[j]
    BY <1>13, EndPassEffect DEF EndPass, Handling
  <2> QED BY <1>13, <2>1, KeepsReviewed DEF EndPass, Handles, Current
<1>14. ASSUME NEW k \in Workers, NEW item \in worker[k].todo, Claim(k, item)
      PROVE  Reviewed'
  <2> DEFINE w == item.withdrawal
  <2>1. w \in Withdrawals /\ UNCHANGED <<request, review, chain, approvals>>
    BY <1>14, WorkerStates DEF Items, Claim
  <2>2. \/ UNCHANGED row /\ worker'[k].at = "item"
        \/ /\ row[w].status = "APPROVED" /\ row'[w].status = "SIGNING"
           /\ row'[w].approvedBy = row[w].approvedBy
           /\ \A v \in Withdrawals \ {w} : row'[v] = row[v]
           /\ worker'[k].item = item
    BY <1>14, <2>1, SetEffect, SkipEffect, TakeEffect DEF Claim, Claimable, Statuses, Handling
  <2>3. \A j \in Workers \ {k} : worker'[j] = worker[j]
    BY <1>14, SkipEffect, TakeEffect DEF Claim, Handling
  <2>4. row[w].status = "APPROVED" => Consented(w)
    BY <2>1 DEF Reviewed
  <2>5. \A j \in Workers : Handles(j)' =>
           \/ Handles(j) /\ Current(j)' = Current(j)
           \/ Consented(Current(j)')
    BY <2>2, <2>3, <2>4 DEF Handles, Current, Handling
  <2> HIDE DEF w
  <2> QED BY <2>1, <2>2, <2>5, KeepsReviewed
<1>15. ASSUME NEW k \in Workers, NEW item \in worker[k].todo, Poll(k, item)
      PROVE  Reviewed'
  <2>1. UNCHANGED <<row, request, review, chain, approvals>>
    BY <1>15 DEF Poll
  <2>2. Consented(item.withdrawal)
    BY <1>15 DEF Poll, Sent, Reviewed
  <2>3. \/ \E at \in {"fail", "final", "promote"} : Take(k, item, at)
        \/ Skip(k, item)
    BY <1>15 DEF Poll
  <2>4. /\ worker'[k].at \in Handling => worker'[k].item = item
        /\ \A j \in Workers \ {k} : worker'[j] = worker[j]
    BY <1>15, <2>3, TakeEffect, SkipEffect DEF Poll, Handling
  <2> QED BY <2>1, <2>2, <2>4, KeepsReviewed DEF Handles, Current
<1>16. ASSUME NEW k \in Workers, AllocateNonce(k) PROVE Reviewed'
  BY <1>16, NonceEffect, KeepsReviewed
  DEF Handling, Handles, Current, AllocateNonce
<1>17. ASSUME NEW k \in Workers, Broadcast(k) PROVE Reviewed'
  <2>1. /\ worker[k].at = "send" /\ worker'[k].item = worker[k].item
        /\ \A j \in Workers \ {k} : worker'[j] = worker[j]
        /\ UNCHANGED <<row, request, review, approvals>>
    BY <1>17, ContinueEffect DEF Broadcast, Handling
  <2>2. Consented(Current(k))
    BY <2>1 DEF Reviewed, Handles, Handling
  <2>3. \A t \in chain' : t \in chain \/ t.withdrawal = Current(k)
    BY <1>17 DEF Broadcast
  <2> QED BY <2>1, <2>2, <2>3, KeepsReviewed DEF Handles, Current, Handling
<1>18. ASSUME NEW k \in Workers, SetBroadcast(k) PROVE Reviewed'
  <2> DEFINE w == Current(k)
  <2>1. /\ w \in Withdrawals /\ row'[w].approvedBy = row[w].approvedBy
        /\ \/ row'[w] = row[w]
           \/ row'[w].status \notin {"PENDING_APPROVAL", "APPROVED"}
        /\ \A v \in Withdrawals \ {w} : row'[v] = row[v]
    BY <1>18, CurrentType, BroadcastRowEffect DEF SetBroadcast, Claims, Handles, Handling, Taken, Statuses
  <2>2. /\ worker'[k].at \in Handling => Handles(k) /\ worker'[k].item = worker[k].item
        /\ \A j \in Workers \ {k} : worker'[j] = worker[j]
        /\ UNCHANGED <<request, review, chain, approvals>>
    BY <1>18, NextItemEffect, ContinueEffect DEF SetBroadcast, Handles, Handling
  <2>3. \A j \in Workers : Handles(j)' => Handles(j) /\ Current(j)' = Current(j)
    BY <2>2 DEF Handles, Current
  <2> HIDE DEF w
  <2> QED BY <2>1, <2>2, <2>3, KeepsReviewed
<1>19. ASSUME NEW k \in Workers, SetConfirming(k) PROVE Reviewed'
  <2> DEFINE w == Current(k)
  <2>1. /\ w \in Withdrawals /\ row'[w].approvedBy = row[w].approvedBy
        /\ \/ row'[w] = row[w]
           \/ row'[w].status \notin {"PENDING_APPROVAL", "APPROVED"}
        /\ \A v \in Withdrawals \ {w} : row'[v] = row[v]
    BY <1>19, CurrentType, SetConfirmingEffect DEF SetConfirming, Claims, Handles, Handling, Taken, Statuses
  <2>2. /\ worker'[k].at \in Handling => Handles(k) /\ worker'[k].item = worker[k].item
        /\ \A j \in Workers \ {k} : worker'[j] = worker[j]
        /\ UNCHANGED <<request, review, chain, approvals>>
    BY <1>19, NextItemEffect, ContinueEffect DEF SetConfirming, Handles, Handling
  <2>3. \A j \in Workers : Handles(j)' => Handles(j) /\ Current(j)' = Current(j)
    BY <2>2 DEF Handles, Current
  <2> HIDE DEF w
  <2> QED BY <2>1, <2>2, <2>3, KeepsReviewed
<1>20. ASSUME NEW k \in Workers, FinalizeLedger(k) PROVE Reviewed'
  <2>1. /\ worker'[k].at \in Handling => Handles(k) /\ worker'[k].item = worker[k].item
        /\ \A j \in Workers \ {k} : worker'[j] = worker[j]
    BY <1>20, NextItemEffect, ContinueEffect DEF FinalizeLedger, Handles, Handling
  <2> QED BY <1>20, <2>1, KeepsReviewed DEF FinalizeLedger, Handles, Current
<1>21. ASSUME NEW k \in Workers, MarkCompleted(k) PROVE Reviewed'
  <2> DEFINE w == Current(k)
  <2>1. /\ w \in Withdrawals /\ row'[w].approvedBy = row[w].approvedBy
        /\ \/ row'[w] = row[w]
           \/ row'[w].status \notin {"PENDING_APPROVAL", "APPROVED"}
        /\ \A v \in Withdrawals \ {w} : row'[v] = row[v]
    BY <1>21, CurrentType, MarkCompletedEffect DEF MarkCompleted, Claims, Handles, Handling, Taken, Statuses
  <2>2. /\ worker'[k].at \in Handling => Handles(k) /\ worker'[k].item = worker[k].item
        /\ \A j \in Workers \ {k} : worker'[j] = worker[j]
        /\ UNCHANGED <<request, review, chain, approvals>>
    BY <1>21, NextItemEffect, ContinueEffect DEF MarkCompleted, Handles, Handling
  <2>3. \A j \in Workers : Handles(j)' => Handles(j) /\ Current(j)' = Current(j)
    BY <2>2 DEF Handles, Current
  <2> HIDE DEF w
  <2> QED BY <2>1, <2>2, <2>3, KeepsReviewed
<1>22. ASSUME NEW k \in Workers, MarkFailed(k) PROVE Reviewed'
  <2> DEFINE w == Current(k)
  <2>1. /\ w \in Withdrawals /\ row'[w].approvedBy = row[w].approvedBy
        /\ \/ row'[w] = row[w]
           \/ row'[w].status \notin {"PENDING_APPROVAL", "APPROVED"}
        /\ \A v \in Withdrawals \ {w} : row'[v] = row[v]
    BY <1>22, CurrentType, SetEffect DEF MarkFailed, Claims, Handles, Handling, Taken, Statuses
  <2>2. /\ worker'[k].at \in Handling => Handles(k) /\ worker'[k].item = worker[k].item
        /\ \A j \in Workers \ {k} : worker'[j] = worker[j]
        /\ UNCHANGED <<request, review, chain, approvals>>
    BY <1>22, NextItemEffect, ContinueEffect DEF MarkFailed, Handles, Handling
  <2>3. \A j \in Workers : Handles(j)' => Handles(j) /\ Current(j)' = Current(j)
    BY <2>2 DEF Handles, Current
  <2> HIDE DEF w
  <2> QED BY <2>1, <2>2, <2>3, KeepsReviewed
<1>23. ASSUME NEW k \in Workers, ReleaseFailed(k) PROVE Reviewed'
  <2>1. /\ worker'[k].at \notin Handling
        /\ \A j \in Workers \ {k} : worker'[j] = worker[j]
    BY <1>23, NextItemEffect DEF ReleaseFailed, Handling
  <2> QED BY <1>23, <2>1, KeepsReviewed DEF ReleaseFailed, Handles, Current
<1>24. ASSUME NEW k \in Workers, BroadcastError(k) PROVE Reviewed'
  <2> DEFINE w == Current(k)
  <2>1. /\ w \in Withdrawals /\ row'[w].approvedBy = row[w].approvedBy
        /\ \/ row'[w] = row[w]
           \/ row'[w].status \notin {"PENDING_APPROVAL", "APPROVED"}
        /\ \A v \in Withdrawals \ {w} : row'[v] = row[v]
    BY <1>24, CurrentType, BroadcastRowEffect DEF BroadcastError, Claims, Handles, Handling, Taken, Statuses
  <2>2. /\ worker'[k].at \in Handling => Handles(k) /\ worker'[k].item = worker[k].item
        /\ \A j \in Workers \ {k} : worker'[j] = worker[j]
        /\ UNCHANGED <<request, review, chain, approvals>>
    BY <1>24, NextItemEffect, ContinueEffect DEF BroadcastError, Handles, Handling
  <2>3. \A j \in Workers : Handles(j)' => Handles(j) /\ Current(j)' = Current(j)
    BY <2>2 DEF Handles, Current
  <2> HIDE DEF w
  <2> QED BY <2>1, <2>2, <2>3, KeepsReviewed
<1>25. ASSUME NEW k \in Workers, WorkerLost(k) PROVE Reviewed'
  <2>1. /\ worker'[k].at \notin Handling
        /\ \A j \in Workers \ {k} : worker'[j] = worker[j]
    BY <1>25, NextItemEffect DEF WorkerLost, Handling
  <2> QED BY <1>25, <2>1, KeepsReviewed DEF WorkerLost, Handles, Current
<1>26. ASSUME NEW w \in Withdrawals, Decide(w) PROVE Reviewed'
  <2>1. /\ UNCHANGED <<row, request, review, worker, approvals>>
        /\ \A t \in chain' : \E u \in chain : u.withdrawal = t.withdrawal
    BY <1>26, DecideEffect
  <2>2. \A t \in chain' : Consented(t.withdrawal)
    BY <2>1 DEF Reviewed
  <2> QED BY <2>1, <2>2, KeepsReviewed DEF Handles, Current
<1>27. ASSUME \/ Freeze \/ AddAddress \/ CoolingOffEnds
              \/ UNCHANGED vars
      PROVE  Reviewed'
  BY <1>27, KeepsReviewed
  DEF Freeze, AddAddress, CoolingOffEnds, vars, gates, Handles, Current
<1> QED
  BY <1>1, <1>2, <1>3, <1>4, <1>5, <1>6, <1>7, <1>8, <1>9, <1>10, <1>11,
     <1>12, <1>13, <1>14, <1>15, <1>16, <1>17, <1>18, <1>19, <1>20, <1>21,
     <1>22, <1>23, <1>24, <1>25, <1>26, <1>27
  DEF Next, RequestStep, ReviewStep, WorkerStep

(* A large withdrawal that reached the chain had the consent of two admins, *)
(* however the reviews, the claims and the failures interleave, provided    *)
(* that reviews begin when the request is done (setHold is unconditional    *)
(* and revives a row rejected before it).                                  *)
THEOREM TwoConsented ==
    ASSUME Parameters, EarlyReview = FALSE PROVE Spec => []DualControl
<1>1. Init => Reviewed
  <2>1. IsFiniteSet({})
    BY FS_EmptySet
  <2> QED BY <2>1, Start DEF Reviewed, Handles, Handling
<1>2. SentInv /\ Reviewed /\ [Next]_vars => Reviewed'
  BY ReviewedStep DEF SentInv
<1>3. TypeOK /\ Reviewed => DualControl
  <2> SUFFICES ASSUME TypeOK, Reviewed, NEW t \in chain, Large(t.withdrawal)
               PROVE  Cardinality(approvals[t.withdrawal]) >= 2
    BY DEF DualControl
  <2> DEFINE S == approvals[t.withdrawal]
  <2>1. PICK a \in S, c \in S : a # c
    BY DEF Reviewed, Consented
  <2>2. IsFiniteSet(S)
    BY DEF Reviewed, TypeOK
  <2>3. /\ Cardinality({a, c}) = 2 /\ IsFiniteSet({a, c})
    <3>1. Cardinality({a}) = 1 /\ IsFiniteSet({a})
      BY FS_Singleton
    <3>2. {a, c} = {a} \cup {c} /\ c \notin {a}
      BY <2>1
    <3>3. IsFiniteSet({a} \cup {c}) /\ Cardinality({a} \cup {c}) = 1 + 1
      BY <3>1, <3>2, FS_AddElement
    <3> QED BY <3>2, <3>3
  <2>4. Cardinality({a, c}) <= Cardinality(S)
    BY <2>1, <2>2, FS_Subset
  <2>5. Cardinality(S) \in Nat
    BY <2>2, FS_CardinalityType
  <2> QED BY <2>3, <2>4, <2>5
<1> QED BY <1>1, <1>2, <1>3, SentInvariant, TypeCorrect, PTL DEF Spec, SentInv

-----------------------------------------------------------------------------
(* One worker settles each withdrawal once, whatever fails.               *)

(* Steps that leave the worker, and the status of what it took, alone.     *)
LEMMA KeepsSettlingAside ==
    ASSUME TypeOK, Claims, Settling, UNCHANGED worker,
           \A v \in Withdrawals : Closed(v) => Closed(v)',
           \A v \in Withdrawals :
               row[v].status \in Taken => row'[v].status = row[v].status,
           \A a \in Admins : review'[a].at = "release" =>
               review'[a] = review[a] \/ Closed(review[a].withdrawal)',
           \A v \in Withdrawals :
               /\ ReleaseRef(v) \in posted' => ReleaseRef(v) \in posted \/ Closed(v)
               /\ FinalRef(v) \in posted' => FinalRef(v) \in posted
    PROVE  Settling'
<1>1. \A v \in Withdrawals : OnChain(v) => OnChain(v)'
  BY DEF OnChain, Taken
<1>2. \A a \in Admins : review'[a].at = "release" => Closed(review[a].withdrawal)'
  BY ReviewType DEF Settling
<1>3. \A v \in Withdrawals :
         /\ ReleaseRef(v) \in posted' => Closed(v)' \/ row'[v].status = "FAILED"
         /\ FinalRef(v) \in posted' => OnChain(v)' \/ row'[v].status = "COMPLETED"
  BY <1>1 DEF Settling, Taken
<1>4. \A k \in Workers :
         /\ worker'[k].at \in {"nonce", "send", "record"}
               => row'[Current(k)'].status = "SIGNING"
         /\ worker'[k].at = "final" => OnChain(Current(k))'
         /\ worker'[k].at = "fail" => FinalRef(Current(k)') \notin posted'
         /\ worker'[k].at = "release" => row'[Current(k)'].status = "FAILED"
  BY <1>1, CurrentType DEF Settling, Current, Handling, Taken
<1>5. \A k \in Workers : worker'[k].pass = "confirm" => ConfirmPass(k)'
  <2> SUFFICES ASSUME NEW k \in Workers, worker[k].pass = "confirm"
               PROVE  ConfirmPass(k)'
    OBVIOUS
  <2>1. ConfirmPass(k)
    BY DEF Settling
  <2>2. \A item \in worker[k].todo : item.withdrawal \in Withdrawals
    BY WorkerStates DEF Items
  <2> QED BY <1>1, <2>1, <2>2 DEF ConfirmPass, Handles, Current
<1> QED BY <1>2, <1>3, <1>4, <1>5 DEF Settling

(* Steps of the worker.                                                    *)
LEMMA KeepsSettling ==
    ASSUME TypeOK, SoleWorker, Settling, NEW k \in Workers, UNCHANGED review,
           \A v \in Withdrawals : Closed(v) => Closed(v)',
           worker'[k].at \in {"nonce", "send", "record"}
               => row'[Current(k)'].status = "SIGNING",
           worker'[k].at = "final" => OnChain(Current(k))',
           worker'[k].at = "fail" => FinalRef(Current(k)') \notin posted',
           worker'[k].at = "release" => row'[Current(k)'].status = "FAILED",
           worker'[k].todo \subseteq worker[k].todo,
           worker'[k].todo = {} \/ worker'[k].pass = worker[k].pass,
           \A item \in worker'[k].todo : worker'[k].pass = "confirm" =>
               /\ OnChain(item.withdrawal) => OnChain(item.withdrawal)'
               /\ Handles(k)' => item.withdrawal # Current(k)',
           \A v \in Withdrawals :
               /\ ReleaseRef(v) \in posted' => Closed(v) \/ row'[v].status = "FAILED"
               /\ FinalRef(v) \in posted' => OnChain(v)' \/ row'[v].status = "COMPLETED"
    PROVE  Settling'
<1>1. \A a \in Admins : review'[a].at = "release" => Closed(review[a].withdrawal)'
  BY ReviewType DEF Settling
<1>2. worker'[k].pass = "confirm" => ConfirmPass(k)'
  <2> SUFFICES ASSUME worker'[k].pass = "confirm", worker'[k].todo # {}
               PROVE  ConfirmPass(k)'
    BY DEF ConfirmPass
  <2>1. ConfirmPass(k)
    BY DEF Settling
  <2> QED BY <2>1 DEF ConfirmPass
<1>3. \A j \in Workers : j = k
  BY DEF SoleWorker
<1> QED BY <1>1, <1>2, <1>3 DEF Settling

LEMMA SettlingStep ==
    ASSUME Parameters, SoleWorker, TypeOK, Claims, SentOnce, CompletedIsPaid, Held,
           Settling, [Next]_vars
    PROVE  Settling'
<1>0. \A v \in Withdrawals : Closed(v) => Closed(v)'
  BY ClosedStays
<1>1. ASSUME NEW w \in Withdrawals, CheckRequest(w) PROVE Settling'
  BY <1>1, <1>0, KeepsSettlingAside DEF CheckRequest
<1>2. ASSUME NEW w \in Withdrawals, CreateWithdrawal(w) PROVE Settling'
  <2>1. \A v \in Withdrawals : row[v].status \in Taken => row'[v].status = row[v].status
    BY <1>2, SetEffect DEF CreateWithdrawal, Claims, Taken, Statuses
  <2>2. UNCHANGED <<posted, review, worker>>
    BY <1>2 DEF CreateWithdrawal
  <2> QED BY <1>0, <2>1, <2>2, KeepsSettlingAside
<1>3. ASSUME NEW w \in Withdrawals, PlaceHold(w) PROVE Settling'
  <2>1. posted' \in {posted, posted \cup {HoldRef(w)}}
    BY <1>3, PostEffect DEF PlaceHold, ledger
  <2>2. UNCHANGED <<row, review, worker>>
    BY <1>3 DEF PlaceHold
  <2> QED BY <1>0, <2>1, <2>2, KeepsSettlingAside DEF HoldRef, ReleaseRef, FinalRef
<1>4. ASSUME NEW w \in Withdrawals, SetHold(w) PROVE Settling'
  <2>1. \A v \in Withdrawals : row[v].status \in Taken => row'[v].status = row[v].status
    BY <1>4, SetHoldEffect DEF SetHold, Claims, Taken, Statuses
  <2>2. UNCHANGED <<posted, review, worker>>
    BY <1>4 DEF SetHold
  <2> QED BY <1>0, <2>1, <2>2, KeepsSettlingAside
<1>5. ASSUME NEW w \in Withdrawals, MarkRequestFailed(w) PROVE Settling'
  <2>1. \A v \in Withdrawals : row[v].status \in Taken => row'[v].status = row[v].status
    BY <1>5, SetEffect DEF MarkRequestFailed, Claims, Taken, Statuses
  <2>2. UNCHANGED <<posted, review, worker>>
    BY <1>5 DEF MarkRequestFailed
  <2> QED BY <1>0, <2>1, <2>2, KeepsSettlingAside
<1>6. ASSUME NEW w \in Withdrawals, RequestLost(w) PROVE Settling'
  BY <1>6, <1>0, KeepsSettlingAside DEF RequestLost
<1>7. ASSUME NEW a \in Admins, NEW w \in Withdrawals, NEW kind \in {"approve", "reject"}, OpenReview(a, w, kind)
      PROVE  Settling'
  <2> DEFINE r == [at |-> kind, withdrawal |-> w, seen |-> row[w]]
  <2>1. r \in Reviews /\ r.at # "release"
    BY RowType DEF Reviews
  <2>2. GoReview(a, r) /\ UNCHANGED <<row, posted, worker>>
    BY <1>7 DEF OpenReview
  <2> HIDE DEF r
  <2>3. \A c \in Admins : review'[c].at = "release" => review'[c] = review[c]
    BY <2>1, <2>2, ReviewEffect
  <2> QED BY <1>0, <2>2, <2>3, KeepsSettlingAside
<1>8. ASSUME NEW a \in Admins, Approve(a) PROVE Settling'
  <2>1. \A c \in Admins : review'[c].at = "release" => review'[c] = review[c]
    BY <1>8, ReviewEffect DEF Approve, IdleReview
  <2>2. \A v \in Withdrawals : row[v].status \in Taken => row'[v].status = row[v].status
    <3>1. CASE Approvable(a) /\ row' = [row EXCEPT ![review[a].withdrawal]
                                = ApprovedRow(a, row[review[a].withdrawal])]
      <4>1. /\ review[a].withdrawal \in Withdrawals
            /\ row[review[a].withdrawal].status \notin Taken
        BY <1>8, <3>1, ReviewType DEF Approve, Approvable, Taken
      <4> QED BY <3>1, <4>1 DEF TypeOK
    <3> QED BY <1>8, <3>1 DEF Approve
  <2> QED BY <1>8, <1>0, <2>1, <2>2, KeepsSettlingAside DEF Approve
<1>9. ASSUME NEW a \in Admins, Reject(a) PROVE Settling'
  <2> DEFINE w == review[a].withdrawal
  <2>1. /\ \A c \in Admins \ {a} : review'[c] = review[c]
        /\ review'[a].at = "release" =>
              /\ review[a].seen.hold /\ review'[a].withdrawal = w
              /\ row'[w].status = "REJECTED" /\ row'[w].hold = row[w].hold
    BY <1>9, RejectEffect DEF IdleReview
  <2>2. review[a].seen.hold => row[w].hold
    BY <1>9 DEF Reject, Held, HeldReviews
  <2>3. review'[a].at = "release" => Closed(review[a].withdrawal)'
    BY <2>1, <2>2 DEF Closed
  <2>4. \A v \in Withdrawals : row[v].status \in Taken => row'[v].status = row[v].status
    BY <1>9, RejectEffect DEF Rejectable, Taken
  <2> QED BY <1>9, <1>0, <2>1, <2>3, <2>4, KeepsSettlingAside DEF Reject
<1>10. ASSUME NEW a \in Admins, ReleaseRejected(a) PROVE Settling'
  <2> DEFINE w == review[a].withdrawal
  <2>1. w \in Withdrawals /\ Closed(w)
    BY <1>10, ReviewType DEF ReleaseRejected, Settling
  <2>2. posted' \in {posted, posted \cup {ReleaseRef(w)}}
    BY <1>10, PostEffect DEF ReleaseRejected, releaseHold, ledger
  <2>3. \A c \in Admins : review'[c].at = "release" => review'[c] = review[c]
    BY <1>10, ReviewEffect DEF ReleaseRejected, IdleReview
  <2>4. \A v \in Withdrawals :
           /\ ReleaseRef(v) \in posted' => ReleaseRef(v) \in posted \/ Closed(v)
           /\ FinalRef(v) \in posted' => FinalRef(v) \in posted
    <3> HIDE DEF w
    <3> QED BY <2>1, <2>2 DEF ReleaseRef, FinalRef
  <2> QED BY <1>10, <1>0, <2>3, <2>4, KeepsSettlingAside DEF ReleaseRejected
<1>11. ASSUME NEW a \in Admins, ReviewLost(a) PROVE Settling'
  <2>1. \A c \in Admins : review'[c].at = "release" => review'[c] = review[c]
    BY <1>11, ReviewEffect DEF ReviewLost, IdleReview
  <2> QED BY <1>11, <1>0, <2>1, KeepsSettlingAside DEF ReviewLost
<1>12. ASSUME NEW k \in Workers, List(k) PROVE Settling'
  <2>1. /\ worker'[k].at = "item" /\ UNCHANGED <<row, review, posted>>
        /\ worker'[k].pass = "confirm" =>
              \A item \in worker'[k].todo : OnChain(item.withdrawal)
        /\ \A item \in worker'[k].todo :
              item \in Items /\ item.seen = row[item.withdrawal]
    BY <1>12, ListEffect DEF List
  <2>2. \A i, j \in worker'[k].todo : i.withdrawal = j.withdrawal => i = j
    BY <2>1 DEF Items
  <2>3. worker'[k].pass = "confirm" => ConfirmPass(k)'
    BY <2>1, <2>2 DEF ConfirmPass, OnChain, Handles, Handling
  <2>4. \A j \in Workers : j = k
    BY DEF SoleWorker
  <2> QED BY <2>1, <2>3, <2>4 DEF Settling, Closed, OnChain
<1>13. ASSUME NEW k \in Workers, EndPass(k) PROVE Settling'
  <2>1. /\ worker'[k].at \in {"list", "item"} /\ worker'[k].todo \subseteq worker[k].todo
        /\ worker'[k].todo = {} \/ worker'[k].pass = worker[k].pass
    BY <1>13, EndPassEffect DEF EndPass
  <2> QED BY <1>13, <1>0, <2>1, KeepsSettling DEF EndPass, Settling, Handles, Handling, OnChain
<1>14. ASSUME NEW k \in Workers, NEW item \in worker[k].todo, Claim(k, item)
      PROVE  Settling'
  <2> DEFINE w == item.withdrawal
  <2>1. w \in Withdrawals /\ worker[k].pass = "broadcast" /\ UNCHANGED <<review, posted>>
    BY <1>14, WorkerStates DEF Items, Claim
  <2>2. CASE Claimable(item) /\ Set(w, "SIGNING") /\ Take(k, item, "nonce")
    <3>1. /\ row[w].status = "APPROVED" /\ row'[w].status = "SIGNING"
          /\ \A v \in Withdrawals \ {w} : row'[v] = row[v]
      BY <2>1, <2>2, SetEffect DEF Claimable, Statuses
    <3>2. /\ worker'[k].at = "nonce" /\ Current(k)' = w /\ worker'[k].pass = "broadcast"
          /\ worker'[k].todo \subseteq worker[k].todo
      BY <2>1, <2>2, TakeEffect DEF Handling, Current
    <3> HIDE DEF w
    <3>3. \A v \in Withdrawals :
             /\ ReleaseRef(v) \in posted' => Closed(v) \/ row'[v].status = "FAILED"
             /\ FinalRef(v) \in posted' => OnChain(v)' \/ row'[v].status = "COMPLETED"
      BY <2>1, <3>1 DEF Settling, Closed, OnChain
    <3> QED BY <1>0, <2>1, <3>1, <3>2, <3>3, KeepsSettling
  <2>3. CASE Skip(k, item) /\ UNCHANGED row
    <3>1. /\ worker'[k].at = "item" /\ worker'[k].todo \subseteq worker[k].todo
          /\ worker'[k].pass = worker[k].pass
      BY <1>14, <2>3, SkipEffect DEF Claim
    <3> QED BY <1>0, <2>1, <2>3, <3>1, KeepsSettling DEF Settling, Handles, Handling, OnChain
  <2> QED BY <1>14, <2>2, <2>3 DEF Claim
<1>15. ASSUME NEW k \in Workers, NEW item \in worker[k].todo, Poll(k, item)
      PROVE  Settling'
  <2>1. /\ worker[k].pass = "confirm" /\ worker[k].at = "item"
        /\ UNCHANGED <<row, review, posted>> /\ ConfirmPass(k)
        /\ item.withdrawal \in Withdrawals
    BY <1>15, WorkerStates DEF Poll, Settling, Items
  <2>2. CASE Skip(k, item)
    <3>1. /\ worker'[k].at = "item" /\ worker'[k].todo \subseteq worker[k].todo
          /\ worker'[k].pass = worker[k].pass
      BY <2>1, <2>2, SkipEffect
    <3> QED BY <1>0, <2>1, <3>1, KeepsSettling DEF Settling, Handles, Handling, OnChain
  <2>3. CASE \E at \in {"fail", "final", "promote"} : Take(k, item, at)
    <3>1. /\ worker'[k].at \in {"fail", "final", "promote"}
          /\ worker'[k].item = item /\ worker'[k].pass = "confirm"
          /\ worker'[k].todo = worker[k].todo \ {item}
      BY <2>1, <2>3, TakeEffect DEF Handling
    <3>2. OnChain(item.withdrawal)
      BY <2>1 DEF ConfirmPass
    <3>3. \A i \in worker'[k].todo : i.withdrawal # item.withdrawal
      BY <2>1, <3>1 DEF ConfirmPass
    <3>4. worker'[k].at = "fail" => FinalRef(item.withdrawal) \notin posted
      <4> SUFFICES ASSUME Take(k, item, "fail") PROVE FinalRef(item.withdrawal) \notin posted
        BY <2>3, TakeEffect DEF Handling
      <4>1. /\ ~Skip(k, item)
            /\ \A at \in {"final", "promote"} : ~Take(k, item, at)
        BY <2>1, TakeEffect, SkipEffect DEF Handling
      <4>2. PICK t \in chain : t.withdrawal = item.withdrawal /\ t.state = "failed"
        BY <1>15, <4>1 DEF Poll, Sent, Fate
      <4> QED BY <2>1, <4>2 DEF SentOnce, CompletedIsPaid
    <3> QED BY <1>0, <2>1, <3>1, <3>2, <3>3, <3>4, KeepsSettling
        DEF Settling, Current, OnChain
  <2> QED BY <1>15, <2>2, <2>3 DEF Poll
<1>16. ASSUME NEW k \in Workers, AllocateNonce(k) PROVE Settling'
  <2>1. /\ row[Current(k)].status = "SIGNING" /\ Handles(k)
        /\ UNCHANGED <<row, review, posted>>
    BY <1>16 DEF AllocateNonce, Settling, Handles, Handling
  <2>2. /\ worker'[k].at = "send" /\ Current(k)' = Current(k)
        /\ worker'[k].todo = worker[k].todo /\ worker'[k].pass = worker[k].pass
    BY <1>16, NonceEffect DEF AllocateNonce, Current, Handling
  <2>3. \A item \in worker[k].todo :
           worker[k].pass = "confirm" => item.withdrawal # Current(k)
    BY <2>1 DEF Settling, ConfirmPass
  <2> QED BY <1>0, <2>1, <2>2, <2>3, KeepsSettling DEF Settling, OnChain
<1>17. ASSUME NEW k \in Workers, Broadcast(k) PROVE Settling'
  <2>1. /\ row[Current(k)].status = "SIGNING" /\ Handles(k)
        /\ UNCHANGED <<row, review, posted>>
    BY <1>17 DEF Broadcast, Settling, Handles, Handling
  <2>2. /\ worker'[k].at = "record" /\ Current(k)' = Current(k)
        /\ worker'[k].todo = worker[k].todo /\ worker'[k].pass = worker[k].pass
    BY <1>17, ContinueEffect DEF Broadcast, Current, Handling
  <2>3. \A item \in worker[k].todo :
           worker[k].pass = "confirm" => item.withdrawal # Current(k)
    BY <2>1 DEF Settling, ConfirmPass
  <2> QED BY <1>0, <2>1, <2>2, <2>3, KeepsSettling DEF Settling, OnChain
<1>18. ASSUME NEW k \in Workers, SetBroadcast(k) PROVE Settling'
  <2> DEFINE w == Current(k)
  <2>1. /\ w \in Withdrawals /\ \A v \in Withdrawals \ {w} : row'[v] = row[v]
        /\ row[w].status = "SIGNING" /\ row'[w].status = "BROADCAST"
    BY <1>18, CurrentType, BroadcastRowEffect DEF SetBroadcast, Handling, Settling
  <2>2. /\ worker'[k].at \in {"list", "item"} /\ worker'[k].todo \subseteq worker[k].todo
        /\ worker'[k].todo = {} \/ worker'[k].pass = worker[k].pass
        /\ UNCHANGED <<review, posted>>
    BY <1>18, NextItemEffect DEF SetBroadcast
  <2>3. \A item \in worker[k].todo : worker[k].pass = "confirm" =>
           item.withdrawal \in Withdrawals \ {w}
    BY <1>18, WorkerStates DEF SetBroadcast, Settling, ConfirmPass, Handles, Handling, Items
  <2> HIDE DEF w
  <2>4. \A v \in Withdrawals :
           /\ ReleaseRef(v) \in posted' => Closed(v) \/ row'[v].status = "FAILED"
           /\ FinalRef(v) \in posted' => OnChain(v)' \/ row'[v].status = "COMPLETED"
    BY <2>1, <2>2 DEF Settling, Closed, OnChain, Completable
  <2> QED BY <1>0, <2>1, <2>2, <2>3, <2>4, KeepsSettling DEF Handles, Handling, OnChain
<1>19. ASSUME NEW k \in Workers, SetConfirming(k) PROVE Settling'
  <2> DEFINE w == Current(k)
  <2>1. /\ w \in Withdrawals /\ \A v \in Withdrawals \ {w} : row'[v] = row[v]
        /\ \/ row'[w].status = row[w].status /\ row[w].status # "BROADCAST"
           \/ row'[w].status = "CONFIRMING" /\ row[w].status = "BROADCAST"
    BY <1>19, SetConfirmingEffect
  <2>2. /\ worker'[k].at \in {"list", "item"} /\ worker'[k].todo \subseteq worker[k].todo
        /\ worker'[k].todo = {} \/ worker'[k].pass = worker[k].pass
        /\ UNCHANGED <<review, posted>>
    BY <1>19, NextItemEffect DEF SetConfirming
  <2>3. \A item \in worker[k].todo : worker[k].pass = "confirm" =>
           item.withdrawal \in Withdrawals \ {w}
    BY <1>19, WorkerStates DEF SetConfirming, Settling, ConfirmPass, Handles, Handling, Items
  <2> HIDE DEF w
  <2>4. \A v \in Withdrawals :
           /\ ReleaseRef(v) \in posted' => Closed(v) \/ row'[v].status = "FAILED"
           /\ FinalRef(v) \in posted' => OnChain(v)' \/ row'[v].status = "COMPLETED"
    BY <2>1, <2>2 DEF Settling, Closed, OnChain, Completable
  <2> QED BY <1>0, <2>1, <2>2, <2>3, <2>4, KeepsSettling DEF Handles, Handling, OnChain
<1>20. ASSUME NEW k \in Workers, FinalizeLedger(k) PROVE Settling'
  <2> DEFINE w == Current(k)
  <2>1. /\ w \in Withdrawals /\ OnChain(w) /\ Handles(k) /\ UNCHANGED <<row, review>>
    BY <1>20, CurrentType DEF FinalizeLedger, Settling, Handles, Handling
  <2>2. /\ worker'[k].at \in {"complete", "list", "item"}
        /\ worker'[k].todo \subseteq worker[k].todo
        /\ worker'[k].todo = {} \/ worker'[k].pass = worker[k].pass
        /\ worker'[k].at = "complete" => Current(k)' = w
    BY <1>20, ContinueEffect, NextItemEffect DEF FinalizeLedger, Handling, Current
  <2>3. posted' \in {posted, posted \cup {FinalRef(w)}}
    BY <1>20, PostEffect DEF FinalizeLedger, ledger
  <2>4. \A item \in worker[k].todo : worker[k].pass = "confirm" => item.withdrawal # w
    BY <2>1 DEF Settling, ConfirmPass
  <2>5. Handles(k)' => Current(k)' = w
    BY <2>2 DEF Handles, Handling
  <2>6. \A v \in Withdrawals :
           /\ ReleaseRef(v) \in posted' => ReleaseRef(v) \in posted
           /\ FinalRef(v) \in posted' => FinalRef(v) \in posted \/ v = w
    <3> HIDE DEF w
    <3> QED BY <2>3 DEF ReleaseRef, FinalRef
  <2>7. \A v \in Withdrawals :
           /\ ReleaseRef(v) \in posted' => Closed(v) \/ row'[v].status = "FAILED"
           /\ FinalRef(v) \in posted' => OnChain(v)' \/ row'[v].status = "COMPLETED"
    <3> HIDE DEF w
    <3> QED BY <2>1, <2>6 DEF Settling, OnChain
  <2> QED BY <1>0, <2>1, <2>2, <2>4, <2>5, <2>7, KeepsSettling DEF OnChain
<1>21. ASSUME NEW k \in Workers, MarkCompleted(k) PROVE Settling'
  <2> DEFINE w == Current(k)
  <2>1. /\ w \in Withdrawals /\ \A v \in Withdrawals \ {w} : row'[v] = row[v]
        /\ \/ row'[w].status = row[w].status /\ row[w].status \notin Completable
           \/ row'[w].status = "COMPLETED" /\ row[w].status \in Completable
    BY <1>21, CurrentType, MarkCompletedEffect DEF MarkCompleted, Handling
  <2>2. /\ worker'[k].at \in {"list", "item"} /\ worker'[k].todo \subseteq worker[k].todo
        /\ worker'[k].todo = {} \/ worker'[k].pass = worker[k].pass
        /\ UNCHANGED <<review, posted>>
    BY <1>21, NextItemEffect DEF MarkCompleted
  <2>3. \A item \in worker[k].todo : worker[k].pass = "confirm" =>
           item.withdrawal \in Withdrawals \ {w}
    BY <1>21, WorkerStates DEF MarkCompleted, Settling, ConfirmPass, Handles, Handling, Items
  <2> HIDE DEF w
  <2>4. \A v \in Withdrawals :
           /\ ReleaseRef(v) \in posted' => Closed(v) \/ row'[v].status = "FAILED"
           /\ FinalRef(v) \in posted' => OnChain(v)' \/ row'[v].status = "COMPLETED"
    BY <2>1, <2>2 DEF Settling, Closed, OnChain, Completable
  <2> QED BY <1>0, <2>1, <2>2, <2>3, <2>4, KeepsSettling DEF Handles, Handling, OnChain
<1>22. ASSUME NEW k \in Workers, MarkFailed(k) PROVE Settling'
  <2> DEFINE w == Current(k)
  <2>1. /\ w \in Withdrawals /\ worker[k].at = "fail" /\ Handles(k)
        /\ FinalRef(w) \notin posted /\ UNCHANGED <<review, posted>>
    BY <1>22, CurrentType DEF MarkFailed, Settling, Handles, Handling
  <2>2. \/ UNCHANGED row /\ worker'[k].at \in {"list", "item"}
        \/ row'[w].status = "FAILED" /\ \A v \in Withdrawals \ {w} : row'[v] = row[v]
    BY <1>22, <2>1, SetEffect, NextItemEffect DEF MarkFailed, Statuses
  <2>3. /\ worker'[k].at \in {"list", "item", "release"}
        /\ worker'[k].todo \subseteq worker[k].todo
        /\ worker'[k].todo = {} \/ worker'[k].pass = worker[k].pass
        /\ Handles(k)' => worker'[k].at = "release" /\ Current(k)' = w
    BY <1>22, NextItemEffect, ContinueEffect DEF MarkFailed, Handles, Handling, Current
  <2>4. \A item \in worker[k].todo : worker[k].pass = "confirm" =>
           item.withdrawal \in Withdrawals \ {w}
    BY <2>1, WorkerStates DEF Settling, ConfirmPass, Items
  <2>5. \A item \in worker[k].todo : worker[k].pass = "confirm" =>
           (OnChain(item.withdrawal) => OnChain(item.withdrawal)')
    <3> HIDE DEF w
    <3> QED BY <2>2, <2>4 DEF OnChain
  <2>6. \A v \in Withdrawals :
           /\ ReleaseRef(v) \in posted' => Closed(v) \/ row'[v].status = "FAILED"
           /\ FinalRef(v) \in posted' => OnChain(v)' \/ row'[v].status = "COMPLETED"
    <3> HIDE DEF w
    <3> QED BY <2>1, <2>2 DEF Settling, OnChain
  <2>7. worker'[k].at = "release" => row'[Current(k)'].status = "FAILED"
    BY <2>2, <2>3 DEF Handles, Handling
  <2> QED BY <1>0, <2>1, <2>3, <2>4, <2>5, <2>6, <2>7, KeepsSettling
<1>23. ASSUME NEW k \in Workers, ReleaseFailed(k) PROVE Settling'
  <2>1. /\ Current(k) \in Withdrawals /\ row[Current(k)].status = "FAILED"
        /\ UNCHANGED <<row, review>>
    BY <1>23, CurrentType DEF ReleaseFailed, Settling, Handling
  <2>2. /\ worker'[k].at \in {"list", "item"} /\ worker'[k].todo \subseteq worker[k].todo
        /\ worker'[k].todo = {} \/ worker'[k].pass = worker[k].pass
    BY <1>23, NextItemEffect DEF ReleaseFailed
  <2>3. posted' \in {posted, posted \cup {ReleaseRef(Current(k))}}
    BY <1>23, PostEffect DEF ReleaseFailed, ledger
  <2>4. \A v \in Withdrawals :
           /\ ReleaseRef(v) \in posted' => Closed(v) \/ row'[v].status = "FAILED"
           /\ FinalRef(v) \in posted' => OnChain(v)' \/ row'[v].status = "COMPLETED"
    <3>1. \A v \in Withdrawals :
             /\ ReleaseRef(v) \in posted' => ReleaseRef(v) \in posted \/ v = Current(k)
             /\ FinalRef(v) \in posted' => FinalRef(v) \in posted
      BY <2>3 DEF ReleaseRef, FinalRef
    <3>2. \A v \in Withdrawals :
             /\ ReleaseRef(v) \in posted => Closed(v) \/ row[v].status = "FAILED"
             /\ FinalRef(v) \in posted => OnChain(v) \/ row[v].status = "COMPLETED"
      BY DEF Settling
    <3> QED BY <2>1, <3>1, <3>2 DEF OnChain
  <2> QED BY <1>0, <2>1, <2>2, <2>4, KeepsSettling DEF Handles, Handling, OnChain
<1>24. ASSUME NEW k \in Workers, BroadcastError(k) PROVE Settling'
  <2> DEFINE w == Current(k)
  <2>1. /\ w \in Withdrawals /\ row[w].status = "SIGNING" /\ Handles(k)
        /\ UNCHANGED <<review, posted>>
    BY <1>24, CurrentType DEF BroadcastError, Settling, Handles, Handling
  <2>2. \/ UNCHANGED row
        \/ /\ row'[w].status = "BROADCAST"
           /\ \A v \in Withdrawals \ {w} : row'[v] = row[v]
    BY <1>24, <2>1, BroadcastRowEffect DEF BroadcastError, Handles
  <2>3. /\ worker'[k].at = "fail" /\ Current(k)' = w
        /\ worker'[k].todo = worker[k].todo /\ worker'[k].pass = worker[k].pass
    BY <1>24, <2>1, ContinueEffect DEF BroadcastError, Handles, Handling, Current
  <2>4. \A item \in worker[k].todo : worker[k].pass = "confirm" =>
           item.withdrawal \in Withdrawals \ {w}
    BY <2>1, WorkerStates DEF Settling, ConfirmPass, Items
  <2> HIDE DEF w
  <2>5. FinalRef(w) \notin posted
    BY <2>1 DEF Settling, OnChain
  <2>6. \A v \in Withdrawals :
           /\ ReleaseRef(v) \in posted' => Closed(v) \/ row'[v].status = "FAILED"
           /\ FinalRef(v) \in posted' => OnChain(v)' \/ row'[v].status = "COMPLETED"
    BY <2>1, <2>2, <2>5 DEF Settling, Closed, OnChain
  <2>7. \A item \in worker[k].todo : worker[k].pass = "confirm" =>
           (OnChain(item.withdrawal) => OnChain(item.withdrawal)')
    BY <2>2, <2>4 DEF OnChain
  <2> QED BY <1>0, <2>1, <2>3, <2>4, <2>5, <2>6, <2>7, KeepsSettling
<1>25. ASSUME NEW k \in Workers, WorkerLost(k) PROVE Settling'
  <2>1. /\ worker'[k].at \in {"list", "item"} /\ worker'[k].todo \subseteq worker[k].todo
        /\ worker'[k].todo = {} \/ worker'[k].pass = worker[k].pass
    BY <1>25, NextItemEffect DEF WorkerLost
  <2> QED BY <1>25, <1>0, <2>1, KeepsSettling DEF WorkerLost, Settling, Handles, Handling, OnChain
<1>26. ASSUME NEW w \in Withdrawals, Decide(w) PROVE Settling'
  BY <1>26, <1>0, DecideEffect, KeepsSettlingAside
<1>27. ASSUME \/ Freeze \/ AddAddress \/ CoolingOffEnds
              \/ UNCHANGED vars
      PROVE  Settling'
  BY <1>27, <1>0, KeepsSettlingAside
  DEF Freeze, AddAddress, CoolingOffEnds, vars, gates
<1> QED
  BY <1>1, <1>2, <1>3, <1>4, <1>5, <1>6, <1>7, <1>8, <1>9, <1>10, <1>11,
     <1>12, <1>13, <1>14, <1>15, <1>16, <1>17, <1>18, <1>19, <1>20, <1>21,
     <1>22, <1>23, <1>24, <1>25, <1>26, <1>27
  DEF Next, RequestStep, ReviewStep, WorkerStep

-----------------------------------------------------------------------------
(* A withdrawal's hold is given back or paid out, never both: without       *)
(* failures because of what is on the chain, and with one worker because    *)
(* the row decides.                                                        *)
NeverBoth ==
    \A w \in Withdrawals : ~(ReleaseRef(w) \in posted /\ FinalRef(w) \in posted)

LEMMA UsedOnce ==
    ASSUME Parameters, MaxFailures = 0 \/ SoleWorker PROVE Spec => []NeverBoth
<1>1. CASE MaxFailures = 0
  <2>1. SentInv /\ Released /\ CompletedIsPaid => NeverBoth
    <3> SUFFICES ASSUME SentInv, Released, CompletedIsPaid, NEW w \in Withdrawals,
                        ReleaseRef(w) \in posted, FinalRef(w) \in posted
                 PROVE  FALSE
      BY DEF NeverBoth
    <3>1. failures = 0
      BY <1>1 DEF SentInv, TypeOK
    <3>2. PICK t \in chain : t.withdrawal = w /\ t.state = "deep"
      BY DEF CompletedIsPaid
    <3>3. ~Closed(w)
      BY <3>2 DEF SentInv, Claims, Closed, Taken
    <3>4. Dropped(w)
      BY <3>1, <3>3 DEF Released
    <3> QED BY <3>2, <3>4 DEF Dropped, SentInv, SentOnce
  <2> QED BY <2>1, SentInvariant, ReleasedInvariant, PaidInvariant, PTL
<1>2. CASE SoleWorker
  <2>1. Init => Settling
    BY Start DEF Settling, ConfirmPass, Init, IdleWorker, IdleReview
  <2>2. SentInv /\ CompletedIsPaid /\ Held /\ Settling /\ [Next]_vars => Settling'
    BY <1>2, SettlingStep DEF SentInv
  <2>3. Settling => NeverBoth
    BY DEF Settling, NeverBoth, Closed, OnChain
  <2> QED BY <2>1, <2>2, <2>3, SentInvariant, PaidInvariant, HeldInvariant, PTL DEF Spec
<1> QED BY <1>1, <1>2

-----------------------------------------------------------------------------
(* What the postings do to the balances.                                   *)

(* The accounts a withdrawal's postings name.                              *)
LEMMA AccountsApart ==
    ASSUME Parameters
    PROVE  /\ {Available(Owner, Asset), Locked(Owner, Asset),
               System("HOT_WALLET", Asset), System("FEE_REVENUE", Asset)} \subseteq Accounts
           /\ Available(Owner, Asset) # Locked(Owner, Asset)
           /\ \A k \in SystemKinds : System(k, Asset) \notin
                 {Available(Owner, Asset), Locked(Owner, Asset)}
           /\ System("HOT_WALLET", Asset) # System("FEE_REVENUE", Asset)
           /\ isUserAccount(Available(Owner, Asset)) /\ isUserAccount(Locked(Owner, Asset))
<1>1. /\ Owner \in Users /\ Asset \in Assets /\ NoUser \notin Users
      /\ {"HOT_WALLET", "FEE_REVENUE"} \subseteq SystemKinds
      /\ UserKinds \cap SystemKinds = {}
  BY KindsAssumption DEF Parameters
<1> QED BY <1>1 DEF Accounts, AccountNames, UserKinds, isUserAccount, Available, Locked, System

(* What the three postings of a withdrawal do to the balances.             *)
LEMMA HoldMoves ==
    ASSUME Parameters, balance \in [Accounts -> Int], NEW w \in Withdrawals
    PROVE  LET new == Applied(balance, HoldLines(w))
           IN  /\ new[Locked(Owner, Asset)] = balance[Locked(Owner, Asset)] + Amount[w]
               /\ new[Available(Owner, Asset)] = balance[Available(Owner, Asset)] - Amount[w]
               /\ new[System("FEE_REVENUE", Asset)] = balance[System("FEE_REVENUE", Asset)]
<1> DEFINE lines == HoldLines(w)
           A == Available(Owner, Asset)
           L == Locked(Owner, Asset)
           R == System("FEE_REVENUE", Asset)
<1>1. /\ DOMAIN lines = {1, 2}
      /\ lines[1].account = A /\ lines[2].account = L
      /\ Signed(lines[1]) = -Amount[w] /\ Signed(lines[2]) = Amount[w]
  BY DEF HoldLines, Debit, Credit, Signed
<1>2. A # L /\ R \notin {A, L} /\ {A, L, R} \subseteq Accounts
  BY AccountsApart DEF Parameters
<1> HIDE DEF lines, A, L, R
<1>3. DistinctAccounts(lines)
  BY <1>1, <1>2 DEF DistinctAccounts
<1>4. R \notin AccountsOf(lines)
  BY <1>1, <1>2 DEF AccountsOf
<1>5. /\ Applied(balance, lines)[L] = balance[L] + Amount[w]
      /\ Applied(balance, lines)[A] = balance[A] + (-Amount[w])
      /\ Applied(balance, lines)[R] = balance[R]
  BY <1>1, <1>2, <1>3, <1>4, AppliedAt
<1>6. Amount[w] \in Int /\ balance[A] \in Int
  BY <1>2 DEF Parameters
<1> QED BY <1>5, <1>6 DEF lines, A, L, R

LEMMA ReleaseMoves ==
    ASSUME Parameters, balance \in [Accounts -> Int], NEW w \in Withdrawals
    PROVE  LET new == Applied(balance, ReleaseLines(w))
           IN  /\ new[Locked(Owner, Asset)] = balance[Locked(Owner, Asset)] - Amount[w]
               /\ new[Available(Owner, Asset)] = balance[Available(Owner, Asset)] + Amount[w]
               /\ new[System("FEE_REVENUE", Asset)] = balance[System("FEE_REVENUE", Asset)]
<1> DEFINE lines == ReleaseLines(w)
           A == Available(Owner, Asset)
           L == Locked(Owner, Asset)
           R == System("FEE_REVENUE", Asset)
<1>1. /\ DOMAIN lines = {1, 2}
      /\ lines[1].account = L /\ lines[2].account = A
      /\ Signed(lines[1]) = -Amount[w] /\ Signed(lines[2]) = Amount[w]
  BY DEF ReleaseLines, Debit, Credit, Signed
<1>2. A # L /\ R \notin {A, L} /\ {A, L, R} \subseteq Accounts
  BY AccountsApart DEF Parameters
<1> HIDE DEF lines, A, L, R
<1>3. DistinctAccounts(lines)
  BY <1>1, <1>2 DEF DistinctAccounts
<1>4. R \notin AccountsOf(lines)
  BY <1>1, <1>2 DEF AccountsOf
<1>5. /\ Applied(balance, lines)[L] = balance[L] + (-Amount[w])
      /\ Applied(balance, lines)[A] = balance[A] + Amount[w]
      /\ Applied(balance, lines)[R] = balance[R]
  BY <1>1, <1>2, <1>3, <1>4, AppliedAt
<1>6. Amount[w] \in Int /\ balance[L] \in Int
  BY <1>2 DEF Parameters
<1> QED BY <1>5, <1>6 DEF lines, A, L, R

(* The fee has a line of its own, or is nothing.                           *)
LEMMA FinalMoves ==
    ASSUME Parameters, balance \in [Accounts -> Int], NEW w \in Withdrawals
    PROVE  LET new == Applied(balance, FinalLines(w))
           IN  /\ new[Locked(Owner, Asset)] = balance[Locked(Owner, Asset)] - Amount[w]
               /\ new[Available(Owner, Asset)] = balance[Available(Owner, Asset)]
               /\ new[System("FEE_REVENUE", Asset)]
                     = balance[System("FEE_REVENUE", Asset)] + Fee
<1> DEFINE lines == FinalLines(w)
           A == Available(Owner, Asset)
           L == Locked(Owner, Asset)
           H == System("HOT_WALLET", Asset)
           R == System("FEE_REVENUE", Asset)
           locked == Debit(L, Amount[w])
           paid == Credit(H, Amount[w] - Fee)
           fee == Credit(R, Fee)
<1>0. lines = <<locked, paid>> \o (IF Fee > 0 THEN <<fee>> ELSE << >>)
  BY DEF FinalLines
<1>1. /\ locked.account = L /\ paid.account = H /\ fee.account = R
      /\ Signed(locked) = -Amount[w] /\ Signed(fee) = Fee
  BY DEF Debit, Credit, Signed
<1>2. A # L /\ H \notin {A, L} /\ R \notin {A, L, H} /\ {A, L, H, R} \subseteq Accounts
  BY AccountsApart DEF Parameters
<1>6. /\ Amount[w] \in Int /\ balance[L] \in Int /\ Fee \in Nat
      /\ balance[R] \in Int
  BY <1>2 DEF Parameters
<1> HIDE DEF lines, A, L, H, R, locked, paid, fee
<1>7. CASE Fee > 0
  <2>1. lines = <<locked, paid>> \o <<fee>>
    BY <1>0, <1>7
  <2>2. DOMAIN lines = {1, 2, 3} /\ lines[1] = locked /\ lines[2] = paid /\ lines[3] = fee
    <3>1. /\ <<locked, paid>> \in Seq({locked, paid, fee}) /\ <<fee>> \in Seq({locked, paid, fee})
          /\ Len(<<locked, paid>>) = 2 /\ Len(<<fee>>) = 1
      OBVIOUS
    <3>2. /\ Len(lines) = 3 /\ lines \in Seq({locked, paid, fee})
          /\ lines[1] = locked /\ lines[2] = paid /\ lines[3] = fee
      BY <2>1, <3>1
    <3> QED BY <3>2
  <2>3. DistinctAccounts(lines) /\ A \notin AccountsOf(lines)
    BY <1>1, <1>2, <2>2 DEF DistinctAccounts, AccountsOf
  <2>4. /\ Applied(balance, lines)[L] = balance[L] + (-Amount[w])
        /\ Applied(balance, lines)[A] = balance[A]
        /\ Applied(balance, lines)[R] = balance[R] + Fee
    BY <1>1, <1>2, <2>2, <2>3, AppliedAt
  <2> QED BY <1>6, <2>4 DEF lines, A, L, R
<1>8. CASE ~(Fee > 0)
  <2>1. lines = <<locked, paid>>
    BY <1>0, <1>8
  <2>2. DOMAIN lines = {1, 2} /\ lines[1] = locked /\ lines[2] = paid
    BY <2>1
  <2>3. DistinctAccounts(lines) /\ A \notin AccountsOf(lines) /\ R \notin AccountsOf(lines)
    BY <1>1, <1>2, <2>2 DEF DistinctAccounts, AccountsOf
  <2>4. /\ Applied(balance, lines)[L] = balance[L] + (-Amount[w])
        /\ Applied(balance, lines)[A] = balance[A]
        /\ Applied(balance, lines)[R] = balance[R]
    BY <1>1, <1>2, <2>2, <2>3, AppliedAt
  <2>5. Fee = 0
    BY <1>6, <1>8
  <2> QED BY <1>6, <2>4, <2>5 DEF lines, A, L, R
<1> QED BY <1>7, <1>8

LEMMA PairIsFinite == ASSUME NEW a, NEW b PROVE IsFiniteSet({a, b})
<1>1. IsFiniteSet({a} \cup {b})
  BY FS_Singleton, FS_AddElement
<1>2. {a, b} = {a} \cup {b}
  OBVIOUS
<1> QED BY <1>1, <1>2

(* A release of a hold that is in the locked account is not refused.       *)
LEMMA ReleaseAccepted ==
    ASSUME Parameters, balance \in [Accounts -> Int], NEW w \in Withdrawals,
           balance[Locked(Owner, Asset)] >= Amount[w]
    PROVE  assertPostingBalanced(ReleaseLines(w)) /\ CanPost(balance, ReleaseLines(w))
<1> DEFINE lines == ReleaseLines(w)
           n == Amount[w]
           s == [i \in {1, 2} |-> Signed(lines[i])]
<1>1. n \in Int /\ n > 0
  BY DEF Parameters
<1>2. /\ Len(lines) = 2 /\ DOMAIN lines = {1, 2}
      /\ lines[1] = Debit(Locked(Owner, Asset), n)
      /\ lines[2] = Credit(Available(Owner, Asset), n)
  BY DEF ReleaseLines
<1>3. /\ \A i \in {1, 2} : lines[i].amount = n /\ lines[i].account.asset = Asset
      /\ lines[1].account = Locked(Owner, Asset) /\ lines[2].direction = "CREDIT"
      /\ s[1] = -n /\ s[2] = n
  BY <1>2 DEF Debit, Credit, Locked, Available, Signed
<1>4. SumOf(s, {1, 2}) = 0
  <2>1. IsFiniteSet({1}) /\ IsFiniteSet({1, 2}) /\ IsFiniteSet({2})
    BY FS_Singleton, PairIsFinite
  <2>2. \A i \in {1, 2} : s[i] \in Int
    BY <1>1, <1>3
  <2>3. {1, 2} \ {1} = {2} /\ {2} \ {2} = {}
    OBVIOUS
  <2>4. SumOf(s, {}) = 0
    BY FS_EmptySet, SumUnfolds
  <2> HIDE DEF s
  <2>5. SumOf(s, {2}) = s[2] + SumOf(s, {})
    BY <2>1, <2>2, <2>3, SumRemove
  <2>6. SumOf(s, {1, 2}) = s[1] + SumOf(s, {2})
    BY <2>1, <2>2, <2>3, SumRemove
  <2> QED BY <1>1, <1>3, <2>4, <2>5, <2>6
<1> HIDE DEF lines, n
<1>5. CreditsEqualDebits(lines)
  <2>1. {i \in DOMAIN lines : lines[i].account.asset = Asset} = {1, 2}
    BY <1>2, <1>3
  <2>2. {lines[i].account.asset : i \in DOMAIN lines} = {Asset}
    BY <1>2, <1>3
  <2>3. IsFiniteSet({1, 2})
    BY PairIsFinite
  <2>4. MapThenSumSet(LAMBDA i : Signed(lines[i]), {1, 2}) = 0
    BY <1>4, <2>3, SumOfLines
  <2> QED BY <2>1, <2>2, <2>4 DEF CreditsEqualDebits
<1>6. CanPost(balance, lines)
  BY <1>2, <1>3 DEF CanPost, MayApply, n
<1>7. assertPostingBalanced(lines)
  BY <1>1, <1>2, <1>3, <1>5 DEF assertPostingBalanced
<1> QED BY <1>6, <1>7 DEF lines

(* How a posting moves the money of its withdrawal, and of no other.       *)
LEMMA MoneyMoves ==
    ASSUME MovedFromHold, MovedFromHold', NeverBoth, NeverBoth', NEW v \in Withdrawals,
           NEW ref \in {HoldRef(v), ReleaseRef(v), FinalRef(v)}, ref \notin posted,
           posted' = posted \cup {ref}
    PROVE  /\ ref = HoldRef(v) => MoneyOf(v) = "free" /\ MoneyOf(v)' = "reserved"
           /\ ref = ReleaseRef(v) => MoneyOf(v) = "reserved" /\ MoneyOf(v)' = "released"
           /\ ref = FinalRef(v) => MoneyOf(v) = "reserved" /\ MoneyOf(v)' = "paid"
           /\ \A w \in Withdrawals \ {v} : MoneyOf(w)' = MoneyOf(w)
<1>1. \A w \in Withdrawals \ {v} : MoneyOf(w)' = MoneyOf(w)
  <2> SUFFICES ASSUME NEW w \in Withdrawals \ {v} PROVE MoneyOf(w)' = MoneyOf(w)
    OBVIOUS
  <2>1. \A r \in {HoldRef(w), ReleaseRef(w), FinalRef(w)} : r # ref
    BY DEF HoldRef, ReleaseRef, FinalRef
  <2>2. \A r \in {HoldRef(w), ReleaseRef(w), FinalRef(w)} : r \in posted' <=> r \in posted
    BY <2>1
  <2> QED BY ONLY <2>2 DEF MoneyOf
<1>2. /\ ref = HoldRef(v) => ReleaseRef(v) \notin posted /\ FinalRef(v) \notin posted
      /\ ref # HoldRef(v) => HoldRef(v) \in posted
      /\ ref = ReleaseRef(v) => FinalRef(v) \notin posted
      /\ ref = FinalRef(v) => ReleaseRef(v) \notin posted
  BY DEF MovedFromHold, NeverBoth, HoldRef, ReleaseRef, FinalRef
<1> QED BY <1>1, <1>2 DEF MoneyOf, HoldRef, ReleaseRef, FinalRef

(* A step leaves the ledger alone, or makes one of the three postings of a *)
(* withdrawal for the first time.                                          *)
PostsFor(w, ref, lines) ==
    /\ ref \notin posted
    /\ balance' = Applied(balance, lines)
    /\ posted' = posted \cup {ref}

MovesOf(w) ==
    \/ PostsFor(w, HoldRef(w), HoldLines(w))
    \/ PostsFor(w, ReleaseRef(w), ReleaseLines(w))
    \/ PostsFor(w, FinalRef(w), FinalLines(w))

LEMMA Movement ==
    ASSUME TypeOK, [Next]_vars
    PROVE  UNCHANGED <<balance, posted>> \/ \E w \in Withdrawals : MovesOf(w)
<1> DEFINE Goal == UNCHANGED <<balance, posted>> \/ \E w \in Withdrawals : MovesOf(w)
<1>0. ASSUME NEW w \in Withdrawals, NEW ref, NEW lines, Post(ref, lines)
      PROVE  UNCHANGED <<balance, posted>> \/ PostsFor(w, ref, lines)
  BY <1>0 DEF Post, ledger, PostsFor
<1>1. ASSUME NEW w \in Withdrawals, PlaceHold(w) PROVE Goal
  BY <1>0, <1>1 DEF PlaceHold, ledger, MovesOf
<1>2. ASSUME NEW a \in Admins, ReleaseRejected(a) PROVE Goal
  <2>1. review[a].withdrawal \in Withdrawals
    BY <1>2, ReviewType DEF ReleaseRejected
  <2> QED BY <1>0, <1>2, <2>1 DEF ReleaseRejected, releaseHold, ledger, MovesOf
<1>3. ASSUME NEW k \in Workers, FinalizeLedger(k) PROVE Goal
  <2>1. Current(k) \in Withdrawals
    BY <1>3, CurrentType DEF FinalizeLedger, Handling
  <2> QED BY <1>0, <1>3, <2>1 DEF FinalizeLedger, ledger, MovesOf
<1>4. ASSUME NEW k \in Workers, ReleaseFailed(k) PROVE Goal
  <2>1. Current(k) \in Withdrawals
    BY <1>4, CurrentType DEF ReleaseFailed, Handling
  <2> QED BY <1>0, <1>4, <2>1 DEF ReleaseFailed, ledger, MovesOf
<1>5. ASSUME NEW w \in Withdrawals, Decide(w) PROVE Goal
  BY <1>5, DecideEffect
<1>6. CASE Postless
  BY <1>6, PostsNothing
<1> QED
  BY <1>1, <1>2, <1>3, <1>4, <1>5, <1>6
  DEF Next, RequestStep, ReviewStep, WorkerStep, Postless

(* The postings of every behaviour, with any number of workers when nothing *)
(* fails and with one whatever fails, are those of the abstract reservation: *)
(* each hold is placed once, and given back or paid out once.              *)
THEOREM Refinement ==
    ASSUME Parameters, MaxFailures = 0 \/ SoleWorker PROVE Spec => ImplementsReservation
<1> DEFINE phase == [w \in Withdrawals |-> MoneyOf(w)]
<1>1. Init => Money!Init
  BY Start DEF Money!Init, MoneyOf, HoldRef, ReleaseRef, FinalRef
<1>2. TypeOK /\ [Next]_vars /\ MovedFromHold /\ MovedFromHold' /\ NeverBoth /\ NeverBoth'
         => [Money!Next]_phase
  <2> SUFFICES ASSUME TypeOK, [Next]_vars, MovedFromHold, MovedFromHold', NeverBoth,
                      NeverBoth', phase' # phase
               PROVE  Money!Next
    OBVIOUS
  <2>1. PICK v \in Withdrawals : MovesOf(v)
    BY Movement DEF MoneyOf
  <2>2. PICK ref \in {HoldRef(v), ReleaseRef(v), FinalRef(v)} :
           ref \notin posted /\ posted' = posted \cup {ref}
    BY <2>1 DEF MovesOf, PostsFor
  <2>3. \A w \in Withdrawals \ {v} : MoneyOf(w)' = MoneyOf(w)
    BY <2>2, MoneyMoves
  <2>4. \/ MoneyOf(v) = "free" /\ MoneyOf(v)' = "reserved"
        \/ MoneyOf(v) = "reserved" /\ MoneyOf(v)' \in {"released", "paid"}
    BY <2>2, MoneyMoves
  <2>5. ASSUME NEW from, NEW to, MoneyOf(v) = from, MoneyOf(v)' = to
        PROVE  Money!Move(v, from, to)
    <3>1. phase' = [phase EXCEPT ![v] = to]
      BY <2>3, <2>5
    <3> QED BY <2>5, <3>1 DEF Money!Move
  <2> QED BY <2>4, <2>5 DEF Money!Next
<1>3. Spec => [](TypeOK /\ MovedFromHold /\ NeverBoth)
  BY TypeCorrect, HeldInvariant, UsedOnce, PTL
<1> QED BY <1>1, <1>2, <1>3, PTL DEF Spec, ImplementsReservation, Money!Spec

(* Totals of amounts.                                                      *)
LEMMA TotalFacts ==
    ASSUME Parameters, IsFiniteSet(Withdrawals), NEW S \in SUBSET Withdrawals
    PROVE  /\ Total(S) \in Nat
           /\ \A w \in Withdrawals \ S : Total(S \cup {w}) = Total(S) + Amount[w]
           /\ \A w \in S : /\ Total(S) = Total(S \ {w}) + Amount[w]
                           /\ Total(S) >= Amount[w]
<1>1. \A w \in Withdrawals : Amount[w] \in Nat /\ Amount[w] \in Int
  BY DEF Parameters
<1>2. \A T \in SUBSET Withdrawals : IsFiniteSet(T) /\ Total(T) = SumOf(Amount, T)
  BY FS_Subset DEF Total, SumOf
<1>3. \A T \in SUBSET Withdrawals : Total(T) \in Int
  BY <1>1, <1>2, SumType
<1>4. \A T \in SUBSET Withdrawals : \A w \in T : Total(T) = Total(T \ {w}) + Amount[w]
  <2> SUFFICES ASSUME NEW T \in SUBSET Withdrawals, NEW w \in T
               PROVE  Total(T) = Total(T \ {w}) + Amount[w]
    OBVIOUS
  <2>1. SumOf(Amount, T) = Amount[w] + SumOf(Amount, T \ {w})
    BY <1>1, <1>2, SumRemove
  <2> QED BY <1>1, <1>2, <1>3, <2>1
<1>5. \A T \in SUBSET Withdrawals : Total(T) \in Nat
  <2> DEFINE P == {T \in SUBSET Withdrawals : Total(T) \in Nat}
  <2>1. ASSUME NEW T \in SUBSET Withdrawals, \A U \in SUBSET T : U # T => U \in P
        PROVE  T \in P
    <3>1. CASE T = {}
      <4>1. SumOf(Amount, T) = 0 /\ Total(T) = SumOf(Amount, T)
        BY <1>2, <3>1, SumUnfolds
      <4> QED BY <4>1
    <3>2. CASE T # {}
      <4>1. PICK w \in T : TRUE
        BY <3>2
      <4>2. Total(T \ {w}) \in Nat
        BY <2>1, <4>1
      <4> QED BY <1>1, <1>4, <4>1, <4>2
    <3> QED BY <3>1, <3>2
  <2> HIDE DEF P
  <2>2. \A T \in SUBSET Withdrawals : T \in P
    BY <2>1, SubsetInduction
  <2> QED BY <2>2 DEF P
<1>6. ASSUME NEW w \in Withdrawals \ S PROVE Total(S \cup {w}) = Total(S) + Amount[w]
  <2>1. (S \cup {w}) \ {w} = S /\ S \cup {w} \in SUBSET Withdrawals
    OBVIOUS
  <2> QED BY <1>4, <2>1
<1>7. \A w \in S : Total(S) >= Amount[w]
  <2> SUFFICES ASSUME NEW w \in S PROVE Total(S) >= Amount[w]
    OBVIOUS
  <2>1. Total(S) = Total(S \ {w}) + Amount[w] /\ Total(S \ {w}) \in Nat /\ Amount[w] \in Nat
    BY <1>1, <1>4, <1>5
  <2> QED BY <2>1
<1> QED BY <1>4, <1>5, <1>6, <1>7

(* Each posting moves the balances as it moves the withdrawal's money.     *)
LEMMA BackedStep ==
    ASSUME Parameters, IsFiniteSet(Withdrawals), TypeOK, MovedFromHold, MovedFromHold',
           NeverBoth, NeverBoth', Backed, [Next]_vars
    PROVE  Backed'
<1>1. CASE UNCHANGED <<balance, posted>>
  BY <1>1 DEF Backed, Reserved, PaidOut, MoneyOf
<1>2. ASSUME NEW w \in Withdrawals, MovesOf(w) PROVE Backed'
  <2> DEFINE L == Locked(Owner, Asset)
             A == Available(Owner, Asset)
             R == System("FEE_REVENUE", Asset)
  <2>1. /\ balance \in [Accounts -> Int] /\ {A, L, R} \subseteq Accounts
        /\ Amount[w] \in Nat /\ Fee \in Nat /\ OpeningBalance \in Nat
    BY AccountsApart DEF TypeOK, Parameters
  <2>2. /\ Reserved \in SUBSET Withdrawals /\ PaidOut \in SUBSET Withdrawals
        /\ Reserved \ {w} \in SUBSET Withdrawals
        /\ Reserved' \in SUBSET Withdrawals /\ PaidOut' \in SUBSET Withdrawals
    BY DEF Reserved, PaidOut
  <2>3. /\ Total(Reserved) \in Nat /\ Total(PaidOut) \in Nat
        /\ Total(Reserved \ {w}) \in Nat
    BY <2>2, TotalFacts
  <2>4. IsFiniteSet(PaidOut) /\ Cardinality(PaidOut) \in Nat
    BY <2>2, FS_Subset, FS_CardinalityType
  <2>5. /\ balance[L] = Total(Reserved)
        /\ balance[A] = OpeningBalance - Total(Reserved) - Total(PaidOut)
        /\ balance[R] = Fee * Cardinality(PaidOut)
    BY DEF Backed
  <2>6. SUFFICES /\ balance'[L] = Total(Reserved')
                 /\ balance'[A] = OpeningBalance - Total(Reserved') - Total(PaidOut')
                 /\ balance'[R] = Fee * Cardinality(PaidOut')
    <3>1. Total(Reserved)' = Total(Reserved') /\ Total(PaidOut)' = Total(PaidOut')
      BY DEF Total, MapThenSumSet, MapThenFoldSet
    <3> QED BY <3>1 DEF Backed
  <2>7. CASE PostsFor(w, HoldRef(w), HoldLines(w))
    <3>1. /\ MoneyOf(w) = "free" /\ MoneyOf(w)' = "reserved"
          /\ \A v \in Withdrawals \ {w} : MoneyOf(v)' = MoneyOf(v)
      BY <2>7, MoneyMoves DEF PostsFor
    <3>2. Reserved' = Reserved \cup {w} /\ w \notin Reserved
      BY <3>1 DEF Reserved
    <3>3. PaidOut' = PaidOut
      BY <2>7 DEF PostsFor, PaidOut, HoldRef, FinalRef
    <3>4. Total(Reserved') = Total(Reserved) + Amount[w]
      BY <2>2, <3>2, TotalFacts
    <3>5. /\ balance'[L] = balance[L] + Amount[w] /\ balance'[A] = balance[A] - Amount[w]
          /\ balance'[R] = balance[R]
      BY <2>1, <2>7, HoldMoves DEF PostsFor
    <3> HIDE DEF L, A, R
    <3> QED BY <2>1, <2>3, <2>5, <3>3, <3>4, <3>5
  <2>8. CASE PostsFor(w, ReleaseRef(w), ReleaseLines(w))
    <3>1. /\ MoneyOf(w) = "reserved" /\ MoneyOf(w)' = "released"
          /\ \A v \in Withdrawals \ {w} : MoneyOf(v)' = MoneyOf(v)
      BY <2>8, MoneyMoves DEF PostsFor
    <3>2. Reserved' = Reserved \ {w} /\ w \in Reserved
      BY <3>1 DEF Reserved
    <3>3. PaidOut' = PaidOut
      BY <2>8 DEF PostsFor, PaidOut, ReleaseRef, FinalRef
    <3>4. Total(Reserved) = Total(Reserved') + Amount[w]
      BY <2>2, <3>2, TotalFacts
    <3>5. /\ balance'[L] = balance[L] - Amount[w] /\ balance'[A] = balance[A] + Amount[w]
          /\ balance'[R] = balance[R]
      BY <2>1, <2>8, ReleaseMoves DEF PostsFor
    <3>6. Total(Reserved') \in Nat
      BY <2>3, <3>2
    <3> HIDE DEF L, A, R
    <3> QED BY <2>1, <2>3, <2>5, <3>3, <3>4, <3>5, <3>6
  <2>9. CASE PostsFor(w, FinalRef(w), FinalLines(w))
    <3>1. /\ MoneyOf(w) = "reserved" /\ MoneyOf(w)' = "paid"
          /\ \A v \in Withdrawals \ {w} : MoneyOf(v)' = MoneyOf(v)
      BY <2>9, MoneyMoves DEF PostsFor
    <3>2. Reserved' = Reserved \ {w} /\ w \in Reserved
      BY <3>1 DEF Reserved
    <3>3. PaidOut' = PaidOut \cup {w} /\ w \notin PaidOut
      BY <2>9 DEF PostsFor, PaidOut, FinalRef
    <3>4. /\ Total(Reserved) = Total(Reserved') + Amount[w]
          /\ Total(PaidOut') = Total(PaidOut) + Amount[w]
      BY <2>2, <3>2, <3>3, TotalFacts
    <3>5. /\ balance'[L] = balance[L] - Amount[w] /\ balance'[A] = balance[A]
          /\ balance'[R] = balance[R] + Fee
      BY <2>1, <2>9, FinalMoves DEF PostsFor
    <3>6. Total(Reserved') \in Nat
      BY <2>3, <3>2
    <3>7. Cardinality(PaidOut') = Cardinality(PaidOut) + 1
      BY <2>4, <3>3, FS_AddElement
    <3> HIDE DEF L, A, R
    <3>8. Fee * Cardinality(PaidOut') = Fee * Cardinality(PaidOut) + Fee
      BY <2>1, <2>4, <3>7
    <3> QED BY <2>1, <2>3, <2>5, <3>4, <3>5, <3>6, <3>8
  <2> QED BY <1>2, <2>7, <2>8, <2>9 DEF MovesOf
<1> QED BY <1>1, <1>2, Movement

(* A hold that is in the locked account can be released.                   *)
LEMMA ReleaseHappens ==
    ASSUME Parameters, IsFiniteSet(Withdrawals), TypeOK, Backed, NEW w \in Withdrawals,
           HoldRef(w) \in posted, FinalRef(w) \notin posted
    PROVE  ~Refused(ReleaseRef(w), ReleaseLines(w))
<1> SUFFICES ASSUME ReleaseRef(w) \notin posted
             PROVE  assertPostingBalanced(ReleaseLines(w)) /\ CanPost(balance, ReleaseLines(w))
  BY DEF Refused
<1>1. w \in Reserved /\ Reserved \in SUBSET Withdrawals
  BY DEF Reserved, MoneyOf
<1>2. balance[Locked(Owner, Asset)] >= Amount[w]
  BY <1>1, TotalFacts DEF Backed
<1> QED BY <1>2, ReleaseAccepted DEF TypeOK

(* What keeps each part of Booked.                                         *)
LEMMA KeepsRows ==
    ASSUME RowsByRequest, Held, UNCHANGED request,
           \A v \in Withdrawals :
               /\ row'[v].hold = row[v].hold
               /\ \/ row'[v].status = row[v].status
                  \/ row'[v].status \notin {"NONE", "REQUESTED"} /\ row[v].hold
               /\ HoldRef(v) \in posted' => HoldRef(v) \in posted
    PROVE  RowsByRequest'
BY DEF RowsByRequest, Held, HeldRows

LEMMA KeepsReviews ==
    ASSUME TypeOK, ReviewsByRow,
           \A a \in Admins : review'[a].at # "idle" =>
               /\ review[a].at # "idle"
               /\ review'[a].withdrawal = review[a].withdrawal
               /\ review'[a].seen = review[a].seen,
           \A v \in Withdrawals : request[v] = "done" =>
               request'[v] = "done" /\ (row'[v].hold => row[v].hold)
    PROVE  ReviewsByRow'
BY ReviewType DEF ReviewsByRow

LEMMA KeepsWorkAside ==
    ASSUME TypeOK, WorkByRow, UNCHANGED worker,
           \A v \in Withdrawals :
               \/ row'[v].status = row[v].status
               \/ /\ row[v].status \notin {"SIGNING"} \cup InFlight
                  /\ row'[v].status # "SIGNING"
    PROVE  WorkByRow'
<1>1. \A k \in Workers : Sends(k) \/ Settles(k) => Current(k) \in Withdrawals
  BY CurrentType DEF Sends, Settles, Handling
<1>2. \A k \in Workers : \A item \in worker[k].todo : item.withdrawal \in Withdrawals
  BY WorkerStates DEF Items
<1>3. /\ \A k \in Workers : /\ Sends(k)' <=> Sends(k)
                           /\ Settles(k)' <=> Settles(k)
                           /\ Current(k)' = Current(k)
      /\ \A v \in Withdrawals : row'[v].status = "SIGNING" <=> row[v].status = "SIGNING"
      /\ \A v \in Withdrawals : row[v].status \in InFlight => row'[v].status = row[v].status
  BY DEF Sends, Settles, Current
<1>4. \A k \in Workers : Sends(k)' =>
         /\ row'[Current(k)'].status = "SIGNING"
         /\ \A j \in Workers : Sends(j)' /\ Current(j)' = Current(k)' => j = k
  BY <1>1, <1>3 DEF WorkByRow, Sends, Settles, Current
<1>5. \A k \in Workers : Settles(k)' =>
         /\ row'[Current(k)'].status \in InFlight
         /\ worker'[k].item.seen.hold
         /\ worker'[k].at = "release" => row'[Current(k)'].status = "FAILED"
  BY <1>1, <1>3 DEF WorkByRow, Sends, Settles, Current
<1>6. \A k \in Workers : worker'[k].pass = "confirm" =>
         \A item \in worker'[k].todo :
             row'[item.withdrawal].status \in InFlight /\ item.seen.hold
  BY <1>2, <1>3 DEF WorkByRow, Sends, Settles, Current
<1>7. \A w \in Withdrawals : row'[w].status = "SIGNING" =>
         \E k \in Workers : Sends(k)' /\ Current(k)' = w
  BY <1>3 DEF WorkByRow, Sends, Settles, Current
<1> QED BY <1>4, <1>5, <1>6, <1>7 DEF WorkByRow

(* A worker's step that leaves alone what is being sent.                   *)
LEMMA KeepsWork ==
    ASSUME TypeOK, WorkByRow, NEW k \in Workers,
           \A j \in Workers \ {k} : worker'[j] = worker[j],
           \A v \in Withdrawals :
               \/ row'[v].status = row[v].status
               \/ /\ row[v].status \in InFlight \ {"FAILED"}
                  /\ row'[v].status \in InFlight,
           Sends(k) \/ Sends(k)' => Sends(k) /\ Sends(k)' /\ Current(k)' = Current(k),
           Settles(k)' =>
               /\ row'[Current(k)'].status \in InFlight
               /\ worker'[k].item.seen.hold
               /\ worker'[k].at = "release" => row'[Current(k)'].status = "FAILED",
           worker'[k].pass = "confirm" =>
               \A item \in worker'[k].todo :
                   \/ worker[k].pass = "confirm" /\ item \in worker[k].todo
                   \/ row'[item.withdrawal].status \in InFlight /\ item.seen.hold
    PROVE  WorkByRow'
<1>1. \A j \in Workers : Sends(j) \/ Settles(j) => Current(j) \in Withdrawals
  BY CurrentType DEF Sends, Settles, Handling
<1>2. \A j \in Workers : \A item \in worker[j].todo : item.withdrawal \in Withdrawals
  BY WorkerStates DEF Items
<1>3. /\ \A j \in Workers \ {k} : /\ Sends(j)' <=> Sends(j)
                                 /\ Settles(j)' <=> Settles(j)
                                 /\ Current(j)' = Current(j)
      /\ \A v \in Withdrawals : row'[v].status = "SIGNING" <=> row[v].status = "SIGNING"
      /\ \A v \in Withdrawals :
            /\ row[v].status \in InFlight => row'[v].status \in InFlight
            /\ row[v].status = "FAILED" => row'[v].status = "FAILED"
  BY DEF Sends, Settles, Current, InFlight
<1>4. \A j \in Workers : Sends(j)' => Sends(j) /\ Current(j)' = Current(j)
  BY <1>3 DEF Sends, Current
<1>5. \A j \in Workers : Sends(j) => Sends(j)' /\ Current(j)' = Current(j)
  BY <1>3 DEF Sends, Current
<1>6. \A j \in Workers : Sends(j)' =>
         /\ row'[Current(j)'].status = "SIGNING"
         /\ \A i \in Workers : Sends(i)' /\ Current(i)' = Current(j)' => i = j
  BY <1>1, <1>3, <1>4 DEF WorkByRow, Sends, Settles, Current
<1>7. \A j \in Workers : Settles(j)' =>
         /\ row'[Current(j)'].status \in InFlight
         /\ worker'[j].item.seen.hold
         /\ worker'[j].at = "release" => row'[Current(j)'].status = "FAILED"
  <2>1. ASSUME NEW j \in Workers \ {k}, Settles(j)'
        PROVE  /\ row'[Current(j)'].status \in InFlight
               /\ worker'[j].item.seen.hold
               /\ worker'[j].at = "release" => row'[Current(j)'].status = "FAILED"
    BY <1>1, <1>3, <2>1 DEF WorkByRow, Sends, Settles, Current
  <2> QED BY <2>1
<1>8. \A j \in Workers : worker'[j].pass = "confirm" =>
         \A item \in worker'[j].todo :
             row'[item.withdrawal].status \in InFlight /\ item.seen.hold
  BY <1>2, <1>3 DEF WorkByRow, Sends, Settles, Current
<1>9. \A w \in Withdrawals : row'[w].status = "SIGNING" =>
         \E j \in Workers : Sends(j)' /\ Current(j)' = w
  BY <1>3, <1>5 DEF WorkByRow, Sends, Settles, Current
<1> QED BY <1>6, <1>7, <1>8, <1>9 DEF WorkByRow

LEMMA KeepsRejected ==
    ASSUME RejectedRows, posted \subseteq posted',
           \A v \in Withdrawals :
               /\ row[v].status \in {"REJECTED", "FAILED"} => row'[v].status = row[v].status
               /\ ReleaseRef(v) \in posted' =>
                     \/ ReleaseRef(v) \in posted
                     \/ row'[v].status \in {"REJECTED", "FAILED"}
               /\ row'[v].status = "REJECTED" =>
                     \/ row[v].status = "REJECTED"
                     \/ \E a \in Admins : review'[a].at = "release"
                                           /\ review'[a].withdrawal = v,
           \A a \in Admins : review[a].at = "release" =>
               review'[a] = review[a] \/ ReleaseRef(review[a].withdrawal) \in posted'
    PROVE  RejectedRows'
<1>1. ASSUME NEW w \in Withdrawals, ReleaseRef(w) \in posted'
      PROVE  row'[w].status \in {"REJECTED", "FAILED"}
  BY <1>1 DEF RejectedRows
<1>2. ASSUME NEW w \in Withdrawals, row'[w].status = "REJECTED"
      PROVE  \/ ReleaseRef(w) \in posted'
             \/ \E a \in Admins : review'[a].at = "release" /\ review'[a].withdrawal = w
  BY <1>2 DEF RejectedRows
<1> QED BY <1>1, <1>2 DEF RejectedRows

LEMMA KeepsFailed ==
    ASSUME FailedRows, posted \subseteq posted',
           \A v \in Withdrawals : Dropped(v) => Dropped(v)',
           \A v \in Withdrawals : row'[v].status = "FAILED" /\ row'[v].hold =>
               \/ row[v].status = "FAILED" /\ row[v].hold
               \/ /\ Dropped(v)
                  /\ \E k \in Workers : worker'[k].at = "release"
                                          /\ worker'[k].item.withdrawal = v,
           \A k \in Workers : worker[k].at = "release" =>
               \/ worker'[k].at = "release" /\ worker'[k].item = worker[k].item
               \/ ReleaseRef(worker[k].item.withdrawal) \in posted'
    PROVE  FailedRows'
<1> SUFFICES ASSUME NEW w \in Withdrawals, row'[w].status = "FAILED", row'[w].hold
             PROVE  /\ Dropped(w)'
                    /\ \/ ReleaseRef(w) \in posted'
                       \/ \E k \in Workers : worker'[k].at = "release" /\ Current(k)' = w
  BY DEF FailedRows
<1>1. CASE row[w].status = "FAILED" /\ row[w].hold
  BY <1>1 DEF FailedRows, Current
<1>2. CASE ~(row[w].status = "FAILED" /\ row[w].hold)
  BY <1>2 DEF Current
<1> QED BY <1>1, <1>2

LEMMA KeepsPayouts ==
    ASSUME PaidRows,
           \A v \in Withdrawals :
               /\ FinalRef(v) \in posted' =>
                     \/ FinalRef(v) \in posted
                     \/ row'[v].status = "COMPLETED"
                     \/ /\ row'[v].status \in {"BROADCAST", "CONFIRMING"}
                        /\ \E k \in Workers : worker'[k].at = "complete"
                                                /\ worker'[k].item.withdrawal = v
               /\ row[v].status = "COMPLETED" => row'[v].status = "COMPLETED"
               /\ FinalRef(v) \in posted /\ row[v].status \in {"BROADCAST", "CONFIRMING"} =>
                     row'[v].status \in {"BROADCAST", "CONFIRMING", "COMPLETED"},
           \A k \in Workers : worker[k].at = "complete" =>
               \/ worker'[k].at = "complete" /\ worker'[k].item = worker[k].item
               \/ row'[worker[k].item.withdrawal].status = "COMPLETED"
    PROVE  PaidRows'
<1> SUFFICES ASSUME NEW w \in Withdrawals, FinalRef(w) \in posted'
             PROVE  \/ row'[w].status = "COMPLETED"
                    \/ /\ row'[w].status \in {"BROADCAST", "CONFIRMING"}
                       /\ \E k \in Workers : worker'[k].at = "complete"
                                               /\ worker'[k].item.withdrawal = w
  BY DEF PaidRows, OnChain, Current
<1>1. CASE FinalRef(w) \in posted
  <2>1. CASE row[w].status = "COMPLETED"
    BY <2>1
  <2>2. CASE row[w].status # "COMPLETED"
    <3>1. /\ row[w].status \in {"BROADCAST", "CONFIRMING"}
          /\ \E k \in Workers : worker[k].at = "complete" /\ worker[k].item.withdrawal = w
      BY <1>1, <2>2 DEF PaidRows, OnChain, Current
    <3> QED BY <1>1, <3>1
  <2> QED BY <2>1, <2>2
<1>2. CASE FinalRef(w) \notin posted
  BY <1>2
<1> QED BY <1>1, <1>2

-----------------------------------------------------------------------------

(* What a step may rely on.                                                *)
Sound == /\ TypeOK /\ Claims /\ SentOnce /\ Finalizing /\ CompletedIsPaid
         /\ Held /\ Released /\ MovedFromHold /\ Backed /\ Booked

(* A row whose hold is out was paid for: what each status says.            *)
LEMMA SoundFacts ==
    ASSUME MaxFailures = 0, Sound
    PROVE  /\ failures = 0
           /\ \A v \in Withdrawals :
                 /\ row[v].status \in Statuses
                 /\ row[v].status \notin {"NONE", "REQUESTED", "FAILED"} => row[v].hold
                 /\ row[v].status \notin {"NONE", "REQUESTED"} => request[v] = "done"
                 /\ row[v].hold => HoldRef(v) \in posted /\ request[v] = "done"
                 /\ request[v] # "done" => row[v].status \in {"NONE", "REQUESTED"}
                 /\ ReleaseRef(v) \in posted => row[v].status \in {"REJECTED", "FAILED"}
                 /\ FinalRef(v) \in posted => row[v].status \in {"COMPLETED", "BROADCAST", "CONFIRMING"}
                 /\ ~(Dropped(v) /\ \E t \in chain : t.withdrawal = v /\ t.state = "deep")
<1>1. failures = 0
  BY DEF Sound, TypeOK
<1>2. ASSUME NEW v \in Withdrawals
      PROVE  /\ request[v] \in {"none", "create", "hold", "bind", "refuse", "done"}
             /\ row[v].status \in Statuses
             /\ row[v].status \notin {"NONE", "REQUESTED", "FAILED"} => row[v].hold
             /\ row[v].status \notin {"NONE", "REQUESTED"} => request[v] = "done"
             /\ row[v].hold => HoldRef(v) \in posted /\ request[v] = "done"
             /\ request[v] # "done" => row[v].status \in {"NONE", "REQUESTED"}
  <2>1. request[v] \in {"none", "create", "hold", "bind", "refuse", "done"}
        /\ row[v].status \in Statuses
    BY RowType DEF Sound, TypeOK
  <2>2. /\ request[v] \in {"none", "create"} => row[v].status = "NONE"
        /\ request[v] \in {"hold", "bind", "refuse"} => row[v].status = "REQUESTED"
        /\ request[v] = "done" => row[v].hold \/ row[v].status = "FAILED"
        /\ row[v].hold => HoldRef(v) \in posted /\ request[v] = "done"
    BY DEF Sound, Booked, RowsByRequest, Held, HeldRows
  <2> QED BY ONLY <2>1, <2>2
<1>3. ASSUME NEW v \in Withdrawals
      PROVE  /\ ReleaseRef(v) \in posted => row[v].status \in {"REJECTED", "FAILED"}
             /\ FinalRef(v) \in posted => row[v].status \in {"COMPLETED", "BROADCAST", "CONFIRMING"}
             /\ ~(Dropped(v) /\ \E t \in chain : t.withdrawal = v /\ t.state = "deep")
  BY DEF Sound, Booked, RejectedRows, PaidRows, OnChain, SentOnce, Dropped
<1> QED BY <1>1, <1>2, <1>3

LEMMA RequestBooked ==
    ASSUME Parameters, MaxFailures = 0, Sound, [Next]_vars, NEW w \in Withdrawals,
           UNCHANGED <<review, worker>>, request[w] # "done",
           \A v \in Withdrawals \ {w} : row'[v] = row[v] /\ request'[v] = request[v],
           row'[w].status \in {"NONE", "REQUESTED", "PENDING_APPROVAL", "FAILED"},
           row'[w].hold = row[w].hold \/ row'[w].status = "PENDING_APPROVAL",
           posted' \in {posted, posted \cup {HoldRef(w)}},
           RowsByRequest'
    PROVE  Booked'
<1>1. TypeOK /\ ReviewsByRow /\ WorkByRow /\ RejectedRows /\ FailedRows /\ PaidRows
  BY DEF Sound, Booked
<1>2. row[w].status \in {"NONE", "REQUESTED"} /\ ~row[w].hold
  BY SoundFacts
<1>3. ReviewsByRow'
  BY <1>1, KeepsReviews
<1>4. WorkByRow'
  BY <1>1, <1>2, KeepsWorkAside DEF InFlight
<1>5. \A v \in Withdrawals : Dropped(v) => Dropped(v)'
  BY <1>1, DroppedStays
<1>6. \A v \in Withdrawals :
         /\ FinalRef(v) \in posted' => FinalRef(v) \in posted
         /\ ReleaseRef(v) \in posted' =>
               ReleaseRef(v) \in posted \/ row'[v].status \in {"REJECTED", "FAILED"}
  BY DEF HoldRef, ReleaseRef, FinalRef
<1>7. \A v \in Withdrawals :
         /\ row[v].status \in {"REJECTED", "FAILED", "COMPLETED", "BROADCAST", "CONFIRMING"}
               => row'[v].status = row[v].status
         /\ row'[v].status = "REJECTED" =>
              \/ row[v].status = "REJECTED"
              \/ \E b \in Admins : review'[b].at = "release" /\ review'[b].withdrawal = v
         /\ row'[v].status = "FAILED" /\ row'[v].hold => row[v].status = "FAILED" /\ row[v].hold
  BY <1>2
<1>8. posted \subseteq posted' /\ worker' = worker
  OBVIOUS
<1>9. \A a \in Admins : review[a].at = "release" =>
         review'[a] = review[a] \/ ReleaseRef(review[a].withdrawal) \in posted'
  OBVIOUS
<1>11. RejectedRows'
  BY ONLY <1>1, <1>6, <1>7, <1>8, <1>9, KeepsRejected
<1>12. FailedRows'
  BY ONLY <1>1, <1>5, <1>7, <1>8, KeepsFailed
<1>13. PaidRows'
  BY ONLY <1>1, <1>6, <1>7, <1>8, KeepsPayouts
<1> QED BY <1>3, <1>4, <1>11, <1>12, <1>13 DEF Booked

LEMMA RequestStepBooked ==
    ASSUME Parameters, MaxFailures = 0, Sound, [Next]_vars, NEW w \in Withdrawals,
           RequestStep(w)
    PROVE  Booked'
<1>0. TypeOK /\ RowsByRequest
  BY DEF Sound, Booked
<1>1. ASSUME CheckRequest(w) PROVE Booked'
  <2>1. /\ UNCHANGED <<review, worker, row, posted>> /\ request[w] = "none"
        /\ request'[w] = "create" /\ \A v \in Withdrawals \ {w} : request'[v] = request[v]
    BY <1>0, <1>1 DEF CheckRequest, GoRequest, TypeOK
  <2>2. RowsByRequest'
    BY <1>0, <2>1 DEF RowsByRequest
  <2>3. row[w].status = "NONE"
    BY <1>0, <2>1 DEF RowsByRequest
  <2> QED BY <2>1, <2>2, <2>3, RequestBooked
<1>2. ASSUME CreateWithdrawal(w) PROVE Booked'
  <2>1. /\ UNCHANGED <<review, worker, posted>> /\ request[w] = "create"
        /\ request'[w] = "hold" /\ \A v \in Withdrawals \ {w} : request'[v] = request[v]
    BY <1>0, <1>2 DEF CreateWithdrawal, GoRequest, TypeOK
  <2>2. /\ row'[w].status = "REQUESTED" /\ row'[w].hold = row[w].hold
        /\ \A v \in Withdrawals \ {w} : row'[v] = row[v]
    BY <1>0, <1>2, SetEffect DEF CreateWithdrawal, Statuses
  <2>3. RowsByRequest'
    BY <1>0, <2>1, <2>2 DEF RowsByRequest
  <2> QED BY <2>1, <2>2, <2>3, RequestBooked
<1>3. ASSUME PlaceHold(w) PROVE Booked'
  <2>1. /\ UNCHANGED <<review, worker, row>> /\ request[w] = "hold"
        /\ \A v \in Withdrawals \ {w} : request'[v] = request[v]
        /\ \/ request'[w] = "bind" /\ posted' = posted \cup {HoldRef(w)}
           \/ request'[w] = "refuse" /\ posted' = posted /\ HoldRef(w) \notin posted
    BY <1>0, <1>3, PostEffect DEF PlaceHold, GoRequest, TypeOK, ledger, Refused
  <2>2. \A v \in Withdrawals \ {w} : HoldRef(v) \in posted' => HoldRef(v) \in posted
    BY <2>1 DEF HoldRef
  <2>3. RowsByRequest'
    BY <1>0, <2>1, <2>2 DEF RowsByRequest
  <2>4. row[w].status = "REQUESTED"
    BY <1>0, <2>1 DEF RowsByRequest
  <2> QED BY <2>1, <2>3, <2>4, RequestBooked
<1>4. ASSUME SetHold(w) PROVE Booked'
  <2>1. /\ UNCHANGED <<review, worker, posted>> /\ request[w] = "bind"
        /\ request'[w] = "done" /\ \A v \in Withdrawals \ {w} : request'[v] = request[v]
    BY <1>0, <1>4 DEF SetHold, GoRequest, TypeOK
  <2>2. /\ row'[w].status = "PENDING_APPROVAL" /\ row'[w].hold
        /\ \A v \in Withdrawals \ {w} : row'[v] = row[v]
    BY <1>0, <1>4, SetHoldEffect
  <2>3. RowsByRequest'
    BY <1>0, <2>1, <2>2 DEF RowsByRequest
  <2> QED BY <2>1, <2>2, <2>3, RequestBooked
<1>5. ASSUME MarkRequestFailed(w) PROVE Booked'
  <2>1. /\ UNCHANGED <<review, worker, posted>> /\ request[w] = "refuse"
        /\ request'[w] = "done" /\ \A v \in Withdrawals \ {w} : request'[v] = request[v]
    BY <1>0, <1>5 DEF MarkRequestFailed, GoRequest, TypeOK
  <2>2. /\ row'[w].status = "FAILED" /\ row'[w].hold = row[w].hold
        /\ \A v \in Withdrawals \ {w} : row'[v] = row[v]
    BY <1>0, <1>5, SetEffect DEF MarkRequestFailed, Statuses
  <2>3. RowsByRequest'
    BY <1>0, <2>1, <2>2 DEF RowsByRequest
  <2> QED BY <2>1, <2>2, <2>3, RequestBooked
<1> QED BY <1>1, <1>2, <1>3, <1>4, <1>5 DEF RequestStep

(* A review's step changes one row that nobody sends or settles.           *)
LEMMA ReviewBooked ==
    ASSUME Parameters, MaxFailures = 0, Sound, [Next]_vars, NEW a \in Admins, NEW w \in Withdrawals,
           UNCHANGED <<request, worker>>,
           \A v \in Withdrawals \ {w} : row'[v] = row[v],
           \/ row'[w] = row[w]
           \/ /\ row[w].status \in {"PENDING_APPROVAL", "APPROVED"}
              /\ row'[w].hold = row[w].hold
              /\ \/ row'[w].status \in {"PENDING_APPROVAL", "APPROVED"}
                 \/ /\ row'[w].status = "REJECTED"
                    /\ review'[a].at = "release" /\ review'[a].withdrawal = w,
           \A b \in Admins \ {a} : review'[b] = review[b],
           review[a].at = "release" => ReleaseRef(review[a].withdrawal) \in posted',
           ReviewsByRow',
           \/ posted' = posted
           \/ posted' = posted \cup {ReleaseRef(w)} /\ row'[w].status = "REJECTED"
    PROVE  Booked'
<1>1. /\ TypeOK /\ RowsByRequest /\ WorkByRow /\ Held
      /\ RejectedRows /\ FailedRows /\ PaidRows
  BY DEF Sound, Booked
<1>2. \A v \in Withdrawals : row'[v].hold = row[v].hold
  OBVIOUS
<1>3. row[w].status \in {"PENDING_APPROVAL", "APPROVED"} => row[w].hold
  BY SoundFacts
<1>4. \A v \in Withdrawals : HoldRef(v) \in posted' => HoldRef(v) \in posted
  BY DEF HoldRef, ReleaseRef
<1>5. RowsByRequest'
  BY <1>1, <1>2, <1>3, <1>4, KeepsRows
<1>6. WorkByRow'
  BY <1>1, KeepsWorkAside DEF InFlight
<1>7. \A v \in Withdrawals : Dropped(v) => Dropped(v)'
  BY <1>1, DroppedStays
<1>8. \A v \in Withdrawals :
         /\ FinalRef(v) \in posted' => FinalRef(v) \in posted
         /\ ReleaseRef(v) \in posted' => ReleaseRef(v) \in posted \/ row'[v].status = "REJECTED"
  BY DEF ReleaseRef, FinalRef
<1>9. \A v \in Withdrawals :
         /\ row[v].status \in {"REJECTED", "FAILED", "COMPLETED", "BROADCAST", "CONFIRMING"}
               => row'[v].status = row[v].status
         /\ row'[v].status = "REJECTED" =>
              \/ row[v].status = "REJECTED"
              \/ \E b \in Admins : review'[b].at = "release" /\ review'[b].withdrawal = v
         /\ row'[v].status = "FAILED" => row[v].status = "FAILED"
  OBVIOUS
<1>10. posted \subseteq posted' /\ worker' = worker
  OBVIOUS
<1>11. \A b \in Admins : review[b].at = "release" =>
          review'[b] = review[b] \/ ReleaseRef(review[b].withdrawal) \in posted'
  OBVIOUS
<1>12. RejectedRows'
  BY ONLY <1>1, <1>8, <1>9, <1>10, <1>11, KeepsRejected
<1>13. FailedRows'
  BY ONLY <1>1, <1>2, <1>7, <1>9, <1>10, KeepsFailed
<1>14. PaidRows'
  BY ONLY <1>1, <1>8, <1>9, <1>10, KeepsPayouts
<1> QED BY <1>5, <1>6, <1>12, <1>13, <1>14 DEF Booked

LEMMA ReviewStepBooked ==
    ASSUME Parameters, IsFiniteSet(Withdrawals), MaxFailures = 0, EarlyReview = FALSE,
           Sound, [Next]_vars, NEW a \in Admins,
           \/ ReviewStep(a)
           \/ \E w \in Withdrawals, kind \in {"approve", "reject"} : OpenReview(a, w, kind)
    PROVE  Booked'
<1>0. TypeOK /\ ReviewsByRow /\ Held /\ Released /\ Backed
  BY DEF Sound, Booked
<1>1. ASSUME NEW w \in Withdrawals, NEW kind \in {"approve", "reject"}, OpenReview(a, w, kind)
      PROVE  Booked'
  <2> DEFINE r == [at |-> kind, withdrawal |-> w, seen |-> row[w]]
  <2>1. r \in Reviews /\ r.at # "release" /\ r.withdrawal = w /\ r.seen = row[w]
    BY <1>0, RowType DEF Reviews
  <2>2. /\ GoReview(a, r) /\ UNCHANGED <<row, request, worker, posted>>
        /\ review[a].at = "idle" /\ request[w] = "done"
    BY <1>1 DEF OpenReview, IdleReview
  <2> HIDE DEF r
  <2>3. review'[a] = r /\ \A b \in Admins \ {a} : review'[b] = review[b]
    BY <1>0, <2>1, <2>2, ReviewEffect
  <2>4. ReviewsByRow'
    BY <1>0, <2>1, <2>2, <2>3 DEF ReviewsByRow
  <2> QED BY <2>2, <2>3, <2>4, ReviewBooked
<1>2. ASSUME Approve(a) PROVE Booked'
  <2> DEFINE w == review[a].withdrawal
  <2>1. /\ w \in Withdrawals /\ review[a].at = "approve"
        /\ UNCHANGED <<request, worker, posted>>
    BY <1>0, <1>2, ReviewType DEF Approve
  <2>2. review'[a].at = "idle" /\ \A b \in Admins \ {a} : review'[b] = review[b]
    BY <1>0, <1>2, ReviewEffect DEF Approve, IdleReview
  <2>3. \/ row' = row
        \/ /\ row[w].status = "PENDING_APPROVAL" /\ row'[w].hold = row[w].hold
           /\ row'[w].status \in {"PENDING_APPROVAL", "APPROVED"}
           /\ \A v \in Withdrawals \ {w} : row'[v] = row[v]
    <3>1. CASE UNCHANGED row
      BY <3>1
    <3>2. CASE ~UNCHANGED row
      <4>1. Approvable(a) /\ row' = [row EXCEPT ![w] = ApprovedRow(a, row[w])]
        BY <1>2, <3>2 DEF Approve
      <4>2. row[w].status = "PENDING_APPROVAL"
        BY <4>1 DEF Approvable
      <4> QED BY <1>0, <2>1, <4>1, <4>2, ApproveRowEffect
    <3> QED BY <3>1, <3>2
  <2> HIDE DEF w
  <2>4. \A v \in Withdrawals : row'[v].hold = row[v].hold
    BY <2>3
  <2>5. ReviewsByRow'
    BY <1>0, <2>1, <2>2, <2>4, KeepsReviews
  <2>6. /\ \A v \in Withdrawals \ {w} : row'[v] = row[v]
        /\ \/ row'[w] = row[w]
           \/ /\ row[w].status \in {"PENDING_APPROVAL", "APPROVED"}
              /\ row'[w].hold = row[w].hold
              /\ row'[w].status \in {"PENDING_APPROVAL", "APPROVED"}
    BY <2>3
  <2> QED BY <2>1, <2>2, <2>5, <2>6, ReviewBooked
<1>3. ASSUME Reject(a) PROVE Booked'
  <2> DEFINE w == review[a].withdrawal
  <2>1. /\ w \in Withdrawals /\ review[a].at = "reject"
        /\ UNCHANGED <<request, worker, posted>> /\ review[a].seen \in Rows
    BY <1>0, <1>3, ReviewType DEF Reject
  <2>2. request[w] = "done" /\ (row[w].hold => review[a].seen.hold)
    BY <1>0, <2>1 DEF ReviewsByRow
  <2>3. \A b \in Admins \ {a} : review'[b] = review[b]
    BY <1>0, <1>3, RejectEffect
  <2>4. \/ row' = row /\ review'[a].at = "idle"
        \/ /\ row[w].status \in {"PENDING_APPROVAL", "APPROVED"}
           /\ row'[w].hold = row[w].hold /\ row'[w].status = "REJECTED"
           /\ \A v \in Withdrawals \ {w} : row'[v] = row[v]
           /\ review'[a].at = "release" /\ review'[a].withdrawal = w
           /\ review'[a].seen = review[a].seen
    <3>1. CASE UNCHANGED row
      <4>1. row[w].status \in Rejectable => row[w].status # "REJECTED"
        BY DEF Rejectable
      <4> QED BY <1>0, <1>3, <3>1, <4>1, RejectEffect DEF IdleReview
    <3>2. CASE ~UNCHANGED row
      <4>1. RejectAllowed(a) /\ row[w].status \in Rejectable
        BY <1>3, <3>2 DEF Reject, RejectAllowed
      <4>2. /\ row[w].status \in Statuses
            /\ row[w].status \notin {"NONE", "REQUESTED"}
        BY <1>0, <2>1, <2>2, RowType DEF Sound, Booked, RowsByRequest
      <4>3. row[w].status \in {"PENDING_APPROVAL", "APPROVED"}
        BY <4>1, <4>2 DEF Rejectable, Statuses
      <4>4. row[w].hold
        BY <2>1, <4>3, SoundFacts
      <4>5. GoReview(a, [review[a] EXCEPT !.at = "release"])
        BY <1>3, <2>2, <3>2, <4>4 DEF Reject
      <4>6. /\ [review[a] EXCEPT !.at = "release"] \in Reviews
            /\ [review[a] EXCEPT !.at = "release"].at = "release"
            /\ [review[a] EXCEPT !.at = "release"].withdrawal = w
            /\ [review[a] EXCEPT !.at = "release"].seen = review[a].seen
        BY <1>0, <2>1, ReviewType DEF Reviews
      <4>7. /\ review'[a].at = "release" /\ review'[a].withdrawal = w
            /\ review'[a].seen = review[a].seen
        BY <1>0, <4>5, <4>6, ReviewEffect
      <4>8. /\ row'[w].hold = row[w].hold /\ row'[w].status = "REJECTED"
            /\ \A v \in Withdrawals \ {w} : row'[v] = row[v]
        BY <1>0, <1>3, <3>2, RejectEffect
      <4> QED BY <4>3, <4>7, <4>8
    <3> QED BY <3>1, <3>2
  <2>5. /\ \A v \in Withdrawals : row'[v].hold = row[v].hold
        /\ review'[a].at # "idle" => review'[a].withdrawal = review[a].withdrawal
                                     /\ review'[a].seen = review[a].seen
    BY <2>4
  <2>6. ReviewsByRow'
    BY <1>0, <2>1, <2>3, <2>5, KeepsReviews
  <2>7. /\ \A v \in Withdrawals \ {w} : row'[v] = row[v]
        /\ \/ row'[w] = row[w]
           \/ /\ row[w].status \in {"PENDING_APPROVAL", "APPROVED"}
              /\ row'[w].hold = row[w].hold
              /\ row'[w].status = "REJECTED"
              /\ review'[a].at = "release" /\ review'[a].withdrawal = w
    BY <2>4
  <2> HIDE DEF w
  <2> QED BY <2>1, <2>3, <2>6, <2>7, ReviewBooked
<1>4. ASSUME ReleaseRejected(a) PROVE Booked'
  <2> DEFINE w == review[a].withdrawal
  <2>1. /\ w \in Withdrawals /\ review[a].at = "release"
        /\ UNCHANGED <<request, worker, row>>
    BY <1>0, <1>4, ReviewType DEF ReleaseRejected
  <2>2. review'[a].at = "idle" /\ \A b \in Admins \ {a} : review'[b] = review[b]
    BY <1>0, <1>4, ReviewEffect DEF ReleaseRejected, IdleReview
  <2>3. row[w].status = "REJECTED" /\ row[w].hold
    BY <1>0, <2>1, SoundFacts DEF Released, Closed
  <2>4. HoldRef(w) \in posted /\ FinalRef(w) \notin posted
    BY <2>1, <2>3, SoundFacts
  <2>5. posted' = posted \cup {ReleaseRef(w)}
    <3>1. ~Refused(ReleaseRef(w), ReleaseLines(w))
      BY <1>0, <2>1, <2>4, ReleaseHappens
    <3> QED BY <1>4, <3>1, PostEffect DEF ReleaseRejected, releaseHold
  <2>6. ReviewsByRow'
    BY <1>0, <2>1, <2>2, KeepsReviews
  <2>7. ReleaseRef(review[a].withdrawal) \in posted'
    BY <2>5
  <2> HIDE DEF w
  <2>8. /\ \A v \in Withdrawals \ {w} : row'[v] = row[v]
        /\ row'[w] = row[w] /\ row'[w].status = "REJECTED"
    BY <2>1, <2>3
  <2> QED BY <2>1, <2>2, <2>5, <2>6, <2>7, <2>8, ReviewBooked
<1> QED BY <1>1, <1>2, <1>3, <1>4 DEF ReviewStep

(* A worker's step moves one row along, and leaves the release or the      *)
(* completion it was about to make only by making it.                      *)
RowMoves(k, w) ==
    /\ row'[w].hold = row[w].hold
    /\ \/ row[w].status = "APPROVED" /\ row'[w].status = "SIGNING"
       \/ row[w].status = "SIGNING" /\ row'[w].status = "BROADCAST"
       \/ row[w].status \in {"BROADCAST", "CONFIRMING"}
             /\ row'[w].status \in {"CONFIRMING", "COMPLETED"}
       \/ /\ row[w].status \in {"BROADCAST", "CONFIRMING"} /\ row'[w].status = "FAILED"
          /\ Dropped(w) /\ worker'[k].at = "release" /\ worker'[k].item.withdrawal = w

LEMMA WorkerBooked ==
    ASSUME Parameters, MaxFailures = 0, Sound, [Next]_vars,
           NEW k \in Workers, NEW w \in Withdrawals,
           UNCHANGED <<request, review>>,
           \A j \in Workers \ {k} : worker'[j] = worker[j],
           \A v \in Withdrawals \ {w} : row'[v] = row[v],
           row'[w] = row[w] \/ RowMoves(k, w),
           \/ posted' = posted
           \/ posted' = posted \cup {ReleaseRef(w)} /\ row'[w].status = "FAILED"
           \/ /\ posted' = posted \cup {FinalRef(w)}
              /\ \/ row'[w].status = "COMPLETED"
                 \/ /\ row'[w].status \in {"BROADCAST", "CONFIRMING"}
                    /\ worker'[k].at = "complete" /\ worker'[k].item.withdrawal = w,
           worker[k].at = "release" => ReleaseRef(worker[k].item.withdrawal) \in posted',
           worker[k].at = "complete" => row'[worker[k].item.withdrawal].status = "COMPLETED",
           WorkByRow'
    PROVE  Booked'
<1>1. /\ TypeOK /\ RowsByRequest /\ ReviewsByRow /\ Held
      /\ RejectedRows /\ FailedRows /\ PaidRows
  BY DEF Sound, Booked
<1>2. /\ \A v \in Withdrawals : row'[v].hold = row[v].hold
      /\ posted \subseteq posted'
  BY DEF RowMoves
<1>3. RowMoves(k, w) => row[w].hold /\ row'[w].status \notin {"NONE", "REQUESTED", "REJECTED"}
  BY SoundFacts DEF RowMoves
<1>4. \A v \in Withdrawals : HoldRef(v) \in posted' => HoldRef(v) \in posted
  BY DEF HoldRef, ReleaseRef, FinalRef
<1>5. \A v \in Withdrawals :
         \/ row'[v].status = row[v].status
         \/ row'[v].status \notin {"NONE", "REQUESTED"} /\ row[v].hold
  BY <1>3
<1>6. RowsByRequest'
  BY <1>1, <1>2, <1>4, <1>5, KeepsRows
<1>7. ReviewsByRow'
  BY <1>1, <1>2, KeepsReviews
<1>8. \A v \in Withdrawals :
         /\ row[v].status \in {"REJECTED", "FAILED", "COMPLETED"}
               => row'[v].status = row[v].status
         /\ row'[v].status = "REJECTED" => row[v].status = "REJECTED"
  BY <1>3 DEF RowMoves
<1>9. \A v \in Withdrawals : ReleaseRef(v) \in posted' =>
         ReleaseRef(v) \in posted \/ row'[v].status \in {"REJECTED", "FAILED"}
  BY DEF ReleaseRef, FinalRef
<1>10. RejectedRows'
  <2>1. \A v \in Withdrawals :
           /\ row[v].status \in {"REJECTED", "FAILED"} => row'[v].status = row[v].status
           /\ ReleaseRef(v) \in posted' =>
                 ReleaseRef(v) \in posted \/ row'[v].status \in {"REJECTED", "FAILED"}
           /\ row'[v].status = "REJECTED" =>
                 \/ row[v].status = "REJECTED"
                 \/ \E b \in Admins : review'[b].at = "release" /\ review'[b].withdrawal = v
    BY <1>8, <1>9
  <2>2. \A b \in Admins : review[b].at = "release" =>
           review'[b] = review[b] \/ ReleaseRef(review[b].withdrawal) \in posted'
    OBVIOUS
  <2> QED BY ONLY <1>1, <1>2, <2>1, <2>2, KeepsRejected
<1>11. FailedRows'
  <2>1. \A v \in Withdrawals : Dropped(v) => Dropped(v)'
    BY <1>1, DroppedStays
  <2>2. \A v \in Withdrawals : row'[v].status = "FAILED" /\ row'[v].hold =>
           \/ row[v].status = "FAILED" /\ row[v].hold
           \/ /\ Dropped(v)
              /\ \E j \in Workers : worker'[j].at = "release"
                                      /\ worker'[j].item.withdrawal = v
    BY <1>2 DEF RowMoves
  <2>3. \A j \in Workers : worker[j].at = "release" =>
           \/ worker'[j].at = "release" /\ worker'[j].item = worker[j].item
           \/ ReleaseRef(worker[j].item.withdrawal) \in posted'
    OBVIOUS
  <2> QED BY ONLY <1>1, <1>2, <2>1, <2>2, <2>3, KeepsFailed
<1>12. PaidRows'
  <2>1. \A v \in Withdrawals : FinalRef(v) \in posted' =>
           \/ FinalRef(v) \in posted
           \/ row'[v].status = "COMPLETED"
           \/ /\ row'[v].status \in {"BROADCAST", "CONFIRMING"}
              /\ \E j \in Workers : worker'[j].at = "complete"
                                      /\ worker'[j].item.withdrawal = v
    BY DEF FinalRef, ReleaseRef
  <2>2. \A v \in Withdrawals :
           FinalRef(v) \in posted /\ row[v].status \in {"BROADCAST", "CONFIRMING"} =>
               row'[v].status \in {"BROADCAST", "CONFIRMING", "COMPLETED"}
    <3>1. FinalRef(w) \in posted => ~Dropped(w)
      BY SoundFacts DEF Sound, CompletedIsPaid
    <3> QED BY <3>1 DEF RowMoves
  <2>3. \A j \in Workers : worker[j].at = "complete" =>
           \/ worker'[j].at = "complete" /\ worker'[j].item = worker[j].item
           \/ row'[worker[j].item.withdrawal].status = "COMPLETED"
    OBVIOUS
  <2>4. \A v \in Withdrawals : row[v].status = "COMPLETED" => row'[v].status = "COMPLETED"
    BY <1>8
  <2>5. \A v \in Withdrawals :
           /\ FinalRef(v) \in posted' =>
                 \/ FinalRef(v) \in posted
                 \/ row'[v].status = "COMPLETED"
                 \/ /\ row'[v].status \in {"BROADCAST", "CONFIRMING"}
                    /\ \E j \in Workers : worker'[j].at = "complete"
                                            /\ worker'[j].item.withdrawal = v
           /\ row[v].status = "COMPLETED" => row'[v].status = "COMPLETED"
           /\ FinalRef(v) \in posted /\ row[v].status \in {"BROADCAST", "CONFIRMING"} =>
                 row'[v].status \in {"BROADCAST", "CONFIRMING", "COMPLETED"}
    BY ONLY <2>1, <2>2, <2>4
  <2> QED BY ONLY <1>1, <2>3, <2>5, KeepsPayouts
<1> QED BY <1>6, <1>7, <1>10, <1>11, <1>12 DEF Booked

(* What the steps of a worker that settles a withdrawal rely on.           *)
LEMMA SettlesFacts ==
    ASSUME MaxFailures = 0, Sound, NEW k \in Workers, Settles(k)
    PROVE  /\ Current(k) \in Withdrawals /\ row[Current(k)].status \in InFlight
           /\ row[Current(k)].hold /\ HoldRef(Current(k)) \in posted
           /\ worker[k].item.seen.hold /\ ~Sends(k)
           /\ worker[k].at = "release" => row[Current(k)].status = "FAILED"
           /\ worker[k].at \in {"fail", "release"} => Dropped(Current(k))
           /\ worker[k].at \in {"final", "complete"} =>
                 row[Current(k)].status \in {"COMPLETED", "BROADCAST", "CONFIRMING"}
<1>1. worker[k].at \in Handling /\ Handles(k) /\ Current(k) \in Withdrawals /\ ~Sends(k)
  BY CurrentType DEF Settles, Sends, Handling, Handles, Sound
<1>2. /\ row[Current(k)].status \in InFlight /\ worker[k].item.seen.hold
      /\ worker[k].at = "release" => row[Current(k)].status = "FAILED"
  BY DEF Sound, Booked, WorkByRow
<1>3. row[Current(k)].hold /\ HoldRef(Current(k)) \in posted
  BY <1>1, SoundFacts DEF Sound, Held, HeldWork
<1>4. worker[k].at \in {"fail", "release"} => Dropped(Current(k))
  BY SoundFacts DEF Sound, Released
<1>5. worker[k].at = "final" =>
         row[Current(k)].status \in {"COMPLETED", "BROADCAST", "CONFIRMING"}
  <2>1. worker[k].at = "final" =>
           \E t \in chain : t.withdrawal = Current(k) /\ t.state = "deep"
    BY DEF Sound, Finalizing
  <2>2. worker[k].at = "final" => ~Dropped(Current(k))
    BY <1>1, <2>1, SoundFacts
  <2>3. row[Current(k)].status = "FAILED" => Dropped(Current(k))
    BY <1>1, <1>3 DEF Sound, Booked, FailedRows
  <2> QED BY <1>2, <2>2, <2>3 DEF InFlight
<1>6. worker[k].at = "complete" =>
         row[Current(k)].status \in {"COMPLETED", "BROADCAST", "CONFIRMING"}
  BY <1>1, SoundFacts DEF Sound, Finalizing
<1> QED BY <1>1, <1>2, <1>3, <1>4, <1>5, <1>6

(* The steps that only read.                                               *)
LEMMA ReadingBooked ==
    ASSUME Parameters, MaxFailures = 0, Sound, [Next]_vars, NEW k \in Workers,
           UNCHANGED <<request, review, row, posted>>,
           \A j \in Workers \ {k} : worker'[j] = worker[j],
           worker[k].at \notin {"release", "complete"}, WorkByRow'
    PROVE  Booked'
<1>1. CASE Withdrawals = {}
  BY <1>1 DEF Booked, RowsByRequest, RejectedRows, FailedRows, PaidRows, ReviewsByRow,
              Sound, TypeOK, Reviews, IdleReview
<1>2. ASSUME NEW w \in Withdrawals PROVE Booked'
  BY WorkerBooked
<1> QED BY <1>1, <1>2

LEMMA PollingBooked ==
    ASSUME Parameters, MaxFailures = 0, Sound, [Next]_vars, NEW k \in Workers,
           \/ List(k) \/ EndPass(k)
           \/ \E item \in worker[k].todo : Claim(k, item) \/ Poll(k, item)
    PROVE  Booked'
<1>0. TypeOK /\ WorkByRow /\ UNCHANGED <<request, review, posted>>
  BY DEF Sound, Booked, List, EndPass, Claim, Poll
<1>1. worker[k].at \in {"list", "item"} /\ ~Sends(k) /\ ~Settles(k)
  BY DEF List, EndPass, Claim, Poll, Sends, Settles
<1>2. ASSUME List(k) PROVE Booked'
  <2>1. /\ UNCHANGED row /\ worker'[k].at = "item"
        /\ \A j \in Workers \ {k} : worker'[j] = worker[j]
        /\ \A item \in worker'[k].todo :
              item \in Items /\ item.seen = row[item.withdrawal]
        /\ worker'[k].pass = "confirm" =>
              \A item \in worker'[k].todo : OnChain(item.withdrawal)
    BY <1>0, <1>2, ListEffect DEF List
  <2>2. worker'[k].pass = "confirm" =>
           \A item \in worker'[k].todo :
               row'[item.withdrawal].status \in InFlight /\ item.seen.hold
    BY <2>1, SoundFacts DEF OnChain, InFlight, Items
  <2>3. ~Sends(k)' /\ ~Settles(k)'
    BY <2>1 DEF Sends, Settles
  <2>4. WorkByRow'
    BY <1>0, <1>1, <2>1, <2>2, <2>3, KeepsWork
  <2> QED BY <1>0, <1>1, <2>1, <2>4, ReadingBooked
<1>3. ASSUME EndPass(k) PROVE Booked'
  <2>1. /\ UNCHANGED row /\ worker'[k].at = "list" /\ worker'[k].todo = {}
        /\ \A j \in Workers \ {k} : worker'[j] = worker[j]
    BY <1>0, <1>3, EndPassEffect DEF EndPass
  <2>2. ~Sends(k)' /\ ~Settles(k)'
    BY <2>1 DEF Sends, Settles
  <2>3. WorkByRow'
    BY <1>0, <1>1, <2>1, <2>2, KeepsWork
  <2> QED BY <1>0, <1>1, <2>1, <2>3, ReadingBooked
<1>4. ASSUME NEW item \in worker[k].todo, Skip(k, item), UNCHANGED row, worker[k].at = "item"
      PROVE  Booked'
  <2>1. /\ worker'[k].at = "item" /\ worker'[k].todo \subseteq worker[k].todo
        /\ worker'[k].pass = worker[k].pass
        /\ \A j \in Workers \ {k} : worker'[j] = worker[j]
    BY <1>0, <1>4, SkipEffect
  <2>2. ~Sends(k)' /\ ~Settles(k)'
    BY <2>1 DEF Sends, Settles
  <2>3. WorkByRow'
    BY <1>0, <1>1, <1>4, <2>1, <2>2, KeepsWork
  <2> QED BY <1>0, <1>1, <1>4, <2>1, <2>3, ReadingBooked
<1>5. ASSUME NEW item \in worker[k].todo, Claim(k, item) PROVE Booked'
  <2>1. CASE Skip(k, item) /\ UNCHANGED row
    BY <1>4, <1>5, <2>1 DEF Claim
  <2>2. CASE ~(Skip(k, item) /\ UNCHANGED row)
    <3> DEFINE w == item.withdrawal
    <3>1. /\ row[w].status = "APPROVED" /\ Set(w, "SIGNING") /\ Take(k, item, "nonce")
          /\ worker[k].pass = "broadcast"
      BY <1>5, <2>2 DEF Claim, Claimable
    <3>2. /\ worker'[k].at = "nonce" /\ worker'[k].item = item /\ item \in Items
          /\ worker'[k].pass = "broadcast"
          /\ \A j \in Workers \ {k} : worker'[j] = worker[j]
      BY <1>0, <3>1, TakeEffect DEF Handling
    <3>3. w \in Withdrawals
      BY <3>2 DEF Items
    <3>4. /\ row'[w].status = "SIGNING" /\ row'[w].hold = row[w].hold
          /\ \A v \in Withdrawals \ {w} : row'[v] = row[v]
      BY <1>0, <3>1, <3>3, SetEffect DEF Statuses
    <3> HIDE DEF w
    <3>5. /\ Sends(k)' /\ Current(k)' = w
          /\ \A j \in Workers \ {k} : /\ Sends(j)' <=> Sends(j)
                                     /\ Settles(j)' <=> Settles(j)
                                     /\ Current(j)' = Current(j)
      BY <3>2 DEF Sends, Settles, Current, w
    <3>6. /\ \A j \in Workers : Sends(j) => Current(j) # w
          /\ \A j \in Workers : Settles(j) => Current(j) # w
          /\ \A j \in Workers : worker[j].pass = "confirm" =>
                \A i \in worker[j].todo : i.withdrawal # w
      BY <1>0, <3>1 DEF WorkByRow, InFlight, w
    <3>7. WorkByRow'
      <4>1. \A j \in Workers : Sends(j)' =>
               /\ row'[Current(j)'].status = "SIGNING"
               /\ \A i \in Workers : Sends(i)' /\ Current(i)' = Current(j)' => i = j
        <5>1. \A j \in Workers \ {k} : Sends(j)' =>
                 /\ worker'[j] = worker[j] /\ Sends(j) /\ Current(j) # w
                 /\ Current(j) \in Withdrawals
          BY ONLY <1>0, <3>2, <3>6, CurrentType DEF Sends, Handling, Current
        <5>2. \A j \in Workers \ {k} : Sends(j)' => row'[Current(j)'].status = "SIGNING"
          BY <1>0, <3>4, <5>1 DEF WorkByRow, Current
        <5>3. \A i, j \in Workers : Sends(i)' /\ Sends(j)' /\ Current(i)' = Current(j)' => i = j
          BY <1>0, <3>5, <5>1 DEF WorkByRow, Current
        <5> QED BY <3>4, <3>5, <5>2, <5>3
      <4>2. \A j \in Workers : Settles(j)' =>
               /\ row'[Current(j)'].status \in InFlight
               /\ worker'[j].item.seen.hold
               /\ worker'[j].at = "release" => row'[Current(j)'].status = "FAILED"
        <5>1. ~Settles(k)'
          BY <3>2 DEF Settles
        <5>2. \A j \in Workers \ {k} : Settles(j)' =>
                 /\ Settles(j) /\ Current(j)' = Current(j) /\ Current(j) # w
                 /\ Current(j) \in Withdrawals /\ worker'[j] = worker[j]
          BY <1>0, <3>2, <3>5, <3>6, CurrentType DEF Settles, Handling, Current
        <5>3. \A j \in Workers \ {k} : Settles(j)' => row'[Current(j)'] = row[Current(j)]
          BY <3>4, <5>2
        <5> QED BY <1>0, <5>1, <5>2, <5>3 DEF WorkByRow
      <4>3. \A j \in Workers : worker'[j].pass = "confirm" =>
               \A i \in worker'[j].todo :
                   row'[i.withdrawal].status \in InFlight /\ i.seen.hold
        <5>1. \A j \in Workers : worker'[j].pass = "confirm" =>
                 worker'[j] = worker[j] /\ \A i \in worker[j].todo : i.withdrawal \in Withdrawals
          BY <1>0, <3>2, WorkerStates DEF Items
        <5> QED BY <1>0, <3>4, <3>6, <5>1 DEF WorkByRow
      <4>4. \A v \in Withdrawals : row'[v].status = "SIGNING" =>
               \E j \in Workers : Sends(j)' /\ Current(j)' = v
        <5>1. \A j \in Workers : Sends(j) => Sends(j)' /\ Current(j)' = Current(j)
          BY ONLY <1>1, <3>2 DEF Sends, Current
        <5> QED BY <1>0, <3>4, <3>5, <5>1 DEF WorkByRow
      <4> QED BY <4>1, <4>2, <4>3, <4>4 DEF WorkByRow
    <3>8. RowMoves(k, w)
      BY <3>1, <3>4 DEF RowMoves, w
    <3> QED BY <1>0, <1>1, <3>2, <3>3, <3>4, <3>7, <3>8, WorkerBooked
  <2> QED BY <2>1, <2>2
<1>6. ASSUME NEW item \in worker[k].todo, Poll(k, item) PROVE Booked'
  <2>0. UNCHANGED row /\ worker[k].at = "item" /\ worker[k].pass = "confirm"
    BY <1>6 DEF Poll
  <2>1. CASE Skip(k, item)
    BY <1>4, <2>0, <2>1
  <2>2. CASE ~Skip(k, item)
    <3>1. \E at \in {"fail", "final", "promote"} : Take(k, item, at)
      BY <1>6, <2>2 DEF Poll
    <3>2. PICK at \in {"fail", "final", "promote"} : Take(k, item, at)
      BY <3>1
    <3>3. /\ worker'[k].at = at /\ worker'[k].item = item /\ item \in Items
          /\ worker'[k].todo \subseteq worker[k].todo
          /\ worker'[k].pass = worker[k].pass
          /\ \A j \in Workers \ {k} : worker'[j] = worker[j]
      BY <1>0, <3>2, TakeEffect DEF Handling
    <3>4. row[item.withdrawal].status \in InFlight /\ item.seen.hold
      BY <1>0, <2>0 DEF WorkByRow
    <3>5. /\ ~Sends(k)' /\ Current(k)' = item.withdrawal
          /\ worker'[k].item.seen.hold /\ worker'[k].at # "release"
      BY <3>3, <3>4 DEF Sends, Current
    <3>6. WorkByRow'
      BY <1>0, <1>1, <2>0, <3>3, <3>4, <3>5, KeepsWork
    <3> QED BY <1>0, <1>1, <2>0, <3>3, <3>6, ReadingBooked
  <2> QED BY <2>1, <2>2
<1> QED BY <1>2, <1>3, <1>5, <1>6

LEMMA SendingBooked ==
    ASSUME Parameters, MaxFailures = 0, Sound, [Next]_vars, NEW k \in Workers,
           AllocateNonce(k) \/ Broadcast(k) \/ SetBroadcast(k)
    PROVE  Booked'
<1>0. TypeOK /\ WorkByRow /\ UNCHANGED <<request, review, posted>>
  BY DEF Sound, Booked, AllocateNonce, Broadcast, SetBroadcast
<1>1. /\ worker[k].at \in {"nonce", "send", "record"} /\ Sends(k) /\ ~Settles(k)
      /\ worker[k].at \in Handling
  BY DEF AllocateNonce, Broadcast, SetBroadcast, Sends, Settles, Handling
<1>2. CASE AllocateNonce(k) \/ Broadcast(k)
  <2>1. /\ UNCHANGED row /\ worker'[k].at \in {"send", "record"}
        /\ worker'[k].item = worker[k].item /\ worker'[k].todo = worker[k].todo
        /\ worker'[k].pass = worker[k].pass
        /\ \A j \in Workers \ {k} : worker'[j] = worker[j]
    <3>1. CASE AllocateNonce(k)
      BY <1>0, <3>1, NonceEffect DEF AllocateNonce
    <3>2. CASE Broadcast(k)
      BY <1>0, <1>1, <3>2, ContinueEffect DEF Broadcast, Handling
    <3> QED BY <1>2, <3>1, <3>2
  <2>2. Sends(k)' /\ ~Settles(k)' /\ Current(k)' = Current(k)
    BY <2>1 DEF Sends, Settles, Current
  <2>3. WorkByRow'
    BY <1>0, <1>1, <2>1, <2>2, KeepsWork
  <2> QED BY <1>0, <1>1, <2>1, <2>3, ReadingBooked
<1>3. CASE SetBroadcast(k)
  <2> DEFINE w == Current(k)
  <2>1. /\ w \in Withdrawals /\ row[w].status = "SIGNING"
        /\ \A j \in Workers : Sends(j) /\ Current(j) = w => j = k
    BY <1>0, <1>1, CurrentType DEF WorkByRow
  <2>2. /\ row'[w].status = "BROADCAST" /\ row'[w].hold = row[w].hold
        /\ \A v \in Withdrawals \ {w} : row'[v] = row[v]
    BY <1>0, <1>1, <1>3, BroadcastRowEffect DEF SetBroadcast
  <2>3. /\ worker'[k].at \in {"list", "item"}
        /\ worker'[k].todo \subseteq worker[k].todo
        /\ worker'[k].todo = {} \/ worker'[k].pass = worker[k].pass
        /\ \A j \in Workers \ {k} : worker'[j] = worker[j]
    BY <1>0, <1>3, NextItemEffect DEF SetBroadcast
  <2> HIDE DEF w
  <2>4. /\ \A j \in Workers : Settles(j) => Current(j) # w
        /\ \A j \in Workers : worker[j].pass = "confirm" =>
              \A i \in worker[j].todo : i.withdrawal # w
    BY <1>0, <2>1 DEF WorkByRow, InFlight
  <2>5. \A j \in Workers : Sends(j)' =>
           /\ row'[Current(j)'].status = "SIGNING"
           /\ \A i \in Workers : Sends(i)' /\ Current(i)' = Current(j)' => i = j
    <3>1. \A j \in Workers : Sends(j)' =>
             /\ worker'[j] = worker[j] /\ Sends(j) /\ Current(j) # w
             /\ Current(j) \in Withdrawals
      BY ONLY <1>0, <2>1, <2>3, CurrentType DEF Sends, Handling, Current
    <3>2. \A j \in Workers : Sends(j)' => row'[Current(j)'].status = "SIGNING"
      BY <1>0, <2>2, <3>1 DEF WorkByRow, Current
    <3>3. \A i, j \in Workers : Sends(i)' /\ Sends(j)' /\ Current(i)' = Current(j)' => i = j
      BY <1>0, <3>1 DEF WorkByRow, Current
    <3> QED BY <3>2, <3>3
  <2>6. \A j \in Workers : Settles(j)' =>
           /\ row'[Current(j)'].status \in InFlight
           /\ worker'[j].item.seen.hold
           /\ worker'[j].at = "release" => row'[Current(j)'].status = "FAILED"
    <3>1. \A j \in Workers : Settles(j)' =>
             /\ worker'[j] = worker[j] /\ Settles(j) /\ Current(j) # w
             /\ Current(j) \in Withdrawals
      BY ONLY <1>0, <2>3, <2>4, CurrentType DEF Settles, Handling, Current
    <3>2. \A j \in Workers : Settles(j)' => row'[Current(j)'] = row[Current(j)]
      BY <2>2, <3>1 DEF Current
    <3> QED BY <1>0, <3>1, <3>2 DEF WorkByRow
  <2>7. \A j \in Workers : worker'[j].pass = "confirm" =>
           \A i \in worker'[j].todo :
               row'[i.withdrawal].status \in InFlight /\ i.seen.hold
    <3>1. \A j \in Workers : worker'[j].pass = "confirm" =>
             \A i \in worker'[j].todo : /\ worker[j].pass = "confirm" /\ i \in worker[j].todo
                                       /\ i.withdrawal \in Withdrawals
      BY <1>0, <2>3, WorkerStates DEF Items
    <3> QED BY <1>0, <2>2, <2>4, <3>1 DEF WorkByRow
  <2>8. \A v \in Withdrawals : row'[v].status = "SIGNING" =>
           \E j \in Workers : Sends(j)' /\ Current(j)' = v
    <3>1. \A j \in Workers : Sends(j) /\ Current(j) # w => Sends(j)' /\ Current(j)' = Current(j)
      BY ONLY <2>3 DEF Sends, Current, w
    <3> QED BY <1>0, <2>2, <3>1 DEF WorkByRow
  <2>9. WorkByRow'
    BY <2>5, <2>6, <2>7, <2>8 DEF WorkByRow
  <2>10. RowMoves(k, w)
    BY <2>1, <2>2 DEF RowMoves
  <2> QED BY <1>0, <1>1, <1>3, <2>1, <2>2, <2>3, <2>9, <2>10, WorkerBooked DEF SetBroadcast
<1> QED BY <1>2, <1>3

(* A settling step keeps the work of the others, and ends or goes on with  *)
(* what the worker settles.                                                *)
LEMMA SettlingWork ==
    ASSUME MaxFailures = 0, Sound, NEW k \in Workers, Settles(k),
           \A j \in Workers \ {k} : worker'[j] = worker[j],
           \A v \in Withdrawals \ {Current(k)} : row'[v] = row[v],
           \/ row'[Current(k)] = row[Current(k)]
           \/ /\ row[Current(k)].status \in {"BROADCAST", "CONFIRMING"}
              /\ row'[Current(k)].status \in {"CONFIRMING", "COMPLETED", "FAILED"},
           worker'[k].todo \subseteq worker[k].todo,
           worker'[k].todo = {} \/ worker'[k].pass = worker[k].pass,
           \/ worker'[k].at \in {"list", "item"}
           \/ /\ worker'[k].at = "complete" /\ worker'[k].item = worker[k].item
           \/ /\ worker'[k].at = "release" /\ worker'[k].item = worker[k].item
              /\ row'[Current(k)].status = "FAILED"
    PROVE  WorkByRow'
<1>1. TypeOK /\ WorkByRow
  BY DEF Sound, Booked
<1>2. /\ Current(k) \in Withdrawals /\ row[Current(k)].status \in InFlight
      /\ worker[k].item.seen.hold /\ ~Sends(k)
  BY SettlesFacts
<1>3. ~Sends(k)'
  BY DEF Sends
<1>4. \A v \in Withdrawals :
         \/ row'[v].status = row[v].status
         \/ /\ row[v].status \in InFlight \ {"FAILED"}
            /\ row'[v].status \in InFlight
  BY DEF InFlight
<1>5. Settles(k)' =>
         /\ row'[Current(k)'].status \in InFlight
         /\ worker'[k].item.seen.hold
         /\ worker'[k].at = "release" => row'[Current(k)'].status = "FAILED"
  <2>1. Settles(k)' => Current(k)' = Current(k) /\ worker'[k].item = worker[k].item
    BY DEF Settles, Current
  <2>2. row'[Current(k)].status \in InFlight
    BY <1>2, <1>4
  <2> QED BY <1>2, <2>1, <2>2
<1>6. worker'[k].pass = "confirm" =>
         \A item \in worker'[k].todo : worker[k].pass = "confirm" /\ item \in worker[k].todo
  OBVIOUS
<1> QED BY ONLY <1>1, <1>2, <1>3, <1>4, <1>5, <1>6, KeepsWork,
              \A j \in Workers \ {k} : worker'[j] = worker[j]

LEMMA SettlingBooked ==
    ASSUME Parameters, IsFiniteSet(Withdrawals), MaxFailures = 0, Sound, [Next]_vars,
           NEW k \in Workers,
           \/ SetConfirming(k) \/ FinalizeLedger(k) \/ MarkCompleted(k)
           \/ MarkFailed(k) \/ ReleaseFailed(k)
    PROVE  Booked'
<1> DEFINE w == Current(k)
<1>0. TypeOK /\ Backed /\ UNCHANGED <<request, review>>
  BY DEF Sound, SetConfirming, FinalizeLedger, MarkCompleted, MarkFailed, ReleaseFailed
<1>1. Settles(k) /\ worker[k].at \in Handling
  BY DEF SetConfirming, FinalizeLedger, MarkCompleted, MarkFailed, ReleaseFailed,
         Settles, Handling
<1>2. /\ w \in Withdrawals /\ row[w].status \in InFlight /\ HoldRef(w) \in posted
      /\ worker[k].item.seen.hold
      /\ worker[k].at = "release" => row[w].status = "FAILED"
      /\ worker[k].at \in {"fail", "release"} => Dropped(w)
      /\ worker[k].at \in {"final", "complete"} =>
            row[w].status \in {"COMPLETED", "BROADCAST", "CONFIRMING"}
  BY <1>1, SettlesFacts
<1>3. w = worker[k].item.withdrawal
  BY DEF Current
<1>4. CASE SetConfirming(k)
  <2>1. /\ row'[w].status = IF row[w].status = "BROADCAST" THEN "CONFIRMING"
                           ELSE row[w].status
        /\ row'[w].hold = row[w].hold
        /\ \A v \in Withdrawals \ {w} : row'[v] = row[v]
    BY <1>0, <1>4, SetConfirmingEffect
  <2>2. /\ worker[k].at = "promote" /\ UNCHANGED posted
        /\ row[w].status # "BROADCAST" => row' = row
    <3>1. row \in [Withdrawals -> Rows]
      BY <1>0 DEF TypeOK
    <3>2. row[w].status # "BROADCAST" => row' = [row EXCEPT ![w].status = @]
      BY <1>4 DEF SetConfirming
    <3>3. [row EXCEPT ![w].status = @] = row
      BY <1>2, <3>1 DEF Rows
    <3> QED BY <1>4, <3>2, <3>3 DEF SetConfirming
  <2>3. /\ worker'[k].at \in {"list", "item"}
        /\ worker'[k].todo \subseteq worker[k].todo
        /\ worker'[k].todo = {} \/ worker'[k].pass = worker[k].pass
        /\ \A j \in Workers \ {k} : worker'[j] = worker[j]
    BY <1>0, <1>4, NextItemEffect DEF SetConfirming
  <2> HIDE DEF w
  <2>4. \/ row'[w] = row[w]
        \/ row[w].status = "BROADCAST" /\ row'[w].status = "CONFIRMING"
    BY <2>1, <2>2
  <2>5. WorkByRow'
    BY <1>1, <2>1, <2>3, <2>4, SettlingWork DEF w
  <2>6. row'[w] = row[w] \/ RowMoves(k, w)
    BY <2>1, <2>4 DEF RowMoves
  <2>7. /\ worker[k].at = "promote" /\ UNCHANGED posted
        /\ \A v \in Withdrawals \ {w} : row'[v] = row[v]
    BY <2>1, <2>2
  <2> QED BY <1>0, <1>2, <2>3, <2>5, <2>6, <2>7, WorkerBooked
<1>5. CASE FinalizeLedger(k)
  <2>1. UNCHANGED row /\ worker[k].at = "final"
    BY <1>5 DEF FinalizeLedger
  <2>2. \/ /\ posted' = posted \cup {FinalRef(w)} /\ worker'[k].at = "complete"
           /\ worker'[k].item = worker[k].item /\ worker'[k].todo = worker[k].todo
           /\ worker'[k].pass = worker[k].pass
           /\ \A j \in Workers \ {k} : worker'[j] = worker[j]
        \/ /\ posted' = posted /\ worker'[k].at \in {"list", "item"}
           /\ worker'[k].todo \subseteq worker[k].todo
           /\ worker'[k].todo = {} \/ worker'[k].pass = worker[k].pass
           /\ \A j \in Workers \ {k} : worker'[j] = worker[j]
    <3>1. CASE Post(FinalRef(w), FinalLines(w)) /\ Continue(k, "complete")
      BY <1>0, <1>1, <3>1, PostEffect, ContinueEffect DEF Handling
    <3>2. CASE GoWorker(k, IdleWorker) /\ UNCHANGED ledger
      BY <1>0, <3>2, NextItemEffect DEF ledger
    <3> QED BY <1>5, <3>1, <3>2 DEF FinalizeLedger
  <2> HIDE DEF w
  <2>3. WorkByRow'
    BY <1>1, <2>1, <2>2, SettlingWork DEF w
  <2>4. \/ posted' = posted
        \/ /\ posted' = posted \cup {FinalRef(w)}
           /\ \/ row'[w].status = "COMPLETED"
              \/ /\ row'[w].status \in {"BROADCAST", "CONFIRMING"}
                 /\ worker'[k].at = "complete" /\ worker'[k].item.withdrawal = w
    BY <1>2, <1>3, <2>1, <2>2
  <2> QED BY <1>0, <1>2, <2>1, <2>2, <2>3, <2>4, WorkerBooked
<1>6. CASE MarkCompleted(k)
  <2>1. /\ row'[w].status = "COMPLETED" /\ row'[w].hold = row[w].hold
        /\ worker[k].at = "complete" /\ UNCHANGED posted
        /\ \A v \in Withdrawals \ {w} : row'[v] = row[v]
    <3>1. worker[k].at = "complete" /\ UNCHANGED posted
      BY <1>6 DEF MarkCompleted
    <3> QED BY <1>0, <1>2, <1>6, <3>1, MarkCompletedEffect DEF Completable
  <2>2. row[w].status = "COMPLETED" => row' = row
    <3>1. row \in [Withdrawals -> Rows]
      BY <1>0 DEF TypeOK
    <3>2. row[w].status = "COMPLETED" => row' = [row EXCEPT ![w].status = @]
      BY <1>6 DEF MarkCompleted, Completable
    <3>3. [row EXCEPT ![w].status = @] = row
      BY <1>2, <3>1 DEF Rows
    <3> QED BY <3>2, <3>3
  <2>3. /\ worker'[k].at \in {"list", "item"}
        /\ worker'[k].todo \subseteq worker[k].todo
        /\ worker'[k].todo = {} \/ worker'[k].pass = worker[k].pass
        /\ \A j \in Workers \ {k} : worker'[j] = worker[j]
    BY <1>0, <1>6, NextItemEffect DEF MarkCompleted
  <2> HIDE DEF w
  <2>4. row'[w] = row[w] \/ row[w].status \in {"BROADCAST", "CONFIRMING"}
    BY <1>2, <2>1, <2>2
  <2>5. WorkByRow'
    BY <1>1, <2>1, <2>3, <2>4, SettlingWork DEF w
  <2>6. row'[w] = row[w] \/ RowMoves(k, w)
    BY <2>1, <2>4 DEF RowMoves
  <2> QED BY <1>0, <1>2, <1>3, <2>1, <2>3, <2>5, <2>6, WorkerBooked
<1>7. CASE MarkFailed(k)
  <2>1. worker[k].at = "fail" /\ UNCHANGED posted /\ Dropped(w)
    BY <1>2, <1>7 DEF MarkFailed
  <2>2. \/ /\ UNCHANGED row /\ worker'[k].at \in {"list", "item"}
           /\ worker'[k].todo \subseteq worker[k].todo
           /\ worker'[k].todo = {} \/ worker'[k].pass = worker[k].pass
           /\ \A j \in Workers \ {k} : worker'[j] = worker[j]
        \/ /\ row[w].status \in {"BROADCAST", "CONFIRMING"}
           /\ row'[w].status = "FAILED" /\ row'[w].hold = row[w].hold
           /\ \A v \in Withdrawals \ {w} : row'[v] = row[v]
           /\ worker'[k].at = "release" /\ worker'[k].item = worker[k].item
           /\ worker'[k].todo = worker[k].todo /\ worker'[k].pass = worker[k].pass
           /\ \A j \in Workers \ {k} : worker'[j] = worker[j]
    <3>1. CASE row[w].status \in Failable
      <4>1. Set(w, "FAILED") /\ Continue(k, "release")
        BY <1>2, <1>7, <3>1 DEF MarkFailed
      <4>2. row[w].status \in {"BROADCAST", "CONFIRMING"}
        BY <1>2, <3>1 DEF Failable, InFlight
      <4>3. /\ row'[w].status = "FAILED" /\ row'[w].hold = row[w].hold
            /\ \A v \in Withdrawals \ {w} : row'[v] = row[v]
        BY <1>0, <1>2, <4>1, SetEffect DEF Statuses
      <4>4. /\ worker'[k].at = "release" /\ worker'[k].item = worker[k].item
            /\ worker'[k].todo = worker[k].todo /\ worker'[k].pass = worker[k].pass
            /\ \A j \in Workers \ {k} : worker'[j] = worker[j]
        BY <1>0, <1>1, <4>1, ContinueEffect DEF Handling
      <4> QED BY <4>2, <4>3, <4>4
    <3>2. CASE row[w].status \notin Failable
      BY <1>0, <1>7, <3>2, NextItemEffect DEF MarkFailed
    <3> QED BY <3>1, <3>2
  <2> HIDE DEF w
  <2>3. WorkByRow'
    BY <1>1, <2>2, SettlingWork DEF w
  <2>4. row'[w] = row[w] \/ RowMoves(k, w)
    BY <1>3, <2>1, <2>2 DEF RowMoves
  <2> QED BY <1>0, <1>2, <2>1, <2>2, <2>3, <2>4, WorkerBooked
<1>8. CASE ReleaseFailed(k)
  <2>1. UNCHANGED row /\ worker[k].at = "release" /\ row[w].status = "FAILED"
    BY <1>2, <1>8 DEF ReleaseFailed
  <2>2. FinalRef(w) \notin posted
    BY <1>2, <2>1, SoundFacts
  <2>3. ~Refused(ReleaseRef(w), ReleaseLines(w))
    BY <1>0, <1>2, <2>2, ReleaseHappens
  <2>4. posted' = posted \cup {ReleaseRef(w)} /\ GoWorker(k, NextItem(k))
    BY <1>8, <2>3, PostEffect DEF ReleaseFailed
  <2>5. /\ worker'[k].at \in {"list", "item"}
        /\ worker'[k].todo \subseteq worker[k].todo
        /\ worker'[k].todo = {} \/ worker'[k].pass = worker[k].pass
        /\ \A j \in Workers \ {k} : worker'[j] = worker[j]
    BY <1>0, <2>4, NextItemEffect
  <2> HIDE DEF w
  <2>6. WorkByRow'
    BY <1>1, <2>1, <2>5, SettlingWork DEF w
  <2> QED BY <1>0, <1>2, <1>3, <2>1, <2>4, <2>5, <2>6, WorkerBooked
<1> QED BY <1>4, <1>5, <1>6, <1>7, <1>8

(* What the postings are matched by survives every step.                   *)
LEMMA BookedStep ==
    ASSUME Parameters, IsFiniteSet(Withdrawals), MaxFailures = 0, EarlyReview = FALSE,
           Sound, [Next]_vars
    PROVE  Booked'
<1>0. TypeOK /\ failures = 0 /\ Booked
  BY SoundFacts DEF Sound
<1>1. ASSUME NEW w \in Withdrawals, RequestStep(w) PROVE Booked'
  BY <1>1, RequestStepBooked
<1>2. ASSUME NEW a \in Admins,
             \/ ReviewStep(a)
             \/ \E w \in Withdrawals, kind \in {"approve", "reject"} : OpenReview(a, w, kind)
      PROVE  Booked'
  BY <1>2, ReviewStepBooked
<1>3. ASSUME NEW k \in Workers, WorkerStep(k) PROVE Booked'
  BY <1>3, PollingBooked, SendingBooked, SettlingBooked DEF WorkerStep
<1>4. ~Failure
  BY <1>0 DEF Failure
<1>5. ASSUME UNCHANGED <<row, request, review, worker, posted>> PROVE Booked'
  <2>1. \A v \in Withdrawals : Dropped(v) => Dropped(v)'
    BY <1>0, DroppedStays
  <2>2. FailedRows'
    BY <1>0, <1>5, <2>1, KeepsFailed DEF Booked
  <2>3. RowsByRequest' /\ ReviewsByRow' /\ RejectedRows'
    BY <1>0, <1>5 DEF Booked, RowsByRequest, ReviewsByRow, RejectedRows
  <2>4. WorkByRow'
    BY <1>0, <1>5 DEF Booked, WorkByRow, Sends, Settles, Current
  <2>5. PaidRows'
    BY <1>0, <1>5 DEF Booked, PaidRows, OnChain, Current
  <2> QED BY <2>2, <2>3, <2>4, <2>5 DEF Booked
<1>6. ASSUME NEW w \in Withdrawals, Decide(w) PROVE Booked'
  BY <1>0, <1>5, <1>6, DecideEffect
<1>7. CASE Freeze \/ AddAddress \/ CoolingOffEnds \/ UNCHANGED vars
  BY <1>5, <1>7 DEF Freeze, AddAddress, CoolingOffEnds, vars
<1> QED
  BY <1>1, <1>2, <1>3, <1>4, <1>6, <1>7
  DEF Next, RequestLost, ReviewLost, WorkerLost, BroadcastError

LEMMA BooksStart ==
    ASSUME Parameters, IsFiniteSet(Withdrawals), Init
    PROVE  Booked /\ Backed
<1>1. Booked
  <2>1. \A k \in Workers : worker[k].at = "list" /\ worker[k].pass = "broadcast"
    BY DEF Init, IdleWorker
  <2> QED BY <2>1, Start
          DEF Booked, RowsByRequest, ReviewsByRow, WorkByRow, RejectedRows, FailedRows,
              PaidRows, Sends, Settles
<1>2. Reserved = {} /\ PaidOut = {}
  BY Start DEF Reserved, PaidOut, MoneyOf
<1>3. Total({}) = 0
  <2>1. SumOf(Amount, {}) = 0
    BY FS_EmptySet, SumUnfolds
  <2> QED BY <2>1 DEF Total, SumOf
<1>4. Cardinality({}) = 0
  BY FS_EmptySet
<1>5. /\ balance[Locked(Owner, Asset)] = 0
      /\ balance[Available(Owner, Asset)] = OpeningBalance
      /\ balance[System("FEE_REVENUE", Asset)] = 0
  BY AccountsApart DEF Init, Parameters
<1>6. Fee \in Nat /\ OpeningBalance \in Nat
  BY DEF Parameters
<1>7. Total(Reserved) = 0 /\ Total(PaidOut) = 0 /\ Cardinality(PaidOut) = 0
  BY <1>2, <1>3, <1>4
<1>8. Fee * 0 = 0 /\ OpeningBalance - 0 - 0 = OpeningBalance
  BY <1>6
<1> QED BY <1>1, <1>5, <1>7, <1>8 DEF Backed

(* The user's and the exchange's balances are at every moment what the     *)
(* holds placed, released and finalized say, with any number of workers    *)
(* when no call fails and with one whatever fails: placeHold, releaseHold  *)
(* and finalizeWithdrawal post each movement once and in full.             *)
THEOREM BalancesAsPosted ==
    ASSUME Parameters, IsFiniteSet(Withdrawals), MaxFailures = 0 \/ SoleWorker
    PROVE  Spec => []Backed
<1>1. Init => Backed
  BY BooksStart
<1>2. /\ TypeOK /\ MovedFromHold /\ MovedFromHold' /\ NeverBoth /\ NeverBoth' /\ Backed
      /\ [Next]_vars
      => Backed'
  BY BackedStep
<1>3. Spec => []NeverBoth
  BY UsedOnce
<1> QED BY <1>1, <1>2, <1>3, TypeCorrect, HeldInvariant, PTL DEF Spec

LEMMA BooksInvariant ==
    ASSUME Parameters, IsFiniteSet(Withdrawals), MaxFailures = 0, EarlyReview = FALSE
    PROVE  Spec => [](Booked /\ Backed)
<1>1. Init => Booked /\ Backed
  BY BooksStart
<1>2. /\ SentInv /\ Finalizing /\ CompletedIsPaid /\ Held /\ MovedFromHold /\ MovedFromHold'
      /\ Released /\ NeverBoth /\ NeverBoth' /\ Booked /\ Backed /\ [Next]_vars
      => Booked' /\ Backed'
  BY BookedStep, BackedStep DEF Sound, SentInv
<1>3. Spec => []NeverBoth
  BY UsedOnce
<1> QED BY <1>1, <1>2, <1>3, SentInvariant, PaidInvariant, HeldInvariant,
           ReleasedInvariant, PTL DEF Spec

(* Between requests and cycles, when no call fails and reviews wait for     *)
(* the request: the locked account holds the live withdrawals and nothing   *)
(* else, the available one what neither they nor the completed ones took,   *)
(* and the exchange's revenue is one fee for each completed one, however    *)
(* requestWithdrawal, reject, runBroadcastCycle and runConfirmationCycle     *)
(* interleaved.                                                            *)
THEOREM LocksMatch ==
    ASSUME Parameters, IsFiniteSet(Withdrawals), MaxFailures = 0, EarlyReview = FALSE
    PROVE  Spec => []LocksMatchWithdrawals
<1>1. TypeOK /\ CompletedIsPaid /\ Held /\ Booked /\ Backed
      => LocksMatchWithdrawals
  <2> SUFFICES ASSUME TypeOK, CompletedIsPaid, Held, Booked, Backed, AtRest
               PROVE  Live = Reserved /\ Completed = PaidOut
    BY DEF LocksMatchWithdrawals, Backed
  <2>1. ASSUME NEW w \in Withdrawals
        PROVE  w \in Live <=> w \in Reserved
    <3>1. request[w] \in {"none", "done"} /\ row[w].status \in Statuses
      BY RowType DEF AtRest
    <3>2. /\ request[w] = "none" => row[w].status = "NONE"
          /\ request[w] = "done" => row[w].status \notin {"NONE", "REQUESTED"}
          /\ request[w] = "done" => row[w].hold \/ row[w].status = "FAILED"
          /\ HoldRef(w) \in posted <=> row[w].hold
          /\ row[w].hold => request[w] = "done"
      BY <3>1 DEF Booked, RowsByRequest, Held, HeldRows
    <3>3. row[w].status # "SIGNING"
      BY DEF AtRest, Booked, WorkByRow, Sends
    <3>4. /\ ReleaseRef(w) \in posted => row[w].status \in {"REJECTED", "FAILED"}
          /\ row[w].status = "REJECTED" => ReleaseRef(w) \in posted
      BY DEF AtRest, IdleReview, Booked, RejectedRows
    <3>5. row[w].status = "FAILED" /\ row[w].hold => ReleaseRef(w) \in posted
      BY DEF AtRest, Booked, FailedRows
    <3>6. row[w].status = "COMPLETED" <=> FinalRef(w) \in posted
      BY DEF AtRest, CompletedIsPaid, Booked, PaidRows
    <3>7. row[w].status \in {"PENDING_APPROVAL", "APPROVED", "BROADCAST", "CONFIRMING"} <=>
             /\ HoldRef(w) \in posted /\ ReleaseRef(w) \notin posted
             /\ FinalRef(w) \notin posted
      BY ONLY <3>1, <3>2, <3>3, <3>4, <3>5, <3>6 DEF Statuses
    <3> QED BY <3>7 DEF Live, Reserved, MoneyOf
  <2>2. ASSUME NEW w \in Withdrawals
        PROVE  row[w].status = "COMPLETED" <=> FinalRef(w) \in posted
    BY DEF AtRest, CompletedIsPaid, Booked, PaidRows
  <2>3. Live = Reserved
    BY <2>1 DEF Live, Reserved
  <2> QED BY <2>2, <2>3 DEF Completed, PaidOut
<1> QED BY <1>1, TypeCorrect, PaidInvariant, HeldInvariant, BooksInvariant, PTL
=============================================================================
