--------------------------- MODULE DepositProofs ---------------------------
(***************************************************************************)
(* Proofs about Deposit: the types of its state, that a deposit is         *)
(* credited for a full capture, or for a transfer enough admins approved   *)
(* and once for each transfer, and that what is shown as successful was    *)
(* credited.                                                               *)
(***************************************************************************)
EXTENDS Deposit, LedgerCallsProofs, FiniteSetTheorems

-----------------------------------------------------------------------------
(* The states of a row, of a delivery and of a decision.                   *)
LEMMA HandlerType ==
    ASSUME TypeOK, NEW h \in Handlers
    PROVE  /\ handler[h] = Idle \/ handler[h] \in Deliveries
           /\ handler[h] = Idle <=> handler[h].at = "idle"
           /\ handler[h].at # "idle" =>
                 /\ handler[h] \in Deliveries /\ handler[h].event \in Events
                 /\ Current(h) \in GatewayDeposits
BY DEF TypeOK, Deliveries, Events, Idle, Current

LEMMA DeskType ==
    ASSUME TypeOK, NEW a \in Admins
    PROVE  /\ desk[a] = Idle \/ desk[a] \in Decisions
           /\ desk[a] = Idle <=> desk[a].at = "idle"
           /\ desk[a].at # "idle" => desk[a] \in Decisions /\ Decided(a) \in ManualDeposits
BY DEF TypeOK, Decisions, Idle, Decided

LEMMA RowType ==
    ASSUME TypeOK, NEW d \in Deposits PROVE deposit[d] \in Rows
BY DEF TypeOK

LEMMA SetEffect ==
    ASSUME TypeOK, NEW d \in Deposits, NEW row \in Rows,
           deposit' = [deposit EXCEPT ![d] = row]
    PROVE  /\ deposit' \in [Deposits -> Rows] /\ deposit'[d] = row
           /\ \A e \in Deposits \ {d} : deposit'[e] = deposit[e]
BY DEF TypeOK

(* A step sets the status of one row.                                      *)
LEMMA StatusEffect ==
    ASSUME TypeOK, NEW d \in Deposits,
           NEW status \in {"NONE", "INITIATED", "PENDING", "SUCCESS", "FAILED"},
           deposit' = [deposit EXCEPT ![d].status = status]
    PROVE  /\ deposit' \in [Deposits -> Rows]
           /\ deposit'[d].status = status
           /\ deposit'[d].firstApprovedBy = deposit[d].firstApprovedBy
           /\ \A e \in Deposits \ {d} : deposit'[e] = deposit[e]
<1> DEFINE row == [deposit[d] EXCEPT !.status = status]
<1>1. deposit[d] \in Rows
  BY RowType
<1>2. /\ row \in Rows /\ row.status = status
      /\ row.firstApprovedBy = deposit[d].firstApprovedBy
  BY <1>1 DEF Rows
<1>3. deposit' = [deposit EXCEPT ![d] = row]
  OBVIOUS
<1> HIDE DEF row
<1> QED BY <1>2, <1>3, SetEffect

LEMMA ApproveEffect ==
    ASSUME TypeOK, NEW d \in ManualDeposits, NEW a \in Admins,
           deposit' = [deposit EXCEPT ![d].firstApprovedBy = a]
    PROVE  /\ deposit' \in [Deposits -> Rows]
           /\ deposit'[d].status = deposit[d].status
           /\ deposit'[d].firstApprovedBy = a
           /\ \A e \in Deposits \ {d} : deposit'[e] = deposit[e]
<1> DEFINE row == [deposit[d] EXCEPT !.firstApprovedBy = a]
<1>0. d \in Deposits
  BY DEF Deposits
<1>1. deposit[d] \in Rows
  BY <1>0, RowType
<1>2. row \in Rows /\ row.status = deposit[d].status /\ row.firstApprovedBy = a
  BY <1>1 DEF Rows
<1>3. deposit' = [deposit EXCEPT ![d] = row]
  OBVIOUS
<1> HIDE DEF row
<1> QED BY <1>0, <1>2, <1>3, SetEffect

(* A step moves one handler, or one admin.                                 *)
LEMMA HandlerEffect ==
    ASSUME TypeOK, NEW h \in Handlers, NEW x \in {Idle} \cup Deliveries, GoHandler(h, x)
    PROVE  /\ handler' \in [Handlers -> {Idle} \cup Deliveries] /\ handler'[h] = x
           /\ \A g \in Handlers \ {h} : handler'[g] = handler[g]
BY DEF GoHandler, TypeOK

LEMMA DeskEffect ==
    ASSUME TypeOK, NEW a \in Admins, NEW x \in {Idle} \cup Decisions, GoDesk(a, x)
    PROVE  /\ desk' \in [Admins -> {Idle} \cup Decisions] /\ desk'[a] = x
           /\ \A b \in Admins \ {a} : desk'[b] = desk[b]
BY DEF GoDesk, TypeOK

LEMMA DeliveryMoved ==
    ASSUME TypeOK, NEW h \in Handlers, handler[h].at # "idle",
           NEW step \in {"settle", "credit", "mark", "failing", "fail"}
    PROVE  /\ [handler[h] EXCEPT !.at = step] \in Deliveries
           /\ [handler[h] EXCEPT !.at = step].at = step
           /\ [handler[h] EXCEPT !.at = step].event = handler[h].event
BY HandlerType DEF Deliveries

LEMMA DecisionMoved ==
    ASSUME TypeOK, NEW a \in Admins, desk[a].at # "idle",
           NEW step \in {"first", "credit", "mark", "reject"}
    PROVE  /\ [desk[a] EXCEPT !.at = step] \in Decisions
           /\ [desk[a] EXCEPT !.at = step].at = step
           /\ [desk[a] EXCEPT !.at = step].deposit = desk[a].deposit
BY DeskType DEF Decisions

(* The posting of a deposit is one of whole amounts.                       *)
LEMMA LinesType ==
    ASSUME Parameters, NEW d \in Deposits
    PROVE  \A i \in DOMAIN CreditLines(d) :
              /\ CreditLines(d)[i].direction \in {"DEBIT", "CREDIT"}
              /\ CreditLines(d)[i].amount \in Int
<1>1. Amount[d] \in Int
  BY DEF Parameters
<1> DEFINE from == System(IF d \in GatewayDeposits THEN "GATEWAY_CLEARING"
                          ELSE "MANUAL_BANK_CLEARING", Asset)
           to == Available(Owner, Asset)
           n == Amount[d]
<1>2. CreditLines(d) = <<Debit(from, n), Credit(to, n)>>
  BY DEF CreditLines
<1> HIDE DEF from, to, n
<1>3. Debit(from, n).direction = "DEBIT" /\ Credit(to, n).direction = "CREDIT"
      /\ Debit(from, n).amount = n /\ Credit(to, n).amount = n
  BY DEF Debit, Credit
<1> QED BY <1>1, <1>2, <1>3 DEF n

LEMMA CreditEffect ==
    ASSUME Parameters, TypeOK, NEW d \in Deposits, Post(CreditRef(d), CreditLines(d))
    PROVE  /\ posted' = posted \cup {CreditRef(d)}
           /\ posted' \subseteq {"DEPOSIT"} \X Deposits
           /\ balance' \in [Accounts -> Int]
<1>1. posted' = posted \cup {CreditRef(d)}
  BY PostEffect
<1>2. CreditRef(d) \in {"DEPOSIT"} \X Deposits
  BY DEF CreditRef
<1>3. balance' \in [Accounts -> Int]
  BY LinesType, PostType DEF TypeOK
<1> QED BY <1>1, <1>2, <1>3 DEF TypeOK

-----------------------------------------------------------------------------
(* Every step keeps the types.                                             *)
LEMMA TypeStep ==
    ASSUME Parameters, TypeOK, [Next]_vars
    PROVE  TypeOK'
<1>H. ASSUME NEW h \in Handlers, NEW x \in {Idle} \cup Deliveries, GoHandler(h, x),
             UNCHANGED <<balance, posted, deposit, recorded, emitted, verify, desk, approvers>>,
             lost' \in 0..MaxFailures
      PROVE  TypeOK'
  BY <1>H, HandlerEffect DEF TypeOK
<1>D. ASSUME NEW a \in Admins, NEW x \in {Idle} \cup Decisions, GoDesk(a, x),
             UNCHANGED <<balance, posted, deposit, recorded, emitted, handler, verify,
                         approvers>>,
             lost' \in 0..MaxFailures
      PROVE  TypeOK'
  BY <1>D, DeskEffect DEF TypeOK
<1>1. ASSUME NEW d \in GatewayDeposits, CreateDeposit(d) PROVE TypeOK'
  <2>1. deposit' \in [Deposits -> Rows]
    BY <1>1, StatusEffect DEF CreateDeposit, Set, Deposits
  <2> QED BY <1>1, <2>1 DEF CreateDeposit, TypeOK
<1>2. ASSUME NEW d \in GatewayDeposits, AttemptFails(d) PROVE TypeOK'
  <2>1. FailedEvent(d) \in Events
    BY DEF FailedEvent, Events
  <2> QED BY <1>2, <2>1 DEF AttemptFails, TypeOK
<1>3. ASSUME NEW d \in GatewayDeposits, Capture(d) PROVE TypeOK'
  <2>1. \A exact \in BOOLEAN :
           [deposit : {d}, type : {"captured", "paid"}, exact : {exact}] \subseteq Events
    BY DEF Events
  <2> QED BY <1>3, <2>1 DEF Capture, TypeOK
<1>4. ASSUME NEW d \in GatewayDeposits, OpenVerify(d) PROVE TypeOK'
  BY <1>4 DEF OpenVerify, TypeOK
<1>5. ASSUME NEW d \in GatewayDeposits, AttachPayment(d) PROVE TypeOK'
  <2>1. deposit' \in [Deposits -> Rows]
    BY <1>5, StatusEffect DEF AttachPayment, Set, Deposits
  <2> QED BY <1>5, <2>1 DEF AttachPayment, TypeOK
<1>6. ASSUME NEW d \in GatewayDeposits, VerifyLost(d) PROVE TypeOK'
  BY <1>6 DEF VerifyLost, Failure, TypeOK, Parameters
<1>7. ASSUME NEW e \in emitted, NEW h \in Handlers, Receive(h, e) PROVE TypeOK'
  <2> DEFINE step == IF e.type = "failed" THEN "failing" ELSE "settle"
  <2>1. [at |-> step, event |-> e] \in Deliveries
    BY DEF TypeOK, Deliveries
  <2>2. /\ GoHandler(h, [at |-> step, event |-> e]) /\ recorded' = recorded \cup {e}
        /\ UNCHANGED <<balance, posted, deposit, emitted, verify, desk, approvers, lost>>
    BY <1>7 DEF Receive
  <2>3. handler' \in [Handlers -> {Idle} \cup Deliveries]
    BY <2>1, <2>2, HandlerEffect
  <2> QED BY <2>2, <2>3 DEF TypeOK
<1>8. ASSUME NEW h \in Handlers, Settle(h) PROVE TypeOK'
  <2>1. \E x \in {Idle} \cup Deliveries : GoHandler(h, x)
    BY <1>8, DeliveryMoved DEF Settle
  <2> QED BY <1>8, <2>1, <1>H DEF Settle, TypeOK
<1>9. ASSUME NEW h \in Handlers, CreditCaptured(h) PROVE TypeOK'
  <2>1. Current(h) \in Deposits
    BY <1>9, HandlerType DEF CreditCaptured, Deposits
  <2>2. handler' \in [Handlers -> {Idle} \cup Deliveries]
    BY <1>9, DeliveryMoved, HandlerEffect DEF CreditCaptured
  <2>3. posted' \subseteq {"DEPOSIT"} \X Deposits /\ balance' \in [Accounts -> Int]
    BY <1>9, <2>1, CreditEffect DEF CreditCaptured
  <2> QED BY <1>9, <2>2, <2>3 DEF CreditCaptured, TypeOK
<1>10. ASSUME NEW h \in Handlers, MarkCredited(h) \/ MarkFailed(h) PROVE TypeOK'
  <2>1. Current(h) \in Deposits
    BY <1>10, HandlerType DEF MarkCredited, MarkFailed, Deposits
  <2>2. deposit' \in [Deposits -> Rows]
    BY <1>10, <2>1, StatusEffect DEF MarkCredited, MarkFailed, Set
  <2>3. handler' \in [Handlers -> {Idle} \cup Deliveries]
    BY <1>10, HandlerEffect DEF MarkCredited, MarkFailed
  <2> QED BY <1>10, <2>2, <2>3 DEF MarkCredited, MarkFailed, TypeOK
<1>11. ASSUME NEW h \in Handlers, OpenFailed(h) PROVE TypeOK'
  <2>1. \E x \in {Idle} \cup Deliveries : GoHandler(h, x)
    BY <1>11, DeliveryMoved DEF OpenFailed
  <2> QED BY <1>11, <2>1, <1>H DEF OpenFailed, TypeOK
<1>12. ASSUME NEW h \in Handlers, HandlerLost(h) PROVE TypeOK'
  BY <1>12, <1>H DEF HandlerLost, Failure, TypeOK, Parameters
<1>13. ASSUME NEW d \in ManualDeposits, CreateManualDeposit(d) PROVE TypeOK'
  <2>1. deposit' \in [Deposits -> Rows]
    BY <1>13, StatusEffect DEF CreateManualDeposit, Set, Deposits
  <2> QED BY <1>13, <2>1 DEF CreateManualDeposit, TypeOK
<1>14. ASSUME NEW a \in Admins, NEW d \in ManualDeposits,
              OpenApproval(a, d) \/ OpenRejection(a, d)
       PROVE  TypeOK'
  <2>1. \A step \in {"first", "credit", "reject"} :
           [deposit |-> d, at |-> step] \in {Idle} \cup Decisions
    BY DEF Decisions
  <2>2. \E step \in {"first", "credit", "reject"} : GoDesk(a, [deposit |-> d, at |-> step])
    BY <1>14 DEF OpenApproval, OpenRejection
  <2> QED BY <1>14, <2>1, <2>2, <1>D DEF OpenApproval, OpenRejection, TypeOK
<1>15. ASSUME NEW a \in Admins, MarkFirstApproval(a) PROVE TypeOK'
  <2>1. Decided(a) \in ManualDeposits
    BY <1>15, DeskType DEF MarkFirstApproval
  <2>2. /\ deposit' \in [Deposits -> Rows]
        /\ approvers' \in [ManualDeposits -> SUBSET Admins]
    BY <1>15, <2>1, ApproveEffect DEF MarkFirstApproval, TypeOK
  <2>3. desk' \in [Admins -> {Idle} \cup Decisions]
    BY <1>15, DeskEffect DEF MarkFirstApproval
  <2> QED BY <1>15, <2>2, <2>3 DEF MarkFirstApproval, TypeOK
<1>16. ASSUME NEW a \in Admins, CreditManual(a) PROVE TypeOK'
  <2>1. Decided(a) \in ManualDeposits /\ Decided(a) \in Deposits
    BY <1>16, DeskType DEF CreditManual, Deposits
  <2>2. approvers' \in [ManualDeposits -> SUBSET Admins]
    BY <1>16, <2>1 DEF CreditManual, TypeOK
  <2>3. desk' \in [Admins -> {Idle} \cup Decisions]
    BY <1>16, DecisionMoved, DeskEffect DEF CreditManual
  <2>4. posted' \subseteq {"DEPOSIT"} \X Deposits /\ balance' \in [Accounts -> Int]
    BY <1>16, <2>1, CreditEffect DEF CreditManual
  <2> QED BY <1>16, <2>2, <2>3, <2>4 DEF CreditManual, TypeOK
<1>17. ASSUME NEW a \in Admins, MarkManualApproved(a) \/ MarkManualRejected(a) PROVE TypeOK'
  <2>1. Decided(a) \in Deposits
    BY <1>17, DeskType DEF MarkManualApproved, MarkManualRejected, Deposits
  <2>2. deposit' \in [Deposits -> Rows]
    <3>1. deposit[Decided(a)] \in Rows
      BY <2>1, RowType
    <3>2. \E st \in {"NONE", "INITIATED", "PENDING", "SUCCESS", "FAILED"} :
             deposit' = [deposit EXCEPT ![Decided(a)].status = st]
      BY <1>17, <3>1 DEF MarkManualApproved, MarkManualRejected, Rows
    <3> QED BY <2>1, <3>2, StatusEffect
  <2>3. desk' \in [Admins -> {Idle} \cup Decisions]
    BY <1>17, DeskEffect DEF MarkManualApproved, MarkManualRejected
  <2> QED BY <1>17, <2>2, <2>3 DEF MarkManualApproved, MarkManualRejected, TypeOK
<1>18. ASSUME NEW a \in Admins, DeskLost(a) PROVE TypeOK'
  BY <1>18, <1>D DEF DeskLost, Failure, TypeOK, Parameters
<1>19. CASE UNCHANGED vars
  BY <1>19 DEF vars, TypeOK
<1> QED
  BY <1>1, <1>2, <1>3, <1>4, <1>5, <1>6, <1>7, <1>8, <1>9, <1>10, <1>11, <1>12,
     <1>13, <1>14, <1>15, <1>16, <1>17, <1>18, <1>19
  DEF Next, Gateway, Deliver, HandlerStep, Review

-----------------------------------------------------------------------------
(* The gateway reports a capture by two events at once.                    *)
LEMMA CapturesStep ==
    ASSUME TypeOK, CapturesPaired, [Next]_vars PROVE CapturesPaired' /\ emitted \subseteq emitted'
<1>1. ASSUME NEW d \in GatewayDeposits, AttemptFails(d)
      PROVE  CapturesPaired' /\ emitted \subseteq emitted'
  BY <1>1 DEF AttemptFails, CapturesPaired, Captured, FailedEvent
<1>2. ASSUME NEW d \in GatewayDeposits, Capture(d)
      PROVE  CapturesPaired' /\ emitted \subseteq emitted'
  <2>1. PICK exact \in BOOLEAN :
           emitted' = emitted \cup [deposit : {d}, type : {"captured", "paid"}, exact : {exact}]
    BY <1>2 DEF Capture
  <2>2. [deposit |-> d, type |-> "captured", exact |-> exact] \in emitted'
    BY <2>1
  <2>3. ASSUME NEW e \in emitted', e \notin emitted PROVE e.deposit = d /\ e.exact = exact
    BY <2>1, <2>3
  <2> QED BY <2>1, <2>2, <2>3 DEF CapturesPaired, Captured
<1>3. UNCHANGED emitted => CapturesPaired' /\ emitted \subseteq emitted'
  BY DEF CapturesPaired, Captured
<1> QED
  BY <1>1, <1>2, <1>3
  DEF Next, Gateway, Deliver, HandlerStep, Review, vars, CreateDeposit, OpenVerify,
      AttachPayment, VerifyLost, Receive, Settle, CreditCaptured, MarkCredited,
      OpenFailed, MarkFailed, HandlerLost, CreateManualDeposit, OpenApproval,
      OpenRejection, MarkFirstApproval, CreditManual, MarkManualApproved,
      MarkManualRejected, DeskLost

(* What a handler has in hand was recorded, and what it credits was        *)
(* captured in full.                                                       *)
HandlerHolds(h) ==
    /\ handler[h] # Idle => handler[h].event \in recorded
    /\ handler[h].at \in {"settle", "credit", "mark"} => handler[h].event.type # "failed"
    /\ handler[h].at \in {"credit", "mark"} => handler[h].event.exact
    /\ handler[h].at = "mark" => Credited(Current(h))

LEMMA HandledStep ==
    ASSUME Parameters, TypeOK, Handled, [Next]_vars PROVE Handled'
<1>H. Handled <=> \A h \in Handlers : HandlerHolds(h)
  BY DEF Handled, HandlerHolds
<1>H2. Handled' <=> \A h \in Handlers : HandlerHolds(h)'
  BY DEF Handled, HandlerHolds
<1>K. ASSUME UNCHANGED handler, recorded \subseteq recorded', posted \subseteq posted'
      PROVE  Handled'
  BY <1>K DEF Handled, Credited, Current
<1>A. ASSUME NEW h \in Handlers, NEW x \in {Idle} \cup Deliveries, GoHandler(h, x),
             recorded \subseteq recorded', posted \subseteq posted',
             x # Idle =>
                 /\ x.event \in recorded'
                 /\ x.at \in {"settle", "credit", "mark"} => x.event.type # "failed"
                 /\ x.at \in {"credit", "mark"} => x.event.exact
                 /\ x.at = "mark" => CreditRef(x.event.deposit) \in posted'
      PROVE  Handled'
  <2>1. handler'[h] = x /\ \A g \in Handlers \ {h} : handler'[g] = handler[g]
    BY <1>A, HandlerEffect
  <2>2. ASSUME NEW g \in Handlers \ {h} PROVE HandlerHolds(g)'
    BY <1>A, <1>H, <2>1 DEF HandlerHolds, Credited, Current
  <2>3. HandlerHolds(h)'
    BY <1>A, <2>1 DEF HandlerHolds, Credited, Current, Idle
  <2> QED BY <1>H2, <2>2, <2>3
<1>1. ASSUME NEW e \in emitted, NEW h \in Handlers, Receive(h, e) PROVE Handled'
  <2> DEFINE step == IF e.type = "failed" THEN "failing" ELSE "settle"
             x == [at |-> step, event |-> e]
  <2>1. x \in Deliveries /\ x.at = step /\ x.event = e
    BY DEF TypeOK, Deliveries
  <2>2. GoHandler(h, x) /\ recorded' = recorded \cup {e} /\ UNCHANGED posted
    BY <1>1 DEF Receive
  <2>3. step \in {"settle", "failing"} /\ (step = "settle" => e.type # "failed")
    OBVIOUS
  <2> HIDE DEF x, step
  <2> QED BY <2>1, <2>2, <2>3, <1>A
<1>2. ASSUME NEW h \in Handlers, handler[h].at # "idle",
             NEW step \in {"settle", "credit", "mark", "failing", "fail"},
             GoHandler(h, [handler[h] EXCEPT !.at = step]),
             step \in {"settle", "credit", "mark"} => handler[h].event.type # "failed",
             step \in {"credit", "mark"} => handler[h].event.exact,
             step = "mark" => CreditRef(Current(h)) \in posted',
             UNCHANGED recorded, posted \subseteq posted'
      PROVE  Handled'
  <2> DEFINE x == [handler[h] EXCEPT !.at = step]
  <2>1. x \in Deliveries /\ x.at = step /\ x.event = handler[h].event
    BY <1>2, DeliveryMoved
  <2>2. GoHandler(h, x) /\ x.event.deposit = Current(h) /\ x.event \in recorded
    BY <1>2, <2>1, HandlerType DEF Current, Handled
  <2> HIDE DEF x
  <2> QED BY <1>2, <2>1, <2>2, <1>A
<1>3. ASSUME NEW h \in Handlers, GoHandler(h, Idle), UNCHANGED <<recorded, posted>>
      PROVE  Handled'
  BY <1>3, <1>A
<1>4. ASSUME NEW h \in Handlers, Settle(h) PROVE Handled'
  <2>1. handler[h].at = "settle" /\ UNCHANGED <<recorded, posted>>
    BY <1>4 DEF Settle
  <2>2. \/ GoHandler(h, Idle)
        \/ GoHandler(h, [handler[h] EXCEPT !.at = "credit"]) /\ handler[h].event.exact
        \/ GoHandler(h, [handler[h] EXCEPT !.at = "fail"])
    BY <1>4 DEF Settle
  <2>3. handler[h].event.type # "failed"
    BY <2>1 DEF Handled
  <2> QED BY <2>1, <2>2, <2>3, <1>2, <1>3
<1>5. ASSUME NEW h \in Handlers, CreditCaptured(h) PROVE Handled'
  <2>1. handler[h].at = "credit" /\ UNCHANGED recorded
    BY <1>5 DEF CreditCaptured
  <2>2. posted' = posted \cup {CreditRef(Current(h))}
    BY <1>5, PostEffect DEF CreditCaptured
  <2>3. GoHandler(h, [handler[h] EXCEPT !.at = "mark"])
    BY <1>5 DEF CreditCaptured
  <2>4. handler[h].event.type # "failed" /\ handler[h].event.exact
    BY <2>1 DEF Handled
  <2> QED BY <2>1, <2>2, <2>3, <2>4, <1>2
<1>6. ASSUME NEW h \in Handlers,
             MarkCredited(h) \/ MarkFailed(h) \/ HandlerLost(h)
      PROVE  Handled'
  BY <1>6, <1>3 DEF MarkCredited, MarkFailed, HandlerLost
<1>7. ASSUME NEW h \in Handlers, OpenFailed(h) PROVE Handled'
  <2>1. handler[h].at = "failing" /\ UNCHANGED <<recorded, posted>>
    BY <1>7 DEF OpenFailed
  <2>2. \/ GoHandler(h, Idle)
        \/ GoHandler(h, [handler[h] EXCEPT !.at = "fail"])
    BY <1>7 DEF OpenFailed
  <2> QED BY <2>1, <2>2, <1>2, <1>3
<1>8. ASSUME NEW a \in Admins, CreditManual(a) PROVE Handled'
  BY <1>8, <1>K, PostEffect DEF CreditManual
<1>9. UNCHANGED <<handler, recorded, posted>> => Handled'
  BY <1>K
<1> QED
  BY <1>1, <1>4, <1>5, <1>6, <1>7, <1>8, <1>9
  DEF Next, Gateway, Deliver, HandlerStep, Review, vars, CreateDeposit, AttemptFails,
      Capture, OpenVerify, AttachPayment, VerifyLost, CreateManualDeposit,
      OpenApproval, OpenRejection, MarkFirstApproval, MarkManualApproved,
      MarkManualRejected, DeskLost

-----------------------------------------------------------------------------
(* What a step does to the claims: to rows, postings and approvals.        *)
ClaimKept(d) ==
    /\ deposit'[d].status = "NONE" <=> deposit[d].status = "NONE"
    /\ deposit'[d].firstApprovedBy = deposit[d].firstApprovedBy
    /\ CreditRef(d) \in posted' <=> CreditRef(d) \in posted

ClaimsKept == UNCHANGED approvers /\ \A d \in ManualDeposits : ClaimKept(d)

(* The gateway's part of the system does not touch them.                   *)
LEMMA GatewayKeepsClaims ==
    ASSUME Parameters, TypeOK, [Next]_vars
    PROVE  \/ ClaimsKept /\ UNCHANGED desk
           \/ \E d \in ManualDeposits : CreateManualDeposit(d)
           \/ \E a \in Admins : Review(a)
<1> DEFINE Kept == ClaimsKept /\ UNCHANGED desk
<1>1. ASSUME NEW g \in GatewayDeposits, UNCHANGED <<desk, approvers>>,
             posted' \in {posted, posted \cup {CreditRef(g)}},
             \A d \in Deposits \ {g} : deposit'[d] = deposit[d]
      PROVE  Kept
  <2>1. \A d \in ManualDeposits : d \in Deposits /\ d # g
    BY DEF Parameters, Deposits
  <2> QED BY <1>1, <2>1 DEF ClaimsKept, ClaimKept, CreditRef
<1>2. ASSUME UNCHANGED <<deposit, posted, desk, approvers>> PROVE Kept
  BY <1>2 DEF ClaimsKept, ClaimKept
<1>3. ASSUME NEW d \in GatewayDeposits, Gateway(d) PROVE Kept
  <2>1. CASE CreateDeposit(d) \/ AttachPayment(d)
    <3>1. \A e \in Deposits \ {d} : deposit'[e] = deposit[e]
      BY <2>1, StatusEffect DEF CreateDeposit, AttachPayment, Set, Deposits
    <3> QED BY <2>1, <3>1, <1>1 DEF CreateDeposit, AttachPayment
  <2> QED BY <1>3, <2>1, <1>2 DEF Gateway, AttemptFails, Capture, OpenVerify, VerifyLost
<1>4. ASSUME NEW h \in Handlers, HandlerStep(h) \/ HandlerLost(h) PROVE Kept
  <2>1. CASE MarkCredited(h) \/ MarkFailed(h)
    <3>1. Current(h) \in GatewayDeposits /\ Current(h) \in Deposits
      BY <2>1, HandlerType DEF MarkCredited, MarkFailed, Deposits
    <3>2. \A e \in Deposits \ {Current(h)} : deposit'[e] = deposit[e]
      BY <2>1, <3>1, StatusEffect DEF MarkCredited, MarkFailed, Set
    <3> QED BY <2>1, <3>1, <3>2, <1>1 DEF MarkCredited, MarkFailed
  <2>2. CASE CreditCaptured(h)
    <3>1. Current(h) \in GatewayDeposits /\ UNCHANGED <<deposit, desk, approvers>>
      BY <2>2, HandlerType DEF CreditCaptured
    <3>2. posted' = posted \cup {CreditRef(Current(h))}
      BY <2>2, PostEffect DEF CreditCaptured
    <3> QED BY <3>1, <3>2, <1>1
  <2> QED BY <1>4, <2>1, <2>2, <1>2 DEF HandlerStep, Settle, OpenFailed, HandlerLost
<1>5. ASSUME NEW e \in emitted, Deliver(e) PROVE Kept
  BY <1>5, <1>2 DEF Deliver, Receive
<1>6. UNCHANGED vars => Kept
  BY <1>2 DEF vars
<1> QED BY <1>3, <1>4, <1>5, <1>6 DEF Next

(* What an admin's step does to the claim at hand.                         *)
LEMMA ReviewEffect ==
    ASSUME Parameters, TypeOK, NEW a \in Admins, Review(a)
    PROVE  /\ \A b \in Admins \ {a} : desk'[b] = desk[b]
           /\ \/ ClaimsKept /\ desk'[a] = Idle
              \/ \E d \in ManualDeposits :
                    /\ ClaimsKept /\ deposit[d].status = "PENDING"
                    /\ desk'[a] \in Decisions /\ Decided(a)' = d
                    /\ desk'[a].at \in {"first", "credit", "reject"}
                    /\ desk'[a].at = "credit" /\ requiresDual(d) =>
                          deposit[d].firstApprovedBy \notin {NoAdmin, a}
              \/ /\ desk'[a] = Idle /\ UNCHANGED posted
                 /\ desk[a].at = "first" /\ MayApproveFirst(Decided(a))
                 /\ deposit'[Decided(a)].firstApprovedBy = a
                 /\ deposit'[Decided(a)].status = deposit[Decided(a)].status
                 /\ \A e \in Deposits \ {Decided(a)} : deposit'[e] = deposit[e]
                 /\ approvers' = [approvers EXCEPT ![Decided(a)] = @ \cup {a}]
              \/ /\ desk[a].at = "credit" /\ UNCHANGED deposit
                 /\ desk'[a] \in Decisions /\ desk'[a].at = "mark"
                 /\ Decided(a)' = Decided(a)
                 /\ posted' = posted \cup {CreditRef(Decided(a))}
                 /\ approvers' = [approvers EXCEPT ![Decided(a)] = @ \cup {a}]
<1> DEFINE Frame == \A b \in Admins \ {a} : desk'[b] = desk[b]
<1>K. ASSUME UNCHANGED <<deposit, posted, approvers>> PROVE ClaimsKept
  BY <1>K DEF ClaimsKept, ClaimKept
<1>1. ASSUME NEW d \in ManualDeposits, OpenApproval(a, d)
      PROVE  /\ Frame /\ ClaimsKept /\ deposit[d].status = "PENDING"
             /\ desk'[a] \in Decisions /\ Decided(a)' = d
             /\ desk'[a].at \in {"first", "credit", "reject"}
             /\ desk'[a].at = "credit" /\ requiresDual(d) =>
                   deposit[d].firstApprovedBy \notin {NoAdmin, a}
  <2> DEFINE step == IF requiresDual(d) /\ deposit[d].firstApprovedBy = NoAdmin
                     THEN "first" ELSE "credit"
  <2>1. [deposit |-> d, at |-> step] \in Decisions
    BY DEF Decisions
  <2>2. /\ GoDesk(a, [deposit |-> d, at |-> step]) /\ UNCHANGED <<deposit, posted, approvers>>
        /\ deposit[d].status = "PENDING"
        /\ ~(requiresDual(d) /\ deposit[d].firstApprovedBy = a)
    BY <1>1 DEF OpenApproval
  <2>3. Frame /\ desk'[a] = [deposit |-> d, at |-> step]
    BY <2>1, <2>2, DeskEffect
  <2> QED BY <2>1, <2>2, <2>3, <1>K DEF Decided
<1>2. ASSUME NEW d \in ManualDeposits, OpenRejection(a, d)
      PROVE  /\ Frame /\ ClaimsKept /\ deposit[d].status = "PENDING"
             /\ desk'[a] \in Decisions /\ Decided(a)' = d
             /\ desk'[a].at = "reject"
  <2>1. [deposit |-> d, at |-> "reject"] \in Decisions
    BY DEF Decisions
  <2>2. /\ GoDesk(a, [deposit |-> d, at |-> "reject"]) /\ UNCHANGED <<deposit, posted, approvers>>
        /\ deposit[d].status = "PENDING"
    BY <1>2 DEF OpenRejection
  <2>3. Frame /\ desk'[a] = [deposit |-> d, at |-> "reject"]
    BY <2>1, <2>2, DeskEffect
  <2> QED BY <2>1, <2>2, <2>3, <1>K DEF Decided
<1>3. ASSUME MarkFirstApproval(a), ~MayApproveFirst(Decided(a))
      PROVE  Frame /\ ClaimsKept /\ desk'[a] = Idle
  BY <1>3, <1>K, DeskEffect DEF MarkFirstApproval
<1>4. ASSUME MarkFirstApproval(a), MayApproveFirst(Decided(a))
      PROVE  /\ Frame /\ desk'[a] = Idle /\ UNCHANGED posted /\ desk[a].at = "first"
             /\ deposit'[Decided(a)].firstApprovedBy = a
             /\ deposit'[Decided(a)].status = deposit[Decided(a)].status
             /\ \A e \in Deposits \ {Decided(a)} : deposit'[e] = deposit[e]
             /\ approvers' = [approvers EXCEPT ![Decided(a)] = @ \cup {a}]
  <2>1. Decided(a) \in ManualDeposits
    BY <1>4, DeskType DEF MarkFirstApproval
  <2> QED BY <1>4, <2>1, ApproveEffect, DeskEffect DEF MarkFirstApproval
<1>5. ASSUME CreditManual(a)
      PROVE  /\ Frame /\ desk[a].at = "credit" /\ UNCHANGED deposit
             /\ desk'[a] \in Decisions /\ desk'[a].at = "mark"
             /\ Decided(a)' = Decided(a)
             /\ posted' = posted \cup {CreditRef(Decided(a))}
             /\ approvers' = [approvers EXCEPT ![Decided(a)] = @ \cup {a}]
  <2> DEFINE x == [desk[a] EXCEPT !.at = "mark"]
  <2>1. desk[a].at = "credit" /\ UNCHANGED deposit /\ GoDesk(a, x)
    BY <1>5 DEF CreditManual
  <2>2. x \in Decisions /\ x.at = "mark" /\ x.deposit = desk[a].deposit
    BY <2>1, DecisionMoved
  <2> HIDE DEF x
  <2>3. Frame /\ desk'[a] = x
    BY <2>1, <2>2, DeskEffect
  <2>4. posted' = posted \cup {CreditRef(Decided(a))}
    BY <1>5, PostEffect DEF CreditManual
  <2> QED BY <1>5, <2>1, <2>2, <2>3, <2>4 DEF CreditManual, Decided
<1>6. ASSUME MarkManualApproved(a) \/ MarkManualRejected(a)
      PROVE  Frame /\ ClaimsKept /\ desk'[a] = Idle
  <2>1. Decided(a) \in Deposits /\ deposit[Decided(a)] \in Rows
    BY <1>6, DeskType, RowType DEF MarkManualApproved, MarkManualRejected, Deposits
  <2>2. PICK st \in {"NONE", "INITIATED", "PENDING", "SUCCESS", "FAILED"} :
           /\ deposit' = [deposit EXCEPT ![Decided(a)].status = st]
           /\ st = "NONE" <=> deposit[Decided(a)].status = "NONE"
    BY <1>6, <2>1 DEF MarkManualApproved, MarkManualRejected, Rows
  <2>3. \A d \in ManualDeposits :
           /\ deposit'[d].status = "NONE" <=> deposit[d].status = "NONE"
           /\ deposit'[d].firstApprovedBy = deposit[d].firstApprovedBy
    BY <2>1, <2>2, StatusEffect DEF Deposits
  <2>4. Frame /\ desk'[a] = Idle /\ UNCHANGED <<posted, approvers>>
    BY <1>6, DeskEffect DEF MarkManualApproved, MarkManualRejected
  <2> QED BY <2>3, <2>4 DEF ClaimsKept, ClaimKept
<1>7. ASSUME DeskLost(a) PROVE Frame /\ ClaimsKept /\ desk'[a] = Idle
  BY <1>7, <1>K, DeskEffect DEF DeskLost
<1> QED BY <1>1, <1>2, <1>3, <1>4, <1>5, <1>6, <1>7 DEF Review

-----------------------------------------------------------------------------
(* One claim of a transfer is made, and only a claim that was made is      *)
(* reviewed and credited.                                                  *)
LEMMA ClaimedStep ==
    ASSUME Parameters, TypeOK, Claimed, [Next]_vars PROVE Claimed'
<1>K. ASSUME ClaimsKept, UNCHANGED desk PROVE Claimed'
  BY <1>K, DeskType DEF Claimed, ClaimsKept, ClaimKept, Credited, Decided, Idle
<1>1. ASSUME NEW d \in ManualDeposits, CreateManualDeposit(d) PROVE Claimed'
  <2>1. /\ UNCHANGED <<desk, posted>> /\ d \in Deposits
        /\ \A e \in ManualDeposits : Utr[e] = Utr[d] => deposit[e].status = "NONE"
    BY <1>1 DEF CreateManualDeposit, UtrClaimed, Deposits
  <2>2. /\ deposit'[d].status = "PENDING"
        /\ \A e \in ManualDeposits \ {d} : deposit'[e] = deposit[e]
    BY <1>1, StatusEffect DEF CreateManualDeposit, Set, Deposits
  <2>3. \A a \in Admins : desk[a] # Idle => Decided(a) \in ManualDeposits
    BY DeskType DEF Idle
  <2> QED BY <2>1, <2>2, <2>3 DEF Claimed, Credited, Decided
<1>2. ASSUME NEW a \in Admins, Review(a) PROVE Claimed'
  <2>1. \A b \in Admins \ {a} : desk'[b] = desk[b]
    BY <1>2, ReviewEffect
  <2>2. \A b \in Admins : desk[b] # Idle =>
           Decided(b) \in ManualDeposits /\ deposit[Decided(b)].status # "NONE"
    BY DeskType DEF Claimed, Idle
  <2>3. CASE ClaimsKept /\ desk'[a] = Idle
    BY <2>1, <2>2, <2>3 DEF Claimed, ClaimsKept, ClaimKept, Credited, Decided
  <2>4. CASE \E d \in ManualDeposits :
                ClaimsKept /\ deposit[d].status = "PENDING" /\ Decided(a)' = d
    BY <2>1, <2>2, <2>4 DEF Claimed, ClaimsKept, ClaimKept, Credited, Decided
  <2>5. CASE /\ desk'[a] = Idle /\ UNCHANGED posted /\ desk[a].at = "first"
             /\ deposit'[Decided(a)].status = deposit[Decided(a)].status
             /\ \A e \in Deposits \ {Decided(a)} : deposit'[e] = deposit[e]
    <3>1. \A d \in ManualDeposits : deposit'[d].status = deposit[d].status
      BY <2>5 DEF Deposits
    <3> QED BY <2>1, <2>2, <2>5, <3>1 DEF Claimed, Credited, Decided
  <2>6. CASE /\ desk[a].at = "credit" /\ UNCHANGED deposit
             /\ Decided(a)' = Decided(a)
             /\ posted' = posted \cup {CreditRef(Decided(a))}
    <3>1. desk[a] # Idle
      BY <2>6 DEF Idle
    <3>2. \A d \in ManualDeposits : Credited(d)' => Credited(d) \/ d = Decided(a)
      BY <2>6 DEF Credited, CreditRef
    <3>3. \A b \in Admins : desk'[b] # Idle => deposit'[Decided(b)'].status # "NONE"
      BY <2>1, <2>2, <2>6, <3>1 DEF Decided
    <3>4. \A d \in ManualDeposits : Credited(d)' => deposit'[d].status # "NONE"
      BY <2>2, <2>6, <3>1, <3>2 DEF Claimed
    <3> QED BY <2>6, <3>3, <3>4 DEF Claimed
  <2> QED BY <1>2, <2>3, <2>4, <2>5, <2>6, ReviewEffect
<1> QED BY <1>K, <1>1, <1>2, GatewayKeepsClaims

(* The second of two approvals is of another admin.                        *)
Approved(d) == \E a \in approvers[d] : requiresDual(d) => approvers[d] \ {a} # {}

LEMMA ApprovalsStep ==
    ASSUME Parameters, TypeOK, Claimed, SecondPairOfEyes, [Next]_vars PROVE SecondPairOfEyes'
<1>T. /\ \A d \in ManualDeposits : d \in Deposits /\ deposit[d] \in Rows
      /\ \A b \in Admins : desk[b].at # "idle" => Decided(b) \in ManualDeposits
  BY RowType, DeskType DEF Deposits
<1>K. ASSUME ClaimsKept, UNCHANGED desk PROVE SecondPairOfEyes'
  <2>1. \A d \in ManualDeposits :
           /\ deposit'[d].firstApprovedBy # NoAdmin => deposit'[d].firstApprovedBy \in approvers'[d]
           /\ Credited(d)' => Approved(d)'
    BY <1>K DEF ClaimsKept, ClaimKept, SecondPairOfEyes, Credited, Approved
  <2>2. \A a \in Admins :
           /\ desk'[a].at = "credit" /\ requiresDual(Decided(a)') =>
                 deposit'[Decided(a)'].firstApprovedBy \notin {NoAdmin, a}
           /\ desk'[a].at = "mark" => Credited(Decided(a))'
    BY <1>K, <1>T DEF ClaimsKept, ClaimKept, SecondPairOfEyes, Credited, Decided
  <2> QED BY <2>1, <2>2 DEF SecondPairOfEyes, Approved
<1>1. ASSUME NEW d \in ManualDeposits, CreateManualDeposit(d) PROVE SecondPairOfEyes'
  <2>1. UNCHANGED <<desk, posted, approvers>>
    BY <1>1 DEF CreateManualDeposit
  <2>2. \A e \in ManualDeposits : deposit'[e].firstApprovedBy = deposit[e].firstApprovedBy
    BY <1>1, StatusEffect DEF CreateManualDeposit, Set, Deposits
  <2>3. \A e \in ManualDeposits :
           /\ deposit'[e].firstApprovedBy # NoAdmin => deposit'[e].firstApprovedBy \in approvers'[e]
           /\ Credited(e)' => Approved(e)'
    BY <2>1, <2>2 DEF SecondPairOfEyes, Credited, Approved
  <2>4. \A a \in Admins :
           /\ desk'[a].at = "credit" /\ requiresDual(Decided(a)') =>
                 deposit'[Decided(a)'].firstApprovedBy \notin {NoAdmin, a}
           /\ desk'[a].at = "mark" => Credited(Decided(a))'
    BY <2>1, <2>2, <1>T DEF SecondPairOfEyes, Credited, Decided
  <2> QED BY <2>3, <2>4 DEF SecondPairOfEyes, Approved
<1>2. ASSUME NEW a \in Admins, Review(a) PROVE SecondPairOfEyes'
  <2>F. \A b \in Admins \ {a} : desk'[b] = desk[b]
    BY <1>2, ReviewEffect
  <2>1. CASE ClaimsKept /\ desk'[a] = Idle
    <3>1. \A d \in ManualDeposits :
             /\ deposit'[d].firstApprovedBy # NoAdmin => deposit'[d].firstApprovedBy \in approvers'[d]
             /\ Credited(d)' => Approved(d)'
      BY <2>1 DEF ClaimsKept, ClaimKept, SecondPairOfEyes, Credited, Approved
    <3>2. \A b \in Admins :
             /\ desk'[b].at = "credit" /\ requiresDual(Decided(b)') =>
                   deposit'[Decided(b)'].firstApprovedBy \notin {NoAdmin, b}
             /\ desk'[b].at = "mark" => Credited(Decided(b))'
      BY <2>F, <2>1, <1>T DEF ClaimsKept, ClaimKept, SecondPairOfEyes, Credited, Decided, Idle
    <3> QED BY <3>1, <3>2 DEF SecondPairOfEyes, Approved
  <2>2. CASE \E d \in ManualDeposits :
                /\ ClaimsKept /\ Decided(a)' = d
                /\ desk'[a].at \in {"first", "credit", "reject"}
                /\ desk'[a].at = "credit" /\ requiresDual(d) =>
                      deposit[d].firstApprovedBy \notin {NoAdmin, a}
    <3>1. \A d \in ManualDeposits :
             /\ deposit'[d].firstApprovedBy # NoAdmin => deposit'[d].firstApprovedBy \in approvers'[d]
             /\ Credited(d)' => Approved(d)'
      BY <2>2 DEF ClaimsKept, ClaimKept, SecondPairOfEyes, Credited, Approved
    <3>2. \A b \in Admins \ {a} :
             /\ desk'[b].at = "credit" /\ requiresDual(Decided(b)') =>
                   deposit'[Decided(b)'].firstApprovedBy \notin {NoAdmin, b}
             /\ desk'[b].at = "mark" => Credited(Decided(b))'
      BY <2>F, <2>2, <1>T DEF ClaimsKept, ClaimKept, SecondPairOfEyes, Credited, Decided
    <3>3. /\ desk'[a].at = "credit" /\ requiresDual(Decided(a)') =>
                deposit'[Decided(a)'].firstApprovedBy \notin {NoAdmin, a}
          /\ desk'[a].at # "mark"
      BY <2>2 DEF ClaimsKept, ClaimKept
    <3> QED BY <3>1, <3>2, <3>3 DEF SecondPairOfEyes, Approved
  <2>3. CASE /\ desk'[a] = Idle /\ UNCHANGED posted
             /\ desk[a].at = "first" /\ MayApproveFirst(Decided(a))
             /\ deposit'[Decided(a)].firstApprovedBy = a
             /\ \A e \in Deposits \ {Decided(a)} : deposit'[e] = deposit[e]
             /\ approvers' = [approvers EXCEPT ![Decided(a)] = @ \cup {a}]
    <3>1. PICK d \in ManualDeposits : d = Decided(a)
      BY <2>3, <1>T
    <3>2. /\ approvers'[d] = approvers[d] \cup {a}
          /\ \A e \in ManualDeposits \ {d} : approvers'[e] = approvers[e]
      BY <2>3, <3>1 DEF TypeOK
    <3>3. \A e \in ManualDeposits :
             deposit'[e].firstApprovedBy # NoAdmin => deposit'[e].firstApprovedBy \in approvers'[e]
      BY <2>3, <3>1, <3>2, <1>T DEF SecondPairOfEyes
    <3>4. \A e \in ManualDeposits : Credited(e)' => Approved(e)'
      BY <2>3, <3>2 DEF SecondPairOfEyes, Credited, Approved
    <3>5. \A b \in Admins \ {a} :
             /\ desk'[b].at = "credit" /\ requiresDual(Decided(b)') =>
                   deposit'[Decided(b)'].firstApprovedBy \notin {NoAdmin, b}
             /\ desk'[b].at = "mark" => Credited(Decided(b))'
      <4> SUFFICES ASSUME NEW b \in Admins \ {a}
                   PROVE  /\ desk'[b].at = "credit" /\ requiresDual(Decided(b)') =>
                                deposit'[Decided(b)'].firstApprovedBy \notin {NoAdmin, b}
                          /\ desk'[b].at = "mark" => Credited(Decided(b))'
        OBVIOUS
      <4>1. desk'[b] = desk[b]
        BY <2>F
      <4>2. desk[b].at = "credit" /\ requiresDual(Decided(b)) =>
               deposit[Decided(b)].firstApprovedBy \notin {NoAdmin, b} /\ Decided(b) # d
        BY <2>3, <3>1 DEF SecondPairOfEyes, MayApproveFirst
      <4>3. desk[b].at = "credit" /\ Decided(b) # d => deposit'[Decided(b)] = deposit[Decided(b)]
        BY <2>3, <3>1, <1>T
      <4>4. Decided(b)' = Decided(b)
        BY <4>1 DEF Decided
      <4>5. desk[b].at = "mark" => Credited(Decided(b))
        BY DEF SecondPairOfEyes
      <4>6. desk[b].at = "mark" => Credited(Decided(b))'
        BY <2>3, <4>4, <4>5 DEF Credited
      <4>7. ASSUME desk'[b].at = "credit", requiresDual(Decided(b)')
            PROVE  deposit'[Decided(b)'].firstApprovedBy \notin {NoAdmin, b}
        <5>1. deposit[Decided(b)].firstApprovedBy \notin {NoAdmin, b} /\ Decided(b) # d
          BY <4>1, <4>2, <4>4, <4>7
        <5>2. deposit'[Decided(b)] = deposit[Decided(b)]
          BY <4>1, <4>3, <4>7, <5>1
        <5> QED BY <4>4, <5>1, <5>2
      <4> QED BY <4>1, <4>6, <4>7
    <3>6. desk'[a].at = "idle"
      BY <2>3 DEF Idle
    <3>7. \A b \in Admins :
             /\ desk'[b].at = "credit" /\ requiresDual(Decided(b)') =>
                   deposit'[Decided(b)'].firstApprovedBy \notin {NoAdmin, b}
             /\ desk'[b].at = "mark" => Credited(Decided(b))'
      BY ONLY <3>5, <3>6
    <3> QED BY ONLY <3>3, <3>4, <3>7 DEF SecondPairOfEyes, Approved
  <2>4. CASE /\ desk[a].at = "credit" /\ UNCHANGED deposit
             /\ desk'[a].at = "mark" /\ Decided(a)' = Decided(a)
             /\ posted' = posted \cup {CreditRef(Decided(a))}
             /\ approvers' = [approvers EXCEPT ![Decided(a)] = @ \cup {a}]
    <3>1. PICK d \in ManualDeposits : d = Decided(a)
      BY <2>4, <1>T
    <3>2. /\ approvers'[d] = approvers[d] \cup {a}
          /\ \A e \in ManualDeposits \ {d} : approvers'[e] = approvers[e]
      BY <2>4, <3>1 DEF TypeOK
    <3>3. \A e \in ManualDeposits :
             deposit'[e].firstApprovedBy # NoAdmin => deposit'[e].firstApprovedBy \in approvers'[e]
      BY <2>4, <3>2 DEF SecondPairOfEyes
    <3>4. \A e \in ManualDeposits \ {d} : Credited(e)' => Approved(e)'
      BY <2>4, <3>1, <3>2 DEF SecondPairOfEyes, Credited, Approved, CreditRef
    <3>5. Approved(d)'
      <4>1. requiresDual(d) =>
               /\ deposit[d].firstApprovedBy \in approvers[d]
               /\ deposit[d].firstApprovedBy # a
        BY <2>4, <3>1 DEF SecondPairOfEyes
      <4>2. a \in approvers'[d]
        BY <3>2
      <4>3. requiresDual(d) => approvers'[d] \ {a} # {}
        BY <3>2, <4>1
      <4> QED BY <4>2, <4>3 DEF Approved, requiresDual
    <3>6. \A b \in Admins \ {a} :
             /\ desk'[b].at = "credit" /\ requiresDual(Decided(b)') =>
                   deposit'[Decided(b)'].firstApprovedBy \notin {NoAdmin, b}
             /\ desk'[b].at = "mark" => Credited(Decided(b))'
      BY <2>F, <2>4 DEF SecondPairOfEyes, Credited, Decided
    <3>7. desk'[a].at = "mark" /\ Credited(Decided(a))'
      BY <2>4 DEF Credited
    <3> QED BY <3>3, <3>4, <3>5, <3>6, <3>7 DEF SecondPairOfEyes, Approved
  <2> QED BY <1>2, <2>1, <2>2, <2>3, <2>4, ReviewEffect
<1> QED BY <1>K, <1>1, <1>2, GatewayKeepsClaims

-----------------------------------------------------------------------------
(* A row is marked successful after its posting.                           *)
LEMMA SuccessStep ==
    ASSUME Parameters, TypeOK, Handled, SecondPairOfEyes, SuccessIsCredited, [Next]_vars
    PROVE  SuccessIsCredited'
<1>0. posted \subseteq posted'
  BY PostEffect
  DEF Next, Gateway, Deliver, HandlerStep, Review, vars, CreateDeposit, AttemptFails,
      Capture, OpenVerify, AttachPayment, VerifyLost, Receive, Settle, CreditCaptured,
      MarkCredited, OpenFailed, MarkFailed, HandlerLost, CreateManualDeposit,
      OpenApproval, OpenRejection, MarkFirstApproval, CreditManual,
      MarkManualApproved, MarkManualRejected, DeskLost
<1>S. ASSUME NEW d \in Deposits, NEW st \in {"NONE", "INITIATED", "PENDING", "SUCCESS", "FAILED"},
             deposit' = [deposit EXCEPT ![d].status = st],
             st = "SUCCESS" => Credited(d)
      PROVE  SuccessIsCredited'
  <2>1. deposit'[d].status = st /\ \A e \in Deposits \ {d} : deposit'[e] = deposit[e]
    BY <1>S, StatusEffect
  <2> QED BY <1>0, <1>S, <2>1 DEF SuccessIsCredited, Credited
<1>K. ASSUME UNCHANGED deposit PROVE SuccessIsCredited'
  BY <1>0, <1>K DEF SuccessIsCredited, Credited
<1>1. ASSUME NEW d \in Deposits, CreateDeposit(d) \/ CreateManualDeposit(d) PROVE SuccessIsCredited'
  BY <1>1, <1>S DEF CreateDeposit, CreateManualDeposit, Set
<1>2. ASSUME NEW d \in GatewayDeposits, AttachPayment(d) PROVE SuccessIsCredited'
  BY <1>2, <1>S DEF AttachPayment, Set, Deposits
<1>3. ASSUME NEW h \in Handlers, MarkCredited(h) PROVE SuccessIsCredited'
  <2>1. Current(h) \in Deposits /\ Credited(Current(h))
    BY <1>3, HandlerType DEF MarkCredited, Handled, Deposits
  <2> QED BY <1>3, <2>1, <1>S DEF MarkCredited, Set
<1>4. ASSUME NEW h \in Handlers, MarkFailed(h) PROVE SuccessIsCredited'
  <2>1. Current(h) \in Deposits
    BY <1>4, HandlerType DEF MarkFailed, Deposits
  <2> QED BY <1>4, <2>1, <1>S DEF MarkFailed, Set
<1>5. ASSUME NEW a \in Admins, MarkManualApproved(a) \/ MarkManualRejected(a)
      PROVE  SuccessIsCredited'
  <2> DEFINE d == Decided(a)
  <2>1. d \in Deposits /\ deposit[d] \in Rows
    BY <1>5, DeskType, RowType DEF MarkManualApproved, MarkManualRejected, Deposits
  <2>2. PICK st \in {"NONE", "INITIATED", "PENDING", "SUCCESS", "FAILED"} :
           /\ deposit' = [deposit EXCEPT ![d].status = st]
           /\ st = "SUCCESS" => deposit[d].status = "SUCCESS" \/ desk[a].at = "mark"
    BY <1>5, <2>1 DEF MarkManualApproved, MarkManualRejected, Rows
  <2>3. st = "SUCCESS" => Credited(d)
    BY <2>1, <2>2 DEF SuccessIsCredited, SecondPairOfEyes
  <2> HIDE DEF d
  <2> QED BY <2>1, <2>2, <2>3, <1>S
<1>6. ASSUME NEW a \in Admins, MarkFirstApproval(a) PROVE SuccessIsCredited'
  <2>1. Decided(a) \in ManualDeposits
    BY <1>6, DeskType DEF MarkFirstApproval
  <2>2. \A d \in Deposits : deposit'[d].status = deposit[d].status
    BY <1>6, <2>1, ApproveEffect DEF MarkFirstApproval
  <2> QED BY <1>0, <2>2 DEF SuccessIsCredited, Credited
<1> QED
  BY <1>K, <1>1, <1>2, <1>3, <1>4, <1>5, <1>6
  DEF Next, Gateway, Deliver, HandlerStep, Review, vars, AttemptFails, Capture,
      OpenVerify, VerifyLost, Receive, Settle, CreditCaptured, OpenFailed,
      HandlerLost, OpenApproval, OpenRejection, CreditManual, DeskLost, Deposits

-----------------------------------------------------------------------------
LEMMA DepositInvariant ==
    ASSUME Parameters PROVE Spec => [](DepositInv /\ SuccessIsCredited)
<1>1. Init => DepositInv /\ SuccessIsCredited
  <2> SUFFICES ASSUME Init PROVE DepositInv /\ SuccessIsCredited
    OBVIOUS
  <2>1. NoDeposit \in Rows
    BY DEF NoDeposit, Rows
  <2>2. TypeOK
    BY <2>1 DEF Init, TypeOK, Parameters
  <2>3. \A d \in Deposits : deposit[d].status = "NONE" /\ deposit[d].firstApprovedBy = NoAdmin
    BY DEF Init, NoDeposit
  <2>4. posted = {} /\ emitted = {} /\ handler = [h \in Handlers |-> Idle]
        /\ desk = [a \in Admins |-> Idle]
    BY DEF Init
  <2>5. CapturesPaired /\ Handled
    BY <2>4 DEF CapturesPaired, Handled, Idle
  <2>6. Claimed /\ SecondPairOfEyes /\ SuccessIsCredited
    BY <2>3, <2>4
    DEF Claimed, SecondPairOfEyes, SuccessIsCredited, Credited, Idle, Deposits
  <2> QED BY <2>2, <2>5, <2>6 DEF DepositInv
<1>2. DepositInv /\ SuccessIsCredited /\ [Next]_vars => (DepositInv /\ SuccessIsCredited)'
  BY TypeStep, CapturesStep, HandledStep, ClaimedStep, ApprovalsStep, SuccessStep
  DEF DepositInv
<1> QED BY <1>1, <1>2, PTL DEF Spec

(* Every deposit that is credited is one that handleWebhook saw captured   *)
(* in full, or one that approveManualDeposit had from enough admins.       *)
LEMMA BackedGateway ==
    ASSUME Parameters, TypeOK, CapturesPaired, Handled,
           \A d \in GatewayDeposits : Credited(d) => Captured(d, TRUE), [Next]_vars
    PROVE  \A d \in GatewayDeposits : Credited(d)' => Captured(d, TRUE)'
<1>0. emitted \subseteq emitted'
  BY CapturesStep
<1>1. ASSUME NEW h \in Handlers, CreditCaptured(h), NEW d \in GatewayDeposits, Credited(d)'
      PROVE  Captured(d, TRUE)
  <2>1. posted' = posted \cup {CreditRef(Current(h))}
    BY <1>1, PostEffect DEF CreditCaptured
  <2>2. Credited(d) \/ d = Current(h)
    BY <1>1, <2>1 DEF Credited, CreditRef
  <2>3. /\ handler[h].event \in recorded /\ handler[h].event.type # "failed"
        /\ handler[h].event.exact
    BY <1>1 DEF CreditCaptured, Handled, Idle
  <2>4. handler[h].event \in emitted /\ handler[h].event.exact = TRUE
    BY <2>3, HandlerType, <1>1 DEF TypeOK, Events, CreditCaptured
  <2>5. Captured(Current(h), TRUE)
    BY <2>3, <2>4 DEF CapturesPaired, Current
  <2> QED BY <2>2, <2>5
<1>2. ASSUME NEW a \in Admins, CreditManual(a), NEW d \in GatewayDeposits, Credited(d)'
      PROVE  Credited(d)
  <2>1. posted' = posted \cup {CreditRef(Decided(a))} /\ Decided(a) \in ManualDeposits
    BY <1>2, PostEffect, DeskType DEF CreditManual
  <2> QED BY <1>2, <2>1 DEF Credited, CreditRef, Parameters
<1>3. \/ UNCHANGED posted
      \/ \E h \in Handlers : CreditCaptured(h)
      \/ \E a \in Admins : CreditManual(a)
  BY DEF Next, Gateway, Deliver, HandlerStep, Review, vars, CreateDeposit, AttemptFails,
         Capture, OpenVerify, AttachPayment, VerifyLost, Receive, Settle,
         MarkCredited, OpenFailed, MarkFailed, HandlerLost, CreateManualDeposit,
         OpenApproval, OpenRejection, MarkFirstApproval,
         MarkManualApproved, MarkManualRejected, DeskLost
<1> QED BY <1>0, <1>1, <1>2, <1>3 DEF Credited, Captured

LEMMA EnoughApprovals ==
    ASSUME Parameters, TypeOK, SecondPairOfEyes, NEW d \in ManualDeposits, Credited(d)
    PROVE  Cardinality(approvers[d]) >= IF requiresDual(d) THEN 2 ELSE 1
<1>1. PICK a \in approvers[d] : requiresDual(d) => approvers[d] \ {a} # {}
  BY DEF SecondPairOfEyes
<1>2. approvers[d] \in SUBSET Admins /\ IsFiniteSet(approvers[d])
  BY FS_Subset DEF TypeOK, Parameters
<1>3. Cardinality(approvers[d]) \in Nat /\ IsFiniteSet(approvers[d] \ {a})
      /\ Cardinality(approvers[d] \ {a}) = Cardinality(approvers[d]) - 1
      /\ Cardinality(approvers[d] \ {a}) \in Nat
  BY <1>1, <1>2, FS_RemoveElement, FS_CardinalityType
<1>4. requiresDual(d) => Cardinality(approvers[d] \ {a}) # 0
  BY <1>1, <1>3, FS_EmptySet
<1> QED BY <1>3, <1>4

-----------------------------------------------------------------------------
(* handleWebhook, verifyPayment and the two approvals credit no deposit    *)
(* without a full capture, or without one approval, or two of different    *)
(* admins above the threshold, in any order and with any failures.         *)
THEOREM CreditsAreBacked ==
    ASSUME Parameters PROVE Spec => []CreditIsBacked
<1> DEFINE Paired == \A d \in GatewayDeposits : Credited(d) => Captured(d, TRUE)
<1>1. Init => Paired
  BY DEF Init, Credited
<1>2. DepositInv /\ Paired /\ [Next]_vars => Paired'
  BY BackedGateway DEF DepositInv
<1>3. DepositInv /\ Paired => CreditIsBacked
  BY EnoughApprovals DEF DepositInv, CreditIsBacked
<1> HIDE DEF Paired
<1> QED BY <1>1, <1>2, <1>3, DepositInvariant, PTL DEF Spec

(* createManualDeposit accepts a transfer's reference once, so that no two *)
(* claims to it are credited.                                              *)
THEOREM OneCreditPerTransfer ==
    ASSUME Parameters PROVE Spec => []TransferCreditedOnce
<1>1. DepositInv => TransferCreditedOnce
  BY DEF DepositInv, Claimed, TransferCreditedOnce
<1> QED BY <1>1, DepositInvariant, PTL

(* Whichever handler or admin wrote a row last, a successful one was       *)
(* credited.                                                               *)
THEOREM ShownDepositsMoved ==
    ASSUME Parameters PROVE Spec => []ShownIsMoved
<1>1. DepositInv /\ SuccessIsCredited => ShownIsMoved
  BY DEF DepositInv, ShownIsMoved
<1> QED BY <1>1, DepositInvariant, PTL
=============================================================================
