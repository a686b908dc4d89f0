------------------------------ MODULE Deposit ------------------------------
(***************************************************************************)
(* INR deposits (backend/src/modules/deposit/): deposits through the       *)
(* payment gateway, credited by its webhooks, and manual bank transfers,   *)
(* credited by admins under maker-checker.                                 *)
(*                                                                         *)
(* The gateway is external: it reports a failed attempt, and a capture by  *)
(* two events (payment.captured and order.paid), and delivers each event   *)
(* any number of times, in any order, to several handlers at once.         *)
(***************************************************************************)
EXTENDS LedgerCalls

CONSTANTS
    GatewayDeposits,    \* deposits paid through the gateway
    ManualDeposits,     \* deposits claimed with the reference of a transfer
    Amount,             \* the amount of each
    Utr,                \* of each manual deposit: the reference it claims
    Owner,              \* the user
    DualThreshold,      \* config.inrOps.dualApprovalThreshold
    Admins,             \* the reviewers
    NoAdmin,            \* a null firstApprovedBy
    Handlers,           \* webhook deliveries handled at once
    Overlap,            \* whether handlers, verifications and reviews overlap
    MaxFailures         \* bound: database errors and lost processes

Asset == "INR"
Deposits == GatewayDeposits \cup ManualDeposits

(* What an instance must assume of the parameters.                         *)
Parameters ==
    /\ Asset \in Assets /\ Owner \in Users /\ NoAdmin \notin Admins
    /\ {"GATEWAY_CLEARING", "MANUAL_BANK_CLEARING"} \subseteq SystemKinds
    /\ GatewayDeposits \cap ManualDeposits = {}
    /\ \A d \in Deposits : Amount[d] \in Nat \ {0}
    /\ IsFiniteSet(Admins) /\ MaxFailures \in Nat

VARIABLES
    deposit,        \* inr_transactions: status and first approver
    recorded,       \* payment_webhook_events: the events inserted
    emitted,        \* the events the gateway delivers
    handler,        \* per handler: the delivery it processes
    verify,         \* per deposit: the verifyPayment call under way
    desk,           \* per admin: the decision under way
    approvers,      \* history: the admins whose approval took effect
    lost            \* database errors and lost processes so far

vars == <<balance, posted, deposit, recorded, emitted, handler, verify, desk,
          approvers, lost>>

NoDeposit == [status |-> "NONE", firstApprovedBy |-> NoAdmin]

Idle == [at |-> "idle"]

Events == [deposit : GatewayDeposits, type : {"captured", "paid", "failed"},
           exact : BOOLEAN]

Init ==
    /\ balance = [name \in Accounts |-> 0]
    /\ posted = {}
    /\ deposit = [d \in Deposits |-> NoDeposit]
    /\ recorded = {}
    /\ emitted = {}
    /\ handler = [h \in Handlers |-> Idle]
    /\ verify = [d \in GatewayDeposits |-> "idle"]
    /\ desk = [a \in Admins |-> Idle]
    /\ approvers = [d \in ManualDeposits |-> {}]
    /\ lost = 0

Set(d, status) == deposit' = [deposit EXCEPT ![d].status = status]

CreditRef(d) == <<"DEPOSIT", d>>

CreditLines(d) ==
    <<Debit(System(IF d \in GatewayDeposits THEN "GATEWAY_CLEARING"
                   ELSE "MANUAL_BANK_CLEARING", Asset), Amount[d]),
      Credit(Available(Owner, Asset), Amount[d])>>

Quiet ==
    /\ \A h \in Handlers : handler[h] = Idle
    /\ \A d \in GatewayDeposits : verify[d] = "idle"
    /\ \A a \in Admins : desk[a] = Idle

MayStart == Overlap \/ Quiet

-----------------------------------------------------------------------------
(* createDeposit, and what happens at the gateway meanwhile: an attempt to *)
(* pay the order fails, or the order is paid, once, for its amount or not. *)
CreateDeposit(d) ==
    /\ deposit[d].status = "NONE"
    /\ Set(d, "INITIATED")
    /\ UNCHANGED <<balance, posted, recorded, emitted, handler, verify, desk,
                   approvers, lost>>

Captured(d, exact) == [deposit |-> d, type |-> "captured", exact |-> exact] \in emitted
Paid(d) == \E exact \in BOOLEAN : Captured(d, exact)
FailedEvent(d) == [deposit |-> d, type |-> "failed", exact |-> TRUE]

AttemptFails(d) ==
    /\ deposit[d].status # "NONE" /\ ~Paid(d)
    /\ emitted' = emitted \cup {FailedEvent(d)}
    /\ UNCHANGED <<balance, posted, deposit, recorded, handler, verify, desk,
                   approvers, lost>>

Capture(d) ==
    /\ deposit[d].status # "NONE" /\ ~Paid(d)
    /\ \E exact \in BOOLEAN :
          emitted' = emitted \cup [deposit : {d}, type : {"captured", "paid"},
                                   exact : {exact}]
    /\ UNCHANGED <<balance, posted, deposit, recorded, handler, verify, desk,
                   approvers, lost>>

(* verifyPayment: the row as it was read decides, the update does not.     *)
OpenVerify(d) ==
    /\ verify[d] = "idle" /\ Paid(d) /\ MayStart
    /\ deposit[d].status = "INITIATED"
    /\ verify' = [verify EXCEPT ![d] = "attach"]
    /\ UNCHANGED <<balance, posted, deposit, recorded, emitted, handler, desk,
                   approvers, lost>>

AttachPayment(d) ==
    /\ verify[d] = "attach"
    /\ Set(d, "PENDING")
    /\ verify' = [verify EXCEPT ![d] = "idle"]
    /\ UNCHANGED <<balance, posted, recorded, emitted, handler, desk, approvers,
                   lost>>

-----------------------------------------------------------------------------
(* handleWebhook.  A redelivery finds the event recorded and does nothing. *)
GoHandler(h, x) == handler' = [handler EXCEPT ![h] = x]
Current(h) == handler[h].event.deposit

Receive(h, e) ==
    /\ handler[h] = Idle /\ MayStart
    /\ e \notin recorded
    /\ recorded' = recorded \cup {e}
    /\ GoHandler(h, [at |-> IF e.type = "failed" THEN "failing" ELSE "settle",
                     event |-> e])
    /\ UNCHANGED <<balance, posted, deposit, emitted, verify, desk, approvers,
                   lost>>

(* Mutant: only a deposit the browser has not verified yet is settled.     *)
SettleUnverified(h) ==
    /\ handler[h].at = "settle"
    /\ GoHandler(h, IF deposit[Current(h)].status # "INITIATED" THEN Idle
                    ELSE [handler[h] EXCEPT !.at =
                             IF handler[h].event.exact THEN "credit" ELSE "fail"])
    /\ UNCHANGED <<balance, posted, deposit, recorded, emitted, verify, desk,
                   approvers, lost>>

(* settleCapturedPayment up to its first write.                            *)
Settle(h) ==
    /\ handler[h].at = "settle"
    /\ \/ deposit[Current(h)].status \in {"SUCCESS", "FAILED"} /\ GoHandler(h, Idle)
       \/ /\ deposit[Current(h)].status \notin {"SUCCESS", "FAILED"}
          /\ GoHandler(h, [handler[h] EXCEPT !.at =
                 IF handler[h].event.exact THEN "credit" ELSE "fail"])
    /\ UNCHANGED <<balance, posted, deposit, recorded, emitted, verify, desk,
                   approvers, lost>>

(* Mutant: the deposit is marked credited although the posting failed.     *)
CreditCapturedSwallowed(h) ==
    /\ handler[h].at = "credit"
    /\ Post(CreditRef(Current(h)), CreditLines(Current(h))) \/ UNCHANGED ledger
    /\ GoHandler(h, [handler[h] EXCEPT !.at = "mark"])
    /\ UNCHANGED <<deposit, recorded, emitted, verify, desk, approvers, lost>>

CreditCaptured(h) ==
    /\ handler[h].at = "credit"
    /\ Post(CreditRef(Current(h)), CreditLines(Current(h)))
    /\ GoHandler(h, [handler[h] EXCEPT !.at = "mark"])
    /\ UNCHANGED <<deposit, recorded, emitted, verify, desk, approvers, lost>>

MarkCredited(h) ==
    /\ handler[h].at = "mark"
    /\ Set(Current(h), "SUCCESS")
    /\ GoHandler(h, Idle)
    /\ UNCHANGED <<balance, posted, recorded, emitted, verify, desk, approvers,
                   lost>>

(* markPaymentFailed: "Never override a successful credit".                *)
OpenFailed(h) ==
    /\ handler[h].at = "failing"
    /\ GoHandler(h, IF deposit[Current(h)].status = "SUCCESS" THEN Idle
                    ELSE [handler[h] EXCEPT !.at = "fail"])
    /\ UNCHANGED <<balance, posted, deposit, recorded, emitted, verify, desk,
                   approvers, lost>>

MarkFailed(h) ==
    /\ handler[h].at = "fail"
    /\ Set(Current(h), "FAILED")
    /\ GoHandler(h, Idle)
    /\ UNCHANGED <<balance, posted, recorded, emitted, verify, desk, approvers,
                   lost>>

-----------------------------------------------------------------------------
(* Mutant: a reference may be claimed again once its claim is closed.      *)
UtrClaimedOpen(d) ==
    \E e \in ManualDeposits : Utr[e] = Utr[d] /\ deposit[e].status = "PENDING"

(* createManualDeposit: the unique index on (provider, utr) refuses a      *)
(* reference claimed before, whatever became of the claim.                 *)
UtrClaimed(d) ==
    \E e \in ManualDeposits : Utr[e] = Utr[d] /\ deposit[e].status # "NONE"

CreateManualDeposit(d) ==
    /\ deposit[d].status = "NONE"
    /\ ~UtrClaimed(d)
    /\ Set(d, "PENDING")
    /\ UNCHANGED <<balance, posted, recorded, emitted, handler, verify, desk,
                   approvers, lost>>

GoDesk(a, x) == desk' = [desk EXCEPT ![a] = x]
Decided(a) == desk[a].deposit

requiresDual(d) == Amount[d] >= DualThreshold

(* approveManualDeposit up to its first write: a first approval, or the    *)
(* credit of a single or second one.                                       *)
OpenApproval(a, d) ==
    /\ desk[a] = Idle /\ MayStart
    /\ deposit[d].status = "PENDING"
    /\ ~(requiresDual(d) /\ deposit[d].firstApprovedBy = a)
    /\ GoDesk(a, [deposit |-> d,
                  at |-> IF requiresDual(d) /\ deposit[d].firstApprovedBy = NoAdmin
                         THEN "first" ELSE "credit"])
    /\ UNCHANGED <<balance, posted, deposit, recorded, emitted, handler, verify,
                   approvers, lost>>

MayApproveFirst(d) ==
    deposit[d].status = "PENDING" /\ deposit[d].firstApprovedBy = NoAdmin

MarkFirstApproval(a) ==
    LET d == Decided(a) IN
    /\ desk[a].at = "first"
    /\ \/ /\ MayApproveFirst(d)
          /\ deposit' = [deposit EXCEPT ![d].firstApprovedBy = a]
          /\ approvers' = [approvers EXCEPT ![d] = @ \cup {a}]
       \/ ~MayApproveFirst(d) /\ UNCHANGED <<deposit, approvers>>
    /\ GoDesk(a, Idle)
    /\ UNCHANGED <<balance, posted, recorded, emitted, handler, verify, lost>>

CreditManual(a) ==
    LET d == Decided(a) IN
    /\ desk[a].at = "credit"
    /\ Post(CreditRef(d), CreditLines(d))
    /\ approvers' = [approvers EXCEPT ![d] = @ \cup {a}]
    /\ GoDesk(a, [desk[a] EXCEPT !.at = "mark"])
    /\ UNCHANGED <<deposit, recorded, emitted, handler, verify, lost>>

MarkManualApproved(a) ==
    /\ desk[a].at = "mark"
    /\ deposit' = [deposit EXCEPT ![Decided(a)].status =
                       IF @ = "PENDING" THEN "SUCCESS" ELSE @]
    /\ GoDesk(a, Idle)
    /\ UNCHANGED <<balance, posted, recorded, emitted, handler, verify,
                   approvers, lost>>

OpenRejection(a, d) ==
    /\ desk[a] = Idle /\ MayStart
    /\ deposit[d].status = "PENDING"
    /\ GoDesk(a, [deposit |-> d, at |-> "reject"])
    /\ UNCHANGED <<balance, posted, deposit, recorded, emitted, handler, verify,
                   approvers, lost>>

MarkManualRejected(a) ==
    /\ desk[a].at = "reject"
    /\ deposit' = [deposit EXCEPT ![Decided(a)].status =
                       IF @ = "PENDING" THEN "FAILED" ELSE @]
    /\ GoDesk(a, Idle)
    /\ UNCHANGED <<balance, posted, recorded, emitted, handler, verify,
                   approvers, lost>>

-----------------------------------------------------------------------------
(* A delivery, a verification or a decision is lost with its process, or   *)
(* with an error of one of its steps.                                      *)
Failure == lost < MaxFailures /\ lost' = lost + 1

HandlerLost(h) ==
    /\ Failure
    /\ handler[h] # Idle
    /\ GoHandler(h, Idle)
    /\ UNCHANGED <<balance, posted, deposit, recorded, emitted, verify, desk,
                   approvers>>

VerifyLost(d) ==
    /\ Failure
    /\ verify[d] = "attach"
    /\ verify' = [verify EXCEPT ![d] = "idle"]
    /\ UNCHANGED <<balance, posted, deposit, recorded, emitted, handler, desk,
                   approvers>>

DeskLost(a) ==
    /\ Failure
    /\ desk[a] # Idle
    /\ GoDesk(a, Idle)
    /\ UNCHANGED <<balance, posted, deposit, recorded, emitted, handler, verify,
                   approvers>>

HandlerStep(h) ==
    Settle(h) \/ CreditCaptured(h) \/ MarkCredited(h) \/ OpenFailed(h)
        \/ MarkFailed(h)

Deliver(e) == e \in emitted /\ \E h \in Handlers : Receive(h, e)

Gateway(d) ==
    CreateDeposit(d) \/ AttemptFails(d) \/ Capture(d) \/ OpenVerify(d)
        \/ AttachPayment(d) \/ VerifyLost(d)

Review(a) ==
    \/ \E d \in ManualDeposits : OpenApproval(a, d) \/ OpenRejection(a, d)
    \/ MarkFirstApproval(a) \/ CreditManual(a) \/ MarkManualApproved(a)
    \/ MarkManualRejected(a) \/ DeskLost(a)

Next ==
    \/ \E d \in GatewayDeposits : Gateway(d)
    \/ \E e \in emitted : Deliver(e)
    \/ \E h \in Handlers : HandlerStep(h) \/ HandlerLost(h)
    \/ \E d \in ManualDeposits : CreateManualDeposit(d)
    \/ \E a \in Admins : Review(a)

Spec == Init /\ [][Next]_vars

-----------------------------------------------------------------------------
Rows ==
    [status : {"NONE", "INITIATED", "PENDING", "SUCCESS", "FAILED"},
     firstApprovedBy : Admins \cup {NoAdmin}]

Deliveries ==
    [at : {"settle", "credit", "mark", "failing", "fail"}, event : Events]

Decisions ==
    [at : {"first", "credit", "mark", "reject"}, deposit : ManualDeposits]

TypeOK ==
    /\ balance \in [Accounts -> Int]
    /\ posted \subseteq {"DEPOSIT"} \X Deposits
    /\ deposit \in [Deposits -> Rows]
    /\ recorded \subseteq emitted /\ emitted \subseteq Events
    /\ handler \in [Handlers -> {Idle} \cup Deliveries]
    /\ verify \in [GatewayDeposits -> {"idle", "attach"}]
    /\ desk \in [Admins -> {Idle} \cup Decisions]
    /\ approvers \in [ManualDeposits -> SUBSET Admins]
    /\ lost \in 0..MaxFailures

Credited(d) == CreditRef(d) \in posted

(* Money appears only for a payment the gateway captured in full, or a     *)
(* transfer an admin approved, two different ones above the threshold.     *)
CreditIsBacked ==
    /\ \A d \in GatewayDeposits : Credited(d) => Captured(d, TRUE)
    /\ \A d \in ManualDeposits :
          Credited(d) => Cardinality(approvers[d]) >= IF requiresDual(d) THEN 2 ELSE 1

(* One transfer is credited once, however often its reference is claimed.  *)
TransferCreditedOnce ==
    \A d, e \in ManualDeposits :
        Credited(d) /\ Credited(e) /\ Utr[d] = Utr[e] => d = e

(* A deposit shown as successful was credited, whichever of the handlers   *)
(* and admins wrote the row last.                                          *)
SuccessIsCredited ==
    \A d \in Deposits : deposit[d].status = "SUCCESS" => Credited(d)

ShownIsMoved == TypeOK /\ SuccessIsCredited

(* Why: a capture is reported by two events that agree; a handler acts on  *)
(* an event it recorded, and credits and marks one of a full capture.      *)
CapturesPaired ==
    \A e \in emitted : e.type # "failed" => Captured(e.deposit, e.exact)

Handled ==
    \A h \in Handlers :
        /\ handler[h] # Idle => handler[h].event \in recorded
        /\ handler[h].at \in {"settle", "credit", "mark"} => handler[h].event.type # "failed"
        /\ handler[h].at \in {"credit", "mark"} => handler[h].event.exact
        /\ handler[h].at = "mark" => Credited(Current(h))

(* A claim is under review, or credited, only once it was made, and no     *)
(* other claim of its transfer is ever made.                               *)
Claimed ==
    /\ \A a \in Admins : desk[a] # Idle => deposit[Decided(a)].status # "NONE"
    /\ \A d \in ManualDeposits : Credited(d) => deposit[d].status # "NONE"
    /\ \A d, e \in ManualDeposits :
          deposit[d].status # "NONE" /\ deposit[e].status # "NONE" /\ Utr[d] = Utr[e]
              => d = e

(* A first approval stays, and a second one is of another admin.           *)
SecondPairOfEyes ==
    /\ \A d \in ManualDeposits :
          /\ deposit[d].firstApprovedBy # NoAdmin => deposit[d].firstApprovedBy \in approvers[d]
          /\ Credited(d) =>
                \E a \in approvers[d] : requiresDual(d) => approvers[d] \ {a} # {}
    /\ \A a \in Admins :
          /\ desk[a].at = "credit" /\ requiresDual(Decided(a)) =>
                deposit[Decided(a)].firstApprovedBy \notin {NoAdmin, a}
          /\ desk[a].at = "mark" => Credited(Decided(a))

DepositInv == TypeOK /\ CapturesPaired /\ Handled /\ Claimed /\ SecondPairOfEyes

Successful ==
    MapThenSumSet(LAMBDA d : Amount[d],
                  {d \in Deposits : deposit[d].status = "SUCCESS"})

(* "Never override a successful credit with a late failure event."         *)
SuccessIsFinal ==
    [][\A d \in Deposits :
          deposit[d].status = "SUCCESS" => deposit'[d].status = "SUCCESS"]_vars

(* A captured payment reaches the user whether or not the browser reports  *)
(* it, if no attempt on its order failed before.                           *)
CapturedIsCredited ==
    \A d \in GatewayDeposits :
        Captured(d, TRUE) /\ FailedEvent(d) \notin emitted ~> Credited(d)
=============================================================================
