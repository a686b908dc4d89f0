--------------------------- MODULE MasterDeposit ---------------------------
(***************************************************************************)
(* Crypto deposits to the master wallet (backend/src/modules/              *)
(* crypto-deposit/): a user submits the hash of a transaction, the         *)
(* verifier reads it from the chain, and it is credited once it has the    *)
(* required confirmations.  A resubmission and an admin's recheck verify   *)
(* it again.  master_wallet_deposits is unique on (chain, tx_hash): a      *)
(* transfer stands for its row.                                            *)
(***************************************************************************)
EXTENDS LedgerCalls, Blockchain

CONSTANTS
    Amount,             \* the amount each transaction pays the master wallet
    Callers,            \* the users that submit hashes
    Admin,              \* the admin that rechecks deposits
    NoOwner,            \* of a hash nobody submitted
    Required,           \* minConfirmations of the network
    CalmReorgs,         \* whether the chain is reorganised between calls only
    MaxFailures         \* bound: errors of the provider and lost calls

Asset == "USDT"

(* What an instance must assume of the parameters: a transaction that pays *)
(* the master wallet nothing has no transfer to it.                        *)
Parameters ==
    /\ Asset \in Assets /\ "SWEEP_CLEARING" \in SystemKinds
    /\ Callers \subseteq Users /\ Admin \notin Users /\ NoOwner \notin Users
    /\ \A t \in Transfers : Amount[t] \in Nat
    /\ Required \in Nat /\ Required < Final

VARIABLES
    claim,          \* master_wallet_deposits: who submitted each hash, its status
    call,           \* per caller: the step of the call under way
    failures        \* errors of the provider and lost calls so far

claimVars == <<claim, call, failures>>
vars == <<blockchain, ledger, claimVars>>

Idle == [at |-> "idle"]
NoClaim == [owner |-> NoOwner, status |-> "NONE"]

InitClaims ==
    /\ claim = [t \in Transfers |-> NoClaim]
    /\ call = [c \in Callers \cup {Admin} |-> Idle]
    /\ failures = 0

Go(c, x) == call' = [call EXCEPT ![c] = x]
At(c, step) == call[c].at = step
Hash(c) == call[c].hash

-----------------------------------------------------------------------------
(* handleExisting and the first line of verifyAndProcess, with the row as  *)
(* it is read: another user's hash is answered as a duplicate, and a       *)
(* confirmed deposit is returned as it is.                                 *)
Existing(c, t) ==
    Go(c, IF claim[t].status = "CONFIRMED" \/ (c # Admin /\ claim[t].owner # c)
          THEN Idle ELSE [at |-> "receipt", hash |-> t])

(* submit and adminRecheck up to the verification: the lookup by hash.     *)
Submit(c, t) ==
    /\ call[c] = Idle
    /\ \/ claim[t] # NoClaim /\ Existing(c, t)
       \/ claim[t] = NoClaim /\ c # Admin /\ Go(c, [at |-> "create", hash |-> t])
    /\ UNCHANGED <<blockchain, ledger, claim, failures>>

(* Mutant: the row goes to whoever submits the hash last.                  *)
CreateAnyway(c) ==
    /\ At(c, "create")
    /\ claim' = [claim EXCEPT ![Hash(c)] = [owner |-> c, status |-> "SUBMITTED"]]
    /\ Go(c, [at |-> "receipt", hash |-> Hash(c)])
    /\ UNCHANGED <<blockchain, ledger, failures>>

(* The unique index decides between two first submissions.                 *)
Create(c) ==
    /\ At(c, "create")
    /\ \/ /\ claim[Hash(c)] = NoClaim
          /\ claim' = [claim EXCEPT ![Hash(c)] = [owner |-> c, status |-> "SUBMITTED"]]
          /\ Go(c, [at |-> "receipt", hash |-> Hash(c)])
       \/ claim[Hash(c)] # NoClaim /\ Existing(c, Hash(c)) /\ UNCHANGED claim
    /\ UNCHANGED <<blockchain, ledger, failures>>

-----------------------------------------------------------------------------
(* The verifier reads the receipt and the head, then decides.              *)
ReadReceipt(c) ==
    LET t == Hash(c) IN
    /\ At(c, "receipt")
    /\ Go(c, [at |-> "tip", hash |-> t, block |-> IF OnChain(t) THEN BlockOf(t) ELSE 0])
    /\ UNCHANGED <<blockchain, ledger, claim, failures>>

evaluateEvmReceipt(t, block) ==
    IF block = 0 THEN "PENDING_CONFIRMATION"
    ELSE IF Amount[t] = 0 THEN "REJECTED"
    ELSE IF head - block >= Required THEN "CONFIRMED" ELSE "PENDING_CONFIRMATION"

ReadTip(c) ==
    LET outcome == evaluateEvmReceipt(Hash(c), call[c].block) IN
    /\ At(c, "tip")
    /\ Go(c, IF outcome = "CONFIRMED" THEN [at |-> "credit", hash |-> Hash(c)]
             ELSE [at |-> "update", hash |-> Hash(c), status |-> outcome])
    /\ UNCHANGED <<blockchain, ledger, claim, failures>>

(* An error of the provider is an outcome of its own.                      *)
ProviderError(c) ==
    /\ At(c, "receipt") \/ At(c, "tip")
    /\ failures < MaxFailures
    /\ failures' = failures + 1
    /\ Go(c, [at |-> "update", hash |-> Hash(c), status |-> "FAILED"])
    /\ UNCHANGED <<blockchain, ledger, claim>>

(* The outcome is written whatever the row has become meanwhile.           *)
Update(c) ==
    /\ At(c, "update")
    /\ claim' = [claim EXCEPT ![Hash(c)].status = call[c].status]
    /\ Go(c, Idle)
    /\ UNCHANGED <<blockchain, ledger, failures>>

CreditRef(t) == <<"MASTER_WALLET_DEPOSIT", t>>

CreditLines(t) ==
    <<Debit(System("SWEEP_CLEARING", Asset), Amount[t]),
      Credit(Available(claim[t].owner, Asset), Amount[t])>>

creditDeposit(c) ==
    /\ At(c, "credit")
    /\ Post(CreditRef(Hash(c)), CreditLines(Hash(c)))
    /\ Go(c, [call[c] EXCEPT !.at = "mark"])
    /\ UNCHANGED <<blockchain, claim, failures>>

markCredited(c) ==
    /\ At(c, "mark")
    /\ claim' = [claim EXCEPT ![Hash(c)].status = "CONFIRMED"]
    /\ Go(c, Idle)
    /\ UNCHANGED <<blockchain, ledger, failures>>

-----------------------------------------------------------------------------
(* The process is lost, or a step fails: the row stays as it is.           *)
CallLost(c) ==
    /\ failures < MaxFailures
    /\ call[c] # Idle
    /\ failures' = failures + 1
    /\ Go(c, Idle)
    /\ UNCHANGED <<blockchain, ledger, claim>>

Quiet == \A c \in DOMAIN call : call[c] = Idle

Step(c) ==
    \/ \E t \in Transfers : Submit(c, t)
    \/ Create(c) \/ ReadReceipt(c) \/ ReadTip(c) \/ ProviderError(c) \/ Update(c)
    \/ creditDeposit(c) \/ markCredited(c) \/ CallLost(c)

Init ==
    /\ InitBlockchain
    /\ balance = [name \in Accounts |-> 0]
    /\ posted = {}
    /\ InitClaims

Next ==
    \/ Mine /\ UNCHANGED <<ledger, claimVars>>
    \/ (CalmReorgs => Quiet) /\ Reorganise /\ UNCHANGED <<ledger, claimVars>>
    \/ \E c \in Callers \cup {Admin} : Step(c)

Spec == Init /\ [][Next]_vars

-----------------------------------------------------------------------------
TypeOK ==
    /\ claim \in [Transfers -> [owner : Callers \cup {NoOwner},
                                status : {"NONE", "SUBMITTED", "PENDING_CONFIRMATION",
                                          "CONFIRMED", "REJECTED", "FAILED"}]]
    /\ posted \subseteq {"MASTER_WALLET_DEPOSIT"} \X Transfers
    /\ failures \in 0..MaxFailures

(* Together the users have no more money than what the confirmed           *)
(* transactions paid the master wallet: each is credited to one user,      *)
(* once, however often and by whomever it is submitted.                    *)
CreditedOnChain ==
    MapThenSumSet(LAMBDA u : balance[Available(u, Asset)], Users)
        <= MapThenSumSet(LAMBDA t : Amount[t],
                         {t \in Transfers : Depth(t) > Required})

(* The money of a credited transaction is its owner's.                     *)
CreditedToOwner ==
    \A u \in Users :
        balance[Available(u, Asset)] =
            MapThenSumSet(LAMBDA t : Amount[t],
                          {t \in Transfers : CreditRef(t) \in posted /\ claim[t].owner = u})

(* A deposit shown as confirmed was credited.                              *)
ConfirmedIsCredited ==
    \A t \in Transfers : claim[t].status = "CONFIRMED" => CreditRef(t) \in posted
=============================================================================
