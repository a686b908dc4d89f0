------------------------------ MODULE Postings ------------------------------
(***************************************************************************)
(* The vocabulary of the double-entry ledger                               *)
(* (backend/src/modules/ledger/ledger.service.ts, ledger.repository.ts):   *)
(* accounts, posting lines, the balance check every posting passes, and    *)
(* the effect of a posting on the account_balances projection.  Every      *)
(* module that moves money builds its postings from these operators.       *)
(*                                                                         *)
(* Amounts are integers: the code computes with exact decimals, and a      *)
(* model fixes the smallest unit it needs.                                 *)
(***************************************************************************)
EXTENDS Integers, Sequences, FiniteSets, FiniteSetsExt

CONSTANTS
    Users,          \* the users that own accounts
    Assets,         \* the assets of the ledger
    SystemKinds,    \* the account kinds that belong to the exchange itself
    NoUser          \* the null user id of a system account

UserKinds == {"USER_AVAILABLE", "USER_LOCKED"}

(* What a line may name: any pairing of an owner, a kind and an asset.     *)
AccountNames ==
    [owner : Users \cup {NoUser}, kind : UserKinds \cup SystemKinds,
     asset : Assets]

isUserAccount(name) == name.kind \in UserKinds

(* User kinds require a user, system kinds must not have one.              *)
Accounts ==
    {name \in AccountNames : isUserAccount(name) <=> name.owner \in Users}

ASSUME KindsAssumption ==
    /\ NoUser \notin Users
    /\ UserKinds \cap SystemKinds = {}

Available(u, x) == [owner |-> u, kind |-> "USER_AVAILABLE", asset |-> x]
Locked(u, x) == [owner |-> u, kind |-> "USER_LOCKED", asset |-> x]
System(k, x) == [owner |-> NoUser, kind |-> k, asset |-> x]

Debit(name, n) == [account |-> name, direction |-> "DEBIT", amount |-> n]
Credit(name, n) == [account |-> name, direction |-> "CREDIT", amount |-> n]

Signed(line) == IF line.direction = "CREDIT" THEN line.amount
                                             ELSE -line.amount

(* Mutant: the per-asset totals are never compared with zero.              *)
BalancedWithoutTotals(lines) ==
    /\ Len(lines) >= 2
    /\ \A i \in DOMAIN lines : lines[i].amount > 0

CreditsEqualDebits(lines) ==
    \A x \in {lines[i].account.asset : i \in DOMAIN lines} :
        MapThenSumSet(LAMBDA i : Signed(lines[i]),
                      {i \in DOMAIN lines : lines[i].account.asset = x}) = 0

(* At least two lines, positive amounts, credits equal debits per asset.   *)
assertPostingBalanced(lines) ==
    /\ Len(lines) >= 2
    /\ \A i \in DOMAIN lines : lines[i].amount > 0
    /\ CreditsEqualDebits(lines)

AccountsOf(lines) == {lines[i].account : i \in DOMAIN lines}

WellFormed(lines) == AccountsOf(lines) \subseteq Accounts

(* The postings the callers build name each account at most once.          *)
DistinctAccounts(lines) ==
    \A i, j \in DOMAIN lines : lines[i].account = lines[j].account => i = j

(* Mutant: the guard of debitBalance compares nothing.                     *)
MayApplyUnguarded(bal, line) == line.account \in DOMAIN bal

(* The guard of debitBalance: only a system account may go negative.       *)
MayApply(bal, line) ==
    (line.direction = "DEBIT" /\ isUserAccount(line.account))
        => bal[line.account] >= line.amount

ApplyLine(bal, line) ==
    [bal EXCEPT ![line.account] = @ + Signed(line)]

(* A whole posting, for lines that name distinct accounts.                 *)
CanPost(bal, lines) == \A i \in DOMAIN lines : MayApply(bal, lines[i])

LineOn(lines, name) == CHOOSE i \in DOMAIN lines : lines[i].account = name

Applied(bal, lines) ==
    [name \in Accounts |->
        IF name \in AccountsOf(lines)
        THEN bal[name] + Signed(lines[LineOn(lines, name)])
        ELSE bal[name]]

(* The sum of a projection over all the accounts of one asset.             *)
AssetTotal(bal, x) ==
    MapThenSumSet(LAMBDA name : bal[name],
                  {name \in Accounts : name.asset = x})
=============================================================================
