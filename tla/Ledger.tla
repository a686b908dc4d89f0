------------------------------- MODULE Ledger -------------------------------
(***************************************************************************)
(* What the ledger promises its callers: a posting is one atomic step that *)
(* moves every balance it names, happens at most once per reference, and   *)
(* never takes a user account below zero.  LedgerTx shows that the         *)
(* serializable transactions of ledger.service.ts implement this, and the  *)
(* modules of the trading and withdrawal flows take it as their ledger.    *)
(***************************************************************************)
EXTENDS Postings

CONSTANTS
    Requests,       \* the postings callers may ask for: [ref, lines]
    NoRef           \* the reference of a posting that names none

VARIABLES
    balance,        \* account_balances: the balance of every account
    txns            \* ledger_transactions, in commit order

vars == <<balance, txns>>

Init ==
    /\ balance = [name \in Accounts |-> 0]
    /\ txns = << >>

(* findExistingPosting: a posting without a reference is never a duplicate *)
PostedIn(history, ref) ==
    ref # NoRef /\ \E k \in DOMAIN history : history[k].ref = ref

post(p) ==
    /\ assertPostingBalanced(p.lines)
    /\ WellFormed(p.lines)
    /\ ~PostedIn(txns, p.ref)
    /\ CanPost(balance, p.lines)
    /\ balance' = Applied(balance, p.lines)
    /\ txns' = Append(txns, p)

Next == \E p \in Requests : post(p)

Spec == Init /\ [][Next]_vars
=============================================================================
