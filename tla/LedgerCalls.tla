---------------------------- MODULE LedgerCalls ----------------------------
(***************************************************************************)
(* The ledger as the flows that move money see it: a call to               *)
(* ledgerService.post is one atomic step that posts a reference at most    *)
(* once, returns the existing transaction when it is asked for again, and  *)
(* refuses what would overdraw a user account.  This is module Ledger      *)
(* without the history; LedgerTx shows that the code implements it.        *)
(***************************************************************************)
EXTENDS Postings

VARIABLES
    balance,        \* account_balances
    posted          \* the references of ledger_transactions

ledger == <<balance, posted>>

(* ledgerService.post through postWithRetry.                               *)
Post(ref, lines) ==
    \/ ref \in posted /\ UNCHANGED ledger
    \/ /\ ref \notin posted
       /\ assertPostingBalanced(lines)
       /\ CanPost(balance, lines)
       /\ balance' = Applied(balance, lines)
       /\ posted' = posted \cup {ref}

Refused(ref, lines) ==
    ref \notin posted /\ ~(assertPostingBalanced(lines) /\ CanPost(balance, lines))
=============================================================================
