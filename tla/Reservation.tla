---------------------------- MODULE Reservation ----------------------------
(***************************************************************************)
(* What a withdrawal promises about the money it reserves, whatever the    *)
(* interleaving of requests, reviewers, workers and failures: the amount   *)
(* is reserved once, and a reservation is used once, given back or paid    *)
(* out.  Withdrawal and InrWithdrawal implement this through the postings  *)
(* they make on one pooled USER_LOCKED account.                            *)
(***************************************************************************)
CONSTANT Withdrawals

VARIABLE phase      \* of each withdrawal's money

Init == phase = [w \in Withdrawals |-> "free"]

Move(w, from, to) == phase[w] = from /\ phase' = [phase EXCEPT ![w] = to]

Next ==
    \E w \in Withdrawals :
        \/ Move(w, "free", "reserved")
        \/ Move(w, "reserved", "released")
        \/ Move(w, "reserved", "paid")

Spec == Init /\ [][Next]_phase
=============================================================================
