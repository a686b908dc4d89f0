----------------------------- MODULE MCLedgerTx -----------------------------
(***************************************************************************)
(* Two users, two assets and the postings of one small history: deposits   *)
(* into alice's wallet, two holds that compete for it (bob's transfer and  *)
(* an order lock), a two-asset settlement, and postings the service must   *)
(* refuse.                                                                 *)
(***************************************************************************)
EXTENDS LedgerTx

MCUsers == {"alice", "bob"}
MCAssets == {"INR", "BTC"}
MCSystemKinds == {"GATEWAY_CLEARING"}

Gateway == System("GATEWAY_CLEARING", "INR")

Deposit == [ref |-> "deposit",
            lines |-> <<Debit(Gateway, 2), Credit(Available("alice", "INR"), 2)>>]
Hold == [ref |-> "hold",
         lines |-> <<Debit(Available("alice", "INR"), 2),
                     Credit(Locked("alice", "INR"), 2)>>]
Transfer == [ref |-> "none",
             lines |-> <<Debit(Available("alice", "INR"), 1),
                         Credit(Available("bob", "INR"), 1)>>]
Settle == [ref |-> "settle",
           lines |-> <<Debit(Locked("alice", "INR"), 2),
                       Credit(Available("bob", "INR"), 2),
                       Debit(System("GATEWAY_CLEARING", "BTC"), 1),
                       Credit(Available("alice", "BTC"), 1)>>]
Unbalanced == [ref |-> "unbalanced",
               lines |-> <<Debit(Gateway, 1), Credit(Available("bob", "INR"), 2)>>]
Malformed == [ref |-> "malformed",
              lines |-> <<Debit([Gateway EXCEPT !.owner = "bob"], 1),
                          Credit(Available("bob", "INR"), 1)>>]

MCRequests == {Deposit, Hold, Transfer, Settle, Unbalanced, Malformed}
=============================================================================
