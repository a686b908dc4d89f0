---------------------------- MODULE MCWithdrawal ----------------------------
(***************************************************************************)
(* Instances of Withdrawal with small withdrawals of 2, a large one of 4   *)
(* and a fee of 1.  "dual": the large one, three reviewers and every       *)
(* worker.  "pair": the small ones, one admin and every worker.  "all":    *)
(* everybody, as the configuration has them.  Who has no part in a         *)
(* scenario is idle throughout.                                            *)
(***************************************************************************)
EXTENDS Withdrawal, TLC

CONSTANTS Scenarios, SmallOnes, LargeOnes, Reviewers

VARIABLE scenario

MCUsers == {"alice"}
MCAssets == {"USDT"}
MCSystemKinds == {"HOT_WALLET", "FEE_REVENUE"}

MCAmount == [w \in Withdrawals |-> IF w \in LargeOnes THEN 4 ELSE 2]

ASSUME InstanceParameters == Parameters

Idle(requests, admins) ==
    /\ \A w \in requests : request[w] = "none"
    /\ \A a \in admins : review[a] = IdleReview

NoPart ==
    /\ scenario = "dual" => Idle(SmallOnes, Admins \ Reviewers)
    /\ scenario = "pair" => Idle(LargeOnes, Reviewers)

mcVars == <<scenario, vars>>

MCInit == scenario \in Scenarios /\ Init

MCNext == Next /\ UNCHANGED scenario /\ NoPart'

MCSpec == MCInit /\ [][MCNext]_mcVars

(* The workers poll for ever, and a transaction that was sent is mined or  *)
(* dropped in the end; users and admins need not act.                      *)
FairSpec ==
    /\ MCSpec
    /\ \A k \in Workers : WF_mcVars(WorkerStep(k) /\ UNCHANGED scenario)
    /\ \A w \in Withdrawals : WF_mcVars(Decide(w) /\ UNCHANGED scenario)

(* Reviewers and workers are interchangeable, and equal withdrawals too.   *)
MCSymmetry ==
    Permutations(Reviewers) \cup Permutations(Workers) \cup Permutations(SmallOnes)
=============================================================================
