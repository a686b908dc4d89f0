----------------------------- MODULE MCMatching -----------------------------
(***************************************************************************)
(* The matching engine alone and the spot trading built on it.             *)
(*                                                                         *)
(* "engine": every taker against every sorted book of a bounded size.      *)
(* "trading": the requests of two users one after the other, at prices     *)
(* whose notionals are whole quote units (QScale divides them).            *)
(***************************************************************************)
EXTENDS MCTrading, MatchingRun

VARIABLE scenario

ASSUME EngineParameters == Parameters

(* The tables stay empty while the engine runs, and the engine has nothing *)
(* to match while orders are placed.                                       *)
MatchingInit ==
    /\ scenario \in {"engine", "trading"}
    /\ Init
    /\ EngineInit
    /\ scenario = "trading" =>
          taker = (CHOOSE t \in Takers : t.side = "SELL") /\ book = << >>

MatchingNext ==
    /\ UNCHANGED scenario
    /\ \/ scenario = "engine" /\ EngineNext /\ UNCHANGED vars
       \/ scenario = "trading" /\ Next /\ UNCHANGED engineVars

MatchingSpec == MatchingInit /\ [][MatchingNext]_<<scenario, vars, engineVars>>
=============================================================================
