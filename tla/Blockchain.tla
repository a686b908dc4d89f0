----------------------------- MODULE Blockchain -----------------------------
(***************************************************************************)
(* The blockchain the deposit scanner and the verifier of submitted        *)
(* transactions read: external, as its nodes answer getLatestBlock,        *)
(* getBlock, the transfers of a range of blocks and the receipt of one     *)
(* transaction.  It grows by blocks, and a reorganisation replaces its     *)
(* last blocks by a longer branch with other hashes, in which the          *)
(* transfers of the replaced blocks may be mined elsewhere or not at all.  *)
(***************************************************************************)
EXTENDS Integers, Sequences, FiniteSets, FiniteSetsExt

CONSTANTS
    Transfers,      \* the transfers that may be mined
    Final,          \* external: a block this deep is never replaced
    MaxHeight,      \* bound: blocks of the chain
    MaxReorgs       \* bound: reorganisations

VARIABLES
    chain,          \* the canonical chain: the hash and transfers of each block
    hashes,         \* the hashes used so far
    reorgs          \* the reorganisations so far

blockchain == <<chain, hashes, reorgs>>

head == Len(chain)

InitBlockchain ==
    /\ chain = <<[hash |-> 1, txs |-> {}]>>
    /\ hashes = 1
    /\ reorgs = 0

MinedAt(t) == {n \in DOMAIN chain : t \in chain[n].txs}

OnChain(t) == MinedAt(t) # {}

BlockOf(t) == CHOOSE n \in MinedAt(t) : TRUE

(* The number of blocks from a transfer to the head, its own included.     *)
Depth(t) == IF OnChain(t) THEN head - BlockOf(t) + 1 ELSE 0

Mine ==
    /\ head < MaxHeight
    /\ \E txs \in SUBSET {t \in Transfers : ~OnChain(t)} :
          chain' = Append(chain, [hash |-> hashes + 1, txs |-> txs])
    /\ hashes' = hashes + 1
    /\ UNCHANGED reorgs

Reorganise ==
    /\ reorgs < MaxReorgs /\ head < MaxHeight
    /\ \E depth \in 1..(Final - 1) :
          /\ depth < head
          /\ LET dropped == {t \in Transfers : Depth(t) \in 1..depth}
                 branch == (head - depth + 1)..(head + 1)
             IN \E place \in [dropped -> branch \cup {0}] :
                   chain' = [n \in 1..(head + 1) |->
                       IF n \notin branch THEN chain[n]
                       ELSE [hash |-> hashes + n - (head - depth),
                             txs |-> {t \in dropped : place[t] = n}]]
          /\ hashes' = hashes + depth + 1
    /\ reorgs' = reorgs + 1
=============================================================================
