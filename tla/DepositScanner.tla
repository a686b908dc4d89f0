--------------------------- MODULE DepositScanner ---------------------------
(***************************************************************************)
(* Crypto deposits to the users' own addresses (backend/src/modules/       *)
(* scanner/): the worker's cycle is a scan, which detects transfers and    *)
(* orphans what a reorganisation dropped, then a confirmation pass, which  *)
(* credits the deposits that are deep enough.  A transfer stands for its   *)
(* row: crypto_deposits is unique on (chain, tx_hash, log_index).          *)
(***************************************************************************)
EXTENDS LedgerCalls, Blockchain

CONSTANTS
    Amount,             \* the amount of each transfer
    Owner,              \* the user its address belongs to
    Required,           \* asset_chains.min_confirmations
    SafetyLag,          \* config.scanner.safetyLag
    ReorgBuffer,        \* config.scanner.reorgBuffer
    ScanWorkers,        \* the processes that scan this chain
    CalmReorgs,         \* whether the chain is reorganised between cycles only
    FailedFetches,      \* whether the fetch of a block may fail
    MaxFailures         \* bound: failed fetches and lost cycles

Asset == "USDT"
startBlock == 1

(* What an instance must assume of the parameters.                         *)
Parameters ==
    /\ Asset \in Assets /\ "SWEEP_CLEARING" \in SystemKinds
    /\ \A t \in Transfers : Amount[t] \in Nat \ {0} /\ Owner[t] \in Users
    /\ SafetyLag \in Nat /\ ReorgBuffer \in Nat \ {0}
    /\ Required \in Nat \ {0} /\ Final \in Nat \ {0}

VARIABLES
    row,            \* crypto_deposits
    cursor,         \* chain_cursors.last_scanned_block
    worker,         \* per worker: the step of its cycle
    failures        \* failed fetches and lost cycles so far

scannerVars == <<row, cursor, worker, failures>>
vars == <<blockchain, ledger, scannerVars>>

Idle == [at |-> "idle"]
NoRow == [status |-> "NONE", block |-> 0, hash |-> 0, confirmations |-> 0]
Uncredited == {"DETECTED", "CONFIRMING", "CONFIRMED"}

InitScanner ==
    /\ row = [t \in Transfers |-> NoRow]
    /\ cursor = startBlock - 1
    /\ worker = [w \in ScanWorkers |-> Idle]
    /\ failures = 0

Go(w, x) == worker' = [worker EXCEPT ![w] = x]
At(w, step) == worker[w].at = step

-----------------------------------------------------------------------------
(* scanOnce, up to the blocks it has to look at.                           *)
ReadHead(w) ==
    /\ worker[w] = Idle
    /\ Go(w, [at |-> "cursor", to |-> head - SafetyLag])
    /\ UNCHANGED <<blockchain, ledger, row, cursor, failures>>

(* Mutant: the scan resumes after the last block it scanned.               *)
FromBlockNoWindow == Max({startBlock, cursor + 1})

FromBlock == Max({startBlock, cursor + 1 - ReorgBuffer})

ReadCursor(w) ==
    /\ At(w, "cursor")
    /\ Go(w, IF worker[w].to < startBlock \/ FromBlock > worker[w].to
             THEN [at |-> "confirm"]
             ELSE [at |-> "transfers", from |-> FromBlock, to |-> worker[w].to])
    /\ UNCHANGED <<blockchain, ledger, row, cursor, failures>>

FetchTransfers(w) ==
    LET range == worker[w].from..worker[w].to
        found == {t \in Transfers : MinedAt(t) \cap range # {}}
    IN
    /\ At(w, "transfers")
    /\ Go(w, [at |-> "blocks", from |-> worker[w].from, to |-> worker[w].to,
              found |-> [t \in found |-> BlockOf(t)]])
    /\ UNCHANGED <<blockchain, ledger, row, cursor, failures>>

(* The last block, the blocks of the transfers and those of pending rows.  *)
BlocksToFetch(w) ==
    {worker[w].to} \cup {worker[w].found[t] : t \in DOMAIN worker[w].found}
        \cup {row[t].block : t \in {u \in Transfers :
                  row[u].status \in Uncredited
                  /\ row[u].block \in worker[w].from..worker[w].to}}

(* The fetches run in parallel; a block whose fetch fails is skipped.      *)
FetchBlocks(w) ==
    /\ At(w, "blocks")
    /\ \E failed \in SUBSET BlocksToFetch(w) :
          /\ failed # {} => FailedFetches /\ failures < MaxFailures
          /\ failures' = failures + IF failed = {} THEN 0 ELSE 1
          /\ Go(w, [at |-> "block", to |-> worker[w].to, found |-> worker[w].found,
                    refs |-> [n \in BlocksToFetch(w) \ failed |-> chain[n].hash]])
    /\ UNCHANGED <<blockchain, ledger, row, cursor>>

-----------------------------------------------------------------------------
(* The loop over the fetched blocks, in order: each transfer of the block  *)
(* is looked up and written, then the rows of the block are compared with  *)
(* its hash.                                                               *)
Block(w) == Min(DOMAIN worker[w].refs)

Undetected(w) ==
    {t \in DOMAIN worker[w].found : worker[w].found[t] = Block(w)}

Without(f, x) == [y \in DOMAIN f \ {x} |-> f[y]]

FindDeposit(w) ==
    /\ At(w, "block") /\ DOMAIN worker[w].refs # {}
    /\ \E t \in Undetected(w) :
          Go(w, IF row[t].status = "CREDITED"
                THEN [worker[w] EXCEPT !.found = Without(@, t)]
                ELSE [at |-> "write", to |-> worker[w].to, found |-> worker[w].found,
                      refs |-> worker[w].refs, deposit |-> t, seen |-> row[t].status])
    /\ UNCHANGED <<blockchain, ledger, row, cursor, failures>>

(* Mutant: a transfer that is mined again stays orphaned.                  *)
RefreshedOrphaned(t, seen, n, hash) ==
    [row[t] EXCEPT !.block = n, !.hash = hash]

Refreshed(t, seen, n, hash) ==
    [row[t] EXCEPT !.block = n, !.hash = hash,
                   !.status = IF seen = "ORPHANED" THEN "DETECTED" ELSE @]

upsertDetectedDeposit(w) ==
    LET t == worker[w].deposit
        hash == worker[w].refs[Block(w)]
    IN
    /\ At(w, "write")
    /\ \/ /\ worker[w].seen # "NONE"
          /\ row' = [row EXCEPT ![t] = Refreshed(t, worker[w].seen, Block(w), hash)]
       \/ /\ worker[w].seen = "NONE" /\ row[t] = NoRow
          /\ row' = [row EXCEPT ![t] = [status |-> "DETECTED", block |-> Block(w),
                                        hash |-> hash, confirmations |-> 0]]
       \/ worker[w].seen = "NONE" /\ row[t] # NoRow /\ UNCHANGED row
    /\ Go(w, [at |-> "block", to |-> worker[w].to, refs |-> worker[w].refs,
              found |-> Without(worker[w].found, t)])
    /\ UNCHANGED <<blockchain, ledger, cursor, failures>>

orphanReorgedDeposits(w) ==
    LET stale == {t \in Transfers : /\ row[t].block = Block(w)
                                    /\ row[t].status \in Uncredited
                                    /\ row[t].hash # worker[w].refs[Block(w)]}
    IN
    /\ At(w, "block") /\ DOMAIN worker[w].refs # {} /\ Undetected(w) = {}
    /\ row' = [t \in Transfers |->
                  IF t \in stale THEN [row[t] EXCEPT !.status = "ORPHANED"] ELSE row[t]]
    /\ Go(w, [worker[w] EXCEPT !.refs = Without(@, Block(w))])
    /\ UNCHANGED <<blockchain, ledger, cursor, failures>>

upsertCursor(w) ==
    /\ At(w, "block") /\ DOMAIN worker[w].refs = {}
    /\ cursor' = worker[w].to
    /\ Go(w, [at |-> "confirm"])
    /\ UNCHANGED <<blockchain, ledger, row, failures>>

-----------------------------------------------------------------------------
(* runConfirmations, in the order of the blocks of the rows as listed.     *)
ReadConfirmationHead(w) ==
    /\ At(w, "confirm")
    /\ Go(w, [at |-> "list", height |-> head])
    /\ UNCHANGED <<blockchain, ledger, row, cursor, failures>>

Listed == {t \in Transfers : row[t].status \in Uncredited}

listCreditableCandidates(w) ==
    /\ At(w, "list")
    /\ Go(w, IF Listed = {} THEN Idle
             ELSE [at |-> "each", height |-> worker[w].height,
                   rows |-> [t \in Listed |-> row[t]]])
    /\ UNCHANGED <<blockchain, ledger, row, cursor, failures>>

Candidates(w) == DOMAIN worker[w].rows

First(w) ==
    {t \in Candidates(w) : \A u \in Candidates(w) :
        worker[w].rows[t].block <= worker[w].rows[u].block}

Advance(w, t) ==
    Go(w, IF Candidates(w) = {t} THEN Idle
          ELSE [at |-> "each", height |-> worker[w].height,
                rows |-> Without(worker[w].rows, t)])

(* Mutant: one confirmation too many.                                      *)
ConfirmationsAndOne(w, t) == Max({0, worker[w].height - worker[w].rows[t].block + 2})

Confirmations(w, t) == Max({0, worker[w].height - worker[w].rows[t].block + 1})

NextStatus(confirmations) ==
    IF confirmations >= Required THEN "CONFIRMED"
    ELSE IF confirmations >= 1 THEN "CONFIRMING" ELSE "DETECTED"

(* The update is unconditional, and written only for a change.             *)
updateConfirmations(w) ==
    /\ At(w, "each")
    /\ \E t \in First(w) :
          LET confirmations == Confirmations(w, t)
              status == NextStatus(confirmations)
              listed == worker[w].rows[t]
          IN
          /\ row' = IF listed.status = status /\ listed.confirmations = confirmations
                    THEN row
                    ELSE [row EXCEPT ![t].status = status,
                                     ![t].confirmations = confirmations]
          /\ IF confirmations >= Required
             THEN Go(w, [at |-> "credit", height |-> worker[w].height,
                         rows |-> worker[w].rows, deposit |-> t])
             ELSE Advance(w, t)
    /\ UNCHANGED <<blockchain, ledger, cursor, failures>>

CreditRef(t) == <<"DEPOSIT", t>>

CreditLines(t) ==
    <<Debit(System("SWEEP_CLEARING", Asset), Amount[t]),
      Credit(Available(Owner[t], Asset), Amount[t])>>

creditDeposit(w) ==
    /\ At(w, "credit")
    /\ Post(CreditRef(worker[w].deposit), CreditLines(worker[w].deposit))
    /\ Go(w, [worker[w] EXCEPT !.at = "mark"])
    /\ UNCHANGED <<blockchain, row, cursor, failures>>

markCredited(w) ==
    /\ At(w, "mark")
    /\ row' = [row EXCEPT ![worker[w].deposit].status = "CREDITED"]
    /\ Advance(w, worker[w].deposit)
    /\ UNCHANGED <<blockchain, ledger, cursor, failures>>

-----------------------------------------------------------------------------
(* The process is lost, or a step of the cycle fails: the next tick starts *)
(* a new cycle from what is stored.                                        *)
CycleLost(w) ==
    /\ failures < MaxFailures
    /\ worker[w] # Idle
    /\ failures' = failures + 1
    /\ Go(w, Idle)
    /\ UNCHANGED <<blockchain, ledger, row, cursor>>

Quiet == \A w \in ScanWorkers : worker[w] = Idle

Cycle(w) ==
    \/ ReadHead(w) \/ ReadCursor(w) \/ FetchTransfers(w) \/ FetchBlocks(w)
    \/ FindDeposit(w) \/ upsertDetectedDeposit(w) \/ orphanReorgedDeposits(w)
    \/ upsertCursor(w) \/ ReadConfirmationHead(w) \/ listCreditableCandidates(w)
    \/ updateConfirmations(w) \/ creditDeposit(w) \/ markCredited(w)

Init ==
    /\ InitBlockchain
    /\ balance = [name \in Accounts |-> 0]
    /\ posted = {}
    /\ InitScanner

Next ==
    \/ Mine /\ UNCHANGED <<ledger, scannerVars>>
    \/ (CalmReorgs => Quiet) /\ Reorganise /\ UNCHANGED <<ledger, scannerVars>>
    \/ \E w \in ScanWorkers : Cycle(w) \/ CycleLost(w)

Spec == Init /\ [][Next]_vars

-----------------------------------------------------------------------------
TypeOK ==
    /\ row \in [Transfers -> [status : {"NONE", "DETECTED", "CONFIRMING", "CONFIRMED",
                                        "CREDITED", "ORPHANED"},
                              block : 0..MaxHeight, hash : 0..hashes,
                              confirmations : 0..MaxHeight]]
    /\ cursor \in 0..MaxHeight
    /\ posted \subseteq {"DEPOSIT"} \X Transfers
    /\ failures \in 0..MaxFailures
    /\ \A w \in ScanWorkers : At(w, "block") => DOMAIN worker[w].refs \subseteq DOMAIN chain

(* A user has no more money than what is on the chain, with the required   *)
(* confirmations, at the addresses of the user: each transfer is credited  *)
(* once, and none that a reorganisation dropped.                           *)
CreditedOnChain ==
    \A u \in Users :
        balance[Available(u, Asset)] <=
            MapThenSumSet(LAMBDA t : Amount[t],
                          {t \in Transfers : Owner[t] = u /\ Depth(t) >= Required})

(* A row shown as credited was credited.                                   *)
CreditedIsPosted ==
    \A t \in Transfers : row[t].status = "CREDITED" => CreditRef(t) \in posted

(* What the scanner has to find: deep enough, and not in the last blocks.  *)
Scannable(t) ==
    OnChain(t) /\ Depth(t) >= Required /\ BlockOf(t) <= head - SafetyLag
=============================================================================
