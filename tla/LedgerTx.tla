------------------------------ MODULE LedgerTx ------------------------------
(***************************************************************************)
(* ledgerService.post as it runs: concurrent callers, each executing the   *)
(* posting as one SERIALIZABLE database transaction, statement by          *)
(* statement on its own snapshot, inside the callers' postWithRetry loop.  *)
(*                                                                         *)
(* The schema has no unique index on (reference_type, reference_id) and    *)
(* the balance guard reads a snapshot, so that a reference posts at most   *)
(* once, and that no update is lost, rests on serializability alone.  The  *)
(* database is external: a transaction commits only if nothing it read or  *)
(* wrote was changed by a transaction that committed after its snapshot;   *)
(* it may also be told P2034 spuriously, fail outright, or commit with the *)
(* acknowledgement lost.                                                   *)
(***************************************************************************)
EXTENDS Postings

CONSTANTS
    Requests,       \* the postings callers may ask for: [ref, lines]
    NoRef,          \* the reference of a posting that names none
    Clients,        \* concurrent callers of ledgerService.post
    MaxAttempts,    \* postWithRetry's bound (5; 1 for callers without it)
    MaxCalls        \* bound: calls to post in a behaviour

ASSUME RequestsAssumption ==
    \A p \in Requests :
        /\ p.lines \in Seq([account : AccountNames, amount : Int,
                            direction : {"DEBIT", "CREDIT"}])
        /\ DistinctAccounts(p.lines)

ASSUME BoundsAssumption ==
    MaxAttempts \in Nat \ {0} /\ MaxCalls \in Nat

VARIABLES
    balance,        \* account_balances, committed
    txns,           \* ledger_transactions, committed, in commit order
    pc,             \* per client: "idle", "begin" or "lines"
    req,            \* per client: the posting of its current or last call
    attempt,        \* per client: the attempt of postWithRetry under way
    snap,           \* per client: how many txns its snapshot contains
    work,           \* per client: the balances its transaction sees
    next,           \* per client: the line it executes next
    result,         \* per client: the outcome of its last call
    calls           \* calls issued so far

vars == <<balance, txns, pc, req, attempt, snap, work, next, result, calls>>
callVars == <<pc, req, attempt, snap, work, next, result, calls>>

Abstract == INSTANCE Ledger WITH
    balance <- balance, txns <- txns, Requests <- Requests

Outcomes == {"none", "posted", "existing", "bad_request", "insufficient",
             "conflict", "error"}

Init ==
    /\ balance = [name \in Accounts |-> 0]
    /\ txns = << >>
    /\ pc = [c \in Clients |-> "idle"]
    /\ \E p \in Requests : req = [c \in Clients |-> p]
    /\ attempt = [c \in Clients |-> 1]
    /\ snap = [c \in Clients |-> 0]
    /\ work = [c \in Clients |-> balance]
    /\ next = [c \in Clients |-> 1]
    /\ result = [c \in Clients |-> "none"]
    /\ calls = 0

findExistingPosting(history, ref) == Abstract!PostedIn(history, ref)

(* The call returns to its caller with outcome r.                          *)
Return(c, r) ==
    /\ pc' = [pc EXCEPT ![c] = "idle"]
    /\ result' = [result EXCEPT ![c] = r]

(* post(input): assertPostingBalanced runs before the transaction opens.   *)
Call(c, p) ==
    /\ pc[c] = "idle"
    /\ calls < MaxCalls
    /\ calls' = calls + 1
    /\ req' = [req EXCEPT ![c] = p]
    /\ attempt' = [attempt EXCEPT ![c] = 1]
    /\ IF assertPostingBalanced(p.lines)
       THEN /\ pc' = [pc EXCEPT ![c] = "begin"]
            /\ result' = [result EXCEPT ![c] = "none"]
       ELSE Return(c, "bad_request")
    /\ UNCHANGED <<balance, txns, snap, work, next>>

(* The transaction takes its snapshot and looks the reference up in it.    *)
Begin(c) ==
    /\ pc[c] = "begin"
    /\ snap' = [snap EXCEPT ![c] = Len(txns)]
    /\ work' = [work EXCEPT ![c] = balance]
    /\ next' = [next EXCEPT ![c] = 1]
    /\ IF findExistingPosting(txns, req[c].ref)
       THEN Return(c, "existing")
       ELSE /\ pc' = [pc EXCEPT ![c] = "lines"]
            /\ UNCHANGED result
    /\ UNCHANGED <<balance, txns, req, attempt, calls>>

(* Mutant: lines are written outside the transaction, each on its own.     *)
PostLineAutoCommitted(c) ==
    LET line == req[c].lines[next[c]] IN
    /\ pc[c] = "lines"
    /\ next[c] <= Len(req[c].lines)
    /\ line.account \in Accounts
    /\ MayApply(balance, line)
    /\ balance' = ApplyLine(balance, line)
    /\ work' = [work EXCEPT ![c] = balance']
    /\ next' = [next EXCEPT ![c] = @ + 1]
    /\ UNCHANGED <<txns, pc, req, attempt, snap, result, calls>>

(* Mutant: a line the guard refuses is skipped, not thrown for.            *)
PostLineSkipped(c) ==
    LET line == req[c].lines[next[c]] IN
    /\ pc[c] = "lines"
    /\ next[c] <= Len(req[c].lines)
    /\ line.account \in Accounts
    /\ work' = [work EXCEPT ![c] = IF MayApply(@, line)
                                  THEN ApplyLine(@, line) ELSE @]
    /\ next' = [next EXCEPT ![c] = @ + 1]
    /\ UNCHANGED <<balance, txns, pc, req, attempt, snap, result, calls>>

(* One iteration of the loop over input.lines.                             *)
PostLine(c) ==
    LET line == req[c].lines[next[c]] IN
    /\ pc[c] = "lines"
    /\ next[c] <= Len(req[c].lines)
    /\ \/ /\ line.account \notin Accounts
          /\ Return(c, "bad_request")
          /\ UNCHANGED <<work, next>>
       \/ /\ line.account \in Accounts
          /\ ~MayApply(work[c], line)
          /\ Return(c, "insufficient")
          /\ UNCHANGED <<work, next>>
       \/ /\ line.account \in Accounts
          /\ MayApply(work[c], line)
          /\ work' = [work EXCEPT ![c] = ApplyLine(@, line)]
          /\ next' = [next EXCEPT ![c] = @ + 1]
          /\ UNCHANGED <<pc, result>>
    /\ UNCHANGED <<balance, txns, req, attempt, snap, calls>>

(* Mutant: the database's default level.                                   *)
isolationLevelDefault == "ReadCommitted"

isolationLevel == "Serializable"

(* Something the transaction read or wrote was committed by another one    *)
(* since its snapshot: its reference, or a balance row it touches.  The    *)
(* default level looks for nothing of the kind.                            *)
Conflicts(c) ==
    /\ isolationLevel = "Serializable"
    /\ \E k \in (snap[c] + 1)..Len(txns) :
          \/ req[c].ref # NoRef /\ txns[k].ref = req[c].ref
          \/ AccountsOf(txns[k].lines) \cap AccountsOf(req[c].lines) # {}

(* createLedgerTransaction and COMMIT.  The outcome reaches the caller, or *)
(* the connection is lost first and the caller sees an error.              *)
Commit(c) ==
    /\ pc[c] = "lines"
    /\ next[c] = Len(req[c].lines) + 1
    /\ ~Conflicts(c)
    /\ balance' = [name \in Accounts |->
                      IF name \in AccountsOf(req[c].lines)
                      THEN work[c][name] ELSE balance[name]]
    /\ txns' = Append(txns, req[c])
    /\ Return(c, "posted") \/ Return(c, "error")
    /\ UNCHANGED <<req, attempt, snap, work, next, calls>>

(* Mutants: the retry loop never counts its attempts; it runs one attempt  *)
(* too many; it takes the rolled back posting for posted.                  *)
SerializationFailureUncounted(c) ==
    /\ pc[c] = "lines"
    /\ pc' = [pc EXCEPT ![c] = "begin"]
    /\ UNCHANGED <<balance, txns, req, attempt, snap, work, next, result, calls>>

SerializationFailureOffByOne(c) ==
    /\ pc[c] = "lines"
    /\ \/ /\ attempt[c] <= MaxAttempts
          /\ attempt' = [attempt EXCEPT ![c] = @ + 1]
          /\ pc' = [pc EXCEPT ![c] = "begin"]
          /\ UNCHANGED result
       \/ /\ attempt[c] > MaxAttempts
          /\ Return(c, "conflict")
          /\ UNCHANGED attempt
    /\ UNCHANGED <<balance, txns, req, snap, work, next, calls>>

SerializationFailureSwallowed(c) ==
    /\ pc[c] = "lines"
    /\ Return(c, "posted")
    /\ UNCHANGED <<balance, txns, req, attempt, snap, work, next, calls>>

(* P2034: rolled back; postWithRetry tries again while attempts remain.    *)
SerializationFailure(c) ==
    /\ pc[c] = "lines"
    /\ \/ /\ attempt[c] < MaxAttempts
          /\ attempt' = [attempt EXCEPT ![c] = @ + 1]
          /\ pc' = [pc EXCEPT ![c] = "begin"]
          /\ UNCHANGED result
       \/ /\ attempt[c] = MaxAttempts
          /\ Return(c, "conflict")
          /\ UNCHANGED attempt
    /\ UNCHANGED <<balance, txns, req, snap, work, next, calls>>

(* Any other database error is rolled back and rethrown at once.           *)
DatabaseError(c) ==
    /\ pc[c] \in {"begin", "lines"}
    /\ Return(c, "error")
    /\ UNCHANGED <<balance, txns, req, attempt, snap, work, next, calls>>

Step(c) ==
    \/ Begin(c)
    \/ PostLine(c)
    \/ Commit(c)
    \/ SerializationFailure(c)

(* Every call has been issued and has returned.                            *)
Quiescent ==
    /\ calls = MaxCalls
    /\ \A c \in Clients : pc[c] = "idle"
    /\ UNCHANGED vars

Next ==
    \/ \E c \in Clients : \E p \in Requests : Call(c, p)
    \/ \E c \in Clients : Step(c) \/ DatabaseError(c)
    \/ Quiescent

Spec == Init /\ [][Next]_vars

(* The event loop and the database keep running every call under way;      *)
(* nothing is assumed of callers or of failures.                           *)
FairSpec == Spec /\ \A c \in Clients : WF_vars(Step(c))

-----------------------------------------------------------------------------
TypeOK ==
    /\ balance \in [Accounts -> Int]
    /\ txns \in Seq(Requests)
    /\ pc \in [Clients -> {"idle", "begin", "lines"}]
    /\ req \in [Clients -> Requests]
    /\ attempt \in [Clients -> 1..MaxAttempts]
    /\ snap \in [Clients -> Nat]
    /\ work \in [Clients -> [Accounts -> Int]]
    /\ next \in [Clients -> Nat \ {0}]
    /\ result \in [Clients -> Outcomes]
    /\ calls \in 0..MaxCalls

(* A reference is posted at most once, although the lookup and the insert  *)
(* are separate statements and nothing unique guards the columns.          *)
ExactlyOncePerReference ==
    \A j, k \in DOMAIN txns :
        txns[j].ref = txns[k].ref /\ txns[j].ref # NoRef => j = k

(* debitBalance's guard holds of the committed balances, not only of the   *)
(* snapshot it was evaluated in.                                           *)
UserBalancesNonNegative ==
    \A name \in Accounts : isUserAccount(name) => balance[name] >= 0

(* Postings create and destroy nothing: each asset nets to zero.           *)
Conservation == \A x \in Assets : AssetTotal(balance, x) = 0

(* reconcileAccount reports diff = 0 for every account in every state:     *)
(* the projection is the sum of the account's committed entries.           *)
entriesBalanceForAccount(name) ==
    LET LinesAt(k) == {i \in DOMAIN txns[k].lines :
                          txns[k].lines[i].account = name}
    IN  MapThenSumSet(LAMBDA k : MapThenSumSet(
                          LAMBDA i : Signed(txns[k].lines[i]), LinesAt(k)),
                      DOMAIN txns)

ProjectionMatchesEntries ==
    \A name \in Accounts : balance[name] = entriesBalanceForAccount(name)

(* The books agree: every asset nets to zero over all accounts, and the    *)
(* projection is what the entries of the ledger add up to.                 *)
BooksAgree == Conservation /\ ProjectionMatchesEntries

(* A caller told that its posting exists, now or from an earlier attempt,  *)
(* can rely on it: the transaction is in the ledger and stays there.       *)
AcknowledgedIsPosted ==
    \A c \in Clients :
        result[c] \in {"posted", "existing"}
            => \E k \in DOMAIN txns : txns[k].ref = req[c].ref

(* A call never moves money before or without its ledger transaction, and  *)
(* the ledger is append-only: post is the atomic posting of module Ledger. *)
ImplementsLedger == Abstract!Spec

(* What the transaction of client c can rely on.  Its request passed the   *)
(* balance check; its reference is not in its snapshot; the user balances  *)
(* it sees are not negative; and, unless something it touches was          *)
(* committed meanwhile, what it sees of its accounts is the committed      *)
(* balances with the lines it executed, each of which passed its guard.    *)
RequestChecked(c) ==
    pc[c] \in {"begin", "lines"} => assertPostingBalanced(req[c].lines)

ReferenceNotSeen(c) ==
    pc[c] = "lines" =>
        /\ snap[c] <= Len(txns)
        /\ req[c].ref # NoRef
              => \A k \in 1..snap[c] : txns[k].ref # req[c].ref

WorkNonNegative(c) ==
    pc[c] = "lines" =>
        \A name \in Accounts : isUserAccount(name) => work[c][name] >= 0

Executed(c) == 1..(next[c] - 1)

ViewIsCurrent(c) ==
    LET lines == req[c].lines IN
    pc[c] = "lines" =>
        /\ next[c] <= Len(lines) + 1
        /\ \A i \in Executed(c) : lines[i].account \in Accounts
        /\ ~Conflicts(c) =>
              \A i \in 1..Len(lines) : lines[i].account \in Accounts =>
                  IF i < next[c]
                  THEN /\ work[c][lines[i].account]
                             = balance[lines[i].account] + Signed(lines[i])
                       /\ MayApply(balance, lines[i])
                  ELSE work[c][lines[i].account] = balance[lines[i].account]

TransactionsAreSound ==
    \A c \in Clients : /\ RequestChecked(c)
                       /\ ReferenceNotSeen(c)
                       /\ WorkNonNegative(c)
                       /\ ViewIsCurrent(c)

(* Every call returns: retries end, and conflicting callers never wait on  *)
(* each other for ever.                                                    *)
CallsReturn == \A c \in Clients : pc[c] # "idle" ~> pc[c] = "idle"
=============================================================================
