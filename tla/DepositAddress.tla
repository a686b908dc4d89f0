--------------------------- MODULE DepositAddress ---------------------------
(***************************************************************************)
(* Deposit addresses of one chain (backend/src/modules/wallet/):           *)
(* requestDepositAddress answers with the active address of the user, or   *)
(* allocates the next derivation index in a SERIALIZABLE transaction, up   *)
(* to MAX_ALLOC_ATTEMPTS times.  An address is its index: the provider     *)
(* derives it from nothing else.  No address is ever deactivated.  The     *)
(* database, which is external, refuses a second row for the same user or  *)
(* the same index (P2002), or a transaction that read what was changed     *)
(* since (P2034).                                                          *)
(***************************************************************************)
EXTENDS Integers, FiniteSets, FiniteSetsExt, TLC

CONSTANTS
    Owners,             \* the users
    MaxAllocAttempts,   \* MAX_ALLOC_ATTEMPTS
    MaxFailures,        \* bound: conflicts that are none, and lost processes
    Calls               \* the calls, handled at once

VARIABLES
    addresses,      \* deposit_addresses: a set of [owner, index]
    call,           \* per call: the step it is at, and its answer
    failures        \* conflicts that were none, and lost processes

depositAddressVars == <<addresses, call, failures>>

NotBegun == [at |-> "begin"]

Init ==
    /\ addresses = {}
    /\ call = [c \in Calls |-> NotBegun]
    /\ failures = 0

Go(c, x) == call' = [call EXCEPT ![c] = x]
At(c, step) == call[c].at = step
Answered(c, row) == [at |-> "answered", owner |-> call[c].owner, index |-> row.index,
                     began |-> call[c].began]

ActiveIn(rows, u) == {r \in rows : r.owner = u}

-----------------------------------------------------------------------------
(* A call that finds no active address begins to allocate one.             *)
requestDepositAddress(c) ==
    /\ At(c, "begin")
    /\ \E u \in Owners :
          LET begun == [at |-> "open", owner |-> u, attempt |-> 1,
                        began |-> Cardinality(addresses)]
          IN  \/ /\ ActiveIn(addresses, u) = {}
                 /\ Go(c, begun)
              \/ \E r \in ActiveIn(addresses, u) :
                    Go(c, [at |-> "answered", owner |-> u, index |-> r.index,
                           began |-> begun.began])
    /\ UNCHANGED <<addresses, failures>>

(* The transaction opens, on a snapshot.                                   *)
OpenTx(c) ==
    /\ At(c, "open")
    /\ Go(c, [call[c] EXCEPT !.at = "create"] @@ [snapshot |-> addresses])
    /\ UNCHANGED <<addresses, failures>>

(* Mutant: as many as there are addresses, with its own counted.           *)
nextDerivationIndexCounted(rows) == Cardinality(rows) + 1

nextDerivationIndex(rows) == Max({-1} \cup {r.index : r \in rows}) + 1

Again(c) == [at |-> "open", owner |-> call[c].owner, attempt |-> call[c].attempt + 1,
             began |-> call[c].began]

GivesUp(c) == [at |-> "refused", owner |-> call[c].owner, began |-> call[c].began]

(* Mutant: the last attempt is never made.                                 *)
RetryEarly(c) == IF call[c].attempt + 1 = MaxAllocAttempts THEN GivesUp(c) ELSE Again(c)

Retry(c) == IF call[c].attempt = MaxAllocAttempts THEN GivesUp(c) ELSE Again(c)

(* Mutant: the loser of a race answers with what it tried to insert.       *)
AfterUniqueViolationOwn(c) ==
    {Answered(c, [index |-> nextDerivationIndex(call[c].snapshot)])}

(* After P2002 the active address of the user is looked up, if there is    *)
(* one by now.                                                             *)
AfterUniqueViolation(c) ==
    IF ActiveIn(addresses, call[c].owner) = {} THEN {Retry(c)}
    ELSE {Answered(c, r) : r \in ActiveIn(addresses, call[c].owner)}

Violates(row) == \E r \in addresses : r.owner = row.owner \/ r.index = row.index

(* The active address that the transaction sees.                           *)
FoundInTx(c) == ActiveIn(call[c].snapshot, call[c].owner)

(* It answers with the active address it sees, or inserts one, and         *)
(* commits, or is refused.                                                 *)
CommitAddress(c) ==
    LET row == [owner |-> call[c].owner, index |-> nextDerivationIndex(call[c].snapshot)]
        stale == call[c].snapshot # addresses
    IN
    /\ At(c, "create")
    /\ \/ /\ FoundInTx(c) # {}
          /\ \E r \in FoundInTx(c) : Go(c, Answered(c, r))
          /\ UNCHANGED addresses
       \/ /\ FoundInTx(c) = {} /\ ~Violates(row) /\ ~stale
          /\ addresses' = addresses \cup {row}
          /\ Go(c, Answered(c, row))
       \/ /\ FoundInTx(c) = {} /\ Violates(row)
          /\ \E next \in AfterUniqueViolation(c) : Go(c, next)
          /\ UNCHANGED addresses
       \/ /\ FoundInTx(c) = {} /\ stale
          /\ Go(c, Retry(c))
          /\ UNCHANGED addresses
    /\ UNCHANGED failures

(* The database may find a conflict where there is none.                   *)
FalseConflict(c) ==
    /\ At(c, "create") /\ failures < MaxFailures
    /\ failures' = failures + 1
    /\ Go(c, Retry(c))
    /\ UNCHANGED addresses

(* The process stops, and the user asks again.                             *)
CallLost(c) ==
    /\ call[c].at \in {"open", "create"} /\ failures < MaxFailures
    /\ failures' = failures + 1
    /\ Go(c, NotBegun)
    /\ UNCHANGED addresses

Step(c) ==
    \/ requestDepositAddress(c) \/ OpenTx(c) \/ CommitAddress(c) \/ FalseConflict(c)
    \/ CallLost(c)

Next == \E c \in Calls : Step(c)

Spec == Init /\ [][Next]_depositAddressVars

-----------------------------------------------------------------------------
TypeOK ==
    /\ addresses \subseteq [owner : Owners, index : Nat]
    /\ failures \in 0..MaxFailures

(* "ONE active address per (user, chain) and a unique derivation index per *)
(* chain", from 0 and without a gap, however allocations race and fail.    *)
IndexesAreDense ==
    /\ {r.index : r \in addresses} = 0..(Cardinality(addresses) - 1)
    /\ \A u \in Owners : Cardinality(ActiveIn(addresses, u)) <= 1

(* A user is told the active address of that user, the same one each time. *)
AnswerIsOwn ==
    \A c \in Calls : At(c, "answered") =>
        [owner |-> call[c].owner, index |-> call[c].index] \in addresses

(* A request is refused only if as many others were served meanwhile as it *)
(* makes attempts, conflicts that were none aside.                         *)
RefusedByOthers ==
    \A c \in Calls : At(c, "refused") =>
        Cardinality(addresses) - call[c].began + failures >= MaxAllocAttempts

AddressesHold == TypeOK /\ IndexesAreDense /\ AnswerIsOwn /\ RefusedByOthers
=============================================================================
