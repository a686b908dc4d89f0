---------------------------- MODULE Idempotency ----------------------------
(***************************************************************************)
(* The idempotency middleware (backend/src/middleware/idempotency.ts): a   *)
(* key claims its operation by a row without a response, the handler's     *)
(* response is stored when it has been sent, and a request with the same   *)
(* key is answered from the row.  A response of 500 and above is not       *)
(* stored: it releases the claim.  The handler is the module that extends  *)
(* this one: a claimed request starts at HandlerStart, and the handler     *)
(* ends by Respond.                                                        *)
(***************************************************************************)
EXTENDS Naturals, FiniteSets

CONSTANTS
    Requests,       \* the requests the clients send
    KeyOf,          \* the user, endpoint and Idempotency-Key of each
    HandlerStart,   \* the first step of the handler
    Overlap,        \* whether requests are handled at once
    MaxFailures     \* bound: errors, lost processes, rows that are not stored

VARIABLES
    keys,           \* idempotency_keys: the response of each key
    request,        \* per request: the step it is at
    failures        \* errors, lost processes and rows not stored so far

requests == <<keys, request, failures>>

Keys == {KeyOf[r] : r \in Requests}

(* The responses of the middleware itself, and the ones of 500 and above.  *)
Conflict == "IDEMPOTENCY_IN_PROGRESS"
Unavailable == {"INTERNAL_ERROR", "INSUFFICIENT_LIQUIDITY"}

New == [at |-> "new"]
Ended(answer) == [at |-> "ended", answer |-> answer]
Lost == [at |-> "lost"]

InitRequests ==
    /\ keys = [k \in Keys |-> "none"]
    /\ request = [r \in Requests |-> New]
    /\ failures = 0

Go(r, x) == request' = [request EXCEPT ![r] = x]
At(r, step) == request[r].at = step

Idle(r) == request[r].at \in {"new", "ended", "lost"}

(* The row of the key as it is first read: another request's claim is a    *)
(* conflict, a stored response is sent again.                              *)
Lookup(r) ==
    LET stored == keys[KeyOf[r]] IN
    /\ request[r] = New
    /\ Overlap \/ \A s \in Requests : Idle(s)
    /\ Go(r, CASE stored = "none" -> [at |-> "claim"]
               [] stored = "pending" -> Ended(Conflict)
               [] OTHER -> Ended(stored))
    /\ UNCHANGED <<keys, failures>>

(* Mutant: the key is claimed by an upsert.                                *)
ClaimAnyway(r) ==
    /\ At(r, "claim")
    /\ keys' = [keys EXCEPT ![KeyOf[r]] = "pending"]
    /\ Go(r, [at |-> HandlerStart])
    /\ UNCHANGED failures

(* The unique index decides between two claims.                            *)
Claim(r) ==
    /\ At(r, "claim")
    /\ \/ /\ keys[KeyOf[r]] = "none"
          /\ keys' = [keys EXCEPT ![KeyOf[r]] = "pending"]
          /\ Go(r, [at |-> HandlerStart])
       \/ keys[KeyOf[r]] # "none" /\ Go(r, Ended(Conflict)) /\ UNCHANGED keys
    /\ UNCHANGED failures

(* The handler's response is sent; storing it follows.                     *)
Respond(r, answer) == Go(r, [at |-> "store", answer |-> answer])

(* Mutant: only a success is stored, and every refusal releases the claim. *)
StoredSuccessOnly(r) ==
    IF request[r].answer = "CONVERTED" THEN request[r].answer ELSE "none"

Stored(r) ==
    IF request[r].answer \in Unavailable THEN "none" ELSE request[r].answer

Store(r) ==
    /\ At(r, "store")
    /\ keys' = [keys EXCEPT ![KeyOf[r]] = Stored(r)]
    /\ Go(r, Ended(request[r].answer))
    /\ UNCHANGED failures

Failure == failures < MaxFailures /\ failures' = failures + 1

(* The response has been sent and is not stored: the claim stays.          *)
StoreFails(r) ==
    /\ Failure
    /\ At(r, "store")
    /\ Go(r, Ended(request[r].answer))
    /\ UNCHANGED keys

(* A step of the handler throws: the error handler answers with a 500.     *)
HandlerFails(r) ==
    /\ Failure
    /\ ~Idle(r) /\ ~At(r, "claim") /\ ~At(r, "store")
    /\ Respond(r, "INTERNAL_ERROR")
    /\ UNCHANGED keys

(* The process is lost: the client has no answer, and the claim stays.     *)
ProcessLost(r) ==
    /\ Failure
    /\ ~Idle(r)
    /\ Go(r, Lost)
    /\ UNCHANGED keys

(* "A replay with the same key returns the ORIGINAL response": two answers *)
(* other than a conflict or an error are the same one.                     *)
OneResponsePerKey ==
    LET Final == {r \in Requests : At(r, "ended")
                      /\ request[r].answer \notin Unavailable \cup {Conflict}}
    IN \A r, s \in Final :
           KeyOf[r] = KeyOf[s] => request[r].answer = request[s].answer
=============================================================================
