----------------------------- MODULE OneTimeCode -----------------------------
(***************************************************************************)
(* The codes mailed to one address (backend/src/modules/auth/): a code     *)
(* signs in, or signs up where there is no account yet                     *)
(* (auth.otp.service.ts), or verifies the address of an account            *)
(* (auth.email-verification.service.ts).  All are rows of email_otps, told *)
(* apart by their purpose.  The status of the account is left out: one     *)
(* that is not active is refused after its code was used, as if the call   *)
(* had been lost there.                                                    *)
(***************************************************************************)
EXTENDS Naturals, Sequences, FiniteSets, FiniteSetsExt

CONSTANTS
    MaxAttempts,    \* config.otp.maxAttempts
    MaxPerHour,     \* config.otp.maxPerHour
    Overlap,        \* whether calls are handled at once
    MaxCodes,       \* bound: codes, all of one hour
    MaxLost,        \* bound: calls lost on the way
    Calls           \* the calls handled at once

VARIABLES
    mailbox,        \* the account with this address
    otps,           \* email_otps, oldest first
    call,           \* per call: the step it is at
    granted,        \* history: the sessions issued for each code
    tried,          \* history: the wrong codes compared with each code
    shown,          \* history: the codes that were presented and matched
    lost            \* calls that ended on the way

oneTimeCodeVars == <<mailbox, otps, call, granted, tried, shown, lost>>

Purposes == {"LOGIN", "SIGNUP", "EMAIL_VERIFICATION"}
Ids == 1..MaxCodes
Wrong == 0
Idle == [at |-> "idle"]

Init ==
    /\ mailbox \in {"none", "unverified"}
    /\ otps = <<>>
    /\ call = [c \in Calls |-> Idle]
    /\ granted = [i \in Ids |-> 0]
    /\ tried = [i \in Ids |-> 0]
    /\ shown = {}
    /\ lost = 0

Go(c, x) == call' = [call EXCEPT ![c] = x]
At(c, step) == call[c].at = step
MayStart(c) == call[c] = Idle /\ (Overlap \/ \A d \in Calls : call[d] = Idle)

Of(purpose) == {i \in DOMAIN otps : otps[i].purpose = purpose}
Used == {i \in DOMAIN otps : otps[i].used}

(* What a code for signing in or up is for is decided by the account alone.*)
SignInPurpose == IF mailbox = "none" THEN "SIGNUP" ELSE "LOGIN"

-----------------------------------------------------------------------------
(* requestOtp, and requestVerification of an account not verified yet.     *)
Request(c) ==
    /\ MayStart(c)
    /\ \E purpose \in {SignInPurpose} \cup
                      (IF mailbox = "unverified" THEN {"EMAIL_VERIFICATION"} ELSE {}) :
          Go(c, [at |-> "limits", purpose |-> purpose])
    /\ UNCHANGED <<mailbox, otps, granted, tried, shown, lost>>

(* The resend cooldown and the hourly cap, which may refuse the call.      *)
CheckLimits(c) ==
    LET sent == Of(call[c].purpose)
        cooling == sent # {} /\ otps[Max(sent)].age = "new"
    IN
    /\ At(c, "limits")
    /\ Go(c, IF cooling \/ Cardinality(sent) >= MaxPerHour THEN Idle
             ELSE [call[c] EXCEPT !.at = "retire"])
    /\ UNCHANGED <<mailbox, otps, granted, tried, shown, lost>>

(* Mutant: only the newest of them.                                        *)
RetiredNewest(purpose) == {i \in Of(purpose) : i = Len(otps)}

Retired(purpose) == Of(purpose)

invalidateActiveForEmail(c) ==
    /\ At(c, "retire")
    /\ otps' = [i \in DOMAIN otps |->
                   IF i \in Retired(call[c].purpose) THEN [otps[i] EXCEPT !.used = TRUE]
                   ELSE otps[i]]
    /\ Go(c, [call[c] EXCEPT !.at = "create"])
    /\ UNCHANGED <<mailbox, granted, tried, shown, lost>>

create(c) ==
    /\ At(c, "create") /\ Len(otps) < MaxCodes
    /\ otps' = Append(otps, [purpose |-> call[c].purpose, used |-> FALSE,
                             attempts |-> 0, age |-> "new"])
    /\ Go(c, Idle)
    /\ UNCHANGED <<mailbox, granted, tried, shown, lost>>

-----------------------------------------------------------------------------
(* verifyOtp, and confirmVerification of an account not verified yet, with *)
(* a code that was mailed or another.                                      *)
Verify(c) ==
    /\ MayStart(c)
    /\ \E guess \in DOMAIN otps \cup {Wrong},
          purpose \in {SignInPurpose} \cup
                      (IF mailbox = "unverified" THEN {"EMAIL_VERIFICATION"} ELSE {}) :
          Go(c, [at |-> "find", purpose |-> purpose, guess |-> guess, known |-> mailbox,
                 spent |-> Used])
    /\ UNCHANGED <<mailbox, otps, granted, tried, shown, lost>>

(* Mutant: the codes of every purpose.                                     *)
ActiveOfAny(purpose) == DOMAIN otps \ Used

ActiveOf(purpose) == Of(purpose) \ Used

(* The newest unused code, if it is neither expired nor locked.            *)
Acceptable(purpose) ==
    {i \in ActiveOf(purpose) :
        i = Max(ActiveOf(purpose)) /\ otps[i].age # "expired" /\ otps[i].attempts < MaxAttempts}

(* It is read and the presented code compared with it.                     *)
findLatestActiveByEmail(c) ==
    LET purpose == call[c].purpose IN
    /\ At(c, "find")
    /\ \/ /\ Acceptable(purpose) = {}
          /\ Go(c, Idle)
          /\ UNCHANGED <<tried, shown>>
       \/ /\ call[c].guess \in Acceptable(purpose)
          /\ shown' = shown \cup {call[c].guess}
          /\ Go(c, [call[c] EXCEPT !.at = "use"])
          /\ UNCHANGED tried
       \/ \E i \in Acceptable(purpose) \ {call[c].guess} :
             /\ tried' = [tried EXCEPT ![i] = @ + 1]
             /\ Go(c, [at |-> "count", otp |-> i, read |-> otps[i].attempts])
             /\ UNCHANGED shown
    /\ UNCHANGED <<mailbox, otps, granted, lost>>

(* Mutant: the counter is written from the row that was read.              *)
CountedFromRead(c) == call[c].read + 1

Counted(c) == otps[call[c].otp].attempts + 1

incrementAttempts(c) ==
    /\ At(c, "count")
    /\ otps' = [otps EXCEPT ![call[c].otp].attempts = Counted(c)]
    /\ Go(c, Idle)
    /\ UNCHANGED <<mailbox, granted, tried, shown, lost>>

(* Mutant: a code for signing in stays active.                             *)
AfterUseKept(i) == [otps[i] EXCEPT !.used = otps[i].purpose = "EMAIL_VERIFICATION"]

AfterUse(i) == [otps[i] EXCEPT !.used = TRUE]

(* Whether it is used already is not asked again.                          *)
markUsed(c) ==
    /\ At(c, "use")
    /\ otps' = [otps EXCEPT ![call[c].guess] = AfterUse(call[c].guess)]
    /\ Go(c, [call[c] EXCEPT !.at = IF call[c].known = "none" THEN "signup"
                                    ELSE IF call[c].known = "unverified" THEN "verify"
                                    ELSE "session"])
    /\ UNCHANGED <<mailbox, granted, tried, shown, lost>>

(* users.email is unique: of two sign-ups one fails.                       *)
createUser(c) ==
    /\ At(c, "signup")
    /\ mailbox' = IF mailbox = "none" THEN "unverified" ELSE mailbox
    /\ Go(c, IF mailbox = "none" THEN [call[c] EXCEPT !.at = "verify"] ELSE Idle)
    /\ UNCHANGED <<otps, granted, tried, shown, lost>>

setEmailVerified(c) ==
    /\ At(c, "verify")
    /\ mailbox' = "verified"
    /\ Go(c, IF call[c].purpose = "EMAIL_VERIFICATION" THEN Idle
             ELSE [call[c] EXCEPT !.at = "session"])
    /\ UNCHANGED <<otps, granted, tried, shown, lost>>

issueSession(c) ==
    /\ At(c, "session")
    /\ granted' = [granted EXCEPT ![call[c].guess] = @ + 1]
    /\ Go(c, Idle)
    /\ UNCHANGED <<mailbox, otps, tried, shown, lost>>

-----------------------------------------------------------------------------
Older(age) == IF age = "new" THEN "sent" ELSE "expired"

(* The cooldown after the newest code ends before any code expires.        *)
TimePasses ==
    /\ \E i \in DOMAIN otps : otps[i].age # "expired"
    /\ otps' = [i \in DOMAIN otps |-> [otps[i] EXCEPT !.age = Older(@)]]
    /\ UNCHANGED <<mailbox, call, granted, tried, shown, lost>>

(* The process stops between two steps.                                    *)
CallLost(c) ==
    /\ lost < MaxLost /\ call[c] # Idle
    /\ lost' = lost + 1
    /\ Go(c, Idle)
    /\ UNCHANGED <<mailbox, otps, granted, tried, shown>>

Step(c) ==
    \/ Request(c) \/ CheckLimits(c) \/ invalidateActiveForEmail(c) \/ create(c)
    \/ Verify(c) \/ findLatestActiveByEmail(c) \/ incrementAttempts(c) \/ markUsed(c)
    \/ createUser(c) \/ setEmailVerified(c) \/ issueSession(c) \/ CallLost(c)

Next == TimePasses \/ \E c \in Calls : Step(c)

Spec == Init /\ [][Next]_oneTimeCodeVars

-----------------------------------------------------------------------------
TypeOK ==
    /\ mailbox \in {"none", "unverified", "verified"}
    /\ Len(otps) <= MaxCodes
    /\ \A i \in DOMAIN otps :
          /\ otps[i].purpose \in Purposes /\ otps[i].used \in BOOLEAN
          /\ otps[i].attempts \in Nat /\ otps[i].age \in {"new", "sent", "expired"}
    /\ lost \in 0..MaxLost

(* "Only one active code at a time (per purpose)" and "single use":    *)
(* one call after the other, a code gives one session.                     *)
OneCodeOneSession ==
    ~Overlap => /\ \A i \in Ids : granted[i] <= 1
                /\ \A p \in Purposes : Cardinality(Of(p) \ Used) <= 1

(* No call gets in with a code that was used or retired before it began.   *)
SpentIsRefused ==
    \A c \in Calls :
        call[c].at \in {"use", "signup", "verify", "session"} =>
            call[c].guess \notin call[c].spent

(* "it can never collide with a LOGIN code": a code that verifies an       *)
(* address gives no session.                                               *)
PurposesKeptApart ==
    \A i \in DOMAIN otps : granted[i] > 0 => otps[i].purpose # "EMAIL_VERIFICATION"

(* "a code locks once it hits maxAttempts": the counter is read before the *)
(* code is compared and written after, so each call at once, and each lost *)
(* one, may try one code more.                                             *)
GuessesBounded ==
    \A i \in Ids : tried[i] <= MaxAttempts - 1 + Cardinality(Calls) + lost

(* An address is verified, and an account made of it, only by its codes.   *)
VerifiedIsShown ==
    /\ mailbox = "verified" => shown # {}
    /\ \A i \in Ids : granted[i] > 0 => i \in shown /\ mailbox # "none"

OneTimeCodesHold ==
    /\ TypeOK /\ OneCodeOneSession /\ SpentIsRefused /\ PurposesKeptApart
    /\ GuessesBounded /\ VerifiedIsShown
=============================================================================
