---------------------------- MODULE SecondFactor ----------------------------
(***************************************************************************)
(* The second factor of one user (backend/src/modules/user-security/):     *)
(* enrolment of a TOTP secret, its codes and the one-time recovery codes,  *)
(* the lock after failed attempts, kept in Redis, and what a verified code *)
(* is asked for: login, step-up, disabling, new recovery codes.            *)
(***************************************************************************)
EXTENDS Naturals, FiniteSets

CONSTANTS
    MaxFails,           \* SECOND_FACTOR_MAX_FAILS
    BatchSize,          \* BACKUP_CODE_COUNT
    EnrolmentOverlaps,  \* whether other calls run during setup and confirm
    MaxBatches,         \* bound: batches of recovery codes
    MaxSecrets,         \* bound: secrets generated
    MaxChallenges,      \* bound: login challenges
    MaxLost,            \* bound: calls lost on the way
    Calls               \* the calls handled at once

VARIABLES
    user,           \* users: whether TOTP is enabled, the sealed secret
    codes,          \* the unused rows of totp_recovery_codes
    fails,          \* the counter of failures in Redis, and whether it expires
    challenges,     \* the live login challenges in Redis
    call,           \* per call: the step it is at
    made,           \* how many secrets, batches and challenges were generated
    confirmed,      \* history: the secrets a code was shown of
    accepted,       \* history: how often each recovery code was accepted
    logins,         \* history: the sessions each challenge was exchanged for
    guesses,        \* history: wrong codes tried since the counter was cleared
    lost            \* calls that ended on the way

secondFactorVars == <<user, codes, fails, challenges, call, made, confirmed,
                      accepted, logins, guesses, lost>>

NoSecret == 0
Disabled == [enabled |-> FALSE, secret |-> NoSecret]
NoFails == [count |-> 0, expires |-> FALSE]
Idle == [at |-> "idle", for |-> "nothing"]

RecoveryCodes == (1..MaxBatches) \X (1..BatchSize)

Counting == [at |-> "count", for |-> "failure"]

Init ==
    /\ user = Disabled
    /\ codes = {}
    /\ fails = NoFails
    /\ challenges = {}
    /\ call = [c \in Calls |-> Idle]
    /\ made = [secrets |-> 0, batches |-> 0, challenges |-> 0]
    /\ confirmed = {}
    /\ accepted = [k \in RecoveryCodes |-> 0]
    /\ logins = [n \in 1..MaxChallenges |-> 0]
    /\ guesses = 0
    /\ lost = 0

Go(c, x) == call' = [call EXCEPT ![c] = x]
At(c, step) == call[c].at = step
Quiet == \A c \in Calls : call[c] = Idle

MayStart(c) ==
    /\ call[c] = Idle
    /\ EnrolmentOverlaps \/ \A d \in Calls : call[d].for # "enrolment"

MayEnrol(c) == call[c] = Idle /\ (EnrolmentOverlaps \/ Quiet)

-----------------------------------------------------------------------------
(* Mutant: a user who has TOTP enabled may set it up again.                *)
MaySetUpAgain == TRUE

MaySetUp == ~user.enabled

setup(c) ==
    /\ MayEnrol(c) /\ MaySetUp
    /\ Go(c, [at |-> "seal", for |-> "enrolment"])
    /\ UNCHANGED <<user, codes, fails, challenges, made, confirmed, accepted, logins,
                   guesses, lost>>

setTotpSecret(c) ==
    /\ At(c, "seal") /\ made.secrets < MaxSecrets
    /\ made' = [made EXCEPT !.secrets = @ + 1]
    /\ user' = [user EXCEPT !.secret = made'.secrets]
    /\ Go(c, Idle)
    /\ UNCHANGED <<codes, fails, challenges, confirmed, accepted, logins, guesses, lost>>

(* confirm with a code of the secret it reads.                             *)
confirm(c) ==
    /\ MayEnrol(c) /\ ~user.enabled /\ user.secret # NoSecret
    /\ confirmed' = confirmed \cup {user.secret}
    /\ Go(c, [at |-> "enable", for |-> "enrolment"])
    /\ UNCHANGED <<user, codes, fails, challenges, made, accepted, logins, guesses, lost>>

enableTotp(c) ==
    /\ At(c, "enable")
    /\ user' = [user EXCEPT !.enabled = TRUE]
    /\ Go(c, [at |-> "replace", for |-> "enrolment"])
    /\ UNCHANGED <<codes, fails, challenges, made, confirmed, accepted, logins, guesses,
                   lost>>

(* The old codes are deleted and the new ones inserted in one transaction. *)
replaceRecoveryCodes(c) ==
    /\ At(c, "replace") /\ made.batches < MaxBatches
    /\ made' = [made EXCEPT !.batches = @ + 1]
    /\ codes' = {made'.batches} \X (1..BatchSize)
    /\ Go(c, Idle)
    /\ UNCHANGED <<user, fails, challenges, confirmed, accepted, logins, guesses, lost>>

-----------------------------------------------------------------------------
(* disable, regenerateBackupCodes and stepUp read that TOTP is enabled,    *)
(* then have the code verified.                                            *)
Ask(c) ==
    /\ MayStart(c) /\ user.enabled
    /\ \E purpose \in {"disable", "regenerate", "stepUp"} :
          Go(c, [at |-> "lock", for |-> purpose])
    /\ UNCHANGED <<user, codes, fails, challenges, made, confirmed, accepted, logins,
                   guesses, lost>>

(* A login whose password was right.                                       *)
issueLoginChallenge ==
    /\ user.enabled /\ made.challenges < MaxChallenges
    /\ made' = [made EXCEPT !.challenges = @ + 1]
    /\ challenges' = challenges \cup {made'.challenges}
    /\ UNCHANGED <<user, codes, fails, call, confirmed, accepted, logins, guesses, lost>>

(* Mutant: the challenge is read and not deleted.                          *)
AfterRedeemingKept(n) == challenges

AfterRedeeming(n) == challenges \ {n}

(* verify2fa: the challenge is gone, whatever comes of the code.           *)
consumeLoginChallenge(c) ==
    /\ MayStart(c)
    /\ \E n \in challenges :
          /\ challenges' = AfterRedeeming(n)
          /\ Go(c, [at |-> "lock", for |-> "login", challenge |-> n])
    /\ UNCHANGED <<user, codes, fails, made, confirmed, accepted, logins, guesses, lost>>

-----------------------------------------------------------------------------
(* Mutant: one failure more.                                               *)
LockedAfterOneMore(count) == count > MaxFails

Locked(count) == count >= MaxFails

assertSecondFactorNotLocked(c) ==
    /\ At(c, "lock")
    /\ Go(c, IF Locked(fails.count) THEN Idle ELSE [call[c] EXCEPT !.at = "check"])
    /\ UNCHANGED <<user, codes, fails, challenges, made, confirmed, accepted, logins,
                   guesses, lost>>

(* Whatever code came with the call is compared with the secret of the     *)
(* user as read now; one that looks like a recovery code is looked for     *)
(* among those next.                                                       *)
verifyTotp(c) ==
    /\ At(c, "check")
    /\ \/ /\ ~user.enabled
          /\ Go(c, Idle)
          /\ UNCHANGED guesses
       \/ /\ user.enabled /\ user.secret # NoSecret
          /\ Go(c, [call[c] EXCEPT !.at = "clear"])
          /\ UNCHANGED guesses
       \/ /\ user.enabled
          /\ \E k \in RecoveryCodes :
                Go(c, [at |-> "consume", for |-> call[c].for, code |-> k, then |-> call[c]])
          /\ UNCHANGED guesses
       \/ /\ user.enabled
          /\ guesses' = guesses + 1
          /\ Go(c, Counting)
    /\ UNCHANGED <<user, codes, fails, challenges, made, confirmed, accepted, logins, lost>>

(* Mutant: the update does not ask for unused rows.                        *)
MayConsumeUsed(k) == k[1] = made.batches

MayConsume(k) == k \in codes

consumeRecoveryCode(c) ==
    LET k == call[c].code IN
    /\ At(c, "consume")
    /\ \/ /\ MayConsume(k)
          /\ codes' = codes \ {k}
          /\ accepted' = [accepted EXCEPT ![k] = @ + 1]
          /\ Go(c, [call[c].then EXCEPT !.at = "clear"])
          /\ UNCHANGED guesses
       \/ /\ ~MayConsume(k)
          /\ guesses' = guesses + 1
          /\ Go(c, Counting)
          /\ UNCHANGED <<codes, accepted>>
    /\ UNCHANGED <<user, fails, challenges, made, confirmed, logins, lost>>

clearSecondFactorFailures(c) ==
    /\ At(c, "clear")
    /\ fails' = NoFails
    /\ guesses' = 0
    /\ Go(c, [call[c] EXCEPT !.at = IF call[c].for = "regenerate"
                                    THEN "replace" ELSE "granted"])
    /\ UNCHANGED <<user, codes, challenges, made, confirmed, accepted, logins, lost>>

(* Mutant: the counter expires once the lock has been reached.             *)
MustExpireLocked(count) == count = MaxFails

MustExpire(count) == count = 1

(* recordSecondFactorFailure: INCR, and PEXPIRE by whoever counted one.    *)
countFailure(c) ==
    /\ At(c, "count")
    /\ fails' = [fails EXCEPT !.count = @ + 1]
    /\ Go(c, IF MustExpire(fails'.count) THEN [at |-> "expire", for |-> "failure"]
             ELSE Idle)
    /\ UNCHANGED <<user, codes, challenges, made, confirmed, accepted, logins, guesses,
                   lost>>

expireFailures(c) ==
    /\ At(c, "expire")
    /\ fails' = [fails EXCEPT !.expires = fails.count > 0]
    /\ Go(c, Idle)
    /\ UNCHANGED <<user, codes, challenges, made, confirmed, accepted, logins, guesses,
                   lost>>

(* Redis drops the counter at the end of the window.                       *)
WindowEnds ==
    /\ fails.expires
    /\ fails' = NoFails
    /\ guesses' = 0
    /\ UNCHANGED <<user, codes, challenges, call, made, confirmed, accepted, logins, lost>>

-----------------------------------------------------------------------------
disableTotp(c) ==
    /\ At(c, "granted") /\ call[c].for = "disable"
    /\ user' = Disabled
    /\ codes' = {}
    /\ Go(c, Idle)
    /\ UNCHANGED <<fails, challenges, made, confirmed, accepted, logins, guesses, lost>>

(* The session, or the step-up token.                                      *)
Grant(c) ==
    /\ At(c, "granted") /\ call[c].for \in {"stepUp", "login"}
    /\ logins' = IF call[c].for = "login"
                 THEN [logins EXCEPT ![call[c].challenge] = @ + 1] ELSE logins
    /\ Go(c, Idle)
    /\ UNCHANGED <<user, codes, fails, challenges, made, confirmed, accepted, guesses,
                   lost>>

adminResetUser2fa ==
    /\ EnrolmentOverlaps \/ \A d \in Calls : call[d].for # "enrolment"
    /\ user' = Disabled
    /\ codes' = {}
    /\ UNCHANGED <<fails, challenges, call, made, confirmed, accepted, logins, guesses,
                   lost>>

(* The process stops between two steps.                                    *)
CallLost(c) ==
    /\ lost < MaxLost
    /\ call[c] # Idle
    /\ lost' = lost + 1
    /\ Go(c, Idle)
    /\ UNCHANGED <<user, codes, fails, challenges, made, confirmed, accepted, logins,
                   guesses>>

Step(c) ==
    \/ setup(c) \/ setTotpSecret(c) \/ confirm(c) \/ enableTotp(c)
    \/ replaceRecoveryCodes(c) \/ Ask(c) \/ consumeLoginChallenge(c)
    \/ assertSecondFactorNotLocked(c) \/ verifyTotp(c) \/ consumeRecoveryCode(c)
    \/ clearSecondFactorFailures(c) \/ countFailure(c) \/ expireFailures(c)
    \/ disableTotp(c) \/ Grant(c) \/ CallLost(c)

Next ==
    \/ issueLoginChallenge \/ adminResetUser2fa \/ WindowEnds
    \/ \E c \in Calls : Step(c)

Spec == Init /\ [][Next]_secondFactorVars

-----------------------------------------------------------------------------
TypeOK ==
    /\ user \in [enabled : BOOLEAN, secret : 0..MaxSecrets]
    /\ fails.count \in Nat /\ fails.expires \in BOOLEAN
    /\ challenges \subseteq 1..MaxChallenges
    /\ lost \in 0..MaxLost

(* A recovery code lets one call through, of all that present it at once,  *)
(* and a replaced batch none; a login challenge gives one session.         *)
CodesUsedOnce ==
    /\ \A k \in RecoveryCodes : accepted[k] <= 1
    /\ codes \subseteq {made.batches} \X (1..BatchSize)
    /\ \A n \in 1..MaxChallenges : logins[n] <= 1

(* The lock is read before the code is compared and counted after: of the  *)
(* calls at once each may try one code too many, and each lost one another.*)
GuessesBounded == guesses <= MaxFails - 1 + Cardinality(Calls) + lost

(* The lock ends: the counter expires, if no call that was to see to it    *)
(* was lost.                                                               *)
LockoutEnds == Quiet /\ lost = 0 /\ fails.count > 0 => fails.expires

(* TOTP is on only with a secret the user has shown a code of.             *)
EnabledIsConfirmed == user.enabled => user.secret \in confirmed

SecondFactorHolds ==
    TypeOK /\ CodesUsedOnce /\ GuessesBounded /\ LockoutEnds /\ EnabledIsConfirmed
=============================================================================
