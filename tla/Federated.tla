------------------------------ MODULE Federated ------------------------------
(***************************************************************************)
(* Signing in with Google or Apple                                         *)
(* (backend/src/modules/auth/auth.federated.service.ts): an identity that  *)
(* no account has leads to a challenge, which links it to the account with *)
(* its email once a mailed code is shown, or opens an account for it.      *)
(* Tokens are verified by the provider, accounts also come from elsewhere, *)
(* and none is suspended or deleted.                                       *)
(***************************************************************************)
EXTENDS Naturals, Sequences, FiniteSets, TLC

CONSTANTS
    Subjects,       \* identities at the provider
    Emails,         \* addresses; an account is known by its own
    EmailOf,        \* the verified address of an identity
    Legacy,         \* the account of an identity in oauth_accounts, or NoEmail
    NoEmail,
    Phones,         \* the numbers a registration may name
    NoPhone,        \* users.phone is null, or the call names no number
    MaxAttempts,    \* LINK_OTP_MAX_ATTEMPTS
    MaxChallenges,  \* bound: challenges
    MaxLost,        \* bound: calls lost on the way
    Calls           \* the calls handled at once

VARIABLES
    accounts,       \* the addresses that have an account
    phones,         \* the numbers that belong to an account
    linked,         \* user_federated_identities: the account of an identity
    challenges,     \* the challenges issued, oldest first, with their code
    call,           \* per call: the step it is at
    signedIn,       \* history: who was signed in as whom
    opened,         \* history: accounts opened for an identity
    redeemed,       \* history: the numbers named when each challenge was redeemed
    compared,       \* history: the wrong codes and whether the right one was shown
    lost            \* calls that ended on the way

federatedVars == <<accounts, phones, linked, challenges, call, signedIn, opened,
                   redeemed, compared, lost>>

Purposes == {"LINK_EXISTING", "REGISTER_NEW"}
Tokens == 1..MaxChallenges
Idle == [at |-> "idle"]
NoCode == [sent |-> FALSE, attempts |-> 0]

Init ==
    /\ accounts \in {A \in SUBSET Emails : \A s \in Subjects : Legacy[s] \in A \cup {NoEmail}}
    /\ phones \in SUBSET Phones
    /\ Cardinality(phones) <= Cardinality(accounts)
    /\ linked = [s \in Subjects |-> NoEmail]
    /\ challenges = <<>>
    /\ call = [c \in Calls |-> Idle]
    /\ signedIn = {} /\ opened = {}
    /\ redeemed = [t \in Tokens |-> <<>>]
    /\ compared = [t \in Tokens |-> [wrong |-> 0, right |-> FALSE]]
    /\ lost = 0

Go(c, x) == call' = [call EXCEPT ![c] = x]
At(c, step) == call[c].at = step
histories == <<signedIn, opened, redeemed, compared, lost>>

SignIn(c, s, e) == [at |-> "session", subject |-> s, account |-> e]

-----------------------------------------------------------------------------
(* login: the identity's own account first, then the one oauth_accounts    *)
(* has for it, whatever its address, which is linked on the way; an error  *)
(* of that link is ignored.                                                *)
login(c) ==
    /\ call[c] = Idle
    /\ \E s \in Subjects : Go(c, [at |-> "find", subject |-> s])
    /\ UNCHANGED <<accounts, phones, linked, challenges, histories>>

findFederatedIdentityWithUser(c) ==
    LET s == call[c].subject IN
    /\ At(c, "find")
    /\ Go(c, IF linked[s] # NoEmail THEN SignIn(c, s, linked[s])
             ELSE IF Legacy[s] # NoEmail THEN [at |-> "migrate", subject |-> s]
             ELSE [at |-> "email", subject |-> s])
    /\ UNCHANGED <<accounts, phones, linked, challenges, histories>>

(* The session is issued before the identity is moved.                     *)
migrate(c) ==
    LET s == call[c].subject IN
    /\ At(c, "migrate")
    /\ signedIn' = signedIn \cup {<<s, Legacy[s]>>}
    /\ Go(c, [at |-> "move", subject |-> s])
    /\ UNCHANGED <<accounts, phones, linked, challenges, opened, redeemed, compared, lost>>

linkMigrated(c) ==
    LET s == call[c].subject IN
    /\ At(c, "move")
    /\ linked' = [linked EXCEPT ![s] = IF @ = NoEmail THEN Legacy[s] ELSE @]
    /\ Go(c, Idle)
    /\ UNCHANGED <<accounts, phones, challenges, histories>>

(* Mutant: an account with the address is taken for the identity's own.    *)
AfterEmailLinked(c, s) ==
    IF EmailOf[s] \in accounts THEN [at |-> "link", token |-> 0, subject |-> s]
    ELSE [at |-> "issue", subject |-> s, purpose |-> "REGISTER_NEW"]

AfterEmail(c, s) ==
    [at |-> "issue", subject |-> s,
     purpose |-> IF EmailOf[s] \in accounts THEN "LINK_EXISTING" ELSE "REGISTER_NEW"]

findUserByEmail(c) ==
    /\ At(c, "email")
    /\ Go(c, AfterEmail(c, call[c].subject))
    /\ UNCHANGED <<accounts, phones, linked, challenges, histories>>

issueChallenge(c) ==
    /\ At(c, "issue") /\ Len(challenges) < MaxChallenges
    /\ challenges' = Append(challenges,
          [purpose |-> call[c].purpose, subject |-> call[c].subject,
           state |-> "live", code |-> NoCode])
    /\ Go(c, Idle)
    /\ UNCHANGED <<accounts, phones, linked, histories>>

-----------------------------------------------------------------------------
(* requestLinkOtp looks at the challenge and stores a new code under its   *)
(* token, in place of the one before; the challenge may have been redeemed *)
(* in between.                                                             *)
requestLinkOtp(c) ==
    /\ call[c] = Idle
    /\ \E t \in DOMAIN challenges :
          /\ challenges[t].state = "live" /\ challenges[t].purpose = "LINK_EXISTING"
          /\ Go(c, [at |-> "mail", token |-> t])
    /\ UNCHANGED <<accounts, phones, linked, challenges, histories>>

storeLinkOtp(c) ==
    /\ At(c, "mail")
    /\ challenges' = [challenges EXCEPT ![call[c].token].code = [sent |-> TRUE, attempts |-> 0]]
    /\ Go(c, Idle)
    /\ UNCHANGED <<accounts, phones, linked, histories>>

(* confirmLink with a code, right or wrong, and completeRegistration with  *)
(* a number, each with any token.                                          *)
Redeem(c) ==
    /\ call[c] = Idle
    /\ \E t \in DOMAIN challenges :
          \/ \E right \in BOOLEAN :
                Go(c, [at |-> "peek", token |-> t, purpose |-> "LINK_EXISTING",
                       right |-> right, phone |-> NoPhone])
          \/ \E phone \in Phones :
                Go(c, [at |-> "peek", token |-> t, purpose |-> "REGISTER_NEW",
                       right |-> TRUE, phone |-> phone])
    /\ UNCHANGED <<accounts, phones, linked, challenges, histories>>

(* Mutant: the purpose is looked at after the token was taken.             *)
MayTakeAny(t, p) == challenges[t].state = "live"

MayTake(t, p) == challenges[t].state = "live" /\ challenges[t].purpose = p

(* consumeChallenge reads the challenge, then takes it from Redis.         *)
peekChallenge(c) ==
    /\ At(c, "peek")
    /\ Go(c, IF MayTake(call[c].token, call[c].purpose) THEN [call[c] EXCEPT !.at = "take"]
             ELSE Idle)
    /\ UNCHANGED <<accounts, phones, linked, challenges, histories>>

(* Mutant: that another call took it meanwhile is not noticed.             *)
StillThereAlways(t) == TRUE

StillThere(t) == challenges[t].state = "live"

takeChallenge(c) ==
    LET t == call[c].token IN
    /\ At(c, "take")
    /\ \/ /\ StillThere(t)
          /\ challenges' = [challenges EXCEPT ![t].state = "gone"]
          /\ redeemed' = [redeemed EXCEPT ![t] = Append(@, call[c].phone)]
          /\ Go(c, IF challenges[t].purpose # call[c].purpose THEN Idle
                   ELSE IF call[c].purpose = "REGISTER_NEW"
                   THEN [at |-> "open", token |-> t, phone |-> call[c].phone]
                   ELSE [at |-> "code", token |-> t, right |-> call[c].right])
       \/ /\ ~StillThere(t)
          /\ Go(c, Idle)
          /\ UNCHANGED <<challenges, redeemed>>
    /\ UNCHANGED <<accounts, phones, linked, signedIn, opened, compared, lost>>

-----------------------------------------------------------------------------
(* Mutant: what was presented is not compared with the code.               *)
CodePassesAny(t, right) == challenges[t].code.sent

CodePasses(t, right) ==
    challenges[t].code.sent /\ challenges[t].code.attempts < MaxAttempts /\ right

(* The code is read, compared, and counted against or deleted.  Only the   *)
(* call that took the challenge is here, so the code changes by a late     *)
(* storeLinkOtp alone, and the steps are taken as one.                     *)
compareCode(c) ==
    LET t == call[c].token
        code == challenges[t].code
        right == call[c].right
        passes == CodePasses(t, right)
    IN
    /\ At(c, "code")
    /\ challenges' = [challenges EXCEPT ![t].code =
          IF ~code.sent \/ passes \/ code.attempts >= MaxAttempts THEN NoCode
          ELSE [code EXCEPT !.attempts = @ + 1]]
    /\ compared' = [compared EXCEPT ![t] =
          [wrong |-> @.wrong + (IF code.sent /\ ~right THEN 1 ELSE 0),
           right |-> @.right \/ (code.sent /\ right)]]
    /\ Go(c, IF passes THEN [at |-> "link", token |-> t, subject |-> challenges[t].subject]
             ELSE Idle)
    /\ UNCHANGED <<accounts, phones, linked, signedIn, opened, redeemed, lost>>

(* (provider, provider_subject) is unique: a second link fails.            *)
linkFederatedIdentity(c) ==
    LET s == call[c].subject IN
    /\ At(c, "link")
    /\ IF linked[s] = NoEmail
       THEN /\ linked' = [linked EXCEPT ![s] = EmailOf[s]]
            /\ Go(c, SignIn(c, s, EmailOf[s]))
       ELSE Go(c, Idle) /\ UNCHANGED linked
    /\ UNCHANGED <<accounts, phones, challenges, histories>>

(* users.email and users.phone are unique, too: account and identity come  *)
(* together or, as the insert throws, not at all.                          *)
MayOpen(s, phone) ==
    linked[s] = NoEmail /\ EmailOf[s] \notin accounts /\ phone \notin phones

createUserWithFederatedIdentity(c) ==
    LET s == challenges[call[c].token].subject
        phone == call[c].phone
    IN
    /\ At(c, "open")
    /\ IF MayOpen(s, phone)
       THEN /\ accounts' = accounts \cup {EmailOf[s]}
            /\ phones' = phones \cup {phone}
            /\ linked' = [linked EXCEPT ![s] = EmailOf[s]]
            /\ opened' = opened \cup {s}
            /\ Go(c, SignIn(c, s, EmailOf[s]))
       ELSE Go(c, Idle) /\ UNCHANGED <<accounts, phones, linked, opened>>
    /\ UNCHANGED <<challenges, signedIn, redeemed, compared, lost>>

(* The session, or the challenge for the second factor.                    *)
authenticateExistingUser(c) ==
    /\ At(c, "session")
    /\ signedIn' = signedIn \cup {<<call[c].subject, call[c].account>>}
    /\ Go(c, Idle)
    /\ UNCHANGED <<accounts, phones, linked, challenges, opened, redeemed, compared, lost>>

-----------------------------------------------------------------------------
(* Somebody signs up with an address otherwise, and with a number or none. *)
SignUpElsewhere ==
    /\ \E e \in Emails \ accounts : accounts' = accounts \cup {e}
    /\ \E used \in {{}} \cup {{phone} : phone \in Phones \ phones} :
          phones' = phones \cup used
    /\ UNCHANGED <<linked, challenges, call, histories>>

ChallengeExpires ==
    /\ \E t \in DOMAIN challenges :
          /\ challenges[t].state = "live"
          /\ challenges' = [challenges EXCEPT ![t].state = "expired"]
    /\ UNCHANGED <<accounts, phones, linked, call, histories>>

CodeExpires ==
    /\ \E t \in DOMAIN challenges :
          /\ challenges[t].code.sent
          /\ challenges' = [challenges EXCEPT ![t].code = NoCode]
    /\ UNCHANGED <<accounts, phones, linked, call, histories>>

(* The process stops between two steps.                                    *)
CallLost(c) ==
    /\ lost < MaxLost /\ call[c] # Idle
    /\ lost' = lost + 1
    /\ Go(c, Idle)
    /\ UNCHANGED <<accounts, phones, linked, challenges, signedIn, opened, redeemed, compared>>

Step(c) ==
    \/ login(c) \/ findFederatedIdentityWithUser(c) \/ migrate(c) \/ linkMigrated(c)
    \/ findUserByEmail(c) \/ issueChallenge(c) \/ requestLinkOtp(c) \/ storeLinkOtp(c)
    \/ Redeem(c) \/ peekChallenge(c) \/ takeChallenge(c) \/ compareCode(c)
    \/ linkFederatedIdentity(c) \/ createUserWithFederatedIdentity(c)
    \/ authenticateExistingUser(c) \/ CallLost(c)

Next ==
    \/ SignUpElsewhere \/ ChallengeExpires \/ CodeExpires
    \/ \E c \in Calls : Step(c)

Spec == Init /\ [][Next]_federatedVars

-----------------------------------------------------------------------------
TypeOK ==
    /\ accounts \subseteq Emails /\ phones \subseteq Phones
    /\ \A s \in Subjects : linked[s] \in Emails \cup {NoEmail}
    /\ Len(challenges) <= MaxChallenges
    /\ \A t \in DOMAIN challenges :
          /\ challenges[t].purpose \in Purposes
          /\ challenges[t].state \in {"live", "gone", "expired"}
          /\ challenges[t].code.attempts \in 0..MaxAttempts
    /\ lost \in 0..MaxLost

(* The challenges for an identity on which the right code was shown.       *)
ShownFor(s) ==
    {t \in DOMAIN challenges : challenges[t].subject = s /\ compared[t].right}

(* "a verified-email match against an existing account is NEVER            *)
(* auto-linked": an identity belongs to the account opened for it, to the  *)
(* one it had, or to the one whose mailed code was shown.                  *)
NeverAutoLinked ==
    \A s \in Subjects : linked[s] # NoEmail =>
        /\ linked[s] \in accounts
        /\ linked[s] = Legacy[s] \/ (linked[s] = EmailOf[s]
                                     /\ (s \in opened \/ ShownFor(s) # {}))

(* Nobody is signed in to an account the identity does not belong to.      *)
SignedInAsOwner ==
    \A s \in Subjects, e \in Emails :
        <<s, e>> \in signedIn => e \in {linked[s], Legacy[s]}

(* "single-use": a challenge is redeemed once, by calls at once as well,   *)
(* so that one code at most is compared for it.                            *)
ChallengeRedeemedOnce ==
    \A t \in Tokens :
        /\ Len(redeemed[t]) <= 1
        /\ compared[t].wrong + (IF compared[t].right THEN 1 ELSE 0) <= 1

(* "can never burn an otherwise-valid challenge": a challenge to register  *)
(* is gone after its own endpoint only: the call is at the account, or     *)
(* opened it, or was refused the account as the address, the identity or   *)
(* the number it named was taken: that one burns the challenge as well.    *)
WrongEndpointKeeps ==
    \A t \in DOMAIN challenges :
        LET s == challenges[t].subject IN
        challenges[t].state = "gone" /\ challenges[t].purpose = "REGISTER_NEW" =>
            \/ \E c \in Calls : call[c].at = "open" /\ call[c].token = t
            \/ EmailOf[s] \in accounts
            \/ \E i \in DOMAIN redeemed[t] : redeemed[t][i] \in phones
            \/ lost > 0

FederatedHolds ==
    /\ TypeOK /\ NeverAutoLinked /\ SignedInAsOwner /\ ChallengeRedeemedOnce
    /\ WrongEndpointKeeps

(* "rejects a wrong OTP without consuming the link challenge".             *)
WrongCodeKeepsChallenge ==
    \A t \in DOMAIN challenges :
        compared[t].wrong > 0 /\ ~compared[t].right => challenges[t].state # "gone"
=============================================================================
