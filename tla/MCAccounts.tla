----------------------------- MODULE MCAccounts -----------------------------
(***************************************************************************)
(* Who users and admins are, and what they may do: sessions, codes, the    *)
(* second factor, sign-in with a provider, KYC, the compliance review and  *)
(* monitoring, and the access of admins.                                   *)
(*                                                                         *)
(* "logins", "sessions": three calls at once on the sessions of the user,  *)
(* and two with a change or a reset of the password, one of them lost.     *)
(* "codes", "codesOverlap": codes that are mailed and presented, one call  *)
(* after the other, one lost, and two at once.  "factor", "enrolment": two *)
(* calls at once with a code, one of them lost, of one secret with a       *)
(* login, or of two secrets enrolled in turn.  "kyc", "kycOverlap":        *)
(* submissions, events, polls and decisions, one after the other, and two  *)
(* at once, one of them lost.  "onboarding": these and the compliance      *)
(* review, one after the other, one of them lost.  "admins": the calls of  *)
(* two admins about each other, one after the other, one of them lost.     *)
(* "federated": two calls at once of an identity that is new and one that  *)
(* has an account already, one lost.  "cases", "casesOverlap": monitoring  *)
(* and the cases of admins, one call after the other, one lost, and two at *)
(* once in the case of the day.                                            *)
(***************************************************************************)
EXTENDS Naturals, TLC

CONSTANTS Scenarios, Calls, Pair

VARIABLES scenario, session, password, resets, exchanges, before, user, codes, fails,
          challenges, made, confirmed, accepted, logins, guesses, profile, account,
          sessions, event, about, compliance, checks, mailbox, otps, tried,
          shown, admin, roles, live, cache, granted, accounts, phones, linked, links, signedIn,
          opened, redeemed, compared, alerts, cases, risk, dropped, call, lost

Logins == INSTANCE Sessions WITH
    MaxSessions <- 3, MaxRefreshes <- 1, MaxPasswords <- 1, MaxLost <- 0

Login == INSTANCE Sessions WITH
    MaxSessions <- 3, MaxRefreshes <- 1, MaxPasswords <- 2, MaxLost <- 1, Calls <- Pair

ASSUME SessionParameters == Logins!Parameters /\ Login!Parameters

Factor == INSTANCE SecondFactor WITH
    MaxFails <- 2, BatchSize <- 1, EnrolmentOverlaps <- FALSE, MaxBatches <- 1,
    MaxSecrets <- 1, MaxChallenges <- 1, MaxLost <- 1, Calls <- Pair

Enrolment == INSTANCE SecondFactor WITH
    MaxFails <- 2, BatchSize <- 1, EnrolmentOverlaps <- FALSE, MaxBatches <- 2,
    MaxSecrets <- 2, MaxChallenges <- 0, MaxLost <- 1, Calls <- Pair

Review == INSTANCE Kyc WITH
    Overlap <- FALSE, DefaultTier <- 1,
    Outcomes <- {"PENDING", "MANUAL_REVIEW", "APPROVED", "REJECTED"},
    MaxSessions <- 2, MaxLost <- 0, Calls <- {"only"}

ReviewOverlap == INSTANCE Kyc WITH
    Overlap <- TRUE, Outcomes <- {"APPROVED", "REJECTED"}, DefaultTier <- 1,
    MaxSessions <- 1, MaxLost <- 1, Calls <- Pair

CategoryOrder == <<"SANCTIONS", "PEP">>

Onboarding == INSTANCE Compliance WITH
    Overlap <- FALSE, Outcomes <- {"APPROVED"}, DefaultTier <- 1,
    MaxSessions <- 1, MaxLost <- 1, Calls <- {"only"}, CATEGORY_ORDER <- CategoryOrder,
    RequireSanctions <- TRUE

Codes == INSTANCE OneTimeCode WITH
    MaxAttempts <- 2, MaxPerHour <- 2, Overlap <- FALSE, MaxCodes <- 3,
    MaxLost <- 1, Calls <- {"only"}

CodesOverlap == INSTANCE OneTimeCode WITH
    MaxAttempts <- 2, MaxPerHour <- 2, Overlap <- TRUE, MaxCodes <- 2,
    MaxLost <- 0, Calls <- Pair

Admins == INSTANCE AdminAccess WITH
    Admins <- {"root", "other"}, First <- "root", Overlap <- FALSE, MaxPasswords <- 1,
    MaxLost <- 1, Calls <- {"only"}

Identities == {"new", "legacy"}
MCEmailOf == [s \in Identities |-> "alice@"]
MCLegacy == [s \in Identities |-> IF s = "legacy" THEN "bob@" ELSE "none"]

Provider == INSTANCE Federated WITH
    Subjects <- Identities, Emails <- {"alice@", "bob@"}, EmailOf <- MCEmailOf,
    Legacy <- MCLegacy, NoEmail <- "none", Phones <- {"+91"}, NoPhone <- "none",
    MaxAttempts <- 5, MaxChallenges <- 2,
    MaxLost <- 1, Calls <- Pair, challenges <- links

Cases == INSTANCE Monitoring WITH
    Findings <- {"LOW", "CRITICAL"}, CaseIds <- {"auto", "manual"}, Overlap <- FALSE,
    MaxLost <- 1, Calls <- {"only"}

CasesOverlap == INSTANCE Monitoring WITH
    Findings <- {"HIGH", "CRITICAL"}, CaseIds <- {"auto"}, Overlap <- TRUE,
    MaxLost <- 0, Calls <- Pair

-----------------------------------------------------------------------------
sessionVars == <<session, password, resets, exchanges, before>>
factorVars == <<user, codes, fails, challenges, made, confirmed, accepted, logins, guesses>>
reviewVars == <<profile, account, sessions, event, about>>
screeningVars == <<compliance, checks>>
codeVars == <<mailbox, otps, tried, shown>>
adminVars == <<admin, roles, live, cache>>
federatedVars == <<accounts, phones, linked, links, signedIn, opened, redeemed, compared>>
monitoringVars == <<alerts, cases, risk, dropped>>

(* Of the components a scenario does not run, nothing is kept.             *)
NoSessions ==
    session = <<>> /\ password = 0 /\ resets = 0 /\ exchanges = <<>> /\ before = {}

NoFactor ==
    /\ user = <<>> /\ codes = {} /\ fails = <<>> /\ challenges = {} /\ made = <<>>
    /\ confirmed = {} /\ accepted = <<>> /\ logins = <<>> /\ guesses = 0

NoReview ==
    profile = <<>> /\ account = <<>> /\ sessions = 0 /\ event = <<>> /\ about = 0

NoScreening == compliance = <<>> /\ checks = <<>>

NoCodes == mailbox = "none" /\ otps = <<>> /\ tried = <<>> /\ shown = {}

NoAdmins == admin = <<>> /\ roles = <<>> /\ live = <<>> /\ cache = <<>>

NoFederated ==
    /\ accounts = {} /\ phones = {} /\ linked = <<>> /\ links = <<>> /\ signedIn = {}
    /\ opened = {} /\ redeemed = <<>> /\ compared = <<>>

NoMonitoring == alerts = <<>> /\ cases = <<>> /\ risk = FALSE /\ dropped = {}

Mailing == {"codes", "codesOverlap"}
Watching == {"cases", "casesOverlap"}
Granting == Mailing \cup {"admins"}
Visits == {"logins", "sessions"}
Factors == {"factor", "enrolment"}
Reviewing == {"kyc", "kycOverlap", "onboarding"}

Init ==
    /\ scenario \in Scenarios
    /\ scenario = "logins" => Logins!Init
    /\ scenario = "sessions" => Login!Init
    /\ scenario = "factor" => Factor!Init
    /\ scenario = "enrolment" => Enrolment!Init
    /\ scenario = "kyc" => Review!Init
    /\ scenario = "kycOverlap" => ReviewOverlap!Init
    /\ scenario = "onboarding" => Onboarding!ComplianceInit
    /\ scenario = "codes" => Codes!Init
    /\ scenario = "codesOverlap" => CodesOverlap!Init
    /\ scenario = "admins" => Admins!Init
    /\ scenario = "federated" => Provider!Init
    /\ scenario = "cases" => Cases!Init
    /\ scenario = "casesOverlap" => CasesOverlap!Init
    /\ scenario \notin Visits => NoSessions
    /\ scenario \notin Factors => NoFactor
    /\ scenario \notin Reviewing => NoReview
    /\ scenario # "onboarding" => NoScreening
    /\ scenario \notin Mailing => NoCodes
    /\ scenario # "admins" => NoAdmins
    /\ scenario # "federated" => NoFederated
    /\ scenario \notin Watching => NoMonitoring
    /\ scenario \notin Granting => granted = <<>>

Next ==
    /\ UNCHANGED scenario
    /\ \/ scenario = "logins" /\ Logins!Next
       \/ scenario = "sessions" /\ Login!Next
       \/ scenario = "factor" /\ Factor!Next
       \/ scenario = "enrolment" /\ Enrolment!Next
       \/ scenario = "kyc" /\ Review!Next
       \/ scenario = "kycOverlap" /\ ReviewOverlap!Next
       \/ scenario = "onboarding" /\ Onboarding!ComplianceNext
       \/ scenario = "codes" /\ Codes!Next
       \/ scenario = "codesOverlap" /\ CodesOverlap!Next
       \/ scenario = "admins" /\ Admins!Next
       \/ scenario = "federated" /\ Provider!Next
       \/ scenario = "cases" /\ Cases!Next
       \/ scenario = "casesOverlap" /\ CasesOverlap!Next
    /\ scenario \notin Visits => UNCHANGED sessionVars
    /\ scenario \notin Factors => UNCHANGED factorVars
    /\ scenario \notin Reviewing => UNCHANGED reviewVars
    /\ scenario # "onboarding" => UNCHANGED screeningVars
    /\ scenario \notin Mailing => UNCHANGED codeVars
    /\ scenario # "admins" => UNCHANGED adminVars
    /\ scenario # "federated" => UNCHANGED federatedVars
    /\ scenario \notin Watching => UNCHANGED monitoringVars
    /\ scenario \notin Granting => UNCHANGED granted

vars == <<scenario, sessionVars, factorVars, reviewVars, screeningVars,
          codeVars, adminVars, federatedVars, monitoringVars, granted,
          call, lost>>

Spec == Init /\ [][Next]_vars

(* These calls differ in nothing but their names.                          *)
Symmetry == Permutations(Calls) \cup Permutations(Pair)

When(s, property) == scenario = s => property

-----------------------------------------------------------------------------
(* Once the calls under way have ended, at most one session is open, and   *)
(* one more for each login that was lost or failed before its revocations; *)
(* a password change or reset that runs to its end leaves none of the      *)
(* sessions open before it, but for the one that asked for the change.     *)
SessionsEnd ==
    /\ When("logins", Logins!TypeOK /\ Logins!Numbered /\ Logins!SessionsEnd)
    /\ When("sessions", /\ Login!TypeOK /\ Login!Numbered /\ Login!LoginsLost
                        /\ Login!ChangeAtHand /\ Login!SessionsEnd)

RevokedStays ==
    \A s \in DOMAIN session : session[s].revoked => session'[s] = session[s]

(* A refresh token is exchanged once, however many calls present it, and   *)
(* a revoked session, whose token may be presented still, never changes.   *)
RotationIsSafe ==
    /\ [](When("logins", Logins!TokenExchangedOnce))
    /\ [](When("sessions", Login!TokenExchangedOnce))
    /\ [][(scenario \in Visits) => RevokedStays]_vars

(* TOTP codes presented at once: each lets one call through, the guesses   *)
(* are bounded, the lock ends unless a call was lost, and TOTP is never on *)
(* with a secret the user has not shown a code of.  Mailed codes: one that *)
(* was used or replaced lets no call in that began after, one for another  *)
(* purpose gives no session, and wrong guesses are bounded by the calls at *)
(* once.                                                                   *)
CodesHold ==
    /\ When("factor", Factor!SecondFactorHolds)
    /\ When("enrolment", Enrolment!SecondFactorHolds)
    /\ When("codes", Codes!OneTimeCodesHold)
    /\ When("codesOverlap", CodesOverlap!OneTimeCodesHold)

(* The status of a user is kept in two rows, which agree, and is about the *)
(* submission at hand; a tier comes with an approval.                      *)
KycStatusAgrees ==
    /\ When("kyc", /\ Review!TypeOK
                   /\ Review!RowsAgree
                   /\ Review!TierIsApproved
                   /\ Review!OutcomeIsOfThisSession)
    /\ When("kycOverlap", ReviewOverlap!TypeOK /\ ReviewOverlap!RowsAgree)
    /\ When("onboarding", /\ Onboarding!ComplianceTypeOK
                          /\ Onboarding!RowsAgreeAtRest
                          /\ Onboarding!OutcomeIsOfThisSession)

(* "APPROVED -> (terminal)" without the compliance review, which alone     *)
(* ends an approval, and approves after a screening unless it overrides    *)
(* it or a screening failed.  A monitoring run leaves an alert alone that  *)
(* an admin has decided, or that is in a case.                             *)
DecisionsStand ==
    [][/\ When("cases", Cases!RunsLeaveDecided)
       /\ When("kyc", account.status = "APPROVED" => account'.status = "APPROVED")
       /\ When("onboarding", /\ Onboarding!ApprovalStands
                             /\ lost = 0 => Onboarding!ApprovedScreened)]_vars

(* One call after the other, some of them lost: an active SUPER_ADMIN is   *)
(* left whatever the admins do to each other; a session outlives neither   *)
(* the status nor the password it was opened with, nor a cached permission *)
(* the role or grant it came from, unless a call was lost before it ended  *)
(* them; and no call writes what its admin may not.                        *)
AdminAccessHolds == When("admins", Admins!AdminAccessHolds)

(* An identity at the provider belongs to one account: the one opened for  *)
(* it, the one it had, or one whose mailed code was shown; a challenge is  *)
(* redeemed once, and not by the wrong endpoint.                           *)
IdentitiesHold == When("federated", Provider!FederatedHolds)

(* A grave alert reaches the case of the day, whose priority follows, or   *)
(* its run did not end well; the risk follows the cases, one call after    *)
(* the other.                                                              *)
AlertsReachCases ==
    /\ When("cases", Cases!MonitoringHolds)
    /\ When("casesOverlap", CasesOverlap!MonitoringHolds)

(* "rejects a wrong OTP without consuming the link challenge".             *)
WrongCodeKeepsChallenge == When("federated", Provider!WrongCodeKeepsChallenge)

(* "Block approval while screening is unresolved (POSSIBLE_MATCH / FAILED  *)
(* / ERROR / PENDING)", a screening that failed among them.                *)
ScreenedBeforeApproval ==
    [][When("onboarding", Onboarding!ApprovedScreened)]_vars
=============================================================================
