-------------------------------- MODULE Kyc --------------------------------
(***************************************************************************)
(* The KYC review of one user (backend/src/modules/kyc/): submissions, the *)
(* provider's webhooks and polls, and the decisions of admins, all of      *)
(* which move the status the gates of the exchange read.  Documents and    *)
(* the details of a result are left out: no status depends on them.        *)
(***************************************************************************)
EXTENDS Naturals, FiniteSets

CONSTANTS
    Overlap,        \* whether calls run at once
    Outcomes,       \* external: the statuses the provider reports
    DefaultTier,    \* config.kyc.defaultApprovedTier
    MaxSessions,    \* bound: submissions
    MaxLost,        \* bound: calls lost on the way
    Calls           \* the calls handled at once

VARIABLES
    profile,        \* kyc_profiles: status, provider and the session with it
    account,        \* users: kycStatus and kycTier
    sessions,       \* the provider sessions opened so far
    event,          \* kyc_webhook_events: per event, none, received or processed
    call,           \* per call: the step it is at
    about,          \* history: the session the status was given for
    lost            \* calls that ended on the way

kycVars == <<profile, account, sessions, event, call, about, lost>>

Idle == [at |-> "idle"]
NoProfile == [status |-> "NOT_STARTED", session |-> 0, provider |-> "none"]

(* What the provider may send about each session, in any order.            *)
Events == [session : 1..MaxSessions, status : Outcomes]

Init ==
    /\ profile = NoProfile
    /\ account = [status |-> "NOT_STARTED", tier |-> 0]
    /\ sessions = 0
    /\ event = [e \in Events |-> "none"]
    /\ call = [c \in Calls |-> Idle]
    /\ about = 0
    /\ lost = 0

Go(c, x) == call' = [call EXCEPT ![c] = x]
At(c, step) == call[c].at = step
Quiet == \A c \in Calls : call[c] = Idle
MayStart(c) == call[c] = Idle /\ (Overlap \/ Quiet)

-----------------------------------------------------------------------------
KYC_TRANSITIONS ==
    [NOT_STARTED |-> {"PENDING"},
     PENDING |-> {"IN_REVIEW", "MANUAL_REVIEW", "NEEDS_MORE_INFO", "APPROVED", "REJECTED"},
     IN_REVIEW |-> {"MANUAL_REVIEW", "NEEDS_MORE_INFO", "APPROVED", "REJECTED"},
     MANUAL_REVIEW |-> {"NEEDS_MORE_INFO", "APPROVED", "REJECTED"},
     NEEDS_MORE_INFO |-> {"PENDING", "APPROVED", "REJECTED"},
     REJECTED |-> {"PENDING"},
     APPROVED |-> {}]

(* Mutant: an approval may be taken back.                                  *)
canTransitionBack(from, to) ==
    from = to \/ to \in KYC_TRANSITIONS[from] \/ <<from, to>> = <<"APPROVED", "REJECTED">>

canTransition(from, to) == from = to \/ to \in KYC_TRANSITIONS[from]

-----------------------------------------------------------------------------
(* submitProfile: a new session for a profile that is not under review.    *)
(* Its upsert does not go through the machine.                             *)
submitProfile(c) ==
    /\ MayStart(c) /\ sessions < MaxSessions
    /\ account.status # "APPROVED"
    /\ profile.status \notin {"PENDING", "IN_REVIEW"}
    /\ sessions' = sessions + 1
    /\ Go(c, [at |-> "upsert", session |-> sessions'])
    /\ UNCHANGED <<profile, account, event, about, lost>>

upsertProfile(c) ==
    /\ At(c, "upsert")
    /\ profile' = [status |-> "PENDING", session |-> call[c].session, provider |-> "kyc"]
    /\ account' = [account EXCEPT !.status = "PENDING"]
    /\ Go(c, Idle)
    /\ UNCHANGED <<sessions, event, about, lost>>

-----------------------------------------------------------------------------
(* refreshStatus asks the provider about the session it read.              *)
refreshStatus(c) ==
    /\ MayStart(c) /\ profile.session # 0
    /\ \E status \in Outcomes :
          Go(c, [at |-> "applyPoll", read |-> profile,
                 event |-> [session |-> profile.session, status |-> status]])
    /\ UNCHANGED <<profile, account, sessions, event, about, lost>>

(* handleWebhook: an event that was processed is a duplicate.              *)
findWebhookEvent(c) ==
    /\ MayStart(c)
    /\ \E e \in Events :
          /\ e.session <= sessions /\ event[e] # "processed"
          /\ Go(c, [at |-> IF event[e] = "none" THEN "create" ELSE "find", event |-> e])
    /\ UNCHANGED <<profile, account, sessions, event, about, lost>>

(* The unique index refuses a second row: the delivery fails.              *)
createWebhookEvent(c) ==
    LET e == call[c].event IN
    /\ At(c, "create")
    /\ \/ /\ event[e] = "none"
          /\ event' = [event EXCEPT ![e] = "received"]
          /\ Go(c, [at |-> "find", event |-> e])
       \/ event[e] # "none" /\ Go(c, Idle) /\ UNCHANGED event
    /\ UNCHANGED <<profile, account, sessions, about, lost>>

(* Mutant: the event is taken for whatever profile the user has.           *)
IsForOfUser(e) == profile.provider = "kyc"

IsFor(e) == profile.provider = "kyc" /\ e.session = profile.session

findProfileByProviderRef(c) ==
    LET e == call[c].event IN
    /\ At(c, "find")
    /\ Go(c, IF IsFor(e) THEN [at |-> "applyEvent", read |-> profile, event |-> e]
             ELSE [at |-> "processed", event |-> e])
    /\ UNCHANGED <<profile, account, sessions, event, about, lost>>

-----------------------------------------------------------------------------
(* Mutant: the tier is granted with any result.                            *)
TierAfterAny(status) == DefaultTier

TierAfter(status) == IF status = "APPROVED" THEN DefaultTier ELSE account.tier

SetStatus(status, tier) ==
    /\ profile' = [profile EXCEPT !.status = status]
    /\ account' = [status |-> status, tier |-> tier]

(* applyProviderResult: the transition is judged on the profile as read    *)
(* and written whatever it has become; a refused one throws, and a         *)
(* webhook's event stays to be delivered again.                            *)
applyProviderResult(c) ==
    LET read == call[c].read
        target == call[c].event.status
        Applied == Go(c, IF At(c, "applyPoll") THEN Idle
                         ELSE [at |-> "processed", event |-> call[c].event])
    IN
    /\ At(c, "applyPoll") \/ At(c, "applyEvent")
    /\ \/ read.status = target /\ Applied /\ UNCHANGED <<profile, account, about>>
       \/ /\ read.status # target /\ canTransition(read.status, target)
          /\ SetStatus(target, TierAfter(target))
          /\ about' = call[c].event.session
          /\ Applied
       \/ /\ ~canTransition(read.status, target)
          /\ Go(c, Idle)
          /\ UNCHANGED <<profile, account, about>>
    /\ UNCHANGED <<sessions, event, lost>>

markWebhookProcessed(c) ==
    /\ At(c, "processed")
    /\ event' = [event EXCEPT ![call[c].event] = "processed"]
    /\ Go(c, Idle)
    /\ UNCHANGED <<profile, account, sessions, about, lost>>

-----------------------------------------------------------------------------
(* decide: an admin approves, with a tier, rejects, or asks for more.      *)
readProfile(c) ==
    /\ MayStart(c) /\ profile # NoProfile
    /\ \E status \in {"APPROVED", "REJECTED", "NEEDS_MORE_INFO"} :
          /\ canTransition(profile.status, status)
          /\ Go(c, [at |-> "decide", session |-> profile.session, status |-> status])
    /\ UNCHANGED <<profile, account, sessions, event, about, lost>>

decide(c) ==
    LET status == call[c].status IN
    /\ At(c, "decide")
    /\ \E tier \in IF status = "APPROVED" THEN {DefaultTier, DefaultTier + 1}
                   ELSE {account.tier} : SetStatus(status, tier)
    /\ about' = call[c].session
    /\ Go(c, Idle)
    /\ UNCHANGED <<sessions, event, lost>>

(* The process stops, or the provider or the database fails: a webhook is  *)
(* delivered again.                                                        *)
CallLost(c) ==
    /\ lost < MaxLost
    /\ call[c] # Idle
    /\ lost' = lost + 1
    /\ Go(c, Idle)
    /\ UNCHANGED <<profile, account, sessions, event, about>>

Step(c) ==
    \/ submitProfile(c) \/ upsertProfile(c) \/ refreshStatus(c) \/ findWebhookEvent(c)
    \/ createWebhookEvent(c) \/ findProfileByProviderRef(c) \/ applyProviderResult(c)
    \/ markWebhookProcessed(c) \/ readProfile(c) \/ decide(c) \/ CallLost(c)

Next == \E c \in Calls : Step(c)

Spec == Init /\ [][Next]_kycVars

-----------------------------------------------------------------------------
TypeOK ==
    /\ profile \in [status : DOMAIN KYC_TRANSITIONS, session : 0..MaxSessions,
                    provider : {"none", "kyc", "liveness"}]
    /\ account \in [status : DOMAIN KYC_TRANSITIONS, tier : 0..(DefaultTier + 1)]
    /\ lost \in 0..MaxLost

(* The two rows a status is kept in agree, and an approved user has a      *)
(* tier, whatever overlaps in this module.                                 *)
RowsAgree ==
    /\ account.status = profile.status
    /\ account.status = "APPROVED" => account.tier > 0

(* A tier is granted by an approval only, where calls do not overlap.      *)
TierIsApproved == account.tier > 0 => account.status = "APPROVED"

(* What a user is approved or rejected for is the submission at hand, not  *)
(* an earlier one a late or repeated event is about.                       *)
OutcomeIsOfThisSession ==
    account.status \in {"APPROVED", "REJECTED"} => about = profile.session
=============================================================================
