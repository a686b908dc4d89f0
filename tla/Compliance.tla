----------------------------- MODULE Compliance -----------------------------
(***************************************************************************)
(* The second way of a user through KYC (backend/src/modules/compliance/): *)
(* enhanced submissions, their screening against sanctions and other       *)
(* lists, and the compliance review, which writes the same gating fields   *)
(* as Kyc, beside its status machine.  Risk scores, evidence and the       *)
(* matches of a check are left out: nothing here is decided by them.       *)
(***************************************************************************)
EXTENDS Kyc, Sequences

CONSTANTS
    CATEGORY_ORDER,     \* the categories a screening run creates checks of
    RequireSanctions    \* config.compliance.requireSanctionsBeforeApproval

VARIABLES
    compliance,     \* compliance_profiles: status, sanctions posture, and history:
                    \* whether its approval overrode the screening
    checks          \* screening_checks: per category, what the latest one says

complianceVars == <<kycVars, compliance, checks>>

Categories == {CATEGORY_ORDER[i] : i \in DOMAIN CATEGORY_ORDER}

(* A check that is not CLEAR is unresolved until an admin decides it is a  *)
(* false match.                                                            *)
Checks == {"none", "clear", "unresolved", "resolved"}

NoCompliance == [status |-> "NONE", sanctions |-> "NOT_SCREENED", override |-> FALSE]

ComplianceInit ==
    /\ Init
    /\ compliance = NoCompliance
    /\ checks = [k \in Categories |-> "none"]

(* A run keeps whether it found a profile to write its posture to.         *)
Found == compliance # NoCompliance

ScreeningStart == [at |-> "screen", left |-> CATEGORY_ORDER, found |-> Found]

-----------------------------------------------------------------------------
(* startLiveness ensures a draft profile exists.                           *)
startLiveness(c) ==
    /\ MayStart(c) /\ compliance = NoCompliance
    /\ compliance' = [compliance EXCEPT !.status = "DRAFT"]
    /\ UNCHANGED <<kycVars, checks>>

submitEnhanced(c) ==
    /\ MayStart(c)
    /\ compliance.status # "APPROVED"
    /\ Go(c, [at |-> "upsertEnhanced"])
    /\ UNCHANGED <<profile, account, sessions, event, about, lost, compliance, checks>>

upsertComplianceProfile(c) ==
    /\ At(c, "upsertEnhanced")
    /\ compliance' = [status |-> "SUBMITTED", sanctions |-> "PENDING", override |-> FALSE]
    /\ Go(c, [at |-> "mirror"])
    /\ UNCHANGED <<profile, account, sessions, event, about, lost, checks>>

(* Mutant: an approved profile is mirrored onto as well.                   *)
MayMirrorApproved == TRUE

MayMirror == profile.status # "APPROVED"

(* mirrorEnhancedKycToLegacy: a read and two updates of their own.         *)
mirrorEnhancedKycToLegacy(c) ==
    /\ At(c, "mirror")
    /\ Go(c, IF MayMirror THEN [at |-> "mirrorProfile"] ELSE ScreeningStart)
    /\ UNCHANGED <<profile, account, sessions, event, about, lost, compliance, checks>>

mirrorProfile(c) ==
    /\ At(c, "mirrorProfile")
    /\ profile' = [profile EXCEPT !.status = "PENDING", !.provider = "liveness"]
    /\ Go(c, [at |-> "mirrorAccount"])
    /\ UNCHANGED <<account, sessions, event, about, lost, compliance, checks>>

mirrorAccount(c) ==
    /\ At(c, "mirrorAccount")
    /\ account' = [account EXCEPT !.status = "PENDING"]
    /\ Go(c, ScreeningStart)
    /\ UNCHANGED <<profile, sessions, event, about, lost, compliance, checks>>

(* An error of the mirror is logged, and the submission goes on.           *)
MirrorFails(c) ==
    /\ lost < MaxLost
    /\ call[c].at \in {"mirror", "mirrorProfile", "mirrorAccount"}
    /\ lost' = lost + 1
    /\ Go(c, ScreeningStart)
    /\ UNCHANGED <<profile, account, sessions, event, about, compliance, checks>>

-----------------------------------------------------------------------------
(* runScreening, at a submission or asked for by an admin: one check after *)
(* the other is created, then the posture is written.  An error is logged  *)
(* and ends it where it is: CallLost.                                      *)
runScreening(c) ==
    /\ MayStart(c)
    /\ Go(c, ScreeningStart)
    /\ UNCHANGED <<profile, account, sessions, event, about, lost, compliance, checks>>

createCheck(c) ==
    /\ At(c, "screen")
    /\ \E result \in {"clear", "unresolved"} :
          checks' = [checks EXCEPT ![Head(call[c].left)] = result]
    /\ Go(c, IF Len(call[c].left) = 1 THEN [at |-> "posture", found |-> call[c].found]
             ELSE [call[c] EXCEPT !.left = Tail(@)])
    /\ UNCHANGED <<profile, account, sessions, event, about, lost, compliance>>

posturePatch(c) ==
    /\ At(c, "posture")
    /\ compliance' = IF call[c].found THEN [compliance EXCEPT !.sanctions = "SCREENED"]
                     ELSE compliance
    /\ Go(c, Idle)
    /\ UNCHANGED <<profile, account, sessions, event, about, lost, checks>>

(* APPROVED or FALSE_POSITIVE, or REJECTED or NEEDS_REVIEW, of a check     *)
(* that is not CLEAR.                                                      *)
decideScreening(c) ==
    /\ MayStart(c)
    /\ \E k \in Categories, decided \in {"resolved", "unresolved"} :
          /\ checks[k] \in {"resolved", "unresolved"}
          /\ checks' = [checks EXCEPT ![k] = decided]
    /\ Go(c, [at |-> "posture", found |-> Found])
    /\ UNCHANGED <<profile, account, sessions, event, about, lost, compliance>>

-----------------------------------------------------------------------------
(* Mutant: only the sanctions are looked at.                               *)
BlockedBySanctions == checks[CATEGORY_ORDER[1]] = "unresolved"

(* computeGate: of the checks there are.                                   *)
Blocked == \E k \in Categories : checks[k] = "unresolved"

(* Mutant: an approval does not ask whether there was a screening.         *)
MayApproveUnasked(override) == override \/ ~Blocked

MayApprove(override) ==
    /\ ~(RequireSanctions /\ compliance.sanctions = "NOT_SCREENED")
    /\ override \/ ~Blocked

review(c) ==
    /\ MayStart(c) /\ compliance # NoCompliance
    /\ \E status \in {"APPROVED", "REJECTED", "NEEDS_MORE_INFO"}, override \in BOOLEAN :
          /\ override => status = "APPROVED"
          /\ status = "APPROVED" => MayApprove(override)
          /\ Go(c, [at |-> "review", status |-> status, override |-> override])
    /\ UNCHANGED <<profile, account, sessions, event, about, lost, compliance, checks>>

updateComplianceProfile(c) ==
    /\ At(c, "review")
    /\ compliance' = [compliance EXCEPT !.status = call[c].status,
                                        !.override = call[c].override]
    /\ Go(c, [at |-> "syncAccount", status |-> call[c].status])
    /\ UNCHANGED <<profile, account, sessions, event, about, lost, checks>>

(* syncLegacyKyc: the user, then the profile; an error between them is     *)
(* logged: CallLost.                                                       *)
syncAccount(c) ==
    LET status == call[c].status IN
    /\ At(c, "syncAccount")
    /\ account' = [status |-> status, tier |-> TierAfter(status)]
    /\ about' = profile.session
    /\ Go(c, [at |-> "syncProfile", status |-> status])
    /\ UNCHANGED <<profile, sessions, event, lost, compliance, checks>>

(* Mutant: the profile keeps its status.                                   *)
SyncedKept(status) == profile

Synced(status) ==
    IF profile = NoProfile THEN profile ELSE [profile EXCEPT !.status = status]

syncProfile(c) ==
    /\ At(c, "syncProfile")
    /\ profile' = Synced(call[c].status)
    /\ Go(c, Idle)
    /\ UNCHANGED <<account, sessions, event, about, lost, compliance, checks>>

ComplianceStep(c) ==
    \/ startLiveness(c) \/ submitEnhanced(c) \/ upsertComplianceProfile(c)
    \/ mirrorEnhancedKycToLegacy(c) \/ mirrorProfile(c) \/ mirrorAccount(c)
    \/ MirrorFails(c) \/ runScreening(c) \/ createCheck(c) \/ posturePatch(c)
    \/ decideScreening(c) \/ review(c) \/ updateComplianceProfile(c) \/ syncAccount(c)
    \/ syncProfile(c)
    \/ Step(c) /\ UNCHANGED <<compliance, checks>>

ComplianceNext == \E c \in Calls : ComplianceStep(c)

ComplianceSpec == ComplianceInit /\ [][ComplianceNext]_complianceVars

-----------------------------------------------------------------------------
ComplianceTypeOK ==
    /\ TypeOK
    /\ compliance.status \in {"NONE", "DRAFT", "SUBMITTED", "APPROVED", "REJECTED",
                              "NEEDS_MORE_INFO"}
    /\ checks \in [Categories -> Checks]

(* Two reviews and a provider write the status of a user in two rows: they *)
(* agree when no call is under way and none failed, if calls do not        *)
(* overlap.                                                                *)
RowsAgreeAtRest ==
    Quiet /\ lost = 0 =>
        /\ profile # NoProfile => account.status = profile.status
        /\ compliance.status = "APPROVED" => account.tier > 0

(* "Never downgrade a legacy profile that is already APPROVED": nothing    *)
(* but the decision of a compliance review ends an approval.               *)
ApprovalStands ==
    lost = 0 /\ account.status = "APPROVED" /\ account'.status # "APPROVED" =>
        \E c \in Calls : At(c, "syncAccount")

Screened == \A k \in Categories : checks[k] \in {"clear", "resolved"}

(* "Block approval while screening is unresolved", unless overridden.      *)
ApprovedScreened ==
    compliance.status # "APPROVED" /\ compliance'.status = "APPROVED" =>
        compliance'.override \/ Screened
=============================================================================
