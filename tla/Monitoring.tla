----------------------------- MODULE Monitoring -----------------------------
(***************************************************************************)
(* Transaction monitoring of one user on one day                           *)
(* (backend/src/modules/compliance/): a run turns what the rules find into *)
(* alerts (monitoring.service.ts) and puts the grave ones into the case of *)
(* the day, while admins open, close and reopen cases, link alerts and     *)
(* dismiss them (case.service.ts).  Open cases weigh in the user's risk.   *)
(* What the rules compute, and the events and audit entries, are left out. *)
(***************************************************************************)
EXTENDS Naturals, FiniteSets, TLC

CONSTANTS
    Findings,       \* what the rules may find: each makes one alert, and is
                    \* known here by its priority
    CaseIds,        \* "auto", the case of the day, and those of admins
    Overlap,        \* whether calls are handled at once
    MaxLost,        \* bound: calls that fail or are lost on the way
    Calls           \* the calls handled at once

VARIABLES
    alerts,         \* compliance_alerts, and whether a run linked them
    cases,          \* compliance_cases
    risk,           \* whether an open case weighs in the stored risk
    call,           \* per call: the step it is at
    dropped,        \* history: the new alerts of runs that did not end well
    lost            \* calls that failed or ended on the way

monitoringVars == <<alerts, cases, risk, call, dropped, lost>>

Grave == {"HIGH", "CRITICAL"}
Idle == [at |-> "idle"]
None == [status |-> "none"]

Init ==
    /\ alerts = [f \in Findings |-> None]
    /\ cases = [k \in CaseIds |-> None]
    /\ risk = FALSE
    /\ call = [c \in Calls |-> Idle]
    /\ dropped = {}
    /\ lost = 0

Go(c, x) == call' = [call EXCEPT ![c] = x]
At(c, step) == call[c].at = step
MayStart(c) == call[c] = Idle /\ (Overlap \/ \A d \in Calls : call[d] = Idle)

Raised == {f \in Findings : alerts[f] # None}
Opened == {k \in CaseIds : cases[k] # None}

(* countOpenHighRiskCases.                                                 *)
Weighing == {k \in Opened : cases[k].status # "CLOSED" /\ cases[k].priority \in Grave}

-----------------------------------------------------------------------------
(* runForUser with what evaluateRules finds in the activity of the time;   *)
(* without a finding nothing is done.                                      *)
runForUser(c) ==
    /\ MayStart(c)
    /\ \E found \in SUBSET Findings \ {{}} :
          Go(c, [at |-> "upsert", left |-> found, new |-> {}])
    /\ UNCHANGED <<alerts, cases, risk, dropped, lost>>

(* Mutant: the grave alerts of before are taken up again, or all are.      *)
NewAfterAny(c, f, created) ==
    call[c].new \cup {g \in {f} : f \in Grave}

(* Mutant: only the gravest are taken up.                                  *)
NewAfterCritical(c, f, created) ==
    call[c].new \cup {g \in {f} : created /\ f = "CRITICAL"}

(* Only newly created HIGH and CRITICAL alerts go on to the case.          *)
NewAfter(c, f, created) ==
    call[c].new \cup {g \in {f} : created /\ f \in Grave}

(* The next finding, or the case if there are new alerts, or the risk.     *)
AfterAlert(c, f, created) ==
    LET left == call[c].left \ {f}
        new == NewAfter(c, f, created)
    IN  [at |-> IF left # {} THEN "upsert" ELSE IF new # {} THEN "case" ELSE "count",
         left |-> IF left # {} THEN left ELSE new, new |-> new]

(* upsertAlert: look for the alert, and if there is none create it.        *)
findAlert(c) ==
    /\ At(c, "upsert")
    /\ \E f \in call[c].left :
          Go(c, IF f \in Raised THEN AfterAlert(c, f, FALSE)
                ELSE [at |-> "create", one |-> f] @@ call[c])
    /\ UNCHANGED <<alerts, cases, risk, dropped, lost>>

(* dedupe_key is unique: of two creations one fails, and its run with it.  *)
createAlert(c) ==
    LET f == call[c].one IN
    /\ At(c, "create")
    /\ IF f \in Raised
       THEN /\ Go(c, Idle)
            /\ dropped' = dropped \cup call[c].new
            /\ UNCHANGED alerts
       ELSE /\ alerts' = [alerts EXCEPT ![f] =
                             [status |-> "OPEN", case |-> "none", byRun |-> FALSE]]
            /\ Go(c, AfterAlert(c, f, TRUE))
            /\ UNCHANGED dropped
    /\ UNCHANGED <<cases, risk, lost>>

Top(new) == IF \E f \in new : f = "CRITICAL" THEN "CRITICAL" ELSE "HIGH"

(* attachToAutoCase: the case of the day is looked for, and its priority   *)
(* remembered; a closed one is found as well.                              *)
findCaseByDedupe(c) ==
    /\ At(c, "case")
    /\ Go(c, IF "auto" \in Opened
             THEN [call[c] EXCEPT !.at = "link"] @@
                  [case |-> "auto", read |-> cases["auto"].priority]
             ELSE [call[c] EXCEPT !.at = "open"])
    /\ UNCHANGED <<alerts, cases, risk, dropped, lost>>

(* Its dedupe_key is unique as well.                                       *)
createAutoCase(c) ==
    /\ At(c, "open")
    /\ IF "auto" \in Opened
       THEN /\ Go(c, Idle)
            /\ dropped' = dropped \cup call[c].new
            /\ UNCHANGED cases
       ELSE /\ cases' = [cases EXCEPT !["auto"] =
                  [status |-> "OPEN", priority |-> Top(call[c].new), closed |-> FALSE]]
            /\ Go(c, [call[c] EXCEPT !.at = "link"] @@ [case |-> "auto", read |-> "own"])
            /\ UNCHANGED dropped
    /\ UNCHANGED <<alerts, risk, lost>>

(* Mutant: the case of the day keeps the priority it was opened with.      *)
MustRaiseNever(c) == FALSE

MustRaise(c) ==
    /\ call[c].read # "own" /\ Top(call[c].new) = "CRITICAL"
    /\ call[c].read # "CRITICAL"

(* One alert is put into the case.  The row of the alert is not read again.*)
linkAlert(c) ==
    /\ At(c, "link")
    /\ \E f \in call[c].left :
          LET left == call[c].left \ {f} IN
          /\ alerts' = [alerts EXCEPT ![f] =
                [status |-> "LINKED_TO_CASE", case |-> call[c].case,
                 byRun |-> call[c].case = "auto"]]
          /\ Go(c, IF left # {} THEN [call[c] EXCEPT !.left = left]
                   ELSE [at |-> IF MustRaise(c) THEN "raise" ELSE "count",
                         new |-> call[c].new])
    /\ UNCHANGED <<cases, risk, dropped, lost>>

raisePriority(c) ==
    /\ At(c, "raise")
    /\ cases' = [cases EXCEPT !["auto"].priority = "CRITICAL"]
    /\ Go(c, [at |-> "count", new |-> {}])
    /\ UNCHANGED <<alerts, risk, dropped, lost>>

-----------------------------------------------------------------------------
(* recomputeRisk reads the cases and then writes what they weigh.          *)
countOpenHighRiskCases(c) ==
    /\ At(c, "count")
    /\ Go(c, [at |-> "score", new |-> {}, weighs |-> Weighing # {}])
    /\ UNCHANGED <<alerts, cases, risk, dropped, lost>>

updateRisk(c) ==
    /\ At(c, "score")
    /\ risk' = call[c].weighs
    /\ Go(c, Idle)
    /\ UNCHANGED <<alerts, cases, dropped, lost>>

-----------------------------------------------------------------------------
(* An admin opens a case, with the alerts of a list put into it one by one;*)
(* the risk is computed again for a grave one.                             *)
createCase(c) ==
    /\ MayStart(c)
    /\ \E k \in CaseIds \ (Opened \cup {"auto"}), p \in {"MEDIUM", "HIGH"},
          listed \in SUBSET Raised :
          /\ cases' = [cases EXCEPT ![k] =
                          [status |-> "OPEN", priority |-> p, closed |-> FALSE]]
          /\ Go(c, IF listed # {} THEN [at |-> "list", left |-> listed, case |-> k, new |-> {}]
                   ELSE IF p \in Grave THEN [at |-> "count", new |-> {}] ELSE Idle)
    /\ UNCHANGED <<alerts, risk, dropped, lost>>

linkListed(c) ==
    /\ At(c, "list")
    /\ \E f \in call[c].left :
          LET left == call[c].left \ {f} IN
          /\ alerts' = [alerts EXCEPT ![f] = [status |-> "LINKED_TO_CASE",
                           case |-> call[c].case, byRun |-> FALSE]]
          /\ Go(c, IF left # {} THEN [call[c] EXCEPT !.left = left]
                   ELSE IF cases[call[c].case].priority \in Grave
                        THEN [at |-> "count", new |-> {}] ELSE Idle)
    /\ UNCHANGED <<cases, risk, dropped, lost>>

(* Any status may follow any other; closing one, and nothing else, has the *)
(* risk computed again.  closedAt stays when a case is opened again.       *)
setStatus(c) ==
    /\ MayStart(c)
    /\ \E k \in Opened, s \in {"OPEN", "CLOSED"} :
          /\ cases' = [cases EXCEPT ![k].status = s, ![k].closed = @ \/ s = "CLOSED"]
          /\ Go(c, IF s = "CLOSED" THEN [at |-> "count", new |-> {}] ELSE Idle)
    /\ UNCHANGED <<alerts, risk, dropped, lost>>

linkAlertByAdmin(c) ==
    /\ MayStart(c)
    /\ \E f \in Raised, k \in Opened :
          alerts' = [alerts EXCEPT ![f] =
                        [status |-> "LINKED_TO_CASE", case |-> k, byRun |-> FALSE]]
    /\ UNCHANGED <<cases, risk, call, dropped, lost>>

(* The case of the alert stays.                                            *)
setAlertStatus(c) ==
    /\ MayStart(c)
    /\ \E f \in Raised, s \in {"OPEN", "DISMISSED"} :
          alerts' = [alerts EXCEPT ![f].status = s]
    /\ UNCHANGED <<cases, risk, call, dropped, lost>>

-----------------------------------------------------------------------------
(* A step fails, which ends the call (a run logs the error), or the process*)
(* stops.                                                                  *)
CallEnds(c) ==
    /\ lost < MaxLost /\ call[c] # Idle
    /\ lost' = lost + 1
    /\ dropped' = dropped \cup call[c].new
    /\ Go(c, Idle)
    /\ UNCHANGED <<alerts, cases, risk>>

Step(c) ==
    \/ runForUser(c) \/ findAlert(c) \/ createAlert(c) \/ findCaseByDedupe(c)
    \/ createAutoCase(c) \/ linkAlert(c) \/ raisePriority(c)
    \/ countOpenHighRiskCases(c) \/ updateRisk(c)
    \/ createCase(c) \/ linkListed(c) \/ setStatus(c) \/ linkAlertByAdmin(c)
    \/ setAlertStatus(c) \/ CallEnds(c)

Next == \E c \in Calls : Step(c)

Spec == Init /\ [][Next]_monitoringVars

-----------------------------------------------------------------------------
TypeOK ==
    /\ \A f \in Raised : alerts[f].case \in {"none"} \cup Opened
    /\ \A k \in Opened : cases[k].priority \in Grave \cup {"MEDIUM"}
    /\ risk \in BOOLEAN
    /\ dropped \subseteq Raised
    /\ lost \in 0..MaxLost

Pending == UNION {call[c].new : c \in {d \in Calls : call[d] # Idle}}

(* "auto-open a case for HIGH/CRITICAL findings and link them": a grave    *)
(* alert without a case is with a run under way, or was new to one that    *)
(* did not end well: no later run takes it up.                             *)
GraveAlertsReachCase ==
    \A f \in Raised : f \in Grave /\ alerts[f].case = "none" =>
        f \in Pending \cup dropped

(* "Keep the case priority at the strongest linked alert", of those that   *)
(* runs have linked.                                                       *)
PriorityIsStrongest ==
    \A f \in Raised \ (Pending \cup dropped) :
        alerts[f].byRun /\ f = "CRITICAL" => cases["auto"].priority = "CRITICAL"

(* One call after the other, "an open HIGH/CRITICAL case feeds the user's  *)
(* score" and "a resolved case stops contributing": the risk counts a case *)
(* that is open, and every one but those opened again.                     *)
RiskFollowsCases ==
    (~Overlap /\ lost = 0 /\ \A c \in Calls : call[c] = Idle) =>
        /\ risk => Weighing # {}
        /\ (\E k \in Weighing : ~cases[k].closed) => risk

MonitoringHolds ==
    TypeOK /\ GraveAlertsReachCase /\ PriorityIsStrongest /\ RiskFollowsCases

Settled(f) == alerts[f] # None /\ (alerts[f].case # "none" \/ alerts[f].status # "OPEN")

(* "never double-notifies or re-links": a run leaves alone the alerts that *)
(* are in a case, or that an admin has decided; one call after the other.  *)
RunsLeaveDecided ==
    (~Overlap /\ \E c \in Calls : At(c, "link") /\ alerts' # alerts) =>
        \A f \in Findings : Settled(f) => alerts'[f] = alerts[f]
=============================================================================
