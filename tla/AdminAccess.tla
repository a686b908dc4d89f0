---------------------------- MODULE AdminAccess ----------------------------
(***************************************************************************)
(* Who may act as an admin (backend/src/modules/admin-rbac/): the status   *)
(* of each admin, the roles SUPER_ADMIN and Ops, the sessions, and the     *)
(* permissions cached in Redis.  Manage stands for the permissions that    *)
(* the routes ask for (admin.manage, role.manage): a SUPER_ADMIN passes    *)
(* without, Ops has it if it is granted.  TOTP, the IP allowlist and the   *)
(* lockout, which refuse a login before it begins, are left out, and so    *)
(* is the expiry of sessions and of the cache.                             *)
(***************************************************************************)
EXTENDS Naturals, FiniteSets, TLC

CONSTANTS
    Admins,
    First,          \* the SUPER_ADMIN of the seed
    Overlap,        \* whether calls are handled at once
    MaxPasswords,   \* bound: resets and changes of a password, of all admins
    MaxLost,        \* bound: calls lost on the way
    Calls           \* the calls handled at once

VARIABLES
    admin,          \* admins: status, password (as a version), mustChangePassword
    roles,          \* admin_roles
    granted,        \* role_permissions: whether Ops has Manage
    live,           \* admin_sessions not revoked: the passwords they were opened with
    cache,          \* admin:rbac:perms in Redis
    call,           \* per call: the step it is at
    lost            \* calls that ended on the way

adminVars == <<admin, roles, granted, live, cache, call, lost>>

Statuses == {"ACTIVE", "SUSPENDED", "DEACTIVATED"}
RoleNames == {"SUPER_ADMIN", "Ops"}
Absent == [status |-> "none", password |-> 1, mustChange |-> FALSE]
NotCached == {"nothing"}
Idle == [at |-> "idle"]

Init ==
    /\ admin = [a \in Admins |-> IF a = First THEN [Absent EXCEPT !.status = "ACTIVE"]
                                 ELSE Absent]
    /\ roles = [a \in Admins |-> IF a = First THEN {"SUPER_ADMIN"} ELSE {}]
    /\ granted = TRUE
    /\ live = [a \in Admins |-> {}]
    /\ cache = [a \in Admins |-> NotCached]
    /\ call = [c \in Calls |-> Idle]
    /\ lost = 0

Go(c, x) == call' = [call EXCEPT ![c] = x]
At(c, step) == call[c].at = step
MayStart(c) == call[c] = Idle /\ (Overlap \/ \A d \in Calls : call[d] = Idle)

(* getAdminRolesAndPermissions, as far as anyone asks.                     *)
PermissionsOf(a) ==
    (roles[a] \cap {"SUPER_ADMIN"}) \cup (IF granted /\ "Ops" \in roles[a] THEN {"Manage"} ELSE {})

(* adminsWithRole and countActiveAdminsWithRole.                           *)
ActiveSupers == {a \in Admins : admin[a].status = "ACTIVE" /\ "SUPER_ADMIN" \in roles[a]}

-----------------------------------------------------------------------------
(* login: the admin as it is read, then the session.                       *)
login(c) ==
    /\ MayStart(c)
    /\ \E a \in Admins :
          /\ admin[a].status = "ACTIVE"
          /\ Go(c, [at |-> "issue", actor |-> a, password |-> admin[a].password])
    /\ UNCHANGED <<admin, roles, granted, live, cache, lost>>

issueSession(c) ==
    /\ At(c, "issue")
    /\ live' = [live EXCEPT ![call[c].actor] = @ \cup {call[c].password}]
    /\ Go(c, Idle)
    /\ UNCHANGED <<admin, roles, granted, cache, lost>>

OfOps == {"grant", "revoke", "deleteRole"}

(* validateAdminSession, for any call of an admin; with a password to be   *)
(* changed first, nothing else is let through.                             *)
Operations == {"create", "suspend", "activate", "deactivate", "reactivate", "reset",
               "assign", "remove"} \cup OfOps

adminAuthenticate(c) ==
    /\ MayStart(c)
    /\ \E a \in Admins :
          /\ live[a] # {} /\ admin[a].status = "ACTIVE"
          /\ \/ Go(c, [at |-> "verify", op |-> "change", actor |-> a, target |-> a])
             \/ /\ ~admin[a].mustChange
                /\ \E op \in Operations, t \in Admins, r \in RoleNames :
                      /\ op \in OfOps => t = a
                      /\ op \notin {"assign", "remove"} => r = "Ops"
                      /\ Go(c, [at |-> "permissions", op |-> op, actor |-> a, target |-> t,
                                role |-> r])
    /\ UNCHANGED <<admin, roles, granted, live, cache, lost>>

(* Cached, or read and cached.                                             *)
getAdminPermissions(c) ==
    LET a == call[c].actor IN
    /\ At(c, "permissions")
    /\ \/ /\ cache[a] # NotCached
          /\ Go(c, [at |-> "decide", holds |-> cache[a]] @@ call[c])
       \/ /\ cache[a] = NotCached
          /\ Go(c, [at |-> "cache", holds |-> PermissionsOf(a)] @@ call[c])
    /\ UNCHANGED <<admin, roles, granted, live, cache, lost>>

cachePermissions(c) ==
    /\ At(c, "cache")
    /\ cache' = [cache EXCEPT ![call[c].actor] = call[c].holds]
    /\ Go(c, [call[c] EXCEPT !.at = "decide"])
    /\ UNCHANGED <<admin, roles, granted, live, lost>>

-----------------------------------------------------------------------------
(* Mutant: whoever holds the role is counted, active or not.               *)
LastSuperOfAll(t) ==
    LET supers == {a \in Admins : "SUPER_ADMIN" \in roles[a]} IN
    t \in supers /\ Cardinality(supers) <= 1

(* The last active SUPER_ADMIN stays.                                      *)
LastSuper(t) == t \in ActiveSupers /\ Cardinality(ActiveSupers) <= 1

(* What each service asks, of the caller and of the rows it reads.         *)
Allowed(op, c) ==
    LET t == call[c].target
        super == "SUPER_ADMIN" \in call[c].holds
        status == admin[t].status
    IN
    CASE op = "create"     -> status = "none"
      [] op = "suspend"    -> status # "none" /\ t # call[c].actor /\ ~LastSuper(t)
      [] op = "activate"   -> status # "none" /\ t # call[c].actor
      [] op = "deactivate" -> /\ super /\ t # call[c].actor
                              /\ status \in {"ACTIVE", "SUSPENDED"} /\ ~LastSuper(t)
      [] op = "reactivate" -> super /\ status \in {"SUSPENDED", "DEACTIVATED"}
      [] op = "reset"      -> /\ super /\ t # call[c].actor
                              /\ status \in {"ACTIVE", "SUSPENDED"}
      [] op = "assign"     -> status # "none" /\ (call[c].role = "SUPER_ADMIN" => super)
      [] op = "remove"     -> call[c].role = "SUPER_ADMIN" => ~LastSuper(t)
      [] op \in OfOps       -> TRUE

Decide(c) ==
    /\ At(c, "decide")
    /\ Go(c, IF call[c].holds # {} /\ Allowed(call[c].op, c)
             THEN [call[c] EXCEPT !.at = "write"] ELSE Idle)
    /\ UNCHANGED <<admin, roles, granted, live, cache, lost>>

(* changeOwnPassword verifies the current password.                        *)
VerifyOwn(c) ==
    /\ At(c, "verify")
    /\ Go(c, [call[c] EXCEPT !.at = "write"])
    /\ UNCHANGED <<admin, roles, granted, live, cache, lost>>

-----------------------------------------------------------------------------
Passwords == {admin[a].password : a \in Admins}

MembersOf(r) == {a \in Admins : r \in roles[a]}

(* The calls that end what was possible before go on to revoke the         *)
(* sessions of the target, and these and the others to drop what is cached *)
(* for whom they affect; deleteRole and the changes of Ops list its        *)
(* members before they write.                                              *)
(* Mutant: a role that is deleted is no longer anyone's when it is asked   *)
(* whose caches to drop.                                                   *)
AffectedAfter(c) ==
    IF call[c].op = "deleteRole" THEN {}
    ELSE IF call[c].op \in OfOps THEN MembersOf("Ops")
    ELSE {call[c].target}

Affected(c) ==
    IF call[c].op \in OfOps THEN MembersOf("Ops")
    ELSE {call[c].target}

(* Mutant: only what takes the status away ends the sessions.              *)
EndsSessionsOfStatus(op) == op \in {"suspend", "deactivate", "change"}

EndsSessions(op) == op \in {"suspend", "deactivate", "reset", "change"}

After(c) ==
    IF EndsSessions(call[c].op) THEN [at |-> "revoke", target |-> call[c].target]
    ELSE IF call[c].op = "activate" THEN Idle
    ELSE IF call[c].op = "create" THEN [at |-> "assign", target |-> call[c].target]
    ELSE [at |-> "invalidate", of |-> Affected(c)]

StatusAfter == [suspend |-> "SUSPENDED", activate |-> "ACTIVE", deactivate |-> "DEACTIVATED",
                reactivate |-> "ACTIVE", create |-> "ACTIVE"]

WriteStatus(c) ==
    /\ At(c, "write") /\ call[c].op \in DOMAIN StatusAfter
    /\ admin' = [admin EXCEPT ![call[c].target].status = StatusAfter[call[c].op]]
    /\ Go(c, After(c))
    /\ UNCHANGED <<roles, granted, live, cache, lost>>

(* A reset is to be followed by a change, for which alone the sessions     *)
(* opened with the new password are let through.                           *)
WritePassword(c) ==
    /\ At(c, "write") /\ call[c].op \in {"reset", "change"}
    /\ \A p \in Passwords : p <= MaxPasswords
    /\ admin' = [admin EXCEPT ![call[c].target].password = @ + 1,
                              ![call[c].target].mustChange = call[c].op = "reset"]
    /\ Go(c, After(c))
    /\ UNCHANGED <<roles, granted, live, cache, lost>>

WriteRoles(c) ==
    /\ At(c, "write")
    /\ \/ /\ call[c].op = "assign"
          /\ roles' = [roles EXCEPT ![call[c].target] = @ \cup {call[c].role}]
          /\ UNCHANGED granted
       \/ /\ call[c].op = "remove"
          /\ roles' = [roles EXCEPT ![call[c].target] = @ \ {call[c].role}]
          /\ UNCHANGED granted
       \/ /\ call[c].op \in {"grant", "revoke"}
          /\ granted' = (call[c].op = "grant")
          /\ UNCHANGED roles
       \/ /\ call[c].op = "deleteRole"
          /\ roles' = [a \in Admins |-> roles[a] \ {"Ops"}]
          /\ granted' = FALSE
    /\ Go(c, After(c))
    /\ UNCHANGED <<admin, live, cache, lost>>

(* The role of a new admin, never SUPER_ADMIN.                             *)
AssignFirstRole(c) ==
    /\ At(c, "assign")
    /\ roles' = [roles EXCEPT ![call[c].target] = @ \cup {"Ops"}]
    /\ Go(c, Idle)
    /\ UNCHANGED <<admin, granted, live, cache, lost>>

revokeAllAdminSessions(c) ==
    /\ At(c, "revoke")
    /\ live' = [live EXCEPT ![call[c].target] = {}]
    /\ Go(c, [at |-> "invalidate", of |-> {call[c].target}])
    /\ UNCHANGED <<admin, roles, granted, cache, lost>>

invalidateMany(c) ==
    /\ At(c, "invalidate")
    /\ cache' = [a \in Admins |-> IF a \in call[c].of THEN NotCached ELSE cache[a]]
    /\ Go(c, Idle)
    /\ UNCHANGED <<admin, roles, granted, live, lost>>

(* The process stops between two steps.                                    *)
CallLost(c) ==
    /\ lost < MaxLost /\ call[c] # Idle
    /\ lost' = lost + 1
    /\ Go(c, Idle)
    /\ UNCHANGED <<admin, roles, granted, live, cache>>

Step(c) ==
    \/ login(c) \/ issueSession(c) \/ adminAuthenticate(c) \/ getAdminPermissions(c)
    \/ cachePermissions(c) \/ Decide(c) \/ VerifyOwn(c) \/ WriteStatus(c)
    \/ WritePassword(c) \/ WriteRoles(c) \/ AssignFirstRole(c)
    \/ revokeAllAdminSessions(c) \/ invalidateMany(c) \/ CallLost(c)

Next == \E c \in Calls : Step(c)

Spec == Init /\ [][Next]_adminVars

-----------------------------------------------------------------------------
TypeOK ==
    /\ \A a \in Admins : admin[a].status \in Statuses \cup {"none"}
    /\ roles \in [Admins -> SUBSET RoleNames]
    /\ lost \in 0..MaxLost

Quiet == \A c \in Calls : call[c] = Idle

(* "Never remove the last active SUPER_ADMIN", by suspension, deactivation *)
(* or removal of the role, one call after the other, some of them lost.    *)
BreakGlassKept == ActiveSupers # {}

(* "Immediately invalidate existing sessions": whoever is not active, or   *)
(* has another password, has no session from before, unless a call was     *)
(* lost between its write and its revocation.                              *)
AccessEnds ==
    Quiet /\ lost = 0 =>
        \A a \in Admins : live[a] \subseteq (IF admin[a].status = "ACTIVE"
                                             THEN {admin[a].password} ELSE {})

(* What is cached is what the admin has, unless a call was lost before it  *)
(* dropped it.                                                             *)
CacheCurrent ==
    Quiet /\ lost = 0 => \A a \in Admins : cache[a] \in {NotCached, PermissionsOf(a)}

(* A call that writes has an actor who may: "You cannot grant permissions  *)
(* you do not currently hold".                                             *)
ActsWithinRights ==
    lost = 0 =>
        \A c \in Calls : At(c, "write") =>
            LET a == call[c].actor IN
            /\ admin[a].status = "ACTIVE"
            /\ call[c].op = "change" \/ PermissionsOf(a) # {}
            /\ call[c].op = "assign" /\ call[c].role = "SUPER_ADMIN" =>
                  "SUPER_ADMIN" \in roles[a]

AdminAccessHolds ==
    ~Overlap => TypeOK /\ BreakGlassKept /\ AccessEnds /\ CacheCurrent /\ ActsWithinRights
=============================================================================
