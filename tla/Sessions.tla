------------------------------ MODULE Sessions ------------------------------
(***************************************************************************)
(* The sessions of one user (backend/src/modules/auth/auth.service.ts):    *)
(* login under the single-active-session policy, refresh with rotation and *)
(* reuse detection, logout, and the password changes that end sessions.    *)
(* The database is the authority on a session; the denylist in Redis only  *)
(* makes the middleware refuse it sooner, and is left out, as is expiry.   *)
(***************************************************************************)
EXTENDS Naturals, FiniteSets

CONSTANTS
    MaxSessions,    \* bound: sessions
    MaxRefreshes,   \* bound: refreshes of a session
    MaxPasswords,   \* bound: password changes and resets
    MaxLost,        \* bound: calls lost on the way
    Calls           \* the calls handled at once

VARIABLES
    session,        \* auth_sessions: the token it accepts, whether it is revoked
    password,       \* users.password_hash, as a version
    resets,         \* the password reset tokens in Redis
    call,           \* per call: the step it is at
    exchanges,      \* history: the refreshes of each session
    before,         \* history: the sessions the last password change is to end
    lost            \* calls that ended before their revocations

Parameters ==
    /\ MaxSessions \in Nat /\ MaxRefreshes \in Nat /\ MaxLost \in Nat
    /\ MaxPasswords \in Nat \ {0}

sessionVars == <<session, password, resets, call, exchanges, before, lost>>

Ids == 1..MaxSessions
None == 0
Unused == [token |-> 0, revoked |-> FALSE]
Idle == [at |-> "idle"]

Init ==
    /\ session = [s \in Ids |-> Unused]
    /\ password = 1
    /\ resets = 0
    /\ call = [c \in Calls |-> Idle]
    /\ exchanges = [s \in Ids |-> 0]
    /\ before = {}
    /\ lost = 0

Go(c, x) == call' = [call EXCEPT ![c] = x]
At(c, step) == call[c].at = step

Opened == {s \in Ids : session[s] # Unused}
Active == {s \in Opened : ~session[s].revoked}

Revoked(ids) ==
    [s \in Ids |-> IF s \in ids THEN [session[s] EXCEPT !.revoked = TRUE] ELSE session[s]]

-----------------------------------------------------------------------------
(* login, whose password was verified at some time before: a new session,  *)
(* then the others are looked up and revoked.                              *)
createSession(c) ==
    /\ call[c] = Idle
    /\ \E s \in Ids \ Opened :
          /\ \A i \in Ids \ Opened : s <= i
          /\ session' = [session EXCEPT ![s].token = 1]
          /\ Go(c, [at |-> "others", except |-> s])
    /\ UNCHANGED <<password, resets, exchanges, before, lost>>

(* Mutant: only the sessions of the new session's own family.              *)
OthersOfFamily(s) == (Active \cap {s}) \ {s}

Others(s) == Active \ {s}

enforceSingleActiveSession(c) ==
    /\ At(c, "others")
    /\ Go(c, IF Others(call[c].except) = {} THEN Idle
             ELSE [at |-> "find", except |-> call[c].except])
    /\ UNCHANGED <<session, password, resets, exchanges, before, lost>>

(* Mutant: the newest session is spared as well.                           *)
ToRevokeButNewest(except) ==
    Active \ ({except} \cup {s \in Active : \A x \in Active : x <= s})

ToRevoke(except) == Active \ {except}

(* revokeAllSessionsForUser lists the sessions, then revokes them.         *)
FindSessions(c) ==
    LET ids == ToRevoke(call[c].except) IN
    /\ At(c, "find")
    /\ Go(c, IF ids = {} THEN Idle ELSE [at |-> "revoke", ids |-> ids])
    /\ UNCHANGED <<session, password, resets, exchanges, before, lost>>

RevokeSessions(c) ==
    /\ At(c, "revoke")
    /\ session' = Revoked(call[c].ids)
    /\ Go(c, Idle)
    /\ UNCHANGED <<password, resets, exchanges, before, lost>>

-----------------------------------------------------------------------------
(* refresh: any token that was ever issued may be presented, the current   *)
(* one by two calls at once.                                               *)
Present(c) ==
    /\ call[c] = Idle
    /\ \E s \in Opened : \E n \in 1..session[s].token :
          Go(c, IF session[s].revoked \/ session[s].token # n
                THEN [at |-> "revoke", ids |-> {s}]
                ELSE [at |-> "rotate", session |-> s, token |-> n])
    /\ UNCHANGED <<session, password, resets, exchanges, before, lost>>

(* Mutants: the update asks only for one of the two.                       *)
MayRotateRead(s, n) == ~session[s].revoked
MayRotateRevoked(s, n) == session[s].token = n

MayRotate(s, n) == session[s].token = n /\ ~session[s].revoked

(* A lost race is reuse: the family, which is the session, is revoked.     *)
rotateSessionAtomic(c) ==
    LET s == call[c].session
        n == call[c].token
    IN
    /\ At(c, "rotate") /\ n <= MaxRefreshes
    /\ \/ /\ MayRotate(s, n)
          /\ session' = [session EXCEPT ![s].token = n + 1]
          /\ exchanges' = [exchanges EXCEPT ![s] = @ + 1]
          /\ Go(c, Idle)
       \/ /\ ~MayRotate(s, n)
          /\ Go(c, [at |-> "revoke", ids |-> {s}])
          /\ UNCHANGED <<session, exchanges>>
    /\ UNCHANGED <<password, resets, before, lost>>

(* logout and revokeSession.                                               *)
Logout(c, s) ==
    /\ call[c] = Idle
    /\ s \in Active
    /\ session' = Revoked({s})
    /\ UNCHANGED <<password, resets, call, exchanges, before, lost>>

-----------------------------------------------------------------------------
(* changePassword spares the session it comes from, resetPassword, by a    *)
(* single-use token, spares none.                                          *)
ChangePassword(c) ==
    /\ call[c] = Idle
    /\ \E s \in Active : Go(c, [at |-> "update", except |-> s])
    /\ UNCHANGED <<session, password, resets, exchanges, before, lost>>

ForgotPassword ==
    /\ resets = 0 /\ password < MaxPasswords
    /\ resets' = 1
    /\ UNCHANGED <<session, password, call, exchanges, before, lost>>

ResetPassword(c) ==
    /\ call[c] = Idle
    /\ resets > 0
    /\ resets' = resets - 1
    /\ Go(c, [at |-> "update", except |-> None])
    /\ UNCHANGED <<session, password, exchanges, before, lost>>

updatePassword(c) ==
    /\ At(c, "update") /\ password < MaxPasswords
    /\ password' = password + 1
    /\ before' = Active \ {call[c].except}
    /\ Go(c, [call[c] EXCEPT !.at = "find"])
    /\ UNCHANGED <<session, resets, exchanges, lost>>

(* The process stops, or an error is thrown, before the revocations, and   *)
(* login swallows the error.  Any earlier, the call changes no session.    *)
CallLost(c) ==
    /\ lost < MaxLost
    /\ call[c].at \in {"others", "find", "revoke"}
    /\ lost' = lost + 1
    /\ Go(c, Idle)
    /\ UNCHANGED <<session, password, resets, exchanges, before>>

Step(c) ==
    \/ createSession(c) \/ enforceSingleActiveSession(c)
    \/ FindSessions(c) \/ RevokeSessions(c) \/ Present(c) \/ rotateSessionAtomic(c)
    \/ (\E s \in Ids : Logout(c, s)) \/ ChangePassword(c) \/ ResetPassword(c)
    \/ updatePassword(c) \/ CallLost(c)

Next == ForgotPassword \/ \E c \in Calls : Step(c)

Spec == Init /\ [][Next]_sessionVars

-----------------------------------------------------------------------------
Quiet == \A c \in Calls : call[c] = Idle

Steps ==
    {Idle}
    \cup [at : {"others"}, except : Opened]
    \cup [at : {"find", "update"}, except : Opened \cup {None}]
    \cup [at : {"revoke"}, ids : SUBSET Opened]
    \cup [at : {"rotate"}, session : Opened, token : 1..(MaxRefreshes + 1)]

TypeOK ==
    /\ session \in [Ids -> [token : 0..(MaxRefreshes + 1), revoked : BOOLEAN]]
    /\ password \in 1..MaxPasswords /\ resets \in 0..1
    /\ before \subseteq Opened
    /\ call \in [Calls -> Steps]
    /\ exchanges \in [Ids -> Nat] /\ lost \in 0..MaxLost

(* However logins overlap, one session is left, and at most one more for   *)
(* each call that was lost.                                                *)
SingleActiveSession == Quiet => Cardinality(Active) <= 1 + lost

(* A session that was open when the password changed is over, but for the  *)
(* one the change came from, where no call was lost.                       *)
PasswordChangeEndsSessions ==
    Quiet /\ lost = 0 => before \cap Active = {}

(* A refresh token is exchanged once, and none of a revoked session.       *)
TokenExchangedOnce == \A s \in Opened : exchanges[s] = session[s].token - 1

SessionsEnd == SingleActiveSession /\ PasswordChangeEndsSessions

RevokedIsFinal ==
    [][\A s \in Ids : session[s].revoked => session'[s] = session[s]]_sessionVars

RotationIsSafe == []TokenExchangedOnce /\ RevokedIsFinal

-----------------------------------------------------------------------------
(* Why they hold.  Sessions are numbered as they are opened, and a session *)
(* that was not opened was exchanged by none.                              *)
Numbered ==
    \A s \in Ids :
        /\ s \in Opened => \A i \in Ids : i <= s => i \in Opened
        /\ s \notin Opened => exchanges[s] = 0
        /\ s \in Opened => session[s].token >= 1

(* The call is to end every session that is older than this one.           *)
Owes(c, s) ==
    \/ call[c].at \in {"others", "find"} /\ call[c].except = s
    \/ call[c].at = "revoke" /\ s \notin call[c].ids
       /\ \A older \in Active : older < s => older \in call[c].ids

(* The newer sessions whose login no longer ends the older ones: each cost *)
(* a call.                                                                 *)
Unfinished ==
    {s \in Active : (\E older \in Active : older < s) /\ \A c \in Calls : ~Owes(c, s)}

LoginsLost == Cardinality(Unfinished) <= lost

(* Until the sessions that a password change is to end are over, a call is *)
(* at hand that ends them, or one was lost.                                *)
Ends(c) ==
    \/ call[c].at = "find" /\ call[c].except \notin before
    \/ call[c].at = "revoke" /\ before \cap Active \subseteq call[c].ids

ChangeAtHand == lost = 0 /\ before \cap Active # {} => \E c \in Calls : Ends(c)
=============================================================================
