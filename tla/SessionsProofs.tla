--------------------------- MODULE SessionsProofs ---------------------------
(***************************************************************************)
(* Proofs about Sessions: the types of its state, the one exchange of a    *)
(* refresh token, the end of a revoked session, and the two promises about *)
(* the sessions left open, by a login and by a change of the password.     *)
(***************************************************************************)
EXTENDS Sessions, FiniteSetTheorems, NaturalsInduction, WellFoundedInduction, TLAPS

-----------------------------------------------------------------------------
(* The states of a call.                                                   *)
LEMMA CallType ==
    ASSUME TypeOK, NEW c \in Calls
    PROVE  /\ call[c] = Idle => call[c].at = "idle"
           /\ call[c].at = "idle" => call[c] = Idle
           /\ call[c].at = "others" => call[c].except \in Opened
           /\ call[c].at \in {"find", "update"} => call[c].except \in Opened \cup {None}
           /\ call[c].at = "revoke" => call[c].ids \subseteq Opened
           /\ call[c].at = "rotate" =>
                 call[c].session \in Opened /\ call[c].token \in 1..(MaxRefreshes + 1)
<1> call[c] \in Steps
  BY DEF TypeOK
<1> QED BY DEF Steps, Idle

LEMMA StepsGrow ==
    ASSUME Opened \subseteq Opened' PROVE Steps \subseteq Steps'
<1> SUFFICES ASSUME NEW x \in Steps PROVE x \in Steps'
  OBVIOUS
<1>1. CASE x \in {Idle}
  BY <1>1 DEF Steps
<1>2. CASE x \in [at : {"others"}, except : Opened]
  BY <1>2 DEF Steps
<1>3. CASE x \in [at : {"find", "update"}, except : Opened \cup {None}]
  BY <1>3 DEF Steps
<1>4. CASE x \in [at : {"revoke"}, ids : SUBSET Opened]
  BY <1>4 DEF Steps
<1>5. CASE x \in [at : {"rotate"}, session : Opened, token : 1..(MaxRefreshes + 1)]
  BY <1>5 DEF Steps
<1> QED BY <1>1, <1>2, <1>3, <1>4, <1>5 DEF Steps

LEMMA GoEffect ==
    ASSUME TypeOK, NEW c \in Calls, NEW x, Go(c, x), x \in Steps', Opened \subseteq Opened'
    PROVE  /\ call' \in [Calls -> Steps'] /\ call'[c] = x
           /\ \A d \in Calls \ {c} : call'[d] = call[d]
<1> Steps \subseteq Steps'
  BY StepsGrow
<1> QED BY DEF Go, TypeOK

-----------------------------------------------------------------------------
(* What a call does to the sessions.                                       *)
LEMMA RevokedEffect ==
    ASSUME TypeOK, NEW ids, ids \subseteq Opened, session' = Revoked(ids)
    PROVE  /\ session' \in [Ids -> [token : 0..(MaxRefreshes + 1), revoked : BOOLEAN]]
           /\ Opened' = Opened /\ Active' = Active \ ids
           /\ \A s \in Ids : session'[s].token = session[s].token
           /\ \A s \in Ids : session[s].revoked => session'[s] = session[s]
<1>1. ASSUME NEW s \in Ids
      PROVE  /\ session'[s] \in [token : 0..(MaxRefreshes + 1), revoked : BOOLEAN]
             /\ session'[s].token = session[s].token
             /\ session'[s].revoked <=> session[s].revoked \/ s \in ids
             /\ session[s].revoked => session'[s] = session[s]
             /\ s \notin ids => session'[s] = session[s]
  <2> DEFINE x == session[s]
  <2>1. x \in [token : 0..(MaxRefreshes + 1), revoked : BOOLEAN]
    BY DEF TypeOK
  <2>2. session'[s] = IF s \in ids THEN [x EXCEPT !.revoked = TRUE] ELSE x
    BY DEF Revoked
  <2> HIDE DEF x
  <2>3. /\ session'[s] \in [token : 0..(MaxRefreshes + 1), revoked : BOOLEAN]
        /\ session'[s].token = x.token
        /\ session'[s].revoked <=> x.revoked \/ s \in ids
        /\ x.revoked => session'[s] = x
        /\ s \notin ids => session'[s] = x
    BY <2>1, <2>2
  <2> QED BY <2>3 DEF x
<1>2. \A s \in Ids : session'[s] # Unused <=> session[s] # Unused
  <2> SUFFICES ASSUME NEW s \in ids PROVE session'[s] # Unused /\ session[s] # Unused
    BY <1>1
  <2> s \in Ids /\ session[s] # Unused
    BY DEF Opened
  <2> QED BY <1>1 DEF Unused
<1>3. session' = [s \in Ids |-> session'[s]]
  BY DEF Revoked
<1>4. Opened' = Opened
  BY <1>2 DEF Opened
<1> QED BY <1>1, <1>3, <1>4 DEF Opened, Active

LEMMA CreateEffect ==
    ASSUME Parameters, TypeOK, NEW c \in Calls, createSession(c)
    PROVE  \E s \in Ids \ Opened :
              /\ \A i \in Ids \ Opened : s <= i
              /\ session' \in [Ids -> [token : 0..(MaxRefreshes + 1), revoked : BOOLEAN]]
              /\ Opened' = Opened \cup {s} /\ Active' = Active \cup {s}
              /\ session'[s].token = 1
              /\ \A i \in Ids \ {s} : session'[i] = session[i]
              /\ Go(c, [at |-> "others", except |-> s])
              /\ ~session[s].revoked
<1>1. PICK s \in Ids \ Opened :
         /\ \A i \in Ids \ Opened : s <= i
         /\ session' = [session EXCEPT ![s].token = 1]
         /\ Go(c, [at |-> "others", except |-> s])
  BY DEF createSession
<1>2. session[s] = Unused
  BY DEF Opened
<1>3. /\ session' = [i \in Ids |-> session'[i]]
      /\ session'[s] = [token |-> 1, revoked |-> FALSE]
      /\ \A i \in Ids \ {s} : session'[i] = session[i]
  <2>1. session' = [session EXCEPT ![s] = [session[s] EXCEPT !.token = 1]]
    BY <1>1
  <2>2. session[s] \in [token : 0..(MaxRefreshes + 1), revoked : BOOLEAN]
    BY DEF TypeOK
  <2>3. session[s].revoked = FALSE
    BY <1>2 DEF Unused
  <2>4. /\ session' = [i \in Ids |-> session'[i]]
        /\ session'[s] = [session[s] EXCEPT !.token = 1]
        /\ \A i \in Ids \ {s} : session'[i] = session[i]
    BY <2>1 DEF TypeOK
  <2>5. session'[s] = [token |-> 1, revoked |-> FALSE]
    BY <2>2, <2>3, <2>4
  <2> QED BY <2>4, <2>5
<1>4. [token |-> 1, revoked |-> FALSE] \in [token : 0..(MaxRefreshes + 1), revoked : BOOLEAN]
  BY DEF Parameters
<1>5. Opened' = Opened \cup {s}
  BY <1>3 DEF Opened, Unused
<1>6. Active' = Active \cup {s}
  <2>1. s \notin Opened /\ \A i \in Opened : session'[i] = session[i]
    BY <1>3 DEF Opened
  <2>2. ~session'[s].revoked
    BY <1>3
  <2> QED BY <1>5, <2>1, <2>2 DEF Active
<1>7. session' \in [Ids -> [token : 0..(MaxRefreshes + 1), revoked : BOOLEAN]]
  BY <1>3, <1>4 DEF TypeOK
<1>8. session'[s].token = 1 /\ ~session[s].revoked
  BY <1>2, <1>3 DEF Unused
<1> QED BY <1>1, <1>3, <1>5, <1>6, <1>7, <1>8

LEMMA RotateEffect ==
    ASSUME Parameters, TypeOK, NEW s \in Opened, NEW n \in 1..MaxRefreshes,
           MayRotate(s, n), session' = [session EXCEPT ![s].token = n + 1]
    PROVE  /\ session' \in [Ids -> [token : 0..(MaxRefreshes + 1), revoked : BOOLEAN]]
           /\ Opened' = Opened /\ Active' = Active
           /\ session'[s].token = session[s].token + 1 /\ ~session[s].revoked
           /\ \A i \in Ids \ {s} : session'[i] = session[i]
<1>1. s \in Ids /\ session[s] \in [token : 0..(MaxRefreshes + 1), revoked : BOOLEAN]
  BY DEF TypeOK, Opened
<1>2. /\ session' = [session EXCEPT ![s] = [session[s] EXCEPT !.token = n + 1]]
      /\ session'[s] = [session[s] EXCEPT !.token = n + 1]
      /\ \A i \in Ids \ {s} : session'[i] = session[i]
  BY <1>1 DEF TypeOK
<1>3. session[s].token = n /\ ~session[s].revoked
  BY DEF MayRotate
<1>4. n + 1 \in 0..(MaxRefreshes + 1)
  BY DEF Parameters
<1>5. session'[s] = [token |-> n + 1, revoked |-> FALSE]
  BY <1>1, <1>2, <1>3
<1>6. session' \in [Ids -> [token : 0..(MaxRefreshes + 1), revoked : BOOLEAN]]
  BY <1>2, <1>4, <1>5, <1>3 DEF TypeOK
<1>7. Opened' = Opened
  BY <1>2, <1>5, <1>1 DEF Opened, Unused
<1>8. Active' = Active
  BY <1>2, <1>3, <1>5, <1>7 DEF Active
<1> QED BY <1>2, <1>3, <1>5, <1>6, <1>7, <1>8

-----------------------------------------------------------------------------
(* Every step keeps the types, and adds sessions in order.                 *)
LEMMA TypeStep ==
    ASSUME Parameters, TypeOK, [Next]_sessionVars
    PROVE  TypeOK' /\ Opened \subseteq Opened'
<1> DEFINE SessionType == session \in [Ids -> [token : 0..(MaxRefreshes + 1), revoked : BOOLEAN]]
           CallTypes == call \in [Calls -> Steps]
           Rest ==   /\ password \in 1..MaxPasswords /\ resets \in 0..1
                     /\ before \subseteq Opened
                     /\ exchanges \in [Ids -> Nat] /\ lost \in 0..MaxLost
           Good == SessionType' /\ CallTypes' /\ Rest' /\ Opened \subseteq Opened'
<1>T. Good => TypeOK' /\ Opened \subseteq Opened'
  BY DEF TypeOK
<1>S. UNCHANGED session => SessionType' /\ Opened' = Opened
  BY DEF TypeOK, Opened
<1>O. Opened \subseteq Opened' /\ UNCHANGED <<password, resets, exchanges, before, lost>> => Rest'
  BY DEF TypeOK
<1>G. ASSUME NEW c \in Calls, NEW x \in Steps', Go(c, x), Opened \subseteq Opened'
      PROVE  CallTypes'
  BY <1>G, GoEffect
<1>C. ASSUME UNCHANGED call, Opened \subseteq Opened' PROVE CallTypes'
  BY <1>C, StepsGrow DEF TypeOK
<1>I. Idle \in Steps'
  BY DEF Steps
<1>R. ASSUME NEW ids \in SUBSET Opened' PROVE [at |-> "revoke", ids |-> ids] \in Steps'
  BY DEF Steps
<1>F. ASSUME NEW e \in Opened' \cup {None}, NEW step \in {"find", "update"}
      PROVE  [at |-> step, except |-> e] \in Steps'
  BY DEF Steps
<1>1. ASSUME NEW c \in Calls, createSession(c) PROVE Good
  <2>1. PICK s \in Ids \ Opened :
           /\ SessionType' /\ Opened' = Opened \cup {s}
           /\ Go(c, [at |-> "others", except |-> s])
    BY <1>1, CreateEffect
  <2>2. [at |-> "others", except |-> s] \in Steps'
    BY <2>1 DEF Steps
  <2>3. UNCHANGED <<password, resets, exchanges, before, lost>>
    BY <1>1 DEF createSession
  <2> QED BY <2>1, <2>2, <2>3, <1>G, <1>O
<1>2. ASSUME NEW c \in Calls, enforceSingleActiveSession(c) PROVE Good
  <2>1. UNCHANGED <<session, password, resets, exchanges, before, lost>>
    BY <1>2 DEF enforceSingleActiveSession
  <2>2. \E x \in Steps' : Go(c, x)
    BY <1>2, <1>I, <1>F, <2>1, <1>S, CallType DEF enforceSingleActiveSession, At
  <2> QED BY <2>1, <2>2, <1>S, <1>G, <1>O
<1>3. ASSUME NEW c \in Calls, FindSessions(c) PROVE Good
  <2>1. UNCHANGED <<session, password, resets, exchanges, before, lost>>
    BY <1>3 DEF FindSessions
  <2>2. \E x \in Steps' : Go(c, x)
    BY <1>3, <1>I, <1>R, <2>1, <1>S DEF FindSessions, ToRevoke, Active
  <2> QED BY <2>1, <2>2, <1>S, <1>G, <1>O
<1>4. ASSUME NEW c \in Calls, RevokeSessions(c) PROVE Good
  <2>1. UNCHANGED <<password, resets, exchanges, before, lost>> /\ Go(c, Idle)
    BY <1>4 DEF RevokeSessions
  <2>2. SessionType' /\ Opened' = Opened
    BY <1>4, CallType, RevokedEffect DEF RevokeSessions, At
  <2> QED BY <2>1, <2>2, <1>I, <1>G, <1>O
<1>5. ASSUME NEW c \in Calls, Present(c) PROVE Good
  <2>1. UNCHANGED <<session, password, resets, exchanges, before, lost>>
    BY <1>5 DEF Present
  <2>2. PICK s \in Opened : \E n \in 1..session[s].token :
           \/ Go(c, [at |-> "revoke", ids |-> {s}])
           \/ Go(c, [at |-> "rotate", session |-> s, token |-> n])
    BY <1>5 DEF Present
  <2>3. session[s].token \in 0..(MaxRefreshes + 1)
    BY DEF TypeOK, Opened
  <2>4. \A n \in 1..session[s].token :
           [at |-> "rotate", session |-> s, token |-> n] \in Steps'
    BY <2>1, <2>3, <1>S DEF Steps, Parameters
  <2>5. \E x \in Steps' : Go(c, x)
    BY <2>1, <2>2, <2>4, <1>R, <1>S
  <2> QED BY <2>1, <2>5, <1>S, <1>G, <1>O
<1>6. ASSUME NEW c \in Calls, rotateSessionAtomic(c) PROVE Good
  <2> DEFINE s == call[c].session
             n == call[c].token
  <2>1. /\ s \in Opened /\ n \in 1..MaxRefreshes
        /\ UNCHANGED <<password, resets, before, lost>>
    BY <1>6, CallType DEF rotateSessionAtomic, At, Parameters
  <2>2. \/ /\ MayRotate(s, n) /\ session' = [session EXCEPT ![s].token = n + 1]
           /\ exchanges' = [exchanges EXCEPT ![s] = @ + 1] /\ Go(c, Idle)
        \/ UNCHANGED <<session, exchanges>> /\ Go(c, [at |-> "revoke", ids |-> {s}])
    BY <1>6 DEF rotateSessionAtomic
  <2> HIDE DEF s, n
  <2>3. SessionType' /\ Opened' = Opened
    BY <2>1, <2>2, RotateEffect, <1>S
  <2>4. exchanges' \in [Ids -> Nat]
    BY <2>1, <2>2 DEF TypeOK
  <2>5. \E x \in Steps' : Go(c, x)
    BY <2>1, <2>2, <2>3, <1>I, <1>R
  <2> QED BY <2>1, <2>3, <2>4, <2>5, <1>G DEF TypeOK
<1>7. ASSUME NEW c \in Calls, NEW s \in Ids, Logout(c, s) PROVE Good
  <2>1. UNCHANGED <<password, resets, call, exchanges, before, lost>>
    BY <1>7 DEF Logout
  <2>2. SessionType' /\ Opened' = Opened
    <3>1. PICK ids : ids = {s} /\ ids \subseteq Opened /\ session' = Revoked(ids)
      BY <1>7 DEF Logout, Active
    <3> QED BY <3>1, RevokedEffect
  <2> QED BY <2>1, <2>2, <1>C, <1>O
<1>8. ASSUME NEW c \in Calls, ChangePassword(c) PROVE Good
  <2>1. UNCHANGED <<session, password, resets, exchanges, before, lost>>
    BY <1>8 DEF ChangePassword
  <2>2. \E x \in Steps' : Go(c, x)
    BY <1>8, <1>F, <2>1, <1>S DEF ChangePassword, Active
  <2> QED BY <2>1, <2>2, <1>S, <1>G, <1>O
<1>9. ASSUME NEW c \in Calls, ResetPassword(c) PROVE Good
  <2>1. UNCHANGED <<session, password, exchanges, before, lost>> /\ resets' \in 0..1
    BY <1>9 DEF ResetPassword, TypeOK
  <2>2. \E x \in Steps' : Go(c, x)
    BY <1>9, <1>F DEF ResetPassword
  <2> QED BY <2>1, <2>2, <1>S, <1>G DEF TypeOK
<1>10. ASSUME NEW c \in Calls, updatePassword(c) PROVE Good
  <2>1. /\ call[c].at = "update" /\ password' = password + 1 /\ password < MaxPasswords
        /\ before' = Active \ {call[c].except}
        /\ Go(c, [call[c] EXCEPT !.at = "find"])
        /\ UNCHANGED <<session, resets, exchanges, lost>>
    BY <1>10 DEF updatePassword, At
  <2>2. call[c] \in [at : {"find", "update"}, except : Opened \cup {None}]
    BY <2>1 DEF TypeOK, Steps, Idle
  <2>3. [call[c] EXCEPT !.at = "find"] \in [at : {"find", "update"}, except : Opened \cup {None}]
    BY <2>2
  <2>4. [call[c] EXCEPT !.at = "find"] \in Steps'
    BY <2>1, <2>3, <1>S DEF Steps
  <2>5. password' \in 1..MaxPasswords /\ before' \subseteq Opened
    BY <2>1 DEF TypeOK, Active, Parameters
  <2> QED BY <2>1, <2>4, <2>5, <1>S, <1>G DEF TypeOK
<1>11. ASSUME NEW c \in Calls, CallLost(c) PROVE Good
  <2>1. /\ UNCHANGED <<session, password, resets, exchanges, before>>
        /\ lost' \in 0..MaxLost /\ Go(c, Idle)
    BY <1>11 DEF CallLost, TypeOK, Parameters
  <2> QED BY <2>1, <1>I, <1>S, <1>G DEF TypeOK
<1>12. ASSUME ForgotPassword PROVE Good
  <2>1. UNCHANGED <<session, password, call, exchanges, before, lost>> /\ resets' \in 0..1
    BY <1>12 DEF ForgotPassword
  <2> QED BY <2>1, <1>S, <1>C DEF TypeOK
<1>13. ASSUME UNCHANGED sessionVars PROVE Good
  BY <1>13, <1>S, <1>C, <1>O DEF sessionVars
<1> QED
  BY <1>T, <1>1, <1>2, <1>3, <1>4, <1>5, <1>6, <1>7, <1>8, <1>9, <1>10, <1>11,
     <1>12, <1>13
  DEF Next, Step

-----------------------------------------------------------------------------
(* The steps that leave the sessions alone.                                *)
Aside(c) ==
    \/ enforceSingleActiveSession(c) \/ FindSessions(c) \/ Present(c)
    \/ ChangePassword(c) \/ ResetPassword(c) \/ updatePassword(c) \/ CallLost(c)

LEMMA AsideEffect ==
    ASSUME NEW c \in Calls, Aside(c)
    PROVE  UNCHANGED <<session, exchanges>> /\ Opened' = Opened /\ Active' = Active
<1>1. UNCHANGED <<session, exchanges>>
  BY DEF Aside, enforceSingleActiveSession, FindSessions, Present, ChangePassword,
         ResetPassword, updatePassword, CallLost
<1> QED BY <1>1 DEF Opened, Active

(* The sessions are numbered in order, a token is counted with each        *)
(* exchange, and what is revoked stays as it is.                           *)
LEMMA RotationStep ==
    ASSUME Parameters, TypeOK, Numbered, TokenExchangedOnce, [Next]_sessionVars
    PROVE  /\ Numbered' /\ TokenExchangedOnce'
           /\ \A s \in Ids : session[s].revoked => session'[s] = session[s]
<1> DEFINE Kept == \A s \in Ids : session[s].revoked => session'[s] = session[s]
           Good == Numbered' /\ TokenExchangedOnce' /\ Kept
<1>U. ASSUME UNCHANGED <<session, exchanges>> PROVE Good
  BY <1>U DEF Numbered, TokenExchangedOnce, Opened
<1>R. ASSUME NEW ids, ids \subseteq Opened, session' = Revoked(ids), UNCHANGED exchanges
      PROVE  Good
  <2>1. /\ Opened' = Opened /\ Kept
        /\ \A s \in Ids : session'[s].token = session[s].token
    BY <1>R, RevokedEffect
  <2>2. Opened \subseteq Ids
    BY DEF Opened
  <2>3. Numbered'
    BY <1>R, <2>1 DEF Numbered
  <2>4. TokenExchangedOnce'
    BY <1>R, <2>1, <2>2 DEF TokenExchangedOnce
  <2> QED BY <2>1, <2>3, <2>4
<1>1. ASSUME NEW c \in Calls, createSession(c) PROVE Good
  <2>1. PICK s \in Ids \ Opened :
           /\ \A i \in Ids \ Opened : s <= i
           /\ Opened' = Opened \cup {s} /\ session'[s].token = 1
           /\ \A i \in Ids \ {s} : session'[i] = session[i]
           /\ ~session[s].revoked
    BY <1>1, CreateEffect
  <2>2. UNCHANGED exchanges
    BY <1>1 DEF createSession
  <2>3. Opened \subseteq Ids
    BY DEF Opened
  <2>4. Kept
    BY <2>1
  <2>5. TokenExchangedOnce'
    BY <2>1, <2>2, <2>3 DEF TokenExchangedOnce, Numbered
  <2>6. \A i \in Ids : i <= s => i \in Opened'
    BY <2>1 DEF Ids
  <2>7. \A t \in Ids : t \in Opened => \A i \in Ids : i <= t => i \in Opened'
    BY <2>1 DEF Numbered
  <2>8. \A t \in Ids : t \notin Opened' => exchanges'[t] = 0 /\ t \notin Opened
    BY <2>1, <2>2 DEF Numbered
  <2>9. \A t \in Ids : t \in Opened' => session'[t].token >= 1
    BY <2>1 DEF Numbered
  <2> QED BY <2>1, <2>4, <2>5, <2>6, <2>7, <2>8, <2>9 DEF Numbered
<1>2. ASSUME NEW c \in Calls, RevokeSessions(c) PROVE Good
  BY <1>2, <1>R, CallType DEF RevokeSessions, At
<1>3. ASSUME NEW c \in Calls, rotateSessionAtomic(c) PROVE Good
  <2> DEFINE s == call[c].session
             n == call[c].token
  <2>1. s \in Opened /\ n \in 1..MaxRefreshes
    BY <1>3, CallType DEF rotateSessionAtomic, At, Parameters
  <2>2. \/ /\ MayRotate(s, n) /\ session' = [session EXCEPT ![s].token = n + 1]
           /\ exchanges' = [exchanges EXCEPT ![s] = @ + 1]
        \/ UNCHANGED <<session, exchanges>>
    BY <1>3 DEF rotateSessionAtomic
  <2> HIDE DEF s, n
  <2>3. CASE /\ MayRotate(s, n) /\ session' = [session EXCEPT ![s].token = n + 1]
             /\ exchanges' = [exchanges EXCEPT ![s] = @ + 1]
    <3>1. /\ Opened' = Opened
          /\ session'[s].token = session[s].token + 1 /\ ~session[s].revoked
          /\ \A i \in Ids \ {s} : session'[i] = session[i]
      BY <2>1, <2>3, RotateEffect
    <3>2. /\ Opened \subseteq Ids
          /\ session[s].token \in Nat /\ exchanges[s] \in Nat
          /\ exchanges'[s] = exchanges[s] + 1
          /\ \A i \in Ids \ {s} : exchanges'[i] = exchanges[i]
      BY <2>1, <2>3 DEF Opened, TypeOK
    <3>3. Kept
      BY <3>1
    <3>4. TokenExchangedOnce'
      BY <2>1, <3>1, <3>2 DEF TokenExchangedOnce
    <3>5. Numbered'
      BY <2>1, <3>1, <3>2 DEF Numbered
    <3> QED BY <3>3, <3>4, <3>5
  <2> QED BY <2>2, <2>3, <1>U
<1>4. ASSUME NEW c \in Calls, NEW s \in Ids, Logout(c, s) PROVE Good
  <2>1. PICK ids : ids = {s} /\ ids \subseteq Opened /\ session' = Revoked(ids)
    BY <1>4 DEF Logout, Active
  <2> QED BY <1>4, <2>1, <1>R DEF Logout
<1>5. ASSUME NEW c \in Calls, Aside(c) PROVE Good
  BY <1>5, <1>U, AsideEffect
<1>6. ASSUME ForgotPassword \/ UNCHANGED sessionVars PROVE Good
  BY <1>6, <1>U DEF ForgotPassword, sessionVars
<1> QED BY <1>1, <1>2, <1>3, <1>4, <1>5, <1>6 DEF Next, Step, Aside

-----------------------------------------------------------------------------
(* The calls of a step other than the one that takes it.                   *)
LEMMA OneCall ==
    ASSUME TypeOK, NEW c \in Calls, NEW x, Go(c, x)
    PROVE  call'[c] = x /\ \A d \in Calls \ {c} : call'[d] = call[d]
BY DEF Go, TypeOK

(* While the sessions a change is to end are open, no step loses the call  *)
(* that ends them but by losing it.                                        *)
LEMMA ChangeStep ==
    ASSUME Parameters, TypeOK, ChangeAtHand, [Next]_sessionVars
    PROVE  ChangeAtHand'
<1> DEFINE Left == before \cap Active
<1>K. ASSUME UNCHANGED <<before, lost>>, Left' \subseteq Left,
             \A c \in Calls : Ends(c) => Ends(c)' \/ Left' = {}
      PROVE  ChangeAtHand'
  BY <1>K DEF ChangeAtHand
<1>A. ASSUME NEW c \in Calls, NEW x, Go(c, x), UNCHANGED <<before, lost>>,
             Left' \subseteq Left, Ends(c) => Ends(c)' \/ Left' = {}
      PROVE  ChangeAtHand'
  <2>1. \A d \in Calls \ {c} : call'[d] = call[d]
    BY <1>A, OneCall
  <2>2. \A d \in Calls \ {c} : Ends(d) => Ends(d)'
    BY <2>1, <1>A DEF Ends
  <2> QED BY <1>A, <1>K, <2>2
<1>1. ASSUME NEW c \in Calls, createSession(c) PROVE ChangeAtHand'
  <2>1. PICK s \in Ids \ Opened : /\ Active' = Active \cup {s}
                                  /\ Go(c, [at |-> "others", except |-> s])
    BY <1>1, CreateEffect
  <2>2. UNCHANGED <<before, lost>> /\ ~Ends(c)
    BY <1>1 DEF createSession, Ends, Idle
  <2>3. Left' \subseteq Left
    BY <2>1, <2>2 DEF TypeOK
  <2> QED BY <2>1, <2>2, <2>3, <1>A
<1>2. ASSUME NEW c \in Calls, enforceSingleActiveSession(c) PROVE ChangeAtHand'
  <2>1. UNCHANGED <<before, lost>> /\ Active' = Active /\ ~Ends(c)
    BY <1>2, AsideEffect DEF Aside, enforceSingleActiveSession, Ends, At
  <2> QED BY <1>2, <2>1, <1>A DEF enforceSingleActiveSession
<1>3. ASSUME NEW c \in Calls, FindSessions(c) PROVE ChangeAtHand'
  <2> DEFINE ids == Active \ {call[c].except}
             x == IF ids = {} THEN Idle ELSE [at |-> "revoke", ids |-> ids]
  <2>1. /\ UNCHANGED <<before, lost>> /\ Active' = Active /\ call[c].at = "find"
        /\ Go(c, x)
    BY <1>3, AsideEffect DEF Aside, FindSessions, ToRevoke, At
  <2>2. ASSUME Ends(c) PROVE Ends(c)' \/ Left' = {}
    <3>1. before \cap Active \subseteq ids
      BY <2>1, <2>2 DEF Ends
    <3>2. call'[c] = x
      BY <2>1, OneCall
    <3>3. CASE ids = {}
      BY <2>1, <3>1, <3>3
    <3>4. CASE ids # {}
      <4>1. call'[c] = [at |-> "revoke", ids |-> ids]
        BY <3>2, <3>4
      <4> HIDE DEF ids
      <4> QED BY <2>1, <3>1, <4>1 DEF Ends
    <3> QED BY <3>3, <3>4
  <2> HIDE DEF x
  <2> QED BY <2>1, <2>2, <1>A
<1>4. ASSUME NEW c \in Calls, RevokeSessions(c) PROVE ChangeAtHand'
  <2>1. /\ UNCHANGED <<before, lost>> /\ call[c].at = "revoke" /\ Go(c, Idle)
        /\ Active' = Active \ call[c].ids
    BY <1>4, CallType, RevokedEffect DEF RevokeSessions, At
  <2>2. Ends(c) => Left' = {}
    BY <2>1 DEF Ends
  <2> QED BY <2>1, <2>2, <1>A
<1>5. ASSUME NEW c \in Calls, Present(c) \/ ChangePassword(c) \/ ResetPassword(c)
      PROVE  ChangeAtHand'
  <2>0. UNCHANGED <<before, lost>> /\ call[c] = Idle
    BY <1>5 DEF Present, ChangePassword, ResetPassword
  <2>1. UNCHANGED <<before, lost>> /\ Active' = Active /\ ~Ends(c)
    BY <1>5, <2>0, AsideEffect DEF Aside, Ends, Idle
  <2>2. \E x : Go(c, x)
    BY <1>5 DEF Present, ChangePassword, ResetPassword
  <2> QED BY <2>1, <2>2, <1>A
<1>6. ASSUME NEW c \in Calls, rotateSessionAtomic(c) PROVE ChangeAtHand'
  <2> DEFINE s == call[c].session
             n == call[c].token
  <2>1. /\ s \in Opened /\ n \in 1..MaxRefreshes
        /\ UNCHANGED <<before, lost>> /\ ~Ends(c)
    BY <1>6, CallType DEF rotateSessionAtomic, At, Ends, Parameters
  <2>2. /\ \/ MayRotate(s, n) /\ session' = [session EXCEPT ![s].token = n + 1]
           \/ UNCHANGED session
        /\ \E x : Go(c, x)
    BY <1>6 DEF rotateSessionAtomic
  <2>3. Active' = Active
    <3> HIDE DEF s, n
    <3> QED BY <2>1, <2>2, RotateEffect DEF Active, Opened
  <2> QED BY <2>1, <2>2, <2>3, <1>A
<1>7. ASSUME NEW c \in Calls, NEW s \in Ids, Logout(c, s) PROVE ChangeAtHand'
  <2>1. PICK ids : ids = {s} /\ ids \subseteq Opened /\ session' = Revoked(ids)
    BY <1>7 DEF Logout, Active
  <2>2. Active' \subseteq Active /\ UNCHANGED <<call, before, lost>>
    BY <1>7, <2>1, RevokedEffect DEF Logout
  <2>3. \A d \in Calls : Ends(d) => Ends(d)'
    BY <2>2 DEF Ends
  <2> QED BY <2>2, <2>3, <1>K
<1>8. ASSUME NEW c \in Calls, updatePassword(c) PROVE ChangeAtHand'
  <2> DEFINE e == call[c].except
  <2>1. /\ call[c].at = "update" /\ before' = Active \ {e} /\ Active' = Active
        /\ Go(c, [call[c] EXCEPT !.at = "find"])
    BY <1>8, AsideEffect DEF Aside, updatePassword, At
  <2>2. call[c] \in [at : {"find", "update"}, except : Opened \cup {None}]
    BY <2>1 DEF TypeOK, Steps, Idle
  <2>3. call'[c] = [call[c] EXCEPT !.at = "find"]
    BY <2>1, OneCall
  <2>4. call'[c].at = "find" /\ call'[c].except = e
    BY <2>2, <2>3
  <2>5. Ends(c)'
    BY <2>1, <2>4 DEF Ends
  <2> QED BY <2>5 DEF ChangeAtHand
<1>9. ASSUME NEW c \in Calls, CallLost(c) PROVE ChangeAtHand'
  BY <1>9 DEF CallLost, ChangeAtHand, TypeOK, Parameters
<1>10. ASSUME ForgotPassword \/ UNCHANGED sessionVars PROVE ChangeAtHand'
  BY <1>10, <1>K DEF ForgotPassword, sessionVars, Ends, Active, Opened
<1> QED
  BY <1>1, <1>2, <1>3, <1>4, <1>5, <1>6, <1>7, <1>8, <1>9, <1>10 DEF Next, Step

-----------------------------------------------------------------------------
(* What a login has not finished, and no call is to finish, is counted.    *)
LEMMA Counted ==
    ASSUME Parameters, TypeOK, LoginsLost, Unfinished' \subseteq Unfinished, lost' = lost
    PROVE  LoginsLost'
<1>1. IsFiniteSet(Unfinished)
  <2>1. IsFiniteSet(Ids)
    BY FS_Interval DEF Ids, Parameters
  <2>2. Unfinished \in SUBSET Ids
    BY DEF Unfinished, Active, Opened
  <2> QED BY <2>1, <2>2, FS_Subset
<1>2. /\ Cardinality(Unfinished') <= Cardinality(Unfinished)
      /\ Cardinality(Unfinished) \in Nat /\ Cardinality(Unfinished') \in Nat
  BY <1>1, FS_Subset, FS_CardinalityType
<1> QED BY <1>2 DEF LoginsLost, TypeOK

(* A lost call leaves at most one login unfinished: of two sessions that   *)
(* are open it cannot end both and be the login of both.                   *)
LEMMA OneOwed ==
    ASSUME TypeOK, NEW c \in Calls, NEW s \in Active, NEW t \in Active, Owes(c, s), Owes(c, t)
    PROVE  s = t
<1>1. s \in Int /\ t \in Int
  BY DEF Active, Opened, Ids
<1>2. CASE call[c].at = "revoke"
  <2>1. /\ s \notin call[c].ids /\ \A older \in Active : older < s => older \in call[c].ids
        /\ t \notin call[c].ids /\ \A older \in Active : older < t => older \in call[c].ids
    BY <1>2 DEF Owes
  <2> QED BY <1>1, <2>1
<1>3. CASE call[c].at # "revoke"
  BY <1>3 DEF Owes
<1> QED BY <1>2, <1>3

LEMMA LoginLost ==
    ASSUME Parameters, TypeOK, LoginsLost, NEW c \in Calls, CallLost(c)
    PROVE  LoginsLost'
<1>1. /\ Active' = Active /\ lost' = lost + 1
      /\ \A d \in Calls \ {c} : call'[d] = call[d]
  BY AsideEffect, OneCall DEF CallLost, Aside
<1>2. \A d \in Calls \ {c}, s \in Active : Owes(d, s) => Owes(d, s)'
  BY <1>1 DEF Owes
<1>3. \A s \in Unfinished' : s \in Unfinished \/ Owes(c, s)
  BY <1>1, <1>2 DEF Unfinished
<1>4. \A s \in Unfinished' : s \in Active
  BY <1>1 DEF Unfinished
<1>5. \E t : Unfinished' \subseteq Unfinished \cup {t}
  <2>1. CASE \E t \in Active : Owes(c, t)
    BY <2>1, <1>3, <1>4, OneOwed
  <2>2. CASE ~ \E t \in Active : Owes(c, t)
    BY <2>2, <1>3, <1>4
  <2> QED BY <2>1, <2>2
<1>6. PICK t : Unfinished' \subseteq Unfinished \cup {t}
  BY <1>5
<1>7. IsFiniteSet(Unfinished)
  <2>1. IsFiniteSet(Ids)
    BY FS_Interval DEF Ids, Parameters
  <2>2. Unfinished \in SUBSET Ids
    BY DEF Unfinished, Active, Opened
  <2> QED BY <2>1, <2>2, FS_Subset
<1>8. /\ IsFiniteSet(Unfinished \cup {t})
      /\ Cardinality(Unfinished \cup {t}) <= Cardinality(Unfinished) + 1
      /\ Cardinality(Unfinished) \in Nat
  BY <1>7, FS_AddElement, FS_CardinalityType
<1>9. /\ Cardinality(Unfinished') <= Cardinality(Unfinished \cup {t})
      /\ Cardinality(Unfinished') \in Nat /\ Cardinality(Unfinished \cup {t}) \in Nat
  BY <1>6, <1>8, FS_Subset, FS_CardinalityType
<1> QED BY <1>1, <1>8, <1>9 DEF LoginsLost, TypeOK

(* No other step leaves a login unfinished.                                *)
LEMMA LoginsStep ==
    ASSUME Parameters, TypeOK, Numbered, LoginsLost, [Next]_sessionVars
    PROVE  LoginsLost'
<1> DEFINE Eldest(s) == \A older \in Active : ~(older < s)
<1>K. ASSUME lost' = lost, Active' \subseteq Active,
             \A d \in Calls, s \in Active' : Owes(d, s) => Owes(d, s)' \/ Eldest(s)'
      PROVE  LoginsLost'
  <2>1. Unfinished' \subseteq Unfinished
    BY <1>K DEF Unfinished
  <2> QED BY <1>K, <2>1, Counted
<1>A. ASSUME lost' = lost, Active' \subseteq Active, NEW c \in Calls, NEW x, Go(c, x),
             \A s \in Active' : Owes(c, s) => Owes(c, s)' \/ Eldest(s)'
      PROVE  LoginsLost'
  <2>1. \A d \in Calls \ {c} : call'[d] = call[d]
    BY <1>A, OneCall
  <2>2. \A d \in Calls \ {c}, s \in Active' : Owes(d, s) => Owes(d, s)'
    BY <2>1, <1>A DEF Owes
  <2> QED BY <1>A, <1>K, <2>2
<1>1. ASSUME NEW c \in Calls, createSession(c) PROVE LoginsLost'
  <2>1. PICK s \in Ids \ Opened : /\ Active' = Active \cup {s}
                                  /\ Go(c, [at |-> "others", except |-> s])
    BY <1>1, CreateEffect
  <2>2. lost' = lost /\ call[c] = Idle
    BY <1>1 DEF createSession
  <2>3. call'[c] = [at |-> "others", except |-> s] /\ \A d \in Calls \ {c} : call'[d] = call[d]
    BY <2>1, OneCall
  <2>4. Owes(c, s)' /\ \A t : ~Owes(c, t)
    BY <2>2, <2>3 DEF Owes, Idle
  <2>5. \A t \in Active : t \in Int /\ s \in Int /\ t < s
    BY DEF Active, Opened, Numbered, Ids
  <2>6. ASSUME NEW t \in Unfinished' PROVE t \in Unfinished
    <3>1. t \in Active /\ \E older \in Active : older < t
      BY <2>1, <2>4, <2>5 DEF Unfinished
    <3>2. ASSUME NEW d \in Calls, Owes(d, t) PROVE FALSE
      <4>1. call'[d] = call[d]
        BY <2>3, <2>4, <3>2
      <4>2. \A older \in Active' : older < t => older \in Active
        BY <2>1, <2>5, <3>1
      <4>3. Owes(d, t)'
        BY <3>2, <4>1, <4>2 DEF Owes
      <4> QED BY <4>3 DEF Unfinished
    <3> QED BY <3>1, <3>2 DEF Unfinished
  <2> QED BY <2>2, <2>6, Counted
<1>2. ASSUME NEW c \in Calls, enforceSingleActiveSession(c) PROVE LoginsLost'
  <2> DEFINE e == call[c].except
  <2>1. lost' = lost /\ Active' = Active /\ call[c].at = "others"
    BY <1>2, AsideEffect DEF Aside, enforceSingleActiveSession, At
  <2>2. \/ Active \subseteq {e} /\ Go(c, Idle)
        \/ Go(c, [at |-> "find", except |-> e])
    BY <1>2 DEF enforceSingleActiveSession, Others
  <2>3. \A s \in Active : Owes(c, s) => s = e /\ s \in Int
    BY <2>1 DEF Owes, Active, Opened, Ids
  <2>4. CASE Active \subseteq {e} /\ Go(c, Idle)
    BY <2>1, <2>3, <2>4, <1>A
  <2>5. CASE Go(c, [at |-> "find", except |-> e])
    <3>1. call'[c] = [at |-> "find", except |-> e]
      BY <2>5, OneCall
    <3>2. \A s \in Active : Owes(c, s) => Owes(c, s)'
      BY <2>3, <3>1 DEF Owes
    <3> QED BY <2>1, <2>5, <3>2, <1>A
  <2> QED BY <2>2, <2>4, <2>5
<1>3. ASSUME NEW c \in Calls, FindSessions(c) PROVE LoginsLost'
  <2> DEFINE e == call[c].except
  <2>1. lost' = lost /\ Active' = Active /\ call[c].at = "find"
    BY <1>3, AsideEffect DEF Aside, FindSessions, At
  <2>2. \/ Active \subseteq {e} /\ Go(c, Idle)
        \/ Go(c, [at |-> "revoke", ids |-> Active \ {e}])
    BY <1>3 DEF FindSessions, ToRevoke
  <2>3. \A s \in Active : Owes(c, s) => s = e /\ s \in Int
    BY <2>1 DEF Owes, Active, Opened, Ids
  <2>4. CASE Active \subseteq {e} /\ Go(c, Idle)
    BY <2>1, <2>3, <2>4, <1>A
  <2>5. CASE Go(c, [at |-> "revoke", ids |-> Active \ {e}])
    <3>1. call'[c].at = "revoke" /\ call'[c].ids = Active \ {e}
      BY <2>5, OneCall
    <3>2. \A s \in Active : Owes(c, s) => Owes(c, s)'
      BY <2>1, <2>3, <3>1 DEF Owes
    <3> QED BY <2>1, <2>5, <3>2, <1>A
  <2> QED BY <2>2, <2>4, <2>5
<1>4. ASSUME NEW c \in Calls, RevokeSessions(c) PROVE LoginsLost'
  <2>1. /\ lost' = lost /\ call[c].at = "revoke" /\ Go(c, Idle)
        /\ Active' = Active \ call[c].ids
    BY <1>4, CallType, RevokedEffect DEF RevokeSessions, At
  <2>2. \A s \in Active' : Owes(c, s) => Eldest(s)'
    BY <2>1 DEF Owes
  <2> QED BY <2>1, <2>2, <1>A
<1>5. ASSUME NEW c \in Calls, Present(c) \/ ChangePassword(c) \/ ResetPassword(c)
                              \/ updatePassword(c)
      PROVE  LoginsLost'
  <2>0. call[c] = Idle \/ call[c].at = "update"
    BY <1>5 DEF Present, ChangePassword, ResetPassword, updatePassword, At
  <2>1. lost' = lost /\ call[c].at \in {"idle", "update"} /\ \E x : Go(c, x)
    BY <1>5, <2>0, CallType DEF Present, ChangePassword, ResetPassword, updatePassword
  <2>2. Active' = Active
    BY <1>5, AsideEffect DEF Aside
  <2>3. \A s : ~Owes(c, s)
    BY <2>1 DEF Owes
  <2> QED BY <2>1, <2>2, <2>3, <1>A
<1>6. ASSUME NEW c \in Calls, rotateSessionAtomic(c) PROVE LoginsLost'
  <2> DEFINE s == call[c].session
             n == call[c].token
  <2>1. /\ s \in Opened /\ n \in 1..MaxRefreshes
        /\ lost' = lost /\ \A t : ~Owes(c, t)
    BY <1>6, CallType DEF rotateSessionAtomic, At, Owes, Parameters
  <2>2. /\ \/ MayRotate(s, n) /\ session' = [session EXCEPT ![s].token = n + 1]
           \/ UNCHANGED session
        /\ \E x : Go(c, x)
    BY <1>6 DEF rotateSessionAtomic
  <2>3. Active' = Active
    <3> HIDE DEF s, n
    <3> QED BY <2>1, <2>2, RotateEffect DEF Active, Opened
  <2> QED BY <2>1, <2>2, <2>3, <1>A
<1>7. ASSUME NEW c \in Calls, NEW s \in Ids, Logout(c, s) PROVE LoginsLost'
  <2>1. PICK ids : ids = {s} /\ ids \subseteq Opened /\ session' = Revoked(ids)
    BY <1>7 DEF Logout, Active
  <2>2. Active' \subseteq Active /\ UNCHANGED <<call, lost>>
    BY <1>7, <2>1, RevokedEffect DEF Logout
  <2>3. \A d \in Calls, t \in Active' : Owes(d, t) => Owes(d, t)'
    BY <2>2 DEF Owes
  <2> QED BY <2>2, <2>3, <1>K
<1>8. ASSUME NEW c \in Calls, CallLost(c) PROVE LoginsLost'
  BY <1>8, LoginLost
<1>9. ASSUME ForgotPassword \/ UNCHANGED sessionVars PROVE LoginsLost'
  <2>1. UNCHANGED <<session, call, lost>> /\ Active' = Active
    BY <1>9 DEF ForgotPassword, sessionVars, Active, Opened
  <2>2. \A d \in Calls, t \in Active' : Owes(d, t) => Owes(d, t)'
    BY <2>1 DEF Owes
  <2> QED BY <2>1, <2>2, <1>K
<1> QED
  BY <1>1, <1>2, <1>3, <1>4, <1>5, <1>6, <1>7, <1>8, <1>9 DEF Next, Step

-----------------------------------------------------------------------------
(* Sets of numbers have a smallest one.                                    *)
LEMMA Smallest ==
    ASSUME NEW S \in SUBSET Nat, S # {}
    PROVE  \E m \in S : \A n \in S : m <= n
<1>1. PICK m \in S : \A n \in S : ~(<<n, m>> \in OpToRel(<, Nat))
  BY NatLessThanWellFounded, WFMin
<1>2. \A n \in S : ~(n < m)
  BY <1>1 DEF OpToRel
<1> QED BY <1>2

(* With no call under way, every open session but the oldest one is one    *)
(* whose login was lost.                                                   *)
LEMMA LeftOpen ==
    ASSUME Parameters, TypeOK, LoginsLost PROVE SingleActiveSession
<1> SUFFICES ASSUME Quiet PROVE Cardinality(Active) <= 1 + lost
  BY DEF SingleActiveSession
<1>1. /\ IsFiniteSet(Active) /\ Active \subseteq Nat /\ IsFiniteSet(Unfinished)
      /\ Cardinality(Active) \in Nat /\ Cardinality(Unfinished) \in Nat
  <2>1. IsFiniteSet(Ids)
    BY FS_Interval DEF Ids, Parameters
  <2>2. Active \in SUBSET Ids /\ Unfinished \in SUBSET Ids
    BY DEF Unfinished, Active, Opened
  <2>3. IsFiniteSet(Active) /\ IsFiniteSet(Unfinished)
    BY <2>1, <2>2, FS_Subset
  <2>4. Active \subseteq Nat
    BY <2>2 DEF Ids
  <2> QED BY <2>3, <2>4, FS_CardinalityType
<1>2. CASE Active = {}
  BY <1>2, FS_EmptySet DEF TypeOK, Parameters
<1>3. CASE Active # {}
  <2>1. PICK m \in Active : \A n \in Active : m <= n
    BY <1>1, <1>3, Smallest
  <2>2. Active \ {m} \subseteq Unfinished
    <3>1. \A s \in Active \ {m} : m < s
      BY <1>1, <2>1
    <3>2. \A c \in Calls, s \in Active : ~Owes(c, s)
      BY DEF Quiet, Owes, Idle
    <3> QED BY <2>1, <3>1, <3>2 DEF Unfinished
  <2>3. Cardinality(Active \ {m}) = Cardinality(Active) - 1
    BY <1>1, <2>1, FS_RemoveElement
  <2>4. Cardinality(Active \ {m}) <= Cardinality(Unfinished)
    BY <1>1, <2>2, FS_Subset
  <2> QED BY <1>1, <2>3, <2>4 DEF LoginsLost, TypeOK, Parameters
<1> QED BY <1>2, <1>3

-----------------------------------------------------------------------------
SessionsInv == TypeOK /\ Numbered /\ TokenExchangedOnce /\ ChangeAtHand /\ LoginsLost

LEMMA SessionsInvariant ==
    ASSUME Parameters PROVE Spec => []SessionsInv
<1>1. Init => SessionsInv
  <2> SUFFICES ASSUME Init PROVE SessionsInv
    OBVIOUS
  <2>1. Opened = {} /\ Active = {} /\ Unfinished = {}
    BY DEF Init, Opened, Active, Unfinished
  <2>2. TypeOK
    <3>1. Unused \in [token : 0..(MaxRefreshes + 1), revoked : BOOLEAN]
      BY DEF Unused, Parameters
    <3> QED BY <3>1 DEF Init, TypeOK, Steps, Parameters
  <2>3. LoginsLost
    BY <2>1, FS_EmptySet DEF LoginsLost, Init
  <2> QED BY <2>1, <2>2, <2>3
          DEF Init, SessionsInv, Numbered, TokenExchangedOnce, ChangeAtHand
<1>2. SessionsInv /\ [Next]_sessionVars => SessionsInv'
  BY TypeStep, RotationStep, ChangeStep, LoginsStep DEF SessionsInv
<1> QED BY <1>1, <1>2, PTL DEF Spec

(* The types of the sessions, and of the calls on them.                    *)
THEOREM SessionsTyped ==
    ASSUME Parameters PROVE Spec => []TypeOK
<1>1. SessionsInv => TypeOK
  BY DEF SessionsInv
<1> QED BY <1>1, SessionsInvariant, PTL

(* However the calls overlap (login, refresh, logout, changePassword,      *)
(* resetPassword), once they have ended one session is open, and one more  *)
(* for each that was lost; where none was lost, no session is open that    *)
(* the last password change was to end.                                    *)
THEOREM SessionsAreEnded ==
    ASSUME Parameters PROVE Spec => []SessionsEnd
<1>1. SessionsInv => SessionsEnd
  <2>1. SessionsInv => SingleActiveSession
    BY LeftOpen DEF SessionsInv
  <2>2. SessionsInv => PasswordChangeEndsSessions
    BY DEF SessionsInv, ChangeAtHand, PasswordChangeEndsSessions, Quiet, Ends, Idle
  <2> QED BY <2>1, <2>2 DEF SessionsEnd
<1> QED BY <1>1, SessionsInvariant, PTL

(* rotateSessionAtomic exchanges a refresh token once, however many calls  *)
(* present it, and a revoked session never changes again.                  *)
THEOREM RotationSafe ==
    ASSUME Parameters PROVE Spec => RotationIsSafe
<1>1. SessionsInv => TokenExchangedOnce
  BY DEF SessionsInv
<1>2. SessionsInv /\ [Next]_sessionVars =>
         [\A s \in Ids : session[s].revoked => session'[s] = session[s]]_sessionVars
  BY RotationStep DEF SessionsInv
<1> QED BY <1>1, <1>2, SessionsInvariant, PTL DEF Spec, RotationIsSafe, RevokedIsFinal
=============================================================================
