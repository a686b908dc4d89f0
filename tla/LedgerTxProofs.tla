--------------------------- MODULE LedgerTxProofs ---------------------------
(***************************************************************************)
(* The ledger's safety properties for every set of users, assets, clients  *)
(* and postings, and for every retry bound.                                *)
(*                                                                         *)
(* TypeOK is inductive.  The rest follows from SafetyInv, which also says  *)
(* what a transaction under way may rely on: its request passed the        *)
(* balance check, the user balances it sees are not negative, its          *)
(* reference is not in its snapshot and, as long as nothing it touches was *)
(* committed meanwhile, what it sees is the committed balances with the    *)
(* lines it has executed applied to them.                                  *)
(*                                                                         *)
(* Two more results follow.  The books are sums, so BooksAgree rests on    *)
(* the lemmas on sums of LedgerCallsProofs; and the balances and the       *)
(* references posted are those of module LedgerCalls, on which the modules *)
(* of the flows are built.                                                 *)
(***************************************************************************)
EXTENDS LedgerTx, FiniteSetTheorems, TLAPS

LineRecords == [account : AccountNames, amount : Int,
                direction : {"DEBIT", "CREDIT"}]

(* The lines of a request, and what is in them.                            *)
LEMMA LinesType ==
    ASSUME NEW p \in Requests
    PROVE  /\ p.lines \in Seq(LineRecords)
           /\ DOMAIN p.lines = 1..Len(p.lines) /\ Len(p.lines) \in Nat
           /\ DistinctAccounts(p.lines)
<1>1. p.lines \in Seq(LineRecords) /\ DistinctAccounts(p.lines)
  BY RequestsAssumption, Zenon DEF LineRecords
<1> QED BY <1>1

LEMMA LineType ==
    ASSUME NEW p \in Requests, NEW i \in DOMAIN p.lines
    PROVE  /\ p.lines[i].account \in AccountNames
           /\ p.lines[i].amount \in Int
           /\ p.lines[i].direction \in {"DEBIT", "CREDIT"}
           /\ Signed(p.lines[i]) \in Int
<1>1. p.lines[i] \in LineRecords
  BY LinesType
<1> QED BY <1>1 DEF LineRecords, Signed

(* Executing a line keeps a projection a function from accounts to         *)
(* integers and changes one balance.                                       *)
LEMMA ApplyLineType ==
    ASSUME NEW bal \in [Accounts -> Int],
           NEW line, line.account \in Accounts, Signed(line) \in Int
    PROVE  /\ ApplyLine(bal, line) \in [Accounts -> Int]
           /\ ApplyLine(bal, line)[line.account]
                 = bal[line.account] + Signed(line)
           /\ \A name \in Accounts : name # line.account
                 => ApplyLine(bal, line)[name] = bal[name]
BY DEF ApplyLine

(* Every variable keeps its type, whatever the database answers.           *)
THEOREM TypeCorrect == Spec => []TypeOK
<1>1. Init => TypeOK
  BY BoundsAssumption DEF Init, TypeOK, Outcomes
<1>2. TypeOK /\ [Next]_vars => TypeOK'
  <2> SUFFICES ASSUME TypeOK, [Next]_vars
               PROVE  TypeOK'
    OBVIOUS
  <2> USE BoundsAssumption DEF TypeOK, Return, Outcomes
  <2>1. ASSUME NEW c \in Clients, NEW p \in Requests, Call(c, p)
        PROVE  TypeOK'
    <3>1. calls' \in 0..MaxCalls
      BY <2>1 DEF Call
    <3>3. /\ req' \in [Clients -> Requests]
          /\ attempt' \in [Clients -> 1..MaxAttempts]
          /\ UNCHANGED <<balance, txns, snap, work, next>>
      BY <2>1 DEF Call
    <3>2. CASE assertPostingBalanced(p.lines)
      <4>1. /\ pc' = [pc EXCEPT ![c] = "begin"]
            /\ result' = [result EXCEPT ![c] = "none"]
        BY <2>1, <3>2 DEF Call
      <4> QED BY <3>1, <3>3, <4>1
    <3>4. CASE ~assertPostingBalanced(p.lines)
      <4>1. Return(c, "bad_request")
        BY <2>1, <3>4 DEF Call
      <4> QED BY <3>1, <3>3, <4>1
    <3> QED BY <3>2, <3>4
  <2>2. ASSUME NEW c \in Clients, Begin(c)
        PROVE  TypeOK'
    <3>1. /\ snap' \in [Clients -> Nat]
          /\ work' \in [Clients -> [Accounts -> Int]]
          /\ next' \in [Clients -> Nat \ {0}]
          /\ UNCHANGED <<balance, txns, req, attempt, calls>>
      BY <2>2 DEF Begin
    <3>2. \/ Return(c, "existing")
          \/ pc' = [pc EXCEPT ![c] = "lines"] /\ UNCHANGED result
      BY <2>2, Zenon DEF Begin
    <3> QED BY <3>1, <3>2
  <2>3. ASSUME NEW c \in Clients, PostLine(c)
        PROVE  TypeOK'
    <3> DEFINE line == req[c].lines[next[c]]
    <3>1. next[c] \in DOMAIN req[c].lines
      BY <2>3, LinesType DEF PostLine
    <3>2. Signed(line) \in Int
      BY <3>1, LineType
    <3>3. CASE line.account \in Accounts /\ MayApply(work[c], line)
      <4>1. work' = [work EXCEPT ![c] = ApplyLine(@, line)]
        BY <2>3, <3>3 DEF PostLine
      <4>2. work' \in [Clients -> [Accounts -> Int]]
        BY <3>2, <3>3, <4>1, ApplyLineType
      <4>3. /\ next' = [next EXCEPT ![c] = @ + 1]
            /\ UNCHANGED <<balance, txns, pc, req, attempt, snap, result, calls>>
        BY <2>3, <3>3 DEF PostLine
      <4> QED BY <4>2, <4>3
    <3>4. CASE ~(line.account \in Accounts /\ MayApply(work[c], line))
      BY <2>3, <3>4 DEF PostLine
    <3> QED BY <3>3, <3>4
  <2>4. ASSUME NEW c \in Clients, Commit(c)
        PROVE  TypeOK'
    <3>1. balance' \in [Accounts -> Int]
      BY <2>4 DEF Commit
    <3>2. txns' \in Seq(Requests)
      BY <2>4 DEF Commit
    <3> QED BY <2>4, <3>1, <3>2 DEF Commit
  <2>5. ASSUME NEW c \in Clients, SerializationFailure(c)
        PROVE  TypeOK'
    <3>1. UNCHANGED <<balance, txns, req, snap, work, next, calls>>
      BY <2>5 DEF SerializationFailure
    <3>2. CASE attempt[c] < MaxAttempts
      <4>1. /\ attempt' = [attempt EXCEPT ![c] = @ + 1]
            /\ pc' = [pc EXCEPT ![c] = "begin"]
            /\ UNCHANGED result
        BY <2>5, <3>2 DEF SerializationFailure
      <4>2. attempt[c] + 1 \in 1..MaxAttempts
        BY <3>2
      <4> QED BY <3>1, <4>1, <4>2
    <3>3. CASE ~(attempt[c] < MaxAttempts)
      <4>1. Return(c, "conflict") /\ UNCHANGED attempt
        BY <2>5, <3>3 DEF SerializationFailure
      <4> QED BY <3>1, <4>1
    <3> QED BY <3>2, <3>3
  <2>6. ASSUME NEW c \in Clients, DatabaseError(c)
        PROVE  TypeOK'
    BY <2>6 DEF DatabaseError
  <2>7. CASE UNCHANGED vars
    BY <2>7 DEF vars
  <2> QED
    BY <2>1, <2>2, <2>3, <2>4, <2>5, <2>6, <2>7 DEF Next, Step, Quiescent
<1> QED BY <1>1, <1>2, PTL DEF Spec

-----------------------------------------------------------------------------
Sound(c) ==
    RequestChecked(c) /\ ReferenceNotSeen(c) /\ WorkNonNegative(c) /\ ViewIsCurrent(c)

SafetyInv == TransactionsAreSound /\ UserBalancesNonNegative /\ ExactlyOncePerReference

OthersUnchanged(c) ==
    \A d \in Clients \ {c} : /\ pc'[d] = pc[d] /\ req'[d] = req[d]
                            /\ snap'[d] = snap[d] /\ work'[d] = work[d]
                            /\ next'[d] = next[d]

(* A step that commits nothing only has to account for its own client.     *)
LEMMA LocalStep ==
    ASSUME SafetyInv, NEW c \in Clients,
           OthersUnchanged(c), balance' = balance, txns' = txns, Sound(c)'
    PROVE  SafetyInv'
<1>1. ASSUME NEW d \in Clients \ {c}
      PROVE  Sound(d)'
  <2>1. /\ pc'[d] = pc[d] /\ req'[d] = req[d] /\ snap'[d] = snap[d]
        /\ work'[d] = work[d] /\ next'[d] = next[d]
    BY DEF OthersUnchanged
  <2>2. Sound(d)
    BY DEF SafetyInv, TransactionsAreSound, Sound
  <2>3. Conflicts(d)' <=> Conflicts(d)
    BY <2>1 DEF Conflicts, isolationLevel
  <2>4. RequestChecked(d)' /\ ReferenceNotSeen(d)' /\ WorkNonNegative(d)'
    BY <2>1, <2>2 DEF Sound, RequestChecked, ReferenceNotSeen, WorkNonNegative
  <2>5. ViewIsCurrent(d)'
    BY <2>1, <2>2, <2>3 DEF Sound, ViewIsCurrent, Executed
  <2> QED BY <2>4, <2>5 DEF Sound
<1>2. TransactionsAreSound'
  BY <1>1 DEF TransactionsAreSound, Sound
<1>3. UserBalancesNonNegative' /\ ExactlyOncePerReference'
  BY DEF SafetyInv, UserBalancesNonNegative, ExactlyOncePerReference
<1> QED BY <1>2, <1>3 DEF SafetyInv

(* A client that is not in a transaction has nothing to account for.       *)
LEMMA IdleIsSound ==
    ASSUME NEW c \in Clients, pc'[c] = "idle"
    PROVE  Sound(c)'
BY DEF Sound, RequestChecked, ReferenceNotSeen, WorkNonNegative, ViewIsCurrent

LEMMA CallSafe ==
    ASSUME TypeOK, SafetyInv, NEW c \in Clients, NEW p \in Requests, Call(c, p)
    PROVE  SafetyInv'
<1>1. OthersUnchanged(c) /\ balance' = balance /\ txns' = txns
  <2>1. CASE assertPostingBalanced(p.lines)
    BY <2>1 DEF Call, TypeOK, OthersUnchanged
  <2>2. CASE ~assertPostingBalanced(p.lines)
    BY <2>2 DEF Call, Return, TypeOK, OthersUnchanged
  <2> QED BY <2>1, <2>2
<1>2. Sound(c)'
  <2>1. CASE assertPostingBalanced(p.lines)
    <3>1. pc'[c] = "begin" /\ req'[c] = p
      BY <2>1 DEF Call, TypeOK
    <3> QED
      BY <2>1, <3>1 DEF Sound, RequestChecked, ReferenceNotSeen,
                        WorkNonNegative, ViewIsCurrent
  <2>2. CASE ~assertPostingBalanced(p.lines)
    BY <2>2, IdleIsSound DEF Call, Return, TypeOK
  <2> QED BY <2>1, <2>2
<1> QED BY <1>1, <1>2, LocalStep

LEMMA BeginSafe ==
    ASSUME TypeOK, SafetyInv, NEW c \in Clients, Begin(c)
    PROVE  SafetyInv'
<1> DEFINE found == findExistingPosting(txns, req[c].ref)
<1>1. /\ pc[c] = "begin"
      /\ snap' = [snap EXCEPT ![c] = Len(txns)]
      /\ work' = [work EXCEPT ![c] = balance]
      /\ next' = [next EXCEPT ![c] = 1]
      /\ UNCHANGED <<balance, txns, req>>
  BY DEF Begin
<1>2. \/ found /\ pc' = [pc EXCEPT ![c] = "idle"]
      \/ ~found /\ pc' = [pc EXCEPT ![c] = "lines"]
  BY Zenon DEF Begin, Return
<1>3. OthersUnchanged(c)
  BY <1>1, <1>2 DEF TypeOK, OthersUnchanged
<1>4. CASE found
  <2>1. pc'[c] = "idle"
    BY <1>2, <1>4 DEF TypeOK
  <2> QED BY <1>1, <1>3, <2>1, IdleIsSound, LocalStep
<1>5. CASE ~found
  <2>1. /\ pc'[c] = "lines" /\ req'[c] = req[c] /\ snap'[c] = Len(txns)
        /\ work'[c] = balance /\ next'[c] = 1
    BY <1>1, <1>2, <1>5 DEF TypeOK
  <2>2. RequestChecked(c)'
    BY <1>1, <2>1 DEF SafetyInv, TransactionsAreSound, RequestChecked
  <2>3. ReferenceNotSeen(c)'
    <3>1. req[c].ref # NoRef => \A k \in DOMAIN txns : txns[k].ref # req[c].ref
      BY <1>5 DEF findExistingPosting, Abstract!PostedIn
    <3>2. DOMAIN txns = 1..Len(txns) /\ Len(txns) \in Nat
      BY DEF TypeOK
    <3> QED BY <1>1, <2>1, <3>1, <3>2 DEF ReferenceNotSeen
  <2>4. WorkNonNegative(c)'
    BY <2>1 DEF SafetyInv, UserBalancesNonNegative, WorkNonNegative
  <2>5. ViewIsCurrent(c)'
    <3>1. Len(req[c].lines) \in Nat
      BY LinesType DEF TypeOK
    <3> QED BY <1>1, <2>1, <3>1 DEF ViewIsCurrent, Executed
  <2> QED BY <1>1, <1>3, <2>2, <2>3, <2>4, <2>5, LocalStep DEF Sound
<1> QED BY <1>4, <1>5

(* Executing a line keeps the user balances of the transaction's view from *)
(* going negative, because the guard of debitBalance was evaluated on it.  *)
LEMMA GuardedLine ==
    ASSUME NEW bal \in [Accounts -> Int], NEW line,
           line.account \in Accounts, line.direction \in {"DEBIT", "CREDIT"},
           line.amount \in Int, line.amount > 0, MayApply(bal, line),
           \A name \in Accounts : isUserAccount(name) => bal[name] >= 0
    PROVE  \A name \in Accounts :
              isUserAccount(name) => ApplyLine(bal, line)[name] >= 0
<1>1. Signed(line) \in Int
  BY DEF Signed
<1> SUFFICES ASSUME NEW name \in Accounts, isUserAccount(name)
             PROVE  ApplyLine(bal, line)[name] >= 0
  OBVIOUS
<1>2. CASE name = line.account
  <2>1. ApplyLine(bal, line)[name] = bal[name] + Signed(line)
    BY <1>1, <1>2, ApplyLineType
  <2>2. bal[name] \in Int /\ bal[name] >= 0
    OBVIOUS
  <2>3. bal[name] + Signed(line) >= 0
    BY <1>2, <2>2 DEF MayApply, Signed
  <2> QED BY <2>1, <2>3
<1>3. CASE name # line.account
  BY <1>1, <1>3, ApplyLineType
<1> QED BY <1>2, <1>3

LEMMA PostLineSafe ==
    ASSUME TypeOK, SafetyInv, NEW c \in Clients, PostLine(c)
    PROVE  SafetyInv'
<1> DEFINE lines == req[c].lines
           line == lines[next[c]]
<1>1. /\ pc[c] = "lines" /\ next[c] <= Len(lines)
      /\ UNCHANGED <<balance, txns, req, snap>>
  BY DEF PostLine
<1>2. CASE line.account \in Accounts /\ MayApply(work[c], line)
  <2>1. /\ work' = [work EXCEPT ![c] = ApplyLine(@, line)]
        /\ next' = [next EXCEPT ![c] = @ + 1]
        /\ pc' = pc
    BY <1>2 DEF PostLine
  <2>2. req[c] \in Requests /\ next[c] \in Nat \ {0} /\ work[c] \in [Accounts -> Int]
    BY DEF TypeOK
  <2>3. next[c] \in DOMAIN lines /\ DOMAIN lines = 1..Len(lines) /\ Len(lines) \in Nat
    BY <1>1, <2>2, LinesType
  <2>4. /\ line.amount \in Int /\ line.direction \in {"DEBIT", "CREDIT"}
        /\ Signed(line) \in Int
    BY <2>2, <2>3, LineType
  <2>5. OthersUnchanged(c)
    BY <1>1, <2>1 DEF TypeOK, OthersUnchanged
  <2>6. /\ pc'[c] = "lines" /\ req'[c] = req[c] /\ snap'[c] = snap[c]
        /\ work'[c] = ApplyLine(work[c], line) /\ next'[c] = next[c] + 1
    BY <1>1, <2>1 DEF TypeOK
  <2>7. Sound(c)
    BY DEF SafetyInv, TransactionsAreSound, Sound
  <2>8. RequestChecked(c)' /\ ReferenceNotSeen(c)'
    BY <1>1, <2>6, <2>7 DEF Sound, RequestChecked, ReferenceNotSeen
  <2>9. WorkNonNegative(c)'
    <3>1. line.amount > 0
      BY <1>1, <2>3, <2>7 DEF Sound, RequestChecked, assertPostingBalanced
    <3>2. \A name \in Accounts : isUserAccount(name) => work[c][name] >= 0
      BY <1>1, <2>7 DEF Sound, WorkNonNegative
    <3>3. \A name \in Accounts :
             isUserAccount(name) => ApplyLine(work[c], line)[name] >= 0
      BY <1>2, <2>2, <2>4, <3>1, <3>2, GuardedLine
    <3> QED BY <2>6, <3>3 DEF WorkNonNegative
  <2>10. /\ ApplyLine(work[c], line)[line.account]
               = work[c][line.account] + Signed(line)
         /\ \A name \in Accounts : name # line.account
               => ApplyLine(work[c], line)[name] = work[c][name]
    BY <1>2, <2>2, <2>4, ApplyLineType
  <2>11. ViewIsCurrent(c)'
    <3>1. Conflicts(c)' <=> Conflicts(c)
      BY <1>1, <2>6 DEF Conflicts, isolationLevel
    <3>2. /\ \A i \in Executed(c) : lines[i].account \in Accounts
          /\ ~Conflicts(c) =>
                \A i \in 1..Len(lines) : lines[i].account \in Accounts =>
                    IF i < next[c]
                    THEN /\ work[c][lines[i].account]
                               = balance[lines[i].account] + Signed(lines[i])
                         /\ MayApply(balance, lines[i])
                    ELSE work[c][lines[i].account] = balance[lines[i].account]
      BY <1>1, <2>7 DEF Sound, ViewIsCurrent
    <3>3. \A i \in 1..next[c] : lines[i].account \in Accounts
      BY <1>2, <2>2, <3>2 DEF Executed
    <3>4. ASSUME ~Conflicts(c), NEW i \in 1..Len(lines),
                 lines[i].account \in Accounts
          PROVE  IF i < next[c] + 1
                 THEN /\ ApplyLine(work[c], line)[lines[i].account]
                            = balance[lines[i].account] + Signed(lines[i])
                      /\ MayApply(balance, lines[i])
                 ELSE ApplyLine(work[c], line)[lines[i].account]
                            = balance[lines[i].account]
      <4>1. CASE i = next[c]
        <5>1. work[c][line.account] = balance[line.account]
          BY <2>2, <3>2, <3>4, <4>1
        <5>2. MayApply(balance, line)
          BY <1>2, <5>1, SMTT(20) DEF MayApply
        <5>3. ApplyLine(work[c], line)[line.account]
                 = balance[line.account] + Signed(line)
          BY <2>10, <5>1, SMTT(20)
        <5> QED BY <2>2, <4>1, <5>2, <5>3
      <4>2. CASE i # next[c]
        <5>1. lines[i].account # line.account
          BY <2>2, <2>3, <4>2, LinesType, SMTT(20) DEF DistinctAccounts
        <5>2. ApplyLine(work[c], line)[lines[i].account] = work[c][lines[i].account]
          BY <2>10, <3>4, <5>1
        <5>3. i < next[c] + 1 <=> i < next[c]
          BY <2>2, <2>3, <4>2
        <5> QED BY <3>2, <3>4, <5>2, <5>3
      <4> QED BY <4>1, <4>2
    <3>5. next[c] + 1 <= Len(lines) + 1 /\ 1..(next'[c] - 1) = 1..next[c]
      BY <1>1, <2>2, <2>3, <2>6
    <3> QED
      BY <1>1, <2>6, <3>1, <3>3, <3>4, <3>5 DEF ViewIsCurrent, Executed
  <2>12. balance' = balance /\ txns' = txns
    BY <1>1
  <2> QED BY <2>5, <2>8, <2>9, <2>11, <2>12, LocalStep DEF Sound
<1>3. CASE ~(line.account \in Accounts /\ MayApply(work[c], line))
  <2>1. pc' = [pc EXCEPT ![c] = "idle"] /\ UNCHANGED <<work, next>>
    BY <1>3 DEF PostLine, Return
  <2>2. OthersUnchanged(c) /\ pc'[c] = "idle"
    BY <1>1, <2>1 DEF TypeOK, OthersUnchanged
  <2> QED BY <1>1, <2>2, IdleIsSound, LocalStep
<1> QED BY <1>2, <1>3

(* What a commit does to the history and to the committed balances.        *)
LEMMA CommitEffect ==
    ASSUME TypeOK, NEW c \in Clients, Commit(c)
    PROVE  /\ Len(txns) \in Nat /\ Len(txns') = Len(txns) + 1
           /\ DOMAIN txns = 1..Len(txns) /\ DOMAIN txns' = 1..(Len(txns) + 1)
           /\ \A k \in 1..Len(txns) : txns'[k] = txns[k]
           /\ txns'[Len(txns) + 1] = req[c]
           /\ \A name \in Accounts :
                 balance'[name] = IF name \in AccountsOf(req[c].lines)
                                  THEN work[c][name] ELSE balance[name]
<1>1. txns' = Append(txns, req[c]) /\ txns \in Seq(Requests) /\ req[c] \in Requests
  BY DEF Commit, TypeOK
<1>2. balance' = [name \in Accounts |-> IF name \in AccountsOf(req[c].lines)
                                        THEN work[c][name] ELSE balance[name]]
  BY DEF Commit
<1> QED BY <1>1, <1>2

(* A transaction that commits is the first of its reference: an earlier one *)
(* was in its snapshot or is in conflict with it.                          *)
LEMMA ReferenceIsNew ==
    ASSUME TypeOK, SafetyInv, NEW c \in Clients, Commit(c)
    PROVE  req[c].ref # NoRef => \A k \in 1..Len(txns) : txns[k].ref # req[c].ref
<1> SUFFICES ASSUME req[c].ref # NoRef, NEW k \in 1..Len(txns)
             PROVE  txns[k].ref # req[c].ref
  OBVIOUS
<1>1. pc[c] = "lines" /\ ~Conflicts(c)
  BY DEF Commit
<1>2. Sound(c)
  BY DEF SafetyInv, TransactionsAreSound, Sound
<1>3. snap[c] \in Nat
  BY DEF TypeOK
<1>4. CASE k <= snap[c]
  BY <1>1, <1>2, <1>3, <1>4, CommitEffect DEF Sound, ReferenceNotSeen
<1>5. CASE k > snap[c]
  BY <1>1, <1>3, <1>5, CommitEffect DEF Conflicts, isolationLevel
<1> QED BY <1>3, <1>4, <1>5, CommitEffect

LEMMA CommitSafe ==
    ASSUME TypeOK, SafetyInv, NEW c \in Clients, Commit(c)
    PROVE  SafetyInv'
<1>1. /\ pc[c] = "lines" /\ ~Conflicts(c)
      /\ pc' = [pc EXCEPT ![c] = "idle"]
      /\ UNCHANGED <<req, snap, work, next>>
  BY DEF Commit, Return
<1>2. Sound(c)
  BY DEF SafetyInv, TransactionsAreSound, Sound
<1>3. ASSUME NEW d \in Clients \ {c}
      PROVE  Sound(d)'
  <2>1. /\ pc'[d] = pc[d] /\ req'[d] = req[d] /\ snap'[d] = snap[d]
        /\ work'[d] = work[d] /\ next'[d] = next[d]
    BY <1>1 DEF TypeOK
  <2>2. Sound(d)
    BY DEF SafetyInv, TransactionsAreSound, Sound
  <2>3. RequestChecked(d)' /\ WorkNonNegative(d)'
    BY <2>1, <2>2 DEF Sound, RequestChecked, WorkNonNegative
  <2>4. ReferenceNotSeen(d)'
    <3>1. snap[d] \in Nat
      BY DEF TypeOK
    <3> SUFFICES ASSUME pc[d] = "lines"
                 PROVE  ReferenceNotSeen(d)'
      BY <2>1 DEF ReferenceNotSeen
    <3>2. /\ snap[d] <= Len(txns)
          /\ req[d].ref # NoRef => \A k \in 1..snap[d] : txns[k].ref # req[d].ref
      BY <2>2 DEF Sound, ReferenceNotSeen
    <3>3. snap[d] <= Len(txns')
      BY <3>1, <3>2, CommitEffect
    <3>4. \A k \in 1..snap[d] : txns'[k] = txns[k]
      BY <3>1, <3>2, CommitEffect
    <3> QED BY <2>1, <3>2, <3>3, <3>4 DEF ReferenceNotSeen
  <2>5. ViewIsCurrent(d)'
    <3> SUFFICES ASSUME pc[d] = "lines"
                 PROVE  ViewIsCurrent(d)'
      BY <2>1 DEF ViewIsCurrent
    <3>1. snap[d] \in Nat /\ snap[d] <= Len(txns)
      BY <2>2 DEF TypeOK, Sound, ReferenceNotSeen
    <3>2. ASSUME ~Conflicts(d)'
          PROVE  /\ ~Conflicts(d)
                 /\ AccountsOf(req[c].lines) \cap AccountsOf(req[d].lines) = {}
      <4>1. \A k \in (snap[d] + 1)..(Len(txns) + 1) :
               /\ ~(req[d].ref # NoRef /\ txns'[k].ref = req[d].ref)
               /\ AccountsOf(txns'[k].lines) \cap AccountsOf(req[d].lines) = {}
        <5>1. ~\E k \in (snap'[d] + 1)..Len(txns') :
                 \/ req'[d].ref # NoRef /\ txns'[k].ref = req'[d].ref
                 \/ AccountsOf(txns'[k].lines) \cap AccountsOf(req'[d].lines) # {}
          BY <3>2 DEF Conflicts, isolationLevel
        <5>2. Len(txns') = Len(txns) + 1
          BY CommitEffect
        <5> QED BY <2>1, <5>1, <5>2
      <4>2. Len(txns) + 1 \in (snap[d] + 1)..(Len(txns) + 1)
        BY <3>1, CommitEffect
      <4>3. \A k \in (snap[d] + 1)..Len(txns) :
               k \in (snap[d] + 1)..(Len(txns) + 1) /\ txns'[k] = txns[k]
        BY <3>1, CommitEffect
      <4>4. ~Conflicts(d)
        BY <4>1, <4>3 DEF Conflicts, isolationLevel
      <4>5. AccountsOf(req[c].lines) \cap AccountsOf(req[d].lines) = {}
        BY <4>1, <4>2, CommitEffect
      <4> QED BY <4>4, <4>5
    <3>3. ASSUME ~Conflicts(d)', NEW i \in 1..Len(req[d].lines),
                 req[d].lines[i].account \in Accounts
          PROVE  balance'[req[d].lines[i].account] = balance[req[d].lines[i].account]
      <4>1. DOMAIN req[d].lines = 1..Len(req[d].lines)
        BY LinesType DEF TypeOK
      <4>2. req[d].lines[i].account \in AccountsOf(req[d].lines)
        BY <4>1 DEF AccountsOf
      <4>3. req[d].lines[i].account \notin AccountsOf(req[c].lines)
        BY <3>2, <3>3, <4>2
      <4> QED BY <3>3, <4>3, CommitEffect
    <3> QED
      BY <2>1, <2>2, <3>2, <3>3 DEF Sound, ViewIsCurrent, Executed, MayApply
  <2> QED BY <2>3, <2>4, <2>5 DEF Sound
<1>4. Sound(c)'
  <2>1. pc'[c] = "idle"
    BY <1>1 DEF TypeOK
  <2> QED BY <2>1, IdleIsSound
<1>5. UserBalancesNonNegative'
  BY <1>1, <1>2, CommitEffect
     DEF SafetyInv, Sound, WorkNonNegative, UserBalancesNonNegative
<1>6. ExactlyOncePerReference'
  <2>1. req[c].ref # NoRef => \A k \in 1..Len(txns) : txns[k].ref # req[c].ref
    BY ReferenceIsNew
  <2>2. \A j, k \in 1..Len(txns) :
           txns[j].ref = txns[k].ref /\ txns[j].ref # NoRef => j = k
    BY CommitEffect DEF SafetyInv, ExactlyOncePerReference
  <2> SUFFICES ASSUME NEW j \in 1..(Len(txns) + 1), NEW k \in 1..(Len(txns) + 1),
                      txns'[j].ref = txns'[k].ref, txns'[j].ref # NoRef
               PROVE  j = k
    BY CommitEffect DEF ExactlyOncePerReference
  <2>3. CASE j <= Len(txns) /\ k <= Len(txns)
    BY <2>2, <2>3, CommitEffect
  <2>4. CASE j = Len(txns) + 1 \/ k = Len(txns) + 1
    BY <2>1, <2>4, CommitEffect
  <2> QED BY <2>3, <2>4, CommitEffect
<1>7. TransactionsAreSound'
  BY <1>3, <1>4 DEF TransactionsAreSound, Sound
<1> QED BY <1>5, <1>6, <1>7 DEF SafetyInv

(* A rolled back transaction leaves nothing behind.                        *)
LEMMA RollbackSafe ==
    ASSUME TypeOK, SafetyInv, NEW c \in Clients,
           SerializationFailure(c) \/ DatabaseError(c)
    PROVE  SafetyInv'
<1>1. /\ UNCHANGED <<balance, txns, req, snap, work, next>>
      /\ \/ pc[c] = "lines" /\ pc' = [pc EXCEPT ![c] = "begin"]
         \/ pc' = [pc EXCEPT ![c] = "idle"]
  BY DEF SerializationFailure, DatabaseError, Return
<1>2. OthersUnchanged(c)
  BY <1>1 DEF TypeOK, OthersUnchanged
<1>3. CASE pc'[c] = "idle"
  BY <1>1, <1>2, <1>3, IdleIsSound, LocalStep
<1>4. CASE pc[c] = "lines" /\ pc'[c] = "begin"
  BY <1>1, <1>2, <1>4, LocalStep
     DEF SafetyInv, TransactionsAreSound, Sound, RequestChecked,
         ReferenceNotSeen, WorkNonNegative, ViewIsCurrent
<1> QED BY <1>1, <1>3, <1>4 DEF TypeOK

LEMMA SafetyInductive ==
    ASSUME TypeOK, SafetyInv, [Next]_vars
    PROVE  SafetyInv'
<1>1. CASE UNCHANGED vars
  BY <1>1 DEF vars, SafetyInv, TransactionsAreSound, RequestChecked,
              ReferenceNotSeen, WorkNonNegative, ViewIsCurrent, Executed,
              Conflicts, isolationLevel, UserBalancesNonNegative,
              ExactlyOncePerReference
<1> QED
  BY <1>1, CallSafe, BeginSafe, PostLineSafe, CommitSafe, RollbackSafe
     DEF Next, Step, Quiescent

LEMMA SafetyInitial == Init => SafetyInv
BY DEF Init, SafetyInv, TransactionsAreSound, RequestChecked, ReferenceNotSeen,
       WorkNonNegative, ViewIsCurrent, UserBalancesNonNegative,
       ExactlyOncePerReference

LEMMA SafetyInvariant == Spec => [](TypeOK /\ SafetyInv)
<1>1. TypeOK /\ SafetyInv /\ [Next]_vars => SafetyInv'
  BY SafetyInductive
<1> QED BY <1>1, TypeCorrect, SafetyInitial, PTL DEF Spec

(* What the run checks of the transactions under way, for all instances.   *)
THEOREM TransactionsSound == Spec => []TransactionsAreSound
<1>1. SafetyInv => TransactionsAreSound
  BY DEF SafetyInv
<1> QED BY <1>1, SafetyInvariant, PTL

(* Concurrent callers of ledgerService.post cannot post a reference twice, *)
(* although the lookup and the insert are separate statements.             *)
THEOREM PostedOnce == Spec => []ExactlyOncePerReference
<1>1. SafetyInv => ExactlyOncePerReference
  BY DEF SafetyInv
<1> QED BY <1>1, SafetyInvariant, PTL

(* Concurrent debits cannot overdraw a user account, although each guard   *)
(* is evaluated on a snapshot.                                             *)
THEOREM NeverOverdrawn == Spec => []UserBalancesNonNegative
<1>1. SafetyInv => UserBalancesNonNegative
  BY DEF SafetyInv
<1> QED BY <1>1, SafetyInvariant, PTL

-----------------------------------------------------------------------------
(* Module Ledger checks a posting as the service does.                     *)
LEMMA SameCheck ==
    ASSUME NEW lines
    PROVE  Abstract!assertPostingBalanced(lines) <=> assertPostingBalanced(lines)
BY DEF Abstract!assertPostingBalanced, assertPostingBalanced,
       Abstract!CreditsEqualDebits, CreditsEqualDebits, Abstract!Signed, Signed,
       Abstract!MapThenSumSet, MapThenSumSet, Abstract!MapThenFoldSet, MapThenFoldSet

(* A caller told that its posting exists can rely on it: acknowledgements  *)
(* come only after the commit, and the history is append-only.             *)
THEOREM Acknowledged == Spec => []AcknowledgedIsPosted
<1>1. Init => AcknowledgedIsPosted
  BY DEF Init, AcknowledgedIsPosted
<1>2. TypeOK /\ AcknowledgedIsPosted /\ [Next]_vars => AcknowledgedIsPosted'
  <2> SUFFICES ASSUME TypeOK, AcknowledgedIsPosted, [Next]_vars
               PROVE  AcknowledgedIsPosted'
    OBVIOUS
  <2> DEFINE Told(c) == result[c] \in {"posted", "existing"}
                          => \E k \in DOMAIN txns : txns[k].ref = req[c].ref
  <2>1. ASSUME NEW c \in Clients, txns' = txns, Told(c)',
               \A d \in Clients \ {c} : req'[d] = req[d] /\ result'[d] = result[d]
        PROVE  AcknowledgedIsPosted'
    BY <2>1 DEF AcknowledgedIsPosted
  <2>2. ASSUME NEW c \in Clients, NEW p \in Requests, Call(c, p)
        PROVE  AcknowledgedIsPosted'
    <3>1. result'[c] \in {"none", "bad_request"}
      BY <2>2, Zenon DEF Call, Return, TypeOK
    <3> QED BY <2>1, <2>2, <3>1 DEF Call, Return, TypeOK
  <2>3. ASSUME NEW c \in Clients, Begin(c)
        PROVE  AcknowledgedIsPosted'
    <3>1. txns' = txns /\ req' = req
      BY <2>3 DEF Begin
    <3>2. \/ /\ findExistingPosting(txns, req[c].ref)
             /\ result' = [result EXCEPT ![c] = "existing"]
          \/ result' = result
      BY <2>3, Zenon DEF Begin, Return
    <3> QED BY <3>1, <3>2 DEF TypeOK, AcknowledgedIsPosted,
                               findExistingPosting, Abstract!PostedIn
  <2>4. ASSUME NEW c \in Clients, PostLine(c)
        PROVE  AcknowledgedIsPosted'
    <3>1. /\ txns' = txns /\ req' = req
          /\ \/ result' = result
             \/ result' = [result EXCEPT ![c] = "bad_request"]
             \/ result' = [result EXCEPT ![c] = "insufficient"]
      BY <2>4 DEF PostLine, Return
    <3> QED BY <3>1 DEF TypeOK, AcknowledgedIsPosted
  <2>5. ASSUME NEW c \in Clients, Commit(c)
        PROVE  AcknowledgedIsPosted'
    <3>1. /\ req' = req
          /\ \/ result' = [result EXCEPT ![c] = "posted"]
             \/ result' = [result EXCEPT ![c] = "error"]
      BY <2>5 DEF Commit, Return
    <3>2. ASSUME NEW d \in Clients, result'[d] \in {"posted", "existing"}
          PROVE  \E k \in DOMAIN txns' : txns'[k].ref = req'[d].ref
      <4>1. CASE d = c
        <5>1. Len(txns) + 1 \in DOMAIN txns' /\ txns'[Len(txns) + 1] = req[c]
          BY <2>5, CommitEffect
        <5> QED BY <3>1, <4>1, <5>1
      <4>2. CASE d # c
        <5>1. result'[d] = result[d]
          BY <3>1, <4>2 DEF TypeOK
        <5>2. PICK k \in DOMAIN txns : txns[k].ref = req[d].ref
          BY <3>2, <5>1 DEF AcknowledgedIsPosted
        <5>3. k \in DOMAIN txns' /\ txns'[k] = txns[k]
          BY <2>5, <5>2, CommitEffect
        <5> QED BY <3>1, <5>2, <5>3
      <4> QED BY <4>1, <4>2
    <3> QED BY <3>2 DEF AcknowledgedIsPosted
  <2>6. ASSUME NEW c \in Clients, SerializationFailure(c) \/ DatabaseError(c)
        PROVE  AcknowledgedIsPosted'
    <3>1. /\ txns' = txns /\ req' = req
          /\ \/ result' = result
             \/ result' = [result EXCEPT ![c] = "conflict"]
             \/ result' = [result EXCEPT ![c] = "error"]
      BY <2>6 DEF SerializationFailure, DatabaseError, Return
    <3> QED BY <3>1 DEF TypeOK, AcknowledgedIsPosted
  <2>7. CASE UNCHANGED vars
    BY <2>7 DEF vars, AcknowledgedIsPosted
  <2> QED
    BY <2>2, <2>3, <2>4, <2>5, <2>6, <2>7 DEF Next, Step, Quiescent
<1> QED BY <1>1, <1>2, TypeCorrect, PTL DEF Spec

(* A commit is the atomic posting of module Ledger: the guards evaluated   *)
(* on the snapshot hold of the committed balances, and the rows written    *)
(* are the committed balances with every line applied.                     *)
LEMMA CommitPosts ==
    ASSUME TypeOK, SafetyInv, NEW c \in Clients, Commit(c)
    PROVE  Abstract!post(req[c])
<1> DEFINE lines == req[c].lines
<1>1. /\ pc[c] = "lines" /\ ~Conflicts(c) /\ next[c] = Len(lines) + 1
      /\ txns' = Append(txns, req[c])
  BY DEF Commit
<1>2. Sound(c)
  BY DEF SafetyInv, TransactionsAreSound, Sound
<1>3. /\ DOMAIN lines = 1..Len(lines) /\ Len(lines) \in Nat
      /\ DistinctAccounts(lines)
  BY LinesType DEF TypeOK
<1>4. \A i \in DOMAIN lines : lines[i].account \in Accounts
  BY <1>1, <1>2, <1>3 DEF Sound, ViewIsCurrent, Executed
<1>5. \A i \in DOMAIN lines :
         /\ work[c][lines[i].account] = balance[lines[i].account] + Signed(lines[i])
         /\ MayApply(balance, lines[i])
  BY <1>1, <1>2, <1>3, <1>4 DEF Sound, ViewIsCurrent
<1>6. Abstract!assertPostingBalanced(lines)
  BY <1>1, <1>2, SameCheck DEF Sound, RequestChecked
<1>7. Abstract!WellFormed(lines)
  BY <1>4 DEF Abstract!WellFormed, Abstract!AccountsOf, Abstract!Accounts, Accounts,
              Abstract!AccountNames, AccountNames, Abstract!isUserAccount,
              isUserAccount, Abstract!UserKinds, UserKinds
<1>8. ~Abstract!PostedIn(txns, req[c].ref)
  BY ReferenceIsNew, CommitEffect DEF Abstract!PostedIn
<1>9. Abstract!CanPost(balance, lines)
  BY <1>5 DEF Abstract!CanPost, Abstract!MayApply, MayApply,
              Abstract!isUserAccount, isUserAccount, Abstract!UserKinds, UserKinds
<1>10. balance' = Abstract!Applied(balance, lines)
  <2>1. ASSUME NEW name \in AccountsOf(lines)
        PROVE  work[c][name] = balance[name]
                  + Abstract!Signed(lines[Abstract!LineOn(lines, name)])
    <3>1. PICK i \in DOMAIN lines : lines[i].account = name
      BY DEF AccountsOf
    <3>2. Abstract!LineOn(lines, name) = i
      BY <1>3, <3>1 DEF Abstract!LineOn, DistinctAccounts
    <3> QED BY <1>5, <3>1, <3>2 DEF Abstract!Signed, Signed
  <2>2. Abstract!Accounts = Accounts /\ Abstract!AccountsOf(lines) = AccountsOf(lines)
    BY DEF Abstract!Accounts, Accounts, Abstract!AccountNames, AccountNames,
           Abstract!isUserAccount, isUserAccount, Abstract!UserKinds, UserKinds,
           Abstract!AccountsOf, AccountsOf
  <2>3. balance' = [name \in Accounts |-> IF name \in AccountsOf(lines)
                                          THEN work[c][name] ELSE balance[name]]
    BY DEF Commit
  <2> QED BY <2>1, <2>2, <2>3 DEF Abstract!Applied
<1> QED
  BY <1>1, <1>6, <1>7, <1>8, <1>9, <1>10 DEF Abstract!post

(* ledgerService.post implements the ledger its callers rely on: of all    *)
(* the steps of its concurrent, retried transactions only the commit moves *)
(* money, and it posts atomically.                                         *)
THEOREM Refinement == Spec => ImplementsLedger
<1>1. Init => Abstract!Init
  BY DEF Init, Abstract!Init, Abstract!Accounts, Accounts, Abstract!AccountNames,
         AccountNames, Abstract!isUserAccount, isUserAccount, Abstract!UserKinds,
         UserKinds
<1>2. TypeOK /\ SafetyInv /\ [Next]_vars => [Abstract!Next]_(Abstract!vars)
  <2> SUFFICES ASSUME TypeOK, SafetyInv, [Next]_vars
               PROVE  Abstract!Next \/ UNCHANGED Abstract!vars
    OBVIOUS
  <2>1. ASSUME NEW c \in Clients, Commit(c)
        PROVE  Abstract!Next
    <3>1. req[c] \in Requests
      BY DEF TypeOK
    <3> QED BY <2>1, <3>1, CommitPosts DEF Abstract!Next
  <2>2. ASSUME NEW c \in Clients, NEW p \in Requests, Call(c, p)
        PROVE  UNCHANGED Abstract!vars
    BY <2>2 DEF Call, Abstract!vars
  <2>3. ASSUME NEW c \in Clients, Begin(c)
        PROVE  UNCHANGED Abstract!vars
    BY <2>3 DEF Begin, Abstract!vars
  <2>4. ASSUME NEW c \in Clients, PostLine(c)
        PROVE  UNCHANGED Abstract!vars
    BY <2>4 DEF PostLine, Abstract!vars
  <2>5. ASSUME NEW c \in Clients, SerializationFailure(c) \/ DatabaseError(c)
        PROVE  UNCHANGED Abstract!vars
    BY <2>5 DEF SerializationFailure, DatabaseError, Abstract!vars
  <2>6. CASE UNCHANGED vars
    BY <2>6 DEF vars, Abstract!vars
  <2> QED
    BY <2>1, <2>2, <2>3, <2>4, <2>5, <2>6 DEF Next, Step, Quiescent
<1> QED
  BY <1>1, <1>2, SafetyInvariant, PTL DEF Spec, ImplementsLedger, Abstract!Spec

-----------------------------------------------------------------------------
(* The books.  A ledger of the flows has the same balances, and of the     *)
(* history the references only.                                            *)
Calls == INSTANCE LedgerCallsProofs WITH posted <- {txns[k].ref : k \in DOMAIN txns}

LEMMA TotalsKept ==
    ASSUME IsFiniteSet(Accounts), balance \in [Accounts -> Int],
           NEW p \in Requests, WellFormed(p.lines), assertPostingBalanced(p.lines),
           NEW x
    PROVE  AssetTotal(Applied(balance, p.lines), x) = AssetTotal(balance, x)
<1> DEFINE lines == p.lines
<1>1. /\ Len(lines) \in Nat /\ DOMAIN lines = 1..Len(lines)
      /\ \A i \in 1..Len(lines) : lines[i].direction \in {"DEBIT", "CREDIT"}
                                     /\ lines[i].amount \in Int
      /\ DistinctAccounts(lines)
  BY LinesType, LineType
<1>2. /\ Calls!Accounts = Accounts
      /\ Calls!WellFormed(lines) /\ Calls!DistinctAccounts(lines)
  BY <1>1 DEF Calls!Accounts, Accounts, Calls!AccountNames, AccountNames,
              Calls!isUserAccount, isUserAccount, Calls!UserKinds, UserKinds,
              Calls!WellFormed, WellFormed, Calls!AccountsOf, AccountsOf,
              Calls!DistinctAccounts, DistinctAccounts
<1>3. Calls!CreditsEqualDebits(lines)
  BY DEF assertPostingBalanced, Calls!CreditsEqualDebits, CreditsEqualDebits,
         Calls!Signed, Signed, Calls!MapThenSumSet, MapThenSumSet,
         Calls!MapThenFoldSet, MapThenFoldSet
<1>4. Calls!AssetTotal(Calls!Applied(balance, lines), x) = Calls!AssetTotal(balance, x)
  <2>1. Calls!IsFiniteSet(Calls!Accounts)
    BY <1>2 DEF Calls!IsFiniteSet, IsFiniteSet
  <2>2. balance \in [Calls!Accounts -> Int]
    BY <1>2
  <2> HIDE DEF lines
  <2> QED BY <1>1, <1>2, <1>3, <2>1, <2>2, KindsAssumption, Calls!AppliedKeepsTotals
             DEF Calls!UserKinds, UserKinds
<1>5. Calls!Applied(balance, lines) = Applied(balance, lines)
  <2>1. /\ Calls!AccountsOf(lines) = AccountsOf(lines)
        /\ \A name : Calls!LineOn(lines, name) = LineOn(lines, name)
    BY DEF Calls!AccountsOf, AccountsOf, Calls!LineOn, LineOn
  <2> HIDE DEF lines
  <2> QED BY <1>2, <2>1 DEF Calls!Applied, Applied, Calls!Signed, Signed
<1>6. \A bal : Calls!AssetTotal(bal, x) = AssetTotal(bal, x)
  BY <1>2 DEF Calls!AssetTotal, AssetTotal, Calls!MapThenSumSet, MapThenSumSet,
              Calls!MapThenFoldSet, MapThenFoldSet
<1> QED
  BY <1>4, <1>5, <1>6

(* What a posting adds to the entries of an account.                       *)
Entry(p, name) ==
    MapThenSumSet(LAMBDA i : Signed(p.lines[i]),
                  {i \in DOMAIN p.lines : p.lines[i].account = name})

LEMMA EntryIs ==
    ASSUME NEW p \in Requests, NEW name
    PROVE  Entry(p, name) = IF name \in AccountsOf(p.lines)
                            THEN Signed(p.lines[LineOn(p.lines, name)]) ELSE 0
<1> DEFINE lines == p.lines
           T == {i \in DOMAIN lines : lines[i].account = name}
           e == [i \in T |-> Signed(lines[i])]
<1>1. Calls!IsFiniteSet(T)
  <2>1. Len(lines) \in Nat /\ DOMAIN lines = 1..Len(lines)
    BY LinesType
  <2>2. IsFiniteSet(1..Len(lines)) /\ T \in SUBSET (1..Len(lines))
    BY <2>1, FS_Interval
  <2>3. IsFiniteSet(T)
    <3> HIDE DEF T
    <3> QED BY <2>2, FS_Subset
  <2> QED BY <2>3 DEF Calls!IsFiniteSet, IsFiniteSet
<1>2. Entry(p, name) = Calls!SumOf(e, T)
  <2>1. Calls!MapThenSumSet(LAMBDA i : Calls!Signed(lines[i]), T)
           = Calls!SumOf([i \in T |-> Calls!Signed(lines[i])], T)
    <3> HIDE DEF T, lines
    <3> QED BY <1>1, KindsAssumption, Calls!SumOfLines DEF Calls!UserKinds, UserKinds
  <2> QED BY <2>1 DEF Entry, Calls!Signed, Signed, Calls!MapThenSumSet, MapThenSumSet,
                      Calls!MapThenFoldSet, MapThenFoldSet
<1>3. /\ T = {} => Calls!SumOf(e, T) = 0
      /\ \A a \in T : Calls!SumOf(e, T) = e[a] + Calls!SumOf(e, T \ {a})
      /\ Calls!SumOf(e, {}) = 0
  <2>1. \A i \in T : e[i] \in Int
    BY LineType
  <2>2. Calls!IsFiniteSet({})
    BY FS_EmptySet DEF Calls!IsFiniteSet, IsFiniteSet
  <2> HIDE DEF T, e
  <2>3. Calls!SumOf(e, {}) = 0
    BY <2>2, KindsAssumption, Calls!SumUnfolds DEF Calls!UserKinds, UserKinds
  <2>4. ASSUME NEW a \in T
        PROVE  Calls!SumOf(e, T) = e[a] + Calls!SumOf(e, T \ {a})
    BY <1>1, <2>1, KindsAssumption, Calls!SumRemove DEF Calls!UserKinds, UserKinds
  <2> QED BY <2>3, <2>4
<1>4. CASE name \in AccountsOf(lines)
  <2>1. PICK a \in DOMAIN lines : lines[a].account = name
    BY <1>4 DEF AccountsOf
  <2>2. T = {a} /\ LineOn(lines, name) = a
    BY <2>1, LinesType DEF LineOn, DistinctAccounts
  <2>3. e[a] = Signed(lines[a]) /\ e[a] \in Int /\ T \ {a} = {} /\ a \in T
    BY <2>1, <2>2, LineType
  <2>4. Calls!SumOf(e, T) = e[a] + Calls!SumOf(e, T \ {a})
    BY <1>3, <2>3
  <2> HIDE DEF e, T
  <2>5. Calls!SumOf(e, T) = e[a]
    BY <1>3, <2>3, <2>4
  <2> QED BY <1>2, <1>4, <2>2, <2>3, <2>5
<1>5. CASE name \notin AccountsOf(lines)
  <2>1. T = {}
    BY <1>5 DEF AccountsOf
  <2> QED BY <1>2, <1>3, <1>5, <2>1
<1> QED BY <1>4, <1>5

(* entriesBalanceForAccount, of any history.                               *)
EntriesOf(h, name) ==
    LET LinesAt(k) == {i \in DOMAIN h[k].lines : h[k].lines[i].account = name}
    IN  MapThenSumSet(LAMBDA k : MapThenSumSet(
                          LAMBDA i : Signed(h[k].lines[i]), LinesAt(k)),
                      DOMAIN h)

LEMMA EntriesAreSums ==
    ASSUME NEW h \in Seq(Requests), NEW name
    PROVE  EntriesOf(h, name)
              = Calls!SumOf([k \in DOMAIN h |-> Entry(h[k], name)], DOMAIN h)
<1> DEFINE T == DOMAIN h
           e == [k \in T |-> Entry(h[k], name)]
           F(g) == [s \in SUBSET T |->
                       IF s = {} THEN 0
                       ELSE LET x == CHOOSE x \in s : TRUE
                            IN  Entry(h[x], name) + g[s \ {x}]]
           r == CHOOSE g : g = F(g)
           q == Calls!PartialSums(e, T)
<1>1. EntriesOf(h, name) = r[T]
  BY DEF EntriesOf, Entry, MapThenSumSet, MapThenFoldSet
<1>2. ASSUME NEW g PROVE F(g) = [s \in SUBSET T |-> Calls!Added(e, g, s)]
  <2>1. ASSUME NEW s \in SUBSET T, s # {}
        PROVE  LET x == CHOOSE x \in s : TRUE IN Entry(h[x], name) = e[x]
    BY <2>1
  <2> QED BY <2>1 DEF Calls!Added
<1>3. Calls!IsFiniteSet(T)
  <2>1. T = 1..Len(h) /\ Len(h) \in Nat
    OBVIOUS
  <2>2. IsFiniteSet(T)
    <3> HIDE DEF T
    <3> QED BY <2>1, FS_Interval
  <2> QED BY <2>2 DEF Calls!IsFiniteSet, IsFiniteSet
<1>4. q = F(q)
  <2>1. Calls!Adds(e, T, q)
    <3> HIDE DEF e, T
    <3> QED BY <1>3, KindsAssumption, Calls!AddsExist DEF q, Calls!UserKinds, UserKinds
  <2> QED BY <1>2, <2>1 DEF Calls!Adds
<1>5. r = F(r)
  <2> HIDE DEF F, q
  <2> QED BY <1>4
<1>6. Calls!Adds(e, T, r)
  <2> HIDE DEF F, r, e, T
  <2> QED BY <1>2, <1>5 DEF Calls!Adds
<1>7. Calls!SumOf(e, T) = r[T]
  <2> HIDE DEF r, e, T
  <2> QED BY <1>3, <1>6, KindsAssumption, Calls!SumIs DEF Calls!UserKinds, UserKinds
<1> QED BY <1>1, <1>7

(* Each posting appends its entry.                                         *)
LEMMA EntriesAppend ==
    ASSUME NEW h \in Seq(Requests), NEW p \in Requests, NEW name
    PROVE  /\ EntriesOf(<< >>, name) = 0
           /\ EntriesOf(h, name) \in Int
           /\ EntriesOf(Append(h, p), name) = EntriesOf(h, name) + Entry(p, name)
<1> DEFINE n == Len(h)
           k == Append(h, p)
           e == [i \in DOMAIN h |-> Entry(h[i], name)]
           f == [i \in DOMAIN k |-> Entry(k[i], name)]
<1>1. /\ n \in Nat /\ DOMAIN h = 1..n /\ DOMAIN k = (1..n) \cup {n + 1}
      /\ n + 1 \notin 1..n
      /\ k \in Seq(Requests) /\ k[n + 1] = p /\ \A i \in 1..n : k[i] = h[i]
      /\ << >> \in Seq(Requests)
  OBVIOUS
<1>2. ASSUME NEW r \in Requests PROVE Entry(r, name) \in Int
  <2>1. name \in AccountsOf(r.lines) => LineOn(r.lines, name) \in DOMAIN r.lines
    BY DEF AccountsOf, LineOn
  <2> QED BY <2>1, EntryIs, LineType
<1>3. /\ \A i \in 1..n : e[i] \in Int /\ f[i] = e[i]
      /\ \A i \in (1..n) \cup {n + 1} : f[i] \in Int
      /\ f[n + 1] = Entry(p, name)
  BY <1>1, <1>2
<1>4. Calls!IsFiniteSet(1..n) /\ Calls!IsFiniteSet({})
  <2>1. IsFiniteSet(1..n) /\ IsFiniteSet({})
    <3> HIDE DEF n
    <3> QED BY <1>1, FS_Interval, FS_EmptySet
  <2> QED BY <2>1 DEF Calls!IsFiniteSet, IsFiniteSet
<1>5. /\ EntriesOf(h, name) = Calls!SumOf(e, 1..n)
      /\ EntriesOf(k, name) = Calls!SumOf(f, (1..n) \cup {n + 1})
  BY <1>1, EntriesAreSums
<1>6. EntriesOf(<< >>, name) = 0
  <2> DEFINE z == [i \in DOMAIN << >> |-> Entry(<< >>[i], name)]
  <2>1. EntriesOf(<< >>, name) = Calls!SumOf(z, DOMAIN << >>)
    BY <1>1, EntriesAreSums
  <2>2. DOMAIN << >> = {}
    OBVIOUS
  <2> HIDE DEF z
  <2>3. Calls!SumOf(z, {}) = 0
    BY <1>4, KindsAssumption, Calls!SumUnfolds DEF Calls!UserKinds, UserKinds
  <2> QED BY <2>1, <2>2, <2>3
<1> HIDE DEF e, f, n, k
<1>7. Calls!SumOf(e, 1..n) \in Int
  BY <1>3, <1>4, KindsAssumption, Calls!SumType DEF Calls!UserKinds, UserKinds
<1>8. Calls!SumOf(f, 1..n) = Calls!SumOf(e, 1..n)
  BY <1>3, <1>4, KindsAssumption, Calls!SumSame DEF Calls!UserKinds, UserKinds
<1>9. Calls!SumOf(f, (1..n) \cup {n + 1}) = Calls!SumOf(f, 1..n) + f[n + 1]
  BY <1>1, <1>3, <1>4, KindsAssumption, Calls!SumAdd DEF Calls!UserKinds, UserKinds
<1>10. f[n + 1] = Entry(p, name) /\ Entry(p, name) \in Int
  BY <1>2, <1>3
<1>11. EntriesOf(k, name) = EntriesOf(h, name) + Entry(p, name)
  BY <1>5, <1>8, <1>9, <1>10
<1> QED BY <1>5, <1>6, <1>7, <1>11 DEF k

(* What a posting does, in the words of this module.                       *)
Posting(p) ==
    /\ WellFormed(p.lines)
    /\ assertPostingBalanced(p.lines)
    /\ ~findExistingPosting(txns, p.ref)
    /\ CanPost(balance, p.lines)
    /\ balance' = Applied(balance, p.lines)
    /\ txns' = Append(txns, p)

LEMMA StepPosts ==
    ASSUME TypeOK, SafetyInv, [Next]_vars
    PROVE  UNCHANGED <<balance, txns>> \/ \E p \in Requests : Posting(p)
<1>1. ASSUME NEW c \in Clients, Commit(c)
      PROVE  \E p \in Requests : Posting(p)
  <2> DEFINE p == req[c]
             lines == p.lines
  <2>1. p \in Requests
    BY DEF TypeOK
  <2>2. Abstract!post(p)
    BY <1>1, CommitPosts
  <2>3. assertPostingBalanced(lines)
    BY <2>2, SameCheck DEF Abstract!post
  <2>4. /\ Abstract!Accounts = Accounts
        /\ Abstract!AccountsOf(lines) = AccountsOf(lines)
        /\ \A name : Abstract!LineOn(lines, name) = LineOn(lines, name)
    BY DEF Abstract!Accounts, Accounts, Abstract!AccountNames, AccountNames,
           Abstract!isUserAccount, isUserAccount, Abstract!UserKinds, UserKinds,
           Abstract!AccountsOf, AccountsOf, Abstract!LineOn, LineOn
  <2>5. WellFormed(lines)
    BY <2>2, <2>4 DEF Abstract!post, Abstract!WellFormed, WellFormed
  <2>6. CanPost(balance, lines)
    BY <2>2 DEF Abstract!post, Abstract!CanPost, CanPost, Abstract!MayApply, MayApply,
                Abstract!isUserAccount, isUserAccount, Abstract!UserKinds, UserKinds
  <2>7. balance' = Applied(balance, lines)
    <3> HIDE DEF lines
    <3>1. balance' = Abstract!Applied(balance, lines)
      BY <2>2 DEF Abstract!post, lines
    <3> QED BY <2>4, <3>1 DEF Abstract!Applied, Applied, Abstract!Signed, Signed
  <2>8. ~findExistingPosting(txns, p.ref) /\ txns' = Append(txns, p)
    BY <2>2 DEF Abstract!post, findExistingPosting
  <2> QED BY <2>1, <2>3, <2>5, <2>6, <2>7, <2>8 DEF Posting
<1>2. CASE UNCHANGED vars
  BY <1>2 DEF vars
<1> QED
  BY <1>1, <1>2 DEF Next, Step, Quiescent, Call, Begin, PostLine,
                    SerializationFailure, DatabaseError

(* BooksAgree, of any projection and history.                              *)
Books(bal, h) ==
    /\ \A x \in Assets : AssetTotal(bal, x) = 0
    /\ \A name \in Accounts : bal[name] = EntriesOf(h, name)

LEMMA BooksOpened ==
    ASSUME IsFiniteSet(Accounts), Requests # {}
    PROVE  Books([name \in Accounts |-> 0], << >>)
<1> DEFINE bal == [name \in Accounts |-> 0]
<1>1. ASSUME NEW x \in Assets PROVE AssetTotal(bal, x) = 0
  <2> DEFINE A == {name \in Accounts : name.asset = x}
  <2>1. IsFiniteSet(A)
    BY FS_Subset
  <2>2. Calls!IsFiniteSet(A)
    BY <2>1 DEF Calls!IsFiniteSet, IsFiniteSet
  <2>3. \A name \in A : bal[name] = 0
    OBVIOUS
  <2> HIDE DEF bal
  <2>4. AssetTotal(bal, x) = Calls!SumOf(bal, A)
    BY DEF AssetTotal, Calls!SumOf, Calls!MapThenSumSet, MapThenSumSet,
           Calls!MapThenFoldSet, MapThenFoldSet
  <2> HIDE DEF A
  <2> QED BY <2>2, <2>3, <2>4, KindsAssumption, Calls!SumZero
             DEF Calls!UserKinds, UserKinds
<1>2. ASSUME NEW name PROVE EntriesOf(<< >>, name) = 0
  <2>1. PICK p \in Requests : TRUE
    OBVIOUS
  <2>2. << >> \in Seq(Requests)
    OBVIOUS
  <2> QED BY <2>1, <2>2, EntriesAppend
<1> HIDE DEF bal
<1>3. Books(bal, << >>)
  BY <1>1, <1>2 DEF Books, bal
<1> QED BY <1>3 DEF bal

LEMMA BooksKept ==
    ASSUME IsFiniteSet(Accounts), TypeOK, Books(balance, txns),
           NEW p \in Requests, Posting(p)
    PROVE  Books(balance', txns')
<1>1. ASSUME NEW x \in Assets PROVE AssetTotal(balance', x) = 0
  BY TotalsKept DEF Posting, TypeOK, Books
<1>2. ASSUME NEW name \in Accounts
      PROVE  balance'[name] = EntriesOf(txns', name)
  <2>1. balance[name] = EntriesOf(txns, name)
    BY DEF Books
  <2>2. EntriesOf(txns', name) = EntriesOf(txns, name) + Entry(p, name)
    BY EntriesAppend DEF Posting, TypeOK
  <2>3. balance'[name] = balance[name] + Entry(p, name)
    BY EntryIs DEF Posting, Applied, TypeOK
  <2> QED BY <2>1, <2>2, <2>3
<1> QED BY <1>1, <1>2 DEF Books

(* No sequence of concurrent, retried and failing calls makes the books    *)
(* disagree: the accounts of an asset always net to zero, and every        *)
(* balance is the sum of the account's committed entries.                  *)
THEOREM BooksAlwaysAgree ==
    ASSUME IsFiniteSet(Accounts)
    PROVE  Spec => []BooksAgree
<1>1. Init => Books(balance, txns)
  BY BooksOpened DEF Init
<1>2. TypeOK /\ SafetyInv /\ Books(balance, txns) /\ [Next]_vars
         => Books(balance, txns)'
  <2> SUFFICES ASSUME TypeOK, SafetyInv, Books(balance, txns), [Next]_vars
               PROVE  Books(balance', txns')
    OBVIOUS
  <2>1. CASE UNCHANGED <<balance, txns>>
    BY <2>1
  <2>2. ASSUME NEW p \in Requests, Posting(p)
        PROVE  Books(balance', txns')
    BY <2>2, BooksKept
  <2> QED BY <2>1, <2>2, StepPosts
<1>3. Books(balance, txns) => BooksAgree
  BY DEF Books, BooksAgree, Conservation, ProjectionMatchesEntries,
         entriesBalanceForAccount, EntriesOf
<1> QED BY <1>1, <1>2, <1>3, SafetyInvariant, PTL DEF Spec

(* The ledger the flows are composed with is this one: when every posting  *)
(* carries a reference, as those of the flows do, a step of the concurrent *)
(* transactions is a call to Post of module LedgerCalls, or does not touch *)
(* the balances and the references posted.                                 *)
FlowsLedger == [][\E p \in Requests : Calls!Post(p.ref, p.lines)]_(Calls!ledger)

THEOREM ServesTheFlows ==
    ASSUME \A p \in Requests : p.ref # NoRef
    PROVE  Spec => FlowsLedger
<1> DEFINE refs == {txns[k].ref : k \in DOMAIN txns}
<1>1. TypeOK /\ SafetyInv /\ [Next]_vars
         => [\E p \in Requests : Calls!Post(p.ref, p.lines)]_(Calls!ledger)
  <2> SUFFICES ASSUME TypeOK, SafetyInv, [Next]_vars
               PROVE  \/ \E p \in Requests : Calls!Post(p.ref, p.lines)
                      \/ UNCHANGED Calls!ledger
    OBVIOUS
  <2>1. CASE UNCHANGED <<balance, txns>>
    BY <2>1 DEF Calls!ledger
  <2>2. ASSUME NEW p \in Requests, Posting(p)
        PROVE  Calls!Post(p.ref, p.lines)
    <3> DEFINE lines == p.lines
    <3>1. p.ref \notin refs
      BY <2>2 DEF Posting, findExistingPosting, Abstract!PostedIn
    <3>2. refs' = refs \cup {p.ref}
      <4>1. /\ DOMAIN txns = 1..Len(txns) /\ Len(txns) \in Nat
            /\ DOMAIN txns' = 1..(Len(txns) + 1)
            /\ txns'[Len(txns) + 1] = p
            /\ \A k \in 1..Len(txns) : txns'[k] = txns[k]
        BY <2>2 DEF Posting, TypeOK
      <4> QED BY <4>1
    <3>3. Calls!assertPostingBalanced(lines)
      BY <2>2 DEF Posting, Calls!assertPostingBalanced, assertPostingBalanced,
         Calls!CreditsEqualDebits, CreditsEqualDebits, Calls!Signed, Signed,
         Calls!MapThenSumSet, MapThenSumSet, Calls!MapThenFoldSet, MapThenFoldSet
    <3>4. Calls!CanPost(balance, lines)
      BY <2>2 DEF Posting, Calls!CanPost, CanPost, Calls!MayApply, MayApply,
                  Calls!isUserAccount, isUserAccount, Calls!UserKinds, UserKinds
    <3>5. balance' = Calls!Applied(balance, lines)
      <4>1. /\ Calls!Accounts = Accounts
            /\ Calls!AccountsOf(lines) = AccountsOf(lines)
            /\ \A name : Calls!LineOn(lines, name) = LineOn(lines, name)
        BY DEF Calls!Accounts, Accounts, Calls!AccountNames, AccountNames,
               Calls!isUserAccount, isUserAccount, Calls!UserKinds, UserKinds,
               Calls!AccountsOf, AccountsOf, Calls!LineOn, LineOn
      <4> HIDE DEF lines
      <4>2. balance' = Applied(balance, lines)
        BY <2>2 DEF Posting, lines
      <4> QED BY <4>1, <4>2 DEF Calls!Applied, Applied, Calls!Signed, Signed
    <3> QED BY <3>1, <3>2, <3>3, <3>4, <3>5 DEF Calls!Post
  <2> QED BY <2>1, <2>2, StepPosts
<1> QED BY <1>1, SafetyInvariant, PTL DEF Spec, FlowsLedger
=============================================================================
