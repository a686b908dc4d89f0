------------------------- MODULE LedgerCallsProofs -------------------------
(***************************************************************************)
(* What every flow may rely on when it calls ledgerService.post: the       *)
(* effect of a call on the references and on the projection, and that the  *)
(* total of an asset over all accounts stays what it was.  Totals are      *)
(* sums over finite sets, so the lemmas on sums come first, with the       *)
(* induction they rest on, stated for sets of numbers and of subsets.      *)
(***************************************************************************)
EXTENDS LedgerCalls, FiniteSetTheorems, NaturalsInduction,
        WellFoundedInduction, TLAPS

(* Numbers and finite sets.                                                *)
LEMMA LeastNat ==
    ASSUME NEW T, T \subseteq Nat, T # {}
    PROVE  \E n \in T : \A m \in T : n <= m
<1>1. PICK x \in T : \A y \in T : ~(<<y, x>> \in OpToRel(<, Nat))
  BY NatLessThanWellFounded, WFMin
<1>2. \A y \in T : ~(y < x)
  BY <1>1 DEF OpToRel
<1> QED
  BY <1>2

(* Induction up to a bound, on the set of numbers a formula holds of.      *)
LEMMA InductionUpTo ==
    ASSUME NEW n \in Nat, NEW S, 0 \in S,
           \A k \in 0..(n - 1) : k \in S => k + 1 \in S
    PROVE  \A k \in 0..n : k \in S
<1> DEFINE T == {k \in 0..n : k \notin S}
<1> SUFFICES ASSUME T # {} PROVE FALSE
  OBVIOUS
<1>0. T \subseteq Nat
  OBVIOUS
<1> HIDE DEF T
<1>1. PICK k \in T : \A m \in T : k <= m
  BY <1>0, LeastNat
<1> USE DEF T
<1>2. k # 0 /\ k - 1 \in 0..(n - 1) /\ k - 1 \notin T
  BY <1>1
<1> QED
  BY <1>2

(* Induction over the subsets of a finite set, on the set of those a       *)
(* formula holds of.                                                       *)
LEMMA SubsetInduction ==
    ASSUME NEW U, IsFiniteSet(U), NEW P,
           \A s \in SUBSET U : (\A t \in SUBSET s : t # s => t \in P) => s \in P
    PROVE  \A s \in SUBSET U : s \in P
<1> SUFFICES ASSUME NEW r \in SUBSET U, r \notin P PROVE FALSE
  OBVIOUS
<1> DEFINE T == {n \in Nat : \E s \in SUBSET U : s \notin P /\ Cardinality(s) = n}
<1>1. Cardinality(r) \in T
  BY FS_Subset, FS_CardinalityType
<1>2. T \subseteq Nat /\ T # {}
  BY <1>1
<1> HIDE DEF T
<1>3. PICK n \in T : \A m \in T : n <= m
  BY <1>2, LeastNat
<1> USE DEF T
<1>4. PICK s \in SUBSET U : s \notin P /\ Cardinality(s) = n
  BY <1>3
<1>5. ASSUME NEW t \in SUBSET s, t # s PROVE t \in P
  <2>1. IsFiniteSet(s) /\ IsFiniteSet(t)
    BY FS_Subset
  <2>2. Cardinality(t) \in Nat /\ Cardinality(s) \in Nat /\ Cardinality(t) < n
    BY <1>4, <1>5, <2>1, FS_Subset, FS_CardinalityType
  <2>3. Cardinality(t) \notin T
    BY <1>3, <2>2
  <2> QED BY <2>2, <2>3
<1> QED BY <1>4, <1>5

-----------------------------------------------------------------------------
(* Sums over finite sets.                                                  *)
SumOf(f, S) == MapThenSumSet(LAMBDA x : f[x], S)

Added(f, g, s) ==
    IF s = {} THEN 0
    ELSE LET x == CHOOSE x \in s : TRUE
         IN  f[x] + g[s \ {x}]

(* g has the partial sums of f over the subsets of S, as the fold has.     *)
Adds(f, S, g) == g = [s \in SUBSET S |-> Added(f, g, s)]

PartialSums(f, S) == CHOOSE g : Adds(f, S, g)

LEMMA SumIsPartial ==
    ASSUME NEW f, NEW S
    PROVE  SumOf(f, S) = PartialSums(f, S)[S]
BY DEF SumOf, MapThenSumSet, MapThenFoldSet, PartialSums, Adds, Added

LEMMA AddsExist ==
    ASSUME NEW f, NEW S, IsFiniteSet(S)
    PROVE  Adds(f, S, PartialSums(f, S))
<1> DEFINE Right(g, n) == \A s \in SUBSET S : Cardinality(s) <= n => g[s] = Added(f, g, s)
           N == {n \in Nat : \E g : g = [s \in SUBSET S |-> g[s]] /\ Right(g, n)}
<1>0. \A s \in SUBSET S : IsFiniteSet(s) /\ Cardinality(s) \in Nat /\ Cardinality(s) <= Cardinality(S)
  BY FS_Subset, FS_CardinalityType
<1>1. 0 \in N
  <2> DEFINE g == [s \in SUBSET S |-> 0]
  <2>1. \A s \in SUBSET S : Cardinality(s) <= 0 => s = {}
    BY <1>0, FS_EmptySet
  <2>2. Right(g, 0)
    BY <2>1 DEF Added
  <2> QED BY <2>2
<1>2. ASSUME NEW n \in Nat, n \in N PROVE n + 1 \in N
  <2>1. PICK g : g = [s \in SUBSET S |-> g[s]] /\ Right(g, n)
    BY <1>2
  <2> DEFINE h == [s \in SUBSET S |-> IF Cardinality(s) <= n THEN g[s] ELSE Added(f, g, s)]
  <2>2. ASSUME NEW s \in SUBSET S, Cardinality(s) <= n + 1
        PROVE  h[s] = Added(f, h, s)
    <3>1. h[s] = Added(f, g, s)
      BY <2>1
    <3>2. CASE s = {}
      BY <3>1, <3>2 DEF Added
    <3>3. CASE s # {}
      <4> DEFINE x == CHOOSE x \in s : TRUE
      <4>1. x \in s /\ s \ {x} \in SUBSET S
        BY <3>3
      <4>2. Cardinality(s \ {x}) = Cardinality(s) - 1
        BY <1>0, <4>1, FS_RemoveElement
      <4>3. h[s \ {x}] = g[s \ {x}]
        BY <1>0, <2>2, <4>1, <4>2
      <4> QED BY <3>1, <3>3, <4>3 DEF Added
    <3> QED BY <3>2, <3>3
  <2>3. Right(h, n + 1) /\ h = [s \in SUBSET S |-> h[s]]
    BY <2>2
  <2>4. \E q : q = [s \in SUBSET S |-> q[s]] /\ Right(q, n + 1)
    <3> HIDE DEF h, Right
    <3> QED BY <2>3, Zenon
  <2>5. n + 1 \in Nat
    OBVIOUS
  <2> HIDE DEF Right
  <2> QED BY <2>4, <2>5, Zenon
<1>3. Cardinality(S) \in N
  <2>1. Cardinality(S) \in Nat
    BY FS_CardinalityType
  <2> HIDE DEF N
  <2>2. \A k \in 0..Cardinality(S) : k \in N
    BY <1>1, <1>2, <2>1, InductionUpTo
  <2> QED BY <2>1, <2>2
<1>4. PICK g : g = [s \in SUBSET S |-> g[s]] /\ Right(g, Cardinality(S))
  BY <1>3
<1>5. g = [s \in SUBSET S |-> Added(f, g, s)]
  BY <1>0, <1>4
<1> QED BY <1>5 DEF Adds, PartialSums

(* There is one way to add: the partial sums of values that agree on a set *)
(* agree on it.                                                            *)
LEMMA AddsAgree ==
    ASSUME NEW S, NEW T \in SUBSET S, IsFiniteSet(S), NEW f, NEW e, NEW g, NEW h,
           Adds(f, S, g), Adds(e, T, h), \A x \in T : f[x] = e[x]
    PROVE  \A s \in SUBSET T : g[s] = h[s]
<1> DEFINE P == {s \in SUBSET T : g[s] = h[s]}
<1>1. ASSUME NEW s \in SUBSET T, \A t \in SUBSET s : t # s => t \in P
      PROVE  s \in P
  <2>1. g[s] = Added(f, g, s) /\ h[s] = Added(e, h, s)
    BY DEF Adds
  <2>2. CASE s = {}
    BY <2>1, <2>2 DEF Added
  <2>3. CASE s # {}
    <3> DEFINE x == CHOOSE x \in s : TRUE
    <3>1. x \in s /\ s \ {x} \in SUBSET s /\ s \ {x} # s
      BY <2>3
    <3>2. g[s \ {x}] = h[s \ {x}]
      BY <1>1, <3>1
    <3> QED BY <2>1, <2>3, <3>1, <3>2 DEF Added
  <2> QED BY <2>2, <2>3
<1>2. IsFiniteSet(T)
  BY FS_Subset
<1> HIDE DEF P
<1>3. \A s \in SUBSET T : s \in P
  BY <1>1, <1>2, SubsetInduction
<1> QED BY <1>3 DEF P

LEMMA SumIs ==
    ASSUME NEW S, IsFiniteSet(S), NEW f, NEW g, Adds(f, S, g)
    PROVE  SumOf(f, S) = g[S]
<1> DEFINE p == PartialSums(f, S)
           P == {s \in SUBSET S : p[s] = g[s]}
<1>1. Adds(f, S, p)
  BY AddsExist
<1>2. ASSUME NEW s \in SUBSET S, \A t \in SUBSET s : t # s => t \in P
      PROVE  s \in P
  <2> HIDE DEF p
  <2>1. p[s] = Added(f, p, s) /\ g[s] = Added(f, g, s)
    BY <1>1 DEF Adds
  <2>2. CASE s = {}
    BY <2>1, <2>2 DEF Added
  <2>3. CASE s # {}
    <3> DEFINE x == CHOOSE x \in s : TRUE
    <3>1. x \in s /\ s \ {x} \in SUBSET s /\ s \ {x} # s
      BY <2>3
    <3>2. p[s \ {x}] = g[s \ {x}]
      BY <1>2, <3>1
    <3> QED BY <2>1, <2>3, <3>1, <3>2 DEF Added
  <2> QED BY <2>2, <2>3
<1> HIDE DEF P
<1>3. S \in P
  BY <1>2, SubsetInduction
<1> QED BY <1>3, SumIsPartial DEF P

LEMMA SumSame ==
    ASSUME NEW S, IsFiniteSet(S), NEW f, NEW e, \A x \in S : f[x] = e[x]
    PROVE  SumOf(f, S) = SumOf(e, S)
<1>1. Adds(f, S, PartialSums(f, S)) /\ Adds(e, S, PartialSums(e, S))
  BY AddsExist
<1> DEFINE g == PartialSums(f, S)
           h == PartialSums(e, S)
<1>2. g[S] = h[S]
  <2> HIDE DEF g, h
  <2>1. S \in SUBSET S /\ Adds(f, S, g) /\ Adds(e, S, h)
    BY <1>1 DEF g, h
  <2>2. \A s \in SUBSET S : g[s] = h[s]
    BY <2>1, AddsAgree
  <2> QED BY <2>2
<1> QED BY <1>2, SumIsPartial

LEMMA SumUnfolds ==
    ASSUME NEW f, NEW S, IsFiniteSet(S)
    PROVE  /\ S = {} => SumOf(f, S) = 0
           /\ S # {} => LET x == CHOOSE x \in S : TRUE
                        IN  SumOf(f, S) = f[x] + SumOf(f, S \ {x})
<1> DEFINE g == PartialSums(f, S)
<1>1. Adds(f, S, g) /\ SumOf(f, S) = g[S]
  BY AddsExist, SumIsPartial
<1>2. g[S] = Added(f, g, S)
  BY <1>1 DEF Adds
<1>3. ASSUME NEW T \in SUBSET S PROVE g[T] = SumOf(f, T)
  <2>1. Adds(f, T, PartialSums(f, T)) /\ SumOf(f, T) = PartialSums(f, T)[T]
    BY AddsExist, SumIsPartial, FS_Subset
  <2> QED BY <1>1, <2>1, AddsAgree
<1> QED BY <1>1, <1>2, <1>3 DEF Added

LEMMA SumType ==
    ASSUME NEW S, IsFiniteSet(S), NEW f, \A x \in S : f[x] \in Int
    PROVE  SumOf(f, S) \in Int
<1> DEFINE P == {s \in SUBSET S : SumOf(f, s) \in Int}
<1>1. ASSUME NEW s \in SUBSET S, \A t \in SUBSET s : t # s => t \in P
      PROVE  s \in P
  <2>1. IsFiniteSet(s)
    BY FS_Subset
  <2>2. CASE s = {}
    <3>1. SumOf(f, s) = 0
      BY <2>1, <2>2, SumUnfolds
    <3> QED BY <3>1
  <2>3. CASE s # {}
    <3> DEFINE x == CHOOSE x \in s : TRUE
    <3>1. x \in s /\ s \ {x} \in SUBSET s /\ s \ {x} # s
      BY <2>3
    <3>2. SumOf(f, s \ {x}) \in Int
      BY <1>1, <3>1
    <3>3. SumOf(f, s) = f[x] + SumOf(f, s \ {x})
      BY <2>1, <2>3, SumUnfolds
    <3> QED BY <3>1, <3>2, <3>3
  <2> QED BY <2>2, <2>3
<1> HIDE DEF P
<1>2. S \in P
  BY <1>1, SubsetInduction
<1> QED BY <1>2 DEF P

(* Whichever element the fold takes first, the sum is the same.            *)
LEMMA SumRemove ==
    ASSUME NEW S, IsFiniteSet(S), NEW f, \A x \in S : f[x] \in Int, NEW a \in S
    PROVE  SumOf(f, S) = f[a] + SumOf(f, S \ {a})
<1> DEFINE P == {s \in SUBSET S :
                    \A x \in s : SumOf(f, s) = f[x] + SumOf(f, s \ {x})}
<1>1. ASSUME NEW s \in SUBSET S, \A t \in SUBSET s : t # s => t \in P
      PROVE  s \in P
  <2> SUFFICES ASSUME NEW x \in s
               PROVE  SumOf(f, s) = f[x] + SumOf(f, s \ {x})
    OBVIOUS
  <2> DEFINE c == CHOOSE y \in s : TRUE
  <2>1. IsFiniteSet(s) /\ c \in s
    BY FS_Subset
  <2>2. SumOf(f, s) = f[c] + SumOf(f, s \ {c})
    BY <2>1, SumUnfolds
  <2> HIDE DEF c
  <2>3. CASE x = c
    BY <2>2, <2>3
  <2>4. CASE x # c
    <3>1. s \ {c} \in P /\ s \ {x} \in P
      BY <1>1, <2>1
    <3>2. /\ SumOf(f, s \ {c}) = f[x] + SumOf(f, (s \ {c}) \ {x})
          /\ SumOf(f, s \ {x}) = f[c] + SumOf(f, (s \ {x}) \ {c})
      BY <2>1, <2>4, <3>1
    <3>3. (s \ {c}) \ {x} = (s \ {x}) \ {c}
      OBVIOUS
    <3>4. SumOf(f, (s \ {x}) \ {c}) \in Int
      <4>1. (s \ {x}) \ {c} \in SUBSET S
        OBVIOUS
      <4> QED BY <4>1, FS_Subset, SumType
    <3>5. f[x] \in Int /\ f[c] \in Int
      BY <2>1
    <3> DEFINE m == SumOf(f, (s \ {x}) \ {c})
    <3>6. /\ SumOf(f, s \ {c}) = f[x] + m
          /\ SumOf(f, s \ {x}) = f[c] + m
      BY <3>2, <3>3
    <3>7. m \in Int
      BY <3>4
    <3> HIDE DEF m
    <3>8. f[c] + (f[x] + m) = f[x] + (f[c] + m)
      BY <3>5, <3>7
    <3> QED BY <2>2, <3>6, <3>8
  <2> QED BY <2>3, <2>4
<1> HIDE DEF P
<1>2. S \in P
  BY <1>1, SubsetInduction
<1> QED BY <1>2 DEF P

LEMMA SumAdd ==
    ASSUME NEW S, IsFiniteSet(S), NEW a, a \notin S, NEW f,
           \A x \in S \cup {a} : f[x] \in Int
    PROVE  SumOf(f, S \cup {a}) = SumOf(f, S) + f[a]
<1>1. IsFiniteSet(S \cup {a}) /\ (S \cup {a}) \ {a} = S
  BY FS_AddElement
<1>2. SumOf(f, S) \in Int
  BY SumType
<1> QED BY <1>1, <1>2, SumRemove

LEMMA SumZero ==
    ASSUME NEW S, IsFiniteSet(S), NEW f, \A x \in S : f[x] = 0
    PROVE  SumOf(f, S) = 0
<1> DEFINE P == {s \in SUBSET S : SumOf(f, s) = 0}
<1>1. ASSUME NEW s \in SUBSET S, \A t \in SUBSET s : t # s => t \in P
      PROVE  s \in P
  <2>1. IsFiniteSet(s)
    BY FS_Subset
  <2>2. CASE s = {}
    <3>1. SumOf(f, s) = 0
      BY <2>1, <2>2, SumUnfolds
    <3> QED BY <3>1
  <2>3. CASE s # {}
    <3> DEFINE x == CHOOSE x \in s : TRUE
    <3>1. x \in s /\ s \ {x} \in SUBSET s /\ s \ {x} # s
      BY <2>3
    <3>2. SumOf(f, s \ {x}) = 0
      BY <1>1, <3>1
    <3>3. SumOf(f, s) = f[x] + SumOf(f, s \ {x})
      BY <2>1, <2>3, SumUnfolds
    <3> QED BY <3>1, <3>2, <3>3
  <2> QED BY <2>2, <2>3
<1> HIDE DEF P
<1>2. S \in P
  BY <1>1, SubsetInduction
<1> QED BY <1>2 DEF P

(* From b to c, the entries I move what is at distinct places of A.        *)
Moves(A, I, s, h, b, c) ==
    /\ \A i \in I : s[i] \in Int /\ h[i] \in A
    /\ \A i, j \in I : h[i] = h[j] => i = j
    /\ \A a \in A : b[a] \in Int
    /\ \A i \in I : c[h[i]] = b[h[i]] + s[i]
    /\ \A a \in A : (\A i \in I : h[i] # a) => c[a] = b[a]

LEMMA SumMoved ==
    ASSUME NEW A, IsFiniteSet(A), NEW I, IsFiniteSet(I),
           NEW s, NEW h, NEW b, NEW c, Moves(A, I, s, h, b, c)
    PROVE  SumOf(c, A) = SumOf(b, A) + SumOf(s, I)
<1> USE DEF Moves
<1> DEFINE Moved(x, J) == /\ \A i \in J : c[h[i]] = x[h[i]] + s[i]
                          /\ \A a \in A : (\A i \in J : h[i] # a) => c[a] = x[a]
           P == {J \in SUBSET I : \A x \in [A -> Int] :
                    Moved(x, J) => SumOf(c, A) = SumOf(x, A) + SumOf(s, J)}
<1>1. ASSUME NEW J \in SUBSET I, \A t \in SUBSET J : t # J => t \in P
      PROVE  J \in P
  <2> SUFFICES ASSUME NEW x \in [A -> Int], Moved(x, J)
               PROVE  SumOf(c, A) = SumOf(x, A) + SumOf(s, J)
    OBVIOUS
  <2>1. IsFiniteSet(J)
    BY FS_Subset
  <2>2. CASE J = {}
    <3>1. \A a \in A : c[a] = x[a]
      BY <2>2
    <3>2. SumOf(s, J) = 0
      BY <2>1, <2>2, SumUnfolds
    <3>3. SumOf(c, A) = SumOf(x, A)
      BY <3>1, SumSame
    <3>4. SumOf(x, A) \in Int
      BY SumType
    <3> QED BY <3>2, <3>3, <3>4
  <2>3. CASE J # {}
    <3>1. PICK j \in J : TRUE
      BY <2>3
    <3> DEFINE y == [x EXCEPT ![h[j]] = x[h[j]] + s[j]]
               K == J \ {j}
    <3>2. y \in [A -> Int] /\ h[j] \in A /\ s[j] \in Int /\ x[h[j]] \in Int
      OBVIOUS
    <3>3. Moved(y, K)
      <4>1. \A i \in K : h[i] # h[j] /\ y[h[i]] = x[h[i]]
        BY <3>2
      <4>2. ASSUME NEW a \in A, \A i \in K : h[i] # a PROVE c[a] = y[a]
        <5>1. CASE a = h[j]
          BY <3>1, <3>2, <5>1
        <5>2. CASE a # h[j]
          <6>1. \A i \in J : h[i] # a
            BY <4>2, <5>2
          <6> QED BY <5>2, <6>1
        <5> QED BY <5>1, <5>2
      <4> QED BY <4>1, <4>2
    <3>4. K \in P
      BY <1>1, <3>1
    <3>5. SumOf(c, A) = SumOf(y, A) + SumOf(s, K)
      BY <3>2, <3>3, <3>4
    <3>6. SumOf(s, J) = s[j] + SumOf(s, K) /\ SumOf(s, K) \in Int
      <4>1. \A i \in J : s[i] \in Int
        OBVIOUS
      <4>2. IsFiniteSet(K)
        BY <2>1, FS_Subset
      <4>3. SumOf(s, J) = s[j] + SumOf(s, K)
        BY <2>1, <3>1, <4>1, SumRemove
      <4>4. SumOf(s, K) \in Int
        BY <4>1, <4>2, SumType
      <4> QED BY <4>3, <4>4
    <3>7. SumOf(y, A) = SumOf(x, A) + s[j]
      <4> DEFINE B == A \ {h[j]}
      <4>0. \A a \in A : x[a] \in Int /\ y[a] \in Int
        BY <3>2
      <4>1. /\ SumOf(x, A) = x[h[j]] + SumOf(x, B)
            /\ SumOf(y, A) = y[h[j]] + SumOf(y, B)
        <5> HIDE DEF y
        <5> QED BY <3>2, <4>0, SumRemove
      <4>2. IsFiniteSet(B) /\ \A a \in B : y[a] = x[a]
        BY FS_Subset
      <4>3. SumOf(y, B) = SumOf(x, B) /\ SumOf(x, B) \in Int
        BY <4>2, SumSame, SumType
      <4> QED BY <3>2, <4>1, <4>3
    <3>8. SumOf(x, A) \in Int
      BY SumType
    <3> QED BY <3>2, <3>5, <3>6, <3>7, <3>8
  <2> QED BY <2>2, <2>3
<1> DEFINE z == [a \in A |-> b[a]]
<1>2. I \in P
  <2> HIDE DEF P
  <2> QED BY <1>1, SubsetInduction
<1>3. z \in [A -> Int] /\ Moved(z, I)
  OBVIOUS
<1>4. SumOf(c, A) = SumOf(z, A) + SumOf(s, I)
  BY <1>2, <1>3
<1>5. SumOf(z, A) = SumOf(b, A)
  BY SumSame
<1> QED BY <1>4, <1>5

LEMMA SumOfTwo ==
    ASSUME NEW a, NEW b, a # b, NEW f, f[a] \in Int, f[b] \in Int
    PROVE  SumOf(f, {a, b}) = f[a] + f[b]
<1>1. IsFiniteSet({b}) /\ IsFiniteSet({a} \cup {b}) /\ IsFiniteSet({})
  BY FS_EmptySet, FS_Singleton, FS_AddElement
<1>2. {a, b} = {a} \cup {b} /\ {a, b} \ {a} = {b} /\ {b} \ {b} = {}
  OBVIOUS
<1>3. SumOf(f, {}) = 0
  BY <1>1, SumUnfolds
<1>4. SumOf(f, {b}) = f[b] + SumOf(f, {})
  BY <1>1, <1>2, SumRemove
<1>5. SumOf(f, {a, b}) = f[a] + SumOf(f, {b})
  BY <1>1, <1>2, SumRemove
<1> QED
  BY <1>3, <1>4, <1>5

(* A sum whose terms changed at one place, if it is a place of the sum.    *)
LEMMA SumShift ==
    ASSUME NEW S, IsFiniteSet(S), NEW f, NEW g, NEW a,
           \A x \in S : f[x] \in Int /\ g[x] \in Int,
           \A x \in S \ {a} : g[x] = f[x]
    PROVE  SumOf(g, S) = SumOf(f, S) + (IF a \in S THEN g[a] - f[a] ELSE 0)
<1>1. CASE a \in S
  <2>1. /\ SumOf(f, S) = f[a] + SumOf(f, S \ {a})
        /\ SumOf(g, S) = g[a] + SumOf(g, S \ {a})
    BY <1>1, SumRemove
  <2>2. IsFiniteSet(S \ {a})
    BY FS_Subset
  <2>3. SumOf(f, S \ {a}) \in Int /\ SumOf(g, S \ {a}) = SumOf(f, S \ {a})
    BY <2>2, SumType, SumSame
  <2>4. f[a] \in Int /\ g[a] \in Int
    BY <1>1
  <2> QED
    BY <1>1, <2>1, <2>3, <2>4
<1>2. CASE a \notin S
  <2>1. SumOf(g, S) = SumOf(f, S) /\ SumOf(f, S) \in Int
    BY <1>2, SumSame, SumType
  <2> QED
    BY <1>2, <2>1
<1> QED
  BY <1>1, <1>2

(* Sums of what is not negative.                                           *)
LEMMA SumNat ==
    ASSUME NEW S, IsFiniteSet(S), NEW f, \A x \in S : f[x] \in Nat
    PROVE  SumOf(f, S) \in Nat /\ \A a \in S : f[a] <= SumOf(f, S)
<1> DEFINE P == {s \in SUBSET S : SumOf(f, s) \in Nat}
<1>1. ASSUME NEW s \in SUBSET S, \A t \in SUBSET s : t # s => t \in P
      PROVE  s \in P
  <2>1. IsFiniteSet(s)
    BY FS_Subset
  <2>2. CASE s = {}
    <3>1. SumOf(f, s) = 0
      BY <2>1, <2>2, SumUnfolds
    <3> QED
      BY <3>1
  <2>3. CASE s # {}
    <3>1. PICK x \in s : TRUE
      BY <2>3
    <3>2. SumOf(f, s) = f[x] + SumOf(f, s \ {x})
      <4>1. \A y \in s : f[y] \in Int
        OBVIOUS
      <4> QED
        BY <2>1, <4>1, SumRemove
    <3>3. s \ {x} \in SUBSET s /\ s \ {x} # s
      BY <3>1
    <3>4. SumOf(f, s \ {x}) \in Nat
      BY <1>1, <3>3
    <3> QED
      BY <3>2, <3>4
  <2> QED
    BY <2>2, <2>3
<1> HIDE DEF P
<1>2. \A s \in SUBSET S : s \in P
  BY <1>1, SubsetInduction
<1>3. \A s \in SUBSET S : SumOf(f, s) \in Nat
  BY <1>2 DEF P
<1>4. ASSUME NEW a \in S PROVE f[a] <= SumOf(f, S)
  <2>1. SumOf(f, S) = f[a] + SumOf(f, S \ {a})
    <3>1. \A y \in S : f[y] \in Int
      OBVIOUS
    <3> QED
      BY <3>1, SumRemove
  <2>2. SumOf(f, S \ {a}) \in Nat /\ f[a] \in Nat
    BY <1>3
  <2> QED
    BY <2>1, <2>2
<1> QED
  BY <1>3, <1>4

(* Sums over the first entries of a list.                                  *)
LEMMA SumNext ==
    ASSUME NEW f, NEW n \in Nat, \A j \in 1..(n + 1) : f[j] \in Int
    PROVE  SumOf(f, 1..(n + 1)) = SumOf(f, 1..n) + f[n + 1]
<1>1. 1..(n + 1) = (1..n) \cup {n + 1} /\ n + 1 \notin 1..n
  OBVIOUS
<1>2. IsFiniteSet(1..n) /\ \A j \in (1..n) \cup {n + 1} : f[j] \in Int
  BY FS_Interval
<1>3. SumOf(f, (1..n) \cup {n + 1}) = SumOf(f, 1..n) + f[n + 1]
  <2> DEFINE S == 1..n
             a == n + 1
  <2>1. IsFiniteSet(S) /\ a \notin S /\ \A j \in S \cup {a} : f[j] \in Int
    BY <1>2
  <2> HIDE DEF S, a
  <2>2. SumOf(f, S \cup {a}) = SumOf(f, S) + f[a]
    BY <2>1, SumAdd
  <2> QED
    BY <2>2 DEF S, a
<1> QED
  BY <1>1, <1>3

LEMMA SumPrefix ==
    ASSUME NEW f, NEW n \in Nat, \A j \in 1..n : f[j] \in Nat, NEW k \in 0..n
    PROVE  SumOf(f, 1..k) \in Nat /\ SumOf(f, 1..k) <= SumOf(f, 1..n)
<1> DEFINE S == {i \in Nat : k + i <= n => SumOf(f, 1..k) <= SumOf(f, 1..(k + i))}
<1>1. \A i \in 0..n : SumOf(f, 1..i) \in Nat
  <2> SUFFICES ASSUME NEW i \in 0..n PROVE SumOf(f, 1..i) \in Nat
    OBVIOUS
  <2>1. IsFiniteSet(1..i) /\ \A j \in 1..i : f[j] \in Nat
    BY FS_Interval
  <2> QED
    BY <2>1, SumNat
<1>2. 0 \in S
  <2>1. k + 0 = k /\ SumOf(f, 1..k) \in Nat
    BY <1>1
  <2> QED
    BY <2>1
<1>3. ASSUME NEW i \in 0..(n - 1), i \in S PROVE i + 1 \in S
  <2> SUFFICES ASSUME k + (i + 1) <= n
               PROVE  SumOf(f, 1..k) <= SumOf(f, 1..(k + (i + 1)))
    OBVIOUS
  <2>1. PICK m \in 0..(n - 1) : m = k + i /\ k + (i + 1) = m + 1
    OBVIOUS
  <2>2. SumOf(f, 1..k) <= SumOf(f, 1..m)
    BY <1>3, <2>1
  <2>3. SumOf(f, 1..(m + 1)) = SumOf(f, 1..m) + f[m + 1]
    <3>1. \A j \in 1..(m + 1) : f[j] \in Int
      BY <2>1
    <3> QED
      BY <3>1, <2>1, SumNext
  <2>4. f[m + 1] \in Nat /\ SumOf(f, 1..m) \in Nat /\ SumOf(f, 1..k) \in Nat
    BY <1>1, <2>1
  <2>5. SumOf(f, 1..k) <= SumOf(f, 1..(m + 1))
    BY <2>2, <2>3, <2>4
  <2> QED
    BY <2>1, <2>5
<1> HIDE DEF S
<1>4. n - k \in S
  BY <1>2, <1>3, InductionUpTo
<1>5. n - k \in Nat /\ k + (n - k) = n
  OBVIOUS
<1> QED
  BY <1>1, <1>4, <1>5 DEF S

(* Terms that are added, or not, where nothing is.                         *)
Extends(S, a, T, f, g) ==
    /\ IsFiniteSet(S) /\ a \notin S /\ (T = S \/ T = S \cup {a})
    /\ \A x \in S : f[x] \in Int /\ g[x] = f[x]
    /\ g[a] = 0

LEMMA SumGrows ==
    ASSUME NEW S, NEW a, NEW T, NEW f, NEW g, Extends(S, a, T, f, g)
    PROVE  SumOf(g, T) = SumOf(f, S)
<1> USE DEF Extends
<1>1. SumOf(g, S) = SumOf(f, S) /\ SumOf(f, S) \in Int
  BY SumSame, SumType
<1>2. CASE T = S \cup {a}
  <2>1. \A x \in S \cup {a} : g[x] \in Int
    OBVIOUS
  <2>2. SumOf(g, S \cup {a}) = SumOf(g, S) + g[a]
    BY <2>1, SumAdd
  <2> QED
    BY <1>1, <1>2, <2>2
<1> QED
  BY <1>1, <1>2

LEMMA FiniteUpTo ==
    ASSUME NEW n \in Nat, NEW S, S \subseteq 1..n
    PROVE  IsFiniteSet(S)
<1>1. IsFiniteSet(1..n) /\ S \in SUBSET (1..n)
  BY FS_Interval
<1> QED
  BY <1>1, FS_Subset

-----------------------------------------------------------------------------
(* Postings.                                                               *)
LEMMA SumOfLines ==
    ASSUME NEW lines, NEW T, IsFiniteSet(T)
    PROVE  MapThenSumSet(LAMBDA i : Signed(lines[i]), T)
              = SumOf([i \in T |-> Signed(lines[i])], T)
<1> DEFINE e == [i \in T |-> Signed(lines[i])]
           F(g) == [s \in SUBSET T |->
                       IF s = {} THEN 0
                       ELSE LET x == CHOOSE x \in s : TRUE
                            IN  Signed(lines[x]) + g[s \ {x}]]
           h == CHOOSE g : g = F(g)
           p == PartialSums(e, T)
<1>1. MapThenSumSet(LAMBDA i : Signed(lines[i]), T) = h[T]
  BY DEF MapThenSumSet, MapThenFoldSet
<1>2. ASSUME NEW g PROVE F(g) = [s \in SUBSET T |-> Added(e, g, s)]
  <2>1. ASSUME NEW s \in SUBSET T, s # {}
        PROVE  LET x == CHOOSE x \in s : TRUE IN Signed(lines[x]) = e[x]
    BY <2>1
  <2> QED BY <2>1 DEF Added
<1>3. p = F(p)
  <2>1. Adds(e, T, p)
    BY AddsExist
  <2> QED BY <1>2, <2>1 DEF Adds
<1>4. h = F(h)
  <2> HIDE DEF F, p
  <2> QED BY <1>3
<1>5. Adds(e, T, h)
  <2> HIDE DEF F, h, e
  <2> QED BY <1>2, <1>4 DEF Adds
<1>6. h[T] = SumOf(e, T)
  <2> HIDE DEF h, e
  <2> QED BY <1>5, SumIs
<1> QED BY <1>1, <1>6

(* A balanced posting of distinct accounts leaves the total of each asset  *)
(* what it was.                                                            *)
LEMMA AppliedKeepsTotals ==
    ASSUME IsFiniteSet(Accounts), NEW bal \in [Accounts -> Int],
           NEW n \in Nat, NEW lines, DOMAIN lines = 1..n,
           \A i \in 1..n : lines[i].direction \in {"DEBIT", "CREDIT"}
                              /\ lines[i].amount \in Int,
           WellFormed(lines), DistinctAccounts(lines), CreditsEqualDebits(lines),
           NEW x
    PROVE  AssetTotal(Applied(bal, lines), x) = AssetTotal(bal, x)
<1> DEFINE A == {name \in Accounts : name.asset = x}
           I == {i \in DOMAIN lines : lines[i].account.asset = x}
           s == [i \in I |-> Signed(lines[i])]
           h == [i \in I |-> lines[i].account]
           new == Applied(bal, lines)
<1>1. IsFiniteSet(A) /\ IsFiniteSet(I)
  <2>1. IsFiniteSet(1..n) /\ A \in SUBSET Accounts /\ I \in SUBSET (1..n)
    BY FS_Interval
  <2> HIDE DEF A, I
  <2> QED BY <2>1, FS_Subset
<1>2. \A i \in I : s[i] \in Int
  BY DEF Signed
<1>3. \A i \in I : h[i] \in A
  BY DEF WellFormed, AccountsOf
<1>4. \A i, j \in I : h[i] = h[j] => i = j
  BY DEF DistinctAccounts
<1>5. \A i \in I : new[h[i]] = bal[h[i]] + s[i]
  <2> SUFFICES ASSUME NEW i \in I PROVE new[h[i]] = bal[h[i]] + s[i]
    OBVIOUS
  <2>1. lines[i].account \in Accounts /\ lines[i].account \in AccountsOf(lines)
    BY DEF WellFormed, AccountsOf
  <2>2. LineOn(lines, lines[i].account) = i
    BY DEF LineOn, DistinctAccounts
  <2> QED BY <2>1, <2>2 DEF Applied
<1>6. \A a \in A : (\A i \in I : h[i] # a) => new[a] = bal[a]
  <2> SUFFICES ASSUME NEW a \in A, \A i \in I : h[i] # a PROVE new[a] = bal[a]
    OBVIOUS
  <2>1. a \notin AccountsOf(lines)
    BY DEF AccountsOf
  <2> QED BY <2>1 DEF Applied
<1>7. \A a \in A : bal[a] \in Int
  OBVIOUS
<1>8. SumOf(s, I) = 0
  <2>1. SumOf(s, I) = MapThenSumSet(LAMBDA i : Signed(lines[i]), I)
    BY <1>1, SumOfLines
  <2>2. CASE I = {}
    <3> HIDE DEF s, I
    <3> QED BY <1>1, <2>2, SumUnfolds
  <2>3. CASE I # {}
    <3>1. x \in {lines[i].account.asset : i \in DOMAIN lines}
      BY <2>3
    <3> QED BY <2>1, <3>1 DEF CreditsEqualDebits
  <2> QED BY <2>2, <2>3
<1>9. SumOf(new, A) = SumOf(bal, A) + SumOf(s, I)
  <2> HIDE DEF A, I, s, h, new
  <2>1. IsFiniteSet(A)
    BY <1>1
  <2>2. IsFiniteSet(I)
    BY <1>1
  <2>3. Moves(A, I, s, h, bal, new)
    BY <1>2, <1>3, <1>4, <1>5, <1>6, <1>7 DEF Moves
  <2> QED BY <2>1, <2>2, <2>3, SumMoved
<1>10. SumOf(bal, A) \in Int
  <2> HIDE DEF A
  <2> QED BY <1>1, <1>7, SumType
<1>11. SumOf(new, A) = SumOf(bal, A)
  BY <1>8, <1>9, <1>10
<1> QED BY <1>11 DEF AssetTotal, SumOf

(* The effect of a posting on an account: that of its line, if it has one. *)
LEMMA AppliedAt ==
    ASSUME NEW bal, NEW lines, NEW name \in Accounts, DistinctAccounts(lines)
    PROVE  /\ \A i \in DOMAIN lines : lines[i].account = name =>
                 Applied(bal, lines)[name] = bal[name] + Signed(lines[i])
           /\ name \notin AccountsOf(lines) => Applied(bal, lines)[name] = bal[name]
<1>1. ASSUME NEW i \in DOMAIN lines, lines[i].account = name
      PROVE  Applied(bal, lines)[name] = bal[name] + Signed(lines[i])
  <2>1. name \in AccountsOf(lines)
    BY <1>1 DEF AccountsOf
  <2>2. LineOn(lines, name) = i
    BY <1>1 DEF LineOn, DistinctAccounts
  <2> QED BY <2>1, <2>2 DEF Applied
<1> QED BY <1>1 DEF Applied

-----------------------------------------------------------------------------
(* Calls.                                                                  *)

(* Only the reference of the call is added, and nothing is taken away.     *)
LEMMA PostEffect ==
    ASSUME NEW ref, NEW lines, Post(ref, lines)
    PROVE  posted' = posted \cup {ref}
BY DEF Post, ledger

(* A posting of integer amounts keeps the projection one of integers.      *)
LEMMA PostType ==
    ASSUME balance \in [Accounts -> Int],
           NEW ref, NEW lines, Post(ref, lines),
           \A i \in DOMAIN lines : lines[i].direction \in {"DEBIT", "CREDIT"}
                                      /\ lines[i].amount \in Int
    PROVE  balance' \in [Accounts -> Int]
<1>1. CASE ref \in posted /\ UNCHANGED ledger
  BY <1>1 DEF ledger
<1>2. CASE balance' = Applied(balance, lines)
  <2>1. ASSUME NEW name \in AccountsOf(lines)
        PROVE  Signed(lines[LineOn(lines, name)]) \in Int
    <3>1. \E i \in DOMAIN lines : lines[i].account = name
      BY DEF AccountsOf
    <3>2. LineOn(lines, name) \in DOMAIN lines
      BY <3>1 DEF LineOn
    <3> QED BY <3>2 DEF Signed
  <2> QED BY <1>2, <2>1 DEF Applied
<1> QED BY <1>1, <1>2 DEF Post
=============================================================================
