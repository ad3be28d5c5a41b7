----------------------------- MODULE ProofFacts ------------------------------
(***************************************************************************)
(* Facts about numbers, finite sets and sums that the proofs of several     *)
(* components need.                                                         *)
(*                                                                          *)
(* Induction is by least counterexample: a nonempty set of numbers has a    *)
(* least member, and a nonempty set of finite sets has one from which no    *)
(* element can be taken.                                                    *)
(***************************************************************************)
EXTENDS Integers, FiniteSets, Functions, TLAPS, FiniteSetTheorems, WellFoundedInduction

\* A nonempty set of natural numbers has a least member.
LEMMA LeastNumber ==
  ASSUME NEW S \in SUBSET Nat, S # {}
  PROVE  \E m \in S : \A i \in S : m <= i
<1>1. PICK m \in S : \A i \in S : ~(<<i, m>> \in OpToRel(<, Nat))
  BY NatLessThanWellFounded, WFMin, Zenon
<1>2. \A i \in S : ~(i < m)
  BY <1>1 DEF OpToRel
<1>3. QED
  BY <1>2

\* Of a nonempty set of subsets of a finite set, one is minimal.
LEMMA LeastSubset ==
  ASSUME NEW S, IsFiniteSet(S), NEW Bad \in SUBSET SUBSET S, NEW b \in Bad
  PROVE  \E s \in Bad : \A x \in s : s \ {x} \notin Bad
<1> DEFINE Sizes == {Cardinality(s) : s \in Bad}
<1>1. ASSUME NEW s \in Bad
      PROVE  IsFiniteSet(s) /\ Cardinality(s) \in Nat
  BY FS_Subset, FS_CardinalityType
<1>2. Sizes \in SUBSET Nat /\ Cardinality(b) \in Sizes
  BY <1>1
<1>3. PICK m \in Sizes : \A i \in Sizes : m <= i
  <2> HIDE DEF Sizes
  <2> QED BY <1>2, LeastNumber
<1>4. PICK s \in Bad : m = Cardinality(s)
  BY <1>3
<1>5. ASSUME NEW x \in s, s \ {x} \in Bad
      PROVE  FALSE
  <2>1. Cardinality(s \ {x}) = Cardinality(s) - 1
    BY <1>1, FS_RemoveElement
  <2>2. Cardinality(s) <= Cardinality(s \ {x})
    BY <1>3, <1>4, <1>5
  <2>3. QED
    BY <1>1, <2>1, <2>2
<1>6. QED
  BY <1>4, <1>5

-----------------------------------------------------------------------------
(* Sums *)

Pick(s) == CHOOSE x \in s : TRUE

\* What a table of the sums of fun over the subsets of S satisfies.
SumStep(fun, table, s) == IF s = {} THEN 0 ELSE fun[Pick(s)] + table[s \ {Pick(s)}]
SumTable(fun, table, S) == table = [s \in SUBSET S |-> SumStep(fun, table, s)]

\* The definition of the sum, in these terms.
LEMMA SumByTable ==
  ASSUME NEW fun, NEW S
  PROVE  SumFunctionOnSet(fun, S) = (CHOOSE table : SumTable(fun, table, S))[S]
BY DEF SumFunctionOnSet, FoldFunctionOnSet, MapThenFoldSet, SumTable, SumStep, Pick

\* An element is picked from a set that has one.
LEMMA PickIn ==
  ASSUME NEW s, s # {}
  PROVE  Pick(s) \in s
BY DEF Pick

\* The table exists: it is built up by the size of the sets.
LEMMA SumTableExists ==
  ASSUME NEW S, IsFiniteSet(S), NEW fun \in [S -> Int]
  PROVE  \E table \in [SUBSET S -> Int] : SumTable(fun, table, S)
<1> DEFINE Small(n) == {s \in SUBSET S : Cardinality(s) <= n}
           Partial(n, t) == \A s \in Small(n) : t[s] = SumStep(fun, t, s)
           Bad == {n \in Nat : ~\E t \in [Small(n) -> Int] : Partial(n, t)}
<1>1. ASSUME NEW s \in SUBSET S
      PROVE  IsFiniteSet(s) /\ Cardinality(s) \in Nat /\ (Cardinality(s) = 0 <=> s = {})
  BY FS_Subset, FS_CardinalityType, FS_EmptySet
<1>2. ASSUME NEW s \in SUBSET S, s # {}
      PROVE  /\ Pick(s) \in s /\ s \ {Pick(s)} \in SUBSET S
             /\ Cardinality(s \ {Pick(s)}) = Cardinality(s) - 1
  BY <1>1, <1>2, PickIn, FS_RemoveElement
<1>3. 0 \notin Bad
  <2>1. Small(0) = {{}}
    BY <1>1, FS_EmptySet
  <2> DEFINE zero == [s \in Small(0) |-> 0]
  <2>2. Partial(0, zero) /\ zero \in [Small(0) -> Int]
    BY <2>1 DEF SumStep
  <2> HIDE DEF zero, Small, Partial
  <2>3. QED
    BY <2>2
<1>4. ASSUME NEW n \in Nat, n \notin Bad
      PROVE  n + 1 \notin Bad
  <2>1. PICK t \in [Small(n) -> Int] : Partial(n, t)
    BY <1>4
  <2> DEFINE u == [s \in Small(n + 1) |-> IF s \in Small(n) THEN t[s] ELSE SumStep(fun, t, s)]
  <2>2. ASSUME NEW s \in Small(n + 1)
        PROVE  /\ s # {} => s \ {Pick(s)} \in Small(n)
               /\ s = {} => s \in Small(n)
    BY <1>1, <1>2
  <2>3. ASSUME NEW s \in Small(n + 1)
        PROVE  u[s] = SumStep(fun, t, s)
    BY <2>1
  <2>4. \A s \in Small(n) : s \in Small(n + 1) /\ u[s] = t[s]
    BY <1>1
  <2>5. ASSUME NEW s \in Small(n + 1)
        PROVE  SumStep(fun, t, s) = SumStep(fun, u, s) /\ SumStep(fun, t, s) \in Int
    <3>1. CASE s = {}
      BY <3>1 DEF SumStep
    <3>2. CASE s # {}
      <4>1. Pick(s) \in S /\ s \ {Pick(s)} \in Small(n)
        BY <1>2, <2>2, <3>2
      <4>2. fun[Pick(s)] \in Int /\ t[s \ {Pick(s)}] \in Int
        BY <2>1, <4>1
      <4>3. u[s \ {Pick(s)}] = t[s \ {Pick(s)}]
        BY <2>4, <4>1
      <4>4. QED
        BY <3>2, <4>2, <4>3 DEF SumStep
    <3>3. QED
      BY <3>1, <3>2
  <2>6. u \in [Small(n + 1) -> Int]
    BY <2>3, <2>5
  <2>7. Partial(n + 1, u)
    BY <2>3, <2>5
  <2> HIDE DEF u, Small, Partial
  <2>8. QED
    BY <2>6, <2>7
<1>5. Bad = {}
  <2>1. SUFFICES ASSUME NEW b \in Bad PROVE FALSE
    OBVIOUS
  <2>2. PICK m \in Bad : \A i \in Bad : m <= i
    <3>1. Bad \in SUBSET Nat
      OBVIOUS
    <3> HIDE DEF Bad
    <3> QED BY <2>1, <3>1, LeastNumber
  <2>3. m \in Nat \ {0}
    BY <1>3
  <2>4. m - 1 \in Nat /\ m - 1 \notin Bad
    <3> HIDE DEF Bad
    <3> QED BY <2>2, <2>3
  <2>5. (m - 1) + 1 \notin Bad
    <3> HIDE DEF Bad
    <3> QED BY <1>4, <2>4
  <2>6. (m - 1) + 1 = m
    BY <2>3
  <2>7. QED
    BY <2>2, <2>5, <2>6
<1>6. Cardinality(S) \in Nat /\ Small(Cardinality(S)) = SUBSET S
  BY FS_CardinalityType, FS_Subset
<1>7. PICK t \in [SUBSET S -> Int] : Partial(Cardinality(S), t)
  <2>1. Cardinality(S) \notin Bad
    <3> HIDE DEF Bad
    <3> QED BY <1>5
  <2>2. QED
    BY <1>6, <2>1
<1>8. SumTable(fun, t, S)
  BY <1>6, <1>7 DEF SumTable
<1>9. QED
  BY <1>8

\* The table of the sums of fun.
Sums(fun, table, S) ==
  /\ SumFunction(fun) = table[S]
  /\ table[{}] = 0
  /\ \A s \in SUBSET S : s # {} => table[s] = fun[Pick(s)] + table[s \ {Pick(s)}]
  /\ \A s \in SUBSET S : table[s] \in Int

\* So the sum is the last entry of such a table.
LEMMA SumTableOf ==
  ASSUME NEW S, IsFiniteSet(S), NEW fun \in [S -> Int]
  PROVE  \E table : Sums(fun, table, S)
<1> DEFINE table == CHOOSE t : SumTable(fun, t, S)
<1>1. SumTable(fun, table, S)
  BY SumTableExists
<1>2. SumFunction(fun) = table[S]
  BY SumByTable DEF SumFunction
<1> HIDE DEF table
<1>3. \A s \in SUBSET S : table[s] = SumStep(fun, table, s)
  BY <1>1 DEF SumTable
<1>4. \A s \in SUBSET S : s # {} => table[s] = fun[Pick(s)] + table[s \ {Pick(s)}]
  BY <1>3 DEF SumStep
<1>5. table[{}] = 0
  BY <1>3 DEF SumStep
<1> DEFINE Bad == {s \in SUBSET S : table[s] \notin Int}
<1>6. Bad = {}
  <2>1. SUFFICES ASSUME NEW b \in Bad PROVE FALSE
    OBVIOUS
  <2>2. PICK s \in Bad : \A x \in s : s \ {x} \notin Bad
    BY LeastSubset, Zenon
  <2>3. s \in SUBSET S /\ s # {}
    BY <1>5
  <2>4. Pick(s) \in s
    BY <2>3, PickIn
  <2>5. table[s \ {Pick(s)}] \in Int
    BY <2>2, <2>3, <2>4
  <2>6. fun[Pick(s)] \in Int /\ table[s] = fun[Pick(s)] + table[s \ {Pick(s)}]
    BY <1>4, <2>3, <2>4
  <2>7. QED
    BY <2>2, <2>5, <2>6
<1>7. \A s \in SUBSET S : table[s] \in Int
  BY <1>6
<1>8. Sums(fun, table, S)
  BY <1>2, <1>4, <1>5, <1>7 DEF Sums
<1>9. QED
  BY <1>8

\* Sums of integers are integers.
THEOREM SumType ==
  ASSUME NEW S, IsFiniteSet(S), NEW f \in [S -> Int]
  PROVE  SumFunction(f) \in Int
<1>1. PICK F : Sums(f, F, S)
  BY SumTableOf
<1>2. QED
  BY <1>1 DEF Sums

\* A sum changes by the change at one point.
THEOREM SumPoint ==
  ASSUME NEW S, IsFiniteSet(S), NEW f \in [S -> Int], NEW g \in [S -> Int], NEW k \in S,
         \A x \in S \ {k} : f[x] = g[x]
  PROVE  SumFunction(g) = SumFunction(f) + g[k] - f[k]
<1>1. PICK F : Sums(f, F, S)
  BY SumTableOf
<1>2. PICK G : Sums(g, G, S)
  BY SumTableOf
<1> DEFINE Right(s) == G[s] = F[s] + (IF k \in s THEN g[k] - f[k] ELSE 0)
           Bad == {s \in SUBSET S : ~Right(s)}
<1>3. Bad = {}
  <2>1. SUFFICES ASSUME NEW b \in Bad PROVE FALSE
    OBVIOUS
  <2>2. PICK s \in Bad : \A x \in s : s \ {x} \notin Bad
    BY LeastSubset, Zenon
  <2>3. s \in SUBSET S /\ s # {} /\ ~Right(s)
    <3>1. Right({})
      BY <1>1, <1>2 DEF Sums
    <3>2. QED
      BY <3>1
  <2> DEFINE x == Pick(s)
             r == s \ {x}
  <2>4. x \in s /\ x \in S /\ r \in SUBSET S /\ Right(r)
    BY <2>2, <2>3, PickIn
  <2>5. F[s] = f[x] + F[r] /\ G[s] = g[x] + G[r]
    BY <1>1, <1>2, <2>3 DEF Sums
  <2>6. f[x] \in Int /\ g[x] \in Int /\ f[k] \in Int /\ g[k] \in Int
        /\ F[r] \in Int /\ G[r] \in Int
    BY <1>1, <1>2, <2>4 DEF Sums
  <2>7. CASE x = k
    <3>1. k \in s /\ k \notin r
      BY <2>4, <2>7
    <3> HIDE DEF x, r
    <3>2. QED
      BY <2>3, <2>4, <2>5, <2>6, <2>7, <3>1
  <2>8. CASE x # k
    <3>1. (k \in s <=> k \in r) /\ f[x] = g[x]
      BY <2>4, <2>8
    <3> HIDE DEF x, r
    <3>2. QED
      BY <2>3, <2>4, <2>5, <2>6, <2>8, <3>1
  <2>9. QED
    BY <2>7, <2>8
<1>4. Right(S)
  BY <1>3
<1>5. F[S] \in Int /\ f[k] \in Int /\ g[k] \in Int
  BY <1>1 DEF Sums
<1>6. QED
  BY <1>1, <1>2, <1>4, <1>5 DEF Sums

\* Sums of smaller terms are smaller.
THEOREM SumMonotone ==
  ASSUME NEW S, IsFiniteSet(S), NEW f \in [S -> Int], NEW g \in [S -> Int],
         \A x \in S : f[x] <= g[x]
  PROVE  SumFunction(f) <= SumFunction(g)
<1>1. PICK F : Sums(f, F, S)
  BY SumTableOf
<1>2. PICK G : Sums(g, G, S)
  BY SumTableOf
<1> DEFINE Bad == {s \in SUBSET S : ~(F[s] <= G[s])}
<1>3. Bad = {}
  <2>1. SUFFICES ASSUME NEW b \in Bad PROVE FALSE
    OBVIOUS
  <2>2. PICK s \in Bad : \A x \in s : s \ {x} \notin Bad
    BY LeastSubset, Zenon
  <2>3. s \in SUBSET S /\ s # {} /\ ~(F[s] <= G[s])
    <3>1. F[{}] <= G[{}]
      BY <1>1, <1>2 DEF Sums
    <3>2. QED
      BY <3>1
  <2> DEFINE x == Pick(s)
             r == s \ {x}
  <2>4. x \in S /\ r \in SUBSET S /\ F[r] <= G[r]
    BY <2>2, <2>3, PickIn
  <2>5. F[s] = f[x] + F[r] /\ G[s] = g[x] + G[r]
    BY <1>1, <1>2, <2>3 DEF Sums
  <2>6. f[x] \in Int /\ g[x] \in Int /\ F[r] \in Int /\ G[r] \in Int /\ f[x] <= g[x]
    BY <1>1, <1>2, <2>4 DEF Sums
  <2> HIDE DEF x, r
  <2>7. QED
    BY <2>3, <2>4, <2>5, <2>6
<1>4. QED
  BY <1>1, <1>2, <1>3 DEF Sums

\* Sums of natural numbers are natural numbers.
THEOREM SumNatural ==
  ASSUME NEW S, IsFiniteSet(S), NEW f \in [S -> Nat]
  PROVE  SumFunction(f) \in Nat
<1>1. f \in [S -> Int]
  OBVIOUS
<1>2. PICK F : Sums(f, F, S)
  BY <1>1, SumTableOf
<1> DEFINE Bad == {s \in SUBSET S : F[s] \notin Nat}
<1>3. Bad = {}
  <2>1. SUFFICES ASSUME NEW b \in Bad PROVE FALSE
    OBVIOUS
  <2>2. PICK s \in Bad : \A x \in s : s \ {x} \notin Bad
    BY LeastSubset, Zenon
  <2>3. s \in SUBSET S /\ s # {} /\ F[s] \notin Nat
    <3>1. F[{}] \in Nat
      BY <1>2 DEF Sums
    <3>2. QED
      BY <3>1
  <2>4. Pick(s) \in S /\ F[s \ {Pick(s)}] \in Nat
    BY <2>2, <2>3, PickIn
  <2>5. F[s] = f[Pick(s)] + F[s \ {Pick(s)}] /\ f[Pick(s)] \in Nat
    BY <1>2, <2>3, <2>4 DEF Sums
  <2>6. QED
    BY <2>3, <2>4, <2>5
<1>4. QED
  BY <1>2, <1>3 DEF Sums

\* The sum of nothing but zeros.
THEOREM SumZero ==
  ASSUME NEW S, IsFiniteSet(S), NEW f \in [S -> Int], \A x \in S : f[x] = 0
  PROVE  SumFunction(f) = 0
<1>1. PICK F : Sums(f, F, S)
  BY SumTableOf
<1> DEFINE Bad == {s \in SUBSET S : F[s] # 0}
<1>2. Bad = {}
  <2>1. SUFFICES ASSUME NEW b \in Bad PROVE FALSE
    OBVIOUS
  <2>2. PICK s \in Bad : \A x \in s : s \ {x} \notin Bad
    BY LeastSubset, Zenon
  <2>3. s \in SUBSET S /\ s # {} /\ F[s] # 0
    <3>1. F[{}] = 0
      BY <1>1 DEF Sums
    <3>2. QED
      BY <3>1
  <2>4. Pick(s) \in S /\ F[s \ {Pick(s)}] = 0
    BY <2>2, <2>3, PickIn
  <2>5. F[s] = f[Pick(s)] + F[s \ {Pick(s)}] /\ f[Pick(s)] = 0
    BY <1>1, <2>3, <2>4 DEF Sums
  <2>6. QED
    BY <2>3, <2>4, <2>5
<1>3. QED
  BY <1>1, <1>2 DEF Sums

\* A sum whose terms are at most m, but for one.
THEOREM SumBound ==
  ASSUME NEW S, IsFiniteSet(S), NEW f \in [S -> Int], NEW c \in S, NEW m \in Nat,
         \A x \in S \ {c} : f[x] <= m
  PROVE  SumFunction(f) <= f[c] + (Cardinality(S) - 1) * m
<1>1. PICK F : Sums(f, F, S)
  BY SumTableOf
<1>2. ASSUME NEW s \in SUBSET S
      PROVE  IsFiniteSet(s) /\ Cardinality(s) \in Nat
  BY FS_Subset, FS_CardinalityType
<1> DEFINE n(s) == Cardinality(s)
           Right(s) == F[s] <= IF c \in s THEN f[c] + (n(s) - 1) * m ELSE n(s) * m
           Bad == {s \in SUBSET S : ~Right(s)}
<1>3. Bad = {}
  <2>1. SUFFICES ASSUME NEW b \in Bad PROVE FALSE
    OBVIOUS
  <2>2. PICK s \in Bad : \A x \in s : s \ {x} \notin Bad
    BY LeastSubset, Zenon
  <2>3. s \in SUBSET S /\ s # {} /\ ~Right(s)
    <3>1. Right({})
      BY <1>1, FS_EmptySet DEF Sums
    <3>2. QED
      BY <3>1
  <2> DEFINE x == Pick(s)
             r == s \ {x}
  <2>4. x \in s /\ x \in S /\ r \in SUBSET S /\ Right(r)
    BY <2>2, <2>3, PickIn
  <2>5. F[s] = f[x] + F[r] /\ n(r) = n(s) - 1
    BY <1>1, <1>2, <2>3, <2>4, FS_RemoveElement DEF Sums
  <2>6. f[x] \in Int /\ f[c] \in Int /\ F[r] \in Int /\ n(s) \in Nat /\ n(r) \in Nat
    BY <1>1, <1>2, <2>4 DEF Sums
  <2>7. /\ (n(s) - 1) * m = n(r) * m
        /\ n(s) * m = n(r) * m + m
        /\ (n(r) - 1) * m = n(r) * m - m
        /\ n(r) * m \in Int
    BY <2>5, <2>6
  <2>8. CASE x = c
    <3>1. c \in s /\ c \notin r
      BY <2>4, <2>8
    <3> HIDE DEF x, r, n
    <3>2. F[r] <= n(r) * m /\ ~(F[s] <= f[c] + (n(s) - 1) * m)
      BY <2>3, <2>4, <3>1
    <3>3. QED
      BY <2>5, <2>6, <2>7, <2>8, <3>2
  <2>9. CASE x # c
    <3>1. (c \in s <=> c \in r) /\ f[x] <= m
      BY <2>4, <2>9
    <3> HIDE DEF x, r, n
    <3>2. CASE c \in s
      <4>1. F[r] <= f[c] + (n(r) - 1) * m /\ ~(F[s] <= f[c] + (n(s) - 1) * m)
        BY <2>3, <2>4, <3>1, <3>2
      <4>2. QED
        BY <2>5, <2>6, <2>7, <3>1, <4>1
    <3>3. CASE c \notin s
      <4>1. F[r] <= n(r) * m /\ ~(F[s] <= n(s) * m)
        BY <2>3, <2>4, <3>1, <3>3
      <4>2. QED
        BY <2>5, <2>6, <2>7, <3>1, <4>1
    <3>4. QED
      BY <3>2, <3>3
  <2>10. QED
    BY <2>8, <2>9
<1>4. Right(S)
  BY <1>3
<1>5. QED
  BY <1>1, <1>4 DEF Sums
=============================================================================
