-------------------------------- MODULE Sums --------------------------------
(* Induction on numbers and finite sets, with the set of cases for which a    *)
(* statement holds in place of the statement, and what it shows of            *)
(* SumFunctionOnSet (Functions.tla): sums do not depend on the order in which *)
(* the fold takes the elements.                                               *)
EXTENDS Integers, FiniteSets, Functions, FiniteSetTheorems, WellFoundedInduction, TLAPS

-----------------------------------------------------------------------------
(* Induction.                                                                 *)

LEMMA NatIsWellFounded == IsWellFoundedOn({p \in Nat \X Nat : p[1] < p[2]}, Nat)
  BY NatLessThanWellFounded DEF OpToRel

\* A non-empty set of natural numbers has a least element.
LEMMA LeastNumber ==
    ASSUME NEW S \in SUBSET Nat, S # {}
    PROVE  \E m \in S : \A n \in S : m <= n
  <1> DEFINE R == {p \in Nat \X Nat : p[1] < p[2]}
  <1>1. PICK m \in S : \A n \in S : ~(<<n, m>> \in R)
    <2>1. IsWellFoundedOn(R, Nat)
      BY NatIsWellFounded
    <2> HIDE DEF R
    <2> QED
      BY <2>1, WFMin
  <1>2. \A n \in S : m <= n
    <2> TAKE n \in S
    <2>1. n \in Nat /\ m \in Nat
      OBVIOUS
    <2>2. <<n, m>> \in Nat \X Nat /\ <<n, m>>[1] = n /\ <<n, m>>[2] = m
      BY <2>1
    <2>3. ~(n < m)
      BY <1>1, <2>2
    <2> QED
      BY <2>1, <2>3
  <1> QED
    BY <1>2

\* A set that has 0 and every successor has all natural numbers.
LEMMA Induction ==
    ASSUME NEW P, 0 \in P, \A n \in Nat : n \in P => n + 1 \in P
    PROVE  \A n \in Nat : n \in P
  <1> DEFINE S == Nat \ P
  <1>1. SUFFICES ASSUME S # {} PROVE FALSE
    OBVIOUS
  <1>2. S \in SUBSET Nat
    OBVIOUS
  <1>3. PICK m \in S : \A n \in S : m <= n
    <2> HIDE DEF S
    <2> QED
      BY <1>1, <1>2, LeastNumber
  <1>4. m \in Nat /\ m # 0
    OBVIOUS
  <1>5. m - 1 \in Nat /\ ~(m <= m - 1) /\ (m - 1) + 1 = m
    BY <1>4
  <1>6. m - 1 \in P
    BY <1>3, <1>5
  <1> QED
    BY <1>5, <1>6

\* Finite sets lose an element.
LEMMA OneLess ==
    ASSUME NEW S, IsFiniteSet(S), NEW T \in SUBSET S
    PROVE  /\ IsFiniteSet(T) /\ Cardinality(T) \in Nat
           /\ Cardinality(T) <= 0 => T = {}
           /\ \A x \in T : /\ IsFiniteSet(T \ {x}) /\ T \ {x} \in SUBSET S
                          /\ Cardinality(T \ {x}) = Cardinality(T) - 1
  <1>1. IsFiniteSet(T)
    BY FS_Subset
  <1>2. Cardinality(T) \in Nat
    BY <1>1, FS_CardinalityType
  <1>3. Cardinality(T) = 0 => T = {}
    BY <1>1, FS_EmptySet
  <1>4. \A x \in T : IsFiniteSet(T \ {x}) /\ Cardinality(T \ {x}) = Cardinality(T) - 1
    BY <1>1, FS_RemoveElement
  <1> QED
    BY <1>1, <1>2, <1>3, <1>4

\* A set of sets that has the empty one, and with each one the sets with one
\* more element of S, has S.
LEMMA SetInduction ==
    ASSUME NEW S, IsFiniteSet(S), NEW P, {} \in P,
           \A T \in SUBSET S : \A x \in S \ T : T \in P => T \cup {x} \in P
    PROVE  S \in P
  <1> DEFINE N == {n \in Nat : \A T \in SUBSET S : Cardinality(T) = n => T \in P}
  <1>1. 0 \in N
    <2>1. ASSUME NEW T \in SUBSET S, Cardinality(T) = 0
          PROVE  T \in P
      <3>1. T = {}
        BY <2>1, OneLess
      <3> QED
        BY <3>1
    <2> QED
      BY <2>1
  <1>2. ASSUME NEW n \in Nat, n \in N
        PROVE  n + 1 \in N
    <2> SUFFICES ASSUME NEW T \in SUBSET S, Cardinality(T) = n + 1
                 PROVE  T \in P
      OBVIOUS
    <2>1. T # {}
      <3>1. Cardinality(T) # 0
        OBVIOUS
      <3> QED
        BY <3>1, FS_EmptySet
    <2>2. PICK x \in T : TRUE
      BY <2>1
    <2>3. Cardinality(T \ {x}) = n
      <3>1. Cardinality(T \ {x}) = Cardinality(T) - 1
        BY OneLess
      <3> QED
        BY <3>1
    <2>4. T \ {x} \in P /\ T \ {x} \in SUBSET S /\ x \in S \ (T \ {x})
      BY <1>2, <2>3
    <2>5. (T \ {x}) \cup {x} \in P
      BY <2>4
    <2>6. (T \ {x}) \cup {x} = T
      OBVIOUS
    <2> QED
      BY <2>5, <2>6
  <1>3. \A n \in Nat : n \in N
    <2> HIDE DEF N
    <2> QED
      BY <1>1, <1>2, Induction
  <1>4. Cardinality(S) \in Nat /\ S \in SUBSET S
    BY FS_CardinalityType
  <1> QED
    BY <1>3, <1>4

-----------------------------------------------------------------------------
(* The fold behind SumFunctionOnSet.                                          *)

Pick(s) == CHOOSE x \in s : TRUE

IsIter(f, S, it) ==
    it = [s \in SUBSET S |-> IF s = {} THEN 0 ELSE f[Pick(s)] + it[s \ {Pick(s)}]]

\* The fold as far as sets of n elements.
Small(S, n) == {s \in SUBSET S : Cardinality(s) <= n}

IsIterTo(f, S, n, it) ==
    it = [s \in Small(S, n) |-> IF s = {} THEN 0 ELSE f[Pick(s)] + it[s \ {Pick(s)}]]

LEMMA SumDef ==
    ASSUME NEW f, NEW S
    PROVE  SumFunctionOnSet(f, S) = (CHOOSE it : IsIter(f, S, it))[S]
  BY DEF SumFunctionOnSet, FoldFunctionOnSet, MapThenFoldSet, IsIter, Pick

LEMMA PickLess ==
    ASSUME NEW S, IsFiniteSet(S), NEW s \in SUBSET S, s # {}
    PROVE  /\ Pick(s) \in s /\ s \ {Pick(s)} \in SUBSET S
           /\ Cardinality(s) \in Nat
           /\ Cardinality(s \ {Pick(s)}) = Cardinality(s) - 1
  <1>1. Pick(s) \in s
    BY DEF Pick
  <1> QED
    BY <1>1, OneLess

LEMMA IterExists ==
    ASSUME NEW f, NEW S, IsFiniteSet(S)
    PROVE  \E it : IsIter(f, S, it)
  <1> DEFINE N == {n \in Nat : \E it : IsIterTo(f, S, n, it)}
  <1>1. 0 \in N
    <2> DEFINE it == [s \in Small(S, 0) |-> 0]
    <2>1. \A s \in Small(S, 0) : s = {}
      BY OneLess DEF Small
    <2>2. IsIterTo(f, S, 0, it)
      BY <2>1 DEF IsIterTo
    <2> QED
      BY <2>2
  <1>2. ASSUME NEW n \in Nat, n \in N
        PROVE  n + 1 \in N
    <2>1. PICK it : IsIterTo(f, S, n, it)
      BY <1>2
    <2> DEFINE F(s, i) == IF s = {} THEN 0 ELSE f[Pick(s)] + i[s \ {Pick(s)}]
               more == [s \in Small(S, n + 1) |-> F(s, it)]
    <2>2. it = [s \in Small(S, n) |-> F(s, it)]
      BY <2>1 DEF IsIterTo
    <2>3. ASSUME NEW s \in Small(S, n + 1)
          PROVE  F(s, it) = F(s, more)
      <3>1. CASE s = {}
        BY <3>1
      <3>2. CASE s # {}
        <4> DEFINE t == s \ {Pick(s)}
        <4>1. t \in Small(S, n) /\ t \in Small(S, n + 1)
          <5>1. s \in SUBSET S /\ Cardinality(s) <= n + 1
            BY DEF Small
          <5>2. t \in SUBSET S /\ Cardinality(s) \in Nat /\ Cardinality(t) = Cardinality(s) - 1
            BY <3>2, <5>1, PickLess
          <5>3. Cardinality(t) <= n
            BY <5>1, <5>2
          <5>4. Cardinality(t) <= n + 1
            BY <5>1, <5>2
          <5> QED
            BY <5>2, <5>3, <5>4 DEF Small
        <4>2. more[t] = F(t, it)
          BY <4>1
        <4>3. it[t] = F(t, it)
          <5> HIDE DEF F, t
          <5> QED
            BY <2>2, <4>1
        <4> QED
          BY <3>2, <4>2, <4>3
      <3> QED
        BY <3>1, <3>2
    <2>4. more = [s \in Small(S, n + 1) |-> F(s, more)]
      <3> HIDE DEF F
      <3> QED
        BY <2>3
    <2>5. IsIterTo(f, S, n + 1, more)
      <3> HIDE DEF more
      <3> QED
        BY <2>4 DEF IsIterTo
    <2> QED
      BY <2>5
  <1>3. \A n \in Nat : n \in N
    <2> HIDE DEF N
    <2> QED
      BY <1>1, <1>2, Induction
  <1>4. Cardinality(S) \in Nat
    BY FS_CardinalityType
  <1>5. PICK it : IsIterTo(f, S, Cardinality(S), it)
    BY <1>3, <1>4
  <1>6. Small(S, Cardinality(S)) = SUBSET S
    BY FS_Subset DEF Small
  <1> QED
    BY <1>5, <1>6 DEF IsIter, IsIterTo

LEMMA IterIsUnique ==
    ASSUME NEW f, NEW S, IsFiniteSet(S), NEW T \in SUBSET S,
           NEW it, IsIter(f, S, it), NEW jt, IsIter(f, T, jt)
    PROVE  it[T] = jt[T]
  <1> DEFINE N == {n \in Nat : \A t \in SUBSET T : Cardinality(t) = n => it[t] = jt[t]}
  <1>0. \A s \in SUBSET S :
            it[s] = IF s = {} THEN 0 ELSE f[Pick(s)] + it[s \ {Pick(s)}]
    BY Zenon DEF IsIter
  <1>1. \A s \in SUBSET T :
            jt[s] = IF s = {} THEN 0 ELSE f[Pick(s)] + jt[s \ {Pick(s)}]
    BY Zenon DEF IsIter
  <1>2. IsFiniteSet(T)
    BY FS_Subset
  <1>3. 0 \in N
    <2> SUFFICES ASSUME NEW t \in SUBSET T, Cardinality(t) = 0 PROVE it[t] = jt[t]
      OBVIOUS
    <2>1. t = {}
      BY <1>2, OneLess
    <2> QED
      BY <1>0, <1>1, <2>1
  <1>4. ASSUME NEW n \in Nat, n \in N
        PROVE  n + 1 \in N
    <2> SUFFICES ASSUME NEW t \in SUBSET T, Cardinality(t) = n + 1
                 PROVE  it[t] = jt[t]
      OBVIOUS
    <2>1. t # {}
      BY FS_EmptySet
    <2>2. t \ {Pick(t)} \in SUBSET T /\ Cardinality(t \ {Pick(t)}) = n
      <3>1. t \ {Pick(t)} \in SUBSET T /\ Cardinality(t \ {Pick(t)}) = Cardinality(t) - 1
        BY <1>2, <2>1, PickLess
      <3> QED
        BY <3>1
    <2>3. it[t \ {Pick(t)}] = jt[t \ {Pick(t)}]
      BY <1>4, <2>2
    <2> QED
      BY <1>0, <1>1, <2>1, <2>3
  <1>5. \A n \in Nat : n \in N
    <2> HIDE DEF N
    <2> QED
      BY <1>3, <1>4, Induction
  <1> QED
    BY <1>2, <1>5, FS_CardinalityType

LEMMA SumUnfold ==
    ASSUME NEW f, NEW S, IsFiniteSet(S), S # {}
    PROVE  SumFunctionOnSet(f, S) = f[Pick(S)] + SumFunctionOnSet(f, S \ {Pick(S)})
  <1> DEFINE T == S \ {Pick(S)}
             it == CHOOSE i : IsIter(f, S, i)
             jt == CHOOSE i : IsIter(f, T, i)
  <1>1. IsFiniteSet(T) /\ T \in SUBSET S
    BY FS_Subset
  <1>2. IsIter(f, S, it)
    BY IterExists
  <1>3. IsIter(f, T, jt)
    <2> HIDE DEF T
    <2> QED
      BY <1>1, IterExists
  <1>4. it[T] = jt[T]
    <2> HIDE DEF T, it, jt
    <2> QED
      BY <1>1, <1>2, <1>3, IterIsUnique
  <1>5. it[S] = f[Pick(S)] + it[T]
    <2> HIDE DEF it
    <2> QED
      BY <1>2 DEF IsIter
  <1> QED
    BY <1>4, <1>5, SumDef

LEMMA SumOfNothing == ASSUME NEW f PROVE SumFunctionOnSet(f, {}) = 0
  <1> DEFINE it == CHOOSE i : IsIter(f, {}, i)
  <1>1. IsIter(f, {}, it)
    BY IterExists, FS_EmptySet
  <1>2. it[{}] = 0
    <2> HIDE DEF it
    <2> QED
      BY <1>1 DEF IsIter
  <1> QED
    BY <1>2, SumDef

-----------------------------------------------------------------------------
(* Sums.                                                                      *)

\* A sum of integers is an integer, whichever element is counted first.
LEMMA SumTakes ==
    ASSUME NEW f, NEW S, IsFiniteSet(S), \A x \in S : f[x] \in Int
    PROVE  /\ SumFunctionOnSet(f, S) \in Int
           /\ \A x \in S :
                 SumFunctionOnSet(f, S) = f[x] + SumFunctionOnSet(f, S \ {x})
  <1> DEFINE Sum(s) == SumFunctionOnSet(f, s)
             Good(s) == Sum(s) \in Int /\ \A x \in s : Sum(s) = f[x] + Sum(s \ {x})
             N == {n \in Nat : \A s \in SUBSET S : Cardinality(s) <= n => Good(s)}
  <1>1. 0 \in N
    <2> SUFFICES ASSUME NEW s \in SUBSET S, Cardinality(s) <= 0 PROVE Good(s)
      OBVIOUS
    <2>1. s = {}
      BY OneLess
    <2> QED
      BY <2>1, SumOfNothing
  <1>2. ASSUME NEW n \in Nat, n \in N
        PROVE  n + 1 \in N
    <2> SUFFICES ASSUME NEW s \in SUBSET S, Cardinality(s) <= n + 1
                 PROVE  Good(s)
      OBVIOUS
    <2>1. CASE s = {}
      BY <2>1, SumOfNothing
    <2>2. CASE s # {}
      <3>1. Cardinality(s) \in Nat
            /\ \A x \in s : /\ s \ {x} \in SUBSET S
                           /\ Cardinality(s \ {x}) = Cardinality(s) - 1
        BY OneLess
      <3>2. ASSUME NEW t \in SUBSET S, Cardinality(t) <= n
            PROVE  Good(t)
        BY <1>2, <3>2
      <3>3. ASSUME NEW x \in s
            PROVE  Good(s \ {x}) /\ \A y \in s \ {x} : Good((s \ {x}) \ {y})
        <4> DEFINE t == s \ {x}
        <4>1. t \in SUBSET S /\ Cardinality(t) \in Nat /\ Cardinality(t) <= n
          <5>1. t \in SUBSET S /\ Cardinality(t) = Cardinality(s) - 1
            BY <3>1
          <5>2. Cardinality(t) \in Nat
            BY <5>1, OneLess
          <5> HIDE DEF t
          <5> QED
            BY <3>1, <5>1, <5>2
        <4>2. ASSUME NEW y \in t
              PROVE  t \ {y} \in SUBSET S /\ Cardinality(t \ {y}) <= n
          <5>1. t \ {y} \in SUBSET S /\ Cardinality(t \ {y}) = Cardinality(t) - 1
            <6>1. y \in t
              BY <4>2
            <6> HIDE DEF t
            <6> QED
              BY <4>1, <6>1, OneLess
          <5> HIDE DEF t
          <5> QED
            BY <4>1, <5>1
        <4> HIDE DEF Good
        <4>3. Good(t) /\ \A y \in t : Good(t \ {y})
          BY <3>2, <4>1, <4>2
        <4> QED
          BY <4>3
      <3> DEFINE p == Pick(s)
      <3>4. p \in s /\ Sum(s) = f[p] + Sum(s \ {p})
        BY <2>2, OneLess, SumUnfold DEF Pick
      <3>5. Sum(s) \in Int
        BY <3>3, <3>4
      <3>6. ASSUME NEW x \in s, x # p
            PROVE  Sum(s) = f[x] + Sum(s \ {x})
        <4> DEFINE rest == (s \ {p}) \ {x}
        <4>1. Sum(s \ {p}) = f[x] + Sum(rest)
          BY <3>3, <3>4, <3>6
        <4>2. (s \ {x}) \ {p} = rest
          OBVIOUS
        <4>3. Sum(s \ {x}) = f[p] + Sum(rest)
          BY <3>3, <3>4, <3>6, <4>2
        <4>4. Sum(rest) \in Int /\ f[x] \in Int /\ f[p] \in Int
          BY <3>3, <3>4, <3>6
        <4> HIDE DEF Sum, p, rest
        <4> QED
          BY <3>4, <4>1, <4>3, <4>4
      <3> QED
        BY <3>4, <3>5, <3>6
    <2> QED
      BY <2>1, <2>2
  <1>3. \A n \in Nat : n \in N
    <2> HIDE DEF N
    <2> QED
      BY <1>1, <1>2, Induction
  <1>4. Good(S)
    <2>1. Cardinality(S) \in Nat /\ Cardinality(S) <= Cardinality(S)
      BY FS_CardinalityType
    <2> HIDE DEF Good
    <2> QED
      BY <1>3, <2>1
  <1> QED
    BY <1>4

\* A sum of zeros is zero.
LEMMA SumOfZeros ==
    ASSUME NEW f, NEW S, IsFiniteSet(S), \A x \in S : f[x] = 0
    PROVE  SumFunctionOnSet(f, S) = 0
  <1> DEFINE P == {T \in SUBSET S : SumFunctionOnSet(f, T) = 0}
  <1>1. {} \in P
    BY SumOfNothing
  <1>2. ASSUME NEW T \in SUBSET S, NEW x \in S \ T, T \in P
        PROVE  T \cup {x} \in P
    <2>1. IsFiniteSet(T \cup {x}) /\ (T \cup {x}) \ {x} = T
      BY FS_Subset, FS_AddElement
    <2>2. SumFunctionOnSet(f, T \cup {x}) = f[x] + SumFunctionOnSet(f, T)
      BY <2>1, SumTakes
    <2> QED
      BY <1>2, <2>2
  <1>3. S \in P
    <2> HIDE DEF P
    <2> QED
      BY <1>1, <1>2, SetInduction
  <1> QED
    BY <1>3

\* Sums of the same numbers are the same.
LEMMA SumAgrees ==
    ASSUME NEW f, NEW g, NEW S, IsFiniteSet(S),
           \A x \in S : f[x] \in Int /\ g[x] = f[x]
    PROVE  SumFunctionOnSet(g, S) = SumFunctionOnSet(f, S)
  <1> DEFINE P == {T \in SUBSET S : SumFunctionOnSet(g, T) = SumFunctionOnSet(f, T)}
  <1>1. {} \in P
    BY SumOfNothing
  <1>2. ASSUME NEW T \in SUBSET S, NEW x \in S \ T, T \in P
        PROVE  T \cup {x} \in P
    <2>1. IsFiniteSet(T \cup {x}) /\ (T \cup {x}) \ {x} = T
      BY FS_Subset, FS_AddElement
    <2>2. SumFunctionOnSet(g, T \cup {x}) = g[x] + SumFunctionOnSet(g, T)
      BY <2>1, SumTakes
    <2>3. SumFunctionOnSet(f, T \cup {x}) = f[x] + SumFunctionOnSet(f, T)
      BY <2>1, SumTakes
    <2> QED
      BY <1>2, <2>2, <2>3
  <1>3. S \in P
    <2> HIDE DEF P
    <2> QED
      BY <1>1, <1>2, SetInduction
  <1> QED
    BY <1>3

\* What is taken out of a sum is the sum of what is taken out.
LEMMA SumSplits ==
    ASSUME NEW f, NEW S, IsFiniteSet(S), \A x \in S : f[x] \in Int,
           NEW T \in SUBSET S
    PROVE  SumFunctionOnSet(f, S) = SumFunctionOnSet(f, T) + SumFunctionOnSet(f, S \ T)
  <1> DEFINE Sum(U) == SumFunctionOnSet(f, U)
             P == {U \in SUBSET S : Sum(S) = Sum(U) + Sum(S \ U)}
  <1>1. \A U \in SUBSET S : /\ IsFiniteSet(U) /\ Sum(U) \in Int
                            /\ \A x \in U : Sum(U) = f[x] + Sum(U \ {x})
    <2> TAKE U \in SUBSET S
    <2>1. IsFiniteSet(U)
      BY FS_Subset
    <2> QED
      BY <2>1, SumTakes
  <1>2. {} \in P
    <2>1. Sum({}) = 0 /\ S \ {} = S /\ S \in SUBSET S
      BY SumOfNothing
    <2> HIDE DEF Sum
    <2> QED
      BY <1>1, <2>1
  <1>3. ASSUME NEW U \in SUBSET T, NEW x \in T \ U, U \in P
        PROVE  U \cup {x} \in P
    <2> DEFINE V == U \cup {x}
               W == S \ U
    <2>1. /\ V \in SUBSET S /\ W \in SUBSET S /\ x \in V /\ x \in W /\ x \in S
          /\ V \ {x} = U /\ W \ {x} = S \ V /\ S \ V \in SUBSET S
      OBVIOUS
    <2>2. Sum(S) = Sum(U) + Sum(W)
      BY <1>3
    <2> HIDE DEF Sum, V, W
    <2>3. Sum(V) = f[x] + Sum(U) /\ Sum(W) = f[x] + Sum(S \ V)
      BY <1>1, <2>1
    <2>4. Sum(U) \in Int /\ Sum(S \ V) \in Int /\ f[x] \in Int
      BY <1>1, <1>3, <2>1
    <2>5. Sum(S) = Sum(V) + Sum(S \ V)
      BY <2>2, <2>3, <2>4
    <2> QED
      BY <2>1, <2>5 DEF V
  <1>4. T \in P
    <2>1. IsFiniteSet(T)
      BY <1>1
    <2> HIDE DEF P
    <2> QED
      BY <1>2, <1>3, <2>1, SetInduction
  <1> QED
    BY <1>4

\* A sum of natural numbers is one, and no less than any of them.
LEMMA SumOfNaturals ==
    ASSUME NEW f, NEW S, IsFiniteSet(S), \A x \in S : f[x] \in Nat
    PROVE  /\ SumFunctionOnSet(f, S) \in Nat
           /\ \A x \in S : f[x] <= SumFunctionOnSet(f, S)
  <1> DEFINE P == {T \in SUBSET S : SumFunctionOnSet(f, T) \in Nat}
  <1>1. {} \in P
    BY SumOfNothing
  <1>2. ASSUME NEW T \in SUBSET S, NEW x \in S \ T, T \in P
        PROVE  T \cup {x} \in P
    <2>1. IsFiniteSet(T \cup {x}) /\ (T \cup {x}) \ {x} = T
      BY FS_Subset, FS_AddElement
    <2>2. SumFunctionOnSet(f, T \cup {x}) = f[x] + SumFunctionOnSet(f, T)
      BY <2>1, SumTakes
    <2> QED
      BY <1>2, <2>2
  <1>3. ASSUME NEW T \in SUBSET S PROVE SumFunctionOnSet(f, T) \in Nat
    <2>1. T \in P
      <3>1. IsFiniteSet(T) /\ \A U \in SUBSET T : \A x \in T \ U : U \in P => U \cup {x} \in P
        BY <1>2, FS_Subset
      <3> HIDE DEF P
      <3> QED
        BY <1>1, <3>1, SetInduction
    <2> QED
      BY <2>1
  <1>4. ASSUME NEW x \in S PROVE f[x] <= SumFunctionOnSet(f, S)
    <2>1. SumFunctionOnSet(f, S) = f[x] + SumFunctionOnSet(f, S \ {x})
      BY SumTakes
    <2>2. SumFunctionOnSet(f, S \ {x}) \in Nat
      BY <1>3
    <2> QED
      BY <2>1, <2>2
  <1> QED
    BY <1>3, <1>4

\* One number changes.
LEMMA SumChanges ==
    ASSUME NEW f, NEW g, NEW S, IsFiniteSet(S), NEW x \in S,
           \A y \in S : f[y] \in Int /\ g[y] \in Int /\ (y # x => g[y] = f[y])
    PROVE  SumFunctionOnSet(g, S) = SumFunctionOnSet(f, S) - f[x] + g[x]
  <1>1. /\ SumFunctionOnSet(f, S) = f[x] + SumFunctionOnSet(f, S \ {x})
        /\ SumFunctionOnSet(g, S) = g[x] + SumFunctionOnSet(g, S \ {x})
    BY SumTakes
  <1>2. IsFiniteSet(S \ {x})
    BY FS_Subset
  <1>3. SumFunctionOnSet(g, S \ {x}) = SumFunctionOnSet(f, S \ {x})
    BY <1>2, SumAgrees
  <1>4. SumFunctionOnSet(f, S \ {x}) \in Int
    BY <1>2, SumTakes
  <1> QED
    BY <1>1, <1>3, <1>4

\* A function takes no more values than it has arguments.
LEMMA ImageIsNoLarger ==
    ASSUME NEW f, NEW D, IsFiniteSet(D)
    PROVE  /\ IsFiniteSet({f[i] : i \in D})
           /\ Cardinality({f[i] : i \in D}) <= Cardinality(D)
  <1> DEFINE T == {f[i] : i \in D}
             g == [i \in D |-> f[i]]
  <1>1. g \in Surjection(D, T)
    BY DEF Surjection
  <1> HIDE DEF g, T
  <1>2. IsFiniteSet(T) /\ Cardinality(T) <= Cardinality(D)
    BY <1>1, FS_Surjection
  <1> QED
    BY <1>2 DEF T
=============================================================================
