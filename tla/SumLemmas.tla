------------------------------- MODULE SumLemmas -------------------------------
(***************************************************************************)
(* Induction over numbers and over the subsets of a finite set, and what   *)
(* the sum of a function over a finite set is.  The library's induction    *)
(* theorems take an operator; these take a set, which the provers can      *)
(* instantiate.                                                            *)
(***************************************************************************)
EXTENDS Integers, FiniteSets, Functions, FiniteSetTheorems, WellFoundedInduction, TLAPS

\* A set of numbers that has 0 and the successor of each of its members is Nat.
LEMMA NumberInduction ==
  ASSUME NEW N \in SUBSET Nat, 0 \in N, \A n \in N : n + 1 \in N
  PROVE  N = Nat
  <1> DEFINE R == {ss \in Nat \X Nat : ss[1] < ss[2]}
             T == Nat \ N
  <1> SUFFICES ASSUME T # {} PROVE FALSE
    OBVIOUS
  <1>1. IsWellFoundedOn(R, Nat)
    BY NatLessThanWellFounded, Zenon DEF OpToRel
  <1>2. PICK m \in T : \A n \in T : ~(<<n, m>> \in R)
    <2>1. T \subseteq Nat /\ T # {}
      OBVIOUS
    <2> HIDE DEF T, R
    <2> QED BY <1>1, <2>1, WFMin
  <1>3. m \in Nat /\ m # 0 /\ m \notin N
    OBVIOUS
  <1>4. m - 1 \in Nat /\ (m - 1) + 1 = m
    BY <1>3
  <1>5. m - 1 \notin T
    <2> SUFFICES ASSUME m - 1 \in T PROVE FALSE
      OBVIOUS
    <2>1. ~(<<m - 1, m>> \in R)
      BY <1>2
    <2>2. <<m - 1, m>> \in Nat \X Nat /\ m - 1 < m
      BY <1>3, <1>4
    <2> QED BY <2>1, <2>2
  <1> QED BY <1>3, <1>4, <1>5

\* The member a sum takes off a set first.
Pick(s) == CHOOSE x \in s : TRUE

\* What is left is smaller.
LEMMA PickLess ==
  ASSUME NEW s, IsFiniteSet(s), s # {}
  PROVE  /\ Pick(s) \in s /\ IsFiniteSet(s \ {Pick(s)})
         /\ Cardinality(s) \in Nat /\ Cardinality(s \ {Pick(s)}) = Cardinality(s) - 1
  <1>1. Pick(s) \in s
    BY DEF Pick
  <1> QED BY <1>1, FS_CardinalityType, FS_RemoveElement

Sized(S, n) == {s \in SUBSET S : Cardinality(s) <= n}

\* A set of subsets of a finite set that has the empty one, and each of which
\* it has what is left of it, has all of them.
LEMMA SubsetInduction ==
  ASSUME NEW S, IsFiniteSet(S), NEW B \in SUBSET SUBSET S, {} \in B,
         \A s \in SUBSET S : s # {} /\ s \ {Pick(s)} \in B => s \in B
  PROVE  B = SUBSET S
  <1> DEFINE N == {n \in Nat : Sized(S, n) \subseteq B}
  <1>0. \A s \in SUBSET S : IsFiniteSet(s) /\ Cardinality(s) \in Nat
    BY FS_Subset, FS_CardinalityType
  <1>1. 0 \in N
    <2> SUFFICES ASSUME NEW s \in SUBSET S, Cardinality(s) <= 0 PROVE s \in B
      BY DEF Sized
    <2>1. Cardinality(s) = 0
      BY <1>0
    <2>2. s = {}
      BY <1>0, <2>1, FS_EmptySet
    <2> QED BY <2>2
  <1>2. ASSUME NEW n \in N PROVE n + 1 \in N
    <2> SUFFICES ASSUME NEW s \in SUBSET S, Cardinality(s) <= n + 1 PROVE s \in B
      BY DEF Sized
    <2>1. CASE s = {}
      BY <2>1
    <2>2. CASE s # {}
      <3>1. /\ s \ {Pick(s)} \in SUBSET S
            /\ Cardinality(s) \in Nat /\ Cardinality(s \ {Pick(s)}) = Cardinality(s) - 1
        BY <1>0, <2>2, PickLess
      <3>2. Cardinality(s \ {Pick(s)}) <= n
        BY <3>1
      <3>3. s \ {Pick(s)} \in B
        BY <3>1, <3>2 DEF Sized
      <3> QED BY <2>2, <3>3
    <2> QED BY <2>1, <2>2
  <1>3. N = Nat
    <2>1. N \in SUBSET Nat
      OBVIOUS
    <2> HIDE DEF N
    <2> QED BY <1>1, <1>2, <2>1, NumberInduction
  <1>4. ASSUME NEW s \in SUBSET S PROVE s \in B
    <2>1. Cardinality(s) \in N
      BY <1>0, <1>3
    <2> QED BY <1>0, <2>1 DEF Sized
  <1> QED BY <1>4

\* Sum as the recursive function its library definition makes: from the empty
\* set up.
Step(f, g, s) == IF s = {} THEN 0 ELSE f[Pick(s)] + g[s \ {Pick(s)}]
Iterates(f, D, g) == g = [s \in D |-> Step(f, g, s)]
Partial(f, S, s) == (CHOOSE g : Iterates(f, SUBSET S, g))[s]

LEMMA SumIsPartial == ASSUME NEW f, NEW S PROVE SumFunctionOnSet(f, S) = Partial(f, S, S)
  BY DEF SumFunctionOnSet, FoldFunctionOnSet, MapThenFoldSet, Partial, Iterates, Step, Pick

LEMMA IteratesExists ==
  ASSUME NEW f, NEW S, IsFiniteSet(S)
  PROVE  \E g : Iterates(f, SUBSET S, g)
  <1> DEFINE N == {n \in Nat : \E g : Iterates(f, Sized(S, n), g)}
  <1>0. \A s \in SUBSET S : IsFiniteSet(s) /\ Cardinality(s) \in Nat
    BY FS_Subset, FS_CardinalityType
  <1>1. 0 \in N
    <2> DEFINE g == [s \in Sized(S, 0) |-> 0]
    <2>1. ASSUME NEW s \in Sized(S, 0) PROVE s = {}
      <3>1. Cardinality(s) = 0 /\ IsFiniteSet(s)
        BY <1>0 DEF Sized
      <3> QED BY <3>1, FS_EmptySet
    <2>2. g = [s \in Sized(S, 0) |-> Step(f, g, s)]
      BY <2>1 DEF Step
    <2> QED BY <2>2 DEF Iterates
  <1>2. ASSUME NEW n \in N PROVE n + 1 \in N
    <2>1. PICK g : g = [s \in Sized(S, n) |-> Step(f, g, s)]
      BY DEF Iterates
    <2> DEFINE h == [s \in Sized(S, n + 1) |-> Step(f, g, s)]
    <2>2. ASSUME NEW s \in Sized(S, n + 1), s # {}
          PROVE  s \ {Pick(s)} \in Sized(S, n) /\ s \ {Pick(s)} \in Sized(S, n + 1)
      <3>1. /\ s \ {Pick(s)} \in SUBSET S
            /\ Cardinality(s) \in Nat /\ Cardinality(s \ {Pick(s)}) = Cardinality(s) - 1
            /\ Cardinality(s) <= n + 1
        BY <1>0, <2>2, PickLess DEF Sized
      <3> QED BY <3>1 DEF Sized
    <2>3. ASSUME NEW t \in Sized(S, n), t \in Sized(S, n + 1) PROVE h[t] = g[t]
      BY <2>1, <2>3
    <2>4. ASSUME NEW s \in Sized(S, n + 1) PROVE Step(f, g, s) = Step(f, h, s)
      <3>1. CASE s = {}
        BY <3>1 DEF Step
      <3>2. CASE s # {}
        <4>1. h[s \ {Pick(s)}] = g[s \ {Pick(s)}]
          BY <2>2, <2>3, <3>2
        <4> HIDE DEF h
        <4> QED BY <3>2, <4>1 DEF Step
      <3> QED BY <3>1, <3>2
    <2>5. Iterates(f, Sized(S, n + 1), h)
      BY <2>4 DEF Iterates
    <2> QED BY <2>5
  <1>3. N = Nat
    <2>1. N \in SUBSET Nat
      OBVIOUS
    <2> HIDE DEF N
    <2> QED BY <1>1, <1>2, <2>1, NumberInduction
  <1>4. Sized(S, Cardinality(S)) = SUBSET S
    <2>1. \A s \in SUBSET S : Cardinality(s) <= Cardinality(S)
      BY FS_Subset
    <2> QED BY <2>1 DEF Sized
  <1>5. Cardinality(S) \in N
    BY <1>3, FS_CardinalityType
  <1>6. PICK g : Iterates(f, Sized(S, Cardinality(S)), g)
    BY <1>5
  <1> QED BY <1>4, <1>6

LEMMA PartialStep ==
  ASSUME NEW f, NEW S, IsFiniteSet(S), NEW s \in SUBSET S
  PROVE  Partial(f, S, s) = IF s = {} THEN 0 ELSE f[Pick(s)] + Partial(f, S, s \ {Pick(s)})
  <1> DEFINE g == CHOOSE g : Iterates(f, SUBSET S, g)
  <1>1. g = [t \in SUBSET S |-> Step(f, g, t)]
    BY IteratesExists DEF Iterates
  <1> HIDE DEF g
  <1>2. g[s] = Step(f, g, s)
    BY <1>1
  <1> QED BY <1>2 DEF g, Step, Partial

\* Sums are of numbers, add up, and depend on the members only.
LEMMA SumOfNumbers ==
  ASSUME NEW f, NEW S, IsFiniteSet(S), \A x \in S : f[x] \in Nat
  PROVE  SumFunctionOnSet(f, S) \in Nat
  <1> DEFINE B == {s \in SUBSET S : Partial(f, S, s) \in Nat}
  <1>1. {} \in B
    <2>1. {} \in SUBSET S
      OBVIOUS
    <2>2. \A e : Partial(e, S, {}) = 0
      BY <2>1, PartialStep
    <2> QED BY <2>2
  <1>2. ASSUME NEW s \in SUBSET S, s # {}, s \ {Pick(s)} \in B PROVE s \in B
    <2>1. Pick(s) \in S
      BY <1>2 DEF Pick
    <2>2. f[Pick(s)] \in Nat
      BY <2>1
    <2> QED BY <1>2, <2>2, PartialStep
  <1>3. B = SUBSET S
    <2>1. B \in SUBSET SUBSET S
      OBVIOUS
    <2> HIDE DEF B
    <2> QED BY <1>1, <1>2, <2>1, SubsetInduction
  <1> QED BY <1>3, SumIsPartial

LEMMA SumAdds ==
  ASSUME NEW f, NEW g, NEW h, NEW S, IsFiniteSet(S),
         \A x \in S : f[x] \in Int /\ g[x] \in Int /\ h[x] = f[x] + g[x]
  PROVE  /\ SumFunctionOnSet(f, S) \in Int /\ SumFunctionOnSet(g, S) \in Int
         /\ SumFunctionOnSet(h, S) = SumFunctionOnSet(f, S) + SumFunctionOnSet(g, S)
  <1> DEFINE B == {s \in SUBSET S : /\ Partial(f, S, s) \in Int /\ Partial(g, S, s) \in Int
                                    /\ Partial(h, S, s) = Partial(f, S, s) + Partial(g, S, s)}
  <1>1. {} \in B
    <2>1. {} \in SUBSET S
      OBVIOUS
    <2>2. \A e : Partial(e, S, {}) = 0
      BY <2>1, PartialStep
    <2> QED BY <2>2
  <1>2. ASSUME NEW s \in SUBSET S, s # {}, s \ {Pick(s)} \in B PROVE s \in B
    <2> DEFINE x == Pick(s)
               t == s \ {x}
    <2>1. x \in S
      BY <1>2 DEF Pick
    <2>2. f[x] \in Int /\ g[x] \in Int /\ h[x] = f[x] + g[x]
      BY <2>1
    <2>3. /\ Partial(f, S, s) = f[x] + Partial(f, S, t)
          /\ Partial(g, S, s) = g[x] + Partial(g, S, t)
          /\ Partial(h, S, s) = h[x] + Partial(h, S, t)
      BY <1>2, PartialStep
    <2>4. /\ Partial(f, S, t) \in Int /\ Partial(g, S, t) \in Int
          /\ Partial(h, S, t) = Partial(f, S, t) + Partial(g, S, t)
      BY <1>2
    <2> HIDE DEF x, t
    <2>5. /\ Partial(f, S, s) \in Int /\ Partial(g, S, s) \in Int
          /\ Partial(h, S, s) = Partial(f, S, s) + Partial(g, S, s)
      BY <2>2, <2>3, <2>4
    <2> QED BY <2>5
  <1>3. B = SUBSET S
    <2>1. B \in SUBSET SUBSET S
      OBVIOUS
    <2> HIDE DEF B
    <2> QED BY <1>1, <1>2, <2>1, SubsetInduction
  <1> QED BY <1>3, SumIsPartial

\* A sum over part of a set is the sum over that part.
LEMMA PartialIsSum ==
  ASSUME NEW f, NEW S, IsFiniteSet(S), NEW s \in SUBSET S
  PROVE  Partial(f, S, s) = SumFunctionOnSet(f, s)
  <1> DEFINE B == {t \in SUBSET s : Partial(f, S, t) = Partial(f, s, t)}
  <1>0. IsFiniteSet(s)
    BY FS_Subset
  <1>1. {} \in B
    BY <1>0, PartialStep
  <1>2. ASSUME NEW t \in SUBSET s, t # {}, t \ {Pick(t)} \in B PROVE t \in B
    <2>1. t \in SUBSET S
      OBVIOUS
    <2>2. Partial(f, S, t) = f[Pick(t)] + Partial(f, S, t \ {Pick(t)})
      BY <1>2, <2>1, PartialStep
    <2>3. Partial(f, s, t) = f[Pick(t)] + Partial(f, s, t \ {Pick(t)})
      BY <1>0, <1>2, PartialStep
    <2> QED BY <1>2, <2>2, <2>3
  <1>3. B = SUBSET s
    <2>1. B \in SUBSET SUBSET s
      OBVIOUS
    <2> HIDE DEF B
    <2> QED BY <1>0, <1>1, <1>2, <2>1, SubsetInduction
  <1> QED BY <1>3, SumIsPartial

LEMMA SumStep ==
  ASSUME NEW f, NEW S, IsFiniteSet(S), S # {}
  PROVE  SumFunctionOnSet(f, S) = f[Pick(S)] + SumFunctionOnSet(f, S \ {Pick(S)})
  <1>1. S \ {Pick(S)} \in SUBSET S
    OBVIOUS
  <1>2. Partial(f, S, S) = f[Pick(S)] + Partial(f, S, S \ {Pick(S)})
    BY PartialStep
  <1> QED BY <1>1, <1>2, PartialIsSum, SumIsPartial

LEMMA SumOfNone == ASSUME NEW f PROVE SumFunctionOnSet(f, {}) = 0
  <1>1. IsFiniteSet({}) /\ {} \in SUBSET {}
    BY FS_EmptySet
  <1>2. Partial(f, {}, {}) = 0
    BY <1>1, PartialStep
  <1> QED BY <1>2, SumIsPartial

\* Any member may be taken off first.
LEMMA SumWithout ==
  ASSUME NEW f, NEW S, IsFiniteSet(S), \A y \in S : f[y] \in Nat, NEW x \in S
  PROVE  SumFunctionOnSet(f, S) = f[x] + SumFunctionOnSet(f, S \ {x})
  <1> DEFINE Splits(s) == \A z \in s : SumFunctionOnSet(f, s) = f[z] + SumFunctionOnSet(f, s \ {z})
             N == {n \in Nat : \A s \in Sized(S, n) : Splits(s)}
  <1>0. \A s \in SUBSET S : /\ IsFiniteSet(s) /\ Cardinality(s) \in Nat
                            /\ SumFunctionOnSet(f, s) \in Nat
    <2> SUFFICES ASSUME NEW s \in SUBSET S
                 PROVE  IsFiniteSet(s) /\ Cardinality(s) \in Nat /\ SumFunctionOnSet(f, s) \in Nat
      OBVIOUS
    <2>1. IsFiniteSet(s) /\ Cardinality(s) \in Nat
      BY FS_Subset, FS_CardinalityType
    <2>2. \A y \in s : f[y] \in Nat
      OBVIOUS
    <2> QED BY <2>1, <2>2, SumOfNumbers
  <1>1. 0 \in N
    <2> SUFFICES ASSUME NEW s \in Sized(S, 0) PROVE Splits(s)
      OBVIOUS
    <2>1. Cardinality(s) = 0 /\ IsFiniteSet(s)
      BY <1>0 DEF Sized
    <2>2. s = {}
      BY <2>1, FS_EmptySet
    <2> QED BY <2>2
  <1>2. ASSUME NEW n \in N PROVE n + 1 \in N
    <2> SUFFICES ASSUME NEW s \in Sized(S, n + 1), NEW z \in s
                 PROVE  SumFunctionOnSet(f, s) = f[z] + SumFunctionOnSet(f, s \ {z})
      OBVIOUS
    <2>0. s \in SUBSET S /\ IsFiniteSet(s) /\ Cardinality(s) <= n + 1
      BY <1>0 DEF Sized
    <2> DEFINE y == Pick(s)
    <2>1. SumFunctionOnSet(f, s) = f[y] + SumFunctionOnSet(f, s \ {y})
      BY <2>0, SumStep
    <2>2. y \in s
      BY DEF Pick
    <2> HIDE DEF y
    <2>3. CASE z = y
      BY <2>1, <2>3
    <2>4. CASE z # y
      <3> DEFINE t == (s \ {y}) \ {z}
      <3>1. \A v \in s : s \ {v} \in Sized(S, n)
        <4> TAKE v \in s
        <4>1. Cardinality(s) \in Nat /\ Cardinality(s \ {v}) = Cardinality(s) - 1
          BY <2>0, FS_CardinalityType, FS_RemoveElement
        <4> QED BY <2>0, <4>1 DEF Sized
      <3>2. \A v \in s : Splits(s \ {v})
        BY <3>1
      <3>3. SumFunctionOnSet(f, s \ {y}) = f[z] + SumFunctionOnSet(f, t)
        BY <2>2, <2>4, <3>2
      <3>4. (s \ {z}) \ {y} = t
        OBVIOUS
      <3>5. SumFunctionOnSet(f, s \ {z}) = f[y] + SumFunctionOnSet(f, t)
        BY <2>2, <2>4, <3>2, <3>4
      <3>6. SumFunctionOnSet(f, t) \in Nat /\ f[y] \in Nat /\ f[z] \in Nat
        BY <1>0, <2>0, <2>2
      <3> HIDE DEF t
      <3> QED BY <2>1, <3>3, <3>5, <3>6
    <2> QED BY <2>3, <2>4
  <1>3. N = Nat
    <2>1. N \in SUBSET Nat
      OBVIOUS
    <2> HIDE DEF N
    <2> QED BY <1>1, <1>2, <2>1, NumberInduction
  <1>4. S \in Sized(S, Cardinality(S)) /\ Cardinality(S) \in N
    BY <1>0, <1>3 DEF Sized
  <1>5. Splits(S)
    BY <1>4
  <1> QED BY <1>5

\* A sum depends on what the function is on the set only.
LEMMA SumSame ==
  ASSUME NEW f, NEW g, NEW S, IsFiniteSet(S), \A x \in S : f[x] = g[x]
  PROVE  SumFunctionOnSet(f, S) = SumFunctionOnSet(g, S)
  <1> DEFINE B == {s \in SUBSET S : Partial(f, S, s) = Partial(g, S, s)}
  <1>1. {} \in B
    BY PartialStep
  <1>2. ASSUME NEW s \in SUBSET S, s # {}, s \ {Pick(s)} \in B PROVE s \in B
    <2>1. Pick(s) \in S
      BY <1>2 DEF Pick
    <2>2. f[Pick(s)] = g[Pick(s)]
      BY <2>1
    <2> QED BY <1>2, <2>2, PartialStep
  <1>3. B = SUBSET S
    <2>1. B \in SUBSET SUBSET S
      OBVIOUS
    <2> HIDE DEF B
    <2> QED BY <1>1, <1>2, <2>1, SubsetInduction
  <1> QED BY <1>3, SumIsPartial

\* Numbers have a least member, and a finite set of integers a greatest one.
LEMMA HasLeast ==
  ASSUME NEW S \in SUBSET Nat, S # {}
  PROVE  \E x \in S : \A y \in S : x <= y
  <1> DEFINE N == {n \in Nat : \A x \in S : n <= x}
  <1>1. \E n \in N : n + 1 \notin N
    <2> SUFFICES ASSUME \A n \in N : n + 1 \in N PROVE FALSE
      OBVIOUS
    <2>1. N \in SUBSET Nat /\ 0 \in N
      OBVIOUS
    <2>2. N = Nat
      <3> HIDE DEF N
      <3> QED BY <2>1, NumberInduction
    <2>3. PICK x \in S : TRUE
      OBVIOUS
    <2>4. x + 1 \in N
      BY <2>2
    <2> QED BY <2>3, <2>4
  <1>2. PICK n \in N : n + 1 \notin N
    BY <1>1
  <1>3. n \in S
    BY <1>2
  <1> QED BY <1>2, <1>3

LEMMA HasGreatest ==
  ASSUME NEW S \in SUBSET Int, IsFiniteSet(S), S # {}
  PROVE  \E x \in S : \A y \in S : y <= x
  <1> DEFINE Tops(s) == s = {} \/ \E x \in s : \A y \in s : y <= x
             B == {s \in SUBSET S : Tops(s)}
  <1>1. {} \in B
    OBVIOUS
  <1>2. ASSUME NEW s \in SUBSET S, s # {}, s \ {Pick(s)} \in B PROVE s \in B
    <2> DEFINE p == Pick(s)
    <2>1. p \in s
      <3>1. IsFiniteSet(s)
        BY FS_Subset
      <3> QED BY <1>2, <3>1, PickLess
    <2> HIDE DEF p
    <2>2. CASE s \ {p} = {}
      <3>1. \A y \in s : y = p
        BY <2>2
      <3> QED BY <2>1, <3>1
    <2>3. CASE s \ {p} # {}
      <3>1. PICK x \in s \ {p} : \A y \in s \ {p} : y <= x
        BY <1>2, <2>3 DEF p
      <3>2. \A y \in s : y = p \/ y <= x
        BY <3>1
      <3>3. CASE p <= x
        BY <3>1, <3>2, <3>3
      <3>4. CASE ~(p <= x)
        <4>1. \A y \in s : y <= p
          BY <2>1, <3>1, <3>2, <3>4
        <4> QED BY <2>1, <4>1
      <3> QED BY <3>3, <3>4
    <2> QED BY <2>2, <2>3
  <1>3. B = SUBSET S
    <2>1. B \in SUBSET SUBSET S
      OBVIOUS
    <2> HIDE DEF B
    <2> QED BY <1>1, <1>2, <2>1, SubsetInduction
  <1>4. S \in B
    BY <1>3
  <1> QED BY <1>4
=============================================================================
