----------------------------- MODULE SumsProofs -----------------------------
(***************************************************************************)
(* What Total computes over finite sets, whatever the order in which the   *)
(* fold takes the elements.  Each induction over the subsets of a finite   *)
(* set is the choice of a smallest counterexample.                         *)
(***************************************************************************)
EXTENDS Integers, FiniteSets, FiniteSetsExt, FiniteSetTheorems, WellFoundedInduction, TLAPS

\* The sum of f over S.
Total(f, S) == MapThenSumSet(LAMBDA x : f[x], S)

First(s) == CHOOSE x \in s : TRUE
Step(f, g, s) == IF s = {} THEN 0 ELSE f[First(s)] + g[s \ {First(s)}]
\* g computes the sums of f over the subsets of S, by taking out First.
Computes(g, f, S) == g = [s \in SUBSET S |-> Step(f, g, s)]

LEMMA TotalIs ==
  ASSUME NEW f, NEW S
  PROVE Total(f, S) = (CHOOSE g : Computes(g, f, S))[S]
  BY DEF Total, MapThenSumSet, MapThenFoldSet, Computes, Step, First

LEMMA Smallest ==
  ASSUME NEW S, IsFiniteSet(S), NEW T \in SUBSET (SUBSET S), T # {}
  PROVE  \E s \in T : \A t \in T : t \subseteq s => t = s
  <1>1. PICK s \in T : \A t \in T : <<t, s>> \notin StrictSubsetOrdering(S)
    <2>1. IsWellFoundedOn(StrictSubsetOrdering(S), SUBSET S)
      BY FS_StrictSubsetOrderingWellFounded, FS_FiniteSubsetsOfFinite
    <2>2. QED
      BY <2>1, WFMin
  <1>2. QED
    BY <1>1 DEF StrictSubsetOrdering

LEMMA ComputesAgree ==
  ASSUME NEW f, NEW S, IsFiniteSet(S), NEW R, R \subseteq S, NEW g, NEW h,
         Computes(g, f, S), Computes(h, f, R)
  PROVE  g[R] = h[R]
  <1> DEFINE Bad == {s \in SUBSET R : g[s] # h[s]}
  <1> SUFFICES ASSUME Bad # {} PROVE FALSE
    <2>1. Bad = {} => R \notin Bad
      OBVIOUS
    <2>2. QED
      BY <2>1
  <1>1. Bad # {}
    OBVIOUS
  <1>2. IsFiniteSet(R)
    BY FS_Subset
  <1>3. PICK s \in Bad : \A t \in Bad : t \subseteq s => t = s
    <2>1. Bad \in SUBSET (SUBSET R)
      OBVIOUS
    <2> HIDE DEF Bad
    <2>2. QED
      BY <1>1, <1>2, <2>1, Smallest
  <1>4. g[s] = Step(f, g, s) /\ h[s] = Step(f, h, s)
    BY DEF Computes
  <1>5. CASE s = {}
    BY <1>4, <1>5 DEF Step
  <1>6. CASE s # {}
    <2>1. First(s) \in s
      BY <1>6 DEF First
    <2>2. s \ {First(s)} \notin Bad
      BY <1>3, <2>1
    <2>3. g[s \ {First(s)}] = h[s \ {First(s)}]
      BY <2>2
    <2>4. QED
      BY <1>4, <1>6, <2>3 DEF Step
  <1>7. QED
    BY <1>5, <1>6

LEMMA ComputesExists ==
  ASSUME NEW f, NEW S, IsFiniteSet(S)
  PROVE  Computes(CHOOSE g : Computes(g, f, S), f, S)
  <1> DEFINE Sum(s) == CHOOSE g : Computes(g, f, s)
             Bad == {s \in SUBSET S : ~ Computes(Sum(s), f, s)}
  <1> SUFFICES ASSUME Bad # {} PROVE FALSE
    <2>1. Bad = {} => S \notin Bad
      OBVIOUS
    <2>2. QED
      BY <2>1
  <1>1. Bad # {}
    OBVIOUS
  <1>2. PICK s \in Bad : \A t \in Bad : t \subseteq s => t = s
    <2>1. Bad \in SUBSET (SUBSET S)
      OBVIOUS
    <2> HIDE DEF Bad
    <2>2. QED
      BY <1>1, <2>1, Smallest
  <1> DEFINE G == [t \in SUBSET s |->
                     IF t = s
                     THEN IF s = {} THEN 0 ELSE f[First(s)] + Sum(s \ {First(s)})[s \ {First(s)}]
                     ELSE Sum(t)[t]]
  <1>3. ASSUME NEW t \in SUBSET s PROVE G[t] = Step(f, G, t)
    <2>1. CASE t = {}
      <3>1. CASE t = s
        BY <2>1, <3>1 DEF Step
      <3>2. CASE t # s
        <4>1. Computes(Sum(t), f, t)
          BY <1>2, <3>2
        <4>2. Sum(t)[t] = Step(f, Sum(t), t)
          BY <4>1 DEF Computes
        <4>3. QED
          BY <2>1, <3>2, <4>2 DEF Step
      <3>3. QED
        BY <3>1, <3>2
    <2>2. CASE t # {}
      <3> DEFINE u == t \ {First(t)}
      <3>1. First(t) \in t
        BY <2>2 DEF First
      <3>2. u \in SUBSET s /\ u # s
        BY <3>1
      <3>3. G[u] = Sum(u)[u]
        BY <3>2
      <3>4. CASE t = s
        BY <2>2, <3>3, <3>4 DEF Step
      <3>5. CASE t # s
        <4>1. Computes(Sum(t), f, t) /\ Computes(Sum(u), f, u)
          BY <1>2, <3>2, <3>5
        <4>2. Sum(t)[t] = f[First(t)] + Sum(t)[u]
          BY <2>2, <4>1 DEF Computes, Step
        <4>3. IsFiniteSet(t)
          BY FS_Subset
        <4>4. Sum(t)[u] = Sum(u)[u]
          BY <4>1, <4>3, ComputesAgree
        <4>5. QED
          BY <2>2, <3>3, <3>5, <4>2, <4>4 DEF Step
      <3>6. QED
        BY <3>4, <3>5
    <2>3. QED
      BY <2>1, <2>2
  <1>4. Computes(G, f, s)
    BY <1>3 DEF Computes
  <1>5. Computes(Sum(s), f, s)
    BY <1>4
  <1>6. QED
    BY <1>5

LEMMA TotalEmpty ==
  ASSUME NEW f PROVE Total(f, {}) = 0
  BY TotalIs, ComputesExists, FS_EmptySet DEF Computes, Step

\* The fold takes First out.
LEMMA TotalUnfolds ==
  ASSUME NEW f, NEW S, IsFiniteSet(S), S # {}
  PROVE  First(S) \in S /\ Total(f, S) = f[First(S)] + Total(f, S \ {First(S)})
  <1> DEFINE R == S \ {First(S)}
             g == CHOOSE g : Computes(g, f, S)
             h == CHOOSE h : Computes(h, f, R)
  <1>1. First(S) \in S /\ R \subseteq S /\ IsFiniteSet(R)
    BY FS_Subset DEF First
  <1>2. Computes(g, f, S) /\ Computes(h, f, R)
    BY <1>1, ComputesExists
  <1>3. g[R] = h[R]
    BY <1>1, <1>2, ComputesAgree
  <1>4. g[S] = f[First(S)] + g[R]
    BY <1>2 DEF Computes, Step
  <1>5. Total(f, S) = g[S] /\ Total(f, R) = h[R]
    BY TotalIs
  <1>6. QED
    BY <1>1, <1>3, <1>4, <1>5

\* Sums of naturals are naturals.
LEMMA TotalNat ==
  ASSUME NEW f, NEW S, IsFiniteSet(S), \A x \in S : f[x] \in Nat
  PROVE  Total(f, S) \in Nat
  <1> DEFINE Bad == {s \in SUBSET S : Total(f, s) \notin Nat}
  <1> SUFFICES ASSUME Bad # {} PROVE FALSE
    <2>1. Bad = {} => S \notin Bad
      OBVIOUS
    <2>2. QED
      BY <2>1
  <1>1. PICK s \in Bad : \A t \in Bad : t \subseteq s => t = s
    <2>1. Bad \in SUBSET (SUBSET S) /\ Bad # {}
      OBVIOUS
    <2> HIDE DEF Bad
    <2>2. QED
      BY <2>1, Smallest
  <1>2. s # {}
    BY TotalEmpty
  <1>3. IsFiniteSet(s)
    BY FS_Subset
  <1>4. First(s) \in s /\ Total(f, s) = f[First(s)] + Total(f, s \ {First(s)})
    BY <1>2, <1>3, TotalUnfolds
  <1>5. Total(f, s \ {First(s)}) \in Nat
    BY <1>1, <1>4
  <1>6. f[First(s)] \in Nat
    BY <1>4
  <1>7. Total(f, s) \in Nat
    BY <1>4, <1>5, <1>6
  <1>8. QED
    BY <1>7

\* Any element may be taken out.
LEMMA TotalTakes ==
  ASSUME NEW f, NEW S, IsFiniteSet(S), \A x \in S : f[x] \in Nat, NEW y \in S
  PROVE  Total(f, S) = f[y] + Total(f, S \ {y})
  <1> DEFINE Bad == {s \in SUBSET S : \E x \in s : Total(f, s) # f[x] + Total(f, s \ {x})}
  <1> SUFFICES ASSUME Bad # {} PROVE FALSE
    <2>1. Bad = {} => S \notin Bad
      OBVIOUS
    <2>2. QED
      BY <2>1
  <1>1. PICK s \in Bad : \A t \in Bad : t \subseteq s => t = s
    <2>1. Bad \in SUBSET (SUBSET S) /\ Bad # {}
      OBVIOUS
    <2> HIDE DEF Bad
    <2>2. QED
      BY <2>1, Smallest
  <1>2. PICK x \in s : Total(f, s) # f[x] + Total(f, s \ {x})
    OBVIOUS
  <1>3. \A t \in SUBSET S : IsFiniteSet(t) /\ Total(f, t) \in Nat
    <2>1. ASSUME NEW t \in SUBSET S PROVE IsFiniteSet(t) /\ \A z \in t : f[z] \in Nat
      BY FS_Subset
    <2>2. QED
      BY <2>1, TotalNat
  <1> DEFINE z == First(s)
  <1>4. z \in s /\ Total(f, s) = f[z] + Total(f, s \ {z})
    BY <1>2, <1>3, TotalUnfolds
  <1> HIDE DEF z
  <1>5. z # x
    BY <1>2, <1>4
  <1>6. Total(f, s \ {z}) = f[x] + Total(f, (s \ {z}) \ {x})
    BY <1>1, <1>4, <1>5
  <1>7. Total(f, s \ {x}) = f[z] + Total(f, (s \ {x}) \ {z})
    BY <1>1, <1>4, <1>5
  <1>8. (s \ {x}) \ {z} = (s \ {z}) \ {x}
    OBVIOUS
  <1>9. f[x] \in Nat /\ f[z] \in Nat /\ Total(f, (s \ {z}) \ {x}) \in Nat
    BY <1>3, <1>4
  <1>10. QED
    BY <1>2, <1>4, <1>6, <1>7, <1>8, <1>9

LEMMA TotalAdds ==
  ASSUME NEW f, NEW S, IsFiniteSet(S), NEW y, y \notin S, \A x \in S \cup {y} : f[x] \in Nat
  PROVE  Total(f, S \cup {y}) = f[y] + Total(f, S)
  <1>1. IsFiniteSet(S \cup {y}) /\ (S \cup {y}) \ {y} = S
    BY FS_AddElement
  <1>2. QED
    BY <1>1, TotalTakes

\* A subset sums to no more.
LEMMA TotalMonotone ==
  ASSUME NEW f, NEW S, IsFiniteSet(S), \A x \in S : f[x] \in Nat, NEW R \in SUBSET S
  PROVE  Total(f, R) <= Total(f, S)
  <1> DEFINE Bad == {s \in SUBSET S : R \subseteq s /\ ~ (Total(f, R) <= Total(f, s))}
  <1> SUFFICES ASSUME Bad # {} PROVE FALSE
    <2>1. Bad = {} => S \notin Bad
      OBVIOUS
    <2>2. QED
      BY <2>1
  <1>1. PICK s \in Bad : \A t \in Bad : t \subseteq s => t = s
    <2>1. Bad \in SUBSET (SUBSET S) /\ Bad # {}
      OBVIOUS
    <2> HIDE DEF Bad
    <2>2. QED
      BY <2>1, Smallest
  <1>2. \A t \in SUBSET S : IsFiniteSet(t) /\ Total(f, t) \in Nat
    <2>1. ASSUME NEW t \in SUBSET S PROVE IsFiniteSet(t) /\ \A z \in t : f[z] \in Nat
      BY FS_Subset
    <2>2. QED
      BY <2>1, TotalNat
  <1>3. s # R
    BY <1>2
  <1>4. PICK x \in s : x \notin R
    BY <1>3
  <1>5. Total(f, s) = f[x] + Total(f, s \ {x})
    BY <1>2, TotalTakes
  <1>6. Total(f, R) <= Total(f, s \ {x})
    BY <1>1, <1>4
  <1>7. f[x] \in Nat /\ Total(f, s \ {x}) \in Nat /\ Total(f, R) \in Nat
    BY <1>2
  <1>8. QED
    BY <1>5, <1>6, <1>7

\* A union sums to no more than its parts.
LEMMA TotalUnion ==
  ASSUME NEW f, NEW A, NEW B, IsFiniteSet(A), IsFiniteSet(B), \A x \in A \cup B : f[x] \in Nat
  PROVE  Total(f, A \cup B) <= Total(f, A) + Total(f, B)
  <1> DEFINE Bad == {s \in SUBSET B : ~ (Total(f, A \cup s) <= Total(f, A) + Total(f, s))}
  <1> SUFFICES ASSUME Bad # {} PROVE FALSE
    <2>1. Bad = {} => B \notin Bad
      OBVIOUS
    <2>2. QED
      BY <2>1
  <1>1. PICK s \in Bad : \A t \in Bad : t \subseteq s => t = s
    <2>1. Bad \in SUBSET (SUBSET B) /\ Bad # {}
      OBVIOUS
    <2> HIDE DEF Bad
    <2>2. QED
      BY <2>1, Smallest
  <1>2. \A t \in SUBSET B : /\ IsFiniteSet(t) /\ IsFiniteSet(A \cup t)
                            /\ Total(f, t) \in Nat /\ Total(f, A \cup t) \in Nat
    <2>1. ASSUME NEW t \in SUBSET B PROVE IsFiniteSet(t) /\ IsFiniteSet(A \cup t)
      BY FS_Subset, FS_Union
    <2>2. QED
      BY <2>1, TotalNat
  <1>3. Total(f, A) \in Nat /\ Total(f, {}) = 0 /\ A \cup {} = A
    BY TotalNat, TotalEmpty
  <1>4. s # {}
    BY <1>3
  <1>5. PICK y \in s : TRUE
    BY <1>4
  <1>6. Total(f, s) = f[y] + Total(f, s \ {y})
    BY <1>2, TotalTakes
  <1>7. Total(f, A \cup (s \ {y})) <= Total(f, A) + Total(f, s \ {y})
    BY <1>1
  <1>8. Total(f, A \cup s) <= f[y] + Total(f, A \cup (s \ {y}))
    <2> DEFINE U == A \cup s
               V == A \cup (s \ {y})
    <2>1. IsFiniteSet(U) /\ IsFiniteSet(V) /\ f[y] \in Nat /\ (\A z \in U : f[z] \in Nat)
      BY <1>2
    <2>2. V \subseteq U /\ (y \in A => U = V) /\ (y \notin A => U \ {y} = V /\ y \in U)
      OBVIOUS
    <2>3. Total(f, V) \in Nat
      BY <1>2
    <2> SUFFICES Total(f, U) <= f[y] + Total(f, V)
      OBVIOUS
    <2> HIDE DEF U, V
    <2>4. CASE U = V
      BY <2>1, <2>3, <2>4
    <2>5. CASE y \in U /\ U \ {y} = V
      <3>1. Total(f, U) = f[y] + Total(f, U \ {y})
        BY <2>1, <2>5, TotalTakes
      <3>2. QED
        BY <2>1, <2>3, <2>5, <3>1
    <2>6. QED
      BY <2>2, <2>4, <2>5
  <1>9. f[y] \in Nat /\ Total(f, s \ {y}) \in Nat /\ Total(f, A \cup (s \ {y})) \in Nat
        /\ Total(f, A \cup s) \in Nat /\ Total(f, s) \in Nat
    BY <1>2
  <1>10. ~ (Total(f, A \cup s) <= Total(f, A) + Total(f, s))
    BY <1>1
  <1>11. QED
    BY <1>3, <1>6, <1>7, <1>8, <1>9, <1>10

\* The sum depends only on the summands.
LEMMA TotalAgrees ==
  ASSUME NEW f, NEW g, NEW S, IsFiniteSet(S), \A x \in S : f[x] \in Nat /\ g[x] = f[x]
  PROVE  Total(g, S) = Total(f, S)
  <1> DEFINE Bad == {s \in SUBSET S : Total(g, s) # Total(f, s)}
  <1> SUFFICES ASSUME Bad # {} PROVE FALSE
    <2>1. Bad = {} => S \notin Bad
      OBVIOUS
    <2>2. QED
      BY <2>1
  <1>1. PICK s \in Bad : \A t \in Bad : t \subseteq s => t = s
    <2>1. Bad \in SUBSET (SUBSET S) /\ Bad # {}
      OBVIOUS
    <2> HIDE DEF Bad
    <2>2. QED
      BY <2>1, Smallest
  <1>2. s # {}
    BY TotalEmpty
  <1>3. IsFiniteSet(s)
    BY FS_Subset
  <1>4. /\ First(s) \in s /\ Total(f, s) = f[First(s)] + Total(f, s \ {First(s)})
        /\ Total(g, s) = g[First(s)] + Total(g, s \ {First(s)})
    BY <1>2, <1>3, TotalUnfolds
  <1>5. Total(f, s \ {First(s)}) = Total(g, s \ {First(s)})
    BY <1>1, <1>4
  <1>6. QED
    BY <1>4, <1>5

\* Smaller summands sum to no more.
LEMMA TotalBelow ==
  ASSUME NEW f, NEW g, NEW S, IsFiniteSet(S),
         \A x \in S : f[x] \in Nat /\ g[x] \in Nat /\ g[x] <= f[x]
  PROVE  Total(g, S) <= Total(f, S)
  <1> DEFINE Bad == {s \in SUBSET S : ~ (Total(g, s) <= Total(f, s))}
  <1> SUFFICES ASSUME Bad # {} PROVE FALSE
    <2>1. Bad = {} => S \notin Bad
      OBVIOUS
    <2>2. QED
      BY <2>1
  <1>1. PICK s \in Bad : \A t \in Bad : t \subseteq s => t = s
    <2>1. Bad \in SUBSET (SUBSET S) /\ Bad # {}
      OBVIOUS
    <2> HIDE DEF Bad
    <2>2. QED
      BY <2>1, Smallest
  <1>2. s # {}
    BY TotalEmpty
  <1>3. IsFiniteSet(s)
    BY FS_Subset
  <1>4. /\ First(s) \in s /\ Total(f, s) = f[First(s)] + Total(f, s \ {First(s)})
        /\ Total(g, s) = g[First(s)] + Total(g, s \ {First(s)})
    BY <1>2, <1>3, TotalUnfolds
  <1>5. Total(g, s \ {First(s)}) <= Total(f, s \ {First(s)})
    BY <1>1, <1>4
  <1>6. IsFiniteSet(s \ {First(s)})
    BY <1>3, FS_Subset
  <1>7. Total(g, s \ {First(s)}) \in Nat /\ Total(f, s \ {First(s)}) \in Nat
    BY <1>6, TotalNat
  <1>8. f[First(s)] \in Nat /\ g[First(s)] \in Nat /\ g[First(s)] <= f[First(s)]
    BY <1>4
  <1>9. Total(g, s) <= Total(f, s)
    BY <1>4, <1>5, <1>7, <1>8
  <1>10. QED
    BY <1>9

LEMMA TotalZero ==
  ASSUME NEW f, NEW S, IsFiniteSet(S), \A x \in S : f[x] = 0
  PROVE  Total(f, S) = 0
  <1> DEFINE Bad == {s \in SUBSET S : Total(f, s) # 0}
  <1> SUFFICES ASSUME Bad # {} PROVE FALSE
    <2>1. Bad = {} => S \notin Bad
      OBVIOUS
    <2>2. QED
      BY <2>1
  <1>1. PICK s \in Bad : \A t \in Bad : t \subseteq s => t = s
    <2>1. Bad \in SUBSET (SUBSET S) /\ Bad # {}
      OBVIOUS
    <2> HIDE DEF Bad
    <2>2. QED
      BY <2>1, Smallest
  <1>2. s # {}
    BY TotalEmpty
  <1>3. IsFiniteSet(s)
    BY FS_Subset
  <1>4. First(s) \in s /\ Total(f, s) = f[First(s)] + Total(f, s \ {First(s)})
    BY <1>2, <1>3, TotalUnfolds
  <1>5. Total(f, s \ {First(s)}) = 0
    BY <1>1, <1>4
  <1>6. QED
    BY <1>4, <1>5
=============================================================================
