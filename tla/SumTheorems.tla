----------------------------- MODULE SumTheorems -----------------------------
(***************************************************************************)
(* Facts about the sum of a function over a finite set, as the models      *)
(* write it: MapThenSumSet(LAMBDA x : f[x], S).  MapThenSumSet is          *)
(* recursive; that its recursion has a value, and what a change of one     *)
(* value does to a sum, is shown from the smallest set for which it is     *)
(* not so (WFMin).                                                         *)
(***************************************************************************)
EXTENDS Integers, FiniteSetsExt, FiniteSetTheorems, TLAPS

Sum(f, S) == MapThenSumSet(LAMBDA x : f[x], S)

(* The recursion of MapThenSumSet, on the subsets of S.                    *)
Picked(s) == CHOOSE x \in s : TRUE
Rest(s) == s \ {Picked(s)}
Sums(g, f, S) ==
  g = [s \in SUBSET S |-> IF s = {} THEN 0 ELSE f[Picked(s)] + g[Rest(s)]]

(* Of the sets for which something is so, one has no part for which it is. *)
LEMMA SmallestSet ==
  ASSUME NEW S, IsFiniteSet(S), NEW T, T \subseteq SUBSET S, T # {}
  PROVE  \E m \in T : \A s \in SUBSET m : s # m => s \notin T
<1>1. FiniteSubsetsOf(S) = SUBSET S
  BY FS_FiniteSubsetsOfFinite
<1>2. IsWellFoundedOn(StrictSubsetOrdering(S), SUBSET S)
  BY <1>1, FS_StrictSubsetOrderingWellFounded
<1>3. PICK m \in T : \A s \in T : <<s, m>> \notin StrictSubsetOrdering(S)
  BY <1>2, WFMin, Zenon
<1>4. ASSUME NEW s \in SUBSET m, s # m, s \in T
      PROVE  FALSE
  <2>1. <<s, m>> \in (SUBSET S) \X (SUBSET S) /\ s \subseteq m
    BY <1>4
  <2>2. <<s, m>> \in StrictSubsetOrdering(S)
    BY <2>1, <1>4 DEF StrictSubsetOrdering
  <2> QED
    BY <1>3, <1>4, <2>2
<1> QED
  BY <1>4

LEMMA PickedIsIn ==
  ASSUME NEW s, s # {}
  PROVE  Picked(s) \in s /\ Rest(s) \in SUBSET s /\ Rest(s) # s
BY DEF Picked, Rest

LEMMA SumsAt ==
  ASSUME NEW g, NEW f, NEW S, Sums(g, f, S), NEW s \in SUBSET S
  PROVE  g[s] = IF s = {} THEN 0 ELSE f[Picked(s)] + g[Rest(s)]
BY Zenon DEF Sums

LEMMA SumsAgree ==
  ASSUME NEW f, NEW S, IsFiniteSet(S), NEW a \in SUBSET S, NEW b \in SUBSET S,
         NEW g, NEW h, Sums(g, f, a), Sums(h, f, b),
         NEW q \in SUBSET S, q \subseteq a, q \subseteq b
  PROVE  g[q] = h[q]
<1> SUFFICES ASSUME g[q] # h[q] PROVE FALSE
  OBVIOUS
<1> DEFINE T == {r \in SUBSET S : r \subseteq a /\ r \subseteq b /\ g[r] # h[r]}
<1>1. T # {} /\ T \subseteq SUBSET S
  OBVIOUS
<1>2. PICK m \in T : \A s \in SUBSET m : s # m => s \notin T
  <2> HIDE DEF T
  <2> QED
    BY <1>1, SmallestSet, Zenon
<1>3. m \in SUBSET S /\ m \in SUBSET a /\ m \in SUBSET b /\ g[m] # h[m]
  BY <1>2
<1>4. /\ g[m] = IF m = {} THEN 0 ELSE f[Picked(m)] + g[Rest(m)]
      /\ h[m] = IF m = {} THEN 0 ELSE f[Picked(m)] + h[Rest(m)]
  BY <1>3, SumsAt, Zenon
<1>5. m # {}
  BY <1>3, <1>4, Zenon
<1>6. Rest(m) \in SUBSET m /\ Rest(m) # m
  BY <1>5, PickedIsIn, Zenon
<1>7. Rest(m) \notin T
  BY <1>2, <1>6, Zenon
<1>8. g[Rest(m)] = h[Rest(m)]
  BY <1>3, <1>6, <1>7
<1> QED
  BY <1>3, <1>4, <1>5, <1>8, Zenon

LEMMA SumsExist ==
  ASSUME NEW f, NEW S, IsFiniteSet(S)
  PROVE  \E g : Sums(g, f, S)
<1> SUFFICES ASSUME ~ \E g : Sums(g, f, S) PROVE FALSE
  OBVIOUS
<1> DEFINE T == {r \in SUBSET S : ~ \E g : Sums(g, f, r)}
<1>1. T # {} /\ T \subseteq SUBSET S
  OBVIOUS
<1>2. PICK m \in T : \A s \in SUBSET m : s # m => s \notin T
  <2> HIDE DEF T
  <2> QED
    BY <1>1, SmallestSet, Zenon
<1> DEFINE part(r) == CHOOSE g : Sums(g, f, r)
           v(r) == part(r)[r]
           G == [r \in SUBSET m |-> IF r = {} THEN 0 ELSE f[Picked(r)] + v(Rest(r))]
<1>3. m \in SUBSET S /\ ~ \E g : Sums(g, f, m)
  BY <1>2
<1>4. ASSUME NEW r \in SUBSET m, r # m
      PROVE  Sums(part(r), f, r) /\ r \in SUBSET S
  <2>1. r \in SUBSET S /\ r \notin T
    BY <1>2, <1>3, <1>4
  <2> QED
    BY <2>1, Zenon
<1>5. ASSUME NEW r \in SUBSET m, r # m
      PROVE  v(r) = IF r = {} THEN 0 ELSE f[Picked(r)] + v(Rest(r))
  <2>1. Sums(part(r), f, r) /\ r \in SUBSET S /\ r \in SUBSET r
    BY <1>4, <1>5
  <2>2. part(r)[r] = IF r = {} THEN 0 ELSE f[Picked(r)] + part(r)[Rest(r)]
    BY <2>1, SumsAt, Zenon
  <2>3. CASE r = {}
    BY <2>2, <2>3, Zenon
  <2>4. CASE r # {}
    <3>1. Rest(r) \in SUBSET r /\ Rest(r) # r
      BY <2>4, PickedIsIn, Zenon
    <3>2. Rest(r) \in SUBSET m /\ Rest(r) # m /\ Rest(r) \in SUBSET S
      BY <3>1, <1>5, <2>1
    <3>3. Sums(part(Rest(r)), f, Rest(r))
      BY <3>2, <1>4, Zenon
    <3>4. Rest(r) \subseteq r /\ Rest(r) \subseteq Rest(r)
      BY <3>1
    <3>5. part(r)[Rest(r)] = part(Rest(r))[Rest(r)]
      <4> DEFINE q == Rest(r)
      <4>1. q \in SUBSET S /\ q \subseteq r /\ q \subseteq q
        BY <3>2, <3>4
      <4> HIDE DEF q
      <4>2. \A g, h : Sums(g, f, r) /\ Sums(h, f, q) => g[q] = h[q]
        BY <4>1, <2>1, SumsAgree
      <4>3. Sums(part(r), f, r) /\ Sums(part(q), f, q)
        BY <2>1, <3>3 DEF q
      <4> HIDE DEF part
      <4> QED
        BY <4>2, <4>3 DEF q
    <3> QED
      BY <2>2, <2>4, <3>5
  <2> QED
    BY <2>3, <2>4, Zenon
<1>6. \A r \in SUBSET m : r # {} => G[Rest(r)] = v(Rest(r))
  <2> TAKE r \in SUBSET m
  <2> HAVE r # {}
  <2>1. Rest(r) \in SUBSET r /\ Rest(r) # r
    BY PickedIsIn, Zenon
  <2>2. Rest(r) \in SUBSET m /\ Rest(r) # m
    BY <2>1
  <2>3. v(Rest(r)) = IF Rest(r) = {} THEN 0 ELSE f[Picked(Rest(r))] + v(Rest(Rest(r)))
    BY <2>2, <1>5, Zenon
  <2> QED
    BY <2>2, <2>3, Zenon
<1>7. Sums(G, f, m)
  <2> HIDE DEF v
  <2>1. \A r \in SUBSET m : (IF r = {} THEN 0 ELSE f[Picked(r)] + v(Rest(r)))
                            = (IF r = {} THEN 0 ELSE f[Picked(r)] + G[Rest(r)])
    BY <1>6, Zenon
  <2>2. G = [r \in SUBSET m |-> IF r = {} THEN 0 ELSE f[Picked(r)] + G[Rest(r)]]
    BY <2>1, Zenon
  <2> QED
    BY <2>2, Zenon DEF Sums
<1> QED
  BY <1>3, <1>7, Zenon

(* The value of a sum.                                                     *)
LEMMA SumUnfolds ==
  ASSUME NEW f, NEW S, IsFiniteSet(S)
  PROVE  \E g : Sums(g, f, S) /\ Sum(f, S) = g[S]
<1> DEFINE h == CHOOSE h : Sums(h, f, S)
<1>1. Sums(h, f, S)
  BY SumsExist, Zenon
<1>2. Sum(f, S) = h[S]
  BY DEF Sum, MapThenSumSet, MapThenFoldSet, Sums, Picked, Rest
<1> QED
  BY <1>1, <1>2, Zenon

(* The same recursion on a part of S.                                      *)
LEMMA SumsOfPart ==
  ASSUME NEW f, NEW S, IsFiniteSet(S), NEW g, Sums(g, f, S), NEW s \in SUBSET S
  PROVE  Sum(f, s) = g[s]
<1>1. IsFiniteSet(s)
  BY FS_Subset
<1>2. PICK h : Sums(h, f, s) /\ Sum(f, s) = h[s]
  BY <1>1, SumUnfolds, Zenon
<1>3. S \in SUBSET S /\ s \subseteq S /\ s \subseteq s
  OBVIOUS
<1>4. \A q \in SUBSET S : q \subseteq s /\ q \subseteq S => h[q] = g[q]
  BY <1>2, <1>3, SumsAgree
<1>5. h[s] = g[s]
  BY <1>4
<1> QED
  BY <1>2, <1>5, Zenon

LEMMA SumAt ==
  ASSUME NEW f, NEW S, IsFiniteSet(S)
  PROVE  Sum(f, S) = IF S = {} THEN 0 ELSE f[Picked(S)] + Sum(f, Rest(S))
<1>1. PICK g : Sums(g, f, S) /\ Sum(f, S) = g[S]
  BY SumUnfolds, Zenon
<1>2. g[S] = IF S = {} THEN 0 ELSE f[Picked(S)] + g[Rest(S)]
  BY <1>1, SumsAt
<1>3. Rest(S) \in SUBSET S
  BY DEF Rest
<1>4. Sum(f, Rest(S)) = g[Rest(S)]
  BY <1>1, <1>3, SumsOfPart
<1> QED
  BY <1>1, <1>2, <1>4, Zenon

THEOREM SumOfNothing == ASSUME NEW f PROVE Sum(f, {}) = 0
BY SumAt, FS_EmptySet

(* A sum of integers is one, and a sum of natural numbers.                 *)
THEOREM SumIsInt ==
  ASSUME NEW f, NEW S, IsFiniteSet(S), \A x \in S : f[x] \in Int
  PROVE  Sum(f, S) \in Int
<1> SUFFICES ASSUME Sum(f, S) \notin Int PROVE FALSE
  OBVIOUS
<1> DEFINE T == {r \in SUBSET S : Sum(f, r) \notin Int}
<1>1. PICK m \in T : \A s \in SUBSET m : s # m => s \notin T
  <2>1. T # {} /\ T \subseteq SUBSET S
    OBVIOUS
  <2> HIDE DEF T
  <2> QED
    BY <2>1, SmallestSet, Zenon
<1>2. m \in SUBSET S /\ IsFiniteSet(m) /\ Sum(f, m) \notin Int
  BY <1>1, FS_Subset
<1>3. Sum(f, m) = IF m = {} THEN 0 ELSE f[Picked(m)] + Sum(f, Rest(m))
  BY <1>2, SumAt
<1>4. CASE m = {}
  BY <1>2, <1>3, <1>4
<1>5. CASE m # {}
  <2>1. Picked(m) \in m /\ Rest(m) \in SUBSET m /\ Rest(m) # m
    BY <1>5, PickedIsIn, Zenon
  <2>2. Rest(m) \notin T
    BY <1>1, <2>1, Zenon
  <2>3. Sum(f, Rest(m)) \in Int /\ f[Picked(m)] \in Int
    BY <1>2, <2>1, <2>2
  <2> QED
    BY <1>2, <1>3, <1>5, <2>3
<1> QED
  BY <1>4, <1>5

THEOREM SumIsNat ==
  ASSUME NEW f, NEW S, IsFiniteSet(S), \A x \in S : f[x] \in Nat
  PROVE  Sum(f, S) \in Nat
<1> SUFFICES ASSUME Sum(f, S) \notin Nat PROVE FALSE
  OBVIOUS
<1> DEFINE T == {r \in SUBSET S : Sum(f, r) \notin Nat}
<1>1. PICK m \in T : \A s \in SUBSET m : s # m => s \notin T
  <2>1. T # {} /\ T \subseteq SUBSET S
    OBVIOUS
  <2> HIDE DEF T
  <2> QED
    BY <2>1, SmallestSet, Zenon
<1>2. m \in SUBSET S /\ IsFiniteSet(m) /\ Sum(f, m) \notin Nat
  BY <1>1, FS_Subset
<1>3. Sum(f, m) = IF m = {} THEN 0 ELSE f[Picked(m)] + Sum(f, Rest(m))
  BY <1>2, SumAt
<1>4. CASE m = {}
  BY <1>2, <1>3, <1>4
<1>5. CASE m # {}
  <2>1. Picked(m) \in m /\ Rest(m) \in SUBSET m /\ Rest(m) # m
    BY <1>5, PickedIsIn, Zenon
  <2>2. Rest(m) \notin T
    BY <1>1, <2>1, Zenon
  <2>3. Sum(f, Rest(m)) \in Nat /\ f[Picked(m)] \in Nat
    BY <1>2, <2>1, <2>2
  <2> QED
    BY <1>2, <1>3, <1>5, <2>3
<1> QED
  BY <1>4, <1>5

(* Functions that agree on a set have the same sum over it.                *)
THEOREM SumIsTheSame ==
  ASSUME NEW f, NEW h, NEW S, IsFiniteSet(S), \A x \in S : f[x] = h[x]
  PROVE  Sum(f, S) = Sum(h, S)
<1> SUFFICES ASSUME Sum(f, S) # Sum(h, S) PROVE FALSE
  OBVIOUS
<1> DEFINE T == {r \in SUBSET S : Sum(f, r) # Sum(h, r)}
<1>1. PICK m \in T : \A s \in SUBSET m : s # m => s \notin T
  <2>1. T # {} /\ T \subseteq SUBSET S
    OBVIOUS
  <2> HIDE DEF T
  <2> QED
    BY <2>1, SmallestSet, Zenon
<1>2. m \in SUBSET S /\ IsFiniteSet(m) /\ Sum(f, m) # Sum(h, m)
  BY <1>1, FS_Subset
<1>3. /\ Sum(f, m) = IF m = {} THEN 0 ELSE f[Picked(m)] + Sum(f, Rest(m))
      /\ Sum(h, m) = IF m = {} THEN 0 ELSE h[Picked(m)] + Sum(h, Rest(m))
  BY <1>2, SumAt
<1>4. m # {}
  BY <1>2, <1>3, Zenon
<1>5. Picked(m) \in m /\ Rest(m) \in SUBSET m /\ Rest(m) # m
  BY <1>4, PickedIsIn, Zenon
<1>6. Rest(m) \notin T
  BY <1>1, <1>5, Zenon
<1>7. Sum(f, Rest(m)) = Sum(h, Rest(m)) /\ f[Picked(m)] = h[Picked(m)]
  BY <1>2, <1>5, <1>6
<1> QED
  BY <1>2, <1>3, <1>4, <1>7, Zenon

(* Any element may be taken out of a sum first.                            *)
THEOREM SumSplits ==
  ASSUME NEW f, NEW S, IsFiniteSet(S), \A x \in S : f[x] \in Int, NEW z \in S
  PROVE  Sum(f, S) = f[z] + Sum(f, S \ {z})
<1> DEFINE Splits(r) == \A x \in r : Sum(f, r) = f[x] + Sum(f, r \ {x})
<1> SUFFICES ASSUME ~Splits(S) PROVE FALSE
  OBVIOUS
<1> DEFINE T == {r \in SUBSET S : ~Splits(r)}
<1>1. PICK m \in T : \A s \in SUBSET m : s # m => s \notin T
  <2>1. T # {} /\ T \subseteq SUBSET S
    OBVIOUS
  <2> HIDE DEF T
  <2> QED
    BY <2>1, SmallestSet, Zenon
<1>2. m \in SUBSET S /\ IsFiniteSet(m) /\ ~Splits(m)
  BY <1>1, FS_Subset
<1>3. PICK x \in m : Sum(f, m) # f[x] + Sum(f, m \ {x})
  BY <1>2
<1> DEFINE y == Picked(m)
<1>4. m # {} /\ y \in m /\ Rest(m) = m \ {y}
  BY <1>3, PickedIsIn DEF Rest
<1>5. Sum(f, m) = f[y] + Sum(f, m \ {y})
  BY <1>2, <1>4, SumAt
<1> HIDE DEF y
<1>6. x # y
  BY <1>3, <1>5
<1>7. /\ m \ {x} \in SUBSET m /\ m \ {x} # m /\ y \in m \ {x}
      /\ m \ {y} \in SUBSET m /\ m \ {y} # m /\ x \in m \ {y}
      /\ (m \ {x}) \ {y} = (m \ {y}) \ {x}
  BY <1>3, <1>4, <1>6
<1>8. Splits(m \ {x}) /\ Splits(m \ {y})
  BY <1>1, <1>2, <1>7
<1>9. /\ Sum(f, m \ {x}) = f[y] + Sum(f, (m \ {y}) \ {x})
      /\ Sum(f, m \ {y}) = f[x] + Sum(f, (m \ {y}) \ {x})
  BY <1>7, <1>8
<1>10. f[x] \in Int /\ f[y] \in Int /\ Sum(f, (m \ {y}) \ {x}) \in Int
  <2>1. IsFiniteSet((m \ {y}) \ {x}) /\ \A w \in (m \ {y}) \ {x} : f[w] \in Int
    BY <1>2, FS_Subset
  <2> QED
    BY <1>2, <1>3, <1>4, <2>1, SumIsInt
<1> QED
  BY <1>3, <1>5, <1>9, <1>10

(* One value changes, and the sum by as much.                              *)
THEOREM SumChanges ==
  ASSUME NEW f, NEW h, NEW S, IsFiniteSet(S), NEW z \in S, h[z] \in Int,
         \A x \in S : f[x] \in Int, \A x \in S \ {z} : h[x] = f[x]
  PROVE  Sum(h, S) = Sum(f, S) - f[z] + h[z]
<1>1. \A x \in S : h[x] \in Int
  OBVIOUS
<1>2. IsFiniteSet(S \ {z}) /\ \A x \in S \ {z} : f[x] \in Int
  BY FS_Subset
<1>3. Sum(h, S) = h[z] + Sum(h, S \ {z}) /\ Sum(f, S) = f[z] + Sum(f, S \ {z})
  BY <1>1, SumSplits
<1>4. Sum(h, S \ {z}) = Sum(f, S \ {z}) /\ Sum(f, S \ {z}) \in Int
  BY <1>2, SumIsTheSame, SumIsInt
<1> QED
  BY <1>3, <1>4

(* One element joins.                                                      *)
THEOREM SumGrows ==
  ASSUME NEW f, NEW S, IsFiniteSet(S), NEW z, z \notin S, \A x \in S \cup {z} : f[x] \in Int
  PROVE  Sum(f, S \cup {z}) = Sum(f, S) + f[z]
<1> DEFINE U == S \cup {z}
<1>1. IsFiniteSet(U) /\ z \in U /\ \A x \in U : f[x] \in Int
  BY FS_AddElement
<1>2. Sum(f, S) \in Int /\ f[z] \in Int
  BY SumIsInt
<1>3. U \ {z} = S
  OBVIOUS
<1> HIDE DEF U
<1>4. Sum(f, U) = f[z] + Sum(f, U \ {z})
  BY <1>1, SumSplits
<1>5. Sum(f, U \ {z}) = Sum(f, S)
  BY <1>3, Zenon
<1>6. Sum(f, U) = Sum(f, S) + f[z]
  BY <1>2, <1>4, <1>5
<1> QED
  BY <1>6 DEF U

(* Nothing adds up to nothing.                                             *)
THEOREM SumOfZeroes ==
  ASSUME NEW f, NEW S, IsFiniteSet(S), \A x \in S : f[x] = 0
  PROVE  Sum(f, S) = 0
<1> SUFFICES ASSUME Sum(f, S) # 0 PROVE FALSE
  OBVIOUS
<1> DEFINE T == {r \in SUBSET S : Sum(f, r) # 0}
<1>1. PICK m \in T : \A s \in SUBSET m : s # m => s \notin T
  <2>1. T # {} /\ T \subseteq SUBSET S
    OBVIOUS
  <2> HIDE DEF T
  <2> QED
    BY <2>1, SmallestSet, Zenon
<1>2. m \in SUBSET S /\ IsFiniteSet(m) /\ Sum(f, m) # 0
  BY <1>1, FS_Subset
<1>3. Sum(f, m) = IF m = {} THEN 0 ELSE f[Picked(m)] + Sum(f, Rest(m))
  BY <1>2, SumAt
<1>4. m # {}
  BY <1>2, <1>3
<1>5. Picked(m) \in m /\ Rest(m) \in SUBSET m /\ Rest(m) # m
  BY <1>4, PickedIsIn, Zenon
<1>6. Rest(m) \notin T
  BY <1>1, <1>5, Zenon
<1>7. Sum(f, Rest(m)) = 0 /\ f[Picked(m)] = 0
  BY <1>2, <1>5, <1>6
<1> QED
  BY <1>2, <1>3, <1>4, <1>7

(* What is at most as much everywhere adds up to at most as much.          *)
THEOREM SumIsAtMost ==
  ASSUME NEW f, NEW h, NEW S, IsFiniteSet(S),
         \A x \in S : f[x] \in Int /\ h[x] \in Int /\ f[x] <= h[x]
  PROVE  Sum(f, S) <= Sum(h, S)
<1> SUFFICES ASSUME ~ (Sum(f, S) <= Sum(h, S)) PROVE FALSE
  OBVIOUS
<1> DEFINE T == {r \in SUBSET S : ~ (Sum(f, r) <= Sum(h, r))}
<1>1. PICK m \in T : \A s \in SUBSET m : s # m => s \notin T
  <2>1. T # {} /\ T \subseteq SUBSET S
    OBVIOUS
  <2> HIDE DEF T
  <2> QED
    BY <2>1, SmallestSet, Zenon
<1>2. m \in SUBSET S /\ IsFiniteSet(m) /\ ~ (Sum(f, m) <= Sum(h, m))
  BY <1>1, FS_Subset
<1>3. /\ Sum(f, m) = IF m = {} THEN 0 ELSE f[Picked(m)] + Sum(f, Rest(m))
      /\ Sum(h, m) = IF m = {} THEN 0 ELSE h[Picked(m)] + Sum(h, Rest(m))
  BY <1>2, SumAt
<1>4. m # {}
  BY <1>2, <1>3
<1>5. Picked(m) \in m /\ Rest(m) \in SUBSET m /\ Rest(m) # m
  BY <1>4, PickedIsIn, Zenon
<1>6. Rest(m) \notin T
  BY <1>1, <1>5, Zenon
<1>7. /\ Sum(f, Rest(m)) <= Sum(h, Rest(m))
      /\ f[Picked(m)] \in Int /\ h[Picked(m)] \in Int /\ f[Picked(m)] <= h[Picked(m)]
  BY <1>2, <1>5, <1>6
<1>8. Sum(f, Rest(m)) \in Int /\ Sum(h, Rest(m)) \in Int
  <2>1. IsFiniteSet(Rest(m)) /\ \A x \in Rest(m) : f[x] \in Int /\ h[x] \in Int
    BY <1>2, <1>5, FS_Subset
  <2> QED
    BY <2>1, SumIsInt
<1> QED
  BY <1>2, <1>3, <1>4, <1>7, <1>8

(* A sum of sums of multiples.                                             *)
THEOREM SumIsLinear ==
  ASSUME NEW f, NEW w, NEW h, NEW S, IsFiniteSet(S), NEW c \in Int,
         \A x \in S : f[x] \in Int /\ w[x] \in Int /\ h[x] = f[x] + w[x] * c
  PROVE  Sum(h, S) = Sum(f, S) + Sum(w, S) * c
<1> DEFINE Linear(r) == Sum(h, r) = Sum(f, r) + Sum(w, r) * c
<1>0. 0 * c = 0
  OBVIOUS
<1> SUFFICES ASSUME ~ Linear(S) PROVE FALSE
  OBVIOUS
<1> DEFINE T == {r \in SUBSET S : ~ Linear(r)}
<1>1. PICK m \in T : \A s \in SUBSET m : s # m => s \notin T
  <2>1. T # {} /\ T \subseteq SUBSET S
    OBVIOUS
  <2> HIDE DEF T
  <2> QED
    BY <2>1, SmallestSet, Zenon
<1>2. m \in SUBSET S /\ IsFiniteSet(m) /\ ~ Linear(m)
  BY <1>1, FS_Subset
<1>3. /\ Sum(f, m) = IF m = {} THEN 0 ELSE f[Picked(m)] + Sum(f, Rest(m))
      /\ Sum(w, m) = IF m = {} THEN 0 ELSE w[Picked(m)] + Sum(w, Rest(m))
      /\ Sum(h, m) = IF m = {} THEN 0 ELSE h[Picked(m)] + Sum(h, Rest(m))
  BY <1>2, SumAt
<1>4. m # {}
  <2> SUFFICES ASSUME m = {} PROVE FALSE
    OBVIOUS
  <2>1. Sum(h, m) = 0 /\ Sum(f, m) = 0 /\ Sum(w, m) = 0
    BY <1>3, Zenon
  <2> QED
    BY <1>0, <1>2, <2>1
<1>5. Picked(m) \in m /\ Rest(m) \in SUBSET m /\ Rest(m) # m
  BY <1>4, PickedIsIn, Zenon
<1>6. Rest(m) \notin T
  BY <1>1, <1>5, Zenon
<1>7. Linear(Rest(m))
  BY <1>2, <1>5, <1>6
<1>8. /\ f[Picked(m)] \in Int /\ w[Picked(m)] \in Int
      /\ h[Picked(m)] = f[Picked(m)] + w[Picked(m)] * c
  BY <1>2, <1>5
<1>9. Sum(f, Rest(m)) \in Int /\ Sum(w, Rest(m)) \in Int
  <2>1. IsFiniteSet(Rest(m)) /\ \A x \in Rest(m) : f[x] \in Int /\ w[x] \in Int
    BY <1>2, <1>5, FS_Subset
  <2> QED
    BY <2>1, SumIsInt
<1>10. \A a, b, x, y \in Int : (a + x * c) + (b + y * c) = (a + b) + (x + y) * c
  OBVIOUS
<1>11. /\ Sum(f, m) = f[Picked(m)] + Sum(f, Rest(m))
       /\ Sum(w, m) = w[Picked(m)] + Sum(w, Rest(m))
       /\ Sum(h, m) = h[Picked(m)] + Sum(h, Rest(m))
  BY <1>3, <1>4, Zenon
<1>12. Sum(h, m) = (f[Picked(m)] + w[Picked(m)] * c) + (Sum(f, Rest(m)) + Sum(w, Rest(m)) * c)
  BY <1>7, <1>8, <1>11, Zenon
<1>13. Sum(h, m) = Sum(f, m) + Sum(w, m) * c
  <2> DEFINE a == f[Picked(m)]
             b == Sum(f, Rest(m))
             x == w[Picked(m)]
             y == Sum(w, Rest(m))
  <2>1. a \in Int /\ b \in Int /\ x \in Int /\ y \in Int
    BY <1>8, <1>9
  <2>2. Sum(f, m) = a + b /\ Sum(w, m) = x + y /\ Sum(h, m) = (a + x * c) + (b + y * c)
    BY <1>11, <1>12
  <2> HIDE DEF a, b, x, y
  <2>3. (a + x * c) + (b + y * c) = (a + b) + (x + y) * c
    BY <1>10, <2>1
  <2> QED
    BY <2>2, <2>3
<1> QED
  BY <1>2, <1>13
=============================================================================
