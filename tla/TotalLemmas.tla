----------------------------- MODULE TotalLemmas -----------------------------
(***************************************************************************)
(* What the sum of a function over a finite set is worth knowing for: how  *)
(* it follows a change of one entry.  SumFunctionOnSet of the community    *)
(* modules is a fold; it is shown here to count the set of the units of    *)
(* the function, <<i, 1>> .. <<i, f[i]>> for each i, whose changes need no *)
(* recursion.                                                              *)
(***************************************************************************)
EXTENDS Integers, FiniteSets, Functions, FiniteSetTheorems, TLAPS

Units(f, S) == UNION {{i} \X (1..f[i]) : i \in S}

LEMMA UnitsFinite ==
  ASSUME NEW S, IsFiniteSet(S), NEW f, \A i \in S : f[i] \in Nat
  PROVE  IsFiniteSet(Units(f, S))
  <1> DEFINE Column == [i \in S |-> {i} \X (1..f[i])]
             Columns == {{i} \X (1..f[i]) : i \in S}
  <1>1. IsFiniteSet(Columns)
    <2>1. Column \in Surjection(S, Columns)
      BY DEF Surjection
    <2> QED BY <2>1, FS_Surjection
  <1>2. ASSUME NEW i \in S PROVE IsFiniteSet({i} \X (1..f[i]))
    <2>1. IsFiniteSet({i})
      BY FS_Singleton
    <2>2. IsFiniteSet(1..f[i])
      BY FS_Interval
    <2> QED BY <2>1, <2>2, FS_Product
  <1>3. \A T \in Columns : IsFiniteSet(T)
    BY <1>2
  <1> QED BY <1>1, <1>3, FS_UNION DEF Units

\* Taking one element out takes its entry off the count.
LEMMA UnitsStep ==
  ASSUME NEW S, IsFiniteSet(S), NEW f, \A i \in S : f[i] \in Nat, NEW x \in S
  PROVE  Cardinality(Units(f, S)) = f[x] + Cardinality(Units(f, S \ {x}))
  <1> DEFINE rest == Units(f, S \ {x})
             own  == {x} \X (1..f[x])
  <1>1. Units(f, S) = rest \cup own
    BY DEF Units
  <1>2. rest \cap own = {}
    BY DEF Units
  <1>3. IsFiniteSet(rest)
    <2>1. IsFiniteSet(S \ {x})
      BY FS_RemoveElement
    <2> QED BY <2>1, UnitsFinite
  <1>4. IsFiniteSet(own) /\ Cardinality(own) = f[x]
    <2>1. IsFiniteSet({x}) /\ Cardinality({x}) = 1
      BY FS_Singleton
    <2>2. IsFiniteSet(1..f[x]) /\ Cardinality(1..f[x]) = f[x]
      BY FS_Interval
    <2>3. IsFiniteSet(own) /\ Cardinality(own) = 1 * f[x]
      BY <2>1, <2>2, FS_Product
    <2> QED BY <2>3
  <1> HIDE DEF rest, own
  <1>5. Cardinality(rest \cup own) = Cardinality(rest) + Cardinality(own) - Cardinality({})
    BY <1>2, <1>3, <1>4, FS_Union
  <1>6. Cardinality(rest) \in Nat
    BY <1>3, FS_CardinalityType
  <1>7. Cardinality(rest \cup own) = f[x] + Cardinality(rest)
    BY <1>4, <1>5, <1>6, FS_EmptySet
  <1> QED BY <1>1, <1>7 DEF rest

Chosen(s) == CHOOSE x \in s : TRUE

\* The fold's own recursion, of a function on the subsets of S.
IsFold(g, f, S) ==
  g = [s \in SUBSET S |-> IF s = {} THEN 0 ELSE f[Chosen(s)] + g[s \ {Chosen(s)}]]

LEMMA UnitsFold ==
  ASSUME NEW S, IsFiniteSet(S), NEW f, \A i \in S : f[i] \in Nat
  PROVE  IsFold([s \in SUBSET S |-> Cardinality(Units(f, s))], f, S)
  <1> DEFINE g == [s \in SUBSET S |-> Cardinality(Units(f, s))]
  <1> SUFFICES ASSUME NEW s \in SUBSET S
               PROVE  g[s] = IF s = {} THEN 0 ELSE f[Chosen(s)] + g[s \ {Chosen(s)}]
    BY DEF IsFold
  <1>1. CASE s = {}
    <2>1. Units(f, {}) = {}
      BY DEF Units
    <2> QED BY <1>1, <2>1, FS_EmptySet
  <1>2. CASE s # {}
    <2>1. Chosen(s) \in s
      BY <1>2 DEF Chosen
    <2>2. IsFiniteSet(s) /\ \A i \in s : f[i] \in Nat
      BY FS_Subset
    <2>3. Cardinality(Units(f, s)) = f[Chosen(s)] + Cardinality(Units(f, s \ {Chosen(s)}))
      BY <2>1, <2>2, UnitsStep
    <2>4. s \ {Chosen(s)} \in SUBSET S
      OBVIOUS
    <2> QED BY <1>2, <2>3, <2>4
  <1> QED BY <1>1, <1>2

\* Two functions with that recursion agree: they would differ first on a
\* smallest set, which the recursion rules out.
LEMMA FoldUnique ==
  ASSUME NEW S, IsFiniteSet(S), NEW f, NEW g, NEW h, IsFold(g, f, S), IsFold(h, f, S)
  PROVE  g = h
  <1> DEFINE Differ == {s \in SUBSET S : g[s] # h[s]}
             Order == StrictSubsetOrdering(S)
  <1>1. g = [s \in SUBSET S |-> g[s]] /\ h = [s \in SUBSET S |-> h[s]]
    BY DEF IsFold
  <1>2. \A s \in SUBSET S :
          /\ g[s] = IF s = {} THEN 0 ELSE f[Chosen(s)] + g[s \ {Chosen(s)}]
          /\ h[s] = IF s = {} THEN 0 ELSE f[Chosen(s)] + h[s \ {Chosen(s)}]
    BY Zenon DEF IsFold
  <1>3. Differ = {}
    <2> SUFFICES ASSUME Differ # {} PROVE FALSE
      OBVIOUS
    <2>1. IsWellFoundedOn(Order, SUBSET S)
      BY FS_StrictSubsetOrderingWellFounded, FS_FiniteSubsetsOfFinite
    <2>2. PICK s \in Differ : \A t \in Differ : ~(<<t, s>> \in Order)
      <3>1. Differ \subseteq SUBSET S
        OBVIOUS
      <3> HIDE DEF Differ, Order
      <3> QED BY <2>1, <3>1, WFMin
    <2>3. s # {}
      BY <1>2
    <2>4. Chosen(s) \in s
      BY <2>3 DEF Chosen
    <2>5. <<s \ {Chosen(s)}, s>> \in Order
      BY <2>4 DEF StrictSubsetOrdering
    <2>6. s \ {Chosen(s)} \in SUBSET S /\ s \ {Chosen(s)} \notin Differ
      BY <2>2, <2>5
    <2>7. g[s \ {Chosen(s)}] = h[s \ {Chosen(s)}]
      BY <2>6
    <2> QED BY <1>2, <2>3, <2>7
  <1> QED BY <1>1, <1>3

LEMMA SumIsUnits ==
  ASSUME NEW S, IsFiniteSet(S), NEW f, \A i \in S : f[i] \in Nat
  PROVE  SumFunctionOnSet(f, S) = Cardinality(Units(f, S))
  <1> DEFINE count == [s \in SUBSET S |-> Cardinality(Units(f, s))]
             fold == CHOOSE g : IsFold(g, f, S)
  <1>1. IsFold(count, f, S)
    BY UnitsFold
  <1>2. IsFold(fold, f, S)
    BY <1>1
  <1>3. fold = count
    <2> HIDE DEF fold, count
    <2> QED BY <1>1, <1>2, FoldUnique
  <1>4. SumFunctionOnSet(f, S) = fold[S]
    BY DEF SumFunctionOnSet, FoldFunctionOnSet, MapThenFoldSet, IsFold, Chosen
  <1>5. S \in SUBSET S
    OBVIOUS
  <1> QED BY <1>3, <1>4, <1>5
-----------------------------------------------------------------------------
(* What the other proofs cite *)

LEMMA SumNat ==
  ASSUME NEW S, IsFiniteSet(S), NEW f \in [S -> Nat]
  PROVE  SumFunctionOnSet(f, S) \in Nat
  BY SumIsUnits, UnitsFinite, FS_CardinalityType

LEMMA SumSplit ==
  ASSUME NEW S, IsFiniteSet(S), NEW f, \A i \in S : f[i] \in Nat, NEW x \in S
  PROVE  /\ SumFunctionOnSet(f, S) = f[x] + SumFunctionOnSet(f, S \ {x})
         /\ SumFunctionOnSet(f, S \ {x}) \in Nat
  <1>1. IsFiniteSet(S \ {x}) /\ \A i \in S \ {x} : f[i] \in Nat
    BY FS_RemoveElement
  <1>2. SumFunctionOnSet(f, S \ {x}) = Cardinality(Units(f, S \ {x}))
    BY <1>1, SumIsUnits
  <1>3. Cardinality(Units(f, S \ {x})) \in Nat
    BY <1>1, UnitsFinite, FS_CardinalityType
  <1> QED BY <1>2, <1>3, SumIsUnits, UnitsStep

LEMMA SumCongruent ==
  ASSUME NEW S, IsFiniteSet(S), NEW f, NEW g, \A i \in S : f[i] \in Nat /\ g[i] = f[i]
  PROVE  SumFunctionOnSet(g, S) = SumFunctionOnSet(f, S)
  <1>1. Units(f, S) = Units(g, S)
    BY DEF Units
  <1> QED BY <1>1, SumIsUnits

\* The sum follows a change of one entry.
LEMMA SumChange ==
  ASSUME NEW S, IsFiniteSet(S), NEW f \in [S -> Nat], NEW g \in [S -> Nat], NEW x \in S,
         \A i \in S \ {x} : g[i] = f[i]
  PROVE  SumFunctionOnSet(g, S) = SumFunctionOnSet(f, S) - f[x] + g[x]
  <1>1. IsFiniteSet(S \ {x})
    BY FS_RemoveElement
  <1>2. SumFunctionOnSet(g, S \ {x}) = SumFunctionOnSet(f, S \ {x})
    BY <1>1, SumCongruent
  <1> QED BY <1>2, SumSplit

LEMMA SumZero ==
  ASSUME NEW S, IsFiniteSet(S), NEW f, \A i \in S : f[i] = 0
  PROVE  SumFunctionOnSet(f, S) = 0
  <1>1. Units(f, S) = {}
    BY DEF Units
  <1> QED BY <1>1, SumIsUnits, FS_EmptySet

\* No entry exceeds the sum.
LEMMA SumBounds ==
  ASSUME NEW S, IsFiniteSet(S), NEW f \in [S -> Nat], NEW x \in S
  PROVE  SumFunctionOnSet(f, S) >= f[x]
  <1>1. \A i \in S : f[i] \in Nat
    OBVIOUS
  <1>2. f[x] \in Nat
    OBVIOUS
  <1>3. /\ SumFunctionOnSet(f, S) = f[x] + SumFunctionOnSet(f, S \ {x})
        /\ SumFunctionOnSet(f, S \ {x}) \in Nat
    BY <1>1, SumSplit
  <1> DEFINE rest == SumFunctionOnSet(f, S \ {x})
  <1>4. rest \in Nat
    BY <1>3
  <1> HIDE DEF rest
  <1>5. f[x] + rest >= f[x]
    BY <1>2, <1>4
  <1> QED BY <1>3, <1>5 DEF rest

\* The same of the sum over the whole domain.
LEMMA TotalChange ==
  ASSUME NEW S, IsFiniteSet(S), NEW f \in [S -> Nat], NEW g \in [S -> Nat], NEW x \in S,
         \A i \in S \ {x} : g[i] = f[i]
  PROVE  /\ SumFunction(g) = SumFunction(f) - f[x] + g[x]
         /\ SumFunction(f) \in Nat /\ SumFunction(g) \in Nat
         /\ SumFunction(f) >= f[x]
  <1>1. DOMAIN f = S /\ DOMAIN g = S
    OBVIOUS
  <1> QED BY <1>1, SumChange, SumNat, SumBounds DEF SumFunction

LEMMA TotalNat ==
  ASSUME NEW S, IsFiniteSet(S), NEW f \in [S -> Nat]
  PROVE  SumFunction(f) \in Nat
  BY SumNat DEF SumFunction

LEMMA TotalZero ==
  ASSUME NEW S, IsFiniteSet(S), NEW f \in [S -> Nat], \A i \in S : f[i] = 0
  PROVE  SumFunction(f) = 0
  BY SumZero DEF SumFunction
\* The sum of a pointwise sum.
LEMMA SumAdd ==
  ASSUME NEW S, IsFiniteSet(S), NEW f \in [S -> Nat], NEW g \in [S -> Nat],
         NEW h \in [S -> Nat], \A i \in S : h[i] = f[i] + g[i]
  PROVE  SumFunctionOnSet(h, S) = SumFunctionOnSet(f, S) + SumFunctionOnSet(g, S)
  <1> DEFINE F == [s \in SUBSET S |-> Cardinality(Units(f, s))]
             G == [s \in SUBSET S |-> Cardinality(Units(g, s))]
             H == [s \in SUBSET S |-> Cardinality(Units(h, s))]
             both == [s \in SUBSET S |-> F[s] + G[s]]
  <1>1. IsFold(F, f, S) /\ IsFold(G, g, S) /\ IsFold(H, h, S)
    <2>1. \A i \in S : f[i] \in Nat /\ g[i] \in Nat /\ h[i] \in Nat
      OBVIOUS
    <2> QED BY <2>1, UnitsFold
  <1>2. \A s \in SUBSET S : F[s] \in Nat /\ G[s] \in Nat
    <2> TAKE s \in SUBSET S
    <2>1. IsFiniteSet(s) /\ (\A i \in s : f[i] \in Nat) /\ (\A i \in s : g[i] \in Nat)
      BY FS_Subset
    <2>2. IsFiniteSet(Units(f, s)) /\ IsFiniteSet(Units(g, s))
      BY <2>1, UnitsFinite
    <2> QED BY <2>2, FS_CardinalityType
  <1> HIDE DEF F, G, H
  <1>3. IsFold(both, h, S)
    <2>1. ASSUME NEW s \in SUBSET S
          PROVE  both[s] = IF s = {} THEN 0 ELSE h[Chosen(s)] + both[s \ {Chosen(s)}]
      <3>1. /\ F[s] = IF s = {} THEN 0 ELSE f[Chosen(s)] + F[s \ {Chosen(s)}]
            /\ G[s] = IF s = {} THEN 0 ELSE g[Chosen(s)] + G[s \ {Chosen(s)}]
        BY <1>1, Zenon DEF IsFold
      <3>2. CASE s = {}
        BY <3>1, <3>2
      <3>3. CASE s # {}
        <4>1. Chosen(s) \in S /\ s \ {Chosen(s)} \in SUBSET S
          BY <3>3 DEF Chosen
        <4>2. h[Chosen(s)] = f[Chosen(s)] + g[Chosen(s)]
          BY <4>1
        <4>3. f[Chosen(s)] \in Nat /\ g[Chosen(s)] \in Nat
          BY <4>1
        <4>4. F[s \ {Chosen(s)}] \in Nat /\ G[s \ {Chosen(s)}] \in Nat
          BY <1>2, <4>1
        <4>5. both[s \ {Chosen(s)}] = F[s \ {Chosen(s)}] + G[s \ {Chosen(s)}]
          BY <4>1
        <4>6. F[s] = f[Chosen(s)] + F[s \ {Chosen(s)}] /\ G[s] = g[Chosen(s)] + G[s \ {Chosen(s)}]
          BY <3>1, <3>3
        <4>7. both[s] = F[s] + G[s]
          OBVIOUS
        <4> HIDE DEF both
        <4>8. both[s] = h[Chosen(s)] + both[s \ {Chosen(s)}]
          BY <4>2, <4>3, <4>4, <4>5, <4>6, <4>7
        <4> QED BY <3>3, <4>8
      <3> QED BY <3>2, <3>3
    <2> QED BY <2>1 DEF IsFold
  <1>4. H = both
    <2> HIDE DEF both
    <2> QED BY <1>1, <1>3, FoldUnique
  <1>5. H[S] = F[S] + G[S]
    BY <1>4
  <1>6. /\ SumFunctionOnSet(f, S) = F[S] /\ SumFunctionOnSet(g, S) = G[S]
        /\ SumFunctionOnSet(h, S) = H[S]
    <2>1. \A i \in S : f[i] \in Nat /\ g[i] \in Nat /\ h[i] \in Nat
      OBVIOUS
    <2> QED BY <2>1, SumIsUnits DEF F, G, H
  <1> QED BY <1>5, <1>6

LEMMA TotalAdd ==
  ASSUME NEW S, IsFiniteSet(S), NEW f \in [S -> Nat], NEW g \in [S -> Nat],
         NEW h \in [S -> Nat], \A i \in S : h[i] = f[i] + g[i]
  PROVE  SumFunction(h) = SumFunction(f) + SumFunction(g)
  BY SumAdd DEF SumFunction

LEMMA TotalAtMost ==
  ASSUME NEW S, IsFiniteSet(S), NEW f \in [S -> Nat], NEW g \in [S -> Nat],
         \A i \in S : f[i] <= g[i]
  PROVE  SumFunction(f) <= SumFunction(g)
  <1> DEFINE rest == [i \in S |-> g[i] - f[i]]
  <1>1. rest \in [S -> Nat] /\ \A i \in S : g[i] = f[i] + rest[i]
    OBVIOUS
  <1>2. SumFunction(f) \in Nat /\ SumFunction(rest) \in Nat
    BY <1>1, TotalNat
  <1>3. SumFunction(g) = SumFunction(f) + SumFunction(rest)
    <2> HIDE DEF rest
    <2> QED BY <1>1, TotalAdd
  <1> HIDE DEF rest
  <1> QED BY <1>2, <1>3
=============================================================================
