---------------------------- MODULE FoldTheorems ----------------------------
(***************************************************************************)
(* Facts about the folds of the community modules that the models count    *)
(* money, trades and rows with: SumFunctionOnSet, and FoldLeft; and about  *)
(* functions that are recursive along a sequence.                          *)
(*                                                                         *)
(* A fold over a finite set is a recursive function over its subsets.      *)
(* What holds of every value of one is proved from a smallest subset that  *)
(* would be an exception, which exists because strict inclusion is well    *)
(* founded on a finite set (SmallestSubset); an induction theorem takes    *)
(* the formula as an operator and cannot be used.                          *)
(***************************************************************************)
EXTENDS Sequences, FiniteSetTheorems, TLAPS

Element(T) == CHOOSE t \in T : TRUE

IsSum(g, f, S) ==
  g = [T \in SUBSET S |->
         IF T = {} THEN 0 ELSE f[Element(T)] + g[T \ {Element(T)}]]

\* The sum of the community modules, without its operators.
LEMMA SumIsChosen ==
  ASSUME NEW f, NEW S
  PROVE  SumFunctionOnSet(f, S) = (CHOOSE g : IsSum(g, f, S))[S]
BY DEF SumFunctionOnSet, FoldFunctionOnSet, MapThenFoldSet, IsSum, Element

\* A set of subsets of a finite set has one that no other is part of.
LEMMA SmallestSubset ==
  ASSUME NEW S, IsFiniteSet(S), NEW B \in SUBSET SUBSET S, B # {}
  PROVE  \E T \in B : \A U \in SUBSET T : U # T => U \notin B
<1>1. IsWellFoundedOn(StrictSubsetOrdering(S), FiniteSubsetsOf(S))
  BY FS_StrictSubsetOrderingWellFounded
<1>2. FiniteSubsetsOf(S) = SUBSET S
  BY FS_FiniteSubsetsOfFinite
<1>3. PICK T \in B : \A U \in B : <<U, T>> \notin StrictSubsetOrdering(S)
  BY <1>1, <1>2, WFMin
<1>4. ASSUME NEW U \in SUBSET T, U # T, U \in B
      PROVE  FALSE
  BY <1>3, <1>4 DEF StrictSubsetOrdering
<1>5. QED
  BY <1>3, <1>4

LEMMA ElementIsMember == \A T : T # {} => Element(T) \in T
BY DEF Element

\* A sum over the subsets of S restricts to one over those of a subset.
LEMMA SumRestricts ==
  ASSUME NEW f, NEW S, NEW g, IsSum(g, f, S), NEW T \in SUBSET S
  PROVE  IsSum([U \in SUBSET T |-> g[U]], f, T)
<1> DEFINE h == [U \in SUBSET T |-> g[U]]
<1>1. ASSUME NEW U \in SUBSET T
      PROVE  h[U] = IF U = {} THEN 0 ELSE f[Element(U)] + h[U \ {Element(U)}]
  <2>1. U \in SUBSET S /\ U \ {Element(U)} \in SUBSET T
    OBVIOUS
  <2>2. g[U] = IF U = {} THEN 0 ELSE f[Element(U)] + g[U \ {Element(U)}]
    BY <2>1 DEF IsSum
  <2>3. QED
    BY <2>1, <2>2
<1> HIDE DEF h
<1>2. h = [U \in SUBSET T |-> h[U]]
  BY DEF h
<1>3. h = [U \in SUBSET T |-> IF U = {} THEN 0 ELSE f[Element(U)] + h[U \ {Element(U)}]]
  BY <1>1, <1>2
<1>4. QED
  BY <1>3 DEF IsSum, h

\* There is at most one.
LEMMA SumIsUnique ==
  ASSUME NEW f, NEW S, IsFiniteSet(S), NEW g, NEW h, IsSum(g, f, S), IsSum(h, f, S)
  PROVE  g = h
<1> DEFINE Bad == {T \in SUBSET S : g[T] # h[T]}
<1>1. CASE Bad = {}
  <2>1. \A T \in SUBSET S : g[T] = h[T]
    BY <1>1
  <2>2. g = [T \in SUBSET S |-> g[T]] /\ h = [T \in SUBSET S |-> h[T]]
    BY DEF IsSum
  <2>3. QED
    BY <2>1, <2>2
<1>2. CASE Bad # {}
  <2>1. PICK T \in Bad : \A U \in SUBSET T : U # T => U \notin Bad
    <3> HIDE DEF Bad
    <3>1. Bad \in SUBSET SUBSET S
      BY DEF Bad
    <3>2. QED
      BY <3>1, <1>2, SmallestSubset
  <2>2. g[T] = (IF T = {} THEN 0 ELSE f[Element(T)] + g[T \ {Element(T)}])
        /\ h[T] = (IF T = {} THEN 0 ELSE f[Element(T)] + h[T \ {Element(T)}])
    BY DEF IsSum
  <2>3. T # {}
    BY <2>1, <2>2
  <2>4. T \ {Element(T)} \in SUBSET T /\ T \ {Element(T)} # T
    BY <2>3, ElementIsMember
  <2>5. g[T \ {Element(T)}] = h[T \ {Element(T)}]
    BY <2>1, <2>4
  <2>6. QED
    BY <2>1, <2>2, <2>5
<1>3. QED
  BY <1>1, <1>2

\* And there is one.
LEMMA SumExists ==
  ASSUME NEW f, NEW S, IsFiniteSet(S)
  PROVE  \E g : IsSum(g, f, S)
<1> DEFINE Bad == {T \in SUBSET S : ~\E g : IsSum(g, f, T)}
<1>1. CASE Bad = {}
  BY <1>1
<1>2. CASE Bad # {}
  <2>1. PICK T \in Bad : \A U \in SUBSET T : U # T => U \notin Bad
    <3> HIDE DEF Bad
    <3>1. Bad \in SUBSET SUBSET S
      BY DEF Bad
    <3>2. QED
      BY <3>1, <1>2, SmallestSubset
  <2> DEFINE sum(U) == CHOOSE g : IsSum(g, f, U)
             part(U) == sum(U)[U]
             rest == T \ {Element(T)}
             g == [U \in SUBSET T |->
                     IF U # T THEN part(U)
                     ELSE IF T = {} THEN 0 ELSE f[Element(T)] + part(rest)]
  <2>2. \A U \in SUBSET T : U # T => IsSum(sum(U), f, U)
    BY <2>1
  <2>3. \A U \in SUBSET T : IsFiniteSet(U)
    BY FS_Subset
  <2>4. ASSUME NEW U \in SUBSET T, U # T, NEW V \in SUBSET U
        PROVE  sum(U)[V] = part(V)
    <3>1. V \in SUBSET T /\ V # T
      BY <2>4
    <3>2. IsSum(sum(U), f, U) /\ IsSum(sum(V), f, V) /\ IsFiniteSet(V)
      BY <2>2, <2>3, <2>4, <3>1
    <3> HIDE DEF sum
    <3>3. IsSum([W \in SUBSET V |-> sum(U)[W]], f, V)
      BY <3>2, SumRestricts
    <3>4. [W \in SUBSET V |-> sum(U)[W]] = sum(V)
      BY <3>2, <3>3, SumIsUnique
    <3>5. [W \in SUBSET V |-> sum(U)[W]][V] = sum(V)[V]
      BY <3>4
    <3>6. QED
      BY <3>5
  <2>5. ASSUME NEW U \in SUBSET T
        PROVE  g[U] = IF U = {} THEN 0 ELSE f[Element(U)] + g[U \ {Element(U)}]
    <3>1. U # {} => U \ {Element(U)} \in SUBSET T /\ U \ {Element(U)} # T
      BY ElementIsMember
    <3>2. CASE U = T
      <4> HIDE DEF sum
      <4>1. QED
        BY <3>1, <3>2
    <3>3. CASE U # T
      <4>1. sum(U)[U] = IF U = {} THEN 0 ELSE f[Element(U)] + sum(U)[U \ {Element(U)}]
        <5> HIDE DEF sum
        <5>1. IsSum(sum(U), f, U)
          BY <2>2, <3>3
        <5>2. QED
          BY <5>1 DEF IsSum
      <4> HIDE DEF sum
      <4>2. U # {} => sum(U)[U \ {Element(U)}] = part(U \ {Element(U)})
        BY <2>4, <3>3
      <4>3. QED
        BY <3>1, <3>3, <4>1, <4>2
    <3>4. QED
      BY <3>2, <3>3
  <2> HIDE DEF g
  <2>6. g = [U \in SUBSET T |-> g[U]]
    BY DEF g
  <2>7. IsSum(g, f, T)
    BY <2>5, <2>6 DEF IsSum
  <2>8. QED
    BY <2>1, <2>7
<1>3. QED
  BY <1>1, <1>2

-----------------------------------------------------------------------------
(* What SumFunctionOnSet of the community modules computes                 *)

\* The sum over nothing is nothing; over anything else it is the value of an
\* element and the sum over the rest.
LEMMA SumUnfolds ==
  ASSUME NEW f, NEW S, IsFiniteSet(S)
  PROVE  SumFunctionOnSet(f, S) =
           IF S = {} THEN 0
           ELSE f[Element(S)] + SumFunctionOnSet(f, S \ {Element(S)})
<1> DEFINE sum(T) == CHOOSE g : IsSum(g, f, T)
           rest == S \ {Element(S)}
<1>1. IsFiniteSet(rest) /\ rest \in SUBSET S
  BY FS_RemoveElement
<1>2. IsSum(sum(S), f, S) /\ IsSum(sum(rest), f, rest)
  BY <1>1, SumExists
<1>3. SumFunctionOnSet(f, S) = sum(S)[S] /\ SumFunctionOnSet(f, rest) = sum(rest)[rest]
  BY SumIsChosen
<1> HIDE DEF sum
<1>4. IsSum([U \in SUBSET rest |-> sum(S)[U]], f, rest)
  BY <1>1, <1>2, SumRestricts
<1>5. [U \in SUBSET rest |-> sum(S)[U]] = sum(rest)
  BY <1>1, <1>2, <1>4, SumIsUnique
<1>6. [U \in SUBSET rest |-> sum(S)[U]][rest] = sum(rest)[rest]
  BY <1>5
<1>7. sum(S)[rest] = sum(rest)[rest]
  BY <1>6
<1>8. sum(S)[S] = IF S = {} THEN 0 ELSE f[Element(S)] + sum(S)[rest]
  BY <1>2 DEF IsSum
<1>9. QED
  BY <1>3, <1>7, <1>8

\* The sum over nothing.
LEMMA SumOfNothing == \A f : SumFunctionOnSet(f, {}) = 0
BY SumUnfolds, FS_EmptySet

\* A sum of integers is an integer.
LEMMA SumType ==
  ASSUME NEW f, NEW S, IsFiniteSet(S), \A x \in S : f[x] \in Int
  PROVE  SumFunctionOnSet(f, S) \in Int
<1> DEFINE Bad == {T \in SUBSET S : SumFunctionOnSet(f, T) \notin Int}
<1>1. SUFFICES ASSUME Bad # {} PROVE FALSE
  BY <1>1
<1>2. PICK T \in Bad : \A U \in SUBSET T : U # T => U \notin Bad
  <2>1. Bad \in SUBSET SUBSET S
    OBVIOUS
  <2> HIDE DEF Bad
  <2>2. QED
    BY <2>1, <1>1, SmallestSubset
<1>3. IsFiniteSet(T)
  BY FS_Subset
<1>4. T # {}
  BY SumOfNothing
<1>5. T \ {Element(T)} \in SUBSET T /\ T \ {Element(T)} # T /\ Element(T) \in S
  BY <1>4, ElementIsMember
<1>6. SumFunctionOnSet(f, T \ {Element(T)}) \in Int /\ f[Element(T)] \in Int
  BY <1>2, <1>5
<1>7. QED
  BY <1>3, <1>4, <1>6, SumUnfolds

\* Which element is taken first makes no difference.
LEMMA SumAdds ==
  ASSUME NEW f, NEW S, IsFiniteSet(S), \A x \in S : f[x] \in Int, NEW x \in S
  PROVE  SumFunctionOnSet(f, S) = f[x] + SumFunctionOnSet(f, S \ {x})
<1> DEFINE Sum(T) == SumFunctionOnSet(f, T)
           Bad == {T \in SUBSET S : \E y \in T : Sum(T) # f[y] + Sum(T \ {y})}
<1>1. SUFFICES ASSUME Bad # {} PROVE FALSE
  BY <1>1
<1>2. PICK T \in Bad : \A U \in SUBSET T : U # T => U \notin Bad
  <2>1. Bad \in SUBSET SUBSET S
    OBVIOUS
  <2> HIDE DEF Bad
  <2>2. QED
    BY <2>1, <1>1, SmallestSubset
<1>3. PICK y \in T : Sum(T) # f[y] + Sum(T \ {y})
  BY <1>2
<1> DEFINE e == Element(T)
           both == (T \ {e}) \ {y}
<1>4. T \in SUBSET S /\ T # {} /\ e \in T
  BY <1>2, <1>3, ElementIsMember
<1>5. \A U \in SUBSET S : IsFiniteSet(U) /\ Sum(U) \in Int
  <2> TAKE U \in SUBSET S
  <2>1. IsFiniteSet(U)
    BY FS_Subset
  <2>2. QED
    BY <2>1, SumType
<1>6. Sum(T) = f[e] + Sum(T \ {e})
  BY <1>4, <1>5, SumUnfolds
<1>7. CASE y = e
  BY <1>3, <1>6, <1>7
<1>8. CASE y # e
  <2>1. T \ {e} \in SUBSET T /\ T \ {e} # T /\ T \ {y} \in SUBSET T /\ T \ {y} # T
    BY <1>3, <1>4
  <2>2. T \ {e} \notin Bad /\ T \ {y} \notin Bad
    BY <2>1, <1>2
  <2>3. y \in T \ {e} /\ e \in T \ {y} /\ (T \ {y}) \ {e} = both
    BY <1>3, <1>4, <1>8
  <2>4. T \ {e} \in SUBSET S /\ T \ {y} \in SUBSET S /\ both \in SUBSET S
    BY <1>4
  <2>5. Sum(T \ {e}) = f[y] + Sum(both)
    BY <2>2, <2>3, <2>4
  <2>6. Sum(T \ {y}) = f[e] + Sum(both)
    BY <2>2, <2>3, <2>4
  <2>7. f[e] \in Int /\ f[y] \in Int /\ Sum(both) \in Int
    BY <1>4, <1>5, <2>4
  <2> HIDE DEF Sum, e, both
  <2>8. QED
    BY <1>3, <1>6, <2>5, <2>6, <2>7
<1>9. QED
  BY <1>7, <1>8

\* A sum depends on nothing but the values it adds up.
LEMMA SumAgrees ==
  ASSUME NEW f, NEW h, NEW S, IsFiniteSet(S), \A x \in S : f[x] = h[x]
  PROVE  SumFunctionOnSet(f, S) = SumFunctionOnSet(h, S)
<1> DEFINE Bad == {T \in SUBSET S : SumFunctionOnSet(f, T) # SumFunctionOnSet(h, T)}
<1>1. SUFFICES ASSUME Bad # {} PROVE FALSE
  BY <1>1
<1>2. PICK T \in Bad : \A U \in SUBSET T : U # T => U \notin Bad
  <2>1. Bad \in SUBSET SUBSET S
    OBVIOUS
  <2> HIDE DEF Bad
  <2>2. QED
    BY <2>1, <1>1, SmallestSubset
<1>3. IsFiniteSet(T)
  BY FS_Subset
<1>4. T # {}
  BY SumOfNothing
<1>5. T \ {Element(T)} \in SUBSET T /\ T \ {Element(T)} # T /\ Element(T) \in S
  BY <1>4, ElementIsMember
<1>6. SumFunctionOnSet(f, T \ {Element(T)}) = SumFunctionOnSet(h, T \ {Element(T)})
  BY <1>2, <1>5
<1>7. f[Element(T)] = h[Element(T)]
  BY <1>5
<1>8. /\ SumFunctionOnSet(f, T) = f[Element(T)] + SumFunctionOnSet(f, T \ {Element(T)})
      /\ SumFunctionOnSet(h, T) = h[Element(T)] + SumFunctionOnSet(h, T \ {Element(T)})
  BY <1>3, <1>4, SumUnfolds
<1>9. QED
  BY <1>2, <1>6, <1>7, <1>8

\* One value changes, and the sum by as much.
LEMMA SumChanges ==
  ASSUME NEW f, NEW h, NEW S, IsFiniteSet(S), NEW x \in S,
         \A y \in S : f[y] \in Int /\ h[y] \in Int,
         \A y \in S \ {x} : f[y] = h[y]
  PROVE  SumFunctionOnSet(h, S) = SumFunctionOnSet(f, S) + (h[x] - f[x])
<1>1. IsFiniteSet(S \ {x})
  BY FS_RemoveElement
<1>2. SumFunctionOnSet(f, S \ {x}) = SumFunctionOnSet(h, S \ {x})
  BY <1>1, SumAgrees
<1>3. SumFunctionOnSet(f, S) = f[x] + SumFunctionOnSet(f, S \ {x})
  BY SumAdds
<1>4. SumFunctionOnSet(h, S) = h[x] + SumFunctionOnSet(h, S \ {x})
  BY SumAdds
<1>5. SumFunctionOnSet(f, S \ {x}) \in Int
  BY <1>1, SumType
<1>6. QED
  BY <1>2, <1>3, <1>4, <1>5

\* A sum over a part is the sum over the whole with zeros in place of the rest.
LEMMA SumWhere ==
  ASSUME NEW f, NEW S, IsFiniteSet(S), NEW T \in SUBSET S, \A x \in T : f[x] \in Int
  PROVE  SumFunctionOnSet(f, T) = SumFunctionOnSet([x \in S |-> IF x \in T THEN f[x] ELSE 0], S)
<1> DEFINE h == [x \in S |-> IF x \in T THEN f[x] ELSE 0]
           Sum(g, U) == SumFunctionOnSet(g, U)
           Bad == {U \in SUBSET S : Sum(f, T \cap U) # Sum(h, U)}
<1>1. CASE Bad = {}
  <2>1. Sum(f, T \cap S) = Sum(h, S)
    BY <1>1
  <2>2. T \cap S = T
    OBVIOUS
  <2>3. QED
    BY <2>1, <2>2
<1>2. CASE Bad # {}
  <2>1. PICK U \in Bad : \A V \in SUBSET U : V # U => V \notin Bad
    <3>1. Bad \in SUBSET SUBSET S
      OBVIOUS
    <3> HIDE DEF Bad
    <3>2. QED
      BY <1>2, <3>1, SmallestSubset
  <2>2. IsFiniteSet(U) /\ IsFiniteSet(T \cap U)
    <3>1. T \cap U \in SUBSET S /\ U \in SUBSET S
      OBVIOUS
    <3>2. QED
      BY <3>1, FS_Subset
  <2>3. U # {}
    <3>1. T \cap {} = {}
      OBVIOUS
    <3>2. QED
      BY <2>1, <3>1, SumOfNothing
  <2> DEFINE e == Element(U)
  <2>4. e \in U /\ e \in S
    BY <2>3, ElementIsMember
  <2>5. Sum(h, U) = h[e] + Sum(h, U \ {e})
    BY <2>2, <2>3, SumUnfolds
  <2>6. Sum(f, T \cap (U \ {e})) = Sum(h, U \ {e})
    <3>1. U \ {e} \in SUBSET U /\ U \ {e} # U /\ U \ {e} \in SUBSET S
      BY <2>4
    <3>2. QED
      BY <2>1, <3>1
  <2>7. e \in T => Sum(f, T \cap U) = Sum(h, U)
    <3> HAVE e \in T
    <3>1. Sum(f, T \cap U) = f[e] + Sum(f, (T \cap U) \ {e})
      <4>1. e \in T \cap U /\ \A x \in T \cap U : f[x] \in Int
        BY <2>4
      <4>2. QED
        BY <2>2, <4>1, SumAdds
    <3>2. (T \cap U) \ {e} = T \cap (U \ {e})
      OBVIOUS
    <3>3. h[e] = f[e]
      BY <2>4
    <3> HIDE DEF Sum, h, e
    <3>4. QED
      BY <2>5, <2>6, <3>1, <3>2, <3>3
  <2>8. e \notin T => Sum(f, T \cap U) = Sum(h, U)
    <3> HAVE e \notin T
    <3>1. T \cap U = T \cap (U \ {e}) /\ h[e] = 0
      BY <2>4
    <3>2. Sum(f, T \cap U) \in Int
      BY <2>2, SumType
    <3>3. Sum(h, U) = 0 + Sum(f, T \cap U)
      BY <2>5, <2>6, <3>1
    <3>4. QED
      BY <3>2, <3>3
  <2>9. QED
    BY <2>1, <2>7, <2>8
<1>3. QED
  BY <1>1, <1>2

\* Two sums over the same set are one of the sums of their values.
LEMMA SumPlus ==
  ASSUME NEW f, NEW h, NEW S, IsFiniteSet(S), \A x \in S : f[x] \in Int /\ h[x] \in Int
  PROVE  SumFunctionOnSet(f, S) + SumFunctionOnSet(h, S)
           = SumFunctionOnSet([x \in S |-> f[x] + h[x]], S)
<1> DEFINE both == [x \in S |-> f[x] + h[x]]
           Sum(g, U) == SumFunctionOnSet(g, U)
           Bad == {U \in SUBSET S : Sum(f, U) + Sum(h, U) # Sum(both, U)}
<1>1. CASE Bad = {}
  BY <1>1
<1>2. CASE Bad # {}
  <2>1. PICK U \in Bad : \A V \in SUBSET U : V # U => V \notin Bad
    <3>1. Bad \in SUBSET SUBSET S
      OBVIOUS
    <3> HIDE DEF Bad
    <3>2. QED
      BY <1>2, <3>1, SmallestSubset
  <2>2. IsFiniteSet(U)
    BY FS_Subset
  <2>3. U # {}
    <3>1. Sum(f, {}) = 0 /\ Sum(h, {}) = 0 /\ Sum(both, {}) = 0
      BY SumOfNothing
    <3>2. Sum(f, {}) + Sum(h, {}) = Sum(both, {})
      BY <3>1
    <3>3. {} \notin Bad
      BY <3>2
    <3>4. QED
      BY <2>1, <3>3
  <2> DEFINE e == Element(U)
             rest == U \ {e}
  <2>4. e \in U /\ e \in S
    BY <2>3, ElementIsMember
  <2>5. /\ Sum(f, U) = f[e] + Sum(f, rest) /\ Sum(h, U) = h[e] + Sum(h, rest)
        /\ Sum(both, U) = both[e] + Sum(both, rest)
    BY <2>2, <2>3, SumUnfolds
  <2>6. rest \in SUBSET U /\ rest # U /\ rest \in SUBSET S /\ IsFiniteSet(rest)
    BY <2>2, <2>4, FS_RemoveElement
  <2>7. Sum(f, rest) + Sum(h, rest) = Sum(both, rest)
    BY <2>1, <2>6
  <2>8. Sum(f, rest) \in Int /\ Sum(h, rest) \in Int /\ f[e] \in Int /\ h[e] \in Int
    <3>1. \A x \in rest : f[x] \in Int /\ h[x] \in Int
      BY <2>6
    <3> HIDE DEF rest, e
    <3>2. QED
      BY <2>4, <2>6, <3>1, SumType
  <2>9. both[e] = f[e] + h[e]
    BY <2>4
  <2> HIDE DEF Sum, both, rest, e
  <2>10. QED
    BY <2>1, <2>5, <2>7, <2>8, <2>9
<1>3. QED
  BY <1>1, <1>2


\* Nothing but zeros adds up to nothing.
LEMMA SumOfZeros ==
  ASSUME NEW f, NEW S, IsFiniteSet(S), \A x \in S : f[x] = 0
  PROVE  SumFunctionOnSet(f, S) = 0
<1> DEFINE none == [x \in {} |-> 0]
           zero == [x \in S |-> IF x \in {} THEN none[x] ELSE 0]
<1>1. SumFunctionOnSet(none, {}) = SumFunctionOnSet(zero, S)
  <2> HIDE DEF none
  <2>1. QED
    BY SumWhere
<1>2. SumFunctionOnSet(f, S) = SumFunctionOnSet(zero, S)
  <2>1. \A x \in S : f[x] = zero[x]
    OBVIOUS
  <2> HIDE DEF zero
  <2>2. QED
    BY <2>1, SumAgrees
<1>3. QED
  BY <1>1, <1>2, SumOfNothing

\* Natural numbers that add up to nothing are all zero.
LEMMA SumOfNaturals ==
  ASSUME NEW f, NEW S, IsFiniteSet(S), \A x \in S : f[x] \in Nat
  PROVE  /\ SumFunctionOnSet(f, S) \in Nat
         /\ SumFunctionOnSet(f, S) = 0 => \A x \in S : f[x] = 0
<1> DEFINE Sum(T) == SumFunctionOnSet(f, T)
           Bad == {T \in SUBSET S : Sum(T) \notin Nat}
<1>1. CASE Bad = {}
  <2>1. \A T \in SUBSET S : Sum(T) \in Nat
    BY <1>1
  <2>2. ASSUME NEW x \in S, Sum(S) = 0
        PROVE  f[x] = 0
    <3>1. Sum(S) = f[x] + Sum(S \ {x})
      BY SumAdds
    <3>2. Sum(S \ {x}) \in Nat /\ f[x] \in Nat
      BY <2>1
    <3> HIDE DEF Sum
    <3>3. QED
      BY <2>2, <3>1, <3>2
  <2>3. QED
    BY <2>1, <2>2
<1>2. CASE Bad # {}
  <2>1. PICK T \in Bad : \A U \in SUBSET T : U # T => U \notin Bad
    <3>1. Bad \in SUBSET SUBSET S
      OBVIOUS
    <3> HIDE DEF Bad
    <3>2. QED
      BY <1>2, <3>1, SmallestSubset
  <2>2. IsFiniteSet(T)
    BY FS_Subset
  <2>3. T # {}
    BY SumOfNothing
  <2>4. T \ {Element(T)} \in SUBSET T /\ T \ {Element(T)} # T /\ Element(T) \in S
    BY <2>3, ElementIsMember
  <2>5. Sum(T \ {Element(T)}) \in Nat /\ f[Element(T)] \in Nat
    BY <2>1, <2>4
  <2>6. QED
    BY <2>1, <2>2, <2>3, <2>5, SumUnfolds
<1>3. QED
  BY <1>1, <1>2

\* The same value n times.
LEMMA SumOfEquals ==
  ASSUME NEW f, NEW S, IsFiniteSet(S), NEW c \in Int, \A x \in S : f[x] = c
  PROVE  SumFunctionOnSet(f, S) = c * Cardinality(S)
<1> DEFINE Sum(T) == SumFunctionOnSet(f, T)
           Bad == {T \in SUBSET S : Sum(T) # c * Cardinality(T)}
<1>1. CASE Bad = {}
  BY <1>1
<1>2. CASE Bad # {}
  <2>1. PICK T \in Bad : \A U \in SUBSET T : U # T => U \notin Bad
    <3>1. Bad \in SUBSET SUBSET S
      OBVIOUS
    <3> HIDE DEF Bad
    <3>2. QED
      BY <1>2, <3>1, SmallestSubset
  <2>2. IsFiniteSet(T)
    BY FS_Subset
  <2>3. T # {}
    <3>1. Sum({}) = 0 /\ Cardinality({}) = 0
      BY SumOfNothing, FS_EmptySet
    <3>2. Sum({}) = c * Cardinality({})
      BY <3>1
    <3>3. {} \notin Bad
      BY <3>2
    <3>4. QED
      BY <2>1, <3>3
  <2> DEFINE e == Element(T)
             rest == T \ {e}
  <2>4. rest \in SUBSET T /\ rest # T /\ e \in T /\ e \in S
    BY <2>3, ElementIsMember
  <2>5. Sum(rest) = c * Cardinality(rest) /\ f[e] = c
    BY <2>1, <2>4
  <2>6. Cardinality(rest) = Cardinality(T) - 1 /\ Cardinality(T) \in Nat
    BY <2>2, <2>4, FS_RemoveElement, FS_CardinalityType
  <2>7. Sum(T) = f[e] + Sum(rest)
    BY <2>2, <2>3, SumUnfolds
  <2>8. Sum(T) # c * Cardinality(T)
    BY <2>1
  <2> HIDE DEF Sum, e, rest
  <2>9. c + c * (Cardinality(T) - 1) = c * Cardinality(T)
    BY <2>6
  <2>10. QED
    BY <2>5, <2>6, <2>7, <2>8, <2>9
<1>3. QED
  BY <1>1, <1>2

\* Every value is taken from c, and the sum from c times their number.
LEMMA SumTurns ==
  ASSUME NEW f, NEW h, NEW S, IsFiniteSet(S), NEW c \in Int,
         \A x \in S : f[x] \in Int /\ h[x] = c - f[x]
  PROVE  SumFunctionOnSet(h, S) = c * Cardinality(S) - SumFunctionOnSet(f, S)
<1> DEFINE both == [x \in S |-> f[x] + h[x]]
<1>1. \A x \in S : h[x] \in Int
  OBVIOUS
<1>2. SumFunctionOnSet(f, S) + SumFunctionOnSet(h, S) = SumFunctionOnSet(both, S)
  BY <1>1, SumPlus
<1>3. \A x \in S : both[x] = c
  OBVIOUS
<1> HIDE DEF both
<1>4. SumFunctionOnSet(both, S) = c * Cardinality(S)
  BY <1>3, SumOfEquals
<1>5. SumFunctionOnSet(f, S) \in Int /\ SumFunctionOnSet(h, S) \in Int
  BY <1>1, SumType
<1>6. QED
  BY <1>2, <1>4, <1>5

-----------------------------------------------------------------------------
(* Folds with other operators.  An operator is not an argument of a lemma  *)
(* here: the fold's step is given as a function of a subset and a value.   *)

IsFold(g, base, step, pick, S) ==
  g = [T \in SUBSET S |-> IF T = {} THEN base ELSE step[T][g[T \ {pick[T]}]]]

Picks(pick, S) == \A T \in SUBSET S : T # {} => pick[T] \in T

\* A fold over the subsets of S restricts to one over those of a subset.
LEMMA FoldRestricts ==
  ASSUME NEW base, NEW step, NEW pick, NEW S, NEW g, IsFold(g, base, step, pick, S),
         NEW T \in SUBSET S
  PROVE  IsFold([U \in SUBSET T |-> g[U]], base, step, pick, T)
<1> DEFINE h == [U \in SUBSET T |-> g[U]]
<1>1. ASSUME NEW U \in SUBSET T
      PROVE  h[U] = IF U = {} THEN base ELSE step[U][h[U \ {pick[U]}]]
  <2>1. U \in SUBSET S /\ U \ {pick[U]} \in SUBSET T
    OBVIOUS
  <2>2. g[U] = IF U = {} THEN base ELSE step[U][g[U \ {pick[U]}]]
    BY <2>1 DEF IsFold
  <2>3. QED
    BY <2>1, <2>2
<1> HIDE DEF h
<1>2. h = [U \in SUBSET T |-> h[U]]
  BY DEF h
<1>3. h = [U \in SUBSET T |-> IF U = {} THEN base ELSE step[U][h[U \ {pick[U]}]]]
  BY <1>1, <1>2
<1>4. QED
  BY <1>3 DEF IsFold, h

\* What holds of the base and is kept by every step holds of the whole fold.
LEMMA FoldType ==
  ASSUME NEW S, IsFiniteSet(S), NEW Values, NEW pick, Picks(pick, S), NEW g,
         g[{}] \in Values,
         \A T \in SUBSET S : T # {} /\ g[T \ {pick[T]}] \in Values => g[T] \in Values
  PROVE  \A T \in SUBSET S : g[T] \in Values
<1> DEFINE Wrong == {U \in SUBSET S : g[U] \notin Values}
<1>1. SUFFICES ASSUME Wrong # {} PROVE FALSE
  BY <1>1
<1>2. PICK U \in Wrong : \A V \in SUBSET U : V # U => V \notin Wrong
  <2>1. Wrong \in SUBSET SUBSET S
    OBVIOUS
  <2> HIDE DEF Wrong
  <2>2. QED
    BY <1>1, <2>1, SmallestSubset
<1>3. U # {}
  BY <1>2
<1>4. U \ {pick[U]} \in SUBSET U /\ U \ {pick[U]} # U
  BY <1>2, <1>3 DEF Picks
<1>5. g[U \ {pick[U]}] \in Values
  BY <1>2, <1>4
<1>6. QED
  BY <1>2, <1>3, <1>5

\* There is at most one.
LEMMA FoldIsUnique ==
  ASSUME NEW S, IsFiniteSet(S), NEW base, NEW step, NEW pick, Picks(pick, S),
         NEW g, NEW h, IsFold(g, base, step, pick, S), IsFold(h, base, step, pick, S)
  PROVE  g = h
<1> DEFINE Wrong == {U \in SUBSET S : g[U] # h[U]}
<1>1. CASE Wrong = {}
  <2>1. \A U \in SUBSET S : g[U] = h[U]
    BY <1>1
  <2>2. g = [U \in SUBSET S |-> g[U]] /\ h = [U \in SUBSET S |-> h[U]]
    BY DEF IsFold
  <2>3. QED
    BY <2>1, <2>2
<1>2. CASE Wrong # {}
  <2>1. PICK U \in Wrong : \A V \in SUBSET U : V # U => V \notin Wrong
    <3>1. Wrong \in SUBSET SUBSET S
      OBVIOUS
    <3> HIDE DEF Wrong
    <3>2. QED
      BY <1>2, <3>1, SmallestSubset
  <2>2. g[U] = (IF U = {} THEN base ELSE step[U][g[U \ {pick[U]}]])
        /\ h[U] = (IF U = {} THEN base ELSE step[U][h[U \ {pick[U]}]])
    BY <2>1 DEF IsFold
  <2>3. U # {} => U \ {pick[U]} \in SUBSET U /\ U \ {pick[U]} # U
    BY <2>1 DEF Picks
  <2>4. U # {} => g[U \ {pick[U]}] = h[U \ {pick[U]}]
    BY <2>1, <2>3
  <2>5. QED
    BY <2>1, <2>2, <2>4
<1>3. QED
  BY <1>1, <1>2

\* And there is one.
LEMMA FoldExists ==
  ASSUME NEW S, IsFiniteSet(S), NEW base, NEW step, NEW pick, Picks(pick, S)
  PROVE  \E g : IsFold(g, base, step, pick, S)
<1> DEFINE Bad == {T \in SUBSET S : ~\E g : IsFold(g, base, step, pick, T)}
<1>1. CASE Bad = {}
  BY <1>1
<1>2. CASE Bad # {}
  <2>1. PICK T \in Bad : \A U \in SUBSET T : U # T => U \notin Bad
    <3>1. Bad \in SUBSET SUBSET S
      OBVIOUS
    <3> HIDE DEF Bad
    <3>2. QED
      BY <1>2, <3>1, SmallestSubset
  <2> DEFINE fold(U) == CHOOSE g : IsFold(g, base, step, pick, U)
             value(U) == fold(U)[U]
             next(U) == U \ {pick[U]}
             g == [U \in SUBSET T |->
                     IF U # T THEN value(U)
                     ELSE IF T = {} THEN base ELSE step[T][value(next(T))]]
  <2>2. \A U \in SUBSET T : U # T => IsFold(fold(U), base, step, pick, U)
    BY <2>1
  <2>3. \A U \in SUBSET T : IsFiniteSet(U) /\ Picks(pick, U)
    BY FS_Subset DEF Picks
  <2> HIDE DEF fold
  <2>4. ASSUME NEW U \in SUBSET T, U # T, NEW V \in SUBSET U
        PROVE  fold(U)[V] = value(V)
    <3>1. V \in SUBSET T /\ V # T
      BY <2>4
    <3>2. /\ IsFold(fold(U), base, step, pick, U) /\ IsFold(fold(V), base, step, pick, V)
          /\ IsFiniteSet(V) /\ Picks(pick, V)
      BY <2>2, <2>3, <2>4, <3>1
    <3>3. IsFold([W \in SUBSET V |-> fold(U)[W]], base, step, pick, V)
      BY <3>2, FoldRestricts
    <3>4. [W \in SUBSET V |-> fold(U)[W]] = fold(V)
      BY <3>2, <3>3, FoldIsUnique
    <3>5. [W \in SUBSET V |-> fold(U)[W]][V] = fold(V)[V]
      BY <3>4
    <3>6. QED
      BY <3>5
  <2>5. ASSUME NEW U \in SUBSET T
        PROVE  g[U] = IF U = {} THEN base ELSE step[U][g[next(U)]]
    <3>1. U # {} => next(U) \in SUBSET U /\ next(U) # U /\ next(U) # T
      BY DEF Picks
    <3>2. CASE U = T
      BY <3>1, <3>2
    <3>3. CASE U # T
      <4>1. fold(U)[U] = IF U = {} THEN base ELSE step[U][fold(U)[next(U)]]
        <5>1. IsFold(fold(U), base, step, pick, U)
          BY <2>2, <3>3
        <5>2. QED
          BY <5>1 DEF IsFold
      <4>2. U # {} => fold(U)[next(U)] = value(next(U))
        BY <2>4, <3>1, <3>3
      <4>3. U # {} => g[next(U)] = value(next(U))
        BY <3>1
      <4>4. g[U] = fold(U)[U]
        BY <3>3
      <4> HIDE DEF g, value
      <4>5. QED
        BY <4>1, <4>2, <4>3, <4>4
    <3>4. QED
      BY <3>2, <3>3
  <2> HIDE DEF g
  <2>6. g = [U \in SUBSET T |-> g[U]]
    BY DEF g
  <2>7. IsFold(g, base, step, pick, T)
    BY <2>5, <2>6 DEF IsFold
  <2>8. QED
    BY <2>1, <2>7
<1>3. QED
  BY <1>1, <1>2

-----------------------------------------------------------------------------
(* Folds over sequences pick the largest index that is left                *)

Largest(T) == CHOOSE x \in T : \A y \in T : x >= y

LEMMA LargestIsMember ==
  ASSUME NEW S, IsFiniteSet(S), S \subseteq Int, S # {}
  PROVE  Largest(S) \in S /\ \A y \in S : Largest(S) >= y
<1> DEFINE HasOne(T) == \E x \in T : \A y \in T : x >= y
           Bad == {T \in SUBSET S : T # {} /\ ~HasOne(T)}
<1>1. CASE Bad = {}
  <2>1. HasOne(S)
    BY <1>1
  <2>2. QED
    BY <2>1 DEF Largest
<1>2. CASE Bad # {}
  <2>1. PICK T \in Bad : \A U \in SUBSET T : U # T => U \notin Bad
    <3>1. Bad \in SUBSET SUBSET S
      OBVIOUS
    <3> HIDE DEF Bad
    <3>2. QED
      BY <1>2, <3>1, SmallestSubset
  <2>2. PICK t \in T : TRUE
    BY <2>1
  <2>3. CASE T = {t}
    BY <2>1, <2>3
  <2>4. CASE T # {t}
    <3>1. HasOne(T \ {t})
      BY <2>1, <2>2, <2>4
    <3>2. PICK x \in T \ {t} : \A y \in T \ {t} : x >= y
      BY <3>1
    <3>3. CASE x >= t
      <4>1. \A y \in T : x >= y
        BY <3>2, <3>3
      <4>2. QED
        BY <2>1, <3>2, <4>1
    <3>4. CASE ~(x >= t)
      <4>1. \A y \in T : t >= y
        BY <2>1, <2>2, <3>2, <3>4
      <4>2. QED
        BY <2>1, <2>2, <4>1
    <3>5. QED
      BY <3>3, <3>4
  <2>5. QED
    BY <2>3, <2>4
<1>3. QED
  BY <1>1, <1>2

\* What the folds over sequence s pick from a set of its indices.
Picked(s) == [T \in SUBSET DOMAIN s |-> Largest(T)]

LEMMA SequencePicks ==
  ASSUME NEW S, NEW s \in Seq(S)
  PROVE  /\ IsFiniteSet(DOMAIN s) /\ DOMAIN s = 1..Len(s)
         /\ Picks(Picked(s), DOMAIN s)
         /\ \A T \in SUBSET DOMAIN s :
              T # {} => Picked(s)[T] = Largest(T) /\ Largest(T) \in T /\ s[Largest(T)] \in S
<1>1. DOMAIN s = 1..Len(s) /\ Len(s) \in Nat
  OBVIOUS
<1>2. IsFiniteSet(DOMAIN s)
  BY <1>1, FS_Interval
<1>3. ASSUME NEW T \in SUBSET DOMAIN s, T # {}
      PROVE  Largest(T) \in T
  <2>1. IsFiniteSet(T)
    BY <1>2, FS_Subset
  <2>2. T \subseteq Int
    BY <1>1
  <2>3. QED
    BY <1>3, <2>1, <2>2, LargestIsMember
<1>4. QED
  BY <1>1, <1>2, <1>3 DEF Picks, Picked

-----------------------------------------------------------------------------
(* Recursion along a sequence                                              *)

\* What holds at 1, and at every number whose predecessor has it, holds of all
\* the numbers to n.
LEMMA StepByStep ==
  ASSUME NEW n \in Nat, NEW P, \A i \in 1..n : i = 1 \/ i - 1 \in P => i \in P
  PROVE  \A i \in 1..n : i \in P
<1> DEFINE B == {1..i : i \in {j \in 1..n : j \notin P}}
<1>1. SUFFICES ASSUME B # {} PROVE FALSE
  BY <1>1
<1>2. B \in SUBSET SUBSET (1..n)
  <2>1. \A i \in 1..n : 1..i \in SUBSET (1..n)
    OBVIOUS
  <2>2. QED
    BY <2>1
<1>3. PICK T \in B : \A U \in SUBSET T : U # T => U \notin B
  <2>1. IsFiniteSet(1..n)
    BY FS_Interval
  <2> HIDE DEF B
  <2>2. QED
    BY <1>1, <1>2, <2>1, SmallestSubset
<1>4. PICK i \in 1..n : i \notin P /\ T = 1..i
  BY <1>3
<1>5. i # 1 /\ i - 1 \in 1..n /\ i - 1 \notin P
  BY <1>4
<1>6. 1..(i - 1) \in B /\ 1..(i - 1) \in SUBSET T
  BY <1>4, <1>5
<1>7. i \in T /\ i \notin 1..(i - 1)
  BY <1>4
<1>8. QED
  BY <1>3, <1>6, <1>7

\* f has b first, and step[i] of the value before at i.
IsRecursion(f, b, step, n) ==
  f = [i \in 1..n |-> IF i = 1 THEN b ELSE step[i][f[i - 1]]]

LEMMA RecursionExists ==
  ASSUME NEW n \in Nat, NEW b, NEW step
  PROVE  \E f : IsRecursion(f, b, step, n)
<1> DEFINE P == {k \in 1..n : \E f : IsRecursion(f, b, step, k)}
<1>1. IsRecursion(<<>>, b, step, 0)
  BY DEF IsRecursion
<1>2. ASSUME NEW k \in 1..n, k = 1 \/ k - 1 \in P
      PROVE  k \in P
  <2>1. PICK f : IsRecursion(f, b, step, k - 1)
    BY <1>1, <1>2
  <2> DEFINE g == [i \in 1..k |-> IF i < k THEN f[i] ELSE IF k = 1 THEN b ELSE step[k][f[k - 1]]]
  <2>2. ASSUME NEW i \in 1..k
        PROVE  g[i] = IF i = 1 THEN b ELSE step[i][g[i - 1]]
    <3>1. i # 1 => g[i - 1] = f[i - 1]
      OBVIOUS
    <3>2. CASE i < k
      <4>1. i \in 1..(k - 1)
        BY <3>2
      <4>2. f[i] = IF i = 1 THEN b ELSE step[i][f[i - 1]]
        BY <2>1, <4>1 DEF IsRecursion
      <4>3. QED
        BY <3>1, <3>2, <4>2
    <3>3. CASE i = k
      BY <3>1, <3>3
    <3>4. QED
      BY <3>2, <3>3
  <2>3. g = [i \in 1..k |-> g[i]]
    OBVIOUS
  <2> HIDE DEF g
  <2>4. IsRecursion(g, b, step, k)
    BY <2>2, <2>3 DEF IsRecursion
  <2>5. QED
    BY <2>4
<1>3. \A k \in 1..n : k \in P
  <2> HIDE DEF P
  <2>1. QED
    BY <1>2, StepByStep
<1>4. QED
  BY <1>1, <1>3

\* The values of one, when no step leaves a set V.
LEMMA RecursionType ==
  ASSUME NEW n \in Nat, NEW V, NEW b \in V, NEW step, NEW f, IsRecursion(f, b, step, n),
         \A i \in 1..n, x \in V : step[i][x] \in V
  PROVE  f \in [1..n -> V]
<1> DEFINE P == {i \in 1..n : f[i] \in V}
<1>1. f = [i \in 1..n |-> IF i = 1 THEN b ELSE step[i][f[i - 1]]]
  BY DEF IsRecursion
<1>2. ASSUME NEW i \in 1..n, i = 1 \/ i - 1 \in P
      PROVE  i \in P
  BY <1>1, <1>2
<1> HIDE DEF P
<1>3. \A i \in 1..n : i \in P
  BY <1>2, StepByStep
<1>4. QED
  BY <1>1, <1>3 DEF P

=============================================================================
