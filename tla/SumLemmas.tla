------------------------------ MODULE SumLemmas ------------------------------
(***************************************************************************)
(* What a sum over a finite set is (SumFunctionOnSet of Functions): the    *)
(* order in which its elements are chosen does not matter, and it follows  *)
(* its terms.  The recursion is unfolded here once.  The induction is      *)
(* first-order: the smallest set, or number, where a fact fails.           *)
(***************************************************************************)
EXTENDS Functions, FiniteSetTheorems, WellFoundedInduction, TLAPS

Chosen(s) == CHOOSE x \in s : TRUE
SumStep(g, f, s) == IF s = {} THEN 0 ELSE f[Chosen(s)] + g[s \ {Chosen(s)}]
IsSum(g, f, D) == g = [s \in D |-> SumStep(g, f, s)]

LEMMA SumIsChosen ==
    ASSUME NEW f, NEW S
    PROVE  SumFunctionOnSet(f, S) = (CHOOSE g : IsSum(g, f, SUBSET S))[S]
  BY DEF SumFunctionOnSet, FoldFunctionOnSet, MapThenFoldSet, IsSum, SumStep, Chosen

LEMMA LeastNumber ==
    ASSUME NEW B, B \subseteq Nat, B # {}
    PROVE  \E n \in B : \A m \in B : ~(m < n)
<1>1. \E n \in B : \A m \in B : <<m, n>> \notin OpToRel(<, Nat)
  BY NatLessThanWellFounded, WFMin
<1> QED BY <1>1 DEF OpToRel

\* A set of subsets has one without a smaller one in it.
LEMMA LeastSubset ==
    ASSUME NEW S, IsFiniteSet(S), NEW B, B \subseteq SUBSET S, B # {}
    PROVE  \E s \in B : \A t \in B : t \subseteq s => t = s
<1>1. B \subseteq FiniteSubsetsOf(S)
  BY FS_FiniteSubsetsOfFinite
<1>2. PICK s \in B : \A t \in B : <<t, s>> \notin StrictSubsetOrdering(S)
  BY <1>1, WFMin, FS_StrictSubsetOrderingWellFounded
<1> QED BY <1>2 DEF StrictSubsetOrdering

LEMMA ChosenIn == \A s : s # {} => Chosen(s) \in s
  BY DEF Chosen

\* The recursion has a solution: by the size of the subsets.
LEMMA SumExists ==
    ASSUME NEW f, NEW S, IsFiniteSet(S)
    PROVE  \E g : IsSum(g, f, SUBSET S)
<1> DEFINE Upto(n) == {s \in SUBSET S : Cardinality(s) <= n}
           Fails == {n \in Nat : ~\E g : IsSum(g, f, Upto(n))}
<1>1. \A s \in SUBSET S : IsFiniteSet(s) /\ Cardinality(s) \in Nat
  BY FS_Subset, FS_CardinalityType
<1>2. \A s \in SUBSET S : s # {} =>
        /\ s \ {Chosen(s)} \in SUBSET S
        /\ Cardinality(s \ {Chosen(s)}) = Cardinality(s) - 1
        /\ Cardinality(s) > 0
  <2> SUFFICES ASSUME NEW s \in SUBSET S, s # {}
               PROVE  /\ Cardinality(s \ {Chosen(s)}) = Cardinality(s) - 1
                      /\ Cardinality(s) > 0
    OBVIOUS
  <2>1. Chosen(s) \in s
    BY ChosenIn
  <2>2. Cardinality(s \ {Chosen(s)}) = Cardinality(s) - 1
    BY <1>1, <2>1, FS_RemoveElement
  <2>3. Cardinality(s) # 0
    BY <1>1, FS_EmptySet
  <2> QED BY <1>1, <2>2, <2>3
<1>3. Fails = {}
  <2> SUFFICES ASSUME Fails # {} PROVE FALSE
    OBVIOUS
  <2>1. PICK n \in Fails : \A m \in Fails : ~(m < n)
    <3>1. Fails \subseteq Nat
      OBVIOUS
    <3> HIDE DEF Fails
    <3> QED BY <3>1, LeastNumber
  <2>2. n \in Nat /\ ~\E g : IsSum(g, f, Upto(n))
    OBVIOUS
  <2>3. CASE n = 0
    <3>1. ASSUME NEW s \in Upto(n) PROVE s = {}
      <4>1. s \in SUBSET S /\ Cardinality(s) <= 0 /\ Cardinality(s) \in Nat
        BY <1>1, <2>3
      <4>2. s # {} => Cardinality(s) > 0
        BY <1>2, <4>1
      <4> HIDE DEF Upto
      <4> QED BY <4>1, <4>2
    <3>2. IsSum([s \in Upto(n) |-> 0], f, Upto(n))
      BY <3>1 DEF IsSum, SumStep
    <3> QED BY <2>2, <3>2
  <2>4. CASE n # 0
    <3>1. n - 1 \in Nat /\ n - 1 < n
      BY <2>2, <2>4
    <3>2. PICK g : IsSum(g, f, Upto(n - 1))
      BY <2>1, <3>1
    <3> DEFINE G == [s \in Upto(n) |-> SumStep(g, f, s)]
    <3>3. \A s \in Upto(n - 1) : g[s] = SumStep(g, f, s) /\ s \in Upto(n)
      BY <1>1, <2>2, <3>2 DEF IsSum
    <3>4. \A s \in Upto(n) : s # {} => s \ {Chosen(s)} \in Upto(n - 1)
      BY <1>1, <1>2, <2>2
    <3> HIDE DEF Upto
    <3>5. \A s \in Upto(n) : SumStep(G, f, s) = SumStep(g, f, s)
      BY <3>3, <3>4 DEF SumStep
    <3>6. IsSum(G, f, Upto(n))
      BY <3>5 DEF IsSum
    <3> QED BY <2>2, <3>6
  <2> QED BY <2>3, <2>4
<1>4. Upto(Cardinality(S)) = SUBSET S
  BY FS_Subset, <1>1
<1>5. Cardinality(S) \in Nat
  BY FS_CardinalityType
<1> QED BY <1>3, <1>4, <1>5

\* Two solutions agree where both are defined.
BothSum(g, h, f, S, T) ==
    IsFiniteSet(S) /\ T \subseteq S /\ IsSum(g, f, SUBSET S) /\ IsSum(h, f, SUBSET T)

LEMMA SumUnique ==
    ASSUME NEW f, NEW S, NEW T, NEW g, NEW h, BothSum(g, h, f, S, T)
    PROVE  g[T] = h[T]
<1> USE DEF BothSum
<1> DEFINE Fails == {s \in SUBSET T : g[s] # h[s]}
<1>1. \A s \in SUBSET T : g[s] = SumStep(g, f, s) /\ h[s] = SumStep(h, f, s)
  BY DEF IsSum
<1>2. IsFiniteSet(T)
  BY FS_Subset
<1>3. Fails = {}
  <2> SUFFICES ASSUME Fails # {} PROVE FALSE
    OBVIOUS
  <2>1. PICK s \in Fails : \A t \in Fails : t \subseteq s => t = s
    <3>1. Fails \subseteq SUBSET T
      OBVIOUS
    <3> HIDE DEF Fails
    <3> QED BY <1>2, <3>1, LeastSubset
  <2>2. s # {} => g[s \ {Chosen(s)}] = h[s \ {Chosen(s)}]
    <3> SUFFICES ASSUME s # {} PROVE s \ {Chosen(s)} \in SUBSET T /\ s \ {Chosen(s)} \notin Fails
      OBVIOUS
    <3>1. Chosen(s) \in s /\ s \ {Chosen(s)} \subseteq s /\ s \ {Chosen(s)} # s
      BY ChosenIn
    <3> QED BY <2>1, <3>1
  <2> QED BY <1>1, <2>2 DEF SumStep
<1> QED BY <1>3

(***************************************************************************)
(* The sum over no element is 0, and over a set the term of the element    *)
(* that is chosen from it plus the sum over the rest.                      *)
(***************************************************************************)
LEMMA SumUnfolds ==
    ASSUME NEW f, NEW S, IsFiniteSet(S)
    PROVE  /\ S = {} => SumFunctionOnSet(f, S) = 0
           /\ S # {} => SumFunctionOnSet(f, S)
                          = f[Chosen(S)] + SumFunctionOnSet(f, S \ {Chosen(S)})
<1> DEFINE g == CHOOSE g : IsSum(g, f, SUBSET S)
<1>1. IsSum(g, f, SUBSET S)
  BY SumExists
<1>2. SumFunctionOnSet(f, S) = g[S]
  BY SumIsChosen
<1> HIDE DEF g
<1>3. g[S] = SumStep(g, f, S)
  BY <1>1 DEF IsSum
<1>4. ASSUME NEW T \in SUBSET S PROVE g[T] = SumFunctionOnSet(f, T)
  <2> DEFINE h == CHOOSE h : IsSum(h, f, SUBSET T)
  <2>1. IsSum(h, f, SUBSET T)
    BY FS_Subset, SumExists
  <2>2. SumFunctionOnSet(f, T) = h[T]
    BY SumIsChosen
  <2> HIDE DEF h
  <2>3. BothSum(g, h, f, S, T)
    BY <1>1, <2>1 DEF BothSum
  <2>4. g[T] = h[T]
    BY <2>3, SumUnique
  <2> QED BY <2>2, <2>4
<1> QED BY <1>2, <1>3, <1>4 DEF SumStep

Summable(f, S) == IsFiniteSet(S) /\ \A x \in S : f[x] \in Int
Countable(f, S) == IsFiniteSet(S) /\ \A x \in S : f[x] \in Nat

LEMMA Rest ==
    ASSUME NEW S, IsFiniteSet(S), S # {}
    PROVE  /\ Chosen(S) \in S /\ S \ {Chosen(S)} \in SUBSET S /\ S \ {Chosen(S)} # S
           /\ \A T \in SUBSET S : IsFiniteSet(T)
  BY ChosenIn, FS_Subset

LEMMA SumType ==
    ASSUME NEW f, NEW S, Summable(f, S)
    PROVE  SumFunctionOnSet(f, S) \in Int
<1> DEFINE Fails == {T \in SUBSET S : SumFunctionOnSet(f, T) \notin Int}
<1> SUFFICES ASSUME Fails # {} PROVE FALSE
  OBVIOUS
<1>1. IsFiniteSet(S) /\ \A x \in S : f[x] \in Int
  BY DEF Summable
<1>2. PICK T \in Fails : \A U \in Fails : U \subseteq T => U = T
  <2>1. Fails \subseteq SUBSET S
    OBVIOUS
  <2> HIDE DEF Fails
  <2> QED BY <1>1, <2>1, LeastSubset
<1>3. IsFiniteSet(T) /\ T \subseteq S
  BY <1>1, FS_Subset
<1>4. T # {}
  <2>1. SumFunctionOnSet(f, {}) = 0
    BY FS_EmptySet, SumUnfolds
  <2> QED BY <2>1
<1>5. SumFunctionOnSet(f, T \ {Chosen(T)}) \in Int
  BY <1>2, <1>3, <1>4, Rest
<1>6. f[Chosen(T)] \in Int
  BY <1>1, <1>3, <1>4, Rest
<1>7. SumFunctionOnSet(f, T) \in Int
  BY <1>3, <1>4, <1>5, <1>6, SumUnfolds
<1> QED BY <1>7

\* Any element may be taken out first.
LEMMA SumTakes ==
    ASSUME NEW f, NEW S, Summable(f, S), NEW x \in S
    PROVE  SumFunctionOnSet(f, S) = f[x] + SumFunctionOnSet(f, S \ {x})
<1> DEFINE Sum(T) == SumFunctionOnSet(f, T)
           Fails == {T \in SUBSET S : \E y \in T : Sum(T) # f[y] + Sum(T \ {y})}
<1> SUFFICES ASSUME Fails # {} PROVE FALSE
  BY DEF Summable
<1>1. IsFiniteSet(S) /\ \A y \in S : f[y] \in Int
  BY DEF Summable
<1>2. PICK T \in Fails : \A U \in Fails : U \subseteq T => U = T
  <2>1. Fails \subseteq SUBSET S
    OBVIOUS
  <2> HIDE DEF Fails
  <2> QED BY <1>1, <2>1, LeastSubset
<1>3. \A U \in SUBSET T : Sum(U) \in Int /\ IsFiniteSet(U)
  <2> SUFFICES ASSUME NEW U \in SUBSET T PROVE Summable(f, U)
    BY SumType DEF Summable
  <2> QED BY <1>1, FS_Subset DEF Summable
<1>4. PICK y \in T : Sum(T) # f[y] + Sum(T \ {y})
  OBVIOUS
<1> DEFINE c == Chosen(T)
<1>5. /\ c \in T /\ f[c] \in Int /\ f[y] \in Int
      /\ Sum(T) = f[c] + Sum(T \ {c})
  BY <1>1, <1>3, ChosenIn, SumUnfolds
<1> HIDE DEF c
<1>6. y # c
  BY <1>4, <1>5
<1>7. /\ T \ {c} \notin Fails /\ T \ {y} \notin Fails
  BY <1>2, <1>5
<1>8. Sum(T \ {c}) = f[y] + Sum((T \ {c}) \ {y})
  BY <1>6, <1>7
<1>9. Sum(T \ {y}) = f[c] + Sum((T \ {y}) \ {c})
  BY <1>5, <1>6, <1>7
<1>10. (T \ {c}) \ {y} = (T \ {y}) \ {c}
  OBVIOUS
<1>11. Sum((T \ {c}) \ {y}) \in Int /\ Sum(T \ {y}) \in Int
  BY <1>3
<1>12. Sum(T) # f[y] + Sum(T \ {y})
  BY <1>4
<1> HIDE DEF Sum, Fails
<1>13. Sum(T) = f[c] + (f[y] + Sum((T \ {c}) \ {y}))
  BY <1>5, <1>8
<1>14. f[y] + Sum(T \ {y}) = f[y] + (f[c] + Sum((T \ {c}) \ {y}))
  BY <1>9, <1>10
<1>15. \A i, j, k \in Int : i + (j + k) = j + (i + k)
  OBVIOUS
<1>16. f[c] + (f[y] + Sum((T \ {c}) \ {y})) = f[y] + (f[c] + Sum((T \ {c}) \ {y}))
  BY <1>5, <1>11, <1>15
<1> QED BY <1>12, <1>13, <1>14, <1>16

\* Terms that are not more give a sum that is not more.
LEMMA SumMonotone ==
    ASSUME NEW f, NEW g, NEW S, Summable(f, S), Summable(g, S), \A x \in S : f[x] <= g[x]
    PROVE  SumFunctionOnSet(f, S) <= SumFunctionOnSet(g, S)
<1> DEFINE F(T) == SumFunctionOnSet(f, T)
           G(T) == SumFunctionOnSet(g, T)
           Fails == {T \in SUBSET S : ~(F(T) <= G(T))}
<1> SUFFICES ASSUME Fails # {} PROVE FALSE
  BY DEF Summable
<1>1. IsFiniteSet(S) /\ \A y \in S : f[y] \in Int /\ g[y] \in Int
  BY DEF Summable
<1>2. PICK T \in Fails : \A U \in Fails : U \subseteq T => U = T
  <2>1. Fails \subseteq SUBSET S
    OBVIOUS
  <2> HIDE DEF Fails
  <2> QED BY <1>1, <2>1, LeastSubset
<1>3. \A U \in SUBSET T : F(U) \in Int /\ G(U) \in Int /\ IsFiniteSet(U)
  <2> SUFFICES ASSUME NEW U \in SUBSET T PROVE Summable(f, U) /\ Summable(g, U)
    BY SumType DEF Summable
  <2> QED BY <1>1, FS_Subset DEF Summable
<1>4. T # {}
  <2>1. F({}) = 0 /\ G({}) = 0
    BY FS_EmptySet, SumUnfolds
  <2> QED BY <2>1
<1> DEFINE c == Chosen(T)
<1>5. /\ c \in T /\ f[c] \in Int /\ g[c] \in Int /\ f[c] <= g[c]
      /\ F(T) = f[c] + F(T \ {c}) /\ G(T) = g[c] + G(T \ {c})
  BY <1>1, <1>3, <1>4, ChosenIn, SumUnfolds
<1> HIDE DEF c
<1>6. F(T \ {c}) <= G(T \ {c})
  BY <1>2, <1>5
<1>7. F(T \ {c}) \in Int /\ G(T \ {c}) \in Int /\ ~(F(T) <= G(T))
  BY <1>3
<1> HIDE DEF F, G
<1> QED BY <1>5, <1>6, <1>7

LEMMA SumSame ==
    ASSUME NEW f, NEW g, NEW S, Summable(f, S), \A x \in S : f[x] = g[x]
    PROVE  SumFunctionOnSet(f, S) = SumFunctionOnSet(g, S)
<1>1. Summable(g, S) /\ \A x \in S : f[x] <= g[x] /\ g[x] <= f[x]
  BY DEF Summable
<1>2. /\ SumFunctionOnSet(f, S) <= SumFunctionOnSet(g, S)
      /\ SumFunctionOnSet(g, S) <= SumFunctionOnSet(f, S)
  BY <1>1, SumMonotone
<1>3. SumFunctionOnSet(f, S) \in Int /\ SumFunctionOnSet(g, S) \in Int
  BY <1>1, SumType
<1> QED BY <1>2, <1>3

\* A sum follows the one term that changes.
LEMMA SumChanges ==
    ASSUME NEW f, NEW g, NEW S, Summable(f, S), Summable(g, S), NEW x \in S,
           \A y \in S \ {x} : f[y] = g[y]
    PROVE  SumFunctionOnSet(g, S) = SumFunctionOnSet(f, S) - f[x] + g[x]
<1>1. Summable(f, S \ {x})
  BY FS_Subset DEF Summable
<1>2. SumFunctionOnSet(f, S \ {x}) = SumFunctionOnSet(g, S \ {x})
  BY <1>1, SumSame
<1>3. /\ SumFunctionOnSet(f, S) = f[x] + SumFunctionOnSet(f, S \ {x})
      /\ SumFunctionOnSet(g, S) = g[x] + SumFunctionOnSet(g, S \ {x})
  BY SumTakes
<1>4. SumFunctionOnSet(f, S \ {x}) \in Int /\ f[x] \in Int /\ g[x] \in Int
  BY <1>1, SumType DEF Summable
<1> QED BY <1>2, <1>3, <1>4

\* One element more.
LEMMA SumGains ==
    ASSUME NEW f, NEW S, NEW x, x \notin S, Summable(f, S \cup {x})
    PROVE  /\ SumFunctionOnSet(f, S \cup {x}) = SumFunctionOnSet(f, S) + f[x]
           /\ SumFunctionOnSet(f, S) \in Int
<1>1. (S \cup {x}) \ {x} = S
  OBVIOUS
<1>2. SumFunctionOnSet(f, S \cup {x}) = f[x] + SumFunctionOnSet(f, S)
  BY <1>1, SumTakes
<1>3. Summable(f, S)
  BY FS_Subset DEF Summable
<1>4. SumFunctionOnSet(f, S) \in Int /\ f[x] \in Int
  BY <1>3, SumType DEF Summable
<1> QED BY <1>2, <1>4

\* Sums are added term by term.
LEMMA SumAdds ==
    ASSUME NEW f, NEW g, NEW h, NEW S, Summable(f, S), Summable(g, S),
           \A x \in S : h[x] = f[x] + g[x]
    PROVE  SumFunctionOnSet(h, S) = SumFunctionOnSet(f, S) + SumFunctionOnSet(g, S)
<1> DEFINE F(T) == SumFunctionOnSet(f, T)
           G(T) == SumFunctionOnSet(g, T)
           H(T) == SumFunctionOnSet(h, T)
           Fails == {T \in SUBSET S : H(T) # F(T) + G(T)}
<1> SUFFICES ASSUME Fails # {} PROVE FALSE
  BY DEF Summable
<1>1. IsFiniteSet(S) /\ \A y \in S : f[y] \in Int /\ g[y] \in Int /\ h[y] \in Int
  BY DEF Summable
<1>2. PICK T \in Fails : \A U \in Fails : U \subseteq T => U = T
  <2>1. Fails \subseteq SUBSET S
    OBVIOUS
  <2> HIDE DEF Fails
  <2> QED BY <1>1, <2>1, LeastSubset
<1>3. \A U \in SUBSET T : F(U) \in Int /\ G(U) \in Int /\ H(U) \in Int /\ IsFiniteSet(U)
  <2> SUFFICES ASSUME NEW U \in SUBSET T PROVE Summable(f, U) /\ Summable(g, U) /\ Summable(h, U)
    BY SumType DEF Summable
  <2> QED BY <1>1, FS_Subset DEF Summable
<1>4. T # {}
  <2>1. F({}) = 0 /\ G({}) = 0 /\ H({}) = 0
    BY FS_EmptySet, SumUnfolds
  <2> QED BY <2>1
<1> DEFINE c == Chosen(T)
<1>5. /\ c \in T /\ f[c] \in Int /\ g[c] \in Int /\ h[c] = f[c] + g[c]
      /\ F(T) = f[c] + F(T \ {c}) /\ G(T) = g[c] + G(T \ {c}) /\ H(T) = h[c] + H(T \ {c})
  BY <1>1, <1>3, <1>4, ChosenIn, SumUnfolds
<1> HIDE DEF c
<1>6. H(T \ {c}) = F(T \ {c}) + G(T \ {c})
  BY <1>2, <1>5
<1>7. F(T \ {c}) \in Int /\ G(T \ {c}) \in Int /\ H(T) # F(T) + G(T)
  BY <1>3
<1> HIDE DEF F, G, H
<1> QED BY <1>5, <1>6, <1>7

LEMMA SumZero ==
    ASSUME NEW f, NEW S, IsFiniteSet(S), \A x \in S : f[x] = 0
    PROVE  SumFunctionOnSet(f, S) = 0
<1> DEFINE Fails == {T \in SUBSET S : SumFunctionOnSet(f, T) # 0}
<1> SUFFICES ASSUME Fails # {} PROVE FALSE
  OBVIOUS
<1>1. PICK T \in Fails : \A U \in Fails : U \subseteq T => U = T
  <2>1. Fails \subseteq SUBSET S
    OBVIOUS
  <2> HIDE DEF Fails
  <2> QED BY <2>1, LeastSubset
<1>2. IsFiniteSet(T) /\ T # {} /\ Chosen(T) \in T
  BY FS_Subset, SumUnfolds, ChosenIn
<1>3. SumFunctionOnSet(f, T \ {Chosen(T)}) = 0 /\ f[Chosen(T)] = 0
  BY <1>1, <1>2
<1> QED BY <1>2, <1>3, SumUnfolds

LEMMA SumNat ==
    ASSUME NEW f, NEW S, Countable(f, S)
    PROVE  Summable(f, S) /\ SumFunctionOnSet(f, S) \in Nat
<1> DEFINE zero == [x \in S |-> 0]
<1>1. Summable(f, S) /\ Summable(zero, S) /\ \A x \in S : zero[x] <= f[x]
  BY DEF Summable, Countable
<1>2. SumFunctionOnSet(f, S) \in Int /\ SumFunctionOnSet(zero, S) <= SumFunctionOnSet(f, S)
  BY <1>1, SumType, SumMonotone
<1>3. SumFunctionOnSet(zero, S) = 0
  BY SumZero DEF Countable
<1> QED BY <1>1, <1>2, <1>3

\* A larger set of natural numbers has a sum that is not less.
LEMMA SumGrows ==
    ASSUME NEW f, NEW S, Countable(f, S), NEW T \in SUBSET S
    PROVE  SumFunctionOnSet(f, T) <= SumFunctionOnSet(f, S)
<1> DEFINE Fails == {U \in SUBSET S : T \subseteq U /\ ~(SumFunctionOnSet(f, T) <= SumFunctionOnSet(f, U))}
<1> SUFFICES ASSUME Fails # {} PROVE FALSE
  OBVIOUS
<1>1. PICK U \in Fails : \A V \in Fails : V \subseteq U => V = U
  <2>1. Fails \subseteq SUBSET S /\ IsFiniteSet(S)
    BY DEF Countable
  <2> HIDE DEF Fails
  <2> QED BY <2>1, LeastSubset
<1>2. \A V \in SUBSET S : Summable(f, V) /\ SumFunctionOnSet(f, V) \in Nat
  <2>1. \A V \in SUBSET S : Countable(f, V)
    BY FS_Subset DEF Countable
  <2> QED BY <2>1, SumNat
<1>3. U # T
  BY <1>1, <1>2
<1>4. PICK x \in U : x \notin T
  BY <1>1, <1>3
<1>5. SumFunctionOnSet(f, T) <= SumFunctionOnSet(f, U \ {x})
  BY <1>1, <1>4
<1>6. SumFunctionOnSet(f, U) = f[x] + SumFunctionOnSet(f, U \ {x})
  BY <1>2, SumTakes
<1>7. /\ f[x] \in Nat /\ SumFunctionOnSet(f, T) \in Nat /\ SumFunctionOnSet(f, U \ {x}) \in Nat
      /\ ~(SumFunctionOnSet(f, T) <= SumFunctionOnSet(f, U))
  BY <1>2 DEF Countable
<1> QED BY <1>5, <1>6, <1>7

(***************************************************************************)
(* A sum whose terms are at most c on a part of the set and 0 outside, or  *)
(* at least c on the part.                                                 *)
(***************************************************************************)
LEMMA SumAtMost ==
    ASSUME NEW f, NEW S, Countable(f, S), NEW T \in SUBSET S, NEW c \in Nat,
           \A x \in T : f[x] <= c, \A x \in S \ T : f[x] = 0
    PROVE  SumFunctionOnSet(f, S) <= c * Cardinality(T)
<1> DEFINE Fails == {U \in SUBSET S : ~(SumFunctionOnSet(f, U) <= c * Cardinality(U \cap T))}
<1>1. IsFiniteSet(S) /\ S \cap T = T
  BY DEF Countable
<1> SUFFICES ASSUME Fails # {} PROVE FALSE
  BY <1>1
<1>2. PICK U \in Fails : \A V \in Fails : V \subseteq U => V = U
  <2>1. Fails \subseteq SUBSET S
    OBVIOUS
  <2> HIDE DEF Fails
  <2> QED BY <1>1, <2>1, LeastSubset
<1>3. \A V \in SUBSET S : /\ IsFiniteSet(V) /\ IsFiniteSet(V \cap T) /\ Cardinality(V \cap T) \in Nat
                          /\ Summable(f, V) /\ SumFunctionOnSet(f, V) \in Nat
  <2> SUFFICES ASSUME NEW V \in SUBSET S
               PROVE  IsFiniteSet(V) /\ IsFiniteSet(V \cap T) /\ Countable(f, V)
    BY SumNat, FS_CardinalityType
  <2> QED BY <1>1, FS_Subset DEF Countable
<1>4. U # {}
  <2>1. SumFunctionOnSet(f, {}) = 0 /\ Cardinality({}) = 0
    BY FS_EmptySet, SumUnfolds
  <2>2. {} \cap T = {} /\ c * 0 = 0
    OBVIOUS
  <2> QED BY <2>1, <2>2
<1>5. PICK x \in U : TRUE
  BY <1>4
<1> DEFINE V == U \ {x}
<1>6. SumFunctionOnSet(f, U) = f[x] + SumFunctionOnSet(f, V) /\ f[x] \in Nat
  BY <1>2, <1>3, <1>5, SumTakes DEF Countable
<1>7. SumFunctionOnSet(f, V) <= c * Cardinality(V \cap T)
  BY <1>2, <1>5
<1>8. /\ SumFunctionOnSet(f, V) \in Nat /\ Cardinality(V \cap T) \in Nat
      /\ Cardinality(U \cap T) \in Nat
  BY <1>2, <1>3
<1>9. ~(SumFunctionOnSet(f, U) <= c * Cardinality(U \cap T))
  BY <1>2
<1>10. CASE x \in T
  <2>1. V \cap T = (U \cap T) \ {x} /\ x \in U \cap T /\ IsFiniteSet(U \cap T)
    BY <1>2, <1>3, <1>5, <1>10
  <2>2. Cardinality(V \cap T) = Cardinality(U \cap T) - 1
    <3> DEFINE W == U \cap T
    <3>1. IsFiniteSet(W) /\ x \in W /\ V \cap T = W \ {x}
      BY <2>1
    <3> HIDE DEF W, V
    <3>2. Cardinality(W \ {x}) = Cardinality(W) - 1
      BY <3>1, FS_RemoveElement
    <3> QED BY <3>1, <3>2 DEF W
  <2>3. f[x] <= c
    BY <1>10
  <2>4. \A n \in Nat : c * (n - 1) = c * n - c /\ c * n \in Nat
    OBVIOUS
  <2>5. c * Cardinality(V \cap T) = c * Cardinality(U \cap T) - c /\ c * Cardinality(U \cap T) \in Nat
    BY <1>8, <2>2, <2>4
  <2> HIDE DEF V
  <2> QED BY <1>6, <1>7, <1>8, <1>9, <2>3, <2>5
<1>11. CASE x \notin T
  <2>1. V \cap T = U \cap T /\ f[x] = 0
    BY <1>2, <1>5, <1>11
  <2> HIDE DEF V
  <2> QED BY <1>6, <1>7, <1>8, <1>9, <2>1
<1> QED BY <1>10, <1>11

LEMMA SumAtLeast ==
    ASSUME NEW f, NEW S, Countable(f, S), NEW T \in SUBSET S, NEW c \in Nat,
           \A x \in T : c <= f[x]
    PROVE  c * Cardinality(T) <= SumFunctionOnSet(f, S)
<1> DEFINE Fails == {U \in SUBSET T : ~(c * Cardinality(U) <= SumFunctionOnSet(f, U))}
<1>1. IsFiniteSet(T) /\ IsFiniteSet(S)
  BY FS_Subset DEF Countable
<1>2. \A V \in SUBSET T : /\ IsFiniteSet(V) /\ Cardinality(V) \in Nat
                          /\ Summable(f, V) /\ SumFunctionOnSet(f, V) \in Nat
  <2> SUFFICES ASSUME NEW V \in SUBSET T PROVE IsFiniteSet(V) /\ Countable(f, V)
    BY SumNat, FS_CardinalityType
  <2> QED BY <1>1, FS_Subset DEF Countable
<1>3. Fails = {}
  <2> SUFFICES ASSUME Fails # {} PROVE FALSE
    OBVIOUS
  <2>1. PICK U \in Fails : \A V \in Fails : V \subseteq U => V = U
    <3>1. Fails \subseteq SUBSET T
      OBVIOUS
    <3> HIDE DEF Fails
    <3> QED BY <1>1, <3>1, LeastSubset
  <2>2. U # {}
    <3>1. SumFunctionOnSet(f, {}) = 0 /\ Cardinality({}) = 0
      BY FS_EmptySet, SumUnfolds
    <3>2. c * 0 = 0
      OBVIOUS
    <3> QED BY <3>1, <3>2
  <2>3. PICK x \in U : TRUE
    BY <2>2
  <2> DEFINE V == U \ {x}
  <2>4. SumFunctionOnSet(f, U) = f[x] + SumFunctionOnSet(f, V) /\ f[x] \in Nat /\ c <= f[x]
    BY <2>1, <1>2, <2>3, SumTakes DEF Countable
  <2>5. c * Cardinality(V) <= SumFunctionOnSet(f, V)
    BY <2>1, <2>3
  <2>6. /\ SumFunctionOnSet(f, V) \in Nat /\ Cardinality(V) \in Nat /\ Cardinality(U) \in Nat
        /\ Cardinality(V) = Cardinality(U) - 1
    BY <1>2, <2>1, <2>3, FS_RemoveElement
  <2>7. ~(c * Cardinality(U) <= SumFunctionOnSet(f, U))
    BY <2>1
  <2>8. \A n \in Nat : c * (n - 1) = c * n - c /\ c * n \in Nat
    OBVIOUS
  <2>9. c * Cardinality(V) = c * Cardinality(U) - c /\ c * Cardinality(U) \in Nat
    BY <2>6, <2>8
  <2> HIDE DEF V
  <2> QED BY <2>4, <2>5, <2>6, <2>7, <2>9
<1>4. c * Cardinality(T) <= SumFunctionOnSet(f, T)
  BY <1>3
<1>5. c * Cardinality(T) \in Nat /\ SumFunctionOnSet(f, T) \in Nat /\ SumFunctionOnSet(f, S) \in Nat
  BY <1>2, SumNat
<1>6. SumFunctionOnSet(f, T) <= SumFunctionOnSet(f, S)
  BY SumGrows
<1> QED BY <1>4, <1>5, <1>6
==============================================================================
