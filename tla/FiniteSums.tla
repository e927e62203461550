----------------------------- MODULE FiniteSums -----------------------------
(***************************************************************************)
(* Sums of a column over a finite set of rows, as MapThenSumSet computes   *)
(* them: what a ledger adds up to when one row changes, when rows are      *)
(* added to the set, and when one column lies below another.               *)
(***************************************************************************)
EXTENDS Integers, FiniteSetsExt, FiniteSetTheorems, WellFoundedInduction, TLAPS

SumOf(f, S) == MapThenSumSet(LAMBDA x : f[x], S)

(***************************************************************************)
(* Induction on finite sets, in the form the provers can use: a collection *)
(* of subsets of a finite set has a smallest one.                          *)
(***************************************************************************)
LEMMA SmallestSubset ==
  ASSUME NEW S, IsFiniteSet(S), NEW F, F \subseteq SUBSET S, F # {}
  PROVE  \E T \in F : \A U \in F : U \subseteq T => U = T
<1>1. IsWellFoundedOn(StrictSubsetOrdering(S), SUBSET S)
  BY FS_StrictSubsetOrderingWellFounded, FS_FiniteSubsetsOfFinite
<1>2. PICK T \in F : \A U \in F : <<U, T>> \notin StrictSubsetOrdering(S)
  BY <1>1, WFMin
<1>3. ASSUME NEW U \in F, U \subseteq T PROVE U = T
  BY <1>2, <1>3 DEF StrictSubsetOrdering
<1> QED  BY <1>3

(***************************************************************************)
(* The equations of the recursive function behind MapThenSumSet.           *)
(***************************************************************************)
Pick(T) == CHOOSE x \in T : TRUE
Unfold(f, g, T) == IF T = {} THEN 0 ELSE f[Pick(T)] + g[T \ {Pick(T)}]
Iterates(f, g, S) == g = [T \in SUBSET S |-> Unfold(f, g, T)]

LEMMA SumOfIterate ==
  ASSUME NEW f, NEW S
  PROVE  SumOf(f, S) = (CHOOSE g : Iterates(f, g, S))[S]
BY Zenon DEF SumOf, MapThenSumSet, MapThenFoldSet, Iterates, Unfold, Pick

Sums(f, S) == [T \in SUBSET S |-> SumOf(f, T)]

\* The sums of the subsets are the one function that satisfies the equations.
LEMMA IterateIsSums ==
  ASSUME NEW f, NEW S, IsFiniteSet(S)
  PROVE  \A g : Iterates(f, g, S) <=> g = Sums(f, S)
<1> DEFINE Good(T) == \A g : Iterates(f, g, T) <=> g = Sums(f, T)
           Bad == {T \in SUBSET S : ~Good(T)}
<1>0. SUFFICES ASSUME ~Good(S) PROVE FALSE
  OBVIOUS
<1>1. S \in Bad
  BY <1>0
<1> HIDE DEF Good
<1>2. PICK T \in Bad : \A U \in Bad : U \subseteq T => U = T
  <2>1. Bad \subseteq SUBSET S /\ Bad # {}
    BY <1>1
  <2> HIDE DEF Bad
  <2> QED  BY <2>1, SmallestSubset
<1>3. ASSUME NEW U \in SUBSET T, U # T PROVE Good(U)
  BY <1>2, <1>3
<1> DEFINE h == [U \in SUBSET T |-> IF U = T THEN Unfold(f, Sums(f, T), T) ELSE SumOf(f, U)]
<1>4. ASSUME NEW U \in SUBSET T, U # {} PROVE Pick(U) \in U /\ U \ {Pick(U)} # U /\ U \ {Pick(U)} \in SUBSET T
  BY <1>4 DEF Pick
<1>5. ASSUME NEW U \in SUBSET T, U # T PROVE SumOf(f, U) = Unfold(f, Sums(f, T), U)
  <2>1. Iterates(f, Sums(f, U), U)
    BY <1>3, <1>5 DEF Good
  <2>2. Sums(f, U)[U] = Unfold(f, Sums(f, U), U)
    BY <2>1 DEF Iterates
  <2>3. Sums(f, U)[U] = SumOf(f, U)
    BY DEF Sums
  <2>4. Unfold(f, Sums(f, U), U) = Unfold(f, Sums(f, T), U)
    BY <1>4 DEF Unfold, Sums
  <2> QED  BY <2>2, <2>3, <2>4
<1>6. ASSUME NEW U \in SUBSET T PROVE Unfold(f, h, U) = Unfold(f, Sums(f, T), U)
  <2>1. CASE U = {}
    BY <2>1 DEF Unfold
  <2>2. CASE U # {}
    <3>1. U \ {Pick(U)} # T
      BY <1>4, <2>2
    <3>2. h[U \ {Pick(U)}] = Sums(f, T)[U \ {Pick(U)}]
      BY <1>4, <2>2, <3>1 DEF Sums
    <3> HIDE DEF h
    <3> QED  BY <3>2, <2>2 DEF Unfold
  <2> QED  BY <2>1, <2>2
<1>7. ASSUME NEW U \in SUBSET T PROVE h[U] = Unfold(f, h, U)
  BY <1>5, <1>6
<1>8. Iterates(f, h, T)
  BY <1>7 DEF Iterates
<1>9. ASSUME NEW g, Iterates(f, g, T) PROVE g = h
  <2>1. ASSUME NEW U \in SUBSET T, U # T PROVE g[U] = SumOf(f, U)
    <3> DEFINE r == [V \in SUBSET U |-> g[V]]
    <3>1. ASSUME NEW V \in SUBSET U PROVE r[V] = Unfold(f, r, V)
      <4>1. g[V] = Unfold(f, g, V)
        BY <1>9 DEF Iterates
      <4>2. Unfold(f, g, V) = Unfold(f, r, V)
        BY <1>4 DEF Unfold
      <4> QED  BY <4>1, <4>2
    <3>2. Iterates(f, r, U)
      BY <3>1 DEF Iterates
    <3>3. r = Sums(f, U)
      BY <1>3, <2>1, <3>2 DEF Good
    <3> QED  BY <3>3 DEF Sums
  <2>2. ASSUME NEW U \in SUBSET T PROVE Unfold(f, g, U) = Unfold(f, Sums(f, T), U)
    <3>1. CASE U = {}
      BY <3>1 DEF Unfold
    <3>2. CASE U # {}
      BY <1>4, <2>1, <3>2 DEF Unfold, Sums
    <3> QED  BY <3>1, <3>2
  <2>3. ASSUME NEW U \in SUBSET T PROVE g[U] = h[U]
    BY <1>9, <2>2, <1>6, <1>7 DEF Iterates
  <2>4. g = [U \in SUBSET T |-> g[U]]
    BY <1>9 DEF Iterates
  <2> QED  BY <2>3, <2>4
<1>10. h = Sums(f, T)
  <2>1. (CHOOSE g : Iterates(f, g, T)) = h
    <3> HIDE DEF h
    <3> QED  BY <1>8, <1>9
  <2>2. h[T] = SumOf(f, T)
    BY <2>1, SumOfIterate
  <2> QED  BY <2>2 DEF Sums
<1> HIDE DEF h
<1>11. Good(T)
  BY <1>8, <1>9, <1>10 DEF Good
<1> QED  BY <1>2, <1>11

LEMMA SumOfEmpty ==
  ASSUME NEW f
  PROVE  SumOf(f, {}) = 0
<1>1. Iterates(f, Sums(f, {}), {})
  BY FS_EmptySet, IterateIsSums
<1> QED  BY <1>1 DEF Iterates, Unfold, Sums

LEMMA SumOfUnfold ==
  ASSUME NEW f, NEW S, IsFiniteSet(S), S # {}
  PROVE  Pick(S) \in S /\ SumOf(f, S) = f[Pick(S)] + SumOf(f, S \ {Pick(S)})
<1>1. Iterates(f, Sums(f, S), S)
  BY IterateIsSums
<1>2. Pick(S) \in S
  BY DEF Pick
<1>3. Sums(f, S)[S] = Unfold(f, Sums(f, S), S)
  BY <1>1 DEF Iterates
<1> QED  BY <1>2, <1>3 DEF Unfold, Sums

-----------------------------------------------------------------------------
(***************************************************************************)
(* Sums of integers, which do not depend on the order.                     *)
(***************************************************************************)
LEMMA SumOfType ==
  ASSUME NEW f, NEW S, IsFiniteSet(S), \A x \in S : f[x] \in Int
  PROVE  SumOf(f, S) \in Int
<1> DEFINE Bad == {T \in SUBSET S : SumOf(f, T) \notin Int}
<1>0. SUFFICES ASSUME S \in Bad PROVE FALSE
  OBVIOUS
<1>1. PICK T \in Bad : \A U \in Bad : U \subseteq T => U = T
  <2>1. Bad \subseteq SUBSET S /\ Bad # {}
    BY <1>0
  <2> HIDE DEF Bad
  <2> QED  BY <2>1, SmallestSubset
<1>2. T # {} /\ IsFiniteSet(T)
  <2>1. SumOf(f, {}) \in Int
    BY SumOfEmpty
  <2> QED  BY <2>1, FS_Subset
<1>3. Pick(T) \in T /\ SumOf(f, T) = f[Pick(T)] + SumOf(f, T \ {Pick(T)})
  BY <1>2, SumOfUnfold
<1>4. SumOf(f, T \ {Pick(T)}) \in Int
  BY <1>1, <1>3
<1> QED  BY <1>1, <1>3, <1>4

\* Any element may be taken out first.
LEMMA SumOfRemove ==
  ASSUME NEW f, NEW S, IsFiniteSet(S), \A x \in S : f[x] \in Int, NEW a \in S
  PROVE  SumOf(f, S) = f[a] + SumOf(f, S \ {a})
<1> DEFINE Bad == {T \in SUBSET S : \E x \in T : SumOf(f, T) # f[x] + SumOf(f, T \ {x})}
<1>0. SUFFICES ASSUME S \in Bad PROVE FALSE
  OBVIOUS
<1>1. PICK T \in Bad : \A U \in Bad : U \subseteq T => U = T
  <2>1. Bad \subseteq SUBSET S /\ Bad # {}
    BY <1>0
  <2> HIDE DEF Bad
  <2> QED  BY <2>1, SmallestSubset
<1>2. PICK x \in T : SumOf(f, T) # f[x] + SumOf(f, T \ {x})
  OBVIOUS
<1>3. T \in SUBSET S /\ IsFiniteSet(T)
  BY FS_Subset
<1> DEFINE p == Pick(T)
<1>4. p \in T /\ SumOf(f, T) = f[p] + SumOf(f, T \ {p})
  BY <1>2, <1>3, SumOfUnfold
<1>5. p # x
  BY <1>2, <1>4
<1>6. \A U \in SUBSET T : U # T => \A y \in U : SumOf(f, U) = f[y] + SumOf(f, U \ {y})
  BY <1>1, <1>3
<1> HIDE DEF p, Bad
<1>7. SumOf(f, T \ {p}) = f[x] + SumOf(f, (T \ {x}) \ {p})
  <2>1. SumOf(f, T \ {p}) = f[x] + SumOf(f, (T \ {p}) \ {x})
    BY <1>4, <1>5, <1>6
  <2>2. (T \ {p}) \ {x} = (T \ {x}) \ {p}
    OBVIOUS
  <2> QED  BY <2>1, <2>2
<1>8. SumOf(f, T \ {x}) = f[p] + SumOf(f, (T \ {x}) \ {p})
  BY <1>4, <1>5, <1>6
<1>9. SumOf(f, (T \ {x}) \ {p}) \in Int
  <2>1. IsFiniteSet((T \ {x}) \ {p})
    BY <1>3, FS_Subset
  <2> QED  BY <1>3, <2>1, SumOfType
<1>10. f[x] \in Int /\ f[p] \in Int
  BY <1>3, <1>4
<1> QED  BY <1>2, <1>4, <1>7, <1>8, <1>9, <1>10

LEMMA SumOfAdd ==
  ASSUME NEW f, NEW S, IsFiniteSet(S), \A x \in S : f[x] \in Int,
         NEW a, a \notin S, f[a] \in Int
  PROVE  SumOf(f, S \cup {a}) = f[a] + SumOf(f, S)
<1>1. IsFiniteSet(S \cup {a}) /\ (S \cup {a}) \ {a} = S
  BY FS_AddElement
<1> QED  BY <1>1, SumOfRemove

\* A column below another has the smaller sum.
LEMMA SumOfMonotone ==
  ASSUME NEW f, NEW g, NEW S, IsFiniteSet(S),
         \A x \in S : f[x] \in Int /\ g[x] \in Int /\ f[x] <= g[x]
  PROVE  SumOf(f, S) <= SumOf(g, S)
<1> DEFINE Bad == {T \in SUBSET S : ~(SumOf(f, T) <= SumOf(g, T))}
<1>0. SUFFICES ASSUME S \in Bad PROVE FALSE
  OBVIOUS
<1>1. PICK T \in Bad : \A U \in Bad : U \subseteq T => U = T
  <2>1. Bad \subseteq SUBSET S /\ Bad # {}
    BY <1>0
  <2> HIDE DEF Bad
  <2> QED  BY <2>1, SmallestSubset
<1>2. T # {} /\ IsFiniteSet(T) /\ T \in SUBSET S
  <2>1. SumOf(f, {}) = 0 /\ SumOf(g, {}) = 0
    BY SumOfEmpty
  <2>2. T # {} /\ T \in SUBSET S
    BY <2>1
  <2> QED  BY <2>2, FS_Subset
<1>3. PICK x \in T : TRUE
  BY <1>2
<1>4. SumOf(f, T) = f[x] + SumOf(f, T \ {x}) /\ SumOf(g, T) = g[x] + SumOf(g, T \ {x})
  BY <1>2, SumOfRemove
<1>5. SumOf(f, T \ {x}) <= SumOf(g, T \ {x})
  BY <1>1, <1>2
<1>6. IsFiniteSet(T \ {x})
  BY <1>2, FS_Subset
<1>7. SumOf(f, T \ {x}) \in Int /\ SumOf(g, T \ {x}) \in Int
  BY <1>2, <1>6, SumOfType
<1>8. f[x] \in Int /\ g[x] \in Int /\ f[x] <= g[x] /\ ~(SumOf(f, T) <= SumOf(g, T))
  BY <1>1, <1>2
<1> QED  BY <1>4, <1>5, <1>7, <1>8

LEMMA SumOfSame ==
  ASSUME NEW f, NEW g, NEW S, IsFiniteSet(S),
         \A x \in S : f[x] \in Int /\ f[x] = g[x]
  PROVE  SumOf(f, S) = SumOf(g, S)
<1>1. SumOf(f, S) <= SumOf(g, S) /\ SumOf(g, S) <= SumOf(f, S)
  BY SumOfMonotone
<1>2. SumOf(f, S) \in Int /\ SumOf(g, S) \in Int
  BY SumOfType
<1> QED  BY <1>1, <1>2

\* One row changes.
LEMMA SumOfUpdate ==
  ASSUME NEW f, NEW g, NEW S, IsFiniteSet(S), NEW a \in S,
         \A x \in S : f[x] \in Int /\ g[x] \in Int,
         \A x \in S : x # a => g[x] = f[x]
  PROVE  SumOf(g, S) = SumOf(f, S) + g[a] - f[a]
<1>1. SumOf(f, S) = f[a] + SumOf(f, S \ {a}) /\ SumOf(g, S) = g[a] + SumOf(g, S \ {a})
  BY SumOfRemove
<1>2. IsFiniteSet(S \ {a})
  BY FS_Subset
<1>3. SumOf(f, S \ {a}) = SumOf(g, S \ {a}) /\ SumOf(f, S \ {a}) \in Int
  BY <1>2, SumOfSame, SumOfType
<1> QED  BY <1>1, <1>3

LEMMA SumOfZero ==
  ASSUME NEW f, NEW S, IsFiniteSet(S), \A x \in S : f[x] = 0
  PROVE  SumOf(f, S) = 0
<1> DEFINE Bad == {T \in SUBSET S : SumOf(f, T) # 0}
<1>0. SUFFICES ASSUME S \in Bad PROVE FALSE
  OBVIOUS
<1>1. PICK T \in Bad : \A U \in Bad : U \subseteq T => U = T
  <2>1. Bad \subseteq SUBSET S /\ Bad # {}
    BY <1>0
  <2> HIDE DEF Bad
  <2> QED  BY <2>1, SmallestSubset
<1>2. T # {} /\ IsFiniteSet(T) /\ T \in SUBSET S
  BY SumOfEmpty, FS_Subset
<1>3. Pick(T) \in T /\ SumOf(f, T) = f[Pick(T)] + SumOf(f, T \ {Pick(T)})
  BY <1>2, SumOfUnfold
<1>4. SumOf(f, T \ {Pick(T)}) = 0
  BY <1>1, <1>2, <1>3
<1> QED  BY <1>1, <1>2, <1>3, <1>4

\* Rows of zero or more: the sum is no less than any part of it.
LEMMA SumOfPart ==
  ASSUME NEW f, NEW S, IsFiniteSet(S), NEW T \in SUBSET S,
         \A x \in S : f[x] \in Int, \A x \in S \ T : f[x] >= 0
  PROVE  SumOf(f, T) <= SumOf(f, S)
<1> DEFINE Bad == {U \in SUBSET S : T \subseteq U /\ ~(SumOf(f, T) <= SumOf(f, U))}
<1>0. SUFFICES ASSUME S \in Bad PROVE FALSE
  OBVIOUS
<1>1. PICK U \in Bad : \A V \in Bad : V \subseteq U => V = U
  <2>1. Bad \subseteq SUBSET S /\ Bad # {}
    BY <1>0
  <2> HIDE DEF Bad
  <2> QED  BY <2>1, SmallestSubset
<1>2. U \in SUBSET S /\ T \subseteq U /\ ~(SumOf(f, T) <= SumOf(f, U)) /\ IsFiniteSet(U) /\ IsFiniteSet(T)
  BY FS_Subset
<1>3. SumOf(f, T) \in Int
  BY <1>2, SumOfType
<1>4. PICK x \in U : x \notin T
  BY <1>2, <1>3
<1>5. SumOf(f, U) = f[x] + SumOf(f, U \ {x})
  BY <1>2, SumOfRemove
<1>6. SumOf(f, T) <= SumOf(f, U \ {x})
  BY <1>1, <1>2, <1>4
<1>7. SumOf(f, U \ {x}) \in Int
  <2>1. IsFiniteSet(U \ {x})
    BY <1>2, FS_Subset
  <2> QED  BY <1>2, <2>1, SumOfType
<1> QED  BY <1>2, <1>3, <1>4, <1>5, <1>6, <1>7

\* Rows that hold nothing may be left out.
LEMMA SumOfSupport ==
  ASSUME NEW f, NEW S, IsFiniteSet(S), NEW T \in SUBSET S,
         \A x \in T : f[x] \in Int, \A x \in S \ T : f[x] = 0
  PROVE  SumOf(f, T) = SumOf(f, S)
<1> DEFINE Bad == {U \in SUBSET S : T \subseteq U /\ SumOf(f, T) # SumOf(f, U)}
<1>0. SUFFICES ASSUME S \in Bad PROVE FALSE
  OBVIOUS
<1>1. PICK U \in Bad : \A V \in Bad : V \subseteq U => V = U
  <2>1. Bad \subseteq SUBSET S /\ Bad # {}
    BY <1>0
  <2> HIDE DEF Bad
  <2> QED  BY <2>1, SmallestSubset
<1>2. U \in SUBSET S /\ T \subseteq U /\ SumOf(f, T) # SumOf(f, U) /\ IsFiniteSet(U)
  BY FS_Subset
<1>3. PICK x \in U : x \notin T
  BY <1>2
<1>4. \A y \in U : f[y] \in Int
  BY <1>2
<1>5. SumOf(f, U) = f[x] + SumOf(f, U \ {x})
  BY <1>2, <1>4, SumOfRemove
<1>6. SumOf(f, T) = SumOf(f, U \ {x})
  BY <1>1, <1>2, <1>3
<1>7. SumOf(f, U \ {x}) \in Int
  <2>1. IsFiniteSet(U \ {x})
    BY <1>2, FS_Subset
  <2> QED  BY <1>4, <2>1, SumOfType
<1> QED  BY <1>2, <1>3, <1>5, <1>6, <1>7
=============================================================================
