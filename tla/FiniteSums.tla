---------------------------- MODULE FiniteSums ----------------------------
(***************************************************************************)
(* Lemmas for the proofs of this project: least numbers, smallest subsets, *)
(* and sums over finite sets, as SumFunctionOnSet defines them.            *)
(*                                                                         *)
(* A sum is a recursive function over subsets. That this function exists,  *)
(* and what it gives, is proved by the least counterexample: a set of      *)
(* numbers that is not empty has a least member, and a set of finite sets  *)
(* a smallest one. The same argument serves the proofs about the queue of  *)
(* LiveSession, whose entries are taken out by a recursive function.       *)
(***************************************************************************)
EXTENDS Naturals, FiniteSets, Functions, FiniteSetTheorems, TLAPS

-----------------------------------------------------------------------------
(* The least member of a set of numbers, by counting those before one.     *)

\* The members of S before c.
Below(S, c) == {k \in S : k < c}

\* A greater member has more members before it.
LEMMA BelowGrows ==
  ASSUME NEW S \in SUBSET Nat, IsFiniteSet(S), NEW x \in S, NEW y \in S, x < y
  PROVE  Cardinality(Below(S, x)) < Cardinality(Below(S, y))
<1>1. /\ IsFiniteSet(Below(S, y))
      /\ Below(S, x) \subseteq Below(S, y)
      /\ x \in Below(S, y) /\ x \notin Below(S, x)
  <2>1. Below(S, y) \subseteq S
    BY DEF Below
  <2>2. IsFiniteSet(Below(S, y))
    BY <2>1, FS_Subset
  <2>3. Below(S, x) \subseteq Below(S, y) /\ x \in Below(S, y) /\ x \notin Below(S, x)
    <3>1. x \in Nat /\ y \in Nat /\ \A k \in S : k \in Nat
      OBVIOUS
    <3>2. ~(x < x) /\ \A k \in S : k < x => k < y
      BY <3>1
    <3> QED
      BY <3>2, Zenon DEF Below
  <2> QED
    BY <2>2, <2>3
<1>2. /\ Cardinality(Below(S, x)) <= Cardinality(Below(S, y))
      /\ Cardinality(Below(S, x)) # Cardinality(Below(S, y))
      /\ IsFiniteSet(Below(S, x))
  BY <1>1, FS_Subset
<1>3. Cardinality(Below(S, x)) \in Nat /\ Cardinality(Below(S, y)) \in Nat
  BY <1>1, <1>2, FS_CardinalityType
<1> QED
  BY <1>2, <1>3

\* Were there no least member, every one of n members would have between 1 and n - 1 members
\* before it, no two of them as many.
LEMMA LeastElement ==
  ASSUME NEW S \in SUBSET Nat, IsFiniteSet(S), S # {}
  PROVE  \E m \in S : Below(S, m) = {}
<1> SUFFICES ASSUME \A c \in S : Below(S, c) # {} PROVE FALSE
  OBVIOUS
<1> DEFINE n == Cardinality(S)
           f == [c \in S |-> Cardinality(Below(S, c))]
<1>1. n \in Nat /\ n # 0
  BY FS_CardinalityType, FS_EmptySet
<1>2. ASSUME NEW c \in S PROVE Cardinality(Below(S, c)) \in 1..(n - 1)
  <2>1. Below(S, c) \subseteq S /\ c \notin Below(S, c)
    BY DEF Below
  <2>2. IsFiniteSet(Below(S, c)) /\ Cardinality(Below(S, c)) <= n /\ Cardinality(Below(S, c)) # n
    BY <2>1, FS_Subset
  <2>3. Cardinality(Below(S, c)) \in Nat /\ Cardinality(Below(S, c)) # 0
    BY <2>2, FS_CardinalityType, FS_EmptySet
  <2> QED
    BY <1>1, <2>2, <2>3
<1>3. f \in [S -> 1..(n - 1)]
  BY <1>2
<1>4. IsFiniteSet(1..(n - 1)) /\ Cardinality(1..(n - 1)) < n
  <2>1. 1 \in Int /\ n - 1 \in Int
    BY <1>1
  <2>2. /\ IsFiniteSet(1..(n - 1))
        /\ Cardinality(1..(n - 1)) = IF 1 > n - 1 THEN 0 ELSE (n - 1) - 1 + 1
    BY <2>1, FS_Interval, Zenon
  <2> QED
    BY <1>1, <2>2
<1> HIDE DEF f
<1>5. PICK x \in S, y \in S : x # y /\ f[x] = f[y]
  BY <1>3, <1>4, FS_PigeonHole
<1>6. x < y \/ y < x
  BY <1>5
<1>7. f[x] # f[y]
  <2>1. \A c \in S : f[c] \in Nat /\ f[c] = Cardinality(Below(S, c))
    BY <1>3 DEF f
  <2> QED
    BY <1>6, <2>1, BelowGrows
<1> QED
  BY <1>5, <1>7

-----------------------------------------------------------------------------
(* Induction over the subsets of a finite set: a counterexample would have *)
(* one without a smaller one inside it.                                    *)

\* Of the sizes of its members there is a least one.
LEMMA MinimalSubset ==
  ASSUME NEW S, IsFiniteSet(S), NEW C \in SUBSET (SUBSET S), C # {}
  PROVE  \E T \in C : IsFiniteSet(T) /\ \A U \in C : U \subseteq T => U = T
<1> DEFINE sizes == {Cardinality(T) : T \in C}
<1>1. \A T \in C : IsFiniteSet(T) /\ Cardinality(T) \in Nat /\ Cardinality(T) <= Cardinality(S)
  BY FS_Subset, FS_CardinalityType
<1>2. Cardinality(S) \in Nat
  BY FS_CardinalityType
<1>3. sizes \in SUBSET Nat /\ sizes # {}
  BY <1>1
<1>4. IsFiniteSet(sizes)
  <2>1. \A n \in sizes : n <= Cardinality(S)
    BY <1>1
  <2> HIDE DEF sizes
  <2> QED
    BY <1>2, <1>3, <2>1, FS_BoundedSetOfNaturals
<1>5. \E m \in sizes : Below(sizes, m) = {}
  <2> HIDE DEF sizes
  <2> QED
    BY <1>3, <1>4, LeastElement
<1>6. PICK T \in C : Below(sizes, Cardinality(T)) = {}
  BY <1>5
<1>7. ASSUME NEW U \in C, U \subseteq T PROVE U = T
  <2>1. ~(Cardinality(U) < Cardinality(T))
    BY <1>6, Zenon DEF Below
  <2>2. Cardinality(U) <= Cardinality(T) /\ (Cardinality(T) = Cardinality(U) => T = U)
    BY <1>1, <1>7, FS_Subset
  <2>3. Cardinality(U) \in Nat /\ Cardinality(T) \in Nat
    BY <1>1
  <2> QED
    BY <2>1, <2>2, <2>3
<1> QED
  BY <1>1, <1>6, <1>7

-----------------------------------------------------------------------------
(* The recursive function behind a sum over a set.                         *)

Chosen(T) == CHOOSE x \in T : TRUE

\* The sum of f over T, when g has the sums over smaller sets.
SumStep(f, g, T) == IF T = {} THEN 0 ELSE f[Chosen(T)] + g[T \ {Chosen(T)}]

IsSum(f, g, S) == g = [T \in SUBSET S |-> SumStep(f, g, T)]

\* The member a sum takes first is a member.
LEMMA ChosenIn == ASSUME NEW T, T # {} PROVE Chosen(T) \in T
BY DEF Chosen

\* Two functions that have the sums over subsets have the same ones.
LEMMA SumsAgree ==
  ASSUME NEW f, NEW S, NEW R, NEW g, NEW h, IsSum(f, g, S), IsSum(f, h, R),
         NEW T, T \subseteq S, T \subseteq R, IsFiniteSet(T)
  PROVE  g[T] = h[T]
<1> DEFINE C == {U \in SUBSET T : g[U] # h[U]}
<1> SUFFICES ASSUME g[T] # h[T] PROVE FALSE
  OBVIOUS
<1>1. C \in SUBSET (SUBSET T) /\ C # {}
  OBVIOUS
<1>2. PICK U \in C : \A V \in C : V \subseteq U => V = U
  <2> HIDE DEF C
  <2> QED
    BY <1>1, MinimalSubset
<1>3. g[U] = SumStep(f, g, U) /\ h[U] = SumStep(f, h, U)
  BY DEF IsSum
<1>4. CASE U = {}
  BY <1>3, <1>4 DEF SumStep
<1>5. CASE U # {}
  <2> DEFINE V == U \ {Chosen(U)}
  <2>1. V \subseteq U /\ V # U
    BY <1>5, ChosenIn
  <2>2. g[V] = h[V]
    BY <1>2, <2>1
  <2> QED
    BY <1>3, <1>5, <2>2 DEF SumStep
<1> QED
  BY <1>4, <1>5

\* The function exists: were there a least size up to which no function has the
\* sums, the one for the sizes before would give it.
LEMMA SumExists ==
  ASSUME NEW f, NEW S, IsFiniteSet(S)
  PROVE  \E g : IsSum(f, g, S)
<1> DEFINE Small(n) == {T \in SUBSET S : Cardinality(T) <= n}
           UpTo(g, n) == g = [T \in Small(n) |-> SumStep(f, g, T)]
           N == Cardinality(S)
           Missing == {n \in 0..N : ~ \E g : UpTo(g, n)}
<1>1. N \in Nat
  BY FS_CardinalityType
<1>2. \A T \in SUBSET S : IsFiniteSet(T) /\ Cardinality(T) \in Nat /\ Cardinality(T) <= N
  BY FS_Subset, FS_CardinalityType
<1>3. Small(N) = SUBSET S
  BY <1>2
<1>4. UpTo([T \in Small(0) |-> 0], 0)
  <2>1. \A T \in Small(0) : T = {}
    BY <1>2, FS_EmptySet
  <2>2. \A T \in Small(0) : \A g : SumStep(f, g, T) = 0
    BY <2>1 DEF SumStep
  <2> HIDE DEF Small
  <2> QED
    BY <2>2
<1>5. ASSUME NEW n \in Nat, NEW g, UpTo(g, n) PROVE \E h : UpTo(h, n + 1)
  <2> DEFINE h == [T \in Small(n + 1) |-> SumStep(f, g, T)]
  <2>1. Small(n) \subseteq Small(n + 1)
    BY <1>2
  <2>2. \A T \in Small(n) : h[T] = g[T]
    <3> HIDE DEF Small
    <3> QED
      BY <1>5, <2>1
  <2>3. ASSUME NEW T \in Small(n + 1) PROVE SumStep(f, g, T) = SumStep(f, h, T)
    <3>1. CASE T = {}
      BY <3>1 DEF SumStep
    <3>2. CASE T # {}
      <4>1. Chosen(T) \in T
        BY <3>2, ChosenIn
      <4>2. T \ {Chosen(T)} \in Small(n)
        BY <1>2, <4>1, FS_RemoveElement
      <4>3. h[T \ {Chosen(T)}] = g[T \ {Chosen(T)}]
        BY <2>2, <4>2
      <4> QED
        BY <3>2, <4>3 DEF SumStep
    <3> QED
      BY <3>1, <3>2
  <2>4. h = [T \in Small(n + 1) |-> SumStep(f, h, T)]
    <3> HIDE DEF Small
    <3> QED
      BY <2>3
  <2> HIDE DEF h
  <2> QED
    BY <2>4
<1>6. Missing = {}
  <2> SUFFICES ASSUME Missing # {} PROVE FALSE
    OBVIOUS
  <2>1. Missing \in SUBSET Nat /\ IsFiniteSet(Missing)
    <3>1. Missing \in SUBSET Nat /\ \A n \in Missing : n <= N
      BY <1>1
    <3> HIDE DEF Missing, N
    <3> QED
      BY <1>1, <3>1, FS_BoundedSetOfNaturals
  <2>2. PICK m \in Missing : Below(Missing, m) = {}
    <3> HIDE DEF Missing
    <3> QED
      BY <2>1, LeastElement
  <2>3. m # 0
    <3> HIDE DEF Small
    <3> QED
      BY <1>4
  <2>4. m - 1 \in 0..N /\ m - 1 < m /\ m - 1 \in Nat /\ (m - 1) + 1 = m
    BY <1>1, <2>1, <2>3
  <2>5. m - 1 \notin Missing
    <3> HIDE DEF Missing
    <3> QED
      BY <2>2, <2>4 DEF Below
  <2>6. PICK g : UpTo(g, m - 1)
    BY <2>4, <2>5
  <2>7. \E h : UpTo(h, m)
    <3>1. \E h : UpTo(h, (m - 1) + 1)
      <4> HIDE DEF UpTo
      <4> QED
        BY <1>5, <2>4, <2>6
    <3> QED
      BY <2>4, <3>1
  <2> QED
    BY <2>7
<1>7. \E g : UpTo(g, N)
  BY <1>1, <1>6
<1> QED
  BY <1>3, <1>7 DEF IsSum

\* The sum, by the recursive function that has it.
SumOver(f, S) == (CHOOSE g : IsSum(f, g, S))[S]

\* Whatever function has the sums, it has this sum.
LEMMA IsSumOver ==
  ASSUME NEW f, NEW S, IsFiniteSet(S), NEW g, IsSum(f, g, S), NEW T \in SUBSET S
  PROVE  g[T] = SumOver(f, T)
<1>1. IsFiniteSet(T)
  BY FS_Subset
<1>2. IsSum(f, CHOOSE h : IsSum(f, h, T), T)
  BY <1>1, SumExists
<1> QED
  BY <1>1, <1>2, SumsAgree DEF SumOver

\* One step of a sum.
LEMMA SumOverStep ==
  ASSUME NEW f, NEW S, IsFiniteSet(S)
  PROVE  SumOver(f, S) = IF S = {} THEN 0 ELSE f[Chosen(S)] + SumOver(f, S \ {Chosen(S)})
<1>1. PICK g : IsSum(f, g, S)
  BY SumExists
<1>2. g[S] = SumStep(f, g, S)
  BY <1>1 DEF IsSum
<1>3. \A T \in SUBSET S : g[T] = SumOver(f, T)
  BY <1>1, IsSumOver
<1> QED
  BY <1>2, <1>3 DEF SumStep

\* It is the sum of the community modules.
LEMMA FunctionSum ==
  ASSUME NEW f, NEW S
  PROVE  SumFunctionOnSet(f, S) = SumOver(f, S)
BY DEF SumFunctionOnSet, FoldFunctionOnSet, MapThenFoldSet, SumOver, IsSum, SumStep, Chosen

-----------------------------------------------------------------------------
(* What sums do when their set or one summand changes.                     *)

\* A sum of nothing.
LEMMA SumOverEmpty == \A f : SumOver(f, {}) = 0
BY SumOverStep, FS_EmptySet

\* Numbers have a sum that is a number.
LEMMA SumOverType ==
  ASSUME NEW f, NEW S, IsFiniteSet(S), \A x \in S : f[x] \in Nat
  PROVE  SumOver(f, S) \in Nat
<1> DEFINE C == {T \in SUBSET S : SumOver(f, T) \notin Nat}
<1> SUFFICES ASSUME C # {} PROVE FALSE
  OBVIOUS
<1>1. PICK T \in C : IsFiniteSet(T) /\ \A U \in C : U \subseteq T => U = T
  <2>1. C \in SUBSET (SUBSET S)
    OBVIOUS
  <2> HIDE DEF C
  <2> QED
    BY <2>1, MinimalSubset
<1>2. T # {}
  <2>1. SumOver(f, {}) \in Nat
    BY SumOverEmpty
  <2> QED
    BY <1>1, <2>1
<1>3. Chosen(T) \in T
  BY <1>2, ChosenIn
<1>4. SumOver(f, T \ {Chosen(T)}) \in Nat
  BY <1>1, <1>3
<1>5. SumOver(f, T) = f[Chosen(T)] + SumOver(f, T \ {Chosen(T)})
  BY <1>1, <1>2, SumOverStep
<1> QED
  BY <1>3, <1>4, <1>5

\* Equal summands have equal sums.
LEMMA SumOverSame ==
  ASSUME NEW f, NEW g, NEW S, IsFiniteSet(S), \A x \in S : f[x] = g[x]
  PROVE  SumOver(f, S) = SumOver(g, S)
<1> DEFINE C == {T \in SUBSET S : SumOver(f, T) # SumOver(g, T)}
<1> SUFFICES ASSUME C # {} PROVE FALSE
  OBVIOUS
<1>1. PICK T \in C : IsFiniteSet(T) /\ \A U \in C : U \subseteq T => U = T
  <2>1. C \in SUBSET (SUBSET S)
    OBVIOUS
  <2> HIDE DEF C
  <2> QED
    BY <2>1, MinimalSubset
<1>2. T # {}
  <2>1. SumOver(f, {}) = 0 /\ SumOver(g, {}) = 0
    BY SumOverEmpty
  <2> QED
    BY <1>1, <2>1
<1>3. Chosen(T) \in T
  BY <1>2, ChosenIn
<1>4. SumOver(f, T \ {Chosen(T)}) = SumOver(g, T \ {Chosen(T)})
  BY <1>1, <1>3
<1>5. /\ SumOver(f, T) = f[Chosen(T)] + SumOver(f, T \ {Chosen(T)})
      /\ SumOver(g, T) = g[Chosen(T)] + SumOver(g, T \ {Chosen(T)})
  BY <1>1, <1>2, SumOverStep
<1> QED
  BY <1>1, <1>3, <1>4, <1>5

\* Any member may be taken out of a sum, not only the chosen one.
LEMMA SumOverRemove ==
  ASSUME NEW f, NEW S, IsFiniteSet(S), \A x \in S : f[x] \in Nat, NEW a \in S
  PROVE  SumOver(f, S) = f[a] + SumOver(f, S \ {a})
<1> DEFINE Splits(T) == \A x \in T : SumOver(f, T) = f[x] + SumOver(f, T \ {x})
           C == {T \in SUBSET S : ~Splits(T)}
<1> SUFFICES ASSUME C # {} PROVE FALSE
  OBVIOUS
<1>1. PICK T \in C : IsFiniteSet(T) /\ \A U \in C : U \subseteq T => U = T
  <2>1. C \in SUBSET (SUBSET S)
    OBVIOUS
  <2> HIDE DEF C
  <2> QED
    BY <2>1, MinimalSubset
<1>2. PICK x \in T : SumOver(f, T) # f[x] + SumOver(f, T \ {x})
  BY <1>1
<1> DEFINE c == Chosen(T)
           R == T \ {c, x}
<1>3. c \in T
  BY <1>2, ChosenIn
<1>4. SumOver(f, T) = f[c] + SumOver(f, T \ {c})
  BY <1>1, <1>2, SumOverStep
<1>5. c # x
  BY <1>2, <1>4
<1>6. Splits(T \ {c}) /\ Splits(T \ {x})
  <2>1. /\ T \ {c} \in SUBSET S /\ T \ {x} \in SUBSET S
        /\ T \ {c} \subseteq T /\ T \ {c} # T /\ T \ {x} \subseteq T /\ T \ {x} # T
    BY <1>1, <1>2, <1>3
  <2> HIDE DEF Splits, c
  <2> QED
    BY <1>1, <2>1
<1>7. (T \ {c}) \ {x} = R /\ (T \ {x}) \ {c} = R
  OBVIOUS
<1>8. SumOver(f, T \ {c}) = f[x] + SumOver(f, R) /\ SumOver(f, T \ {x}) = f[c] + SumOver(f, R)
  <2>1. x \in T \ {c} /\ c \in T \ {x}
    BY <1>2, <1>3, <1>5
  <2> HIDE DEF c, R
  <2> QED
    BY <1>6, <1>7, <2>1
<1>9. f[x] \in Nat /\ f[c] \in Nat /\ SumOver(f, R) \in Nat
  <2>1. R \subseteq S /\ x \in S /\ c \in S
    BY <1>1, <1>2, <1>3
  <2> HIDE DEF R, c
  <2> QED
    BY <2>1, FS_Subset, SumOverType
<1> HIDE DEF c, R
<1> QED
  BY <1>2, <1>4, <1>8, <1>9

\* One summand more.
LEMMA SumOverAdd ==
  ASSUME NEW f, NEW S, IsFiniteSet(S), \A x \in S : f[x] \in Nat, NEW a, a \notin S, f[a] \in Nat
  PROVE  SumOver(f, S \cup {a}) = SumOver(f, S) + f[a]
<1>1. IsFiniteSet(S \cup {a})
  BY FS_AddElement
<1>2. (S \cup {a}) \ {a} = S
  OBVIOUS
<1>3. SumOver(f, S \cup {a}) = f[a] + SumOver(f, (S \cup {a}) \ {a})
  <2>1. a \in S \cup {a} /\ \A x \in S \cup {a} : f[x] \in Nat
    OBVIOUS
  <2> QED
    BY <1>1, <2>1, SumOverRemove
<1>4. SumOver(f, S \cup {a}) = f[a] + SumOver(f, S)
  BY <1>2, <1>3, Zenon
<1>5. SumOver(f, S) \in Nat
  BY SumOverType
<1> QED
  BY <1>4, <1>5

\* A summand is at most the sum.
LEMMA SummandAtMost ==
  ASSUME NEW f, NEW S, IsFiniteSet(S), \A x \in S : f[x] \in Nat, NEW a \in S
  PROVE  f[a] <= SumOver(f, S)
<1>1. SumOver(f, S) = f[a] + SumOver(f, S \ {a})
  BY SumOverRemove
<1>2. SumOver(f, S \ {a}) \in Nat
  BY FS_Subset, SumOverType
<1> QED
  BY <1>1, <1>2

=============================================================================
