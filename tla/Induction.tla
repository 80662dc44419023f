------------------------------ MODULE Induction ------------------------------
(***************************************************************************)
(* Induction over finite sets and over numbers, in a form the provers can  *)
(* use: instead of a predicate the lemmas take the set of what it holds    *)
(* for.  Both follow from the well-foundedness of the strict subsets of a  *)
(* finite set, and of the numbers (WFMin).  By them, the sum of a function *)
(* over a finite set: that the fold is defined, is a number, and does not  *)
(* depend on the order of its elements.                                    *)
(***************************************************************************)
EXTENDS Integers, FiniteSets, Functions, FiniteSetTheorems, WellFoundedInduction, TLAPS

\* A family that holds every subset all of whose remainders it holds, holds the
\* whole set.
LEMMA SubsetInduction ==
    ASSUME NEW S, IsFiniteSet(S), NEW Good,
           \A T \in SUBSET S : (\A x \in T : T \ {x} \in Good) => T \in Good
    PROVE  S \in Good
<1> DEFINE Bad == {T \in SUBSET S : T \notin Good}
<1>1. IsWellFoundedOn(StrictSubsetOrdering(S), SUBSET S)
  BY FS_StrictSubsetOrderingWellFounded, FS_FiniteSubsetsOfFinite
<1>2. SUFFICES ASSUME Bad # {} PROVE FALSE
  OBVIOUS
<1>3. PICK T \in Bad : \A U \in Bad : <<U, T>> \notin StrictSubsetOrdering(S)
  <2> HIDE DEF Bad
  <2>1. Bad \subseteq SUBSET S
    BY DEF Bad
  <2>2. QED
    BY <1>1, <1>2, <2>1, WFMin
<1>4. ASSUME NEW x \in T PROVE T \ {x} \in Good
  <2>1. <<T \ {x}, T>> \in (SUBSET S) \X (SUBSET S) /\ T \ {x} \subseteq T /\ T \ {x} # T
    OBVIOUS
  <2>2. <<T \ {x}, T>> \in StrictSubsetOrdering(S)
    BY <2>1 DEF StrictSubsetOrdering
  <2>3. QED
    BY <1>3, <2>1, <2>2
<1>5. QED
  BY <1>3, <1>4

\* Induction over the numbers, for a set of them instead of a predicate.
LEMMA NatInduct ==
    ASSUME NEW Good, 0 \in Good, \A n \in Nat : n \in Good => n + 1 \in Good
    PROVE  Nat \subseteq Good
<1> DEFINE Bad == {n \in Nat : n \notin Good}
           Less == {ss \in Nat \X Nat : ss[1] < ss[2]}
<1>1. IsWellFoundedOn(Less, Nat)
  <2>1. Less = OpToRel(<, Nat)
    BY DEF OpToRel
  <2>2. QED
    BY <2>1, NatLessThanWellFounded
<1>2. SUFFICES ASSUME Bad # {} PROVE FALSE
  OBVIOUS
<1>3. PICK n \in Bad : \A m \in Bad : <<m, n>> \notin Less
  <2> HIDE DEF Bad, Less
  <2>1. Bad \subseteq Nat
    BY DEF Bad
  <2>2. QED
    BY <1>1, <1>2, <2>1, WFMin
<1>4. n # 0 /\ n - 1 \in Nat
  OBVIOUS
<1>5. <<n - 1, n>> \in Less
  BY <1>4
<1>6. QED
  BY <1>3, <1>4, <1>5


\* A set of numbers has a least one.
LEMMA NatLeast ==
    ASSUME NEW S, S \subseteq Nat, S # {}
    PROVE  \E n \in S : \A m \in S : n <= m
<1> DEFINE Less == {ss \in Nat \X Nat : ss[1] < ss[2]}
<1>1. IsWellFoundedOn(Less, Nat)
  <2>1. Less = OpToRel(<, Nat)
    BY DEF OpToRel
  <2>2. QED
    BY <2>1, NatLessThanWellFounded
<1>2. PICK n \in S : \A m \in S : <<m, n>> \notin Less
  <2> HIDE DEF Less
  <2>1. QED
    BY <1>1, WFMin
<1>3. ASSUME NEW m \in S PROVE n <= m
  <2>1. ~(m < n) /\ m \in Nat /\ n \in Nat
    BY <1>2
  <2>2. QED
    BY <2>1
<1>4. QED
  BY <1>3

-----------------------------------------------------------------------------
(* Sums.  SumFunctionOnSet folds the values of a function over a set in the *)
(* order CHOOSE gives; Sums(v, g, S) says that g has all its partial sums.  *)

Chosen(U) == CHOOSE x \in U : TRUE
Step(v, g, U) == IF U = {} THEN 0 ELSE v[Chosen(U)] + g[U \ {Chosen(U)}]
Sums(v, g, S) == g = [U \in SUBSET S |-> Step(v, g, U)]

LEMMA ChosenIsIn == \A U : U # {} => Chosen(U) \in U
BY DEF Chosen

\* The recursive definition has a solution, so CHOOSE finds one.
LEMMA SumsExist ==
    ASSUME NEW v, NEW S, IsFiniteSet(S)
    PROVE  \E g : Sums(v, g, S)
<1> DEFINE Upto(n) == {U \in SUBSET S : Cardinality(U) <= n}
           Good == {n \in Nat : \E g : \A U \in Upto(n) : g[U] = Step(v, g, U)}
<1>1. \A U \in SUBSET S : IsFiniteSet(U) /\ Cardinality(U) \in Nat
                          /\ Cardinality(U) <= Cardinality(S)
  BY FS_Subset, FS_CardinalityType
<1>2. \A U \in SUBSET S : \A x \in U : Cardinality(U \ {x}) = Cardinality(U) - 1
  BY <1>1, FS_RemoveElement
<1>3. 0 \in Good
  <2> DEFINE g == [U \in SUBSET S |-> 0]
  <2>1. ASSUME NEW U \in Upto(0) PROVE g[U] = Step(v, g, U)
    <3>1. U = {}
      BY <1>1, FS_EmptySet
    <3>2. QED
      BY <3>1 DEF Step
  <2> HIDE DEF g
  <2>2. QED
    BY <2>1
<1>4. ASSUME NEW n \in Nat, n \in Good PROVE n + 1 \in Good
  <2>1. PICK g : \A U \in Upto(n) : g[U] = Step(v, g, U)
    BY <1>4
  <2> DEFINE h == [U \in SUBSET S |-> Step(v, g, U)]
  <2>2. ASSUME NEW U \in Upto(n + 1) PROVE h[U] = Step(v, h, U)
    <3>1. CASE U = {}
      BY <3>1 DEF Step
    <3>2. CASE U # {}
      <4> DEFINE V == U \ {Chosen(U)}
      <4>1. Chosen(U) \in U /\ V \in SUBSET S
        BY <3>2, ChosenIsIn
      <4>2. V \in Upto(n)
        BY <1>1, <1>2, <4>1
      <4>3. g[V] = h[V]
        BY <2>1, <4>2
      <4>4. h[U] = v[Chosen(U)] + g[V] /\ Step(v, h, U) = v[Chosen(U)] + h[V]
        BY <3>2 DEF Step
      <4>5. QED
        BY <4>3, <4>4
    <3>3. QED
      BY <3>1, <3>2
  <2> HIDE DEF h
  <2>3. QED
    BY <2>2
<1>5. Cardinality(S) \in Good
  <2> HIDE DEF Good
  <2>1. QED
    BY <1>1, <1>3, <1>4, NatInduct
<1>6. PICK g : \A U \in Upto(Cardinality(S)) : g[U] = Step(v, g, U)
  BY <1>5
<1> DEFINE f == [U \in SUBSET S |-> g[U]]
<1>7. ASSUME NEW U \in SUBSET S PROVE f[U] = Step(v, f, U)
  BY <1>1, <1>6, ChosenIsIn DEF Step
<1>8. f = [U \in SUBSET S |-> Step(v, f, U)]
  BY <1>7
<1>9. QED
  BY <1>8 DEF Sums

LEMMA SumIs ==
    ASSUME NEW v, NEW S, IsFiniteSet(S)
    PROVE  \E g : Sums(v, g, S) /\ SumFunctionOnSet(v, S) = g[S]
<1> DEFINE g == CHOOSE h : Sums(v, h, S)
<1>1. SumFunctionOnSet(v, S) = g[S]
  BY DEF SumFunctionOnSet, FoldFunctionOnSet, MapThenFoldSet, Sums, Step, Chosen
<1>2. Sums(v, g, S)
  BY SumsExist
<1>3. QED
  BY <1>1, <1>2

\* Whatever sets they are made for, such sums agree.
LEMMA SumsAgree ==
    ASSUME NEW v, NEW S, IsFiniteSet(S), NEW T \in SUBSET S,
           NEW g, Sums(v, g, S), NEW h, Sums(v, h, T)
    PROVE  g[T] = h[T]
<1> DEFINE Good == {U \in SUBSET T : g[U] = h[U]}
<1>1. ASSUME NEW U \in SUBSET T, \A x \in U : U \ {x} \in Good PROVE U \in Good
  <2>1. g[U] = Step(v, g, U) /\ h[U] = Step(v, h, U)
    BY DEF Sums
  <2>2. U # {} => g[U \ {Chosen(U)}] = h[U \ {Chosen(U)}]
    BY <1>1, ChosenIsIn
  <2>3. QED
    BY <2>1, <2>2 DEF Step
<1>2. IsFiniteSet(T)
  BY FS_Subset
<1>3. T \in Good
  <2> HIDE DEF Good
  <2>1. QED
    BY <1>1, <1>2, SubsetInduction
<1>4. QED
  BY <1>3

LEMMA SumEmpty == \A v : SumFunctionOnSet(v, {}) = 0
<1> SUFFICES ASSUME NEW v PROVE SumFunctionOnSet(v, {}) = 0
  OBVIOUS
<1>1. PICK g : Sums(v, g, {}) /\ SumFunctionOnSet(v, {}) = g[{}]
  BY SumIs, FS_EmptySet
<1>2. QED
  BY <1>1 DEF Sums, Step

\* The equation the fold is defined by.
LEMMA SumChosen ==
    ASSUME NEW v, NEW S, IsFiniteSet(S), S # {}
    PROVE  SumFunctionOnSet(v, S) = v[Chosen(S)] + SumFunctionOnSet(v, S \ {Chosen(S)})
<1> DEFINE T == S \ {Chosen(S)}
<1>1. PICK g : Sums(v, g, S) /\ SumFunctionOnSet(v, S) = g[S]
  BY SumIs
<1>2. IsFiniteSet(T) /\ T \in SUBSET S
  BY FS_Subset
<1>3. PICK h : Sums(v, h, T) /\ SumFunctionOnSet(v, T) = h[T]
  BY <1>2, SumIs
<1>4. g[T] = h[T]
  BY <1>1, <1>2, <1>3, SumsAgree
<1>5. g[S] = v[Chosen(S)] + g[T]
  BY <1>1 DEF Sums, Step
<1>6. QED
  BY <1>1, <1>3, <1>4, <1>5

LEMMA SumType ==
    ASSUME NEW S, IsFiniteSet(S), NEW v \in [S -> Int]
    PROVE  \A T \in SUBSET S : SumFunctionOnSet(v, T) \in Int
<1> DEFINE Good == {T \in SUBSET S : SumFunctionOnSet(v, T) \in Int}
<1>1. ASSUME NEW T \in SUBSET S, IsFiniteSet(T), NEW U \in SUBSET T,
             \A x \in U : U \ {x} \in Good
      PROVE  U \in Good
  <2>1. CASE U = {}
    BY <2>1, SumEmpty
  <2>2. CASE U # {}
    <3>1. IsFiniteSet(U) /\ Chosen(U) \in U
      BY <1>1, <2>2, FS_Subset, ChosenIsIn
    <3>2. SumFunctionOnSet(v, U) = v[Chosen(U)] + SumFunctionOnSet(v, U \ {Chosen(U)})
      BY <2>2, <3>1, SumChosen
    <3>3. v[Chosen(U)] \in Int /\ SumFunctionOnSet(v, U \ {Chosen(U)}) \in Int
      BY <1>1, <3>1
    <3>4. QED
      BY <3>2, <3>3
  <2>3. QED
    BY <2>1, <2>2
<1>2. ASSUME NEW T \in SUBSET S PROVE T \in Good
  <2> HIDE DEF Good
  <2>1. IsFiniteSet(T)
    BY FS_Subset
  <2>2. QED
    BY <1>1, <2>1, SubsetInduction
<1>3. QED
  BY <1>2

\* Any element can be taken out first.
LEMMA SumRemove ==
    ASSUME NEW S, IsFiniteSet(S), NEW v \in [S -> Int]
    PROVE  \A x \in S :
             SumFunctionOnSet(v, S) = v[x] + SumFunctionOnSet(v, S \ {x})
<1> DEFINE Sm(T) == SumFunctionOnSet(v, T)
           Good == {T \in SUBSET S : \A x \in T : Sm(T) = v[x] + Sm(T \ {x})}
<1>1. ASSUME NEW T \in SUBSET S, \A x \in T : T \ {x} \in Good PROVE T \in Good
  <2> SUFFICES ASSUME NEW x \in T PROVE Sm(T) = v[x] + Sm(T \ {x})
    OBVIOUS
  <2> DEFINE c == Chosen(T)
  <2>1. c \in T /\ IsFiniteSet(T)
    BY FS_Subset, ChosenIsIn
  <2>2. Sm(T) = v[c] + Sm(T \ {c})
    BY <2>1, SumChosen
  <2> HIDE DEF c
  <2>3. CASE x = c
    BY <2>2, <2>3
  <2>4. CASE x # c
    <3>1. Sm(T \ {c}) = v[x] + Sm((T \ {c}) \ {x})
      BY <1>1, <2>1, <2>4
    <3>2. Sm(T \ {x}) = v[c] + Sm((T \ {x}) \ {c})
      BY <1>1, <2>1, <2>4
    <3>3. (T \ {c}) \ {x} = (T \ {x}) \ {c}
      OBVIOUS
    <3> DEFINE r == Sm((T \ {x}) \ {c})
    <3>4. v[x] \in Int /\ v[c] \in Int /\ r \in Int
      BY <2>1, SumType
    <3>5. Sm(T) = v[c] + (v[x] + r) /\ Sm(T \ {x}) = v[c] + r
      BY <2>2, <3>1, <3>2, <3>3
    <3> HIDE DEF r, Sm
    <3>6. QED
      BY <3>4, <3>5
  <2>5. QED
    BY <2>3, <2>4
<1>2. S \in Good
  <2> HIDE DEF Good
  <2>1. QED
    BY <1>1, SubsetInduction
<1>3. QED
  BY <1>2

\* Only the values on the set matter.
LEMMA SumSame ==
    ASSUME NEW S, IsFiniteSet(S), NEW v, NEW w, \A x \in S : v[x] = w[x]
    PROVE  SumFunctionOnSet(v, S) = SumFunctionOnSet(w, S)
<1> DEFINE Good == {T \in SUBSET S : SumFunctionOnSet(v, T) = SumFunctionOnSet(w, T)}
<1>1. ASSUME NEW T \in SUBSET S, \A x \in T : T \ {x} \in Good PROVE T \in Good
  <2>1. CASE T = {}
    BY <2>1, SumEmpty
  <2>2. CASE T # {}
    <3>1. IsFiniteSet(T) /\ Chosen(T) \in T
      BY <2>2, FS_Subset, ChosenIsIn
    <3>2. /\ SumFunctionOnSet(v, T) = v[Chosen(T)] + SumFunctionOnSet(v, T \ {Chosen(T)})
          /\ SumFunctionOnSet(w, T) = w[Chosen(T)] + SumFunctionOnSet(w, T \ {Chosen(T)})
      BY <2>2, <3>1, SumChosen
    <3>3. QED
      BY <1>1, <3>1, <3>2
  <2>3. QED
    BY <2>1, <2>2
<1>2. S \in Good
  <2> HIDE DEF Good
  <2>1. QED
    BY <1>1, SubsetInduction
<1>3. QED
  BY <1>2

\* One element changed: the sum changes by as much.
LEMMA SumChange ==
    ASSUME NEW S, IsFiniteSet(S), NEW v \in [S -> Int], NEW w \in [S -> Int],
           NEW a \in S, \A x \in S \ {a} : v[x] = w[x]
    PROVE  /\ SumFunction(v) \in Int
           /\ SumFunction(w) = SumFunction(v) + (w[a] - v[a])
<1> DEFINE r == SumFunctionOnSet(v, S \ {a})
<1>1. SumFunction(v) = v[a] + r
  BY SumRemove DEF SumFunction
<1>2. SumFunction(w) = w[a] + SumFunctionOnSet(w, S \ {a})
  BY SumRemove DEF SumFunction
<1>3. SumFunctionOnSet(w, S \ {a}) = r
  BY SumSame, FS_Subset
<1>4. r \in Int /\ v[a] \in Int /\ w[a] \in Int
  BY SumType
<1> HIDE DEF r
<1>5. QED
  BY <1>1, <1>2, <1>3, <1>4
=============================================================================
