------------------------------- MODULE SumLemmas -------------------------------
(***************************************************************************)
(* Sums over finite sets: SumFunctionOnSet(F, S), the fold of module       *)
(* Functions, counts every element of S once, in whatever order.           *)
(*                                                                         *)
(* The fold chooses a function that satisfies its recursive equation on    *)
(* all subsets of S. That there is one (SummingExists), and that it does   *)
(* not depend on S (SummingIsUnique), goes by an induction over the size   *)
(* of a subset and over subsets; both are stated of a set of values for    *)
(* which the claim holds, and follow from the well-foundedness of < and    *)
(* of the strict inclusion.                                                *)
(***************************************************************************)
EXTENDS Integers, Functions, FiniteSets, FiniteSetTheorems, WellFoundedInduction,
        TLAPS

(* A set of numbers that has zero and every successor has all of them.     *)
LEMMA NatSetInduction ==
  ASSUME NEW T \in SUBSET Nat,
         0 \in T,
         \A n \in T : n + 1 \in T
  PROVE  T = Nat
<1> DEFINE Rest == Nat \ T
<1> SUFFICES ASSUME Rest # {} PROVE FALSE
  OBVIOUS
<1>1. \E n \in Rest : \A m \in Rest : <<m, n>> \notin OpToRel(<, Nat)
  <2>1. Rest \subseteq Nat
    OBVIOUS
  <2> HIDE DEF Rest
  <2> QED
    BY <2>1, NatLessThanWellFounded, WFMin, Zenon
<1>2. PICK n \in Rest : \A m \in Rest : <<m, n>> \notin OpToRel(<, Nat)
  BY <1>1
<1>3. \A m \in Rest : ~(m < n)
  BY <1>2 DEF OpToRel
<1>4. n - 1 \in Nat /\ n - 1 \in T
  BY <1>3
<1> QED
  BY <1>4

(* Among the subsets of a finite set there is one that includes no other.  *)
LEMMA MinimalSubset ==
  ASSUME NEW S, IsFiniteSet(S), NEW U, U \subseteq SUBSET S, U # {}
  PROVE  \E s \in U : \A t \in U : ~(t \subseteq s /\ t # s)
<1> DEFINE R == StrictSubsetOrdering(S)
<1>1. IsWellFoundedOn(R, SUBSET S)
  BY FS_StrictSubsetOrderingWellFounded, FS_FiniteSubsetsOfFinite
<1>2. \E s \in U : \A t \in U : ~(<<t, s>> \in R)
  <2> HIDE DEF R
  <2> QED
    BY <1>1, WFMin
<1>3. PICK s \in U : \A t \in U : ~(<<t, s>> \in R)
  BY <1>2
<1>4. ASSUME NEW t \in U, t \subseteq s, t # s
      PROVE  <<t, s>> \in R
  BY <1>4 DEF StrictSubsetOrdering
<1> HIDE DEF R
<1>5. \A t \in U : ~(t \subseteq s /\ t # s)
  BY <1>3, <1>4
<1> QED
  BY <1>5

(* What holds of a subset whenever it holds of all its proper subsets       *)
(* holds of every subset of a finite set.                                  *)
LEMMA SubsetInduction ==
  ASSUME NEW S, IsFiniteSet(S),
         NEW T \in SUBSET SUBSET S,
         \A s \in SUBSET S :
           (\A t \in SUBSET s : t # s => t \in T) => s \in T
  PROVE  T = SUBSET S
<1> DEFINE Rest == (SUBSET S) \ T
<1> SUFFICES ASSUME Rest # {} PROVE FALSE
  OBVIOUS
<1>1. PICK s \in Rest : \A t \in Rest : ~(t \subseteq s /\ t # s)
  <2>1. Rest \subseteq SUBSET S
    OBVIOUS
  <2> HIDE DEF Rest
  <2> QED
    BY <2>1, MinimalSubset
<1>2. \A t \in SUBSET s : t # s => t \in T
  BY <1>1
<1> QED
  BY <1>2

--------------------------------------------------------------------------------
(* The element with which the fold begins.                                 *)
First(s) == CHOOSE x \in s : TRUE

(* The equation of the fold, for a set D of subsets.                       *)
Summing(F, D, g) ==
  g = [s \in D |-> IF s = {} THEN 0 ELSE F[First(s)] + g[s \ {First(s)}]]

(* The subsets of S with fewer than n elements.                            *)
Small(S, n) == {s \in SUBSET S : Cardinality(s) < n}

(* A set that is not empty has its first element.                          *)
LEMMA FirstIsIn == \A s : s # {} => First(s) \in s
  BY DEF First

(* The equation has a solution on the small subsets, whatever "small" is.  *)
LEMMA SummingUpTo ==
  ASSUME NEW F, NEW S, IsFiniteSet(S)
  PROVE  \A n \in Nat : \E g : Summing(F, Small(S, n), g)
<1> DEFINE T == {n \in Nat : \E g : Summing(F, Small(S, n), g)}
<1>1. 0 \in T
  <2>1. Small(S, 0) = {}
    BY FS_Subset, FS_CardinalityType DEF Small
  <2>2. Summing(F, Small(S, 0), [s \in {} |-> 0])
    BY <2>1 DEF Summing
  <2> QED
    BY <2>2
<1>2. ASSUME NEW n \in T PROVE n + 1 \in T
  <2>1. PICK g : Summing(F, Small(S, n), g)
    BY <1>2
  <2> DEFINE h == [s \in Small(S, n + 1) |->
                    IF s = {} THEN 0 ELSE F[First(s)] + g[s \ {First(s)}]]
  <2>2. ASSUME NEW s \in Small(S, n + 1), s # {}
        PROVE  /\ s \ {First(s)} \in Small(S, n)
               /\ s \ {First(s)} \in Small(S, n + 1)
    <3>1. IsFiniteSet(s) /\ Cardinality(s) \in Nat
      BY FS_Subset, FS_CardinalityType DEF Small
    <3>2. Cardinality(s \ {First(s)}) = Cardinality(s) - 1
      BY <3>1, <2>2, FirstIsIn, FS_RemoveElement
    <3> QED
      BY <3>1, <3>2 DEF Small
  <2>3. ASSUME NEW t \in Small(S, n), t \in Small(S, n + 1)
        PROVE  h[t] = g[t]
    BY <2>1, <2>3, Zenon DEF Summing
  <2>4. h = [s \in Small(S, n + 1) |->
              IF s = {} THEN 0 ELSE F[First(s)] + h[s \ {First(s)}]]
    <3> SUFFICES ASSUME NEW s \in Small(S, n + 1), s # {}
                 PROVE  g[s \ {First(s)}] = h[s \ {First(s)}]
      BY Zenon
    <3> HIDE DEF h
    <3> QED
      BY <2>2, <2>3, Zenon
  <2>5. Summing(F, Small(S, n + 1), h)
    BY <2>4, Zenon DEF Summing
  <2> QED
    BY <2>5
<1>3. T = Nat
  <2> HIDE DEF T
  <2>1. T \in SUBSET Nat
    BY DEF T
  <2> QED
    BY <1>1, <1>2, <2>1, NatSetInduction
<1> QED
  BY <1>3

(* ... and so on all of them.                                              *)
LEMMA SummingExists ==
  ASSUME NEW F, NEW S, IsFiniteSet(S)
  PROVE  \E g : Summing(F, SUBSET S, g)
<1>1. Cardinality(S) \in Nat
  BY FS_CardinalityType
<1>2. Small(S, Cardinality(S) + 1) = SUBSET S
  <2> SUFFICES ASSUME NEW s \in SUBSET S PROVE Cardinality(s) < Cardinality(S) + 1
    BY DEF Small
  <2>1. Cardinality(s) \in Nat /\ Cardinality(s) <= Cardinality(S)
    BY FS_Subset, FS_CardinalityType
  <2> QED
    BY <1>1, <2>1
<1>3. \A n \in Nat : \E g : Summing(F, Small(S, n), g)
  BY SummingUpTo, Zenon
<1>4. Cardinality(S) + 1 \in Nat
  BY <1>1
<1>5. \E g : Summing(F, Small(S, Cardinality(S) + 1), g)
  BY <1>3, <1>4, Zenon
<1> QED
  BY <1>2, <1>5, Zenon

(* The sum is the value of such a solution.                                *)
LEMMA SumIsSumming ==
  ASSUME NEW F, NEW S, IsFiniteSet(S)
  PROVE  \E g : Summing(F, SUBSET S, g) /\ SumFunctionOnSet(F, S) = g[S]
<1> DEFINE it == CHOOSE g : Summing(F, SUBSET S, g)
<1>1. Summing(F, SUBSET S, it)
  BY SummingExists, Zenon
<1>2. SumFunctionOnSet(F, S) = it[S]
  BY DEF SumFunctionOnSet, FoldFunctionOnSet, MapThenFoldSet, Summing, First
<1> QED
  BY <1>1, <1>2

(* A solution gives every subset the same value, on whatever set it is one. *)
LEMMA SummingIsUnique ==
  ASSUME NEW F, NEW S, IsFiniteSet(S), NEW T \in SUBSET S
  PROVE  \A g, h : Summing(F, SUBSET S, g) /\ Summing(F, SUBSET T, h) =>
                  \A t \in SUBSET T : g[t] = h[t]
<1> SUFFICES ASSUME NEW g, NEW h, Summing(F, SUBSET S, g), Summing(F, SUBSET T, h)
             PROVE  \A t \in SUBSET T : g[t] = h[t]
  BY Zenon
<1> DEFINE Agree == {t \in SUBSET T : g[t] = h[t]}
<1>1. ASSUME NEW s \in SUBSET T, \A t \in SUBSET s : t # s => t \in Agree
      PROVE  s \in Agree
  <2>1. CASE s = {}
    BY <2>1 DEF Summing
  <2>2. CASE s # {}
    <3>1. s \ {First(s)} \in Agree
      BY <1>1, <2>2, FirstIsIn
    <3>2. g[s] = F[First(s)] + g[s \ {First(s)}]
      BY <2>2, Zenon DEF Summing
    <3>3. h[s] = F[First(s)] + h[s \ {First(s)}]
      BY <2>2, Zenon DEF Summing
    <3> QED
      BY <3>1, <3>2, <3>3
  <2> QED
    BY <2>1, <2>2
<1>2. IsFiniteSet(T)
  BY FS_Subset
<1>3. Agree = SUBSET T
  <2>1. Agree \in SUBSET SUBSET T
    OBVIOUS
  <2> HIDE DEF Agree
  <2> QED
    BY <1>1, <1>2, <2>1, SubsetInduction
<1> QED
  BY <1>3

(* Nothing sums up to zero.                                                *)
LEMMA SumEmpty ==
  ASSUME NEW F
  PROVE  SumFunctionOnSet(F, {}) = 0
<1>1. IsFiniteSet({})
  BY FS_EmptySet
<1>2. PICK g : Summing(F, SUBSET {}, g) /\ SumFunctionOnSet(F, {}) = g[{}]
  BY <1>1, SumIsSumming
<1> QED
  BY <1>2 DEF Summing

(* A sum begins with its first element.                                    *)
LEMMA SumFirst ==
  ASSUME NEW F, NEW S, IsFiniteSet(S), S # {}
  PROVE  SumFunctionOnSet(F, S)
           = F[First(S)] + SumFunctionOnSet(F, S \ {First(S)})
<1>1. PICK T : T = S \ {First(S)}
  OBVIOUS
<1>2. IsFiniteSet(T) /\ T \in SUBSET S
  BY <1>1, FS_Subset
<1>3. PICK g : Summing(F, SUBSET S, g) /\ SumFunctionOnSet(F, S) = g[S]
  BY SumIsSumming
<1>4. PICK h : Summing(F, SUBSET T, h) /\ SumFunctionOnSet(F, T) = h[T]
  BY <1>2, SumIsSumming
<1>5. \A t \in SUBSET T : g[t] = h[t]
  <2>1. \A k, m : Summing(F, SUBSET S, k) /\ Summing(F, SUBSET T, m) =>
                 \A t \in SUBSET T : k[t] = m[t]
    BY <1>2, SummingIsUnique
  <2> QED
    BY <1>3, <1>4, <2>1, Zenon
<1>6. g[S] = F[First(S)] + g[T]
  BY <1>1, <1>3, Zenon DEF Summing
<1> QED
  BY <1>1, <1>3, <1>4, <1>5, <1>6

(* Integers sum up to an integer.                                          *)
LEMMA SumType ==
  ASSUME NEW S, IsFiniteSet(S), NEW F, \A x \in S : F[x] \in Int
  PROVE  SumFunctionOnSet(F, S) \in Int
<1> DEFINE Good == {s \in SUBSET S : SumFunctionOnSet(F, s) \in Int}
<1>1. ASSUME NEW s \in SUBSET S, \A t \in SUBSET s : t # s => t \in Good
      PROVE  s \in Good
  <2>1. CASE s = {}
    BY <2>1, SumEmpty
  <2>2. CASE s # {}
    <3>1. s \ {First(s)} \in Good /\ First(s) \in S
      BY <1>1, <2>2, FirstIsIn
    <3>2. SumFunctionOnSet(F, s)
            = F[First(s)] + SumFunctionOnSet(F, s \ {First(s)})
      BY <2>2, SumFirst, FS_Subset
    <3> QED
      BY <3>1, <3>2
  <2> QED
    BY <2>1, <2>2
<1>2. Good = SUBSET S
  <2>1. Good \in SUBSET SUBSET S
    OBVIOUS
  <2> HIDE DEF Good
  <2> QED
    BY <1>1, <2>1, SubsetInduction
<1> QED
  BY <1>2

(* Zeros sum up to zero.                                                   *)
LEMMA SumZero ==
  ASSUME NEW S, IsFiniteSet(S), NEW F, \A x \in S : F[x] = 0
  PROVE  SumFunctionOnSet(F, S) = 0
<1> DEFINE Good == {s \in SUBSET S : SumFunctionOnSet(F, s) = 0}
<1>1. ASSUME NEW s \in SUBSET S, \A t \in SUBSET s : t # s => t \in Good
      PROVE  s \in Good
  <2>1. CASE s = {}
    BY <2>1, SumEmpty
  <2>2. CASE s # {}
    <3>1. s \ {First(s)} \in Good /\ First(s) \in S
      BY <1>1, <2>2, FirstIsIn
    <3>2. SumFunctionOnSet(F, s)
            = F[First(s)] + SumFunctionOnSet(F, s \ {First(s)})
      BY <2>2, SumFirst, FS_Subset
    <3> QED
      BY <3>1, <3>2
  <2> QED
    BY <2>1, <2>2
<1>2. Good = SUBSET S
  <2>1. Good \in SUBSET SUBSET S
    OBVIOUS
  <2> HIDE DEF Good
  <2> QED
    BY <1>1, <2>1, SubsetInduction
<1> QED
  BY <1>2

(* A sum can begin with any element.                                       *)
LEMMA SumRemove ==
  ASSUME NEW S, IsFiniteSet(S), NEW F, \A x \in S : F[x] \in Int
  PROVE  \A y \in S : SumFunctionOnSet(F, S) = F[y] + SumFunctionOnSet(F, S \ {y})
<1> DEFINE Good == {s \in SUBSET S : \A y \in s :
              SumFunctionOnSet(F, s) = F[y] + SumFunctionOnSet(F, s \ {y})}
<1>1. ASSUME NEW s \in SUBSET S, \A t \in SUBSET s : t # s => t \in Good
      PROVE  s \in Good
  <2> SUFFICES ASSUME NEW y \in s
               PROVE  SumFunctionOnSet(F, s) = F[y] + SumFunctionOnSet(F, s \ {y})
    OBVIOUS
  <2> DEFINE x == First(s)
  <2>1. x \in s
    BY FirstIsIn
  <2>2. SumFunctionOnSet(F, s) = F[x] + SumFunctionOnSet(F, s \ {x})
    BY SumFirst, FS_Subset
  <2> HIDE DEF x
  <2>3. CASE x = y
    BY <2>2, <2>3
  <2>4. CASE x # y
    <3>1. s \ {x} \in Good /\ y \in s \ {x}
      BY <1>1, <2>1, <2>4
    <3>2. SumFunctionOnSet(F, s \ {x}) = F[y] + SumFunctionOnSet(F, (s \ {x}) \ {y})
      BY <3>1
    <3>3. s \ {y} \in Good /\ x \in s \ {y}
      BY <1>1, <2>1, <2>4
    <3>4. SumFunctionOnSet(F, s \ {y}) = F[x] + SumFunctionOnSet(F, (s \ {y}) \ {x})
      BY <3>3
    <3>5. (s \ {y}) \ {x} = (s \ {x}) \ {y}
      BY Zenon
    <3> DEFINE rest == SumFunctionOnSet(F, (s \ {x}) \ {y})
    <3>6. rest \in Int
      BY SumType, FS_Subset
    <3>8. SumFunctionOnSet(F, s \ {y}) = F[x] + rest
      BY <3>4, <3>5
    <3>9. SumFunctionOnSet(F, s \ {x}) = F[y] + rest
      BY <3>2
    <3>7. F[x] \in Int /\ F[y] \in Int
      BY <2>1
    <3>10. SumFunctionOnSet(F, s) = F[x] + (F[y] + rest)
      BY <2>2, <3>9
    <3> HIDE DEF rest
    <3>11. SumFunctionOnSet(F, s) = F[y] + (F[x] + rest)
      BY <3>10, <3>6, <3>7
    <3> QED
      BY <3>8, <3>11
  <2> QED
    BY <2>3, <2>4
<1>2. Good = SUBSET S
  <2>1. Good \in SUBSET SUBSET S
    OBVIOUS
  <2> HIDE DEF Good
  <2> QED
    BY <1>1, <2>1, SubsetInduction
<1> QED
  BY <1>2

(* Only the values on the set matter.                                      *)
LEMMA SumCongruence ==
  ASSUME NEW S, IsFiniteSet(S), NEW F, NEW G, \A x \in S : F[x] = G[x]
  PROVE  SumFunctionOnSet(F, S) = SumFunctionOnSet(G, S)
<1> DEFINE Good == {s \in SUBSET S :
              SumFunctionOnSet(F, s) = SumFunctionOnSet(G, s)}
<1>1. ASSUME NEW s \in SUBSET S, \A t \in SUBSET s : t # s => t \in Good
      PROVE  s \in Good
  <2>1. CASE s = {}
    BY <2>1, SumEmpty
  <2>2. CASE s # {}
    <3>1. s \ {First(s)} \in Good /\ First(s) \in S
      BY <1>1, <2>2, FirstIsIn
    <3>2. SumFunctionOnSet(F, s)
            = F[First(s)] + SumFunctionOnSet(F, s \ {First(s)})
      BY <2>2, SumFirst, FS_Subset
    <3>3. SumFunctionOnSet(G, s)
            = G[First(s)] + SumFunctionOnSet(G, s \ {First(s)})
      BY <2>2, SumFirst, FS_Subset
    <3> QED
      BY <3>1, <3>2, <3>3
  <2> QED
    BY <2>1, <2>2
<1>2. Good = SUBSET S
  <2>1. Good \in SUBSET SUBSET S
    OBVIOUS
  <2> HIDE DEF Good
  <2> QED
    BY <1>1, <2>1, SubsetInduction
<1> QED
  BY <1>2

(* One more element adds its value.                                        *)
LEMMA SumAdd ==
  ASSUME NEW S, IsFiniteSet(S), NEW y, y \notin S, NEW F,
         \A x \in S \cup {y} : F[x] \in Int
  PROVE  SumFunctionOnSet(F, S \cup {y}) = F[y] + SumFunctionOnSet(F, S)
<1>1. IsFiniteSet(S \cup {y})
  BY FS_AddElement
<1>2. (S \cup {y}) \ {y} = S
  OBVIOUS
<1> HIDE DEF SumFunctionOnSet
<1>3. SumFunctionOnSet(F, S \cup {y})
        = F[y] + SumFunctionOnSet(F, (S \cup {y}) \ {y})
  BY <1>1, SumRemove
<1> QED
  BY <1>2, <1>3

(* If one value changes, so does the sum, by as much.                      *)
LEMMA SumChange ==
  ASSUME NEW S, IsFiniteSet(S), NEW y \in S, NEW F, NEW G,
         \A x \in S : F[x] \in Int /\ G[x] \in Int,
         \A x \in S \ {y} : F[x] = G[x]
  PROVE  SumFunctionOnSet(G, S) = SumFunctionOnSet(F, S) - F[y] + G[y]
<1>1. SumFunctionOnSet(F, S) = F[y] + SumFunctionOnSet(F, S \ {y})
  BY SumRemove
<1>2. SumFunctionOnSet(G, S) = G[y] + SumFunctionOnSet(G, S \ {y})
  BY SumRemove
<1>3. IsFiniteSet(S \ {y})
  BY FS_Subset
<1>4. SumFunctionOnSet(F, S \ {y}) = SumFunctionOnSet(G, S \ {y})
  BY <1>3, SumCongruence
<1>5. SumFunctionOnSet(F, S \ {y}) \in Int
  BY <1>3, SumType
<1> QED
  BY <1>1, <1>2, <1>4, <1>5
================================================================================
