---------------------------- MODULE SumTheorems ----------------------------
(***************************************************************************)
(* Sums of a function over a finite set (SumFunctionOnSet), as the limits  *)
(* of cards and policies use them: what the recursive definition computes, *)
(* proved by taking a smallest counterexample among the subsets of a       *)
(* finite set.                                                             *)
(***************************************************************************)
EXTENDS Functions, FiniteSetTheorems, TLAPS

(***************************************************************************)
(* A nonempty set of subsets of a finite set has a smallest member: the    *)
(* form in which induction over finite sets is used below.                 *)
(***************************************************************************)
LEMMA Smallest ==
    ASSUME NEW S, IsFiniteSet(S), NEW T \in SUBSET SUBSET S, T # {}
    PROVE  \E s \in T : \A r \in T : r \subseteq s => r = s
<1>1. IsWellFoundedOn(StrictSubsetOrdering(S), SUBSET S)
  BY FS_StrictSubsetOrderingWellFounded, FS_FiniteSubsetsOfFinite
<1>2. PICK s \in T : \A r \in T : <<r, s>> \notin StrictSubsetOrdering(S)
  BY <1>1, WFMin
<1> QED
  BY <1>2 DEF StrictSubsetOrdering

-----------------------------------------------------------------------------
(* The recursive function behind a sum.                                    *)

Pick(s) == CHOOSE x \in s : TRUE
Unfold(f, g, s) == IF s = {} THEN 0 ELSE f[Pick(s)] + g[s \ {Pick(s)}]
SumsUp(f, S, g) == g = [s \in SUBSET S |-> Unfold(f, g, s)]

(***************************************************************************)
(* What the library's definition comes to.                                 *)
(***************************************************************************)
LEMMA SumIs ==
    ASSUME NEW f, NEW S
    PROVE  SumFunctionOnSet(f, S) = (CHOOSE g : SumsUp(f, S, g))[S]
BY DEF SumFunctionOnSet, FoldFunctionOnSet, MapThenFoldSet, SumsUp, Unfold, Pick

(***************************************************************************)
(* The values of such a function.                                          *)
(***************************************************************************)
LEMMA Unfolds ==
    ASSUME NEW f, NEW S, NEW g, SumsUp(f, S, g), NEW s \in SUBSET S
    PROVE  g[s] = Unfold(f, g, s)
<1> DEFINE h == [r \in SUBSET S |-> Unfold(f, g, r)]
<1>1. g = h
  BY DEF SumsUp
<1>2. h[s] = Unfold(f, g, s)
  OBVIOUS
<1> QED
  BY <1>1, <1>2

LEMMA PickIn == ASSUME NEW s, s # {} PROVE Pick(s) \in s
BY DEF Pick

(***************************************************************************)
(* Two of them agree where both are defined.                               *)
(***************************************************************************)
LEMMA SumsAgree ==
    ASSUME NEW f, NEW S, NEW T, IsFiniteSet(S), NEW g, NEW h,
           SumsUp(f, S, g), SumsUp(f, T, h), S \subseteq T
    PROVE  \A s \in SUBSET S : g[s] = h[s]
<1> DEFINE Bad == {s \in SUBSET S : g[s] # h[s]}
<1> SUFFICES ASSUME Bad # {} PROVE FALSE
  OBVIOUS
<1>1. PICK s \in Bad : \A r \in Bad : r \subseteq s => r = s
  <2>1. Bad \in SUBSET SUBSET S
    OBVIOUS
  <2> HIDE DEF Bad
  <2> QED
    BY <2>1, Smallest
<1>2. g[s] = Unfold(f, g, s) /\ h[s] = Unfold(f, h, s)
  BY Unfolds
<1>3. s # {} => s \ {Pick(s)} \notin Bad
  BY <1>1, PickIn
<1> QED
  BY <1>2, <1>3 DEF Unfold

(***************************************************************************)
(* It exists.                                                              *)
(***************************************************************************)
LEMMA SumsExist ==
    ASSUME NEW f, NEW S, IsFiniteSet(S)
    PROVE  \E g : SumsUp(f, S, g)
<1> DEFINE Bad == {T \in SUBSET S : ~ \E g : SumsUp(f, T, g)}
           V(s) == CHOOSE g : SumsUp(f, s, g)
<1> SUFFICES ASSUME Bad # {} PROVE FALSE
  OBVIOUS
<1>1. PICK T \in Bad : \A r \in Bad : r \subseteq T => r = T
  <2>1. Bad \in SUBSET SUBSET S
    OBVIOUS
  <2> HIDE DEF Bad
  <2> QED
    BY <2>1, Smallest
<1>2. \A s \in SUBSET T : s # T => SumsUp(f, s, V(s))
  BY <1>1
<1> DEFINE total == IF T = {} THEN 0 ELSE f[Pick(T)] + V(T \ {Pick(T)})[T \ {Pick(T)}]
           g == [s \in SUBSET T |-> IF s = T THEN total ELSE V(s)[s]]
<1>3. ASSUME NEW s \in SUBSET T PROVE g[s] = Unfold(f, g, s)
  <2>1. CASE s = T
    BY <2>1, PickIn DEF Unfold
  <2>2. CASE s # T
    <3>1. g[s] = Unfold(f, V(s), s)
      BY <1>2, <2>2, Unfolds
    <3>2. ASSUME s # {} PROVE V(s)[s \ {Pick(s)}] = g[s \ {Pick(s)}]
      <4> DEFINE r == s \ {Pick(s)}
      <4>1. r \in SUBSET T /\ r # T /\ r \subseteq s /\ r \in SUBSET r /\ IsFiniteSet(r)
        BY <3>2, PickIn, FS_Subset
      <4>2. SumsUp(f, r, V(r)) /\ SumsUp(f, s, V(s))
        BY <4>1, <1>2, <2>2
      <4>3. V(r)[r] = V(s)[r]
        <5> HIDE DEF V, r
        <5> QED
          BY <4>1, <4>2, SumsAgree
      <4> QED
        BY <4>1, <4>3
    <3> QED
      BY <3>1, <3>2 DEF Unfold
  <2> QED
    BY <2>1, <2>2
<1>4. g = [s \in SUBSET T |-> Unfold(f, g, s)]
  BY <1>3
<1>5. SumsUp(f, T, g)
  BY <1>4 DEF SumsUp
<1> QED
  BY <1>1, <1>5

(***************************************************************************)
(* The recursive equation of a sum.                                        *)
(***************************************************************************)
LEMMA SumUnfolds ==
    ASSUME NEW f, NEW S, IsFiniteSet(S)
    PROVE  SumFunctionOnSet(f, S) =
               IF S = {} THEN 0 ELSE f[Pick(S)] + SumFunctionOnSet(f, S \ {Pick(S)})
<1> DEFINE V(s) == CHOOSE g : SumsUp(f, s, g)
           r == S \ {Pick(S)}
<1>1. SumsUp(f, S, V(S)) /\ SumFunctionOnSet(f, S) = V(S)[S]
  BY SumsExist, SumIs
<1>2. V(S)[S] = Unfold(f, V(S), S)
  BY <1>1, Unfolds
<1>3. ASSUME S # {} PROVE V(S)[r] = SumFunctionOnSet(f, r)
  <2>1. IsFiniteSet(r) /\ r \subseteq S /\ r \in SUBSET r
    BY FS_Subset
  <2>2. SumsUp(f, r, V(r)) /\ SumFunctionOnSet(f, r) = V(r)[r]
    BY <2>1, SumsExist, SumIs
  <2> QED
    BY <1>1, <2>1, <2>2, SumsAgree
<1> QED
  BY <1>1, <1>2, <1>3 DEF Unfold

-----------------------------------------------------------------------------
(* What a sum does with its set and its function.                          *)

(***************************************************************************)
(* The empty sum.                                                          *)
(***************************************************************************)
LEMMA SumEmpty == \A f : SumFunctionOnSet(f, {}) = 0
BY SumUnfolds, FS_EmptySet

(***************************************************************************)
(* A sum of naturals is one.                                               *)
(***************************************************************************)
LEMMA SumNat ==
    ASSUME NEW f, NEW S, IsFiniteSet(S), \A x \in S : f[x] \in Nat
    PROVE  SumFunctionOnSet(f, S) \in Nat
<1> DEFINE Bad == {s \in SUBSET S : SumFunctionOnSet(f, s) \notin Nat}
<1> SUFFICES ASSUME Bad # {} PROVE FALSE
  OBVIOUS
<1>1. PICK s \in Bad : \A r \in Bad : r \subseteq s => r = s
  <2>1. Bad \in SUBSET SUBSET S
    OBVIOUS
  <2> HIDE DEF Bad
  <2> QED
    BY <2>1, Smallest
<1>2. s # {}
  BY SumEmpty
<1>3. Pick(s) \in s /\ f[Pick(s)] \in Nat
  BY <1>2, PickIn
<1>4. SumFunctionOnSet(f, s \ {Pick(s)}) \in Nat
  BY <1>1, <1>3
<1>5. SumFunctionOnSet(f, s) = f[Pick(s)] + SumFunctionOnSet(f, s \ {Pick(s)})
  BY <1>2, FS_Subset, SumUnfolds
<1> QED
  BY <1>3, <1>4, <1>5

(***************************************************************************)
(* Any member may be taken out: the choice of the definition is immaterial.*)
(***************************************************************************)
LEMMA SumRemove ==
    ASSUME NEW f, NEW S, IsFiniteSet(S), \A x \in S : f[x] \in Nat, NEW x \in S
    PROVE  SumFunctionOnSet(f, S) = f[x] + SumFunctionOnSet(f, S \ {x})
<1> DEFINE Sum(s) == SumFunctionOnSet(f, s)
           Bad == {s \in SUBSET S : \E y \in s : Sum(s) # f[y] + Sum(s \ {y})}
<1> SUFFICES ASSUME Bad # {} PROVE FALSE
  OBVIOUS
<1>1. PICK s \in Bad : \A r \in Bad : r \subseteq s => r = s
  <2>1. Bad \in SUBSET SUBSET S
    OBVIOUS
  <2> HIDE DEF Bad
  <2> QED
    BY <2>1, Smallest
<1>2. PICK y \in s : Sum(s) # f[y] + Sum(s \ {y})
  BY <1>1
<1> DEFINE z == Pick(s)
<1>3. z \in s /\ Sum(s) = f[z] + Sum(s \ {z})
  BY <1>2, PickIn, FS_Subset, SumUnfolds
<1>4. z # y
  BY <1>2, <1>3
<1>5. /\ Sum(s \ {z}) = f[y] + Sum((s \ {z}) \ {y})
      /\ Sum(s \ {y}) = f[z] + Sum((s \ {y}) \ {z})
  BY <1>1, <1>2, <1>3, <1>4
<1>6. (s \ {z}) \ {y} = (s \ {y}) \ {z}
  OBVIOUS
<1>7. f[y] \in Nat /\ f[z] \in Nat /\ Sum((s \ {z}) \ {y}) \in Nat
  BY <1>2, <1>3, FS_Subset, SumNat
<1> HIDE DEF z, Sum
<1> QED
  BY <1>2, <1>3, <1>5, <1>6, <1>7

(***************************************************************************)
(* One more summand.                                                       *)
(***************************************************************************)
LEMMA SumAdd ==
    ASSUME NEW f, NEW S, IsFiniteSet(S), NEW x, x \notin S, \A y \in S \cup {x} : f[y] \in Nat
    PROVE  SumFunctionOnSet(f, S \cup {x}) = f[x] + SumFunctionOnSet(f, S)
<1>1. IsFiniteSet(S \cup {x}) /\ (S \cup {x}) \ {x} = S
  BY FS_AddElement
<1> QED
  BY <1>1, SumRemove

(***************************************************************************)
(* Fewer summands come to no more.                                         *)
(***************************************************************************)
LEMMA SumMonotone ==
    ASSUME NEW f, NEW S, IsFiniteSet(S), \A x \in S : f[x] \in Nat, NEW T \in SUBSET S
    PROVE  SumFunctionOnSet(f, T) <= SumFunctionOnSet(f, S)
<1> DEFINE Sum(s) == SumFunctionOnSet(f, s)
           Bad == {s \in SUBSET S : T \subseteq s /\ ~(Sum(T) <= Sum(s))}
<1> SUFFICES ASSUME Bad # {} PROVE FALSE
  OBVIOUS
<1>1. PICK s \in Bad : \A r \in Bad : r \subseteq s => r = s
  <2>1. Bad \in SUBSET SUBSET S
    OBVIOUS
  <2> HIDE DEF Bad
  <2> QED
    BY <2>1, Smallest
<1>2. \A r \in SUBSET S : Sum(r) \in Nat
  BY FS_Subset, SumNat
<1>3. PICK x \in s : x \notin T
  BY <1>2
<1>4. Sum(T) <= Sum(s \ {x})
  BY <1>1, <1>3
<1>5. Sum(s) = f[x] + Sum(s \ {x}) /\ f[x] \in Nat
  BY FS_Subset, SumRemove
<1> HIDE DEF Sum
<1> QED
  BY <1>1, <1>2, <1>4, <1>5

(***************************************************************************)
(* Only the values at the members matter.                                  *)
(***************************************************************************)
LEMMA SumSame ==
    ASSUME NEW f, NEW g, NEW S, IsFiniteSet(S), \A x \in S : f[x] = g[x]
    PROVE  SumFunctionOnSet(f, S) = SumFunctionOnSet(g, S)
<1> DEFINE Bad == {s \in SUBSET S : SumFunctionOnSet(f, s) # SumFunctionOnSet(g, s)}
<1> SUFFICES ASSUME Bad # {} PROVE FALSE
  OBVIOUS
<1>1. PICK s \in Bad : \A r \in Bad : r \subseteq s => r = s
  <2>1. Bad \in SUBSET SUBSET S
    OBVIOUS
  <2> HIDE DEF Bad
  <2> QED
    BY <2>1, Smallest
<1>2. s # {}
  BY SumEmpty
<1>3. /\ SumFunctionOnSet(f, s) = f[Pick(s)] + SumFunctionOnSet(f, s \ {Pick(s)})
      /\ SumFunctionOnSet(g, s) = g[Pick(s)] + SumFunctionOnSet(g, s \ {Pick(s)})
  BY <1>2, FS_Subset, SumUnfolds
<1>4. Pick(s) \in s
  BY <1>2, PickIn
<1>5. s \ {Pick(s)} \notin Bad
  BY <1>1, <1>4
<1> QED
  BY <1>3, <1>4, <1>5
=============================================================================
