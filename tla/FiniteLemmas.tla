---------------------------- MODULE FiniteLemmas ----------------------------
(***************************************************************************)
(* Facts about finite sets and sums over them that several proofs need.    *)
(*                                                                         *)
(* Induction is stated without operator parameters: what is to be shown is *)
(* given as the set of the things it holds of, which a prover can          *)
(* instantiate where it cannot instantiate a predicate.  It rests on       *)
(* strict inclusion being well founded on finite sets.                     *)
(***************************************************************************)
EXTENDS Integers, Sums, FiniteSetTheorems, TLAPS

\* What holds of the empty set and of every set that grows by one element
\* holds of every finite set.
LEMMA FiniteInduction ==
  ASSUME NEW S, IsFiniteSet(S), NEW Good, {} \in Good,
         \A T \in SUBSET S, x \in S : T \in Good => T \cup {x} \in Good
  PROVE  S \in Good
<1> SUFFICES ASSUME S \notin Good PROVE FALSE
  OBVIOUS
<1> DEFINE Bad == {T \in SUBSET S : T \notin Good}
<1>1. Bad \subseteq FiniteSubsetsOf(S) /\ Bad # {}
  BY FS_Subset DEF FiniteSubsetsOf
<1>2. PICK T \in Bad : \A U \in Bad : ~ (<<U, T>> \in StrictSubsetOrdering(S))
  BY <1>1, FS_StrictSubsetOrderingWellFounded, WFMin
<1>3. PICK x \in T : TRUE
  OBVIOUS
<1>4. T \ {x} \in Bad
  BY <1>3
<1>5. <<T \ {x}, T>> \in StrictSubsetOrdering(S)
  BY <1>1, <1>3, <1>4 DEF StrictSubsetOrdering
<1> QED BY <1>2, <1>4, <1>5

\* Numbers that are not empty have a least one.
LEMMA LeastNumber ==
  ASSUME NEW S, S \subseteq Nat, S # {}
  PROVE  \E n \in S : \A m \in S : n <= m
<1> DEFINE Below == {1..n : n \in S}
<1>1. Below \subseteq FiniteSubsetsOf(Nat) /\ Below # {}
  <2>1. \A n \in S : IsFiniteSet(1..n) /\ 1..n \subseteq Nat
    BY FS_Interval
  <2> QED BY <2>1 DEF FiniteSubsetsOf
<1>2. PICK T \in Below : \A U \in Below : ~ (<<U, T>> \in StrictSubsetOrdering(Nat))
  BY <1>1, FS_StrictSubsetOrderingWellFounded, WFMin
<1>3. PICK n \in S : T = 1..n
  BY <1>2
<1>4. ASSUME NEW m \in S, m < n PROVE FALSE
  <2>1. 1..m \subseteq 1..n /\ 1..m # 1..n
    <3>1. n \in 1..n /\ n \notin 1..m
      BY <1>4
    <3> QED BY <1>4, <3>1
  <2>2. <<1..m, 1..n>> \in StrictSubsetOrdering(Nat)
    BY <2>1 DEF StrictSubsetOrdering
  <2> QED BY <1>2, <1>3, <2>2
<1> QED BY <1>4

\* What holds of 0 and of every successor holds of every number.
LEMMA NumberInduction ==
  ASSUME NEW S, 0 \in S, \A n \in Nat : n \in S => n + 1 \in S
  PROVE  Nat \subseteq S
<1> SUFFICES ASSUME Nat \ S # {} PROVE FALSE
  OBVIOUS
<1>1. PICK n \in Nat \ S : \A m \in Nat \ S : n <= m
  BY LeastNumber
<1>2. n - 1 \in Nat /\ n - 1 \in S
  BY <1>1
<1> QED BY <1>1, <1>2

-----------------------------------------------------------------------------
(* Sums *)

\* The units of one element are as many as its value says.
LEMMA UnitsOfOne ==
  ASSUME NEW x, NEW n \in Nat
  PROVE  IsFiniteSet({x} \X (1..n)) /\ Cardinality({x} \X (1..n)) = n
<1>1. IsFiniteSet({x}) /\ Cardinality({x}) = 1
  BY FS_Singleton
<1>2. IsFiniteSet(1..n) /\ Cardinality(1..n) = n
  BY FS_Interval
<1>3. IsFiniteSet({x} \X (1..n)) /\ Cardinality({x} \X (1..n)) = Cardinality({x}) * Cardinality(1..n)
  BY <1>1, <1>2, FS_Product
<1> QED
  BY <1>1, <1>2, <1>3

\* A sum over finitely many numbers is a number.
LEMMA SumIsNumber ==
  ASSUME NEW S, IsFiniteSet(S), NEW f, \A x \in S : f[x] \in Nat
  PROVE  IsFiniteSet(UnitsOf(f, S)) /\ SumOf(f, S) \in Nat
<1> DEFINE Good == {T \in SUBSET S : IsFiniteSet(UnitsOf(f, T))}
<1>1. {} \in Good
  BY FS_EmptySet DEF UnitsOf
<1>2. ASSUME NEW T \in SUBSET S, NEW x \in S, T \in Good PROVE T \cup {x} \in Good
  <2>1. UnitsOf(f, T \cup {x}) = UnitsOf(f, T) \cup ({x} \X (1..f[x]))
    BY DEF UnitsOf
  <2>4. f[x] \in Nat
    OBVIOUS
  <2>2. IsFiniteSet({x} \X (1..f[x]))
    BY <2>4, UnitsOfOne
  <2>3. IsFiniteSet(UnitsOf(f, T \cup {x}))
    <3>1. IsFiniteSet(UnitsOf(f, T))
      BY <1>2
    <3>2. IsFiniteSet(UnitsOf(f, T) \cup ({x} \X (1..f[x])))
      BY <2>2, <3>1, FS_Union
    <3> QED BY <2>1, <3>2
  <2> QED
    BY <2>3
<1> HIDE DEF Good
<1>3. S \in Good
  BY <1>1, <1>2, FiniteInduction
<1> QED
  BY <1>3, FS_CardinalityType DEF Good, SumOf

LEMMA SumOfNone == ASSUME NEW f PROVE SumOf(f, {}) = 0
  BY FS_EmptySet DEF SumOf, UnitsOf

\* Fewer elements have no greater sum.
LEMMA SumOfFewer ==
  ASSUME NEW S, IsFiniteSet(S), NEW T \in SUBSET S, NEW f, \A x \in S : f[x] \in Nat
  PROVE  SumOf(f, T) <= SumOf(f, S)
<1>1. UnitsOf(f, T) \subseteq UnitsOf(f, S)
  BY DEF UnitsOf
<1>2. IsFiniteSet(UnitsOf(f, S))
  BY SumIsNumber
<1>3. Cardinality(UnitsOf(f, T)) <= Cardinality(UnitsOf(f, S))
  BY <1>1, <1>2, FS_Subset
<1> QED
  BY <1>3 DEF SumOf

\* Functions that agree on a set have the same sum over it.
LEMMA SumOfSame ==
  ASSUME NEW S, NEW f, NEW g, \A x \in S : f[x] = g[x]
  PROVE  SumOf(f, S) = SumOf(g, S)
<1>1. UnitsOf(f, S) = UnitsOf(g, S)
  BY DEF UnitsOf
<1> QED
  BY <1>1 DEF SumOf

\* One more element adds its value.
LEMMA SumWithOneMore ==
  ASSUME NEW S, IsFiniteSet(S), NEW x, x \notin S, NEW f, \A y \in S \cup {x} : f[y] \in Nat
  PROVE  SumOf(f, S \cup {x}) = SumOf(f, S) + f[x]
<1>1. UnitsOf(f, S \cup {x}) = UnitsOf(f, S) \cup ({x} \X (1..f[x]))
  BY DEF UnitsOf
<1>2. UnitsOf(f, S) \cap ({x} \X (1..f[x])) = {}
  BY DEF UnitsOf
<1>7. f[x] \in Nat
  OBVIOUS
<1>3. IsFiniteSet({x} \X (1..f[x])) /\ Cardinality({x} \X (1..f[x])) = f[x]
  BY <1>7, UnitsOfOne
<1>4. IsFiniteSet(UnitsOf(f, S)) /\ SumOf(f, S) \in Nat
  BY SumIsNumber
<1>5. SumOf(f, S \cup {x}) = SumOf(f, S) + f[x] - Cardinality(UnitsOf(f, S) \cap ({x} \X (1..f[x])))
  BY <1>1, <1>3, <1>4, FS_Union DEF SumOf
<1>6. Cardinality(UnitsOf(f, S) \cap ({x} \X (1..f[x]))) = 0
  BY <1>2, FS_EmptySet
<1> QED
  BY <1>7, <1>4, <1>5, <1>6

\* A change of one value changes the sum by as much.
LEMMA SumWithOneChanged ==
  ASSUME NEW S, IsFiniteSet(S), NEW x \in S, NEW f, NEW g,
         \A y \in S : f[y] \in Nat /\ g[y] \in Nat,
         \A y \in S \ {x} : f[y] = g[y]
  PROVE  SumOf(g, S) + f[x] = SumOf(f, S) + g[x]
<1>1. IsFiniteSet(S \ {x}) /\ S = (S \ {x}) \cup {x} /\ x \notin S \ {x}
  BY FS_Subset
<1>2. SumOf(f, (S \ {x}) \cup {x}) = SumOf(f, S \ {x}) + f[x]
  BY <1>1, SumWithOneMore
<1>3. SumOf(g, (S \ {x}) \cup {x}) = SumOf(g, S \ {x}) + g[x]
  BY <1>1, SumWithOneMore
<1>4. SumOf(f, S \ {x}) = SumOf(g, S \ {x})
  BY SumOfSame
<1>5. SumOf(f, S \ {x}) \in Nat /\ f[x] \in Nat /\ g[x] \in Nat
  BY <1>1, SumIsNumber
<1>6. SumOf(f, S) = SumOf(f, S \ {x}) + f[x] /\ SumOf(g, S) = SumOf(g, S \ {x}) + g[x]
  BY <1>1, <1>2, <1>3, Zenon
<1> QED
  BY <1>4, <1>5, <1>6

=============================================================================
