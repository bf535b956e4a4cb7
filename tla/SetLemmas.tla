----------------------------- MODULE SetLemmas ------------------------------
(***************************************************************************)
(* Facts on Min and SumFunctionOnSet of the community modules, which the   *)
(* choice of the first matching rule and the counters of bytes rest on.    *)
(*                                                                         *)
(* A recursive function is a CHOOSE to the provers: that it exists is      *)
(* PartialSumsExist, and what it is follows for the smallest set it could  *)
(* be wrong of (MinimalSet).                                               *)
(***************************************************************************)
EXTENDS Integers, Functions, FiniteSetsExt, FiniteSetTheorems, WellFoundedInduction, TLAPS

\* A non-empty set of naturals has a least element: the first rule or the
\* first decoder that matches exists.
LEMMA MinNat ==
  ASSUME NEW S, S \subseteq Nat, S # {}
  PROVE  Min(S) \in S /\ \A y \in S : Min(S) <= y
<1>1. PICK x \in S : \A y \in S : ~ (<<y, x>> \in OpToRel(<, Nat))
  BY WFMin, NatLessThanWellFounded
<1>2. ASSUME NEW y \in S PROVE x <= y
  <2>1. y < x => <<y, x>> \in OpToRel(<, Nat)
    BY Zenon DEF OpToRel
  <2>2. ~ (y < x)
    BY <1>1, <2>1, Zenon
  <2> QED
    BY <2>2
<1> QED
  BY <1>2 DEF Min

-----------------------------------------------------------------------------
(* Sums. *)

\* SumFunctionOnSet(F, S) as its definition makes it: the function of the sums
\* over all subsets of S, at S.
AnyOf(s) == CHOOSE x \in s : TRUE
SumOne(F, g, s) == IF s = {} THEN 0 ELSE F[AnyOf(s)] + g[s \ {AnyOf(s)}]
IsPartialSums(F, S, g) == g = [s \in SUBSET S |-> SumOne(F, g, s)]
PartialSums(F, S) == CHOOSE g : IsPartialSums(F, S, g)

\* SumFunctionOnSet is that function at S.
LEMMA SumUnfold == \A F, S : SumFunctionOnSet(F, S) = PartialSums(F, S)[S]
BY DEF SumFunctionOnSet, FoldFunctionOnSet, MapThenFoldSet, PartialSums, IsPartialSums, SumOne,
       AnyOf

\* Removing the picked element of a non-empty finite set makes it smaller by one.
LEMMA AnyOfSmaller ==
  ASSUME NEW S, IsFiniteSet(S), S # {}
  PROVE  /\ AnyOf(S) \in S
         /\ IsFiniteSet(S \ {AnyOf(S)})
         /\ Cardinality(S) \in Nat \ {0}
         /\ Cardinality(S \ {AnyOf(S)}) = Cardinality(S) - 1
<1>1. AnyOf(S) \in S
  BY DEF AnyOf
<1> QED
  BY <1>1, FS_RemoveElement, FS_CardinalityType, FS_EmptySet

\* A non-empty set of finite sets has one that is minimal: induction over
\* finite sets, as the search for the smallest counterexample.
LEMMA MinimalSet ==
  ASSUME NEW W, W # {}, \A s \in W : IsFiniteSet(s)
  PROVE  \E s \in W : \A x \in s : s \ {x} \notin W
<1> DEFINE Sizes == {Cardinality(s) : s \in W}
<1>1. Sizes \subseteq Nat /\ Sizes # {}
  BY FS_CardinalityType
<1>2. Min(Sizes) \in Sizes /\ \A y \in Sizes : Min(Sizes) <= y
  BY <1>1, MinNat
<1>3. PICK s \in W : Cardinality(s) = Min(Sizes)
  BY <1>2
<1>4. ASSUME NEW x \in s, s \ {x} \in W PROVE FALSE
  <2>1. Cardinality(s \ {x}) = Cardinality(s) - 1 /\ Cardinality(s) \in Nat
    BY FS_RemoveElement, FS_CardinalityType
  <2>2. Cardinality(s) <= Cardinality(s \ {x})
    BY <1>2, <1>3, <1>4
  <2> QED
    BY <2>1, <2>2
<1> QED
  BY <1>4

\* A recursion over the subsets of a finite set defines a function.
LEMMA PartialSumsExist ==
  ASSUME NEW F, NEW S, IsFiniteSet(S)
  PROVE  IsPartialSums(F, S, PartialSums(F, S))
<1> DEFINE Good(n, g) ==
      /\ g = [s \in SUBSET S |-> g[s]]
      /\ \A s \in SUBSET S : Cardinality(s) <= n => g[s] = SumOne(F, g, s)
    Bad == {n \in Nat : ~ \E g : Good(n, g)}
<1>1. \A s \in SUBSET S : /\ IsFiniteSet(s) /\ Cardinality(s) \in Nat
                           /\ Cardinality(s) <= Cardinality(S)
  BY FS_Subset, FS_CardinalityType
<1>2. Good(0, [s \in SUBSET S |-> 0])
  BY <1>1, FS_EmptySet DEF SumOne
<1>3. ASSUME NEW n \in Nat, NEW g, Good(n, g)
      PROVE  \E h : Good(n + 1, h)
  <2> DEFINE h == [s \in SUBSET S |-> SumOne(F, g, s)]
  <2>1. ASSUME NEW s \in SUBSET S, Cardinality(s) <= n PROVE h[s] = g[s]
    BY <1>3, <2>1
  <2>2. ASSUME NEW s \in SUBSET S, Cardinality(s) <= n + 1 PROVE h[s] = SumOne(F, h, s)
    <3>1. CASE s = {}
      BY <3>1 DEF SumOne
    <3>2. CASE s # {}
      <4>1. s \ {AnyOf(s)} \in SUBSET S /\ Cardinality(s \ {AnyOf(s)}) <= n
        BY <1>1, <2>2, <3>2, AnyOfSmaller
      <4>2. h[s \ {AnyOf(s)}] = g[s \ {AnyOf(s)}]
        BY <2>1, <4>1
      <4> QED
        BY <4>2 DEF SumOne
    <3> QED
      BY <3>1, <3>2
  <2>3. h = [s \in SUBSET S |-> h[s]]
    OBVIOUS
  <2>4. Good(n + 1, h)
    <3> HIDE DEF h
    <3> QED
      BY <2>2, <2>3
  <2> QED
    BY <2>4
<1>4. Bad = {}
  <2> SUFFICES ASSUME Bad # {} PROVE FALSE
    OBVIOUS
  <2> DEFINE m == Min(Bad)
  <2>1. m \in Bad /\ \A y \in Bad : m <= y
    BY MinNat
  <2> HIDE DEF m, Good
  <2>2. m # 0
    BY <1>2, <2>1
  <2>3. m - 1 \in Nat /\ m - 1 \notin Bad
    BY <2>1, <2>2
  <2>4. PICK g : Good(m - 1, g)
    BY <2>3
  <2>5. \E h : Good(m, h)
    <3>1. (m - 1) + 1 = m
      BY <2>1
    <3> QED
      BY <1>3, <2>3, <2>4, <3>1
  <2> QED
    BY <2>1, <2>5
<1>5. PICK g : Good(Cardinality(S), g)
  BY <1>4, FS_CardinalityType
<1>6. IsPartialSums(F, S, g)
  <2>1. \A s \in SUBSET S : g[s] = SumOne(F, g, s)
    BY <1>1, <1>5
  <2> QED
    BY <1>5, <2>1 DEF IsPartialSums
<1> QED
  BY <1>6 DEF PartialSums

\* The function of the sums satisfies its recursion.
LEMMA PartialSumsStep ==
  ASSUME NEW F, NEW S, IsFiniteSet(S), NEW s \in SUBSET S
  PROVE  PartialSums(F, S)[s] = SumOne(F, PartialSums(F, S), s)
<1> DEFINE g == PartialSums(F, S)
<1>1. IsPartialSums(F, S, g)
  BY PartialSumsExist
<1> HIDE DEF g
<1>2. g[s] = SumOne(F, g, s)
  BY <1>1 DEF IsPartialSums
<1> QED
  BY <1>2 DEF g

\* The recursions over two sets agree on what is a subset of both.
LEMMA PartialSumsAgree ==
  ASSUME NEW F, NEW G, NEW S, NEW T, IsFiniteSet(S), IsFiniteSet(T), T \subseteq S,
         \A x \in T : F[x] = G[x]
  PROVE  \A s \in SUBSET T : PartialSums(F, S)[s] = PartialSums(G, T)[s]
<1> DEFINE g == PartialSums(F, S)
           h == PartialSums(G, T)
<1>1. /\ \A s \in SUBSET S : g[s] = SumOne(F, g, s)
      /\ \A s \in SUBSET T : h[s] = SumOne(G, h, s)
  BY PartialSumsStep
<1> HIDE DEF g, h
<1> DEFINE Differ == {s \in SUBSET T : g[s] # h[s]}
<1>2. \A s \in SUBSET T : IsFiniteSet(s)
  BY FS_Subset
<1>3. Differ = {}
  <2> SUFFICES ASSUME Differ # {} PROVE FALSE
    OBVIOUS
  <2>1. PICK s \in Differ : \A x \in s : s \ {x} \notin Differ
    BY <1>2, MinimalSet
  <2>2. s \in SUBSET T /\ g[s] # h[s]
    OBVIOUS
  <2>3. s # {}
    BY <1>1, <2>2 DEF SumOne
  <2>4. AnyOf(s) \in s
    BY <2>3 DEF AnyOf
  <2>5. g[s \ {AnyOf(s)}] = h[s \ {AnyOf(s)}]
    BY <2>1, <2>2, <2>4
  <2>6. g[s] = SumOne(F, g, s) /\ h[s] = SumOne(G, h, s)
    BY <1>1, <2>2
  <2> QED
    BY <2>2, <2>3, <2>4, <2>5, <2>6 DEF SumOne
<1> QED
  BY <1>3 DEF g, h

\* A sum depends only on the values summed.
LEMMA SumEq ==
  ASSUME NEW F, NEW G, NEW S, IsFiniteSet(S), \A x \in S : F[x] = G[x]
  PROVE  SumFunctionOnSet(F, S) = SumFunctionOnSet(G, S)
BY SumUnfold, PartialSumsAgree

\* Nothing adds up to zero.
LEMMA SumEmpty ==
  ASSUME NEW F PROVE SumFunctionOnSet(F, {}) = 0
<1>1. PartialSums(F, {})[{}] = 0
  BY PartialSumsStep, FS_EmptySet DEF SumOne
<1> QED
  BY <1>1, SumUnfold

\* A sum is its first summand and the sum of the others.
LEMMA SumFirst ==
  ASSUME NEW F, NEW S, IsFiniteSet(S), S # {}
  PROVE  SumFunctionOnSet(F, S) = F[AnyOf(S)] + SumFunctionOnSet(F, S \ {AnyOf(S)})
<1> DEFINE T == S \ {AnyOf(S)}
<1>1. PartialSums(F, S)[T] = PartialSums(F, T)[T]
  BY PartialSumsAgree, FS_Subset
<1>2. PartialSums(F, S)[S] = F[AnyOf(S)] + PartialSums(F, S)[T]
  BY PartialSumsStep DEF SumOne
<1> QED
  BY <1>1, <1>2, SumUnfold

\* A sum of naturals is a natural.
LEMMA SumNat ==
  ASSUME NEW F, NEW S, IsFiniteSet(S), \A x \in S : F[x] \in Nat
  PROVE  SumFunctionOnSet(F, S) \in Nat
<1> DEFINE Wrong == {s \in SUBSET S : SumFunctionOnSet(F, s) \notin Nat}
<1>1. Wrong = {}
  <2> SUFFICES ASSUME Wrong # {} PROVE FALSE
    OBVIOUS
  <2>1. PICK s \in Wrong : \A x \in s : s \ {x} \notin Wrong
    BY FS_Subset, MinimalSet
  <2>2. s # {}
    BY SumEmpty
  <2>3. AnyOf(s) \in s
    BY <2>2 DEF AnyOf
  <2>4. SumFunctionOnSet(F, s \ {AnyOf(s)}) \in Nat /\ F[AnyOf(s)] \in Nat
    BY <2>1, <2>3
  <2>5. SumFunctionOnSet(F, s) = F[AnyOf(s)] + SumFunctionOnSet(F, s \ {AnyOf(s)})
    BY <2>2, FS_Subset, SumFirst
  <2> QED
    BY <2>4, <2>5
<1> QED
  BY <1>1

\* Any element may be taken out of a sum first.
LEMMA SumRemove ==
  ASSUME NEW F, NEW S, IsFiniteSet(S), \A x \in S : F[x] \in Nat, NEW y \in S
  PROVE  SumFunctionOnSet(F, S) = F[y] + SumFunctionOnSet(F, S \ {y})
<1> DEFINE Total(s) == SumFunctionOnSet(F, s)
           Wrong == {s \in SUBSET S : \E x \in s : Total(s) # F[x] + Total(s \ {x})}
<1>1. \A s \in SUBSET S : IsFiniteSet(s) /\ Total(s) \in Nat
  BY FS_Subset, SumNat
<1>2. Wrong = {}
  <2> SUFFICES ASSUME Wrong # {} PROVE FALSE
    OBVIOUS
  <2>1. PICK s \in Wrong : \A x \in s : s \ {x} \notin Wrong
    BY <1>1, MinimalSet
  <2>2. PICK x \in s : Total(s) # F[x] + Total(s \ {x})
    OBVIOUS
  <2> DEFINE p == AnyOf(s)
  <2>3. p \in s
    BY <2>2 DEF AnyOf
  <2>4. Total(s) = F[p] + Total(s \ {p})
    BY <1>1, <2>2, SumFirst
  <2> HIDE DEF p, Total
  <2>5. p # x
    BY <2>2, <2>4
  <2> DEFINE r == Total(s \ {p, x})
  <2>6. Total(s \ {p}) = F[x] + r
    <3>1. (s \ {p}) \ {x} = s \ {p, x}
      OBVIOUS
    <3> QED
      BY <2>1, <2>3, <2>5, <3>1
  <2>7. Total(s \ {x}) = F[p] + r
    <3>1. (s \ {x}) \ {p} = s \ {p, x} /\ p \in s \ {x} /\ s \ {x} \in SUBSET S
      BY <2>3, <2>5
    <3>2. Total(s \ {x}) = F[p] + Total((s \ {x}) \ {p})
      BY <2>1, <3>1
    <3> QED
      BY <3>1, <3>2
  <2>8. F[x] \in Nat /\ F[p] \in Nat /\ r \in Nat
    BY <1>1, <2>3
  <2> HIDE DEF r, Wrong
  <2> QED
    BY <2>2, <2>4, <2>6, <2>7, <2>8
<1> QED
  BY <1>2

\* The sum over a part and the sum over the rest.
LEMMA SumSplit ==
  ASSUME NEW F, NEW S, IsFiniteSet(S), \A x \in S : F[x] \in Nat, NEW T \in SUBSET S
  PROVE  SumFunctionOnSet(F, S) = SumFunctionOnSet(F, T) + SumFunctionOnSet(F, S \ T)
<1> DEFINE Total(s) == SumFunctionOnSet(F, s)
           Wrong == {s \in SUBSET S : Total(S) # Total(s) + Total(S \ s)}
<1>1. \A s \in SUBSET S : IsFiniteSet(s) /\ Total(s) \in Nat
  BY FS_Subset, SumNat
<1>2. Wrong = {}
  <2> SUFFICES ASSUME Wrong # {} PROVE FALSE
    OBVIOUS
  <2>1. PICK s \in Wrong : \A x \in s : s \ {x} \notin Wrong
    BY <1>1, MinimalSet
  <2>2. s # {}
    <3>1. Total({}) = 0 /\ S \ {} = S
      BY SumEmpty
    <3> QED
      BY <1>1, <3>1
  <2>3. PICK x \in s : TRUE
    BY <2>2
  <2>4. Total(s) = F[x] + Total(s \ {x})
    BY <1>1, SumRemove
  <2>5. Total(S \ (s \ {x})) = F[x] + Total(S \ s)
    <3>1. x \in S \ (s \ {x}) /\ (S \ (s \ {x})) \ {x} = S \ s
      OBVIOUS
    <3>2. IsFiniteSet(S \ (s \ {x})) /\ \A y \in S \ (s \ {x}) : F[y] \in Nat
      BY <1>1
    <3> QED
      BY <3>1, <3>2, SumRemove
  <2>6. Total(S) = Total(s \ {x}) + Total(S \ (s \ {x}))
    BY <2>1
  <2>7. F[x] \in Nat /\ Total(s \ {x}) \in Nat /\ Total(S \ s) \in Nat
    BY <1>1
  <2>8. Total(S) # Total(s) + Total(S \ s)
    OBVIOUS
  <2> HIDE DEF Total
  <2> QED
    BY <2>4, <2>5, <2>6, <2>7, <2>8
<1> QED
  BY <1>2

\* Terms may be renumbered: what Tail does to the indices of a sequence.
LEMMA SumShift ==
  ASSUME NEW F, NEW G, NEW n \in Nat,
         \A i \in 1..n : G[i] = F[i + 1] /\ G[i] \in Nat
  PROVE  SumFunctionOnSet(G, 1..n) = SumFunctionOnSet(F, 2..n + 1)
<1> DEFINE Wrong == {j \in 0..n : SumFunctionOnSet(G, 1..j) # SumFunctionOnSet(F, 2..j + 1)}
<1>1. Wrong = {}
  <2> SUFFICES ASSUME Wrong # {} PROVE FALSE
    OBVIOUS
  <2>1. Wrong \subseteq Nat
    OBVIOUS
  <2>2. PICK k \in Wrong : \A j \in Wrong : k <= j
    <3> HIDE DEF Wrong
    <3> QED
      BY <2>1, MinNat
  <2>3. k \in 0..n /\ SumFunctionOnSet(G, 1..k) # SumFunctionOnSet(F, 2..k + 1)
    OBVIOUS
  <2>4. k # 0
    <3>1. SUFFICES ASSUME k = 0 PROVE FALSE
      OBVIOUS
    <3>2. 1..k = {} /\ 2..k + 1 = {}
      BY <3>1
    <3> QED
      BY <2>3, <3>2, SumEmpty
  <2>5. k - 1 \in 0..n /\ k - 1 \notin Wrong
    <3> HIDE DEF Wrong
    <3> QED
      BY <2>2, <2>3, <2>4
  <2>6. SumFunctionOnSet(G, 1..k - 1) = SumFunctionOnSet(F, 2..(k - 1) + 1)
    BY <2>5
  <2> HIDE DEF Wrong
  <2>7. SumFunctionOnSet(G, 1..k) = G[k] + SumFunctionOnSet(G, 1..k - 1)
    <3>1. (1..k) \ {k} = 1..k - 1 /\ k \in 1..k
      BY <2>3, <2>4
    <3>2. IsFiniteSet(1..k)
      BY <2>3, FS_Interval
    <3>3. \A i \in 1..k : G[i] \in Nat
      BY <2>3
    <3>4. SumFunctionOnSet(G, 1..k) = G[k] + SumFunctionOnSet(G, (1..k) \ {k})
      BY <3>1, <3>2, <3>3, SumRemove
    <3> QED
      BY <3>1, <3>4
  <2>8. SumFunctionOnSet(F, 2..k + 1) = F[k + 1] + SumFunctionOnSet(F, 2..(k - 1) + 1)
    <3>1. (2..k + 1) \ {k + 1} = 2..(k - 1) + 1 /\ k + 1 \in 2..k + 1
      BY <2>3, <2>4
    <3>2. ASSUME NEW i \in 2..k + 1 PROVE F[i] \in Nat
      <4>1. i - 1 \in 1..n /\ (i - 1) + 1 = i
        BY <2>3
      <4> QED
        BY <4>1
    <3>3. IsFiniteSet(2..k + 1)
      BY <2>3, FS_Interval
    <3>4. SumFunctionOnSet(F, 2..k + 1) = F[k + 1] + SumFunctionOnSet(F, (2..k + 1) \ {k + 1})
      BY <3>1, <3>2, <3>3, SumRemove
    <3> QED
      BY <3>1, <3>4
  <2>9. G[k] = F[k + 1]
    BY <2>3, <2>4
  <2> QED
    BY <2>3, <2>6, <2>7, <2>8, <2>9
<1>2. n \notin Wrong
  <2> HIDE DEF Wrong
  <2> QED
    BY <1>1
<1> QED
  BY <1>2
=============================================================================
