--------------------------- MODULE CountingProofs ---------------------------
(***************************************************************************)
(* Facts about counting that the proofs of the components need: induction  *)
(* with a set in the place of a predicate, and what the library's          *)
(* SumFunctionOnSet computes, whatever the order in which it picks the     *)
(* elements.                                                               *)
(***************************************************************************)
EXTENDS Integers, FiniteSetsExt, FiniteSetTheorems, WellFoundedInduction, TLAPS

\* The time the provers get for a step, in seconds.
USE SMTT(30), ZenonT(30)

\* The element a fold takes next, and one step of a sum.
Pick(s) == CHOOSE x \in s : TRUE
SumStep(f, g, s) == IF s = {} THEN 0 ELSE f[Pick(s)] + g[s \ {Pick(s)}]

\* g solves the recursion that defines the sums of f over the subsets of S.
SolvesSum(f, S, g) == g = [s \in SUBSET S |-> SumStep(f, g, s)]

-----------------------------------------------------------------------------
(* Numbers *)

\* The minimum of a non-empty set of natural numbers is in it and bounds it.
LEMMA MinIsLeast ==
    ASSUME NEW S \in SUBSET Nat, S # {}
    PROVE  Min(S) \in S /\ \A y \in S : Min(S) <= y
<1> DEFINE R == {ss \in Nat \X Nat : ss[1] < ss[2]}
<1>1. IsWellFoundedOn(R, Nat)
    BY NatLessThanWellFounded, Zenon DEF OpToRel
<1> HIDE DEF R
<1>2. PICK x \in S : \A y \in S : ~(<<y, x>> \in R)
    BY <1>1, WFMin, Zenon
<1>3. ASSUME NEW y \in S PROVE x <= y
    <2>1. x \in Nat /\ y \in Nat
        OBVIOUS
    <2>2. ~(y < x)
        BY <2>1, <1>2, Zenon DEF R
    <2> QED
        BY <2>1, <2>2
<1> QED
    BY <1>3, Zenon DEF Min

\* Induction: a set with 0 that is closed under successor has every number.
LEMMA NatInduct ==
    ASSUME NEW P, 0 \in P, \A n \in Nat : n \in P => n + 1 \in P
    PROVE  \A n \in Nat : n \in P
<1> DEFINE Q == Nat \ P
<1> SUFFICES ASSUME Q # {} PROVE FALSE
    OBVIOUS
<1>1. Min(Q) \in Q /\ \A y \in Q : Min(Q) <= y
    BY MinIsLeast
<1>2. PICK m \in Q : \A y \in Q : m <= y
    BY <1>1
<1>3. m \in Nat /\ m # 0 /\ m - 1 \in Nat /\ m - 1 < m
    BY <1>2
<1>4. m - 1 \in P
    BY <1>2, <1>3
<1>5. (m - 1) + 1 \in P
    BY <1>3, <1>4
<1> QED
    BY <1>2, <1>3, <1>5

\* Taking the next element away leaves a smaller finite set.
LEMMA PickStep ==
    ASSUME NEW s, IsFiniteSet(s), s # {}
    PROVE  /\ Pick(s) \in s
           /\ IsFiniteSet(s \ {Pick(s)})
           /\ Cardinality(s) \in Nat \ {0}
           /\ Cardinality(s \ {Pick(s)}) = Cardinality(s) - 1
<1>1. Pick(s) \in s
    BY DEF Pick
<1>2. Cardinality(s) \in Nat /\ Cardinality(s) # 0
    BY FS_CardinalityType, FS_EmptySet
<1> QED
    BY <1>1, <1>2, FS_RemoveElement

\* Induction on finite sets: a set that has every subset of S it has all the
\* next smaller ones of has every subset of S.
LEMMA SetInduct ==
    ASSUME NEW S, IsFiniteSet(S), NEW P,
           \A s \in SUBSET S : (\A x \in s : s \ {x} \in P) => s \in P
    PROVE  \A s \in SUBSET S : s \in P
<1> DEFINE Q == {k \in Nat : \A s \in SUBSET S : Cardinality(s) = k => s \in P}
<1>0. ASSUME NEW s \in SUBSET S
      PROVE  /\ IsFiniteSet(s) /\ Cardinality(s) \in Nat
             /\ Cardinality(s) = 0 <=> s = {}
             /\ \A x \in s : s \ {x} \in SUBSET S /\ Cardinality(s \ {x}) = Cardinality(s) - 1
    BY FS_Subset, FS_CardinalityType, FS_EmptySet, FS_RemoveElement
<1>1. 0 \in Q
    BY <1>0
<1>2. ASSUME NEW k \in Nat, k \in Q PROVE k + 1 \in Q
    <2>1. ASSUME NEW s \in SUBSET S, Cardinality(s) = k + 1 PROVE s \in P
        <3>1. ASSUME NEW x \in s PROVE s \ {x} \in P
            <4>1. s \ {x} \in SUBSET S /\ Cardinality(s \ {x}) = k
                BY <1>0, <2>1
            <4> QED
                BY <1>2, <4>1
        <3> QED
            BY <3>1
    <2> QED
        BY <2>1
<1> HIDE DEF Q
<1>3. \A k \in Nat : k \in Q
    BY <1>1, <1>2, NatInduct
<1> QED
    BY <1>0, <1>3 DEF Q

-----------------------------------------------------------------------------
(* Sums *)

\* The recursion by which a fold is defined has a solution.
LEMMA SumExists ==
    ASSUME NEW f, NEW S, IsFiniteSet(S)
    PROVE  \E g : SolvesSum(f, S, g)
<1> DEFINE Solves(g, k) ==
               g = [s \in SUBSET S |-> IF Cardinality(s) <= k THEN SumStep(f, g, s) ELSE 0]
           P == {k \in Nat : \E g : Solves(g, k)}
<1>0. ASSUME NEW s \in SUBSET S
      PROVE  /\ IsFiniteSet(s) /\ Cardinality(s) \in Nat /\ Cardinality(s) <= Cardinality(S)
             /\ Cardinality(s) = 0 <=> s = {}
             /\ Cardinality(S) \in Nat
    BY FS_Subset, FS_CardinalityType, FS_EmptySet
<1>1. 0 \in P
    <2> DEFINE g == [s \in SUBSET S |-> 0]
    <2>1. \A s \in SUBSET S : Cardinality(s) <= 0 => SumStep(f, g, s) = 0
        BY <1>0 DEF SumStep
    <2>2. Solves(g, 0)
        BY <2>1
    <2> QED
        BY <2>2
<1>2. ASSUME NEW k \in Nat, k \in P PROVE k + 1 \in P
    <2>1. PICK g : Solves(g, k)
        BY Zenon, <1>2
    <2> DEFINE h == [s \in SUBSET S |->
                        IF Cardinality(s) <= k + 1 THEN SumStep(f, g, s) ELSE 0]
    <2>2. ASSUME NEW s \in SUBSET S, Cardinality(s) <= k + 1
          PROVE  SumStep(f, g, s) = SumStep(f, h, s)
        <3>1. CASE s = {}
            BY <3>1 DEF SumStep
        <3>2. CASE s # {}
            <4> DEFINE t == s \ {Pick(s)}
            <4>1. t \in SUBSET S /\ Cardinality(t) <= k /\ Cardinality(t) <= k + 1
                BY <1>0, <2>2, <3>2, PickStep
            <4>2. g[t] = SumStep(f, g, t) /\ h[t] = SumStep(f, g, t)
                BY <2>1, <4>1
            <4> QED
                BY <3>2, <4>2 DEF SumStep
        <3> QED
            BY <3>1, <3>2
    <2>3. Solves(h, k + 1)
        BY Zenon, <2>2
    <2> HIDE DEF h, Solves
    <2> QED
        BY <2>3
<1> HIDE DEF P
<1>3. \A k \in Nat : k \in P
    BY <1>1, <1>2, NatInduct
<1>4. Cardinality(S) \in P
    BY <1>0, <1>3
<1>5. PICK g : Solves(g, Cardinality(S))
    BY <1>4, Zenon DEF P
<1>6. SolvesSum(f, S, g)
    BY <1>0, <1>5 DEF SolvesSum
<1> QED
    BY <1>6

\* Solutions of that recursion agree where both are defined.
LEMMA SumUnique ==
    ASSUME NEW f, NEW S, IsFiniteSet(S), NEW T \in SUBSET S,
           NEW g, SolvesSum(f, S, g),
           NEW h, SolvesSum(f, T, h)
    PROVE  \A s \in SUBSET T : g[s] = h[s]
<1> DEFINE P == {s \in SUBSET T : g[s] = h[s]}
<1>0. IsFiniteSet(T)
    BY FS_Subset
<1>1. ASSUME NEW s \in SUBSET T, \A x \in s : s \ {x} \in P PROVE s \in P
    <2>1. s \in SUBSET S
        OBVIOUS
    <2>2. g[s] = SumStep(f, g, s) /\ h[s] = SumStep(f, h, s)
        BY <2>1 DEF SolvesSum
    <2>3. s # {} => g[s \ {Pick(s)}] = h[s \ {Pick(s)}]
        BY <1>1, Zenon DEF Pick
    <2> QED
        BY <2>2, <2>3 DEF SumStep
<1> HIDE DEF P
<1>2. \A s \in SUBSET T : s \in P
    BY Zenon, <1>0, <1>1, SetInduct
<1> QED
    BY <1>2 DEF P

\* A sum is what its recursion computes.
LEMMA SumSolution ==
    ASSUME NEW f, NEW S, IsFiniteSet(S)
    PROVE  \E g : SolvesSum(f, S, g) /\ SumFunctionOnSet(f, S) = g[S]
<1> DEFINE G == CHOOSE g : SolvesSum(f, S, g)
<1>1. SolvesSum(f, S, G)
    BY SumExists
<1>2. SumFunctionOnSet(f, S) = G[S]
    BY DEF SumFunctionOnSet, FoldFunctionOnSet, MapThenFoldSet, SolvesSum, SumStep, Pick
<1> QED
    BY Zenon, <1>1, <1>2

\* The sum over no index is zero; any other takes one index at a time.
LEMMA SumEmpty ==
    ASSUME NEW f
    PROVE  SumFunctionOnSet(f, {}) = 0
<1>1. PICK g : SolvesSum(f, {}, g) /\ SumFunctionOnSet(f, {}) = g[{}]
    BY SumSolution, FS_EmptySet
<1> QED
    BY <1>1 DEF SolvesSum, SumStep

LEMMA SumPick ==
    ASSUME NEW f, NEW S, IsFiniteSet(S), S # {}
    PROVE  /\ SumFunctionOnSet(f, S) = f[Pick(S)] + SumFunctionOnSet(f, S \ {Pick(S)})
           /\ Pick(S) \in S
<1> DEFINE T == S \ {Pick(S)}
<1>1. IsFiniteSet(T) /\ T \in SUBSET S /\ Pick(S) \in S
    BY PickStep
<1> HIDE DEF T
<1>2. PICK g : SolvesSum(f, S, g) /\ SumFunctionOnSet(f, S) = g[S]
    BY SumSolution
<1>3. PICK h : SolvesSum(f, T, h) /\ SumFunctionOnSet(f, T) = h[T]
    BY <1>1, SumSolution
<1>4. \A s \in SUBSET T : g[s] = h[s]
    BY <1>1, <1>2, <1>3, SumUnique
<1>5. g[S] = f[Pick(S)] + g[T]
    BY <1>2, Zenon DEF SolvesSum, SumStep, T
<1> QED
    BY <1>1, <1>2, <1>3, <1>4, <1>5 DEF T

\* A sum of integers is an integer, and one of natural numbers a natural number.
LEMMA SumInt ==
    ASSUME NEW S, IsFiniteSet(S), NEW f, \A x \in S : f[x] \in Int
    PROVE  SumFunctionOnSet(f, S) \in Int
<1> DEFINE P == {s \in SUBSET S : SumFunctionOnSet(f, s) \in Int}
<1>1. ASSUME NEW s \in SUBSET S, \A x \in s : s \ {x} \in P PROVE s \in P
    <2>1. IsFiniteSet(s)
        BY FS_Subset
    <2>2. CASE s = {}
        BY <2>2, SumEmpty
    <2>3. CASE s # {}
        <3>1. /\ Pick(s) \in s
              /\ SumFunctionOnSet(f, s) = f[Pick(s)] + SumFunctionOnSet(f, s \ {Pick(s)})
            BY <2>1, <2>3, SumPick
        <3> QED
            BY <1>1, <3>1
    <2> QED
        BY <2>2, <2>3
<1> HIDE DEF P
<1>2. \A s \in SUBSET S : s \in P
    BY Zenon, <1>1, SetInduct
<1> QED
    BY <1>2 DEF P

LEMMA SumNat ==
    ASSUME NEW S, IsFiniteSet(S), NEW f, \A x \in S : f[x] \in Nat
    PROVE  SumFunctionOnSet(f, S) \in Nat
<1> DEFINE P == {s \in SUBSET S : SumFunctionOnSet(f, s) \in Nat}
<1>1. ASSUME NEW s \in SUBSET S, \A x \in s : s \ {x} \in P PROVE s \in P
    <2>1. IsFiniteSet(s)
        BY FS_Subset
    <2>2. CASE s = {}
        BY <2>2, SumEmpty
    <2>3. CASE s # {}
        <3>1. /\ Pick(s) \in s
              /\ SumFunctionOnSet(f, s) = f[Pick(s)] + SumFunctionOnSet(f, s \ {Pick(s)})
            BY <2>1, <2>3, SumPick
        <3> QED
            BY <1>1, <3>1
    <2> QED
        BY <2>2, <2>3
<1> HIDE DEF P
<1>2. \A s \in SUBSET S : s \in P
    BY Zenon, <1>1, SetInduct
<1> QED
    BY <1>2 DEF P

\* The order does not matter: any index may be taken first.
LEMMA SumRemove ==
    ASSUME NEW S, IsFiniteSet(S), NEW f, \A x \in S : f[x] \in Int, NEW y \in S
    PROVE  SumFunctionOnSet(f, S) = f[y] + SumFunctionOnSet(f, S \ {y})
<1> DEFINE P == {s \in SUBSET S : \A x \in s :
                    SumFunctionOnSet(f, s) = f[x] + SumFunctionOnSet(f, s \ {x})}
<1>1. ASSUME NEW s \in SUBSET S, \A x \in s : s \ {x} \in P PROVE s \in P
    <2> SUFFICES ASSUME NEW x \in s
                 PROVE  SumFunctionOnSet(f, s) = f[x] + SumFunctionOnSet(f, s \ {x})
        OBVIOUS
    <2>1. IsFiniteSet(s)
        BY FS_Subset
    <2>2. PICK p \in s : SumFunctionOnSet(f, s) = f[p] + SumFunctionOnSet(f, s \ {p})
        BY Zenon, <2>1, SumPick
    <2>3. CASE x = p
        BY Zenon, <2>2, <2>3
    <2>4. CASE x # p
        <3> DEFINE r == s \ {x, p}
        <3>1. /\ s \ {p} \in P /\ x \in s \ {p} /\ (s \ {p}) \ {x} = r
              /\ s \ {x} \in P /\ p \in s \ {x} /\ (s \ {x}) \ {p} = r
            BY <1>1, <2>4
        <3>2. /\ SumFunctionOnSet(f, s \ {p}) = f[x] + SumFunctionOnSet(f, r)
              /\ SumFunctionOnSet(f, s \ {x}) = f[p] + SumFunctionOnSet(f, r)
            BY Zenon, <3>1
        <3>3. IsFiniteSet(r) /\ \A z \in r : f[z] \in Int
            BY FS_Subset
        <3>4. SumFunctionOnSet(f, r) \in Int /\ f[x] \in Int /\ f[p] \in Int
            BY <3>3, SumInt
        <3> QED
            BY <2>2, <3>2, <3>4
    <2> QED
        BY <2>3, <2>4
<1> HIDE DEF P
<1>2. \A s \in SUBSET S : s \in P
    BY Zenon, <1>1, SetInduct
<1> QED
    BY <1>2 DEF P

\* One more index adds its value.
LEMMA SumAdd ==
    ASSUME NEW S, IsFiniteSet(S), NEW y, y \notin S,
           NEW f, \A x \in S \cup {y} : f[x] \in Int
    PROVE  SumFunctionOnSet(f, S \cup {y}) = f[y] + SumFunctionOnSet(f, S)
<1>1. IsFiniteSet(S \cup {y}) /\ (S \cup {y}) \ {y} = S
    BY FS_AddElement
<1> QED
    BY <1>1, SumRemove

\* Only the values on the indices matter.
LEMMA SumAgree ==
    ASSUME NEW S, IsFiniteSet(S), NEW f, NEW g, \A x \in S : f[x] = g[x]
    PROVE  SumFunctionOnSet(f, S) = SumFunctionOnSet(g, S)
<1> DEFINE P == {s \in SUBSET S : SumFunctionOnSet(f, s) = SumFunctionOnSet(g, s)}
<1>1. ASSUME NEW s \in SUBSET S, \A x \in s : s \ {x} \in P PROVE s \in P
    <2>1. IsFiniteSet(s)
        BY FS_Subset
    <2>2. CASE s = {}
        BY <2>2, SumEmpty
    <2>3. CASE s # {}
        <3>1. /\ Pick(s) \in s
              /\ SumFunctionOnSet(f, s) = f[Pick(s)] + SumFunctionOnSet(f, s \ {Pick(s)})
              /\ SumFunctionOnSet(g, s) = g[Pick(s)] + SumFunctionOnSet(g, s \ {Pick(s)})
            BY <2>1, <2>3, SumPick
        <3> QED
            BY <1>1, <3>1
    <2> QED
        BY <2>2, <2>3
<1> HIDE DEF P
<1>2. \A s \in SUBSET S : s \in P
    BY Zenon, <1>1, SetInduct
<1> QED
    BY <1>2 DEF P

\* A change at one index changes the sum by as much.
LEMMA SumChange ==
    ASSUME NEW S, IsFiniteSet(S), NEW y \in S, NEW f, NEW g,
           \A x \in S : f[x] \in Int /\ g[x] \in Int,
           \A x \in S : x # y => g[x] = f[x]
    PROVE  SumFunctionOnSet(g, S) = SumFunctionOnSet(f, S) + (g[y] - f[y])
<1> DEFINE T == S \ {y}
<1>1. IsFiniteSet(T)
    BY FS_RemoveElement
<1>2. SumFunctionOnSet(g, T) = SumFunctionOnSet(f, T) /\ SumFunctionOnSet(f, T) \in Int
    BY <1>1, SumAgree, SumInt
<1>3. /\ SumFunctionOnSet(f, S) = f[y] + SumFunctionOnSet(f, T)
      /\ SumFunctionOnSet(g, S) = g[y] + SumFunctionOnSet(g, T)
    BY SumRemove
<1> QED
    BY <1>2, <1>3

\* A sum of zeros is zero.
LEMMA SumZero ==
    ASSUME NEW S, IsFiniteSet(S), NEW f, \A x \in S : f[x] = 0
    PROVE  SumFunctionOnSet(f, S) = 0
<1> DEFINE P == {s \in SUBSET S : SumFunctionOnSet(f, s) = 0}
<1>1. ASSUME NEW s \in SUBSET S, \A x \in s : s \ {x} \in P PROVE s \in P
    <2>1. IsFiniteSet(s)
        BY FS_Subset
    <2>2. CASE s = {}
        BY <2>2, SumEmpty
    <2>3. CASE s # {}
        <3>1. /\ Pick(s) \in s
              /\ SumFunctionOnSet(f, s) = f[Pick(s)] + SumFunctionOnSet(f, s \ {Pick(s)})
            BY <2>1, <2>3, SumPick
        <3> QED
            BY <1>1, <3>1
    <2> QED
        BY <2>2, <2>3
<1> HIDE DEF P
<1>2. \A s \in SUBSET S : s \in P
    BY Zenon, <1>1, SetInduct
<1> QED
    BY <1>2 DEF P

\* A sum splits over a subset of its indices and the rest.
LEMMA SumSplit ==
    ASSUME NEW S, IsFiniteSet(S), NEW T \in SUBSET S, NEW f, \A x \in S : f[x] \in Int
    PROVE  SumFunctionOnSet(f, S) = SumFunctionOnSet(f, T) + SumFunctionOnSet(f, S \ T)
<1> DEFINE P == {s \in SUBSET T :
                   SumFunctionOnSet(f, S) = SumFunctionOnSet(f, s) + SumFunctionOnSet(f, S \ s)}
<1>0. IsFiniteSet(T)
    BY FS_Subset
<1>1. ASSUME NEW s \in SUBSET T, \A x \in s : s \ {x} \in P PROVE s \in P
    <2>1. CASE s = {}
        <3>1. S \ s = S /\ SumFunctionOnSet(f, S) \in Int
            BY <2>1, SumInt
        <3> QED
            BY <2>1, <3>1, SumEmpty
    <2>2. CASE s # {}
        <3>1. PICK x \in s : TRUE
            BY <2>2
        <3> DEFINE u == S \ s
        <3>2. /\ IsFiniteSet(s) /\ \A y \in s : f[y] \in Int
              /\ IsFiniteSet(s \ {x}) /\ \A y \in s \ {x} : f[y] \in Int
              /\ IsFiniteSet(u) /\ x \notin u /\ \A y \in u \cup {x} : f[y] \in Int
              /\ S \ (s \ {x}) = u \cup {x}
            <4>1. s \in SUBSET S /\ s \ {x} \in SUBSET S /\ u \in SUBSET S
                OBVIOUS
            <4> QED
                BY <4>1, FS_Subset
        <3> HIDE DEF u
        <3>3. SumFunctionOnSet(f, s) = f[x] + SumFunctionOnSet(f, s \ {x})
            BY <3>2, SumRemove
        <3>4. SumFunctionOnSet(f, u \cup {x}) = f[x] + SumFunctionOnSet(f, u)
            BY <3>2, SumAdd
        <3>5. f[x] \in Int /\ SumFunctionOnSet(f, s \ {x}) \in Int /\ SumFunctionOnSet(f, u) \in Int
            BY <3>2, SumInt
        <3>6. SumFunctionOnSet(f, S) = SumFunctionOnSet(f, s \ {x}) + SumFunctionOnSet(f, u \cup {x})
            BY <1>1, <3>2
        <3> QED
            BY <3>3, <3>4, <3>5, <3>6 DEF u
    <2> QED
        BY <2>1, <2>2
<1> HIDE DEF P
<1>2. \A s \in SUBSET T : s \in P
    BY Zenon, <1>0, <1>1, SetInduct
<1> QED
    BY <1>2 DEF P

=============================================================================
