------------------------------ MODULE DataTheorems ------------------------------
(***************************************************************************)
(* What the operators on data return that the components share: sums over  *)
(* a finite set, sorted and filtered lists, least members.  An induction   *)
(* is stated about a set, the numbers for which a fact holds, so that no   *)
(* theorem takes an operator as its parameter.                             *)
(***************************************************************************)
EXTENDS Sequencing, SequenceTheorems, FiniteSetTheorems, TLAPS

-----------------------------------------------------------------------------
(* Natural numbers.                                                         *)

\* A set of natural numbers has a least element: the initial segments up to its
\* members are finite sets, and strict inclusion is well-founded on those.
LEMMA LeastNatural ==
  ASSUME NEW T \in SUBSET Nat, T # {}
  PROVE  \E n \in T : \A m \in T : n <= m
<1> DEFINE I == {0..n : n \in T}
<1>1. I \subseteq FiniteSubsetsOf(Nat) /\ I # {}
  <2>1. ASSUME NEW n \in T PROVE 0..n \in FiniteSubsetsOf(Nat)
    BY FS_Interval DEF FiniteSubsetsOf
  <2> QED
    BY <2>1
<1>2. PICK i \in I : \A j \in I : ~(<<j, i>> \in StrictSubsetOrdering(Nat))
  BY <1>1, WFMin, FS_StrictSubsetOrderingWellFounded
<1>3. PICK n \in T : i = 0..n
  OBVIOUS
<1>4. ASSUME NEW m \in T, m < n PROVE FALSE
  <2>1. 0..m \in I /\ 0..m \subseteq 0..n /\ 0..m # 0..n
    BY <1>4, n \in 0..n
  <2>2. 0..m \in SUBSET Nat /\ 0..n \in SUBSET Nat
    OBVIOUS
  <2> QED
    BY <1>2, <1>3, <2>1, <2>2 DEF StrictSubsetOrdering
<1> QED
  BY <1>4

\* Induction: a set with 0 and the successors of its members is all of Nat.
LEMMA Counting ==
  ASSUME NEW A, 0 \in A, \A n \in Nat : n \in A => n + 1 \in A
  PROVE  Nat \subseteq A
<1> SUFFICES ASSUME Nat \ A # {} PROVE FALSE
  OBVIOUS
<1>1. PICK n \in Nat \ A : \A m \in Nat \ A : n <= m
  BY LeastNatural
<1>2. n # 0 /\ n - 1 \in Nat
  OBVIOUS
<1>3. n - 1 \in A
  BY <1>1, <1>2
<1> QED
  BY <1>2, <1>3

-----------------------------------------------------------------------------
(***************************************************************************)
(* Sums.  SumFunctionOnSet is a recursive function on the subsets of its   *)
(* set: it takes away the member that CHOOSE picks.  Adding is one step of   *)
(* that recursion; a function that Adding maps to itself is what the library *)
(* chooses.                                                                *)
(***************************************************************************)
One(s) == CHOOSE x \in s : TRUE
Adding(g, f, S) ==
  [s \in SUBSET S |-> IF s = {} THEN 0 ELSE f[One(s)] + g[s \ {One(s)}]]

LEMMA OneOf == ASSUME NEW s, s # {} PROVE One(s) \in s
BY DEF One

\* Sets by the number of their members.
LEMMA Smaller ==
  ASSUME NEW S, IsFiniteSet(S), NEW s \in SUBSET S, NEW x \in s
  PROVE  /\ IsFiniteSet(s) /\ s \ {x} \in SUBSET S
         /\ Cardinality(s) \in Nat /\ Cardinality(s \ {x}) = Cardinality(s) - 1
<1>1. IsFiniteSet(s)
  BY FS_Subset
<1> QED
  BY <1>1, FS_RemoveElement, FS_CardinalityType

LEMMA AddingHasFixpoint ==
  ASSUME NEW S, IsFiniteSet(S), NEW f
  PROVE  \E g : g = Adding(g, f, S)
<1> DEFINE Upto(n, g) == \A s \in SUBSET S : Cardinality(s) <= n => g[s] = Adding(g, f, S)[s]
           A == {n \in Nat : \E g : Upto(n, g)}
<1>0. \A s \in SUBSET S : Cardinality(s) \in Nat /\ (Cardinality(s) = 0 <=> s = {})
  BY FS_Subset, FS_CardinalityType, FS_EmptySet
<1>1. 0 \in A
  <2> DEFINE g == [s \in SUBSET S |-> 0]
  <2>1. Upto(0, g)
    BY <1>0 DEF Adding
  <2> HIDE DEF g
  <2> QED
    BY <2>1
<1>2. ASSUME NEW n \in Nat, n \in A PROVE n + 1 \in A
  <2>1. PICK g : Upto(n, g)
    BY <1>2
  <2> DEFINE h == Adding(g, f, S)
  <2>2. ASSUME NEW s \in SUBSET S, Cardinality(s) <= n + 1
        PROVE  h[s] = Adding(h, f, S)[s]
    <3>1. CASE s = {}
      BY <3>1 DEF Adding
    <3>2. CASE s # {}
      <4> DEFINE t == s \ {One(s)}
      <4>1. t \in SUBSET S /\ Cardinality(t) <= n
        BY <2>2, <3>2, OneOf, Smaller
      <4>2. g[t] = h[t]
        BY <2>1, <4>1
      <4>3. h[s] = f[One(s)] + g[t]
        BY <3>2 DEF Adding
      <4>4. Adding(h, f, S)[s] = f[One(s)] + h[t]
        BY <3>2 DEF Adding
      <4> QED
        BY <4>2, <4>3, <4>4
    <3> QED
      BY <3>1, <3>2
  <2> HIDE DEF h
  <2> QED
    BY <2>2
<1>3. PICK g : Upto(Cardinality(S), g)
  <2> HIDE DEF A
  <2>1. Nat \subseteq A
    BY <1>1, <1>2, Counting
  <2>2. Cardinality(S) \in A
    BY <2>1, FS_CardinalityType
  <2> QED
    BY <2>2 DEF A
<1>4. \A s \in SUBSET S : Cardinality(s) <= Cardinality(S)
  BY FS_Subset
<1>5. \A s \in SUBSET S : g[s] = Adding(g, f, S)[s]
  BY <1>3, <1>4
<1> DEFINE h == [s \in SUBSET S |-> g[s]]
<1>6. h = Adding(g, f, S)
  BY <1>5 DEF Adding
<1>7. Adding(g, f, S) = Adding(h, f, S)
  <2>1. ASSUME NEW s \in SUBSET S PROVE g[s \ {One(s)}] = h[s \ {One(s)}]
    OBVIOUS
  <2> QED
    BY <2>1 DEF Adding
<1> HIDE DEF h
<1> QED
  BY <1>6, <1>7

\* Induction over the subsets of a finite set: a member is taken away at a time.
LEMMA Removing ==
  ASSUME NEW S, IsFiniteSet(S), NEW B, {} \in B,
         \A s \in SUBSET S : \A x \in s : s \ {x} \in B => s \in B
  PROVE  SUBSET S \subseteq B
<1> DEFINE A == {n \in Nat : \A s \in SUBSET S : Cardinality(s) = n => s \in B}
<1>0. \A s \in SUBSET S : Cardinality(s) \in Nat /\ (Cardinality(s) = 0 <=> s = {})
  BY FS_Subset, FS_CardinalityType, FS_EmptySet
<1>1. 0 \in A
  BY <1>0
<1>2. ASSUME NEW n \in Nat, n \in A PROVE n + 1 \in A
  <2>1. ASSUME NEW s \in SUBSET S, Cardinality(s) = n + 1 PROVE s \in B
    <3>1. PICK x \in s : TRUE
      BY <1>0, <2>1
    <3>2. s \ {x} \in SUBSET S /\ Cardinality(s \ {x}) = n
      BY <2>1, Smaller
    <3> QED
      BY <1>2, <3>2
  <2> QED
    BY <2>1
<1> HIDE DEF A
<1>3. Nat \subseteq A
  BY <1>1, <1>2, Counting
<1> QED
  BY <1>0, <1>3 DEF A

\* The sum is an integer, and does not depend on the member taken away first.
SumsAt(g, f, s) == g[s] \in Int /\ \A x \in s : g[s] = f[x] + g[s \ {x}]

LEMMA AddingSums ==
  ASSUME NEW S, IsFiniteSet(S), NEW f, \A x \in S : f[x] \in Int,
         NEW g, g = Adding(g, f, S)
  PROVE  \A s \in SUBSET S : SumsAt(g, f, s)
<1> DEFINE A == {n \in Nat : \A s \in SUBSET S : Cardinality(s) <= n => SumsAt(g, f, s)}
<1>0. \A s \in SUBSET S : Cardinality(s) \in Nat /\ (Cardinality(s) = 0 <=> s = {})
  BY FS_Subset, FS_CardinalityType, FS_EmptySet
<1>1. g[{}] = 0
  BY DEF Adding
<1>2. 0 \in A
  BY <1>0, <1>1 DEF SumsAt
<1>3. ASSUME NEW s \in SUBSET S, s # {} PROVE g[s] = f[One(s)] + g[s \ {One(s)}]
  <2>1. Adding(g, f, S)[s] = f[One(s)] + g[s \ {One(s)}]
    BY <1>3 DEF Adding
  <2> QED
    BY <2>1
<1>4. ASSUME NEW n \in Nat, n \in A PROVE n + 1 \in A
  <2>0. \A s \in SUBSET S : Cardinality(s) <= n => SumsAt(g, f, s)
    BY <1>4
  <2> HIDE DEF A
  <2>1. ASSUME NEW s \in SUBSET S, Cardinality(s) = n + 1 PROVE SumsAt(g, f, s)
    <3>1. PICK y \in s : y = One(s)
      BY <1>0, <2>1, OneOf
    <3>2. PICK t \in SUBSET S : t = s \ {y}
      OBVIOUS
    <3>3. Cardinality(t) = n
      BY <2>1, <3>2, Smaller
    <3>4. SumsAt(g, f, t)
      BY <2>0, <3>3
    <3>5. g[s] = f[y] + g[t] /\ f[y] \in Int
      BY <1>3, <3>1, <3>2
    <3>6. ASSUME NEW x \in s, x # y PROVE g[s] = f[x] + g[s \ {x}]
      <4>1. PICK u \in SUBSET S : u = s \ {x}
        OBVIOUS
      <4>2. Cardinality(u) = n
        BY <2>1, <4>1, Smaller
      <4>3. SumsAt(g, f, u)
        BY <2>0, <4>2
      <4>4. PICK v \in SUBSET S : v = t \ {x}
        OBVIOUS
      <4>5. v = u \ {y} /\ y \in u /\ x \in t
        BY <3>2, <3>6, <4>1, <4>4
      <4>6. Cardinality(v) <= n
        BY <3>3, <4>4, <4>5, Smaller
      <4>7. SumsAt(g, f, v)
        BY <2>0, <4>6
      <4>8. g[u] = f[y] + g[v] /\ g[t] = f[x] + g[v]
        BY <3>4, <4>3, <4>4, <4>5 DEF SumsAt
      <4>9. g[v] \in Int /\ f[x] \in Int
        BY <4>7 DEF SumsAt
      <4> QED
        BY <3>5, <4>1, <4>8, <4>9
    <3>7. g[t] \in Int
      BY <3>4 DEF SumsAt
    <3>8. g[s] = f[y] + g[s \ {y}]
      BY <3>2, <3>5
    <3>9. \A x \in s : g[s] = f[x] + g[s \ {x}]
      BY <3>6, <3>8
    <3>10. g[s] \in Int
      BY <3>5, <3>7
    <3> QED
      BY <3>9, <3>10 DEF SumsAt
  <2>2. ASSUME NEW s \in SUBSET S, Cardinality(s) <= n + 1 PROVE SumsAt(g, f, s)
    BY <1>0, <2>0, <2>1, <2>2
  <2> QED
    BY <2>2 DEF A
<1> HIDE DEF A
<1>5. Nat \subseteq A
  BY <1>2, <1>4, Counting
<1>6. ASSUME NEW s \in SUBSET S PROVE SumsAt(g, f, s)
  BY <1>0, <1>5 DEF A
<1> QED
  BY <1>6

\* The recursion over a set and that over a subset agree on what they share.
LEMMA AddingSame ==
  ASSUME NEW S, IsFiniteSet(S), NEW f, \A x \in S : f[x] \in Int,
         NEW g, g = Adding(g, f, S),
         NEW T \in SUBSET S, NEW e, \A x \in T : e[x] = f[x],
         NEW h, h = Adding(h, e, T)
  PROVE  \A s \in SUBSET T : h[s] = g[s]
<1> DEFINE B == {s \in SUBSET T : h[s] = g[s]}
<1>0. IsFiniteSet(T)
  BY FS_Subset
<1>1. {} \in B
  BY DEF Adding
<1>2. ASSUME NEW s \in SUBSET T, NEW x \in s, s \ {x} \in B PROVE s \in B
  <2>1. SumsAt(g, f, s)
    BY AddingSums
  <2>2. SumsAt(h, e, s)
    BY <1>0, AddingSums
  <2> QED
    BY <1>2, <2>1, <2>2 DEF SumsAt
<1> HIDE DEF B
<1>3. SUBSET T \subseteq B
  BY <1>0, <1>1, <1>2, Removing
<1> QED
  BY <1>3 DEF B

LEMMA SumIsAdding ==
  ASSUME NEW S, IsFiniteSet(S), NEW f
  PROVE  \E g : g = Adding(g, f, S) /\ SumFunctionOnSet(f, S) = g[S]
<1> DEFINE g == CHOOSE h : h = Adding(h, f, S)
<1>1. g = Adding(g, f, S)
  BY AddingHasFixpoint
<1>2. SumFunctionOnSet(f, S) = g[S]
  BY DEF SumFunctionOnSet, FoldFunctionOnSet, MapThenFoldSet, Adding, One
<1> HIDE DEF g
<1> QED
  BY <1>1, <1>2

\* A sum of integers is an integer; the sum over no member is zero.
THEOREM SumInt ==
  ASSUME NEW S, IsFiniteSet(S), NEW f, \A x \in S : f[x] \in Int
  PROVE  SumFunctionOnSet(f, S) \in Int
<1>1. PICK g : g = Adding(g, f, S) /\ SumFunctionOnSet(f, S) = g[S]
  BY SumIsAdding
<1>2. SumsAt(g, f, S)
  BY <1>1, AddingSums
<1> QED
  BY <1>1, <1>2 DEF SumsAt

THEOREM SumEmpty ==
  ASSUME NEW f PROVE SumFunctionOnSet(f, {}) = 0
<1>1. PICK g : g = Adding(g, f, {}) /\ SumFunctionOnSet(f, {}) = g[{}]
  BY SumIsAdding, FS_EmptySet
<1> QED
  BY <1>1 DEF Adding

\* Functions that agree on a set have the same sum over it.
THEOREM SumSame ==
  ASSUME NEW S, IsFiniteSet(S), NEW f, \A x \in S : f[x] \in Int,
         NEW e, \A x \in S : e[x] = f[x]
  PROVE  SumFunctionOnSet(e, S) = SumFunctionOnSet(f, S)
<1>1. PICK g : g = Adding(g, f, S) /\ SumFunctionOnSet(f, S) = g[S]
  BY SumIsAdding
<1>2. PICK h : h = Adding(h, e, S) /\ SumFunctionOnSet(e, S) = h[S]
  BY SumIsAdding
<1>3. S \in SUBSET S
  OBVIOUS
<1>4. h[S] = g[S]
  BY <1>1, <1>2, <1>3, AddingSame
<1> QED
  BY <1>1, <1>2, <1>4

\* Any member may be taken out of a sum.
THEOREM SumPick ==
  ASSUME NEW S, IsFiniteSet(S), NEW f, \A x \in S : f[x] \in Int, NEW x \in S
  PROVE  /\ SumFunctionOnSet(f, S) = f[x] + SumFunctionOnSet(f, S \ {x})
         /\ SumFunctionOnSet(f, S \ {x}) \in Int
<1> DEFINE T == S \ {x}
<1>1. PICK g : g = Adding(g, f, S) /\ SumFunctionOnSet(f, S) = g[S]
  BY SumIsAdding
<1>2. IsFiniteSet(T) /\ T \in SUBSET S
  BY FS_Subset
<1>3. PICK h : h = Adding(h, f, T) /\ SumFunctionOnSet(f, T) = h[T]
  BY <1>2, SumIsAdding
<1>4. T \in SUBSET T /\ \A y \in T : f[y] = f[y]
  OBVIOUS
<1>5. h[T] = g[T]
  <2> HIDE DEF T
  <2> QED
    BY <1>1, <1>2, <1>3, <1>4, AddingSame
<1>6. SumsAt(g, f, S)
  BY <1>1, AddingSums
<1>7. SumFunctionOnSet(f, T) \in Int
  BY <1>2, SumInt
<1>8. g[S] = f[x] + g[T]
  BY <1>6 DEF SumsAt
<1> QED
  BY <1>1, <1>3, <1>5, <1>7, <1>8

THEOREM SumOne ==
  ASSUME NEW f, NEW x, f[x] \in Int
  PROVE  SumFunctionOnSet(f, {x}) = f[x]
<1>1. IsFiniteSet({x}) /\ x \in {x} /\ {x} \ {x} = {}
  BY FS_Singleton
<1>2. SumFunctionOnSet(f, {x}) = f[x] + SumFunctionOnSet(f, {x} \ {x})
  <2> DEFINE S == {x}
  <2>1. IsFiniteSet(S) /\ x \in S /\ \A y \in S : f[y] \in Int
    BY <1>1
  <2> HIDE DEF S
  <2>2. SumFunctionOnSet(f, S) = f[x] + SumFunctionOnSet(f, S \ {x})
    BY <2>1, SumPick
  <2> QED
    BY <2>2 DEF S
<1> QED
  BY <1>1, <1>2, SumEmpty

\* The difference of two sums is the sum of the differences.
THEOREM SumMinus ==
  ASSUME NEW S, IsFiniteSet(S), NEW f, NEW e, NEW d,
         \A x \in S : f[x] \in Int /\ e[x] \in Int /\ d[x] = e[x] - f[x]
  PROVE  SumFunctionOnSet(e, S) - SumFunctionOnSet(f, S) = SumFunctionOnSet(d, S)
<1> DEFINE B == {s \in SUBSET S :
             SumFunctionOnSet(e, s) - SumFunctionOnSet(f, s) = SumFunctionOnSet(d, s)}
<1>1. {} \in B
  BY SumEmpty
<1>2. ASSUME NEW s \in SUBSET S, NEW x \in s, s \ {x} \in B PROVE s \in B
  <2>1. IsFiniteSet(s)
    BY FS_Subset
  <2>2. /\ \A y \in s : f[y] \in Int
        /\ \A y \in s : e[y] \in Int
        /\ \A y \in s : d[y] \in Int
    OBVIOUS
  <2>3. /\ SumFunctionOnSet(f, s) = f[x] + SumFunctionOnSet(f, s \ {x})
        /\ SumFunctionOnSet(f, s \ {x}) \in Int
    BY <2>1, <2>2, SumPick
  <2>4. /\ SumFunctionOnSet(e, s) = e[x] + SumFunctionOnSet(e, s \ {x})
        /\ SumFunctionOnSet(e, s \ {x}) \in Int
    BY <2>1, <2>2, SumPick
  <2>5. /\ SumFunctionOnSet(d, s) = d[x] + SumFunctionOnSet(d, s \ {x})
        /\ SumFunctionOnSet(d, s \ {x}) \in Int
    BY <2>1, <2>2, SumPick
  <2> QED
    BY <1>2, <2>3, <2>4, <2>5
<1> HIDE DEF B
<1>3. SUBSET S \subseteq B
  BY <1>1, <1>2, Removing
<1> QED
  BY <1>3 DEF B

\* Members that count nothing may be left out.
THEOREM SumPart ==
  ASSUME NEW S, IsFiniteSet(S), NEW f, NEW T \in SUBSET S,
         \A x \in T : f[x] \in Int, \A x \in S \ T : f[x] = 0
  PROVE  SumFunctionOnSet(f, S) = SumFunctionOnSet(f, T)
<1> DEFINE R == S \ T
           B == {s \in SUBSET R : SumFunctionOnSet(f, T \cup s) = SumFunctionOnSet(f, T)}
<1>1. {} \in B
  OBVIOUS
<1>2. ASSUME NEW s \in SUBSET R, NEW x \in s, s \ {x} \in B PROVE s \in B
  <2>1. PICK u \in SUBSET S : u = T \cup s
    OBVIOUS
  <2>2. IsFiniteSet(u) /\ x \in u /\ u \ {x} = T \cup (s \ {x})
    BY <2>1, FS_Subset
  <2>3. \A y \in u : f[y] \in Int
    BY <2>1
  <2>4. /\ SumFunctionOnSet(f, u) = f[x] + SumFunctionOnSet(f, u \ {x})
        /\ SumFunctionOnSet(f, u \ {x}) \in Int
    BY <2>2, <2>3, SumPick
  <2>5. f[x] = 0
    OBVIOUS
  <2>6. SumFunctionOnSet(f, T \cup (s \ {x})) = SumFunctionOnSet(f, T)
    BY <1>2
  <2>7. SumFunctionOnSet(f, u \ {x}) = SumFunctionOnSet(f, T)
    BY <2>2, <2>6
  <2>8. SumFunctionOnSet(f, u) = SumFunctionOnSet(f, T)
    BY <2>4, <2>5, <2>7
  <2>9. SumFunctionOnSet(f, T \cup s) = SumFunctionOnSet(f, T)
    BY <2>1, <2>8
  <2> QED
    BY <2>9
<1>3. IsFiniteSet(R)
  BY FS_Subset
<1>4. SUBSET R \subseteq B
  <2> HIDE DEF B, R
  <2> QED
    BY <1>1, <1>2, <1>3, Removing
<1>5. R \in B /\ T \cup R = S
  BY <1>4
<1> QED
  BY <1>5

\* What a sum changes by is what the members of T changed by, if no other did.
THEOREM SumMoves ==
  ASSUME NEW S, IsFiniteSet(S), NEW T \in SUBSET S, NEW f, NEW e, NEW d,
         \A x \in S : f[x] \in Int /\ e[x] \in Int,
         \A x \in S \ T : e[x] = f[x],
         \A x \in T : d[x] = e[x] - f[x]
  PROVE  SumFunctionOnSet(e, S) - SumFunctionOnSet(f, S) = SumFunctionOnSet(d, T)
<1> DEFINE m == [x \in S |-> e[x] - f[x]]
<1>1. \A x \in S : m[x] = e[x] - f[x] /\ m[x] \in Int
  OBVIOUS
<1>2. (\A x \in S \ T : m[x] = 0) /\ (\A x \in T : d[x] = m[x] /\ m[x] \in Int)
  OBVIOUS
<1> HIDE DEF m
<1>3. SumFunctionOnSet(e, S) - SumFunctionOnSet(f, S) = SumFunctionOnSet(m, S)
  BY <1>1, SumMinus
<1>4. SumFunctionOnSet(m, S) = SumFunctionOnSet(m, T)
  BY <1>1, <1>2, SumPart
<1>5. SumFunctionOnSet(d, T) = SumFunctionOnSet(m, T)
  <2>1. IsFiniteSet(T)
    BY FS_Subset
  <2> QED
    BY <1>2, <2>1, SumSame
<1> QED
  BY <1>3, <1>4, <1>5

-----------------------------------------------------------------------------
(***************************************************************************)
(* Orders.  In a finite set that is totally ordered, the number of members *)
(* before a member runs through 0, 1, 2, ... without gaps: it is an        *)
(* injection into as many numbers as there are members.                    *)
(***************************************************************************)
LEMMA Places ==
  ASSUME NEW D, IsFiniteSet(D), NEW before \in [D -> SUBSET D],
         \A x \in D : x \notin before[x],
         \A x, y \in D : x \in before[y] => before[x] \subseteq before[y],
         \A x, y \in D : x # y => x \in before[y] \/ y \in before[x]
  PROVE  /\ \A x \in D : Cardinality(before[x]) \in 0..Cardinality(D) - 1
         /\ \A x, y \in D : x \in before[y] => Cardinality(before[x]) < Cardinality(before[y])
         /\ \A n \in 1..Cardinality(D) : \E x \in D : Cardinality(before[x]) = n - 1
<1> DEFINE N == Cardinality(D)
           place == [x \in D |-> Cardinality(before[x])]
<1>1. N \in Nat
  BY FS_CardinalityType
<1>2. \A x \in D : IsFiniteSet(before[x]) /\ Cardinality(before[x]) \in Nat
  BY FS_Subset, FS_CardinalityType
<1>3. ASSUME NEW x \in D PROVE Cardinality(before[x]) \in 0..N - 1
  <2>1. before[x] \in SUBSET D /\ before[x] # D
    OBVIOUS
  <2>2. Cardinality(before[x]) <= N /\ Cardinality(before[x]) # N
    BY <2>1, FS_Subset
  <2> QED
    BY <1>1, <1>2, <2>2
<1>4. ASSUME NEW x \in D, NEW y \in D, x \in before[y]
      PROVE  Cardinality(before[x]) < Cardinality(before[y])
  <2>1. before[x] \in SUBSET before[y] /\ before[x] # before[y]
    BY <1>4
  <2>2. Cardinality(before[x]) <= Cardinality(before[y])
        /\ Cardinality(before[x]) # Cardinality(before[y])
    BY <2>1, <1>2, FS_Subset
  <2> QED
    BY <1>2, <2>2
<1>5. place \in Injection(D, 0..N - 1)
  <2>1. place \in [D -> 0..N - 1]
    BY <1>3
  <2>2. ASSUME NEW x \in D, NEW y \in D, x # y PROVE place[x] # place[y]
    BY <2>2, <1>2, <1>4
  <2> QED
    BY <2>1, <2>2 DEF Injection, IsInjective
<1>6. IsFiniteSet(0..N - 1) /\ Cardinality(0..N - 1) = N
  BY <1>1, FS_Interval
<1>7. place \in Surjection(D, 0..N - 1)
  BY <1>5, <1>6, FS_Injection
<1>8. ASSUME NEW n \in 1..N PROVE \E x \in D : Cardinality(before[x]) = n - 1
  <2>1. n - 1 \in 0..N - 1
    BY <1>1
  <2>2. \E x \in D : place[x] = n - 1
    BY <1>7, <2>1 DEF Surjection
  <2> QED
    BY <2>2
<1> QED
  BY <1>3, <1>4, <1>8

\* The indexes I of a sequence in an order: a permutation that never steps back.
Enumerates(order, I, before) ==
  /\ order \in [1..Cardinality(I) -> I]
  /\ \A m, n \in 1..Cardinality(I) : m < n => order[m] \in before[order[n]]
  /\ \A i \in I : \E n \in 1..Cardinality(I) : order[n] = i

LEMMA Enumeration ==
  ASSUME NEW I, IsFiniteSet(I), NEW before \in [I -> SUBSET I],
         \A x \in I : x \notin before[x],
         \A x, y \in I : x \in before[y] => before[x] \subseteq before[y],
         \A x, y \in I : x # y => x \in before[y] \/ y \in before[x],
         NEW order \in [1..Cardinality(I) -> I],
         \A n \in 1..Cardinality(I) : Cardinality(before[order[n]]) = n - 1
  PROVE  Enumerates(order, I, before)
<1> DEFINE N == Cardinality(I)
<1>1. N \in Nat
  BY FS_CardinalityType
<1>2. /\ \A x \in I : Cardinality(before[x]) \in 0..N - 1
      /\ \A x, y \in I : x \in before[y] => Cardinality(before[x]) < Cardinality(before[y])
  BY Places
<1>5. ASSUME NEW m \in 1..N, NEW n \in 1..N, m < n PROVE order[m] \in before[order[n]]
  <2>1. order[m] # order[n]
    BY <1>1, <1>5
  <2>2. order[n] \notin before[order[m]]
    BY <1>1, <1>2, <1>5
  <2> QED
    BY <2>1, <2>2
<1>6. ASSUME NEW i \in I PROVE \E n \in 1..N : order[n] = i
  <2> DEFINE n == Cardinality(before[i]) + 1
  <2>1. n \in 1..N /\ Cardinality(before[i]) = n - 1
    BY <1>1, <1>2
  <2>2. Cardinality(before[order[n]]) = Cardinality(before[i]) /\ order[n] \in I
    BY <2>1
  <2>3. order[n] = i
    BY <2>2, <1>2
  <2> QED
    BY <2>1, <2>3
<1> QED
  BY <1>5, <1>6 DEF Enumerates

\* The sequence t takes the members of s in the order of their indexes.
Picks(t, s, I, order) == \A n \in 1..Cardinality(I) : t[n] = s[order[n]]

\* Sorted puts the members in descending order of the key.
Descends(order, I, key) ==
  /\ order \in [1..Cardinality(I) -> I]
  /\ \A m, n \in 1..Cardinality(I) :
       m < n => /\ order[m] # order[n]
                /\ key[order[m]] >= key[order[n]]
  /\ \A i \in I : \E n \in 1..Cardinality(I) : order[n] = i

LEMMA SortedOrder ==
  ASSUME NEW s, IsFiniteSet(DOMAIN s), DOMAIN s \subseteq Int,
         NEW key, \A i \in DOMAIN s : key[i] \in Int
  PROVE  \E order : /\ Descends(order, DOMAIN s, key)
                    /\ Picks(Sorted(s, key), s, DOMAIN s, order)
<1> DEFINE I == DOMAIN s
           Before(i) == {j \in I : key[j] > key[i] \/ (key[j] = key[i] /\ j < i)}
           before == [i \in I |-> Before(i)]
           order == [n \in 1..Cardinality(I) |->
                       CHOOSE i \in I : Cardinality(Before(i)) = n - 1]
<1>1. /\ before \in [I -> SUBSET I]
      /\ \A x \in I : x \notin before[x]
      /\ \A x, y \in I : x \in before[y] => before[x] \subseteq before[y]
      /\ \A x, y \in I : x # y => x \in before[y] \/ y \in before[x]
  OBVIOUS
<1>2. \A x, y \in I : x \in before[y] => x # y /\ key[x] >= key[y]
  OBVIOUS
<1>3. Picks(Sorted(s, key), s, I, order)
  BY DEF Sorted, Picks
<1>4. \A i \in I : before[i] = Before(i)
  OBVIOUS
<1> HIDE DEF before, Before
<1>5. ASSUME NEW n \in 1..Cardinality(I)
      PROVE  order[n] \in I /\ Cardinality(before[order[n]]) = n - 1
  <2>1. \E i \in I : Cardinality(before[i]) = n - 1
    BY <1>1, Places
  <2>2. \E i \in I : Cardinality(Before(i)) = n - 1
    BY <2>1, <1>4
  <2> QED
    BY <2>2, <1>4
<1> HIDE DEF order
<1>6. order \in [1..Cardinality(I) -> I]
  BY <1>5 DEF order
<1>7. Enumerates(order, I, before)
  BY <1>1, <1>5, <1>6, Enumeration
<1>8. Descends(order, I, key)
  BY <1>2, <1>7 DEF Enumerates, Descends
<1> QED
  BY <1>3, <1>8

\* Kept takes the members at the indexes of I as they come.
Ascends(order, I) ==
  /\ order \in [1..Cardinality(I) -> I]
  /\ \A m, n \in 1..Cardinality(I) : m < n => order[m] < order[n]
  /\ \A i \in I : \E n \in 1..Cardinality(I) : order[n] = i

LEMMA KeptOrder ==
  ASSUME NEW s, NEW I, IsFiniteSet(I), I \subseteq Int
  PROVE  \E order : /\ Ascends(order, I)
                    /\ Picks(Kept(s, I), s, I, order)
<1> DEFINE Before(i) == {j \in I : j < i}
           before == [i \in I |-> Before(i)]
           order == [n \in 1..Cardinality(I) |->
                       CHOOSE i \in I : Cardinality(Before(i)) = n - 1]
<1>1. /\ before \in [I -> SUBSET I]
      /\ \A x \in I : x \notin before[x]
      /\ \A x, y \in I : x \in before[y] => before[x] \subseteq before[y]
      /\ \A x, y \in I : x # y => x \in before[y] \/ y \in before[x]
  <2>1. \A x \in I : x \in Int
    OBVIOUS
  <2>2. \A x, y, z \in Int : x < y /\ y < z => x < z
    OBVIOUS
  <2>3. \A x, y \in I : x \in before[y] <=> x < y
    OBVIOUS
  <2>4. \A x \in I : before[x] \subseteq I
    OBVIOUS
  <2>5. before \in [I -> SUBSET I]
    BY <2>4
  <2> HIDE DEF before
  <2>6. ASSUME NEW x \in I, NEW y \in I, x \in before[y] PROVE before[x] \subseteq before[y]
    <3>1. x < y
      BY <2>3, <2>6
    <3>2. ASSUME NEW z \in before[x] PROVE z \in before[y]
      <4>1. z \in I /\ z < x
        BY <2>3, <2>4
      <4>2. z < y
        BY <2>1, <2>2, <3>1, <4>1
      <4> QED
        BY <2>3, <4>1, <4>2
    <3> QED
      BY <3>2
  <2>7. ASSUME NEW x \in I, NEW y \in I, x # y PROVE x \in before[y] \/ y \in before[x]
    BY <2>1, <2>3, <2>7
  <2> QED
    BY <2>1, <2>3, <2>5, <2>6, <2>7
<1>2. \A x, y \in I : x \in before[y] => x < y
  OBVIOUS
<1>3. Picks(Kept(s, I), s, I, order)
  BY DEF Kept, Picks
<1>4. \A i \in I : before[i] = Before(i)
  OBVIOUS
<1> HIDE DEF before, Before
<1>5. ASSUME NEW n \in 1..Cardinality(I)
      PROVE  order[n] \in I /\ Cardinality(before[order[n]]) = n - 1
  <2>0. \A k \in 1..Cardinality(I) : \E i \in I : Cardinality(before[i]) = k - 1
    BY <1>1, Places
  <2>1. \E i \in I : Cardinality(before[i]) = n - 1
    BY <2>0
  <2>2. \E i \in I : Cardinality(Before(i)) = n - 1
    BY <2>1, <1>4
  <2> QED
    BY <2>2, <1>4
<1> HIDE DEF order
<1>6. order \in [1..Cardinality(I) -> I]
  BY <1>5 DEF order
<1>7. Enumerates(order, I, before)
  BY <1>1, <1>5, <1>6, Enumeration
<1>8. Ascends(order, I)
  BY <1>2, <1>7 DEF Enumerates, Ascends
<1> QED
  BY <1>3, <1>8

\* The least member of a finite set of numbers is in it.
LEMMA LeastMember ==
  ASSUME NEW I, IsFiniteSet(I), I \subseteq Int, I # {}
  PROVE  Min(I) \in I /\ \A i \in I : Min(I) <= i
<1> DEFINE s == [i \in I |-> i]
<1>1. PICK order : Ascends(order, I)
  BY KeptOrder
<1>2. Cardinality(I) \in Nat
  BY FS_CardinalityType
<1>3. 1 \in 1..Cardinality(I)
  <2>1. PICK i \in I : TRUE
    OBVIOUS
  <2>2. PICK n \in 1..Cardinality(I) : order[n] = i
    BY <1>1, <2>1 DEF Ascends
  <2> QED
    BY <1>2, <2>2
<1>4. order[1] \in I /\ \A i \in I : order[1] <= i
  <2>1. ASSUME NEW i \in I PROVE order[1] <= i
    <3>1. PICK n \in 1..Cardinality(I) : order[n] = i
      BY <1>1 DEF Ascends
    <3>2. n = 1 \/ 1 < n
      BY <1>2
    <3>3. CASE n = 1
      BY <3>1, <3>3
    <3>4. CASE 1 < n
      <4>1. order[1] < order[n] /\ order[1] \in I
        BY <1>1, <1>3, <3>4 DEF Ascends
      <4>2. order[1] \in Int /\ order[n] \in Int
        BY <3>1, <4>1
      <4>3. order[1] <= order[n]
        BY <4>1, <4>2
      <4> QED
        BY <3>1, <4>3
    <3> QED
      BY <3>2, <3>3, <3>4
  <2> QED
    BY <1>1, <1>3, <2>1 DEF Ascends
<1> QED
  BY <1>4 DEF Min

\* And so is the greatest.
LEMMA GreatestMember ==
  ASSUME NEW I, IsFiniteSet(I), I \subseteq Int, I # {}
  PROVE  Max(I) \in I /\ \A i \in I : Max(I) >= i
<1> DEFINE N == Cardinality(I)
<1>1. PICK order : Ascends(order, I)
  <2> DEFINE s == [i \in I |-> i]
  <2>1. \E order : Ascends(order, I) /\ Picks(Kept(s, I), s, I, order)
    BY KeptOrder
  <2> QED
    BY <2>1
<1>2. N \in Nat
  BY FS_CardinalityType
<1>3. /\ \A n \in 1..N : order[n] \in I
      /\ \A m, n \in 1..N : m < n => order[m] < order[n]
      /\ \A i \in I : \E n \in 1..N : order[n] = i
  BY <1>1 DEF Ascends
<1>4. N \in 1..N
  <2>1. PICK i \in I : TRUE
    OBVIOUS
  <2>2. PICK n \in 1..N : order[n] = i
    BY <1>3
  <2> QED
    BY <1>2, <2>2
<1>5. ASSUME NEW i \in I PROVE order[N] >= i
  <2>1. PICK n \in 1..N : order[n] = i
    BY <1>3
  <2>2. n = N \/ n < N
    BY <1>2
  <2>3. order[n] \in Int /\ order[N] \in Int
    BY <1>3, <1>4
  <2>4. order[n] <= order[N]
    BY <1>3, <1>4, <2>2, <2>3
  <2> QED
    BY <2>1, <2>3, <2>4
<1>6. \E m \in I : \A i \in I : m >= i
  BY <1>3, <1>4, <1>5
<1> QED
  BY <1>6 DEF Max

LEMMA MinOfTwo ==
  ASSUME NEW a \in Int, NEW b \in Int
  PROVE  Min({a, b}) = IF a <= b THEN a ELSE b
BY DEF Min

LEMMA MaxOfTwo ==
  ASSUME NEW a \in Int, NEW b \in Int
  PROVE  Max({a, b}) = IF a >= b THEN a ELSE b
BY DEF Max

-----------------------------------------------------------------------------
(* The same for sequences.                                                   *)

\* t is s in descending order of key, taken through order.
Permutes(order, t, s, key) ==
  /\ order \in [1..Len(s) -> 1..Len(s)]
  /\ \A n \in 1..Len(s) : t[n] = s[order[n]]
  /\ \A m, n \in 1..Len(s) : m < n => order[m] # order[n] /\ key[order[m]] >= key[order[n]]
  /\ \A i \in 1..Len(s) : \E n \in 1..Len(s) : order[n] = i

\* t is what s holds at the places of I, taken through order.
Skips(order, t, s, I) ==
  /\ order \in [1..Cardinality(I) -> I]
  /\ \A n \in 1..Cardinality(I) : t[n] = s[order[n]]
  /\ \A m, n \in 1..Cardinality(I) : m < n => order[m] < order[n]
  /\ \A i \in I : \E n \in 1..Cardinality(I) : order[n] = i

LEMMA SortedSequence ==
  ASSUME NEW S, NEW s \in Seq(S), NEW key, \A i \in 1..Len(s) : key[i] \in Int
  PROVE  /\ Sorted(s, key) \in Seq(S) /\ Len(Sorted(s, key)) = Len(s)
         /\ \E order : Permutes(order, Sorted(s, key), s, key)
<1>1. Len(s) \in Nat /\ DOMAIN s = 1..Len(s) /\ \A i \in 1..Len(s) : s[i] \in S
  BY LenProperties, ElementOfSeq
<1>2. IsFiniteSet(DOMAIN s) /\ Cardinality(DOMAIN s) = Len(s) /\ DOMAIN s \subseteq Int
  BY <1>1, FS_Interval
<1>3. PICK order : /\ Descends(order, DOMAIN s, key)
                   /\ Picks(Sorted(s, key), s, DOMAIN s, order)
  <2>1. \A i \in DOMAIN s : key[i] \in Int
    BY <1>1
  <2> QED
    BY <1>2, <2>1, SortedOrder
<1>4. /\ \A n \in 1..Len(s) : Sorted(s, key)[n] = s[order[n]]
      /\ Sorted(s, key) = [n \in 1..Len(s) |-> Sorted(s, key)[n]]
  BY <1>2, <1>3 DEF Sorted, Picks
<1>5. /\ order \in [1..Len(s) -> 1..Len(s)]
      /\ \A m, n \in 1..Len(s) :
           m < n => order[m] # order[n] /\ key[order[m]] >= key[order[n]]
      /\ \A i \in 1..Len(s) : \E n \in 1..Len(s) : order[n] = i
  BY <1>1, <1>2, <1>3 DEF Descends
<1>6. Sorted(s, key) \in [1..Len(s) -> S]
  BY <1>1, <1>4, <1>5
<1>7. Sorted(s, key) \in Seq(S) /\ Len(Sorted(s, key)) = Len(s)
  BY <1>1, <1>6, SeqDef, LenProperties
<1>8. Permutes(order, Sorted(s, key), s, key)
  BY <1>4, <1>5 DEF Permutes
<1> QED
  BY <1>7, <1>8

LEMMA KeptSequence ==
  ASSUME NEW S, NEW s \in Seq(S), NEW I \in SUBSET (1..Len(s))
  PROVE  /\ Cardinality(I) \in Nat
         /\ Kept(s, I) \in Seq(S) /\ Len(Kept(s, I)) = Cardinality(I)
         /\ \E order : Skips(order, Kept(s, I), s, I)
<1>1. Len(s) \in Nat /\ DOMAIN s = 1..Len(s) /\ \A i \in 1..Len(s) : s[i] \in S
  BY LenProperties, ElementOfSeq
<1>2. IsFiniteSet(I) /\ I \subseteq Int /\ Cardinality(I) \in Nat
  <2>1. IsFiniteSet(1..Len(s))
    BY <1>1, FS_Interval
  <2>2. IsFiniteSet(I)
    BY <2>1, FS_Subset
  <2> QED
    BY <2>2, FS_CardinalityType
<1>3. PICK order : /\ Ascends(order, I)
                   /\ Picks(Kept(s, I), s, I, order)
  BY <1>2, KeptOrder
<1>4. Kept(s, I) \in [1..Cardinality(I) -> S]
  <2>1. Kept(s, I) = [n \in 1..Cardinality(I) |-> Kept(s, I)[n]]
    BY DEF Kept
  <2>2. \A n \in 1..Cardinality(I) : Kept(s, I)[n] \in S
    BY <1>1, <1>3 DEF Ascends, Picks
  <2> QED
    BY <2>1, <2>2
<1>5. Kept(s, I) \in Seq(S) /\ Len(Kept(s, I)) = Cardinality(I)
  BY <1>2, <1>4, SeqDef, LenProperties
<1>6. Skips(order, Kept(s, I), s, I)
  BY <1>3 DEF Ascends, Picks, Skips
<1> QED
  BY <1>2, <1>5, <1>6

\* A sequence is injective when no two of its places hold the same.
LEMMA Distinct ==
  ASSUME NEW S, NEW s \in Seq(S)
  PROVE  IsInjective(s) <=> \A m, n \in 1..Len(s) : m < n => s[m] # s[n]
<1>1. DOMAIN s = 1..Len(s) /\ Len(s) \in Nat
  BY LenProperties
<1>2. \A m, n \in 1..Len(s) : m = n \/ m < n \/ n < m
  BY <1>1
<1> QED
  BY <1>1, <1>2 DEF IsInjective

LEMMA Firsts ==
  ASSUME NEW S, NEW s \in Seq(S), NEW limit \in Nat
  PROVE  LET t == SubSeq(s, 1, Min({limit, Len(s)})) IN
         /\ t \in Seq(S) /\ Len(t) <= limit /\ Len(t) <= Len(s)
         /\ Len(t) = IF limit <= Len(s) THEN limit ELSE Len(s)
         /\ \A n \in 1..Len(t) : n \in 1..Len(s) /\ t[n] = s[n]
         /\ IsInjective(s) => IsInjective(t)
<1> DEFINE k == Min({limit, Len(s)})
           t == SubSeq(s, 1, k)
<1>1. Len(s) \in Nat /\ \A i \in 1..Len(s) : s[i] \in S
  BY LenProperties, ElementOfSeq
<1>2. k \in Nat /\ k <= limit /\ k <= Len(s) /\ k = IF limit <= Len(s) THEN limit ELSE Len(s)
  BY <1>1, MinOfTwo
<1> HIDE DEF k
<1>3. t \in Seq(S) /\ Len(t) = k /\ \A n \in 1..k : t[n] = s[n]
  <2>1. \A i \in 1..k : s[i] \in S
    BY <1>1, <1>2
  <2>2. /\ t \in Seq(S) /\ Len(t) = IF 1 <= k THEN k - 1 + 1 ELSE 0
        /\ \A i \in 1..k - 1 + 1 : t[i] = s[1 + i - 1]
    BY <1>2, <2>1, SubSeqProperties
  <2> QED
    BY <1>2, <2>2
<1> HIDE DEF t
<1>4. \A n \in 1..Len(t) : n \in 1..Len(s) /\ t[n] = s[n]
  BY <1>1, <1>2, <1>3
<1>5. IsInjective(s) => IsInjective(t)
  BY <1>3, <1>4, Distinct
<1> QED
  BY <1>2, <1>3, <1>4, <1>5 DEF t, k

-----------------------------------------------------------------------------
(* What lists hold, whatever the places.                                    *)

LEMMA ListMembers ==
  ASSUME NEW S, NEW s \in Seq(S)
  PROVE  /\ Len(s) \in Nat /\ DOMAIN s = 1..Len(s)
         /\ \A i \in 1..Len(s) : s[i] \in S /\ s[i] \in Range(s)
         /\ \A x \in Range(s) : x \in S /\ \E i \in 1..Len(s) : s[i] = x
         /\ s = << >> <=> Len(s) = 0
<1>1. Len(s) \in Nat /\ DOMAIN s = 1..Len(s) /\ \A i \in 1..Len(s) : s[i] \in S
  BY LenProperties, ElementOfSeq
<1>2. s = << >> <=> Len(s) = 0
  BY EmptySeq
<1> QED
  BY <1>1, <1>2 DEF Range

LEMMA FirstOf ==
  ASSUME NEW S, NEW s \in Seq(S), NEW limit \in Nat
  PROVE  /\ First(s, limit) \in Seq(S) /\ Len(First(s, limit)) <= limit
         /\ Len(First(s, limit)) = IF limit <= Len(s) THEN limit ELSE Len(s)
         /\ \A n \in 1..Len(First(s, limit)) : n \in 1..Len(s) /\ First(s, limit)[n] = s[n]
         /\ Range(First(s, limit)) \subseteq Range(s)
         /\ First(s, limit) = << >> <=> (s = << >> \/ limit = 0)
<1> DEFINE t == First(s, limit)
<1>1. /\ t \in Seq(S) /\ Len(t) <= limit
      /\ Len(t) = IF limit <= Len(s) THEN limit ELSE Len(s)
      /\ \A n \in 1..Len(t) : n \in 1..Len(s) /\ t[n] = s[n]
  BY Firsts DEF First
<1> HIDE DEF t
<1>2. Range(t) \subseteq Range(s)
  BY <1>1, ListMembers
<1>3. t = << >> <=> (s = << >> \/ limit = 0)
  BY <1>1, ListMembers
<1> QED
  BY <1>1, <1>2, <1>3 DEF t

LEMMA SortedRange ==
  ASSUME NEW S, NEW s \in Seq(S), NEW key, \A i \in 1..Len(s) : key[i] \in Int
  PROVE  /\ Sorted(s, key) \in Seq(S) /\ Len(Sorted(s, key)) = Len(s)
         /\ Range(Sorted(s, key)) = Range(s)
<1> DEFINE t == Sorted(s, key)
<1>1. t \in Seq(S) /\ Len(t) = Len(s) /\ \E order : Permutes(order, t, s, key)
  BY SortedSequence
<1>2. PICK order : Permutes(order, t, s, key)
  BY <1>1
<1> HIDE DEF t
<1>3. /\ order \in [1..Len(s) -> 1..Len(s)]
      /\ \A n \in 1..Len(s) : t[n] = s[order[n]]
      /\ \A i \in 1..Len(s) : \E n \in 1..Len(s) : order[n] = i
  BY <1>2 DEF Permutes
<1>4. ASSUME NEW x \in Range(t) PROVE x \in Range(s)
  <2>1. PICK n \in 1..Len(t) : t[n] = x
    BY <1>1, ListMembers
  <2>2. order[n] \in 1..Len(s) /\ s[order[n]] = x
    BY <1>1, <1>3, <2>1
  <2> QED
    BY <2>2, ListMembers
<1>5. ASSUME NEW x \in Range(s) PROVE x \in Range(t)
  <2>1. PICK i \in 1..Len(s) : s[i] = x
    BY ListMembers
  <2>2. PICK n \in 1..Len(s) : order[n] = i
    BY <1>3
  <2> QED
    BY <1>1, <1>3, <2>1, <2>2, ListMembers
<1> QED
  BY <1>1, <1>4, <1>5 DEF t

LEMMA KeptRange ==
  ASSUME NEW S, NEW s \in Seq(S), NEW I \in SUBSET (1..Len(s))
  PROVE  /\ Kept(s, I) \in Seq(S)
         /\ Range(Kept(s, I)) = {s[i] : i \in I}
<1> DEFINE t == Kept(s, I)
<1>1. t \in Seq(S) /\ Len(t) = Cardinality(I) /\ \E order : Skips(order, t, s, I)
  BY KeptSequence
<1>2. PICK order : Skips(order, t, s, I)
  BY <1>1
<1> HIDE DEF t
<1>3. /\ order \in [1..Len(t) -> I]
      /\ \A n \in 1..Len(t) : t[n] = s[order[n]]
      /\ \A i \in I : \E n \in 1..Len(t) : order[n] = i
  BY <1>1, <1>2 DEF Skips
<1>4. ASSUME NEW x \in Range(t) PROVE x \in {s[i] : i \in I}
  <2>1. PICK n \in 1..Len(t) : t[n] = x
    BY <1>1, ListMembers
  <2> QED
    BY <1>3, <2>1
<1>5. ASSUME NEW i \in I PROVE s[i] \in Range(t)
  <2>1. PICK n \in 1..Len(t) : order[n] = i
    BY <1>3
  <2> QED
    BY <1>1, <1>3, <2>1, ListMembers
<1> QED
  BY <1>1, <1>4, <1>5 DEF t

\* A list made place by place.
LEMMA Mapped ==
  ASSUME NEW T, NEW n \in Nat, NEW t \in [1..n -> T]
  PROVE  t \in Seq(T) /\ Len(t) = n /\ DOMAIN t = 1..n
BY SeqDef, LenProperties

LEMMA PresentOf ==
  ASSUME NEW S, NEW s \in Seq(SUBSET S)
  PROVE  /\ Present(s) \in Seq(S)
         /\ \A x \in Range(Present(s)) : \E i \in 1..Len(s) : x \in s[i]
         /\ \A i \in 1..Len(s) : s[i] # {} => \E x \in Range(Present(s)) : x \in s[i]
         /\ Len(Present(s)) <= Len(s)
<1> DEFINE I == {i \in DOMAIN s : s[i] # {}}
           some == Kept(s, I)
           t == [n \in DOMAIN some |-> CHOOSE x \in some[n] : TRUE]
<1>1. Present(s) = t
  BY DEF Present, Where
<1>2. I \in SUBSET (1..Len(s))
  BY ListMembers
<1>3. some \in Seq(SUBSET S) /\ Range(some) = {s[i] : i \in I}
  BY <1>2, KeptRange
<1>4. \A i \in 1..Len(s) : i \in I <=> s[i] # {}
  BY ListMembers
<1>5. Len(some) <= Len(s)
  <2>1. PICK n \in Nat : n = Len(s)
    BY ListMembers
  <2>2. IsFiniteSet(1..n) /\ Cardinality(1..n) = IF 1 <= n THEN n - 1 + 1 ELSE 0
    <3>1. 1 \in Int /\ n \in Int
      OBVIOUS
    <3> QED
      BY <3>1, FS_Interval
  <2>3. Cardinality(I) <= n
    <3>1. Cardinality(I) <= Cardinality(1..n)
      BY <1>2, <2>1, <2>2, FS_Subset
    <3> QED
      BY <2>2, <3>1
  <2> QED
    BY <1>2, <2>1, <2>3, KeptSequence
<1> HIDE DEF I, some
<1>6. ASSUME NEW n \in 1..Len(some)
      PROVE  \E i \in 1..Len(s) : some[n] = s[i] /\ some[n] # {}
  <2>1. some[n] \in Range(some)
    BY <1>3, ListMembers
  <2> QED
    BY <1>2, <1>3, <1>4, <2>1
<1>7. \A n \in 1..Len(some) : t[n] \in some[n] /\ some[n] \in SUBSET S
  BY <1>3, <1>6, ListMembers
<1>8. t \in [1..Len(some) -> S]
  BY <1>3, <1>7, ListMembers
<1> HIDE DEF t
<1>9. PICK m \in Nat : m = Len(some)
  BY <1>3, ListMembers
<1>10. t \in Seq(S) /\ Len(t) = m
  BY <1>8, <1>9, Mapped
<1>11. \A x \in Range(t) : \E n \in 1..Len(some) : x = t[n]
  BY <1>9, <1>10, ListMembers
<1>12. ASSUME NEW i \in 1..Len(s), s[i] # {} PROVE \E x \in Range(t) : x \in s[i]
  <2>1. s[i] \in Range(some)
    BY <1>3, <1>4, <1>12
  <2>2. PICK n \in 1..Len(some) : some[n] = s[i]
    BY <1>3, <2>1, ListMembers
  <2> QED
    BY <1>7, <1>9, <1>10, <2>2, ListMembers
<1>13. \A x \in Range(t) : \E i \in 1..Len(s) : x \in s[i]
  BY <1>6, <1>7, <1>11
<1> QED
  BY <1>1, <1>5, <1>9, <1>10, <1>12, <1>13

-----------------------------------------------------------------------------
(* Lists joined.  Joining is one step of the recursion of FlattenSeq.       *)

Joining(g, ss) == [i \in 1..Len(ss) |-> IF i = 1 THEN ss[i] ELSE g[i - 1] \o ss[i]]

LEMMA JoiningHasFixpoint ==
  ASSUME NEW ss, Len(ss) \in Nat
  PROVE  \E g : g = Joining(g, ss)
<1> DEFINE L == 1..Len(ss)
           Upto(n, g) == \A i \in L : i <= n => g[i] = Joining(g, ss)[i]
           A == {n \in Nat : \E g : Upto(n, g)}
<1>1. 0 \in A
  <2>1. Upto(0, << >>)
    OBVIOUS
  <2> QED
    BY <2>1
<1>2. ASSUME NEW n \in Nat, n \in A PROVE n + 1 \in A
  <2>1. PICK g : Upto(n, g)
    BY <1>2
  <2> DEFINE h == Joining(g, ss)
  <2>2. ASSUME NEW i \in L, i <= n + 1 PROVE h[i] = Joining(h, ss)[i]
    <3>1. CASE i = 1
      BY <3>1 DEF Joining
    <3>2. CASE i # 1
      <4>1. i - 1 \in L /\ i - 1 <= n
        BY <2>2, <3>2
      <4>2. g[i - 1] = h[i - 1]
        BY <2>1, <4>1
      <4>3. h[i] = g[i - 1] \o ss[i]
        BY <3>2 DEF Joining
      <4>4. Joining(h, ss)[i] = h[i - 1] \o ss[i]
        BY <3>2 DEF Joining
      <4> QED
        BY <4>2, <4>3, <4>4
    <3> QED
      BY <3>1, <3>2
  <2> HIDE DEF h
  <2> QED
    BY <2>2
<1>3. PICK g : Upto(Len(ss), g)
  <2> HIDE DEF A
  <2>1. Nat \subseteq A
    BY <1>1, <1>2, Counting
  <2>2. Len(ss) \in A
    BY <2>1
  <2> QED
    BY <2>2 DEF A
<1>4. \A i \in L : g[i] = Joining(g, ss)[i]
  BY <1>3
<1> DEFINE h == [i \in L |-> g[i]]
<1>5. h = Joining(g, ss)
  BY <1>4 DEF Joining
<1>6. Joining(g, ss) = Joining(h, ss)
  <2>1. ASSUME NEW i \in L, i # 1 PROVE g[i - 1] = h[i - 1]
    BY <2>1
  <2> QED
    BY <2>1 DEF Joining
<1> HIDE DEF h
<1> QED
  BY <1>5, <1>6

\* t holds the members of the first k lists of ss, list after list: place n of t
\* belongs to list block[n].
Blocks(block, t, ss, k) ==
  /\ block \in [1..Len(t) -> 1..k]
  /\ \A m, n \in 1..Len(t) : m < n => block[m] <= block[n]
  /\ \A n \in 1..Len(t) : t[n] \in Range(ss[block[n]])
  /\ \A j \in 1..k : \A x \in Range(ss[j]) : \E n \in 1..Len(t) : block[n] = j /\ t[n] = x

LEMMA OneMore ==
  ASSUME NEW S, NEW ss \in Seq(Seq(S)), NEW k \in Nat, k + 1 \in 1..Len(ss),
         NEW t \in Seq(S), NEW block, Blocks(block, t, ss, k)
  PROVE  /\ t \o ss[k + 1] \in Seq(S)
         /\ \E all : Blocks(all, t \o ss[k + 1], ss, k + 1)
<1> DEFINE u == ss[k + 1]
           w == t \o u
           all == [n \in 1..Len(w) |-> IF n <= Len(t) THEN block[n] ELSE k + 1]
<1>1. u \in Seq(S) /\ Len(t) \in Nat /\ Len(u) \in Nat
  BY ListMembers
<1>2. /\ w \in Seq(S) /\ Len(w) = Len(t) + Len(u)
      /\ \A n \in 1..Len(w) : w[n] = IF n <= Len(t) THEN t[n] ELSE u[n - Len(t)]
  BY <1>1, ConcatProperties
<1>3. /\ \A n \in 1..Len(u) : u[n] \in Range(u)
      /\ \A x \in Range(u) : \E n \in 1..Len(u) : u[n] = x
  BY <1>1, ListMembers
<1> HIDE DEF w, u
<1>4. /\ block \in [1..Len(t) -> 1..k]
      /\ \A m, n \in 1..Len(t) : m < n => block[m] <= block[n]
      /\ \A n \in 1..Len(t) : t[n] \in Range(ss[block[n]])
      /\ \A j \in 1..k : \A x \in Range(ss[j]) : \E n \in 1..Len(t) : block[n] = j /\ t[n] = x
  BY DEF Blocks
<1>5. all \in [1..Len(w) -> 1..(k + 1)]
  BY <1>1, <1>2, <1>4
<1>6. \A n \in 1..Len(w) : all[n] = IF n <= Len(t) THEN block[n] ELSE k + 1
  OBVIOUS
<1> HIDE DEF all
<1>7. ASSUME NEW m \in 1..Len(w), NEW n \in 1..Len(w), m < n PROVE all[m] <= all[n]
  <2>1. CASE n <= Len(t)
    <3>1. m \in 1..Len(t) /\ n \in 1..Len(t) /\ m <= Len(t)
      BY <1>1, <1>2, <1>7, <2>1
    <3> QED
      BY <1>4, <1>6, <1>7, <2>1, <3>1
  <2>2. CASE ~(n <= Len(t))
    <3>1. all[n] = k + 1 /\ all[m] \in 1..(k + 1)
      BY <1>5, <1>6, <2>2
    <3> QED
      BY <3>1
  <2> QED
    BY <2>1, <2>2
<1>8. ASSUME NEW n \in 1..Len(w) PROVE w[n] \in Range(ss[all[n]])
  <2>1. CASE n <= Len(t)
    <3>1. n \in 1..Len(t) /\ all[n] = block[n] /\ w[n] = t[n]
      BY <1>1, <1>2, <1>6, <2>1
    <3> QED
      BY <1>4, <3>1
  <2>2. CASE ~(n <= Len(t))
    <3>1. n - Len(t) \in 1..Len(u) /\ all[n] = k + 1 /\ w[n] = u[n - Len(t)]
      BY <1>1, <1>2, <1>6, <2>2
    <3> QED
      BY <1>3, <3>1 DEF u
  <2> QED
    BY <2>1, <2>2
<1>9. ASSUME NEW j \in 1..(k + 1), NEW x \in Range(ss[j])
      PROVE  \E n \in 1..Len(w) : all[n] = j /\ w[n] = x
  <2>1. CASE j <= k
    <3>0. j \in 1..k
      BY <2>1
    <3>1. PICK n \in 1..Len(t) : block[n] = j /\ t[n] = x
      BY <1>4, <3>0
    <3>2. n \in 1..Len(w) /\ n <= Len(t)
      BY <1>1, <1>2
    <3> QED
      BY <1>2, <1>6, <3>1, <3>2
  <2>2. CASE j = k + 1
    <3>1. PICK m \in 1..Len(u) : u[m] = x
      BY <1>3, <2>2 DEF u
    <3>2. m + Len(t) \in 1..Len(w) /\ ~(m + Len(t) <= Len(t)) /\ m + Len(t) - Len(t) = m
      BY <1>1, <1>2
    <3>3. all[m + Len(t)] = j /\ w[m + Len(t)] = x
      BY <1>2, <1>6, <2>2, <3>1, <3>2
    <3> QED
      BY <3>2, <3>3
  <2> QED
    BY <2>1, <2>2
<1>10. Blocks(all, w, ss, k + 1)
  BY <1>5, <1>7, <1>8, <1>9 DEF Blocks
<1> QED
  BY <1>2, <1>10 DEF w, u

\* Lists joined one after the other hold what they hold, in their order.
THEOREM Flattened ==
  ASSUME NEW S, NEW ss \in Seq(Seq(S))
  PROVE  /\ FlattenSeq(ss) \in Seq(S)
         /\ \E block : Blocks(block, FlattenSeq(ss), ss, Len(ss))
<1>1. Len(ss) \in Nat /\ DOMAIN ss = 1..Len(ss) /\ \A i \in 1..Len(ss) : ss[i] \in Seq(S)
  BY ListMembers
<1>2. CASE Len(ss) = 0
  <2>1. ss = << >> /\ FlattenSeq(ss) = << >>
    BY <1>2, ListMembers DEF FlattenSeq
  <2>2. << >> \in Seq(S) /\ Len(<< >>) = 0
    BY EmptySeq
  <2>3. Blocks(<< >>, << >>, ss, 0)
    BY <2>2 DEF Blocks
  <2> QED
    BY <1>2, <2>1, <2>2, <2>3
<1>3. CASE Len(ss) # 0
  <2> DEFINE g == CHOOSE h : h = Joining(h, ss)
             A == {n \in Nat : n + 1 \in 1..Len(ss) =>
                     g[n + 1] \in Seq(S) /\ \E block : Blocks(block, g[n + 1], ss, n + 1)}
  <2>1. g = Joining(g, ss)
    BY <1>1, JoiningHasFixpoint
  <2>2. FlattenSeq(ss) = g[Len(ss)]
    BY <1>3 DEF FlattenSeq, Joining
  <2> HIDE DEF g
  <2>3. \A i \in 1..Len(ss) : g[i] = IF i = 1 THEN ss[i] ELSE g[i - 1] \o ss[i]
    BY <2>1 DEF Joining
  <2>4. 0 \in A
    <3>1. 1 \in 1..Len(ss) /\ g[1] = ss[1] /\ ss[1] \in Seq(S)
      BY <1>1, <1>3, <2>3
    <3>2. << >> \in Seq(S) /\ Len(<< >>) = 0 /\ << >> \o ss[1] = ss[1]
      BY <3>1, EmptySeq, ConcatEmptySeq
    <3>3. PICK e \in Seq(S) : e = << >>
      BY <3>2
    <3>4. Blocks(e, e, ss, 0)
      BY <3>2, <3>3 DEF Blocks
    <3>5. PICK z \in Nat : z = 0
      OBVIOUS
    <3>6. z + 1 \in 1..Len(ss) /\ z + 1 = 1 /\ Blocks(e, e, ss, z)
      BY <3>1, <3>4, <3>5
    <3>7. \E all : Blocks(all, e \o ss[z + 1], ss, z + 1)
      BY <3>6, OneMore
    <3> QED
      BY <3>1, <3>2, <3>3, <3>6, <3>7
  <2>5. ASSUME NEW n \in Nat, n \in A PROVE n + 1 \in A
    <3> SUFFICES ASSUME (n + 1) + 1 \in 1..Len(ss)
                 PROVE  /\ g[(n + 1) + 1] \in Seq(S)
                        /\ \E block : Blocks(block, g[(n + 1) + 1], ss, (n + 1) + 1)
      OBVIOUS
    <3>1. n + 1 \in 1..Len(ss) /\ n + 1 \in Nat
      BY <1>1
    <3>2. g[n + 1] \in Seq(S) /\ \E block : Blocks(block, g[n + 1], ss, n + 1)
      BY <2>5, <3>1
    <3>3. (n + 1) + 1 # 1 /\ ((n + 1) + 1) - 1 = n + 1
      OBVIOUS
    <3>4. g[(n + 1) + 1] = g[n + 1] \o ss[(n + 1) + 1]
      BY <2>3, <3>3
    <3> QED
      BY <3>1, <3>2, <3>4, OneMore
  <2> HIDE DEF A
  <2>6. Nat \subseteq A
    BY <2>4, <2>5, Counting
  <2>7. Len(ss) - 1 \in Nat /\ (Len(ss) - 1) + 1 = Len(ss) /\ Len(ss) \in 1..Len(ss)
    BY <1>1, <1>3
  <2>8. Len(ss) - 1 \in A
    BY <2>6, <2>7
  <2> QED
    BY <2>2, <2>7, <2>8 DEF A
<1> QED
  BY <1>2, <1>3

\* A list of members of T, whatever it was known to hold.
LEMMA Retyped ==
  ASSUME NEW S, NEW s \in Seq(S), NEW T, \A x \in Range(s) : x \in T
  PROVE  s \in Seq(T)
<1>1. PICK n \in Nat : n = Len(s)
  BY ListMembers
<1>2. \A i \in 1..n : s[i] \in T
  BY <1>1, ListMembers
<1>3. s = [i \in 1..n |-> s[i]]
  BY <1>1, SeqDef, LenProperties
<1>4. s \in [1..n -> T]
  BY <1>2, <1>3
<1> QED
  BY <1>4, Mapped

\* Every member of lists joined is a member of one of them.
LEMMA FlattenedFrom ==
  ASSUME NEW S, NEW ss \in Seq(Seq(S))
  PROVE  /\ FlattenSeq(ss) \in Seq(S)
         /\ \A x \in Range(FlattenSeq(ss)) : \E i \in 1..Len(ss) : x \in Range(ss[i])
<1> DEFINE t == FlattenSeq(ss)
<1>1. t \in Seq(S) /\ \E block : Blocks(block, t, ss, Len(ss))
  BY Flattened
<1> HIDE DEF t
<1>2. PICK block : Blocks(block, t, ss, Len(ss))
  BY <1>1
<1>3. ASSUME NEW x \in Range(t) PROVE \E i \in 1..Len(ss) : x \in Range(ss[i])
  <2>1. PICK n \in 1..Len(t) : t[n] = x
    BY <1>1, ListMembers
  <2> QED
    BY <1>2, <2>1 DEF Blocks
<1> QED
  BY <1>1, <1>3 DEF t

-----------------------------------------------------------------------------
(* Numbers.                                                                 *)

LEMMA Quotients ==
  ASSUME NEW a \in Int, NEW b \in Nat \ {0}
  PROVE  a \div b \in Int
OBVIOUS

\* Of a finite set of places, some have the greatest key, and the first of these is found.
LEMMA BestMember ==
  ASSUME NEW I, IsFiniteSet(I), I \subseteq Int, I # {},
         NEW key, \A i \in I : key[i] \in Int,
         NEW B \in SUBSET I, \A i \in I : i \in B <=> \A j \in I : key[j] <= key[i]
  PROVE  Min(B) \in B
<1> DEFINE s == [i \in I |-> i]
<1>1. PICK order : Descends(order, I, key)
  <2>1. DOMAIN s = I
    OBVIOUS
  <2> HIDE DEF s
  <2> QED
    BY <2>1, SortedOrder
<1>2. PICK i \in I : TRUE
  OBVIOUS
<1>3. PICK n \in 1..Cardinality(I) : order[n] = i
  BY <1>1 DEF Descends
<1>4. Cardinality(I) \in Nat
  BY FS_CardinalityType
<1>5. 1 \in 1..Cardinality(I)
  BY <1>3, <1>4
<1>6. order[1] \in I
  BY <1>1, <1>5 DEF Descends
<1>7. ASSUME NEW j \in I PROVE key[j] <= key[order[1]]
  <2>1. PICK m \in 1..Cardinality(I) : order[m] = j
    BY <1>1 DEF Descends
  <2>2. CASE m = 1
    BY <1>6, <2>1, <2>2
  <2>3. CASE m # 1
    <3>1. 1 < m
      BY <1>4, <2>3
    <3>2. key[order[1]] >= key[order[m]]
      BY <1>1, <1>5, <3>1 DEF Descends
    <3> QED
      BY <1>6, <2>1, <3>2
  <2> QED
    BY <2>2, <2>3
<1>8. B # {} /\ B \subseteq Int /\ B \subseteq I
  BY <1>6, <1>7
<1>9. IsFiniteSet(B)
  BY <1>8, FS_Subset
<1> QED
  BY <1>8, <1>9, LeastMember
=============================================================================
