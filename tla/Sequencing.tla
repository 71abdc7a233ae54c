------------------------------ MODULE Sequencing ------------------------------
(***************************************************************************)
(* What the program does with lists: sorted() with a key, which is stable, *)
(* and the comprehensions that keep some members.                          *)
(***************************************************************************)
EXTENDS Integers, FiniteSets, SequencesExt

\* The set S in the order Before, which is strict and total on it.
Ordered(S, Before(_, _)) ==
  [n \in 1..Cardinality(S) |-> CHOOSE x \in S : Cardinality({y \in S : Before(y, x)}) = n - 1]

\* The members of the sequence s in descending order of key, a function on its
\* indexes, equal ones as they were.
Sorted(s, key) ==
  [n \in 1..Cardinality(DOMAIN s) |->
     s[CHOOSE i \in DOMAIN s :
         Cardinality({j \in DOMAIN s : key[j] > key[i] \/ (key[j] = key[i] /\ j < i)}) = n - 1]]
Descending(s, Key(_)) == Sorted(s, [i \in DOMAIN s |-> Key(s[i])])

\* The members of s whose index is in I, in their order.
Kept(s, I) ==
  [n \in 1..Cardinality(I) |-> s[CHOOSE i \in I : Cardinality({j \in I : j < i}) = n - 1]]
Where(s, Holds(_)) == Kept(s, {i \in DOMAIN s : Holds(s[i])})
First(s, n) == SubSeq(s, 1, Min({n, Len(s)}))
\* The members of a sequence of sets, each empty or of one element, in order.
Present(s) ==
  LET some == Where(s, LAMBDA S : S # {})
  IN [n \in DOMAIN some |-> CHOOSE x \in some[n] : TRUE]
=============================================================================
