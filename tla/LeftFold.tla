------------------------------ MODULE LeftFold ------------------------------
(***************************************************************************)
(* FoldLeft of the community modules, proved to do what it is read to do:   *)
(* the fold of the empty sequence is the base, and one more element is one  *)
(* more application.  The folded operator is a parameter of this module and *)
(* is substituted where the module is instantiated, for no prover can       *)
(* instantiate a theorem that takes an operator.                            *)
(***************************************************************************)
EXTENDS Integers, Sequences, SequencesExt, WellFoundedInduction, TLAPS

CONSTANTS Op(_, _), Base

Folded(s) == FoldLeft(Op, Base, s)

-----------------------------------------------------------------------------
(* Induction.                                                              *)

\* A set of naturals with 0 that is closed under successor is all of them.
LEMMA NatSetInduction ==
  ASSUME NEW T \in SUBSET Nat, 0 \in T, \A n \in T : n + 1 \in T
  PROVE  T = Nat
<1> SUFFICES ASSUME Nat \ T # {} PROVE FALSE
  OBVIOUS
<1> DEFINE R == OpToRel(<, Nat)
<1>1. IsWellFoundedOn(R, Nat)
  BY NatLessThanWellFounded
<1>2. R = {ss \in Nat \X Nat : ss[1] < ss[2]}
  BY DEF OpToRel
<1> HIDE DEF R
<1>3. PICK x \in Nat \ T : \A y \in Nat \ T : <<y, x>> \notin R
  BY <1>1, WFMin
<1>4. x # 0 /\ x - 1 \in Nat
  BY <1>3
<1>5. x - 1 \notin T
  BY <1>3, <1>4
<1>6. <<x - 1, x>> \in R
  BY <1>2, <1>4
<1> QED BY <1>3, <1>4, <1>5, <1>6

-----------------------------------------------------------------------------
(* The iteration that MapThenFoldSet chooses exists and is unique.         *)

\* What MapThenFoldSet iterates over the first n elements of s.
Iterates(g, s, n) ==
  g = [d \in SUBSET (1..n) |-> IF d = {} THEN Base ELSE Op(g[d \ {Max(d)}], s[Max(d)])]

\* The interval 1..n + 1 and its last element.
LEMMA Interval ==
  ASSUME NEW n \in Nat
  PROVE  /\ \A i : i \in 1..(n + 1) <=> i = n + 1 \/ i \in 1..n
         /\ n + 1 \notin 1..n
         /\ (1..(n + 1)) \ {n + 1} = 1..n
OBVIOUS

\* The greatest element of a set of indices up to n + 1 that holds n + 1.
LEMMA LastIsMax ==
  ASSUME NEW n \in Nat, NEW d \in SUBSET (1..(n + 1)), n + 1 \in d
  PROVE  Max(d) = n + 1 /\ d \ {n + 1} \in SUBSET (1..n)
<1>1. \A y \in d : n + 1 >= y /\ y \in Int
  OBVIOUS
<1>2. \E x \in d : \A y \in d : x >= y
  BY <1>1
<1>3. Max(d) \in d /\ \A y \in d : Max(d) >= y
  <2> DEFINE P(x) == \A y \in d : x >= y
  <2>1. (CHOOSE x \in d : P(x)) \in d /\ P(CHOOSE x \in d : P(x))
    <3> HIDE DEF P
    <3> QED BY <1>2, Zenon DEF P
  <2> QED BY <2>1 DEF Max
<1>4. Max(d) = n + 1
  <2>1. Max(d) >= n + 1 /\ n + 1 >= Max(d) /\ Max(d) \in Int
    BY <1>1, <1>3
  <2> QED BY <2>1
<1>5. d \ {n + 1} \subseteq 1..n
  BY Interval
<1> QED BY <1>4, <1>5

\* An iteration over the subsets of 1..n + 1 extends one over those of 1..n.
LEMMA IterationExists ==
  ASSUME NEW s, NEW n \in Nat
  PROVE  \E g : Iterates(g, s, n)
<1> DEFINE T == {m \in Nat : \E g : Iterates(g, s, m)}
<1>1. 0 \in T
  <2>1. Iterates([d \in SUBSET (1..0) |-> Base], s, 0)
    BY DEF Iterates
  <2> QED BY <2>1
<1>2. ASSUME NEW m \in T PROVE m + 1 \in T
  <2>1. PICK g : Iterates(g, s, m)
    OBVIOUS
  <2> DEFINE h == [d \in SUBSET (1..(m + 1)) |->
                     IF m + 1 \in d THEN Op(g[d \ {m + 1}], s[m + 1]) ELSE g[d]]
  <2>2. \A d \in SUBSET (1..m) : m + 1 \notin d /\ d \in SUBSET (1..(m + 1)) /\ h[d] = g[d]
    OBVIOUS
  <2>3. ASSUME NEW d \in SUBSET (1..(m + 1))
        PROVE  h[d] = IF d = {} THEN Base ELSE Op(h[d \ {Max(d)}], s[Max(d)])
    <3>1. CASE m + 1 \in d
      <4>1. Max(d) = m + 1 /\ d \ {m + 1} \in SUBSET (1..m) /\ d # {}
        BY <3>1, LastIsMax
      <4>2. h[d] = Op(g[d \ {m + 1}], s[m + 1]) /\ h[d \ {m + 1}] = g[d \ {m + 1}]
        BY <2>2, <3>1, <4>1
      <4> HIDE DEF h
      <4> QED BY <4>1, <4>2
    <3>2. CASE m + 1 \notin d
      <4>0. d \subseteq 1..m
        BY <3>2, Interval
      <4>1. d \in SUBSET (1..m) /\ d \ {Max(d)} \in SUBSET (1..m)
        BY <4>0
      <4>2. h[d] = g[d] /\ h[d \ {Max(d)}] = g[d \ {Max(d)}]
        BY <2>2, <4>1
      <4>3. g[d] = IF d = {} THEN Base ELSE Op(g[d \ {Max(d)}], s[Max(d)])
        BY <2>1, <4>1 DEF Iterates
      <4> HIDE DEF h
      <4> QED BY <4>2, <4>3
    <3> QED BY <3>1, <3>2
  <2>4. h = [d \in SUBSET (1..(m + 1)) |-> h[d]]
    OBVIOUS
  <2> HIDE DEF h
  <2>5. Iterates(h, s, m + 1)
    BY <2>3, <2>4 DEF Iterates
  <2> QED BY <2>5
<1> HIDE DEF T
<1>3. T = Nat
  <2>1. T \in SUBSET Nat
    BY DEF T
  <2> QED BY <1>1, <1>2, <2>1, NatSetInduction
<1> QED BY <1>3 DEF T

\* Two sequences that agree on their first n elements are iterated alike.
LEMMA IterationAgrees ==
  ASSUME NEW s, NEW t, NEW g, NEW h, NEW m \in Nat, NEW k \in Nat,
         Iterates(g, s, m), Iterates(h, t, k),
         NEW n \in Nat, n <= m, n <= k, \A i \in 1..n : s[i] = t[i]
  PROVE  g[1..n] = h[1..n]
<1> DEFINE T == {j \in Nat : j <= n => g[1..j] = h[1..j]}
<1>1. 0 \in T
  BY DEF Iterates
<1>2. ASSUME NEW j \in T PROVE j + 1 \in T
  <2> SUFFICES ASSUME j + 1 <= n PROVE g[1..(j + 1)] = h[1..(j + 1)]
    OBVIOUS
  <2> DEFINE d == 1..(j + 1)
  <2>1. j \in Nat /\ g[1..j] = h[1..j]
    OBVIOUS
  <2>2. d # {} /\ j + 1 \in d /\ j + 1 \in 1..n
        /\ d \subseteq 1..(j + 1) /\ d \subseteq 1..m /\ d \subseteq 1..k
    BY <2>1
  <2>3. Max(d) = j + 1
    BY <2>2, LastIsMax
  <2>4. d \ {j + 1} = 1..j
    OBVIOUS
  <2> HIDE DEF d
  <2>5. g[d] = Op(g[d \ {Max(d)}], s[Max(d)]) /\ h[d] = Op(h[d \ {Max(d)}], t[Max(d)])
    BY <2>2 DEF Iterates
  <2>6. g[d] = h[d]
    BY <2>1, <2>2, <2>3, <2>4, <2>5
  <2> QED BY <2>6 DEF d
<1> HIDE DEF T
<1>3. T = Nat
  <2>1. T \in SUBSET Nat
    BY DEF T
  <2> QED BY <1>1, <1>2, <2>1, NatSetInduction
<1> QED BY <1>3 DEF T

-----------------------------------------------------------------------------
(* The fold.                                                               *)

Iteration(s, n) == CHOOSE g : Iterates(g, s, n)

\* The fold of a sequence is the iteration over all its indices.
LEMMA FoldedIterates ==
  ASSUME NEW s, NEW n \in Nat, DOMAIN s = 1..n
  PROVE  /\ Iterates(Iteration(s, n), s, n)
         /\ Folded(s) = Iteration(s, n)[1..n]
<1>1. Iterates(Iteration(s, n), s, n)
  BY IterationExists DEF Iteration
<1>2. Folded(s) = Iteration(s, n)[1..n]
  BY Zenon DEF Folded, FoldLeft, MapThenFoldSet, Iteration, Iterates
<1> QED BY <1>1, <1>2

\* FoldLeft of the empty sequence.
THEOREM FoldedEmpty == Folded(<< >>) = Base
<1> DEFINE s == << >>
<1>1. DOMAIN s = 1..0 /\ 1..0 = {} /\ 0 \in Nat
  OBVIOUS
<1> HIDE DEF s
<1>2. Iterates(Iteration(s, 0), s, 0) /\ Folded(s) = Iteration(s, 0)[1..0]
  BY <1>1, FoldedIterates
<1>3. Iteration(s, 0)[1..0] = Base
  BY <1>1, <1>2 DEF Iterates
<1> QED BY <1>2, <1>3 DEF s

\* FoldLeft of a sequence with one more element.
THEOREM FoldedAppend ==
  ASSUME NEW S, NEW s \in Seq(S), NEW e \in S
  PROVE  Folded(Append(s, e)) = Op(Folded(s), e)
<1> DEFINE n == Len(s)
           t == Append(s, e)
           g == Iteration(s, n)
           h == Iteration(t, n + 1)
           d == 1..(n + 1)
<1>1. /\ n \in Nat /\ DOMAIN s = 1..n /\ DOMAIN t = 1..(n + 1)
      /\ t[n + 1] = e /\ \A i \in 1..n : s[i] = t[i]
  OBVIOUS
<1> HIDE DEF n, t
<1>2. /\ Iterates(g, s, n) /\ Folded(s) = g[1..n]
      /\ Iterates(h, t, n + 1) /\ Folded(t) = h[1..(n + 1)]
  BY <1>1, FoldedIterates
<1> HIDE DEF g, h
<1>3. g[1..n] = h[1..n]
  BY <1>1, <1>2, IterationAgrees
<1>4. d \subseteq 1..(n + 1) /\ n + 1 \in d /\ d # {} /\ d \ {n + 1} = 1..n
  BY <1>1, Interval
<1>5. Max(d) = n + 1
  BY <1>1, <1>4, LastIsMax
<1> HIDE DEF d
<1>6. h[d] = Op(h[d \ {Max(d)}], t[Max(d)])
  BY <1>2, <1>4 DEF Iterates
<1> QED BY <1>1, <1>2, <1>3, <1>4, <1>5, <1>6 DEF d, t
=============================================================================
