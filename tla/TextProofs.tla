----------------------------- MODULE TextProofs -----------------------------
(***************************************************************************)
(* Proofs about Text, for every set of jobs that Text assumes: cuts at byte *)
(* positions keep characters whole, chunks keep the text, the pieces of a   *)
(* reduction keep its lines, and limited rankings keep the best.            *)
(*                                                                          *)
(* A job returns in one step, but for the reduction, so most of this is     *)
(* about what the definitions compute.  Those that fold or recurse are      *)
(* taken apart by induction over sets of naturals and of sequences, and the *)
(* folds by an instance of LeftFold each.                                   *)
(***************************************************************************)
EXTENDS Text, FiniteSetTheorems, SequenceTheorems, WellFoundedInduction, TLAPS

-----------------------------------------------------------------------------
(* Induction and bounded sets of integers.                                  *)

\* A nonempty set of naturals has a least element.
LEMMA NatHasLeast ==
  ASSUME NEW S \in SUBSET Nat, S # {}
  PROVE  \E x \in S : \A y \in S : x <= y
<1> DEFINE R == OpToRel(<, Nat)
<1>1. IsWellFoundedOn(R, Nat)
  BY NatLessThanWellFounded
<1>2. R = {ss \in Nat \X Nat : ss[1] < ss[2]}
  BY DEF OpToRel
<1> HIDE DEF R
<1>3. PICK x \in S : \A y \in S : <<y, x>> \notin R
  BY <1>1, WFMin
<1>4. \A y \in S : x <= y
  <2> SUFFICES ASSUME NEW y \in S PROVE x <= y
    OBVIOUS
  <2>1. x \in Nat /\ y \in Nat
    OBVIOUS
  <2>2. y < x => <<y, x>> \in R
    BY <1>2, <2>1
  <2> QED BY <1>3, <2>1, <2>2
<1> QED BY <1>4

\* A set of naturals with 0 that is closed under successor is all of them.
LEMMA NatInduct ==
  ASSUME NEW T \in SUBSET Nat, 0 \in T, \A n \in T : n + 1 \in T
  PROVE  T = Nat
<1> SUFFICES ASSUME Nat \ T # {} PROVE FALSE
  OBVIOUS
<1>1. PICK x \in Nat \ T : \A y \in Nat \ T : x <= y
  BY NatHasLeast
<1>2. x # 0 /\ x - 1 \in Nat /\ x - 1 < x
  BY <1>1
<1>3. x - 1 \in T
  BY <1>1, <1>2
<1> QED BY <1>1, <1>2, <1>3

\* A set of sequences with <<>> that is closed under Append is all of them.
LEMMA SeqInduct ==
  ASSUME NEW S, NEW T \in SUBSET Seq(S), <<>> \in T,
         \A s \in T, e \in S : Append(s, e) \in T
  PROVE  T = Seq(S)
<1> DEFINE N == {n \in Nat : \A s \in Seq(S) : Len(s) = n => s \in T}
<1>1. 0 \in N
  <2> SUFFICES ASSUME NEW s \in Seq(S), Len(s) = 0 PROVE s \in T
    OBVIOUS
  <2> QED BY EmptySeq
<1>2. ASSUME NEW n \in N PROVE n + 1 \in N
  <2> SUFFICES ASSUME NEW s \in Seq(S), Len(s) = n + 1 PROVE s \in T
    OBVIOUS
  <2>1. s # <<>>
    BY EmptySeq
  <2>2. PICK r \in Seq(S), e \in S : s = Append(r, e)
    BY <2>1, SequenceEmptyOrAppend
  <2>3. Len(r) \in Nat /\ Len(s) = Len(r) + 1
    BY <2>2, AppendProperties, LenProperties
  <2>4. Len(r) = n
    BY <2>3
  <2> QED BY <2>2, <2>4
<1>3. N = Nat
  <2>1. N \in SUBSET Nat
    OBVIOUS
  <2> HIDE DEF N
  <2> QED BY <1>1, <1>2, <2>1, NatInduct
<1> QED
  <2> SUFFICES ASSUME NEW s \in Seq(S) PROVE s \in T
    OBVIOUS
  <2>1. Len(s) \in N
    BY <1>3, LenProperties
  <2> QED BY <2>1

\* A nonempty set of integers that is bounded below has a least element.
LEMMA LeastIs ==
  ASSUME NEW S \in SUBSET Int, S # {}, NEW n \in Int, \A x \in S : n <= x
  PROVE  Least(S) \in S /\ \A y \in S : Least(S) <= y
<1> DEFINE T == {x - n : x \in S}
<1>1. T \in SUBSET Nat
  <2> SUFFICES ASSUME NEW x \in S PROVE x - n \in Nat
    OBVIOUS
  <2>1. x \in Int /\ n \in Int /\ n <= x
    OBVIOUS
  <2> QED BY <2>1
<1>0. T # {}
  <2>1. PICK x \in S : TRUE
    OBVIOUS
  <2>2. x - n \in T
    OBVIOUS
  <2> QED BY <2>2
<1>2. PICK m \in T : \A y \in T : m <= y
  <2> HIDE DEF T
  <2> QED BY <1>0, <1>1, NatHasLeast
<1>3. PICK x \in S : m = x - n
  OBVIOUS
<1>4. \A y \in S : x <= y
  <2> SUFFICES ASSUME NEW y \in S PROVE x <= y
    OBVIOUS
  <2>1. y - n \in T
    OBVIOUS
  <2>2. x - n <= y - n /\ x \in Int /\ y \in Int
    BY <1>2, <1>3, <2>1
  <2> QED BY <2>2
<1> DEFINE P(z) == \A y \in S : z <= y
<1>5. \E z \in S : P(z)
  BY <1>4
<1> HIDE DEF P
<1>6. (CHOOSE z \in S : P(z)) \in S /\ P(CHOOSE z \in S : P(z))
  BY <1>5, Zenon
<1> QED BY <1>6 DEF P, Least

\* A nonempty set of integers that is bounded above has a greatest element.
LEMMA GreatestIs ==
  ASSUME NEW S \in SUBSET Int, S # {}, NEW n \in Int, \A x \in S : x <= n
  PROVE  Greatest(S) \in S /\ \A y \in S : Greatest(S) >= y
<1> DEFINE T == {n - x : x \in S}
<1>1. T \in SUBSET Nat
  <2> SUFFICES ASSUME NEW x \in S PROVE n - x \in Nat
    OBVIOUS
  <2>1. x \in Int /\ n \in Int /\ x <= n
    OBVIOUS
  <2> QED BY <2>1
<1>0. T # {}
  <2>1. PICK x \in S : TRUE
    OBVIOUS
  <2>2. n - x \in T
    OBVIOUS
  <2> QED BY <2>2
<1>2. PICK m \in T : \A y \in T : m <= y
  <2> HIDE DEF T
  <2> QED BY <1>0, <1>1, NatHasLeast
<1>3. PICK x \in S : m = n - x
  OBVIOUS
<1>4. \A y \in S : x >= y
  <2> SUFFICES ASSUME NEW y \in S PROVE x >= y
    OBVIOUS
  <2>1. n - y \in T
    OBVIOUS
  <2>2. n - x <= n - y /\ x \in Int /\ y \in Int
    BY <1>2, <1>3, <2>1
  <2> QED BY <2>2
<1> DEFINE P(z) == \A y \in S : z >= y
<1>5. \E z \in S : P(z)
  BY <1>4
<1> HIDE DEF P
<1>6. (CHOOSE z \in S : P(z)) \in S /\ P(CHOOSE z \in S : P(z))
  BY <1>5, Zenon
<1> QED BY <1>6 DEF P, Greatest

-----------------------------------------------------------------------------
(* FlattenSeq concatenates.                                                 *)

\* What FlattenSeq computes of the first n sequences.
Flattens(g, seqs, n) ==
  g = [i \in 1..n |-> IF i = 1 THEN seqs[i] ELSE g[i - 1] \o seqs[i]]

LEMMA FlattenExists ==
  ASSUME NEW seqs, NEW n \in Nat
  PROVE  \E g : Flattens(g, seqs, n)
<1> DEFINE T == {m \in Nat : \E g : Flattens(g, seqs, m)}
<1>1. 0 \in T
  <2>1. Flattens([i \in 1..0 |-> 0], seqs, 0)
    BY DEF Flattens
  <2> QED BY <2>1
<1>2. ASSUME NEW m \in T PROVE m + 1 \in T
  <2>1. PICK g : Flattens(g, seqs, m)
    OBVIOUS
  <2> DEFINE Next1(i) == IF i = 1 THEN seqs[i] ELSE g[i - 1] \o seqs[i]
             h == [i \in 1..(m + 1) |-> IF i = m + 1 THEN Next1(i) ELSE g[i]]
  <2>2. \A i \in 1..m : h[i] = g[i] /\ g[i] = Next1(i)
    <3> SUFFICES ASSUME NEW i \in 1..m PROVE h[i] = g[i] /\ g[i] = Next1(i)
      OBVIOUS
    <3>1. i \in 1..(m + 1) /\ i # m + 1
      OBVIOUS
    <3>2. h[i] = g[i]
      BY <3>1
    <3>3. g[i] = Next1(i)
      BY <2>1 DEF Flattens
    <3> QED BY <3>2, <3>3
  <2>3. ASSUME NEW i \in 1..(m + 1)
        PROVE  h[i] = IF i = 1 THEN seqs[i] ELSE h[i - 1] \o seqs[i]
    <3>1. h[i] = Next1(i)
      <4>1. CASE i = m + 1
        BY <4>1
      <4>2. CASE i # m + 1
        <5>1. i \in 1..m
          BY <4>2
        <5> HIDE DEF h, Next1
        <5> QED BY <2>2, <5>1
      <4> QED BY <4>1, <4>2
    <3>2. i = 1 \/ i - 1 \in 1..m
      OBVIOUS
    <3>3. i = 1 \/ h[i - 1] = g[i - 1]
      <4> HIDE DEF h, Next1
      <4> QED BY <2>2, <3>2
    <3> HIDE DEF h
    <3> QED BY <3>1, <3>3
  <2>4. h = [i \in 1..(m + 1) |-> h[i]]
    OBVIOUS
  <2> HIDE DEF h
  <2>5. Flattens(h, seqs, m + 1)
    BY <2>3, <2>4 DEF Flattens
  <2> QED BY <2>5
<1> HIDE DEF T
<1>3. T = Nat
  <2>1. T \in SUBSET Nat
    BY DEF T
  <2> QED BY <1>1, <1>2, <2>1, NatInduct
<1> QED BY <1>3 DEF T

Alike(f, g, n) == \A i \in 1..n : f[i] = g[i]

\* Lists that agree on their first n sequences are flattened alike up to there.
LEMMA FlattenAgrees ==
  ASSUME NEW n \in Nat, NEW s, NEW t, NEW g, NEW h,
         Flattens(g, s, n), Flattens(h, t, n + 1), Alike(s, t, n)
  PROVE  Alike(g, h, n)
<1> DEFINE T == {j \in Nat : \A i \in 1..n : i <= j => g[i] = h[i]}
<1>1. 0 \in T
  OBVIOUS
<1>2. ASSUME NEW j \in T PROVE j + 1 \in T
  <2> SUFFICES ASSUME NEW i \in 1..n, i <= j + 1 PROVE g[i] = h[i]
    OBVIOUS
  <2>1. i \in 1..(n + 1) /\ s[i] = t[i]
    BY DEF Alike
  <2>2. /\ g[i] = IF i = 1 THEN s[i] ELSE g[i - 1] \o s[i]
        /\ h[i] = IF i = 1 THEN t[i] ELSE h[i - 1] \o t[i]
    BY <2>1 DEF Flattens
  <2>3. i = 1 \/ (i - 1 \in 1..n /\ i - 1 <= j)
    OBVIOUS
  <2>4. i = 1 \/ g[i - 1] = h[i - 1]
    BY <2>3
  <2> QED BY <2>1, <2>2, <2>4
<1> HIDE DEF T
<1>3. T = Nat
  <2>1. T \in SUBSET Nat
    BY DEF T
  <2> QED BY <1>1, <1>2, <2>1, NatInduct
<1> QED
  <2>1. n \in T
    BY <1>3
  <2> QED BY <2>1 DEF T, Alike

Flattening(s) == CHOOSE g : Flattens(g, s, Len(s))

LEMMA FlattenedIs ==
  ASSUME NEW s, Len(s) \in Nat
  PROVE  /\ Flattens(Flattening(s), s, Len(s))
         /\ FlattenSeq(s) = IF Len(s) = 0 THEN s ELSE Flattening(s)[Len(s)]
<1>1. Flattens(Flattening(s), s, Len(s))
  BY FlattenExists DEF Flattening
<1>2. FlattenSeq(s) = IF Len(s) = 0 THEN s ELSE Flattening(s)[Len(s)]
  BY Zenon DEF FlattenSeq, Flattening, Flattens
<1> QED BY <1>1, <1>2

LEMMA FlattenEmpty == FlattenSeq(<<>>) = <<>>
BY EmptySeq DEF FlattenSeq

LEMMA FlattenTyped ==
  ASSUME NEW S
  PROVE  \A s \in Seq(Seq(S)) :
           /\ FlattenSeq(s) \in Seq(S)
           /\ \A e \in Seq(S) : FlattenSeq(Append(s, e)) = FlattenSeq(s) \o e
<1> DEFINE T == {s \in Seq(Seq(S)) : FlattenSeq(s) \in Seq(S)}
<1>1. ASSUME NEW s \in T, NEW e \in Seq(S)
      PROVE  FlattenSeq(Append(s, e)) = FlattenSeq(s) \o e
  <2> DEFINE n == Len(s)
             t == Append(s, e)
             g == Flattening(s)
             h == Flattening(t)
  <2>1. /\ n \in Nat /\ Len(t) = n + 1 /\ t[n + 1] = e
        /\ \A i \in 1..n : s[i] = t[i]
    BY AppendProperties, LenProperties
  <2>2. FlattenSeq(s) \in Seq(S) /\ e \in Seq(S)
    OBVIOUS
  <2> HIDE DEF n, t, T
  <2>3. /\ Flattens(g, s, n) /\ FlattenSeq(s) = IF n = 0 THEN s ELSE g[n]
        /\ Flattens(h, t, n + 1) /\ FlattenSeq(t) = h[n + 1]
    <3>1. Len(s) \in Nat /\ Len(t) \in Nat /\ Len(t) # 0
      BY <2>1 DEF n
    <3> QED BY <2>1, <3>1, FlattenedIs DEF n
  <2> HIDE DEF g, h
  <2>4. h[n + 1] = IF n + 1 = 1 THEN t[n + 1] ELSE h[n] \o t[n + 1]
    <3>1. n + 1 \in 1..(n + 1) /\ (n + 1) - 1 = n
      BY <2>1
    <3>2. h[n + 1] = IF n + 1 = 1 THEN t[n + 1] ELSE h[(n + 1) - 1] \o t[n + 1]
      BY <2>3, <3>1 DEF Flattens
    <3> QED BY <3>1, <3>2
  <2>5. Alike(g, h, n)
    <3>1. n \in Nat /\ Alike(s, t, n)
      BY <2>1 DEF Alike
    <3>2. Flattens(g, s, n) /\ Flattens(h, t, n + 1)
      BY <2>3
    <3> QED BY <3>1, <3>2, FlattenAgrees, Zenon
  <2>6. CASE n = 0
    <3>1. FlattenSeq(t) = e
      BY <2>1, <2>3, <2>4, <2>6
    <3>2. FlattenSeq(s) = <<>>
      BY <2>3, <2>6, EmptySeq DEF n, T
    <3> QED BY <2>2, <3>1, <3>2, ConcatEmptySeq DEF t
  <2>7. CASE n # 0
    <3>1. n \in 1..n /\ n + 1 # 1
      BY <2>1, <2>7
    <3>2. g[n] = h[n]
      BY <2>5, <3>1 DEF Alike
    <3> QED BY <2>1, <2>3, <2>4, <2>7, <3>1, <3>2 DEF t
  <2> QED BY <2>6, <2>7
<1>2. <<>> \in T
  BY FlattenEmpty, EmptySeq
<1>3. ASSUME NEW s \in T, NEW e \in Seq(S) PROVE Append(s, e) \in T
  <2>1. FlattenSeq(s) \in Seq(S) /\ FlattenSeq(Append(s, e)) = FlattenSeq(s) \o e
    BY <1>1
  <2>2. Append(s, e) \in Seq(Seq(S))
    BY AppendProperties
  <2> QED BY <2>1, <2>2, ConcatProperties
<1>4. T = Seq(Seq(S))
  <2>1. T \in SUBSET Seq(Seq(S))
    OBVIOUS
  <2> HIDE DEF T
  <2> QED BY <1>2, <1>3, <2>1, SeqInduct
<1> QED BY <1>1, <1>4

-----------------------------------------------------------------------------
(* The pieces of a reduction.                                               *)

AsciiChars == Chars \union {"?"}

LEMMA JobsAreTyped ==
  ASSUME job \in Jobs
  PROVE  /\ job.op \in {"slice", "lines", "truncate", "chunks", "reduce"} =>
              job.text \in Seq(Chars)
         /\ job.op \in {"slice", "lines"} => job.start \in Int /\ job.end \in Int
         /\ job.op = "reduce" => job.size \in Nat /\ job.fuel \in Nat
         /\ job.op \in {"truncate", "index", "mapreduce"} => job.limit \in Nat
         /\ job.op \in {"chunks", "select"} => job.target \in Nat
         /\ job.op \in {"find", "index", "select"} => job.weight \in Seq(Nat)
         /\ job.op = "index" => job.least \in Nat
         /\ job.op = "mapreduce" => DOMAIN job.pairs = 1..Len(job.pairs)
                                    /\ Len(job.pairs) \in Nat
         /\ job.op = "select" => job.length \in Seq(Nat)
                                 /\ DOMAIN job.length = DOMAIN job.weight
BY JobsAssumption DEF JobsAssumption

LEMMA SourceTyped ==
  ASSUME job \in Jobs, job.op = "reduce"
  PROVE  Source \in Seq(AsciiChars) /\ Len(Source) \in Nat
<1> DEFINE text == job.text
           seqs == [i \in DOMAIN text |-> Ascii(text[i])]
<1>1. text \in Seq(Chars)
  BY JobsAreTyped
<1>2. \A c \in Chars : Ascii(c) \in Seq(AsciiChars)
  <2>1. \A A : \A a \in A : <<a>> \in Seq(A) /\ <<a, a>> \in Seq(A)
    OBVIOUS
  <2>2. \A c \in Chars : c \in AsciiChars /\ "?" \in AsciiChars
    BY DEF AsciiChars
  <2> QED BY <2>1, <2>2, Zenon DEF Ascii
<1> HIDE DEF text
<1>3. Len(text) \in Nat /\ DOMAIN text = 1..Len(text) /\ \A i \in DOMAIN text : text[i] \in Chars
  BY <1>1, LenProperties, ElementOfSeq
<1>4. seqs \in [1..Len(text) -> Seq(AsciiChars)]
  BY <1>2, <1>3
<1> HIDE DEF seqs
<1>5. seqs \in Seq(Seq(AsciiChars))
  BY <1>3, <1>4, SeqDef
<1>6. FlattenSeq(seqs) \in Seq(AsciiChars)
  BY <1>5, FlattenTyped
<1> QED BY <1>6, LenProperties DEF Source, ToAscii, seqs, text

\* Where a piece ends.
LEMMA PieceEndIs ==
  ASSUME job \in Jobs, job.op = "reduce", NEW from \in 0..Len(Source)
  PROVE  /\ PieceEnd(from) \in from..Len(Source)
         /\ PieceEnd(from) # Len(Source) /\ Source[PieceEnd(from)] # "n" =>
              /\ PieceEnd(from) = from + job.size
              /\ \A i \in from + 1..PieceEnd(from) : Source[i] # "n"
<1> DEFINE n == Len(Source)
           end == Smaller(from + job.size, n)
           newlines == {i \in from + 1..end : Source[i] = "n"}
<1>1. n \in Nat /\ job.size \in Nat /\ from \in Nat
  BY SourceTyped, JobsAreTyped
<1>2. end \in from..n /\ (end # n => end = from + job.size)
  BY <1>1 DEF Smaller
<1>3. PieceEnd(from) = IF end < n /\ newlines # {} THEN Greatest(newlines) ELSE end
  BY DEF PieceEnd
<1> HIDE DEF n, end
<1>4. CASE end < n /\ newlines # {}
  <2>1. newlines \in SUBSET Int /\ \A i \in newlines : i <= end
    BY <1>1, <1>2
  <2> HIDE DEF newlines
  <2>2. Greatest(newlines) \in newlines
    <3>1. end \in Int /\ newlines # {}
      BY <1>1, <1>2, <1>4
    <3> QED BY <2>1, <3>1, GreatestIs, Zenon
  <2>3. PieceEnd(from) \in from + 1..end /\ Source[PieceEnd(from)] = "n"
    BY <1>3, <1>4, <2>2 DEF newlines
  <2> QED BY <1>1, <1>2, <2>3 DEF n
<1>5. CASE ~(end < n /\ newlines # {})
  <2>1. PieceEnd(from) = end
    BY <1>3, <1>5
  <2>2. end # n => newlines = {}
    BY <1>1, <1>2, <1>5
  <2> QED BY <1>1, <1>2, <2>1, <2>2 DEF n
<1> QED BY <1>4, <1>5

\* PiecesKeepLines is inductive once the loop is known to stay in the source.
PiecesInv ==
  /\ job \in Jobs
  /\ job.op = "reduce" => start \in 0..Len(Source)
  /\ PiecesKeepLines

LEMMA SourceStays == ASSUME job' = job PROVE Source' = Source
BY DEF Source, ToAscii

LEMMA PiecesStay ==
  ASSUME PiecesInv, UNCHANGED <<job, start, out>>,
         job.op = "reduce" /\ pc' = "done" => pc = "done"
  PROVE  PiecesInv'
BY SourceStays DEF PiecesInv, PiecesKeepLines

LEMMA ProcessChunkKeepsLines == ASSUME PiecesInv, ProcessChunk PROVE PiecesInv'
<1>1. /\ job \in Jobs /\ job.op = "reduce" /\ start \in 0..Len(Source)
      /\ out = SubSeq(Source, 1, start) /\ start < Len(Source) /\ pc = "run"
  BY DEF PiecesInv, PiecesKeepLines, ProcessChunk, Running
<1>2. CASE Fails("fuel")
  BY <1>2, PiecesStay DEF Fails
<1>3. CASE /\ start' = PieceEnd(start)
           /\ out' = out \o SubSeq(Source, start + 1, PieceEnd(start))
           /\ UNCHANGED <<job, pc>>
  <2> DEFINE end == PieceEnd(start)
  <2>1. /\ end \in start..Len(Source)
        /\ end # Len(Source) /\ Source[end] # "n" =>
             end = start + job.size /\ \A i \in start + 1..end : Source[i] # "n"
    BY <1>1, PieceEndIs
  <2> HIDE DEF end
  <2>2. Source \in Seq(AsciiChars) /\ Len(Source) \in Nat /\ job.size \in Nat
    BY <1>1, SourceTyped, JobsAreTyped
  <2>3. SubSeq(Source, 1, start) \o SubSeq(Source, start + 1, end) = SubSeq(Source, 1, end)
    <3>1. /\ 1 \in 1..Len(Source) + 1 /\ start \in 1 - 1..Len(Source)
          /\ end \in start..Len(Source)
      BY <1>1, <2>1, <2>2
    <3> QED BY <2>2, <3>1, ConcatAdjacentSubSeq
  <2>4. job' = job /\ Source' = Source /\ pc' = "run" /\ start' = end
        /\ out' = SubSeq(Source, 1, end)
    BY <1>1, <1>3, <2>3, SourceStays DEF end
  <2>5. ASSUME end \in 1..Len(Source) - 1, Source[end] # "n"
        PROVE  end >= job.size /\ \A i \in end - job.size + 1..end : Source[i] # "n"
    <3>1. end = start + job.size /\ \A i \in start + 1..end : Source[i] # "n"
      BY <2>1, <2>2, <2>5
    <3>2. end >= job.size /\ end - job.size + 1 = start + 1
      BY <1>1, <2>2, <3>1
    <3> QED BY <3>1, <3>2
  <2>6. end \in 0..Len(Source)
    BY <1>1, <2>1, <2>2
  <2> QED BY <1>1, <2>4, <2>5, <2>6 DEF PiecesInv, PiecesKeepLines
<1> QED BY <1>2, <1>3 DEF ProcessChunk

LEMMA FinalizeKeepsLines == ASSUME PiecesInv, Finalize PROVE PiecesInv'
<1>1. job \in Jobs /\ job.op = "reduce" /\ start \in 0..Len(Source) /\ start >= Len(Source)
  BY DEF PiecesInv, Finalize, Running
<1>2. start = Len(Source)
  BY <1>1, SourceTyped
<1>3. UNCHANGED <<job, start, out>> /\ Source' = Source
  BY SourceStays DEF Finalize
<1> QED BY <1>1, <1>2, <1>3 DEF PiecesInv, PiecesKeepLines

\* A step of a job that is not a reduction.
LEMMA OthersKeepPieces ==
  ASSUME PiecesInv, job.op # "reduce", job' = job
  PROVE  PiecesInv'
BY DEF PiecesInv, PiecesKeepLines

\* A job that returns at once is of the kind its action handles.
LEMMA ActionsOfJobs ==
  /\ Slice => job.op = "slice" /\ job' = job
  /\ SliceLines => job.op = "lines" /\ job' = job
  /\ TruncateOutput => job.op = "truncate" /\ job' = job
  /\ SplitIntoChunks => job.op = "chunks" /\ job' = job
  /\ Find => job.op = "find" /\ job' = job
  /\ IndexTerms => job.op = "index" /\ job' = job
  /\ MapReduce => job.op = "mapreduce" /\ job' = job
  /\ MapOutOfFuel => job.op = "mapreduce" /\ job' = job
  /\ SecondaryReduction => job.op = "select" /\ job' = job
BY DEF Slice, SliceLines, TruncateOutput, SplitIntoChunks, Find, IndexTerms, MapReduce,
       MapOutOfFuel, SecondaryReduction, Running, Return, Fails

\* The pieces of a reduction are its source, in order, whole lines where a line
\* fits a piece (rust_wasm_reduce_intent).
THEOREM ReductionKeepsLines == Spec => []PiecesKeepLines
<1>1. Init => PiecesInv
  <2> SUFFICES ASSUME Init PROVE PiecesInv
    OBVIOUS
  <2>1. job \in Jobs /\ pc = "run" /\ start = 0 /\ out = <<>>
    BY DEF Init
  <2>2. job.op = "reduce" => Len(Source) \in Nat
    BY <2>1, SourceTyped
  <2>3. SubSeq(Source, 1, 0) = <<>>
    BY SubSeqEmpty
  <2> QED BY <2>1, <2>2, <2>3 DEF PiecesInv, PiecesKeepLines
<1>2. PiecesInv /\ [Next]_vars => PiecesInv'
  <2> SUFFICES ASSUME PiecesInv, [Next]_vars PROVE PiecesInv'
    OBVIOUS
  <2>1. CASE ProcessChunk
    BY <2>1, ProcessChunkKeepsLines
  <2>2. CASE Finalize
    BY <2>2, FinalizeKeepsLines
  <2>3. CASE ModuleFails
    BY <2>3, PiecesStay DEF ModuleFails, Fails
  <2>4. CASE UNCHANGED vars
    BY <2>4, PiecesStay DEF vars
  <2>5. CASE \/ Slice \/ SliceLines \/ TruncateOutput \/ SplitIntoChunks
             \/ Find \/ IndexTerms \/ MapReduce \/ MapOutOfFuel \/ SecondaryReduction
    <3>1. job.op # "reduce" /\ job' = job
      BY <2>5, ActionsOfJobs
    <3> QED BY <3>1, OthersKeepPieces
  <2> QED BY <2>1, <2>2, <2>3, <2>4, <2>5 DEF Next, Proceed, Ended
<1>3. PiecesInv => PiecesKeepLines
  BY DEF PiecesInv
<1> QED BY <1>1, <1>2, <1>3, PTL DEF Spec

-----------------------------------------------------------------------------
(* Cuts at byte positions.                                                  *)

\* The only action of a kind of job that returns at once.
LEMMA StepsOfJobs ==
  ASSUME [Next]_vars
  PROVE  /\ job' = job
         /\ job.op = "slice" => Slice \/ UNCHANGED vars
         /\ job.op = "truncate" => TruncateOutput \/ UNCHANGED vars
         /\ job.op = "chunks" => SplitIntoChunks \/ UNCHANGED vars
         /\ job.op = "index" => IndexTerms \/ UNCHANGED vars
         /\ job.op = "select" => SecondaryReduction \/ UNCHANGED vars
         /\ job.op = "mapreduce" => \/ MapReduce \/ UNCHANGED vars
                                    \/ pc' \in {"error", "fuel"}
<1>1. CASE UNCHANGED vars
  BY <1>1 DEF vars
<1>2. CASE ModuleFails
  BY <1>2 DEF ModuleFails, Running, Fails
<1>3. CASE MapOutOfFuel
  BY <1>3 DEF MapOutOfFuel, Running, Fails
<1>4. CASE ProcessChunk \/ Finalize
  BY <1>4 DEF ProcessChunk, Finalize, Running, Fails
<1>5. CASE \/ Slice \/ SliceLines \/ TruncateOutput \/ SplitIntoChunks
           \/ Find \/ IndexTerms \/ MapReduce \/ SecondaryReduction
  BY <1>5, ActionsOfJobs
<1> QED BY <1>1, <1>2, <1>3, <1>4, <1>5 DEF Next, Proceed, Ended

\* Every character takes a byte or more.
LEMMA OffsetRises ==
  ASSUME NEW text \in Seq(Chars)
  PROVE  /\ \A i \in 0..Len(text) : Offset(text)[i] \in Nat
         /\ \A i, j \in 0..Len(text) : i < j => Offset(text)[i] < Offset(text)[j]
         /\ Offset(text)[0] = 0
         /\ Bytes(text) = Offset(text)[Len(text)]
         /\ Len(text) \in Nat /\ DOMAIN text = 1..Len(text)
<1> DEFINE n == Len(text)
           E(i) == {k \in 1..i : text[k] = "e"}
           card(i) == Cardinality(E(i))
<1>1. n \in Nat /\ DOMAIN text = 1..n
  BY LenProperties
<1>2. \A i \in 0..n : Offset(text)[i] = i + card(i)
  BY DEF Offset
<1>3. ASSUME NEW i \in 0..n PROVE IsFiniteSet(E(i)) /\ card(i) \in Nat
  <2>1. IsFiniteSet(1..i)
    BY <1>1, FS_Interval
  <2>2. E(i) \in SUBSET (1..i)
    OBVIOUS
  <2> HIDE DEF E
  <2> QED BY <2>1, <2>2, FS_Subset, FS_CardinalityType
<1>4. ASSUME NEW i \in 0..n, NEW j \in 0..n, i < j PROVE card(i) <= card(j)
  <2>1. E(i) \in SUBSET E(j)
    BY <1>1, <1>4
  <2>2. IsFiniteSet(E(j))
    BY <1>3
  <2> HIDE DEF E
  <2> QED BY <2>1, <2>2, FS_Subset
<1>5. card(0) = 0
  <2>1. E(0) = {}
    OBVIOUS
  <2> QED BY <2>1, FS_EmptySet
<1> HIDE DEF n, E, card
<1>6. ASSUME NEW i \in 0..n, NEW j \in 0..n, i < j
      PROVE  i + card(i) < j + card(j)
  <2>1. card(i) \in Nat /\ card(j) \in Nat /\ card(i) <= card(j)
    BY <1>3, <1>4, <1>6, Zenon
  <2>2. i \in Nat /\ j \in Nat
    BY <1>1
  <2> QED BY <1>6, <2>1, <2>2
<1>7. ASSUME NEW i \in 0..n PROVE i + card(i) \in Nat
  <2>1. card(i) \in Nat
    BY <1>3, Zenon
  <2> QED BY <1>1, <2>1
<1>8. 0 \in 0..n /\ 0 + card(0) = 0
  BY <1>1, <1>5
<1>9. /\ \A i \in 0..n : Offset(text)[i] \in Nat
      /\ Offset(text)[0] = 0
      /\ \A i, j \in 0..n : i < j => Offset(text)[i] < Offset(text)[j]
  BY <1>2, <1>6, <1>7, <1>8
<1> QED BY <1>1, <1>9 DEF Bytes, n

LEMMA RangeInOrder ==
  ASSUME NEW j, j.start \in Int, j.end \in Int, NEW length \in Nat
  PROVE  /\ Range2(j, length)[1] \in 0..length /\ Range2(j, length)[2] \in 0..length
         /\ Range2(j, length)[1] <= Range2(j, length)[2]
<1>1. \A index \in Int : ResolveIndex(index, length) \in 0..length
  BY DEF ResolveIndex, Smaller, Larger
<1> DEFINE s == ResolveIndex(j.start, length)
           e == ResolveIndex(j.end, length)
<1>2. s \in 0..length /\ e \in 0..length
  BY <1>1
<1>3. Range2(j, length) = <<Smaller(s, e), Larger(s, e)>>
  BY DEF Range2
<1> HIDE DEF s, e
<1>4. /\ Range2(j, length)[1] = Smaller(s, e)
      /\ Range2(j, length)[2] = Larger(s, e)
  BY <1>3
<1> QED BY <1>2, <1>4 DEF Smaller, Larger

Below(text, lo) == Greatest({b \in Boundaries(text) : b <= lo})
Above(text, hi) == Least({b \in Boundaries(text) : b >= hi})

\* Offsets of the text that enclose lo..hi, and none do so more closely.
Encloses(text, lo, hi, below, above) ==
  /\ \E p \in 0..Len(text) : below = Offset(text)[p]
  /\ below <= lo
  /\ \A i \in 0..Len(text) : Offset(text)[i] <= lo => Offset(text)[i] <= below
  /\ \E q \in 0..Len(text) : above = Offset(text)[q]
  /\ hi <= above
  /\ \A i \in 0..Len(text) : hi <= Offset(text)[i] => above <= Offset(text)[i]

\* The two boundaries around a range of bytes.
LEMMA BoundariesAround ==
  ASSUME NEW text \in Seq(Chars), NEW lo \in 0..Bytes(text), NEW hi \in 0..Bytes(text)
  PROVE  Encloses(text, lo, hi, Below(text, lo), Above(text, hi))
<1> DEFINE at == Offset(text)
           n == Len(text)
           B == {b \in Boundaries(text) : b <= lo}
           A == {b \in Boundaries(text) : b >= hi}
           below == Below(text, lo)
           above == Above(text, hi)
<1>1. /\ n \in Nat /\ \A i \in 0..n : at[i] \in Nat
      /\ at[0] = 0 /\ Bytes(text) = at[n]
  BY OffsetRises
<1>2. lo \in Nat /\ hi \in Nat /\ hi <= at[n]
  BY <1>1
<1>3. Boundaries(text) = {at[i] : i \in 0..n}
  BY DEF Boundaries
<1> HIDE DEF at, n
<1>4. B \in SUBSET Int /\ A \in SUBSET Int
  BY <1>1, <1>3
<1>5. B # {} /\ A # {}
  <2>1. 0 \in 0..n /\ n \in 0..n
    BY <1>1
  <2>2. at[0] \in B /\ at[n] \in A
    BY <1>1, <1>2, <1>3, <2>1
  <2> QED BY <2>2
<1>6. (\A b \in B : b <= lo) /\ (\A b \in A : hi <= b)
  BY <1>1, <1>2, <1>3
<1>7. below \in B /\ \A b \in B : below >= b
  <2> HIDE DEF A
  <2>1. below = Greatest(B) /\ lo \in Int
    BY <1>2 DEF Below
  <2> HIDE DEF below
  <2> HIDE DEF B
  <2> QED BY <1>4, <1>5, <1>6, <2>1, GreatestIs, Zenon
<1>8. above \in A /\ \A b \in A : above <= b
  <2> HIDE DEF B
  <2>1. above = Least(A) /\ hi \in Int
    BY <1>2 DEF Above
  <2> HIDE DEF above
  <2> HIDE DEF A
  <2>2. Least(A) \in A /\ \A b \in A : Least(A) <= b
    BY <1>4, <1>5, <1>6, <2>1, LeastIs
  <2> QED BY <2>1, <2>2
<1> HIDE DEF below, above
<1>9. /\ \E p \in 0..n : below = at[p]
      /\ below <= lo
      /\ \A i \in 0..n : at[i] <= lo => at[i] <= below
  <2>1. \A i \in 0..n : at[i] <= lo => at[i] \in B
    BY <1>3
  <2>2. \A i \in 0..n : at[i] \in B => at[i] <= below
    BY <1>1, <1>3, <1>7
  <2> QED BY <1>3, <1>6, <1>7, <2>1, <2>2
<1>10. /\ \E q \in 0..n : above = at[q]
       /\ hi <= above
       /\ \A i \in 0..n : hi <= at[i] => above <= at[i]
  <2>1. \A i \in 0..n : hi <= at[i] => at[i] \in A
    BY <1>1, <1>2, <1>3
  <2> QED BY <1>3, <1>6, <1>8, <2>1
<1> QED BY <1>9, <1>10 DEF Encloses, at, n, below, above

\* The characters between the two boundaries are those that were asked for.
LEMMA CoveredIsAsked ==
  ASSUME NEW text \in Seq(Chars), NEW lo \in 0..Bytes(text), NEW hi \in 0..Bytes(text),
         lo <= hi, NEW i \in 1..Len(text)
  PROVE  Below(text, lo) <= Offset(text)[i - 1] /\ Offset(text)[i] <= Above(text, hi)
         <=> i \in Asked(text, lo, hi)
<1> DEFINE at == Offset(text)
           n == Len(text)
           below == Below(text, lo)
           above == Above(text, hi)
<1>1. /\ n \in Nat /\ \A k \in 0..n : at[k] \in Nat
      /\ \A k, j \in 0..n : k < j => at[k] < at[j]
      /\ Bytes(text) = at[n]
  BY OffsetRises
<1>2. /\ \E p \in 0..n : below = at[p]
      /\ below <= lo
      /\ \A k \in 0..n : at[k] <= lo => at[k] <= below
      /\ \E q \in 0..n : above = at[q]
      /\ hi <= above
      /\ \A k \in 0..n : hi <= at[k] => above <= at[k]
  BY BoundariesAround DEF Encloses
<1>3. n \in 0..n /\ i \in 0..n /\ i - 1 \in 0..n /\ i - 1 < i
  BY <1>1
<1>4. lo \in Nat /\ hi \in Nat
  BY <1>1, <1>3
<1> HIDE DEF at, n, below, above
<1>5. PICK p \in 0..n, q \in 0..n : below = at[p] /\ above = at[q]
  BY <1>2
<1>6. /\ at[i - 1] \in Nat /\ at[i] \in Nat /\ at[i - 1] < at[i]
      /\ below \in Nat /\ above \in Nat
  BY <1>1, <1>3, <1>5
<1>7. ASSUME below <= at[i - 1], at[i] <= above PROVE at[i - 1] < hi /\ lo < at[i]
  <2>1. ~(at[i] <= lo)
    <3>1. at[i] <= lo => at[i] <= below
      BY <1>2, <1>3
    <3> QED BY <1>6, <1>7, <3>1
  <2>2. ~(hi <= at[i - 1])
    <3>1. hi <= at[i - 1] => above <= at[i - 1]
      BY <1>2, <1>3
    <3> QED BY <1>6, <1>7, <3>1
  <2> QED BY <1>4, <1>6, <2>1, <2>2
<1>8. ASSUME at[i - 1] < hi, lo < at[i] PROVE below <= at[i - 1] /\ at[i] <= above
  <2>1. at[p] < at[i] /\ at[i - 1] < at[q]
    BY <1>2, <1>4, <1>5, <1>6, <1>8, SMTT(30)
  <2>2. ~(i < p) /\ i # p
    <3>1. i < p => at[i] < at[p]
      BY <1>1, <1>3
    <3>2. at[p] \in Nat
      BY <1>1
    <3> QED BY <1>6, <2>1, <3>1, <3>2
  <2>6. ~(q < i - 1) /\ q # i - 1
    <3>1. q < i - 1 => at[q] < at[i - 1]
      BY <1>1, <1>3
    <3>2. at[q] \in Nat
      BY <1>1
    <3> QED BY <1>6, <2>1, <3>1, <3>2
  <2>3. (p = i - 1 \/ p < i - 1) /\ (q = i \/ i < q)
    BY <1>1, <1>3, <2>2, <2>6
  <2>4. at[p] <= at[i - 1]
    BY <1>1, <1>3, <1>6, <2>3
  <2>5. at[i] <= at[q]
    BY <1>1, <1>3, <1>6, <2>3
  <2> QED BY <1>5, <2>4, <2>5
<1>9. i \in Asked(text, lo, hi) <=> at[i - 1] < hi /\ lo < at[i]
  <2>1. i \in DOMAIN text
    BY <1>1 DEF n
  <2> QED BY <2>1 DEF Asked, at
<1> QED BY <1>7, <1>8, <1>9 DEF at, below, above

LEMMA SliceIsWhole ==
  ASSUME job \in Jobs, Slice
  PROVE  CutsWholeCharacters'
<1> DEFINE text == job.text
           r == Range2(job, Bytes(job.text))
           lo == r[1]
           hi == r[2]
           below == Below(text, lo)
           above == Above(text, hi)
           inside == {i \in DOMAIN text : below <= Offset(text)[i - 1]
                                          /\ Offset(text)[i] <= above}
<1>1. /\ job.op = "slice" /\ job' = job /\ pc' = "done"
      /\ out' = Between(text, below, above)
  BY DEF Slice, Running, Return, Below, Above
<1>2. text \in Seq(Chars) /\ job.start \in Int /\ job.end \in Int
  BY <1>1, JobsAreTyped
<1>3. Bytes(text) \in Nat
  <2>1. Len(text) \in 0..Len(text)
    BY <1>2, LenProperties
  <2> QED BY <1>2, <2>1, OffsetRises
<1>4. lo \in 0..Bytes(text) /\ hi \in 0..Bytes(text) /\ lo <= hi
  BY <1>2, <1>3, RangeInOrder
<1>5. inside = Asked(text, lo, hi)
  <2>1. DOMAIN text = 1..Len(text)
    BY <1>2, LenProperties
  <2>2. \A i \in 1..Len(text) : below <= Offset(text)[i - 1] /\ Offset(text)[i] <= above
                                <=> i \in Asked(text, lo, hi)
    <3> HIDE DEF text, lo, hi
    <3> QED BY <1>2, <1>4, CoveredIsAsked
  <2>3. Asked(text, lo, hi) \subseteq DOMAIN text
    BY DEF Asked
  <2> HIDE DEF text, lo, hi, below, above
  <2> QED BY <2>1, <2>2, <2>3
<1>6. out' = IF inside = {} THEN <<>> ELSE SubSeq(text, Least(inside), Greatest(inside))
  BY <1>1, Zenon DEF Between
<1> HIDE DEF inside
<1>7. WholeSlice(job, out')
  BY <1>5, <1>6, Zenon DEF WholeSlice
<1>8. WholeSlice(job', out')
  BY <1>1, <1>7
<1> QED BY <1>1, <1>8 DEF CutsWholeCharacters, Done

LEMMA TruncatesApart ==
  ASSUME job \in Jobs, TruncateOutput
  PROVE  CutsWholeCharacters'
<1> DEFINE text == job.text
           n == Len(text)
           at == Offset(text)
           bytes == Bytes(text)
           limit == job.limit
           half == limit \div 2
           heads == {i \in DOMAIN text : at[i - 1] < half}
           tails == {i \in DOMAIN text : at[i - 1] >= bytes - half}
<1>1. /\ job.op = "truncate" /\ job' = job /\ pc' = "done"
      /\ out' = IF bytes <= limit THEN <<DOMAIN text, {}>> ELSE <<heads, tails>>
  BY DEF TruncateOutput, Running, Return
<1>2. text \in Seq(Chars) /\ limit \in Nat
  BY <1>1, JobsAreTyped
<1>3. /\ n \in Nat /\ DOMAIN text = 1..n /\ \A i \in 0..n : at[i] \in Nat
      /\ \A i, j \in 0..n : i < j => at[i] < at[j]
      /\ bytes = at[n]
  BY <1>2, OffsetRises
<1>4. half \in Nat /\ half + half <= limit
  BY <1>2
<1> HIDE DEF text, n, at, bytes, limit, half
<1>5. bytes \in Nat
  BY <1>3
<1>6. CASE bytes <= limit
  <2>1. out'[1] = DOMAIN text /\ out'[2] = {}
    BY <1>1, <1>6
  <2>2. HalvesApart(job, out')
    BY <2>1 DEF HalvesApart, text
  <2> QED BY <1>1, <2>2 DEF CutsWholeCharacters, Done
<1>7. CASE ~(bytes <= limit)
  <2>1. out'[1] = heads /\ out'[2] = tails
    BY <1>1, <1>7
  <2>2. half < bytes - half
    BY <1>2, <1>4, <1>5, <1>7
  <2>3. ASSUME NEW i \in heads, NEW j \in tails PROVE i < j
    <3>1. i \in 1..n /\ j \in 1..n /\ i - 1 \in 0..n /\ j - 1 \in 0..n
      BY <1>3
    <3>2. at[i - 1] < at[j - 1] /\ at[i - 1] \in Nat /\ at[j - 1] \in Nat
      BY <1>3, <1>4, <1>5, <2>2, <3>1
    <3>3. ~(j - 1 < i - 1) /\ j - 1 # i - 1
      BY <1>3, <3>1, <3>2
    <3> QED BY <3>1, <3>3
  <2> HIDE DEF heads, tails
  <2>4. heads \subseteq 1..n
    BY <1>3 DEF heads
  <2>5. heads \intersect tails = {}
    <3>1. \A i \in 1..n : ~(i < i)
      BY <1>3
    <3> QED BY <2>3, <2>4, <3>1, Zenon
  <2>6. HalvesApart(job, out')
    BY <1>7, <2>1, <2>3, <2>5 DEF HalvesApart, text, bytes, limit
  <2> QED BY <1>1, <2>6 DEF CutsWholeCharacters, Done
<1> QED BY <1>6, <1>7

CutsInv == job \in Jobs /\ CutsWholeCharacters

\* Byte positions cut texts at whole characters (slice, truncate_output).
THEOREM CutsAreWhole == Spec => []CutsWholeCharacters
<1>1. Init => CutsInv
  BY DEF Init, CutsInv, CutsWholeCharacters, Done
<1>2. CutsInv /\ [Next]_vars => CutsInv'
  <2> SUFFICES ASSUME CutsInv, [Next]_vars PROVE CutsInv'
    OBVIOUS
  <2>1. job' = job /\ job \in Jobs
    BY StepsOfJobs DEF CutsInv
  <2>2. CASE UNCHANGED vars
    BY <2>2 DEF vars, CutsInv, CutsWholeCharacters, Done
  <2>3. CASE Slice
    BY <2>1, <2>3, SliceIsWhole DEF CutsInv
  <2>4. CASE TruncateOutput
    BY <2>1, <2>4, TruncatesApart DEF CutsInv
  <2>5. CASE job.op \notin {"slice", "truncate"}
    BY <2>1, <2>5 DEF CutsInv, CutsWholeCharacters, Done
  <2> QED BY <2>2, <2>3, <2>4, <2>5, StepsOfJobs
<1> QED BY <1>1, <1>2, PTL DEF Spec, CutsInv

-----------------------------------------------------------------------------
(* Rankings.                                                                *)

\* An order of a finite set holds every element once.
LEMMA OrderIs ==
  ASSUME NEW S, IsFiniteSet(S), NEW order \in Orders(S)
  PROVE  /\ order \in Seq(S) /\ Len(order) = Cardinality(S)
         /\ DOMAIN order = 1..Len(order) /\ Len(order) \in Nat
         /\ ToSet(order) = S
<1> DEFINE n == Cardinality(S)
<1>1. n \in Nat
  BY FS_CardinalityType
<1>2. /\ order \in [1..n -> S]
      /\ \A i, j \in 1..n : i # j => order[i] # order[j]
  BY DEF Orders, SetToSeqs
<1>3. Cardinality(1..n) = n /\ IsFiniteSet(1..n)
  BY <1>1, FS_Interval
<1>4. order \in Injection(1..n, S)
  BY <1>2 DEF Injection, IsInjective
<1>5. order \in Surjection(1..n, S)
  BY <1>3, <1>4, FS_Injection
<1>6. \A x \in S : \E i \in 1..n : order[i] = x
  BY <1>5 DEF Surjection
<1> HIDE DEF n
<1>7. order \in Seq(S)
  BY <1>1, <1>2, SeqDef
<1>8. Len(order) = n
  BY <1>1, <1>2, <1>7, LenProperties
<1>9. ToSet(order) = S
  BY <1>2, <1>6 DEF ToSet
<1> QED BY <1>1, <1>2, <1>7, <1>8, <1>9 DEF n

LEMMA TakeIs ==
  ASSUME NEW S, NEW s \in Seq(S), NEW n \in Nat
  PROVE  /\ Take(s, n) \in Seq(S) /\ Len(Take(s, n)) = Smaller(n, Len(s))
         /\ DOMAIN Take(s, n) = 1..Smaller(n, Len(s))
         /\ \A i \in 1..Smaller(n, Len(s)) : Take(s, n)[i] = s[i]
         /\ Smaller(n, Len(s)) \in 0..Len(s)
         /\ Smaller(n, Len(s)) # n => Smaller(n, Len(s)) = Len(s)
<1> DEFINE m == Smaller(n, Len(s))
<1>1. Len(s) \in Nat
  BY LenProperties
<1>2. m \in 0..Len(s) /\ (m # n => m = Len(s))
  BY <1>1 DEF Smaller
<1>3. Take(s, n) = SubSeq(s, 1, m)
  BY DEF Take
<1> HIDE DEF m
<1>4. \A i \in 1..m : s[i] \in S
  BY <1>1, <1>2, ElementOfSeq
<1>5. /\ SubSeq(s, 1, m) \in Seq(S)
      /\ Len(SubSeq(s, 1, m)) = IF 1 <= m THEN m - 1 + 1 ELSE 0
      /\ \A i \in 1..m - 1 + 1 : SubSeq(s, 1, m)[i] = s[1 + i - 1]
  BY <1>2, <1>4, SubSeqProperties
<1>6. Len(SubSeq(s, 1, m)) = m /\ \A i \in 1..m : SubSeq(s, 1, m)[i] = s[i]
  BY <1>1, <1>2, <1>5
<1> QED BY <1>2, <1>3, <1>5, <1>6, LenProperties DEF m

\* The first of a descending order weigh no less than the rest.
LEMMA TakesBest ==
  ASSUME NEW S, IsFiniteSet(S), NEW order \in Orders(S), NEW n \in Nat,
         NEW weight, Descending(order, weight),
         NEW k \in ToSet(Take(order, n)), NEW l \in S \ ToSet(Take(order, n))
  PROVE  weight[k] >= weight[l] /\ Len(Take(order, n)) = n
<1> DEFINE kept == Take(order, n)
           m == Smaller(n, Len(order))
<1>1. /\ order \in Seq(S) /\ DOMAIN order = 1..Len(order) /\ Len(order) \in Nat
      /\ ToSet(order) = S
  BY OrderIs
<1>2. /\ Len(kept) = m /\ DOMAIN kept = 1..m /\ \A i \in 1..m : kept[i] = order[i]
      /\ m \in 0..Len(order) /\ (m # n => m = Len(order))
  BY <1>1, TakeIs
<1> HIDE DEF kept, m
<1>3. PICK i \in 1..m : k = order[i]
  BY <1>2 DEF ToSet, kept
<1>4. PICK j \in 1..Len(order) : l = order[j]
  BY <1>1 DEF ToSet
<1>5. ~(j \in 1..m)
  BY <1>2, <1>4 DEF ToSet, kept
<1>6. i < j /\ m # Len(order) /\ i \in 1..Len(order)
  <2> DEFINE h == Len(order)
  <2>1. h \in Nat /\ m \in 0..h /\ i \in 1..m /\ j \in 1..h
    BY <1>1, <1>2
  <2> HIDE DEF h
  <2> QED BY <1>5, <2>1 DEF h
<1> QED BY <1>1, <1>2, <1>3, <1>4, <1>6 DEF Descending, kept

LEMMA IndexTermsAreTop ==
  ASSUME job \in Jobs, IndexTerms
  PROVE  BestKept'
<1> DEFINE terms == {t \in DOMAIN job.weight : job.weight[t] >= job.least}
<1>1. PICK order \in Orders(terms) :
        Descending(order, job.weight) /\ Return(Take(order, job.limit))
  BY DEF IndexTerms
<1>2. job.op = "index" /\ job.limit \in Nat /\ job.weight \in Seq(Nat)
  BY JobsAreTyped DEF IndexTerms, Running
<1>3. IsFiniteSet(terms)
  <2>1. IsFiniteSet(DOMAIN job.weight)
    BY <1>2, LenProperties, FS_Interval
  <2>2. terms \in SUBSET DOMAIN job.weight
    OBVIOUS
  <2> HIDE DEF terms
  <2> QED BY <2>1, <2>2, FS_Subset
<1>4. TopTerms(job, Take(order, job.limit))
  <2> SUFFICES ASSUME NEW k \in ToSet(Take(order, job.limit)),
                      NEW l \in DOMAIN job.weight \ ToSet(Take(order, job.limit)),
                      job.weight[l] >= job.least
               PROVE  /\ job.weight[k] >= job.weight[l]
                      /\ Len(Take(order, job.limit)) = job.limit
    BY DEF TopTerms
  <2>1. l \in terms \ ToSet(Take(order, job.limit))
    OBVIOUS
  <2> HIDE DEF terms
  <2> QED BY <1>1, <1>2, <1>3, <2>1, TakesBest
<1>5. job' = job /\ out' = Take(order, job.limit)
  BY <1>1 DEF Return
<1> QED BY <1>2, <1>4, <1>5 DEF BestKept, Done

LEMMA MapReduceIsTop ==
  ASSUME job \in Jobs, MapReduce
  PROVE  BestKept'
<1> DEFINE keys == Keys(job)
           kept(order) == Take(order, job.limit)
           entry(k) == [key |-> k, value |-> Combined(job, k)]
           entries(s) == [i \in DOMAIN s |-> [key |-> s[i], value |-> Combined(job, s[i])]]
<1>1. PICK order \in Orders(keys) :
        /\ job.sort => Descending(order, Weight(job))
        /\ Return(entries(kept(order)))
  BY DEF MapReduce
<1>2. /\ job.op = "mapreduce" /\ job.limit \in Nat
      /\ DOMAIN job.pairs = 1..Len(job.pairs) /\ Len(job.pairs) \in Nat
  BY JobsAreTyped DEF MapReduce, Running
<1>3. IsFiniteSet(keys)
  <2> DEFINE f == [i \in DOMAIN job.pairs |-> job.pairs[i].key]
  <2>1. f \in [DOMAIN job.pairs -> keys]
    BY DEF Keys
  <2>3. \A k \in keys : \E i \in DOMAIN job.pairs : f[i] = k
    BY DEF Keys
  <2>4. f \in Surjection(DOMAIN job.pairs, keys)
    <3> HIDE DEF f, keys
    <3> QED BY <2>1, <2>3 DEF Surjection
  <2>2. IsFiniteSet(DOMAIN job.pairs)
    <3>1. \A n \in Nat : IsFiniteSet(1..n)
      BY FS_Interval
    <3> QED BY <1>2, <3>1, Zenon
  <2> HIDE DEF f, keys
  <2> QED BY <2>2, <2>4, FS_Surjection
<1> DEFINE s == kept(order)
           n == Len(s)
<1>4. /\ order \in Seq(keys) /\ Len(order) = Cardinality(keys)
      /\ DOMAIN s = 1..n /\ n \in Nat /\ n = Smaller(job.limit, Cardinality(keys))
  <2>1. order \in Seq(keys) /\ Len(order) = Cardinality(keys) /\ Len(order) \in Nat
    BY <1>3, OrderIs
  <2>2. /\ Take(order, job.limit) \in Seq(keys)
        /\ Len(Take(order, job.limit)) = Smaller(job.limit, Len(order))
    BY <1>2, <2>1, TakeIs
  <2> HIDE DEF keys
  <2> QED BY <2>1, <2>2, LenProperties
<1>5. /\ DOMAIN entries(s) = 1..n /\ Len(entries(s)) = n
      /\ {entries(s)[i].key : i \in DOMAIN entries(s)} = ToSet(s)
  <2> HIDE DEF s, n
  <2> DEFINE X == {entry(s[i]) : i \in 1..n}
  <2>1. entries(s) \in [1..n -> X]
    BY <1>4
  <2>2. entries(s) \in Seq(X)
    <3> HIDE DEF X, entries
    <3> QED BY <1>4, <2>1, SeqDef
  <2>3. DOMAIN entries(s) = 1..Len(entries(s)) /\ Len(entries(s)) \in Nat
    <3> HIDE DEF X, entries
    <3> QED BY <2>2, LenProperties
  <2>4. DOMAIN entries(s) = 1..n
    BY <1>4
  <2>5. Len(entries(s)) = n
    <3> HIDE DEF entries
    <3> QED BY <1>4, <2>3, <2>4
  <2>6. {entries(s)[i].key : i \in DOMAIN entries(s)} = ToSet(s)
    BY DEF ToSet
  <2> QED BY <2>4, <2>5, <2>6
<1>6. job.sort => TopEntries(job, entries(s))
  <2> SUFFICES ASSUME job.sort PROVE TopEntries(job, entries(s))
    OBVIOUS
  <2>1. \A k \in ToSet(s), l \in keys \ ToSet(s) : Weight(job)[k] >= Weight(job)[l]
    <3> HIDE DEF keys
    <3> QED BY <1>1, <1>2, <1>3, TakesBest
  <2> HIDE DEF entries, s, n
  <2> QED BY <1>4, <1>5, <2>1 DEF TopEntries
<1>7. job' = job /\ out' = entries(s)
  BY <1>1 DEF Return
<1> HIDE DEF entries
<1> QED BY <1>2, <1>6, <1>7 DEF BestKept, Done

-----------------------------------------------------------------------------
(* The best lines.                                                          *)

Selection == INSTANCE LeftFold WITH Op <- AddLine, Base <- Nothing
Sizes == INSTANCE LeftFold WITH Op <- AddLength, Base <- 0

\* What the lines selected so far, and those seen so far, have in common.
Selected(seen, r) ==
  LET weight == job.weight
      kept == ToSet(r.lines)
  IN /\ r.lines \in Seq(DOMAIN weight) /\ r.size \in Nat /\ r.full \in BOOLEAN
     /\ r.size = Size(job, r.lines)
     /\ r.size = 0 => r.lines = <<>>
     /\ Len(r.lines) > 1 => r.size <= job.target + 1
     /\ kept \subseteq ToSet(seen)
     /\ \A k \in kept : weight[k] > 1
     /\ ~r.full => \A l \in ToSet(seen) \ kept : weight[l] <= 1
     /\ Descending(seen, weight) =>
          \A k \in kept, l \in ToSet(seen) \ kept : weight[k] >= weight[l]

LEMMA SizeIs ==
  ASSUME NEW j, NEW S, \A x \in S : j.length[x] \in Nat
  PROVE  /\ Size(j, <<>>) = 0
         /\ \A s \in Seq(S), e \in S :
              Size(j, Append(s, e)) = Size(j, s) + j.length[e] + 1
<1>1. \A s : Sizes!Folded(s) = FoldLeft(AddLength, 0, s)
  BY Zenon DEF Sizes!Folded, Sizes!FoldLeft, Sizes!MapThenFoldSet, Sizes!Max,
               AddLength, FoldLeft, MapThenFoldSet, Max
<1> DEFINE lengths(s) == [i \in DOMAIN s |-> j.length[s[i]]]
<1>2. lengths(<<>>) = <<>>
  OBVIOUS
<1>3. FoldLeft(AddLength, 0, <<>>) = 0
  BY <1>1, Sizes!FoldedEmpty, Zenon
<1>4. Size(j, <<>>) = 0
  BY <1>2, <1>3 DEF Size
<1>5. ASSUME NEW s \in Seq(S), NEW e \in S
      PROVE  Size(j, Append(s, e)) = Size(j, s) + j.length[e] + 1
  <2> DEFINE n == Len(s)
             t == Append(s, e)
  <2>1. /\ n \in Nat /\ DOMAIN s = 1..n /\ \A i \in 1..n : s[i] \in S /\ t[i] = s[i]
        /\ t \in Seq(S) /\ Len(t) = n + 1 /\ DOMAIN t = 1..(n + 1) /\ t[n + 1] = e
    BY LenProperties, ElementOfSeq, AppendProperties
  <2>2. \A i \in 1..(n + 1) : i \in 1..n \/ i = n + 1
    BY <2>1
  <2> HIDE DEF n, t
  <2>3. lengths(s) \in [1..n -> Nat] /\ lengths(t) \in [1..(n + 1) -> Nat]
    BY <2>1, <2>2
  <2>4. /\ \A i \in 1..n : lengths(s)[i] = j.length[s[i]] /\ lengths(t)[i] = j.length[s[i]]
        /\ lengths(t)[n + 1] = j.length[e]
    BY <2>1
  <2> HIDE DEF lengths
  <2>5. lengths(s) \in Seq(Nat) /\ Len(lengths(s)) = n
        /\ lengths(t) \in Seq(Nat) /\ Len(lengths(t)) = n + 1
    <3>1. lengths(s) \in Seq(Nat) /\ lengths(t) \in Seq(Nat)
      BY <2>1, <2>3, SeqDef
    <3>2. DOMAIN lengths(s) = 1..n /\ DOMAIN lengths(t) = 1..(n + 1)
      BY <2>3
    <3> QED BY <2>1, <3>1, <3>2, LenProperties
  <2>6. lengths(t) = Append(lengths(s), j.length[e])
    <3> DEFINE u == Append(lengths(s), j.length[e])
    <3>1. /\ u \in Seq(Nat) /\ Len(u) = n + 1 /\ u[n + 1] = j.length[e]
          /\ \A i \in 1..n : u[i] = lengths(s)[i]
      BY <2>5, AppendProperties
    <3> HIDE DEF u
    <3>2. \A i \in 1..(n + 1) : lengths(t)[i] = u[i]
      BY <2>2, <2>4, <3>1
    <3> QED BY <2>5, <3>1, <3>2, SeqEqual DEF u
  <2>7. Sizes!Folded(Append(lengths(s), j.length[e]))
          = AddLength(Sizes!Folded(lengths(s)), j.length[e])
    BY <2>5, Sizes!FoldedAppend, Zenon
  <2>8. FoldLeft(AddLength, 0, lengths(t)) = AddLength(FoldLeft(AddLength, 0, lengths(s)), j.length[e])
    BY <1>1, <2>6, <2>7, Zenon
  <2>9. Size(j, t) = FoldLeft(AddLength, 0, lengths(t))
        /\ Size(j, s) = FoldLeft(AddLength, 0, lengths(s))
    BY DEF Size, lengths
  <2> QED BY <2>8, <2>9 DEF AddLength, t
<1> QED BY <1>4, <1>5

\* One more line.
LEMMA AddLineSelects ==
  ASSUME job \in Jobs, job.op = "select",
         NEW seen \in Seq(DOMAIN job.weight), NEW line \in DOMAIN job.weight,
         NEW r, r \in [size : Nat, lines : Seq(DOMAIN job.weight), full : BOOLEAN],
         Selected(seen, r)
  PROVE  /\ AddLine(r, line) \in [size : Nat, lines : Seq(DOMAIN job.weight), full : BOOLEAN]
         /\ Selected(Append(seen, line), AddLine(r, line))
<1> DEFINE L == DOMAIN job.weight
           weight == job.weight
           kept == ToSet(r.lines)
           more == Append(seen, line)
           q == AddLine(r, line)
           n == Len(seen)
<1>1. /\ weight \in Seq(Nat) /\ job.target \in Nat /\ \A x \in L : job.length[x] \in Nat
      /\ \A x \in L : weight[x] \in Nat
  <2>1. weight \in Seq(Nat) /\ job.length \in Seq(Nat) /\ DOMAIN job.length = L
        /\ job.target \in Nat
    BY JobsAreTyped
  <2> QED BY <2>1, LenProperties, ElementOfSeq
<1>2. /\ more \in Seq(L) /\ n \in Nat /\ DOMAIN seen = 1..n /\ DOMAIN more = 1..(n + 1)
      /\ \A i \in 1..n : more[i] = seen[i]
      /\ more[n + 1] = line
  BY AppendProperties, LenProperties
<1>3. ToSet(more) = ToSet(seen) \union {line}
  <2> HIDE DEF more, n
  <2>1. 1..(n + 1) = 1..n \union {n + 1}
    BY <1>2
  <2> QED BY <1>2, <2>1 DEF ToSet
<1>4. Descending(more, weight) =>
        /\ Descending(seen, weight)
        /\ \A x \in ToSet(seen) : weight[x] >= weight[line]
  <2> HIDE DEF more, n
  <2> SUFFICES ASSUME Descending(more, weight)
               PROVE  /\ Descending(seen, weight)
                      /\ \A x \in ToSet(seen) : weight[x] >= weight[line]
    OBVIOUS
  <2>1. Descending(seen, weight)
    <3> SUFFICES ASSUME NEW i \in 1..n, NEW j \in 1..n, i < j
                 PROVE  weight[seen[i]] >= weight[seen[j]]
      BY <1>2 DEF Descending
    <3>1. i \in DOMAIN more /\ j \in DOMAIN more
      BY <1>2
    <3>2. weight[more[i]] >= weight[more[j]]
      BY <3>1 DEF Descending
    <3> QED BY <1>2, <3>2
  <2>2. ASSUME NEW x \in ToSet(seen) PROVE weight[x] >= weight[line]
    <3>1. PICK i \in 1..n : x = seen[i]
      BY <1>2 DEF ToSet
    <3>2. i \in DOMAIN more /\ n + 1 \in DOMAIN more /\ i < n + 1
      BY <1>2
    <3>3. weight[more[i]] >= weight[more[n + 1]]
      BY <3>2 DEF Descending
    <3> QED BY <1>2, <3>1, <3>3
  <2> QED BY <2>1, <2>2
<1> HIDE DEF more, n
<1>5. ToSet(seen) \subseteq L /\ line \in L
  BY RangeOfSeq, LenProperties, ElementOfSeq DEF ToSet
<1>6. /\ r.lines \in Seq(L) /\ r.size \in Nat /\ r.full \in BOOLEAN
      /\ r.size = Size(job, r.lines)
      /\ r.size = 0 => r.lines = <<>>
      /\ Len(r.lines) > 1 => r.size <= job.target + 1
      /\ kept \subseteq ToSet(seen)
      /\ \A k \in kept : weight[k] > 1
      /\ ~r.full => \A l \in ToSet(seen) \ kept : weight[l] <= 1
      /\ Descending(seen, weight) =>
           \A k \in kept, l \in ToSet(seen) \ kept : weight[k] >= weight[l]
  BY DEF Selected
<1>7. CASE r.full \/ (r.size > 0 /\ r.size + job.length[line] > job.target)
  <2>1. q = [r EXCEPT !.full = TRUE]
    BY <1>7 DEF AddLine
  <2> HIDE DEF q, kept
  <2>2. /\ q \in [size : Nat, lines : Seq(L), full : BOOLEAN]
        /\ q.lines = r.lines /\ q.size = r.size /\ q.full = TRUE
    BY <2>1
  <2>3. kept \subseteq ToSet(more)
    BY <1>3, <1>6
  <2>4. Descending(more, weight) =>
          \A k \in kept, l \in ToSet(more) \ kept : weight[k] >= weight[l]
    BY <1>3, <1>4, <1>6
  <2> QED BY <1>6, <2>2, <2>3, <2>4 DEF Selected, q, more, kept
<1>8. CASE ~(r.full \/ (r.size > 0 /\ r.size + job.length[line] > job.target))
           /\ weight[line] <= 1
  <2>1. q = r
    BY <1>8 DEF AddLine
  <2> HIDE DEF q, kept
  <2>3. kept \subseteq ToSet(more)
    BY <1>3, <1>6
  <2>4. Descending(more, weight) =>
          \A k \in kept, l \in ToSet(more) \ kept : weight[k] >= weight[l]
    BY <1>3, <1>4, <1>6
  <2>5. \A l \in ToSet(more) \ kept : weight[l] <= 1
    BY <1>3, <1>6, <1>8
  <2> QED BY <1>6, <2>1, <2>3, <2>4, <2>5 DEF Selected, q, more, kept
<1>9. CASE ~(r.full \/ (r.size > 0 /\ r.size + job.length[line] > job.target))
           /\ ~(weight[line] <= 1)
  <2> DEFINE lines == Append(r.lines, line)
             size == r.size + job.length[line] + 1
             kept2 == ToSet(lines)
  <2>1. q = [r EXCEPT !.size = size, !.lines = lines]
    BY <1>9 DEF AddLine
  <2>2. /\ lines \in Seq(L) /\ Len(lines) = Len(r.lines) + 1
        /\ Len(r.lines) \in Nat /\ DOMAIN r.lines = 1..Len(r.lines)
        /\ DOMAIN lines = 1..(Len(r.lines) + 1)
        /\ \A i \in 1..Len(r.lines) : lines[i] = r.lines[i]
        /\ lines[Len(r.lines) + 1] = line
    BY <1>5, <1>6, AppendProperties, LenProperties
  <2>3. Size(job, lines) = size
    <3>1. (\A x \in L : job.length[x] \in Nat) /\ r.lines \in Seq(L) /\ line \in L
      BY <1>1, <1>5, <1>6
    <3> HIDE DEF L
    <3>2. Size(job, Append(r.lines, line)) = Size(job, r.lines) + job.length[line] + 1
      <4>1. \A s \in Seq(L), e \in L :
              Size(job, Append(s, e)) = Size(job, s) + job.length[e] + 1
        BY <3>1, SizeIs, ZenonT(60)
      <4> QED BY <3>1, <4>1
    <3> QED BY <1>6, <3>2
  <2>4. size \in Nat /\ size # 0 /\ (r.size = 0 \/ size <= job.target + 1)
    <3>1. job.length[line] \in Nat /\ r.size \in Nat /\ job.target \in Nat
      BY <1>1, <1>5, <1>6
    <3>2. \A a, b, c \in Nat : /\ a + b + 1 \in Nat /\ a + b + 1 # 0
                              /\ ~(a > 0 /\ a + b > c) => a = 0 \/ a + b + 1 <= c + 1
      OBVIOUS
    <3>3. ~(r.size > 0 /\ r.size + job.length[line] > job.target)
      BY <1>9
    <3> QED BY <3>1, <3>2, <3>3, SMTT(30)
  <2> HIDE DEF q, kept, lines, size
  <2>5. kept2 = kept \union {line}
    <3>1. 1..(Len(r.lines) + 1) = 1..Len(r.lines) \union {Len(r.lines) + 1}
      BY <2>2
    <3> QED BY <2>2, <3>1 DEF ToSet, kept
  <2>6. /\ q \in [size : Nat, lines : Seq(L), full : BOOLEAN]
        /\ q.lines = lines /\ q.size = size /\ q.full = r.full /\ ~r.full
    BY <1>9, <2>1, <2>2, <2>4
  <2>7. Len(lines) > 1 => size <= job.target + 1
    <3>1. r.size = 0 => Len(lines) = 1
      <4>1. r.size = 0 => Len(r.lines) = 0
        BY <1>6, EmptySeq
      <4> QED BY <2>2, <4>1
    <3>2. ~(1 > 1)
      OBVIOUS
    <3> QED BY <2>4, <3>1, <3>2
  <2> HIDE DEF kept2
  <2>8. kept2 \subseteq ToSet(more) /\ \A k \in kept2 : weight[k] > 1
    <3>1. weight[line] > 1
      BY <1>1, <1>5, <1>9
    <3> QED BY <1>3, <1>6, <2>5, <3>1
  <2>9. \A l \in ToSet(more) \ kept2 : weight[l] <= 1
    BY <1>3, <1>6, <2>5, <2>6
  <2>10. \A k \in kept2, l \in ToSet(more) \ kept2 : weight[k] >= weight[l]
    <3> SUFFICES ASSUME NEW k \in kept2, NEW l \in ToSet(more) \ kept2
                 PROVE  weight[k] >= weight[l]
      OBVIOUS
    <3>1. weight[k] > 1 /\ weight[l] <= 1
      BY <2>8, <2>9
    <3>2. k \in L /\ l \in L
      BY <1>3, <1>5, <2>8
    <3>3. weight[k] \in Nat /\ weight[l] \in Nat
      BY <1>1, <3>2
    <3> QED BY <3>1, <3>3
  <2> QED BY <2>2, <2>3, <2>4, <2>6, <2>7, <2>8, <2>9, <2>10
          DEF Selected, q, more, kept2
<1> QED BY <1>7, <1>8, <1>9

\* The fold over the order selects.
LEMMA ReducedSelects ==
  ASSUME job \in Jobs, job.op = "select", NEW order \in Seq(DOMAIN job.weight)
  PROVE  /\ Selected(order, FoldLeft(AddLine, Nothing, order))
<1> DEFINE L == DOMAIN job.weight
           R == [size : Nat, lines : Seq(L), full : BOOLEAN]
           fold(s) == FoldLeft(AddLine, Nothing, s)
           T == {s \in Seq(L) : fold(s) \in R /\ Selected(s, fold(s))}
<1>1. \A s : Selection!Folded(s) = fold(s)
  BY Zenon DEF Selection!Folded, Selection!FoldLeft, Selection!MapThenFoldSet,
               Selection!Max, AddLine, Nothing, FoldLeft, MapThenFoldSet, Max
<1>2. <<>> \in T
  <2>1. fold(<<>>) = Nothing
    BY <1>1, Selection!FoldedEmpty, Zenon
  <2>2. \A x \in L : job.length[x] \in Nat
    <3>1. job.length \in Seq(Nat) /\ DOMAIN job.length = L
      BY JobsAreTyped
    <3> QED BY <3>1, LenProperties, ElementOfSeq
  <2>3. Size(job, <<>>) = 0
    BY <2>2, SizeIs
  <2> HIDE DEF fold
  <2>4. Nothing \in R /\ Selected(<<>>, Nothing)
    <3>1. /\ Nothing.size = 0 /\ Nothing.lines = <<>> /\ Nothing.full = FALSE
          /\ Nothing = [size |-> 0, lines |-> <<>>, full |-> FALSE]
      BY DEF Nothing
    <3>2. ToSet(<<>>) = {} /\ <<>> \in Seq(L) /\ Len(<<>>) = 0
      BY EmptySeq DEF ToSet
    <3> HIDE DEF L
    <3> QED BY <2>3, <3>1, <3>2 DEF Selected, L
  <2> QED BY <2>1, <2>4, EmptySeq
<1>3. ASSUME NEW s \in T, NEW e \in L PROVE Append(s, e) \in T
  <2>1. s \in Seq(L) /\ fold(s) \in R /\ Selected(s, fold(s))
    OBVIOUS
  <2>2. fold(Append(s, e)) = AddLine(fold(s), e)
    <3>1. Selection!Folded(Append(s, e)) = AddLine(Selection!Folded(s), e)
      BY <2>1, Selection!FoldedAppend, Zenon
    <3> QED BY <1>1, <3>1, Zenon
  <2> HIDE DEF fold, T
  <2>3. AddLine(fold(s), e) \in R /\ Selected(Append(s, e), AddLine(fold(s), e))
    BY <2>1, AddLineSelects
  <2>4. Append(s, e) \in Seq(L)
    BY <2>1, AppendProperties
  <2> QED BY <2>2, <2>3, <2>4 DEF T
<1>4. T = Seq(L)
  <2>1. T \in SUBSET Seq(L)
    OBVIOUS
  <2> HIDE DEF T, L
  <2> QED BY <1>2, <1>3, <2>1, SeqInduct
<1> QED BY <1>4

LEMMA SelectionIsBest ==
  ASSUME job \in Jobs, SecondaryReduction
  PROVE  BestKept'
<1> DEFINE L == DOMAIN job.weight
           weight == job.weight
<1>1. PICK order \in Orders(Weighed) : Stable(order, weight) /\ Return(Reduced(order))
  BY DEF SecondaryReduction
<1>2. job.op = "select" /\ weight \in Seq(Nat) /\ job.target \in Nat
  BY JobsAreTyped DEF SecondaryReduction, Running
<1>3. \A x \in L : weight[x] \in Nat
  BY <1>2, LenProperties, ElementOfSeq
<1>4. Weighed \in SUBSET L /\ IsFiniteSet(Weighed)
        /\ \A x \in L : x \in Weighed <=> weight[x] > 0
  <2>1. IsFiniteSet(L)
    BY <1>2, LenProperties, FS_Interval
  <2>2. Weighed \in SUBSET L /\ \A x \in L : x \in Weighed <=> weight[x] > 0
    BY DEF Weighed
  <2> QED BY <2>1, <2>2, FS_Subset
<1>5. order \in Seq(Weighed) /\ order \in Seq(L) /\ ToSet(order) = Weighed
  BY <1>4, OrderIs, SeqMonotonic
<1>6. Descending(order, weight)
  <2> SUFFICES ASSUME NEW i \in DOMAIN order, NEW j \in DOMAIN order, i < j
               PROVE  weight[order[i]] >= weight[order[j]]
    BY DEF Descending
  <2>1. \/ weight[order[i]] > weight[order[j]]
        \/ weight[order[i]] = weight[order[j]]
    BY <1>1 DEF Stable
  <2>2. order[i] \in L /\ order[j] \in L
    BY <1>5, ElementOfSeq, LenProperties
  <2>3. weight[order[i]] \in Nat /\ weight[order[j]] \in Nat
    BY <1>3, <2>2
  <2> QED BY <2>1, <2>3
<1> DEFINE r == FoldLeft(AddLine, Nothing, order)
           lines == r.lines
<1>7. Selected(order, r) /\ job' = job /\ out' = lines
  <2>1. Selected(order, r)
    BY <1>2, <1>5, ReducedSelects
  <2> QED BY <1>1, <2>1 DEF Return, Reduced
<1> HIDE DEF r
<1>8. /\ ToSet(lines) \subseteq Weighed /\ r.size \in Nat /\ r.size = Size(job, lines)
      /\ Len(lines) > 1 => r.size <= job.target + 1
      /\ \A k \in ToSet(lines) : weight[k] > 1
      /\ \A k \in ToSet(lines), l \in Weighed \ ToSet(lines) : weight[k] >= weight[l]
  BY <1>5, <1>6, <1>7 DEF Selected
<1> HIDE DEF lines
<1>9. ASSUME NEW k \in ToSet(lines), NEW l \in L \ ToSet(lines)
      PROVE  weight[k] >= weight[l]
  <2>1. CASE l \in Weighed
    BY <1>8, <2>1
  <2>2. CASE l \notin Weighed
    <3>1. k \in L /\ weight[k] \in Nat /\ weight[l] \in Nat
      BY <1>3, <1>4, <1>8
    <3>2. weight[k] > 1 /\ ~(weight[l] > 0)
      BY <1>4, <1>8, <2>2
    <3> QED BY <3>1, <3>2
  <2> QED BY <2>1, <2>2
<1>10. BestLines(job, lines)
  BY <1>8, <1>9 DEF BestLines
<1> QED BY <1>2, <1>7, <1>10 DEF BestKept, Done

RankInv == job \in Jobs /\ BestKept

\* A ranked and limited result holds the best (index_terms, rust_wasm_mapreduce,
\* the secondary reduction of a phased query).
THEOREM RankingsKeepBest == Spec => []BestKept
<1>1. Init => RankInv
  BY DEF Init, RankInv, BestKept, Done
<1>2. RankInv /\ [Next]_vars => RankInv'
  <2> SUFFICES ASSUME RankInv, [Next]_vars PROVE RankInv'
    OBVIOUS
  <2>1. job' = job /\ job \in Jobs
    BY StepsOfJobs DEF RankInv
  <2>2. CASE UNCHANGED vars
    BY <2>2 DEF vars, RankInv, BestKept, Done
  <2>3. CASE IndexTerms
    BY <2>1, <2>3, IndexTermsAreTop DEF RankInv
  <2>4. CASE MapReduce
    BY <2>1, <2>4, MapReduceIsTop DEF RankInv
  <2>5. CASE SecondaryReduction
    BY <2>1, <2>5, SelectionIsBest DEF RankInv
  <2>6. CASE pc' \in {"error", "fuel"}
    BY <2>1, <2>6 DEF RankInv, BestKept, Done
  <2>7. CASE job.op \notin {"mapreduce", "index", "select"}
    BY <2>1, <2>7 DEF RankInv, BestKept, Done
  <2> QED BY <2>2, <2>3, <2>4, <2>5, <2>6, <2>7, StepsOfJobs
<1> QED BY <1>1, <1>2, PTL DEF Spec, RankInv

-----------------------------------------------------------------------------
(* What texts are made of.                                                  *)

LEMMA ConcatAppend ==
  ASSUME NEW S, NEW s \in Seq(S), NEW t \in Seq(S), NEW e \in S
  PROVE  s \o Append(t, e) = Append(s \o t, e)
<1>1. <<e>> \in Seq(S)
  OBVIOUS
<1>2. Append(t, e) = t \o <<e>>
  BY AppendIsConcat
<1>3. s \o t \in Seq(S)
  BY ConcatProperties
<1>4. Append(s \o t, e) = (s \o t) \o <<e>>
  BY <1>3, AppendIsConcat
<1>5. (s \o t) \o <<e>> = s \o (t \o <<e>>)
  BY <1>1, ConcatAssociative
<1> QED BY <1>2, <1>4, <1>5

LEMMA FlattenConcat ==
  ASSUME NEW S, NEW s \in Seq(Seq(S)), NEW t \in Seq(Seq(S))
  PROVE  FlattenSeq(s \o t) = FlattenSeq(s) \o FlattenSeq(t)
<1> DEFINE F(u) == FlattenSeq(s \o u) = FlattenSeq(s) \o FlattenSeq(u)
           T == {u \in Seq(Seq(S)) : F(u)}
<1>1. <<>> \in T
  <2>1. FlattenSeq(s) \in Seq(S)
    BY FlattenTyped
  <2>2. s \o <<>> = s /\ FlattenSeq(s) \o <<>> = FlattenSeq(s)
    BY <2>1, ConcatEmptySeq
  <2> QED BY <2>2, FlattenEmpty, EmptySeq
<1>2. ASSUME NEW u \in T, NEW e \in Seq(S) PROVE Append(u, e) \in T
  <2>1. u \in Seq(Seq(S)) /\ F(u) /\ Append(u, e) \in Seq(Seq(S)) /\ s \o u \in Seq(Seq(S))
    BY AppendProperties, ConcatProperties
  <2> HIDE DEF T
  <2>2. s \o Append(u, e) = Append(s \o u, e)
    BY <2>1, ConcatAppend, SMTT(30)
  <2>3. /\ FlattenSeq(Append(s \o u, e)) = FlattenSeq(s \o u) \o e
        /\ FlattenSeq(Append(u, e)) = FlattenSeq(u) \o e
        /\ FlattenSeq(s) \in Seq(S) /\ FlattenSeq(u) \in Seq(S)
    BY <2>1, FlattenTyped
  <2>4. (FlattenSeq(s) \o FlattenSeq(u)) \o e = FlattenSeq(s) \o (FlattenSeq(u) \o e)
    BY <2>3, ConcatAssociative, SMTT(30)
  <2>5. F(Append(u, e))
    BY <2>1, <2>2, <2>3, <2>4
  <2> QED BY <2>1, <2>5 DEF T
<1>3. T = Seq(Seq(S))
  <2>1. T \in SUBSET Seq(Seq(S))
    OBVIOUS
  <2> HIDE DEF T
  <2> QED BY <1>1, <1>2, <2>1, SeqInduct
<1> QED BY <1>3

Contents == INSTANCE LeftFold WITH Op <- KeepContent, Base <- <<>>

\* Content drops the blanks, one character at a time.
LEMMA ContentIs ==
  /\ Content(<<>>) = <<>>
  /\ \A s \in Seq(Chars) :
       /\ Content(s) \in Seq(Chars)
       /\ \A c \in Chars :
            Content(Append(s, c)) = IF c \in Blank THEN Content(s) ELSE Append(Content(s), c)
<1>1. \A s : Contents!Folded(s) = Content(s)
  BY Zenon DEF Contents!Folded, Contents!FoldLeft, Contents!MapThenFoldSet, Contents!Max,
               KeepContent, Content, FoldLeft, MapThenFoldSet, Max
<1>2. Content(<<>>) = <<>>
  BY <1>1, Contents!FoldedEmpty, Zenon
<1>3. ASSUME NEW s \in Seq(Chars), NEW c \in Chars
      PROVE  Content(Append(s, c)) = IF c \in Blank THEN Content(s) ELSE Append(Content(s), c)
  <2>1. Contents!Folded(Append(s, c)) = KeepContent(Contents!Folded(s), c)
    BY Contents!FoldedAppend, Zenon
  <2>2. Content(Append(s, c)) = KeepContent(Content(s), c)
    BY <1>1, <2>1, Zenon
  <2> QED BY <2>2 DEF KeepContent
<1> DEFINE T == {s \in Seq(Chars) : Content(s) \in Seq(Chars)}
<1>4. <<>> \in T
  BY <1>2, EmptySeq
<1>5. ASSUME NEW s \in T, NEW c \in Chars PROVE Append(s, c) \in T
  BY <1>3, AppendProperties
<1>6. T = Seq(Chars)
  <2>1. T \in SUBSET Seq(Chars)
    OBVIOUS
  <2> HIDE DEF T
  <2> QED BY <1>4, <1>5, <2>1, SeqInduct
<1> QED BY <1>2, <1>3, <1>6

LEMMA ContentConcat ==
  ASSUME NEW s \in Seq(Chars), NEW t \in Seq(Chars)
  PROVE  Content(s \o t) = Content(s) \o Content(t)
<1> DEFINE F(u) == Content(s \o u) = Content(s) \o Content(u)
           T == {u \in Seq(Chars) : F(u)}
<1>1. <<>> \in T
  <2>1. s \o <<>> = s /\ Content(s) \o <<>> = Content(s)
    BY ContentIs, ConcatEmptySeq
  <2> QED BY <2>1, ContentIs, EmptySeq
<1>2. ASSUME NEW u \in T, NEW c \in Chars PROVE Append(u, c) \in T
  <2>1. u \in Seq(Chars) /\ F(u) /\ Append(u, c) \in Seq(Chars) /\ s \o u \in Seq(Chars)
        /\ Content(s) \in Seq(Chars) /\ Content(u) \in Seq(Chars)
    BY AppendProperties, ConcatProperties, ContentIs
  <2> HIDE DEF T
  <2>2. /\ s \o Append(u, c) = Append(s \o u, c)
        /\ Content(s) \o Append(Content(u), c) = Append(Content(s) \o Content(u), c)
    BY <2>1, ConcatAppend, SMTT(30)
  <2>3. /\ Content(Append(s \o u, c))
             = IF c \in Blank THEN Content(s \o u) ELSE Append(Content(s \o u), c)
        /\ Content(Append(u, c)) = IF c \in Blank THEN Content(u) ELSE Append(Content(u), c)
    BY <2>1, ContentIs
  <2>4. F(Append(u, c))
    BY <2>1, <2>2, <2>3
  <2> QED BY <2>1, <2>4 DEF T
<1>3. T = Seq(Chars)
  <2>1. T \in SUBSET Seq(Chars)
    OBVIOUS
  <2> HIDE DEF T
  <2> QED BY <1>1, <1>2, <2>1, SeqInduct
<1> QED BY <1>3

Blanks(s) == \A i \in DOMAIN s : s[i] \in Blank

LEMMA BlanksHaveNoContent ==
  ASSUME NEW s \in Seq(Chars)
  PROVE  Blanks(s) <=> Content(s) = <<>>
<1> DEFINE T == {u \in Seq(Chars) : Blanks(u) <=> Content(u) = <<>>}
<1>1. <<>> \in T
  <2>1. Blanks(<<>>)
    BY DEF Blanks
  <2> QED BY <2>1, ContentIs, EmptySeq
<1>2. ASSUME NEW u \in T, NEW c \in Chars PROVE Append(u, c) \in T
  <2> DEFINE n == Len(u)
             v == Append(u, c)
  <2>1. /\ u \in Seq(Chars) /\ (Blanks(u) <=> Content(u) = <<>>)
        /\ v \in Seq(Chars) /\ n \in Nat /\ DOMAIN u = 1..n /\ DOMAIN v = 1..(n + 1)
        /\ \A i \in 1..n : v[i] = u[i]
        /\ v[n + 1] = c
    BY AppendProperties, LenProperties
  <2>2. /\ Content(u) \in Seq(Chars)
        /\ Content(v) = IF c \in Blank THEN Content(u) ELSE Append(Content(u), c)
    BY <2>1, ContentIs
  <2>3. Append(Content(u), c) # <<>>
    BY <2>2, AppendProperties
  <2> HIDE DEF n, v, T
  <2>4. Blanks(v) <=> Blanks(u) /\ c \in Blank
    <3>1. \A i : i \in 1..(n + 1) <=> i \in 1..n \/ i = n + 1
      BY <2>1
    <3> QED BY <2>1, <3>1 DEF Blanks
  <2>5. Blanks(v) <=> Content(v) = <<>>
    BY <2>1, <2>2, <2>3, <2>4
  <2> QED BY <2>1, <2>5 DEF T, v
<1>3. T = Seq(Chars)
  <2>1. T \in SUBSET Seq(Chars)
    OBVIOUS
  <2> HIDE DEF T
  <2> QED BY <1>1, <1>2, <2>1, SeqInduct
<1> QED BY <1>3

LEMMA BytesAppend ==
  ASSUME NEW s \in Seq(Chars), NEW c \in Chars
  PROVE  /\ Bytes(s) \in Nat
         /\ Bytes(Append(s, c)) = Bytes(s) + (IF c = "e" THEN 2 ELSE 1)
<1> DEFINE n == Len(s)
           t == Append(s, c)
           E == {k \in 1..n : s[k] = "e"}
           D == {k \in 1..(n + 1) : t[k] = "e"}
<1>1. /\ n \in Nat /\ t \in Seq(Chars) /\ Len(t) = n + 1
      /\ \A i \in 1..n : t[i] = s[i]
      /\ t[n + 1] = c
  BY AppendProperties, LenProperties
<1>2. Bytes(s) = n + Cardinality(E)
  <2>1. n \in 0..n
    BY <1>1
  <2> QED BY <2>1 DEF Bytes, Offset
<1>3. Bytes(t) = (n + 1) + Cardinality(D)
  <2>1. n + 1 \in 0..(n + 1)
    BY <1>1
  <2> HIDE DEF t, n
  <2> QED BY <1>1, <2>1 DEF Bytes, Offset
<1>4. IsFiniteSet(E) /\ Cardinality(E) \in Nat /\ n + 1 \notin E
  <2>1. E \in SUBSET (1..n) /\ n + 1 \notin E
    BY <1>1
  <2>2. IsFiniteSet(1..n)
    <3>1. \A m \in Nat : IsFiniteSet(1..m)
      BY FS_Interval
    <3> HIDE DEF n
    <3> QED BY <1>1, <3>1
  <2> HIDE DEF E, n
  <2> QED BY <2>1, <2>2, FS_Subset, FS_CardinalityType
<1>5. D = IF c = "e" THEN E \union {n + 1} ELSE E
  <2>1. \A i : i \in 1..(n + 1) <=> i \in 1..n \/ i = n + 1
    BY <1>1
  <2> HIDE DEF t, n
  <2> QED BY <1>1, <2>1
<1> HIDE DEF E, D, n, t
<1>6. Cardinality(D) = Cardinality(E) + (IF c = "e" THEN 1 ELSE 0)
  <2>1. CASE c = "e"
    <3>1. Cardinality(E \union {n + 1}) = Cardinality(E) + 1
      BY <1>4, FS_AddElement
    <3> QED BY <1>5, <2>1, <3>1
  <2>2. CASE c # "e"
    BY <1>4, <1>5, <2>2
  <2> QED BY <2>1, <2>2
<1> QED BY <1>1, <1>2, <1>3, <1>4, <1>6 DEF t

LEMMA BytesConcat ==
  ASSUME NEW s \in Seq(Chars), NEW t \in Seq(Chars)
  PROVE  Bytes(s \o t) = Bytes(s) + Bytes(t)
<1> DEFINE F(u) == Bytes(s \o u) = Bytes(s) + Bytes(u)
           T == {u \in Seq(Chars) : F(u)}
<1>1. <<>> \in T
  <2>1. s \o <<>> = s /\ <<>> \in Seq(Chars) /\ Len(<<>>) = 0
    BY ConcatEmptySeq, EmptySeq
  <2>2. Bytes(<<>>) = 0
    BY <2>1, OffsetRises
  <2>3. Bytes(s) \in Nat
    <3>1. PICK c : c \in Chars
      BY DEF Chars
    <3> QED BY <3>1, BytesAppend
  <2> QED BY <2>1, <2>2, <2>3
<1>2. ASSUME NEW u \in T, NEW c \in Chars PROVE Append(u, c) \in T
  <2>1. u \in Seq(Chars) /\ F(u) /\ Append(u, c) \in Seq(Chars) /\ s \o u \in Seq(Chars)
    BY AppendProperties, ConcatProperties
  <2> HIDE DEF T
  <2>2. s \o Append(u, c) = Append(s \o u, c)
    BY <2>1, ConcatAppend
  <2> DEFINE w == IF c = "e" THEN 2 ELSE 1
             a == Bytes(s)
             b == Bytes(u)
  <2>3. a \in Nat /\ b \in Nat /\ w \in Nat
        /\ Bytes(Append(s \o u, c)) = Bytes(s \o u) + w
        /\ Bytes(Append(u, c)) = b + w
    BY <2>1, BytesAppend
  <2>4. Bytes(s \o u) = a + b
    BY <2>1
  <2> HIDE DEF a, b, w
  <2>5. (a + b) + w = a + (b + w)
    BY <2>3
  <2>6. F(Append(u, c))
    BY <2>2, <2>3, <2>4, <2>5 DEF a
  <2> QED BY <2>1, <2>6 DEF T
<1>3. T = Seq(Chars)
  <2>1. T \in SUBSET Seq(Chars)
    OBVIOUS
  <2> HIDE DEF T
  <2> QED BY <1>1, <1>2, <2>1, SeqInduct
<1> QED BY <1>3

-----------------------------------------------------------------------------
(* Paragraphs.                                                              *)

\* A part of a text, and the text cut in three.
LEMMA Part ==
  ASSUME NEW s \in Seq(Chars), NEW a \in 1..Len(s) + 1, NEW b \in a - 1..Len(s)
  PROVE  /\ SubSeq(s, a, b) \in Seq(Chars)
         /\ Len(SubSeq(s, a, b)) = b - a + 1
         /\ DOMAIN SubSeq(s, a, b) = 1..(b - a + 1)
         /\ \A i \in 1..(b - a + 1) : SubSeq(s, a, b)[i] = s[a + i - 1]
<1>1. Len(s) \in Nat /\ \A i \in 1..Len(s) : s[i] \in Chars
  BY LenProperties, ElementOfSeq
<1>2. a \in Int /\ b \in Int /\ (\A i \in a..b : s[i] \in Chars) /\ (a <= b \/ b - a + 1 = 0)
  BY <1>1
<1>3. /\ SubSeq(s, a, b) \in Seq(Chars)
      /\ Len(SubSeq(s, a, b)) = IF a <= b THEN b - a + 1 ELSE 0
      /\ \A i \in 1..b - a + 1 : SubSeq(s, a, b)[i] = s[a + i - 1]
  BY <1>2, SubSeqProperties
<1>4. Len(SubSeq(s, a, b)) = b - a + 1
  BY <1>2, <1>3
<1> QED BY <1>3, <1>4, LenProperties

LEMMA CutInTwo ==
  ASSUME NEW s \in Seq(Chars), NEW a \in 1..Len(s) + 1, NEW b \in a - 1..Len(s),
         NEW c \in b..Len(s)
  PROVE  Content(SubSeq(s, a, c)) = Content(SubSeq(s, a, b)) \o Content(SubSeq(s, b + 1, c))
<1>1. SubSeq(s, a, b) \o SubSeq(s, b + 1, c) = SubSeq(s, a, c)
  BY ConcatAdjacentSubSeq
<1>2. b + 1 \in 1..Len(s) + 1 /\ c \in (b + 1) - 1..Len(s)
  BY LenProperties
<1>3. SubSeq(s, a, b) \in Seq(Chars) /\ SubSeq(s, b + 1, c) \in Seq(Chars)
  BY <1>2, Part
<1> QED BY <1>1, <1>3, ContentConcat

\* Blanks between two parts do not count.
LEMMA BlanksBetween ==
  ASSUME NEW s \in Seq(Chars), NEW a \in 1..Len(s) + 1, NEW b \in a - 1..Len(s),
         NEW c \in b..Len(s), NEW d \in c..Len(s), \A i \in b + 1..c : s[i] \in Blank
  PROVE  Content(SubSeq(s, a, d)) = Content(SubSeq(s, a, b)) \o Content(SubSeq(s, c + 1, d))
<1>0. Len(s) \in Nat
  BY LenProperties
<1>1. Content(SubSeq(s, a, d)) = Content(SubSeq(s, a, b)) \o Content(SubSeq(s, b + 1, d))
  <2>1. d \in b..Len(s)
    BY <1>0
  <2> QED BY <2>1, CutInTwo
<1>2. /\ b + 1 \in 1..Len(s) + 1 /\ c \in (b + 1) - 1..Len(s)
      /\ c + 1 \in 1..Len(s) + 1 /\ d \in (c + 1) - 1..Len(s)
  BY <1>0
<1>3. Content(SubSeq(s, b + 1, d))
        = Content(SubSeq(s, b + 1, c)) \o Content(SubSeq(s, c + 1, d))
  BY <1>2, CutInTwo
<1>4. Content(SubSeq(s, b + 1, c)) = <<>>
  <2> DEFINE m == SubSeq(s, b + 1, c)
  <2>1. /\ m \in Seq(Chars) /\ DOMAIN m = 1..(c - (b + 1) + 1)
        /\ \A i \in 1..(c - (b + 1) + 1) : m[i] = s[(b + 1) + i - 1]
    BY <1>2, Part
  <2>2. \A i \in 1..(c - (b + 1) + 1) : (b + 1) + i - 1 \in b + 1..c
    BY <1>0
  <2> HIDE DEF m
  <2>3. Blanks(m)
    BY <2>1, <2>2 DEF Blanks
  <2> QED BY <2>1, <2>3, BlanksHaveNoContent DEF m
<1>5. Content(SubSeq(s, c + 1, d)) \in Seq(Chars)
  BY <1>2, Part, ContentIs
<1> QED BY <1>1, <1>3, <1>4, <1>5, ConcatEmptySeq

\* Trim takes blanks from both ends.
LEMMA TrimIs ==
  ASSUME NEW s \in Seq(Chars)
  PROVE  /\ Trim(s) \in Seq(Chars)
         /\ Content(Trim(s)) = Content(s)
         /\ Trim(s) # <<>> =>
              \E a \in 1..Len(s) : \E b \in a..Len(s) :
                /\ Trim(s) = SubSeq(s, a, b)
                /\ s[a] \notin Blank /\ s[b] \notin Blank
<1> DEFINE n == Len(s)
           C == {i \in DOMAIN s : s[i] \notin Blank}
           a == Least(C)
           b == Greatest(C)
<1>1. n \in Nat /\ DOMAIN s = 1..n
  BY LenProperties
<1>2. Trim(s) = IF C = {} THEN <<>> ELSE SubSeq(s, a, b)
  BY DEF Trim
<1>3. CASE C = {}
  <2>1. Blanks(s)
    BY <1>3 DEF Blanks
  <2>2. Trim(s) = <<>>
    BY <1>2, <1>3
  <2> QED BY <2>1, <2>2, BlanksHaveNoContent, ContentIs, EmptySeq
<1>4. CASE C # {}
  <2>1. C \in SUBSET Int /\ 0 \in Int /\ n \in Int /\ \A x \in C : 0 <= x /\ x <= n
    BY <1>1
  <2> HIDE DEF C, n
  <2>2. a \in C /\ \A x \in C : a <= x
    BY <1>4, <2>1, LeastIs
  <2>3. b \in C /\ \A x \in C : b >= x
    BY <1>4, <2>1, GreatestIs
  <2> HIDE DEF a, b
  <2>4. /\ a \in 1..n /\ b \in a..n /\ s[a] \notin Blank /\ s[b] \notin Blank
        /\ \A i \in 1..n : i < a \/ i > b => s[i] \in Blank
    <3>1. a \in 1..n /\ b \in 1..n /\ s[a] \notin Blank /\ s[b] \notin Blank
      BY <1>1, <2>2, <2>3 DEF C
    <3>2. b \in a..n
      BY <1>1, <2>2, <2>3, <3>1
    <3>3. ASSUME NEW i \in 1..n, i < a \/ i > b PROVE i \notin C
      BY <1>1, <2>2, <2>3, <3>1, <3>3
    <3>4. \A i \in 1..n : i \notin C => s[i] \in Blank
      BY <1>1 DEF C
    <3> QED BY <3>1, <3>2, <3>3, <3>4
  <2>5. Trim(s) = SubSeq(s, a, b)
    BY <1>2, <1>4
  <2> USE DEF n
  <2>6. a \in 1..n + 1 /\ b \in a - 1..n /\ SubSeq(s, a, b) \in Seq(Chars)
    <3>1. a \in 1..n + 1 /\ b \in a - 1..n
      BY <1>1, <2>4
    <3> QED BY <3>1, Part
  <2>7. Content(SubSeq(s, 1, n)) = Content(SubSeq(s, 1, 0)) \o Content(SubSeq(s, a, n))
    <3>1. /\ 1 \in 1..n + 1 /\ 0 \in 1 - 1..n /\ a - 1 \in 0..n /\ n \in a - 1..n
          /\ (a - 1) + 1 = a
      BY <1>1, <2>4
    <3>2. \A i \in 0 + 1..a - 1 : s[i] \in Blank
      BY <1>1, <2>4
    <3>3. Content(SubSeq(s, 1, n))
            = Content(SubSeq(s, 1, 0)) \o Content(SubSeq(s, (a - 1) + 1, n))
      BY <3>1, <3>2, BlanksBetween
    <3> QED BY <3>1, <3>3
  <2>8. Content(SubSeq(s, a, n)) = Content(SubSeq(s, a, b)) \o Content(SubSeq(s, n + 1, n))
    <3>1. n \in b..n /\ n \in n..n
      BY <1>1, <2>4
    <3>2. \A i \in b + 1..n : s[i] \in Blank
      BY <1>1, <2>4
    <3> QED BY <2>6, <3>1, <3>2, BlanksBetween
  <2>9. SubSeq(s, 1, n) = s /\ SubSeq(s, 1, 0) = <<>> /\ SubSeq(s, n + 1, n) = <<>>
    <3>1. n < n + 1 /\ 0 < 1 /\ n \in Int /\ n + 1 \in Int
      BY <1>1
    <3> QED BY <3>1, SubSeqFull, SubSeqEmpty
  <2>10. Content(SubSeq(s, a, b)) \in Seq(Chars) /\ Content(<<>>) = <<>>
    BY <2>6, ContentIs
  <2>11. Content(s) = Content(SubSeq(s, a, b))
    BY <2>7, <2>8, <2>9, <2>10, ConcatEmptySeq
  <2> QED BY <2>4, <2>5, <2>6, <2>11
<1> QED BY <1>3, <1>4

\* Trim leaves alone what has no blank at either end.
LEMMA TrimStays ==
  ASSUME NEW s \in Seq(Chars), s # <<>>, s[1] \notin Blank, s[Len(s)] \notin Blank
  PROVE  Trim(s) = s
<1> DEFINE n == Len(s)
           C == {i \in DOMAIN s : s[i] \notin Blank}
<1>1. n \in Nat /\ n # 0 /\ DOMAIN s = 1..n
  BY LenProperties, EmptySeq
<1>2. 1 \in C /\ n \in C /\ C \in SUBSET Int /\ \A x \in C : 1 <= x /\ x <= n
  BY <1>1
<1>3. Trim(s) = IF C = {} THEN <<>> ELSE SubSeq(s, Least(C), Greatest(C))
  BY DEF Trim
<1>4. SubSeq(s, 1, n) = s
  BY SubSeqFull
<1> HIDE DEF C, n
<1>5. Least(C) \in C /\ \A y \in C : Least(C) <= y
  <2>1. C # {} /\ 1 \in Int
    BY <1>2
  <2> QED BY <1>2, <2>1, LeastIs
<1>6. Greatest(C) \in C /\ \A y \in C : Greatest(C) >= y
  <2>1. C # {} /\ n \in Int
    BY <1>1, <1>2
  <2> QED BY <1>2, <2>1, GreatestIs
<1>7. Least(C) = 1 /\ Greatest(C) = n
  <2>1. /\ Least(C) <= 1 /\ 1 <= Least(C) /\ Least(C) \in Int
        /\ Greatest(C) >= n /\ Greatest(C) <= n /\ Greatest(C) \in Int /\ n \in Int
    BY <1>1, <1>2, <1>5, <1>6
  <2> QED BY <2>1
<1> QED BY <1>2, <1>3, <1>4, <1>7

\* A paragraph: it has no blanks around it and no break inside.
Para == {p \in Seq(Chars) : p # <<>> /\ Breaks(p, 1) = {} /\ Trim(p) = p}

BreakAt(s, i) == s[i] = "n" /\ s[i + 1] \in {"n", "#"}

\* A part of a text breaks where the text does.
LEMMA PartBreaks ==
  ASSUME NEW s \in Seq(Chars), NEW a \in 1..Len(s) + 1, NEW b \in a - 1..Len(s),
         \A i \in a..b - 1 : ~BreakAt(s, i)
  PROVE  Breaks(SubSeq(s, a, b), 1) = {}
<1> DEFINE p == SubSeq(s, a, b)
           n == b - a + 1
<1>1. Len(p) = n /\ \A i \in 1..n : p[i] = s[a + i - 1]
  BY Part
<1>2. a \in Nat /\ b \in Int /\ n \in Nat
  BY LenProperties
<1> HIDE DEF p
<1>3. ASSUME NEW i \in 1..n - 1 PROVE ~(p[i] = "n" /\ p[i + 1] \in {"n", "#"})
  <2>1. /\ i \in 1..n /\ i + 1 \in 1..n /\ a + i - 1 \in a..b - 1
        /\ a + (i + 1) - 1 = (a + i - 1) + 1
    BY <1>2
  <2>2. p[i] = s[a + i - 1] /\ p[i + 1] = s[(a + i - 1) + 1]
    BY <1>1, <2>1
  <2>3. ~BreakAt(s, a + i - 1)
    BY <2>1
  <2> QED BY <2>2, <2>3 DEF BreakAt
<1>4. Breaks(p, 1) = {}
  <2> HIDE DEF n
  <2> QED BY <1>1, <1>3 DEF Breaks
<1> QED BY <1>4 DEF p

LEMMA FlattenOne ==
  ASSUME NEW S, NEW p \in Seq(S)
  PROVE  FlattenSeq(<<p>>) = p
<1>1. <<p>> = Append(<<>>, p) /\ <<>> \in Seq(Seq(S))
  BY EmptySeq
<1>2. FlattenSeq(Append(<<>>, p)) = FlattenSeq(<<>>) \o p
  BY <1>1, FlattenTyped
<1> QED BY <1>1, <1>2, FlattenEmpty, ConcatEmptySeq

\* Kept yields a paragraph and loses no content.
LEMMA KeptIs ==
  ASSUME NEW s \in Seq(Chars), Breaks(s, 1) = {}
  PROVE  /\ Kept(s) \in Seq(Para)
         /\ Content(FlattenSeq(Kept(s))) = Content(s)
<1>1. CASE Trim(s) = <<>>
  <2>1. Kept(s) = <<>>
    BY <1>1 DEF Kept
  <2>2. Content(<<>>) = Content(s)
    BY <1>1, TrimIs
  <2> QED BY <2>1, <2>2, FlattenEmpty, EmptySeq
<1>2. CASE Trim(s) # <<>>
  <2> DEFINE p == Trim(s)
  <2>1. p \in Seq(Chars) /\ Content(p) = Content(s)
    BY TrimIs
  <2>2. PICK a \in 1..Len(s) : \E b \in a..Len(s) :
          p = SubSeq(s, a, b) /\ s[a] \notin Blank /\ s[b] \notin Blank
    BY <1>2, TrimIs
  <2>3. PICK b \in a..Len(s) : p = SubSeq(s, a, b) /\ s[a] \notin Blank /\ s[b] \notin Blank
    BY <2>2
  <2>4. Kept(s) = <<p>>
    BY <1>2 DEF Kept
  <2> HIDE DEF p
  <2>5. Len(s) \in Nat /\ a \in 1..Len(s) + 1 /\ b \in a - 1..Len(s) /\ b - a + 1 \in Nat \ {0}
    BY LenProperties
  <2>6. /\ Len(p) = b - a + 1
        /\ \A i \in 1..(b - a + 1) : p[i] = s[a + i - 1]
    BY <2>3, <2>5, Part
  <2>7. /\ 1 \in 1..(b - a + 1) /\ b - a + 1 \in 1..(b - a + 1)
        /\ a + 1 - 1 = a /\ a + (b - a + 1) - 1 = b
    BY <2>5
  <2>8. p[1] = s[a] /\ p[Len(p)] = s[b] /\ p # <<>>
    <3>1. p[1] = s[a + 1 - 1] /\ p[b - a + 1] = s[a + (b - a + 1) - 1]
      BY <2>6, <2>7
    <3>2. Len(p) # 0
      BY <2>5, <2>6
    <3> QED BY <2>6, <2>7, <3>1, <3>2, EmptySeq
  <2>9. Trim(p) = p
    BY <2>1, <2>3, <2>8, TrimStays
  <2>10. Breaks(p, 1) = {}
    <3>1. \A i \in a..b - 1 : ~BreakAt(s, i)
      <4>1. \A i \in 1..Len(s) - 1 : ~BreakAt(s, i)
        BY DEF Breaks, BreakAt
      <4>2. \A i \in a..b - 1 : i \in 1..Len(s) - 1
        BY <2>5
      <4> QED BY <4>1, <4>2
    <3> QED BY <2>3, <2>5, <3>1, PartBreaks
  <2>11. p \in Para
    BY <2>1, <2>8, <2>9, <2>10 DEF Para
  <2>12. <<p>> \in Seq(Para)
    BY <2>11
  <2> QED BY <2>1, <2>4, <2>12, FlattenOne
<1> QED BY <1>1, <1>2

\* Where a paragraph ends and the next one begins.
LEMMA BreakIs ==
  ASSUME NEW text \in Seq(Chars), NEW pos \in 1..Len(text) + 1, Breaks(text, pos) # {}
  PROVE  \E b \in pos..Len(text) - 1 : \E r \in b + 1..Len(text) + 1 :
           /\ b = Least(Breaks(text, pos)) /\ r = Resume(text, b)
           /\ \A i \in pos..b - 1 : ~BreakAt(text, i)
           /\ \A i \in b..r - 1 : text[i] = "n"
<1> DEFINE n == Len(text)
           B == Breaks(text, pos)
           b == Least(B)
           R == {i \in b + 1..n + 1 : i = n + 1 \/ text[i] # "n"}
           r == Least(R)
<1>1. n \in Nat /\ pos \in Nat /\ pos >= 1
  BY LenProperties
<1>2. B \in SUBSET (pos..n - 1) /\ \A i \in pos..n - 1 : i \in B <=> BreakAt(text, i)
  BY DEF Breaks, BreakAt
<1>3. b \in B /\ \A i \in B : b <= i
  <2>1. B # {} /\ B \in SUBSET Int /\ pos \in Int /\ \A i \in B : pos <= i
    BY <1>1, <1>2
  <2> HIDE DEF B
  <2> QED BY <2>1, LeastIs
<1>4. r = Resume(text, b)
  BY DEF Resume
<1> HIDE DEF n, B, b
<1>5. b \in pos..n - 1 /\ BreakAt(text, b)
  BY <1>2, <1>3
<1>6. n + 1 \in R /\ R \in SUBSET Int /\ b + 1 \in Int /\ \A i \in R : b + 1 <= i
  BY <1>1, <1>5
<1>7. r \in R /\ \A i \in R : r <= i
  <2>1. R # {}
    BY <1>6
  <2> HIDE DEF R
  <2> QED BY <1>6, <2>1, LeastIs
<1>8. r \in b + 1..n + 1
  BY <1>7
<1>9. ASSUME NEW i \in pos..b - 1 PROVE ~BreakAt(text, i)
  <2>1. i \in pos..n - 1 /\ ~(b <= i)
    BY <1>1, <1>5
  <2> QED BY <1>2, <1>3, <2>1
<1>10. ASSUME NEW i \in b..r - 1 PROVE text[i] = "n"
  <2>1. CASE i = b
    BY <1>5, <2>1 DEF BreakAt
  <2>2. CASE i # b
    <3>1. i \in b + 1..n + 1 /\ ~(r <= i) /\ i # n + 1
      BY <1>1, <1>5, <1>8, <2>2
    <3> QED BY <1>7, <3>1
  <2> QED BY <2>1, <2>2
<1> HIDE DEF r
<1> QED BY <1>4, <1>5, <1>8, <1>9, <1>10 DEF n, b, B

\* What Paragraphs computes from a position on.
Split(f, text, pos) ==
  IF Breaks(text, pos) = {} THEN Kept(SubSeq(text, pos, Len(text)))
  ELSE Kept(SubSeq(text, pos, Least(Breaks(text, pos)) - 1))
       \o f[Resume(text, Least(Breaks(text, pos)))]

Splits(f, text, from) == f = [pos \in from..Len(text) + 1 |-> Split(f, text, pos)]

LEMMA SplitExists ==
  ASSUME NEW text \in Seq(Chars)
  PROVE  \E f : Splits(f, text, 1)
<1> DEFINE n == Len(text)
           T == {k \in Nat : k <= n => \E f : Splits(f, text, (n + 1) - k)}
<1>0. n \in Nat
  BY LenProperties
<1>1. 0 \in T
  <2> DEFINE f == [pos \in n + 1..n + 1 |-> Split(text, text, pos)]
  <2>1. ASSUME NEW pos \in n + 1..n + 1 PROVE Split(text, text, pos) = Split(f, text, pos)
    <3>1. pos..n - 1 = {}
      BY <1>0
    <3>2. Breaks(text, pos) = {}
      BY <3>1 DEF Breaks
    <3> QED BY <3>2 DEF Split
  <2>2. (n + 1) - 0 = n + 1
    BY <1>0
  <2>3. f = [pos \in n + 1..n + 1 |-> Split(f, text, pos)]
    BY <2>1, Zenon
  <2>4. Splits(f, text, (n + 1) - 0)
    BY <2>2, <2>3 DEF Splits
  <2> QED BY <2>4
<1>2. ASSUME NEW k \in T PROVE k + 1 \in T
  <2> SUFFICES ASSUME k + 1 <= n PROVE \E f : Splits(f, text, (n + 1) - (k + 1))
    OBVIOUS
  <2>1. PICK f : Splits(f, text, (n + 1) - k)
    BY <1>0
  <2> DEFINE m == (n + 1) - k
             g == [pos \in m - 1..n + 1 |-> IF pos = m - 1 THEN Split(f, text, pos) ELSE f[pos]]
  <2>2. k \in Nat
    OBVIOUS
  <2> HIDE DEF T
  <2>3. /\ m \in Nat /\ m > 1 /\ m <= n + 1 /\ (n + 1) - (k + 1) = m - 1
        /\ \A pos \in m - 1..n + 1 : pos = m - 1 \/ pos \in m..n + 1
        /\ \A pos \in m - 1..n + 1 : \A r \in pos + 1..n + 1 : r # m - 1 /\ r \in m - 1..n + 1
    BY <1>0, <2>2
  <2>4. f = [pos \in m..n + 1 |-> Split(f, text, pos)]
    BY <2>1 DEF Splits
  <2> HIDE DEF m
  <2>5. ASSUME NEW pos \in m - 1..n + 1 PROVE Split(g, text, pos) = Split(f, text, pos)
    <3>1. CASE Breaks(text, pos) = {}
      BY <3>1 DEF Split
    <3>2. CASE Breaks(text, pos) # {}
      <4> DEFINE r == Resume(text, Least(Breaks(text, pos)))
      <4>1. r \in pos + 1..n + 1
        <5>1. pos \in 1..Len(text) + 1
          BY <1>0, <2>3
        <5>2. PICK b \in pos..Len(text) - 1 : \E c \in b + 1..Len(text) + 1 :
                b = Least(Breaks(text, pos)) /\ c = Resume(text, b)
          BY <3>2, <5>1, BreakIs
        <5>3. PICK c \in b + 1..Len(text) + 1 : b = Least(Breaks(text, pos)) /\ c = r
          BY <5>2
        <5> HIDE DEF r
        <5>4. c \in pos + 1..n + 1
          BY <1>0, <5>1
        <5> QED BY <5>3, <5>4
      <4> HIDE DEF r
      <4>2. g[r] = f[r]
        BY <2>3, <4>1
      <4> HIDE DEF g
      <4> QED BY <4>2 DEF Split, r
    <3> QED BY <3>1, <3>2
  <2>6. ASSUME NEW pos \in m - 1..n + 1 PROVE g[pos] = Split(g, text, pos)
    <3>1. g[pos] = Split(f, text, pos)
      <4>1. CASE pos = m - 1
        BY <4>1
      <4>2. CASE pos # m - 1
        BY <2>3, <2>4, <4>2
      <4> QED BY <4>1, <4>2
    <3> HIDE DEF g
    <3> QED BY <2>5, <3>1
  <2>7. g = [pos \in m - 1..n + 1 |-> g[pos]]
    OBVIOUS
  <2> HIDE DEF g
  <2>8. g = [pos \in m - 1..n + 1 |-> Split(g, text, pos)]
    BY <2>6, <2>7, Zenon
  <2>9. Splits(g, text, (n + 1) - (k + 1))
    BY <2>3, <2>8 DEF Splits
  <2> QED BY <2>9
<1>3. T = Nat
  <2>1. T \in SUBSET Nat
    OBVIOUS
  <2> HIDE DEF T
  <2> QED BY <1>1, <1>2, <2>1, NatInduct
<1>4. n \in T /\ n <= n /\ (n + 1) - n = 1
  BY <1>0, <1>3
<1> QED BY <1>4

Splitting(text) == CHOOSE f : Splits(f, text, 1)

LEMMA SplittingIs ==
  ASSUME NEW text \in Seq(Chars)
  PROVE  /\ Paragraphs(text) = Splitting(text)[1]
         /\ \A pos \in 1..Len(text) + 1 :
              Splitting(text)[pos] = Split(Splitting(text), text, pos)
<1>1. Splits(Splitting(text), text, 1)
  BY SplitExists, Zenon DEF Splitting
<1>2. Paragraphs(text) = Splitting(text)[1]
  BY Zenon DEF Paragraphs, Splitting, Splits, Split
<1> QED BY <1>1, <1>2, Zenon DEF Splits

\* A split yields paragraphs and loses no content, if what follows it does.
SplitsWell(text, pos) ==
  /\ Splitting(text)[pos] \in Seq(Para)
  /\ Content(FlattenSeq(Splitting(text)[pos])) = Content(SubSeq(text, pos, Len(text)))

LEMMA ParagraphsAreTexts == \A s \in Seq(Para) : s \in Seq(Seq(Chars))
<1>1. Para \subseteq Seq(Chars)
  BY DEF Para
<1> QED BY <1>1, SeqMonotonic

LEMMA SplitStep ==
  ASSUME NEW text \in Seq(Chars), NEW pos \in 1..Len(text) + 1,
         \A r \in pos + 1..Len(text) + 1 : SplitsWell(text, r)
  PROVE  SplitsWell(text, pos)
<1> DEFINE n == Len(text)
           f == Splitting(text)
<1>1. n \in Nat /\ f[pos] = Split(f, text, pos)
  BY SplittingIs, LenProperties
<1>2. CASE Breaks(text, pos) = {}
  <2> DEFINE s == SubSeq(text, pos, n)
  <2>1. n \in pos - 1..Len(text)
    BY <1>1
  <2>2. s \in Seq(Chars)
    BY <2>1, Part
  <2>3. Breaks(s, 1) = {}
    <3>1. \A i \in pos..n - 1 : ~BreakAt(text, i)
      BY <1>2 DEF Breaks, BreakAt
    <3> QED BY <2>1, <3>1, PartBreaks
  <2>4. f[pos] = Kept(s)
    BY <1>1, <1>2 DEF Split
  <2> HIDE DEF s, f
  <2>5. Kept(s) \in Seq(Para) /\ Content(FlattenSeq(Kept(s))) = Content(s)
    BY <2>2, <2>3, KeptIs
  <2> QED BY <2>4, <2>5 DEF SplitsWell, s, f
<1>3. CASE Breaks(text, pos) # {}
  <2>1. PICK b \in pos..Len(text) - 1 : \E r \in b + 1..Len(text) + 1 :
          /\ b = Least(Breaks(text, pos)) /\ r = Resume(text, b)
          /\ \A i \in pos..b - 1 : ~BreakAt(text, i)
          /\ \A i \in b..r - 1 : text[i] = "n"
    BY <1>3, BreakIs
  <2>2. PICK r \in b + 1..Len(text) + 1 :
          /\ b = Least(Breaks(text, pos)) /\ r = Resume(text, b)
          /\ \A i \in pos..b - 1 : ~BreakAt(text, i)
          /\ \A i \in b..r - 1 : text[i] = "n"
    BY <2>1
  <2> DEFINE s == SubSeq(text, pos, b - 1)
             t == SubSeq(text, r, n)
  <2>3. /\ b - 1 \in pos - 1..n /\ r \in 1..n + 1 /\ n \in r - 1..n
        /\ r - 1 \in b - 1..n /\ n \in r - 1..n /\ (r - 1) + 1 = r /\ (b - 1) + 1 = b
        /\ r \in pos + 1..n + 1
    BY <1>1
  <2>4. s \in Seq(Chars) /\ t \in Seq(Chars)
    <3>1. s \in Seq(Chars)
      BY <2>3, Part
    <3>2. t \in Seq(Chars)
      BY <2>3, Part
    <3> QED BY <3>1, <3>2
  <2>5. Breaks(s, 1) = {}
    <3>1. \A i \in pos..(b - 1) - 1 : ~BreakAt(text, i)
      <4>1. \A i \in pos..(b - 1) - 1 : i \in pos..b - 1
        BY <1>1
      <4> QED BY <2>2, <4>1
    <3> QED BY <2>3, <3>1, PartBreaks
  <2>6. f[pos] = Kept(s) \o f[r]
    BY <1>1, <1>3, <2>2 DEF Split
  <2>7. Content(SubSeq(text, pos, n)) = Content(s) \o Content(t)
    <3>1. \A i \in (b - 1) + 1..r - 1 : text[i] \in Blank
      BY <2>2, <2>3 DEF Blank
    <3>2. Content(SubSeq(text, pos, n))
            = Content(SubSeq(text, pos, b - 1)) \o Content(SubSeq(text, (r - 1) + 1, n))
      BY <2>3, <3>1, BlanksBetween
    <3> QED BY <2>3, <3>2
  <2> HIDE DEF s, t, f
  <2>8. Kept(s) \in Seq(Para) /\ Content(FlattenSeq(Kept(s))) = Content(s)
    BY <2>4, <2>5, KeptIs
  <2>9. f[r] \in Seq(Para) /\ Content(FlattenSeq(f[r])) = Content(t)
    BY <2>3 DEF SplitsWell, t, f
  <2>10. Kept(s) \o f[r] \in Seq(Para)
    BY <2>8, <2>9, ConcatProperties
  <2>11. Content(FlattenSeq(Kept(s) \o f[r])) = Content(s) \o Content(t)
    <3>1. Kept(s) \in Seq(Seq(Chars)) /\ f[r] \in Seq(Seq(Chars))
      BY <2>8, <2>9, ParagraphsAreTexts
    <3>2. FlattenSeq(Kept(s)) \in Seq(Chars) /\ FlattenSeq(f[r]) \in Seq(Chars)
      BY <3>1, FlattenTyped
    <3>3. FlattenSeq(Kept(s) \o f[r]) = FlattenSeq(Kept(s)) \o FlattenSeq(f[r])
      BY <3>1, FlattenConcat
    <3>4. Content(FlattenSeq(Kept(s)) \o FlattenSeq(f[r]))
            = Content(FlattenSeq(Kept(s))) \o Content(FlattenSeq(f[r]))
      BY <3>2, ContentConcat
    <3> QED BY <2>8, <2>9, <3>3, <3>4
  <2> QED BY <2>6, <2>7, <2>10, <2>11 DEF SplitsWell, f
<1> QED BY <1>2, <1>3

\* Paragraphs hold the text, blanks apart.
LEMMA ParagraphsHoldText ==
  ASSUME NEW text \in Seq(Chars)
  PROVE  /\ Paragraphs(text) \in Seq(Para)
         /\ Content(FlattenSeq(Paragraphs(text))) = Content(text)
<1> DEFINE n == Len(text)
           T == {k \in Nat : \A pos \in 1..n + 1 : (n + 1) - pos <= k => SplitsWell(text, pos)}
<1>0. n \in Nat
  BY LenProperties
<1>1. 0 \in T
  <2> SUFFICES ASSUME NEW pos \in 1..n + 1, (n + 1) - pos <= 0
               PROVE  SplitsWell(text, pos)
    OBVIOUS
  <2>1. pos + 1..Len(text) + 1 = {}
    BY <1>0
  <2> QED BY <2>1, SplitStep
<1>2. ASSUME NEW k \in T PROVE k + 1 \in T
  <2> SUFFICES ASSUME NEW pos \in 1..n + 1, (n + 1) - pos <= k + 1
               PROVE  SplitsWell(text, pos)
    OBVIOUS
  <2>1. k \in Nat
    OBVIOUS
  <2>2. \A r \in pos + 1..n + 1 : r \in 1..n + 1 /\ (n + 1) - r <= k
    BY <1>0, <2>1
  <2>3. \A r \in pos + 1..n + 1 : SplitsWell(text, r)
    BY <2>2
  <2> HIDE DEF T
  <2> QED BY <2>3, SplitStep
<1>3. T = Nat
  <2>1. T \in SUBSET Nat
    OBVIOUS
  <2> HIDE DEF T
  <2> QED BY <1>1, <1>2, <2>1, NatInduct
<1>4. SplitsWell(text, 1)
  <2>1. n \in T /\ 1 \in 1..n + 1 /\ (n + 1) - 1 <= n
    BY <1>0, <1>3
  <2> QED BY <2>1
<1>5. SubSeq(text, 1, n) = text
  BY SubSeqFull
<1> QED BY <1>4, <1>5, SplittingIs DEF SplitsWell

\* A paragraph is its only paragraph.
LEMMA ParagraphStays ==
  ASSUME NEW p \in Para
  PROVE  Paragraphs(p) = <<p>>
<1>1. p \in Seq(Chars) /\ p # <<>> /\ Breaks(p, 1) = {} /\ Trim(p) = p
  BY DEF Para
<1>2. 1 \in 1..Len(p) + 1 /\ SubSeq(p, 1, Len(p)) = p
  BY <1>1, LenProperties, SubSeqFull
<1>3. Paragraphs(p) = Split(Splitting(p), p, 1)
  BY <1>1, <1>2, SplittingIs
<1>4. Split(Splitting(p), p, 1) = Kept(p)
  BY <1>1, <1>2 DEF Split
<1> QED BY <1>1, <1>3, <1>4 DEF Kept

\* A sequence that is not empty is its front and its last.
LEMMA FrontAndLast ==
  ASSUME NEW S, NEW s \in Seq(S), s # <<>>
  PROVE  /\ Front(s) \in Seq(S) /\ Last(s) \in S
         /\ s = Append(Front(s), Last(s))
         /\ \A i \in DOMAIN Front(s) : i \in DOMAIN s /\ Front(s)[i] = s[i]
         /\ \E i \in DOMAIN s : Last(s) = s[i]
<1>1. PICK t \in Seq(S) : \E e \in S : s = Append(t, e)
  BY SequenceEmptyOrAppend
<1>2. PICK e \in S : s = Append(t, e)
  BY <1>1
<1> DEFINE n == Len(t)
<1>3. /\ n \in Nat /\ Len(s) = n + 1 /\ s[n + 1] = e
      /\ \A i \in 1..n : s[i] = t[i]
      /\ DOMAIN s = 1..(n + 1) /\ DOMAIN t = 1..n
  BY <1>2, AppendProperties, LenProperties
<1> HIDE DEF n
<1>4. Last(s) = e
  BY <1>3 DEF Last
<1>5. Front(s) = SubSeq(s, 1, n)
  BY <1>3 DEF Front
<1>6. SubSeq(s, 1, n) = t
  <2>1. 1 \in Int /\ n \in Int /\ \A i \in 1..n : s[i] \in S
    BY <1>3, ElementOfSeq DEF n
  <2>2. /\ SubSeq(s, 1, n) \in Seq(S)
        /\ Len(SubSeq(s, 1, n)) = IF 1 <= n THEN n - 1 + 1 ELSE 0
        /\ \A i \in 1..n - 1 + 1 : SubSeq(s, 1, n)[i] = s[1 + i - 1]
    BY <2>1, SubSeqProperties
  <2>3. Len(SubSeq(s, 1, n)) = n /\ \A i \in 1..n : SubSeq(s, 1, n)[i] = s[i]
    <3>1. (IF 1 <= n THEN n - 1 + 1 ELSE 0) = n /\ n - 1 + 1 = n
      BY <1>3
    <3>2. \A i \in 1..n : 1 + i - 1 = i
      OBVIOUS
    <3> QED BY <2>2, <3>1, <3>2
  <2> QED BY <1>3, <2>2, <2>3, SeqEqual DEF n
<1>7. n + 1 \in DOMAIN s /\ \A i \in 1..n : i \in DOMAIN s
  BY <1>3
<1> QED BY <1>2, <1>3, <1>4, <1>5, <1>6, <1>7

\* Chunks that hold a content and are within the target or one paragraph.
Fits(chunk) == chunk \in Para \/ Bytes(chunk) <= job.target
Chunks(chunks) == chunks \in Seq(Seq(Chars)) /\ \A i \in DOMAIN chunks : Fits(chunks[i])
Holds(chunks) == Content(FlattenSeq(chunks))

LEMMA AppendChunk ==
  ASSUME NEW chunks, Chunks(chunks), NEW s \in Seq(Chars), Fits(s)
  PROVE  /\ Chunks(Append(chunks, s))
         /\ Holds(Append(chunks, s)) = Holds(chunks) \o Content(s)
<1> DEFINE n == Len(chunks)
           t == Append(chunks, s)
<1>1. chunks \in Seq(Seq(Chars)) /\ \A i \in DOMAIN chunks : Fits(chunks[i])
  BY DEF Chunks
<1>2. /\ t \in Seq(Seq(Chars)) /\ n \in Nat /\ DOMAIN chunks = 1..n /\ DOMAIN t = 1..(n + 1)
      /\ \A i \in 1..n : t[i] = chunks[i]
      /\ t[n + 1] = s
  BY <1>1, AppendProperties, LenProperties
<1>3. FlattenSeq(t) = FlattenSeq(chunks) \o s /\ FlattenSeq(chunks) \in Seq(Chars)
  BY <1>1, FlattenTyped
<1>4. Content(FlattenSeq(chunks) \o s) = Content(FlattenSeq(chunks)) \o Content(s)
  BY <1>3, ContentConcat
<1> HIDE DEF n, t
<1>5. ASSUME NEW i \in DOMAIN t PROVE Fits(t[i])
  <2>1. CASE i = n + 1
    BY <1>2, <2>1
  <2>2. CASE i # n + 1
    <3>1. i \in 1..n
      BY <1>2, <2>2
    <3> QED BY <1>1, <1>2, <3>1
  <2> QED BY <2>1, <2>2
<1>6. Chunks(t)
  BY <1>2, <1>5 DEF Chunks
<1> QED BY <1>3, <1>4, <1>6 DEF Holds, t

\* One more paragraph.
LEMMA AddParagraphHolds ==
  ASSUME job.target \in Nat, NEW chunks, Chunks(chunks), NEW para \in Para
  PROVE  /\ Chunks(AddParagraph(chunks, para))
         /\ Holds(AddParagraph(chunks, para)) = Holds(chunks) \o Content(para)
<1>1. chunks \in Seq(Seq(Chars)) /\ \A i \in DOMAIN chunks : Fits(chunks[i])
  BY DEF Chunks
<1>2. para \in Seq(Chars) /\ Fits(para)
  BY DEF Para, Fits
<1>3. CASE ~(chunks # <<>> /\ Bytes(Last(chunks)) + Bytes(para) + 2 <= job.target)
  <2>1. AddParagraph(chunks, para) = Append(chunks, para)
    BY <1>3 DEF AddParagraph
  <2> QED BY <1>2, <2>1, AppendChunk
<1>4. CASE chunks # <<>> /\ Bytes(Last(chunks)) + Bytes(para) + 2 <= job.target
  <2> DEFINE front == Front(chunks)
             last == Last(chunks)
             gap == <<"n", "n">>
             both == last \o gap \o para
  <2>1. /\ front \in Seq(Seq(Chars)) /\ last \in Seq(Chars)
        /\ chunks = Append(front, last)
        /\ \A i \in DOMAIN front : i \in DOMAIN chunks /\ front[i] = chunks[i]
        /\ \E i \in DOMAIN chunks : last = chunks[i]
    BY <1>1, <1>4, FrontAndLast
  <2>2. AddParagraph(chunks, para) = Append(front, both)
    BY <1>4 DEF AddParagraph
  <2>3. gap \in Seq(Chars) /\ gap = Append(Append(<<>>, "n"), "n")
    BY DEF Chars
  <2>4. Content(gap) = <<>> /\ Bytes(gap) = 2
    <3>1. "n" \in Chars /\ "n" \in Blank /\ "n" # "e"
      BY DEF Chars, Blank
    <3>2. <<>> \in Seq(Chars) /\ Append(<<>>, "n") \in Seq(Chars) /\ Len(<<>>) = 0
      BY <3>1, EmptySeq, AppendProperties
    <3>3. Content(gap) = <<>>
      BY <2>3, <3>1, <3>2, ContentIs
    <3>4. Bytes(<<>>) = 0
      BY <3>2, OffsetRises
    <3>5. /\ Bytes(Append(<<>>, "n")) = Bytes(<<>>) + 1
          /\ Bytes(Append(Append(<<>>, "n"), "n")) = Bytes(Append(<<>>, "n")) + 1
      <4>1. \A s \in Seq(Chars) : Bytes(Append(s, "n")) = Bytes(s) + 1
        BY <3>1, BytesAppend
      <4> HIDE DEF Chars
      <4> QED BY <3>2, <4>1
    <3> HIDE DEF gap
    <3>6. Bytes(gap) = (0 + 1) + 1
      BY <2>3, <3>4, <3>5
    <3> QED BY <3>3, <3>6
  <2> HIDE DEF front, last, gap, both
  <2>5. /\ last \o gap \in Seq(Chars) /\ both \in Seq(Chars)
        /\ both = (last \o gap) \o para
    BY <1>2, <2>1, <2>3, ConcatProperties DEF both
  <2>6. Content(both) = Content(last) \o Content(para)
    <3>1. /\ Content(both) = Content(last \o gap) \o Content(para)
          /\ Content(last \o gap) = Content(last) \o Content(gap)
          /\ Content(last) \in Seq(Chars)
      BY <1>2, <2>1, <2>3, <2>5, ContentConcat, ContentIs
    <3> QED BY <2>4, <3>1, ConcatEmptySeq
  <2>7. Bytes(both) <= job.target
    <3>1. Bytes(both) = Bytes(last \o gap) + Bytes(para)
      BY <1>2, <2>5, BytesConcat
    <3>2. Bytes(last \o gap) = Bytes(last) + 2
      BY <2>1, <2>3, <2>4, BytesConcat
    <3>3. Bytes(last) + Bytes(para) + 2 <= job.target
      BY <1>4 DEF last
    <3>4. Bytes(last) \in Nat /\ Bytes(para) \in Nat
      <4>1. "a" \in Chars
        BY DEF Chars
      <4> QED BY <1>2, <2>1, <4>1, BytesAppend
    <3>5. \A x, y, z \in Nat : x + y + 2 <= z => (x + 2) + y <= z
      OBVIOUS
    <3> QED BY <3>1, <3>2, <3>3, <3>4, <3>5
  <2>8. Chunks(front) /\ Fits(last) /\ Fits(both)
    BY <1>1, <2>1, <2>7 DEF Chunks, Fits
  <2>9. Holds(chunks) = Holds(front) \o Content(last)
    BY <2>1, <2>8, AppendChunk
  <2>10. Chunks(Append(front, both)) /\ Holds(Append(front, both)) = Holds(front) \o Content(both)
    BY <2>5, <2>8, AppendChunk
  <2>11. (Holds(front) \o Content(last)) \o Content(para)
            = Holds(front) \o (Content(last) \o Content(para))
    <3>1. FlattenSeq(front) \in Seq(Chars)
      BY <2>1, FlattenTyped
    <3>2. Holds(front) \in Seq(Chars) /\ Content(last) \in Seq(Chars) /\ Content(para) \in Seq(Chars)
      BY <1>2, <2>1, <3>1, ContentIs DEF Holds
    <3> QED BY <3>2, ConcatAssociative
  <2> QED BY <2>2, <2>6, <2>9, <2>10, <2>11
<1> QED BY <1>3, <1>4

Grouping == INSTANCE LeftFold WITH Op <- AddParagraph, Base <- <<>>

\* Group joins paragraphs and loses no content.
LEMMA GroupHolds ==
  ASSUME job.target \in Nat, NEW paras \in Seq(Para)
  PROVE  Chunks(Group(paras)) /\ Holds(Group(paras)) = Holds(paras)
<1> DEFINE F(s) == Chunks(Group(s)) /\ Holds(Group(s)) = Holds(s)
           T == {s \in Seq(Para) : F(s)}
<1>1. \A s : Grouping!Folded(s) = Group(s)
  BY Zenon DEF Grouping!Folded, Grouping!FoldLeft, Grouping!MapThenFoldSet, Grouping!Max,
               AddParagraph, Group, FoldLeft, MapThenFoldSet, Max
<1>2. <<>> \in T
  <2>1. Group(<<>>) = <<>>
    BY <1>1, Grouping!FoldedEmpty, Zenon
  <2>2. Chunks(<<>>)
    BY EmptySeq DEF Chunks
  <2> QED BY <2>1, <2>2, EmptySeq
<1>3. ASSUME NEW s \in T, NEW p \in Para PROVE Append(s, p) \in T
  <2>1. s \in Seq(Para) /\ F(s) /\ Append(s, p) \in Seq(Para)
    BY AppendProperties
  <2>2. Group(Append(s, p)) = AddParagraph(Group(s), p)
    <3>1. Grouping!Folded(Append(s, p)) = AddParagraph(Grouping!Folded(s), p)
      BY <2>1, Grouping!FoldedAppend, Zenon
    <3> QED BY <1>1, <3>1, Zenon
  <2> HIDE DEF T
  <2>3. /\ Chunks(AddParagraph(Group(s), p))
        /\ Holds(AddParagraph(Group(s), p)) = Holds(Group(s)) \o Content(p)
    BY <2>1, AddParagraphHolds
  <2>4. Holds(Append(s, p)) = Holds(s) \o Content(p)
    <3>1. s \in Seq(Seq(Chars)) /\ p \in Seq(Chars)
      BY <2>1, ParagraphsAreTexts DEF Para
    <3>2. FlattenSeq(Append(s, p)) = FlattenSeq(s) \o p /\ FlattenSeq(s) \in Seq(Chars)
      BY <3>1, FlattenTyped
    <3>3. Content(FlattenSeq(s) \o p) = Content(FlattenSeq(s)) \o Content(p)
      BY <3>1, <3>2, ContentConcat
    <3> QED BY <3>2, <3>3 DEF Holds
  <2>5. F(Append(s, p))
    BY <2>1, <2>2, <2>3, <2>4
  <2> QED BY <2>1, <2>5 DEF T
<1>4. T = Seq(Para)
  <2>1. T \in SUBSET Seq(Para)
    OBVIOUS
  <2> HIDE DEF T
  <2> QED BY <1>2, <1>3, <2>1, SeqInduct
<1> QED BY <1>4

\* Blank pieces hold nothing.
LEMMA BlankPieces ==
  ASSUME NEW pieces \in Seq({s \in Seq(Chars) : Blanks(s)})
  PROVE  Content(FlattenSeq(pieces)) = <<>>
<1> DEFINE B == {s \in Seq(Chars) : Blanks(s)}
           T == {u \in Seq(B) : Content(FlattenSeq(u)) = <<>>}
<1>1. <<>> \in T
  BY FlattenEmpty, ContentIs, EmptySeq
<1>2. ASSUME NEW u \in T, NEW s \in B PROVE Append(u, s) \in T
  <2>1. u \in Seq(B) /\ Content(FlattenSeq(u)) = <<>> /\ Append(u, s) \in Seq(B)
    BY AppendProperties
  <2>2. s \in Seq(Chars) /\ Content(s) = <<>>
    BY BlanksHaveNoContent
  <2>3. u \in Seq(Seq(Chars))
    <3>1. B \subseteq Seq(Chars)
      OBVIOUS
    <3> HIDE DEF B
    <3> QED BY <2>1, <3>1, SeqMonotonic
  <2> HIDE DEF T, B
  <2>4. FlattenSeq(Append(u, s)) = FlattenSeq(u) \o s /\ FlattenSeq(u) \in Seq(Chars)
    BY <2>2, <2>3, FlattenTyped
  <2>5. Content(FlattenSeq(u) \o s) = Content(FlattenSeq(u)) \o Content(s)
    BY <2>2, <2>4, ContentConcat
  <2>6. <<>> \o <<>> = <<>>
    BY ConcatEmptySeq, EmptySeq
  <2>7. Content(FlattenSeq(Append(u, s))) = <<>>
    BY <2>1, <2>2, <2>4, <2>5, <2>6
  <2> QED BY <2>1, <2>7 DEF T
<1>3. T = Seq(B)
  <2>1. T \in SUBSET Seq(B)
    OBVIOUS
  <2> HIDE DEF T, B
  <2> QED BY <1>1, <1>2, <2>1, SeqInduct
<1> QED BY <1>3

LEMMA SplitHoldsText ==
  ASSUME job \in Jobs, SplitIntoChunks
  PROVE  ChunksKeepText'
<1> DEFINE paragraphs == Paragraphs(job.text)
           target == job.target
           pieces == (Len(job.text) + target - 1) \div target
           cut(k) == SubSeq(job.text, (k - 1) * target + 1, Smaller(k * target, Len(job.text)))
<1>1. job.op = "chunks" /\ job.text \in Seq(Chars) /\ target \in Nat
  BY JobsAreTyped DEF SplitIntoChunks, Running
<1>2. /\ paragraphs \in Seq(Para)
      /\ Content(FlattenSeq(paragraphs)) = Content(job.text)
  BY <1>1, ParagraphsHoldText
<1>3. CASE paragraphs # <<>> \/ job.text = <<>>
  <2> DEFINE chunks == Group(paragraphs)
  <2>1. job' = job /\ out' = chunks
    BY <1>3 DEF SplitIntoChunks, Return
  <2>2. Chunks(chunks) /\ Holds(chunks) = Holds(paragraphs)
    BY <1>1, <1>2, GroupHolds
  <2> HIDE DEF chunks, paragraphs
  <2>3. ASSUME NEW i \in DOMAIN chunks, Bytes(chunks[i]) > target
        PROVE  Len(Paragraphs(chunks[i])) = 1
    <3>1. chunks \in Seq(Seq(Chars)) /\ Fits(chunks[i])
      BY <2>2 DEF Chunks
    <3>2. chunks[i] \in Seq(Chars)
      BY <3>1, LenProperties, ElementOfSeq
    <3>3. Bytes(chunks[i]) \in Nat
      <4>1. "a" \in Chars
        BY DEF Chars
      <4> QED BY <3>2, <4>1, BytesAppend
    <3>4. chunks[i] \in Para
      BY <1>1, <2>3, <3>1, <3>3 DEF Fits
    <3>5. Paragraphs(chunks[i]) = <<chunks[i]>>
      BY <3>4, ParagraphStays
    <3> QED BY <3>5
  <2>4. Content(FlattenSeq(chunks)) = Content(job.text)
    BY <1>2, <2>2 DEF Holds
  <2>5. KeepText(job, chunks)
    BY <2>3, <2>4 DEF KeepText
  <2> QED BY <2>1, <2>5 DEF ChunksKeepText
<1>4. CASE ~(paragraphs # <<>> \/ job.text = <<>>) /\ target = 0
  <2>1. pc' = "panic"
    BY <1>4 DEF SplitIntoChunks, Fails
  <2> QED BY <2>1 DEF ChunksKeepText, Done
<1>5. CASE ~(paragraphs # <<>> \/ job.text = <<>>) /\ target # 0
  <2> DEFINE n == Len(job.text)
             B == {s \in Seq(Chars) : Blanks(s)}
             cuts == [k \in 1..pieces |-> cut(k)]
  <2>1. job' = job /\ out' = cuts
    BY <1>5 DEF SplitIntoChunks, Return
  <2>2. Content(job.text) = <<>>
    <3>1. paragraphs = <<>>
      BY <1>5
    <3> QED BY <1>2, <3>1, FlattenEmpty, ContentIs
  <2>3. Blanks(job.text)
    BY <1>1, <2>2, BlanksHaveNoContent
  <2>4. n \in Nat /\ DOMAIN job.text = 1..n /\ \A i \in 1..n : job.text[i] \in Chars
    BY <1>1, LenProperties, ElementOfSeq
  <2>5. pieces \in Nat
    <3>1. \A x \in Nat, y \in Nat \ {0} : (x + y - 1) \div y \in Nat
      OBVIOUS
    <3> HIDE DEF n, target
    <3> QED BY <1>1, <1>5, <2>4, <3>1 DEF n, target
  <2>6. ASSUME NEW k \in 1..pieces PROVE cut(k) \in B
    <3> DEFINE a == (k - 1) * target + 1
               b == Smaller(k * target, n)
               s == SubSeq(job.text, a, b)
    <3>1. (k - 1) * target \in Nat /\ k * target \in Nat
      <4>1. \A x, y \in Nat : x * y \in Nat
        OBVIOUS
      <4>2. k - 1 \in Nat /\ k \in Nat
        BY <2>5
      <4> QED BY <1>1, <4>1, <4>2
    <3>2. a \in Int /\ b \in Int /\ a >= 1 /\ b <= n
      BY <2>4, <3>1 DEF Smaller
    <3> HIDE DEF a, b, n
    <3>3. \A i \in a..b : i \in 1..n
      BY <2>4, <3>2
    <3>4. /\ s \in Seq(Chars)
          /\ Len(s) = IF a <= b THEN b - a + 1 ELSE 0
          /\ \A i \in 1..b - a + 1 : s[i] = job.text[a + i - 1]
      BY <2>4, <3>2, <3>3, SubSeqProperties
    <3>5. ASSUME NEW i \in DOMAIN s PROVE s[i] \in Blank
      <4>1. DOMAIN s = 1..Len(s)
        BY <3>4, LenProperties
      <4>2. i \in 1..b - a + 1 /\ a + i - 1 \in a..b
        <5> HIDE DEF s
        <5> QED BY <3>2, <3>4, <4>1
      <4>3. s[i] = job.text[a + i - 1] /\ a + i - 1 \in 1..n
        BY <3>3, <3>4, <4>2
      <4> QED BY <2>3, <2>4, <4>3 DEF Blanks
    <3>6. s \in B
      BY <3>4, <3>5 DEF Blanks
    <3> QED BY <3>6 DEF a, b, n
  <2> HIDE DEF B, cut, pieces
  <2>7. cuts \in Seq(B)
    BY <2>5, <2>6, SeqDef
  <2>8. Content(FlattenSeq(cuts)) = <<>>
    BY <2>7, BlankPieces DEF B
  <2>9. KeepText(job, cuts)
    BY <2>2, <2>8 DEF KeepText
  <2> QED BY <2>1, <2>9 DEF ChunksKeepText
<1> QED BY <1>3, <1>4, <1>5

ChunksInv == job \in Jobs /\ ChunksKeepText

\* The chunks of llm_reduce hold the whole text and only a single paragraph
\* goes over the target (split_into_chunks).
THEOREM ChunksHoldText == Spec => []ChunksKeepText
<1>1. Init => ChunksInv
  BY DEF Init, ChunksInv, ChunksKeepText, Done
<1>2. ChunksInv /\ [Next]_vars => ChunksInv'
  <2> SUFFICES ASSUME ChunksInv, [Next]_vars PROVE ChunksInv'
    OBVIOUS
  <2>1. job' = job /\ job \in Jobs
    BY StepsOfJobs DEF ChunksInv
  <2>2. CASE UNCHANGED vars
    BY <2>2 DEF vars, ChunksInv, ChunksKeepText, Done
  <2>3. CASE SplitIntoChunks
    BY <2>1, <2>3, SplitHoldsText DEF ChunksInv
  <2>4. CASE job.op # "chunks"
    BY <2>1, <2>4 DEF ChunksInv, ChunksKeepText, Done
  <2> QED BY <2>2, <2>3, <2>4, StepsOfJobs
<1> QED BY <1>1, <1>2, PTL DEF Spec, ChunksInv
=============================================================================
