-------------------------------- MODULE Text --------------------------------
(***************************************************************************)
(* How the RLM cuts, chunks and ranks text: the data commands of            *)
(* commands/mod.rs and the reductions of orchestrator.rs.  A job is one     *)
(* such computation on one input.  A text is a sequence of characters,      *)
(* reduced to what the code tells apart: "a" and "b" stand for content,     *)
(* "e" for content of two bytes, " " for a blank, "n" for a newline and     *)
(* "#" for what starts a section marker.  Lines and terms that are ranked   *)
(* are known by their position and their weight.                            *)
(***************************************************************************)
EXTENDS Integers, Sequences, FiniteSets, SequencesExt

CONSTANT Jobs  \* the inputs: records with a field op

Chars == {"a", "b", "e", " ", "n", "#"}
Combiners == {"count", "sum", "max", "min", "first", "last", "list"}

\* What the callers pass.  Only the indices of a slice may be negative; a
\* selection knows the length of every line that it has weighed.
JobsAssumption == \A j \in Jobs :
  \/ j \in [op : {"slice", "lines"}, text : Seq(Chars), start : Int, end : Int]
  \/ j \in [op : {"truncate"}, text : Seq(Chars), limit : Nat]
  \/ j \in [op : {"chunks"}, text : Seq(Chars), target : Nat]
  \/ j \in [op : {"reduce"}, text : Seq(Chars), size : Nat, fuel : Nat]
  \/ j \in [op : {"find"}, weight : Seq(Nat)]
  \/ j \in [op : {"index"}, weight : Seq(Nat), least : Nat, limit : Nat]
  \/ j \in [op : {"mapreduce"}, lengths : Seq(Nat), fuel : Nat,
            pairs : Seq([key : STRING, value : Seq(Int)]), combiner : Combiners,
            sort : BOOLEAN, limit : Nat]
  \/ /\ j \in [op : {"select"}, weight : Seq(Nat), length : Seq(Nat), target : Nat]
     /\ DOMAIN j.length = DOMAIN j.weight

ASSUME JobsAssumption

VARIABLES
  job,
  pc,     \* run, done, error, fuel, panic
  start,  \* the reduction's loop: bytes passed on so far
  fuel,   \* what is left for a reduction's module
  out     \* what the job has produced

vars == <<job, pc, start, fuel, out>>

Init ==
  /\ job \in Jobs /\ pc = "run" /\ start = 0 /\ out = <<>>
  /\ fuel = IF job.op = "reduce" THEN job.fuel ELSE 0

Running(op) == pc = "run" /\ job.op = op
Return(value) == pc' = "done" /\ out' = value /\ UNCHANGED <<job, start, fuel>>
Fails(kind) == pc' = kind /\ UNCHANGED <<job, start, fuel, out>>

Smaller(a, b) == IF a < b THEN a ELSE b
Larger(a, b) == IF a > b THEN a ELSE b
Least(S) == CHOOSE x \in S : \A y \in S : x <= y
Greatest(S) == CHOOSE x \in S : \A y \in S : x >= y

-----------------------------------------------------------------------------
(* Bytes and lines.                                                         *)

\* Offset(text)[i]: the byte where character i + 1 begins.
Offset(text) ==
  [i \in 0..Len(text) |-> i + Cardinality({k \in 1..i : text[k] = "e"})]
Bytes(text) == Offset(text)[Len(text)]
Boundaries(text) == {Offset(text)[i] : i \in 0..Len(text)}

\* The characters that lie in a range of bytes between two boundaries.
Between(text, from, to) ==
  LET at == Offset(text)
      inside == {i \in DOMAIN text : from <= at[i - 1] /\ at[i] <= to}
  IN IF inside = {} THEN <<>> ELSE SubSeq(text, Least(inside), Greatest(inside))

\* to_ascii: one question mark for each byte of a longer character.
Ascii(c) == IF c = "e" THEN <<"?", "?">> ELSE <<c>>
ToAscii(text) == FlattenSeq([i \in DOMAIN text |-> Ascii(text[i])])

\* str::lines: a newline ends a line, and starts none at the end of the text.
Lines(text) ==
  LET ends == {i \in DOMAIN text : text[i] = "n"}
              \union (IF text # <<>> /\ Last(text) # "n" THEN {Len(text) + 1} ELSE {})
      order == SetToSortSeq(ends, <)
  IN [k \in DOMAIN order |->
        SubSeq(text, IF k = 1 THEN 1 ELSE order[k - 1] + 1, order[k] - 1)]

\* resolve_index: a negative index counts from the end, and all are clamped.
ResolveIndex(index, length) ==
  IF index >= 0 THEN Smaller(index, length) ELSE Larger(length + index, 0)

\* The bounds of a slice, in order.
Range2(job1, length) ==
  LET s == ResolveIndex(job1.start, length)
      e == ResolveIndex(job1.end, length)
  IN <<Smaller(s, e), Larger(s, e)>>

\* Mutant: both ends are widened downwards.
Slice_Down ==
  /\ Running("slice")
  /\ LET r == Range2(job, Bytes(job.text))
         below(i) == Greatest({b \in Boundaries(job.text) : b <= i})
     IN Return(Between(job.text, below(r[1]), below(r[2])))

\* slice: both ends are widened to the next character.
Slice ==
  /\ Running("slice")
  /\ LET r == Range2(job, Bytes(job.text))
         below == Greatest({b \in Boundaries(job.text) : b <= r[1]})
         above == Least({b \in Boundaries(job.text) : b >= r[2]})
     IN Return(Between(job.text, below, above))

SliceLines ==
  /\ Running("lines")
  /\ LET lines == Lines(job.text)
         r == Range2(job, Len(lines))
     IN Return(SubSeq(lines, r[1] + 1, r[2]))

\* truncate_output: <<head, tail>> of an output over the limit.
TruncateOutput ==
  /\ Running("truncate")
  /\ LET at == Offset(job.text)
         half == job.limit \div 2
         heads == {i \in DOMAIN job.text : at[i - 1] < half}
         tails == {i \in DOMAIN job.text : at[i - 1] >= Bytes(job.text) - half}
     IN Return(IF Bytes(job.text) <= job.limit THEN <<DOMAIN job.text, {}>>
               ELSE <<heads, tails>>)

-----------------------------------------------------------------------------
(* Chunks for llm_reduce: paragraphs, grouped up to a target size.          *)

Blank == {" ", "n"}
Trim(s) ==
  LET content == {i \in DOMAIN s : s[i] \notin Blank}
  IN IF content = {} THEN <<>> ELSE SubSeq(s, Least(content), Greatest(content))

\* A paragraph ends at a newline before another one, or before a marker.
Breaks(text, pos) ==
  {i \in pos..Len(text) - 1 : text[i] = "n" /\ text[i + 1] \in {"n", "#"}}
\* The next one begins after the newlines.
Resume(text, break) ==
  Least({i \in break + 1..Len(text) + 1 : i = Len(text) + 1 \/ text[i] # "n"})

\* A paragraph of blanks is skipped.
Kept(s) == IF Trim(s) = <<>> THEN <<>> ELSE <<Trim(s)>>

Paragraphs(text) ==
  LET f[pos \in 1..Len(text) + 1] ==
        LET break == Least(Breaks(text, pos)) IN
        IF Breaks(text, pos) = {} THEN Kept(SubSeq(text, pos, Len(text)))
        ELSE Kept(SubSeq(text, pos, break - 1)) \o f[Resume(text, break)]
  IN f[1]

\* Mutant: the paragraph that fits is joined and then starts a chunk as well.
AddParagraph_Twice(chunks, para) ==
  IF chunks # <<>> /\ Bytes(Last(chunks)) + Bytes(para) + 2 <= job.target
  THEN Front(chunks) \o <<Last(chunks) \o <<"n", "n">> \o para, para>>
  ELSE Append(chunks, para)

\* A paragraph joins the last chunk when it still fits.
AddParagraph(chunks, para) ==
  IF chunks # <<>> /\ Bytes(Last(chunks)) + Bytes(para) + 2 <= job.target
  THEN Append(Front(chunks), Last(chunks) \o <<"n", "n">> \o para)
  ELSE Append(chunks, para)

Group(paragraphs) == FoldLeft(AddParagraph, <<>>, paragraphs)

\* split_into_chunks.  A text of blanks has no paragraph and is cut by length;
\* a length of zero cannot be cut.
SplitIntoChunks ==
  /\ Running("chunks")
  /\ LET paragraphs == Paragraphs(job.text)
         pieces == (Len(job.text) + job.target - 1) \div job.target
     IN IF paragraphs # <<>> \/ job.text = <<>>
        THEN Return(Group(paragraphs))
        ELSE IF job.target = 0 THEN Fails("panic")
        ELSE Return([k \in 1..pieces |->
                       SubSeq(job.text, (k - 1) * job.target + 1,
                              Smaller(k * job.target, Len(job.text)))])

-----------------------------------------------------------------------------
(* rust_wasm_reduce_intent: the source goes through the module in pieces     *)
(* that end at a newline when there is one.                                  *)

Source == ToAscii(job.text)

\* Mutant: a full piece is taken whole.
PieceEnd_Full(from) == Smaller(from + job.size, Len(Source))

PieceEnd(from) ==
  LET end == Smaller(from + job.size, Len(Source))
      newlines == {i \in from + 1..end : Source[i] = "n"}
  IN IF end < Len(Source) /\ newlines # {} THEN Greatest(newlines) ELSE end

\* Mutant: every piece has the whole fuel, as every call of execute has.
FuelLeft_Refilled(cost) == job.fuel - cost

\* The fuel is given once, when the instance is made.
FuelLeft(cost) == fuel - cost

\* One piece goes through the module.  Its calls to alloc and reduce_chunk burn
\* fuel whatever they are given, and each byte burns more.
ProcessChunk ==
  /\ Running("reduce") /\ start < Len(Source)
  /\ LET cost == PieceEnd(start) - start + 1 IN
     IF cost > fuel THEN Fails("fuel")
     ELSE /\ start' = PieceEnd(start)
          /\ fuel' = FuelLeft(cost)
          /\ out' = out \o SubSeq(Source, start + 1, PieceEnd(start))
          /\ UNCHANGED <<job, pc>>

Finalize ==
  /\ Running("reduce") /\ start >= Len(Source)
  /\ pc' = "done"
  /\ UNCHANGED <<job, start, fuel, out>>

\* map_line: every line has the whole fuel.
MapOutOfFuel ==
  /\ Running("mapreduce")
  /\ \E i \in DOMAIN job.lengths : job.lengths[i] > job.fuel
  /\ Fails("fuel")

\* The generated module may fail at any call, or burn all its fuel in one.
ModuleFails ==
  /\ Running("reduce") \/ Running("mapreduce")
  /\ \E kind \in {"error", "fuel"} : Fails(kind)

-----------------------------------------------------------------------------
(* Rankings.  A hash map yields its keys in any order and the sorts are      *)
(* stable.                                                                   *)

Orders(keys) == SetToSeqs(keys)
Descending(order, weight) ==
  \A i, j \in DOMAIN order : i < j => weight[order[i]] >= weight[order[j]]
\* Equal weights keep the order of the input.
Stable(order, weight) ==
  \A i, j \in DOMAIN order : i < j =>
    \/ weight[order[i]] > weight[order[j]]
    \/ weight[order[i]] = weight[order[j]] /\ order[i] < order[j]
Weighed == {i \in DOMAIN job.weight : job.weight[i] > 0}
Take(s, n) == SubSeq(s, 1, Smaller(n, Len(s)))

\* find: the lines that hold a word of the query, by how many they hold.
Find ==
  /\ Running("find")
  /\ \E order \in Orders(Weighed) : Stable(order, job.weight) /\ Return(order)

\* index_terms: frequent terms, the most frequent first.
IndexTerms ==
  /\ Running("index")
  /\ LET terms == {t \in DOMAIN job.weight : job.weight[t] >= job.least} IN
     \E order \in Orders(terms) :
       Descending(order, job.weight) /\ Return(Take(order, job.limit))

\* rust_wasm_mapreduce: the values of the key in the order of the lines; a
\* value is <<n>> when it reads as a number, else <<>>.
Values(pairs, key) ==
  LET own == SelectSeq(pairs, LAMBDA p : p.key = key)
  IN [i \in DOMAIN own |-> own[i].value]

Numbers(values) == FlattenSeq(values)

Combined(j, key) ==
  LET values == Values(j.pairs, key)
      numbers == Numbers(values)
      among == {numbers[i] : i \in DOMAIN numbers}
  IN CASE j.combiner = "count" -> <<Len(values)>>
       [] j.combiner = "sum"   -> <<FoldLeft(LAMBDA a, b : a + b, 0, numbers)>>
       [] j.combiner = "max"   -> IF among = {} THEN <<>> ELSE <<Greatest(among)>>
       [] j.combiner = "min"   -> IF among = {} THEN <<>> ELSE <<Least(among)>>
       [] j.combiner = "first" -> values[1]
       [] j.combiner = "last"  -> Last(values)
       [] j.combiner = "list"  -> IF Len(values) = 1 THEN values[1] ELSE <<>>

Keys(j) == {j.pairs[i].key : i \in DOMAIN j.pairs}
\* The sort takes what is no number for zero.
Weight(j) ==
  [k \in Keys(j) |-> IF Combined(j, k) = <<>> THEN 0 ELSE Combined(j, k)[1]]

\* Mutant: the limit is applied before the sort.
MapReduce_LimitFirst ==
  /\ Running("mapreduce")
  /\ \A i \in DOMAIN job.lengths : job.lengths[i] <= job.fuel
  /\ \E order \in Orders(Keys(job)) :
       LET kept == Take(order, job.limit) IN
       /\ job.sort => Descending(kept, Weight(job))
       /\ Return([i \in DOMAIN kept |-> [key |-> kept[i], value |-> Combined(job, kept[i])]])

MapReduce ==
  /\ Running("mapreduce")
  /\ \A i \in DOMAIN job.lengths : job.lengths[i] <= job.fuel
  /\ \E order \in Orders(Keys(job)) :
       /\ job.sort => Descending(order, Weight(job))
       /\ LET kept == Take(order, job.limit) IN
          Return([i \in DOMAIN kept |-> [key |-> kept[i], value |-> Combined(job, kept[i])]])

\* The secondary reduction of a phased query: the best lines until one is too
\* long, each followed by a newline.
AddLine(r, line) ==
  IF r.full \/ (r.size > 0 /\ r.size + job.length[line] > job.target)
  THEN [r EXCEPT !.full = TRUE]
  ELSE IF job.weight[line] <= 1 THEN r
  ELSE [r EXCEPT !.size = @ + job.length[line] + 1, !.lines = Append(@, line)]

Nothing == [size |-> 0, lines |-> <<>>, full |-> FALSE]
Reduced(order) == FoldLeft(AddLine, Nothing, order).lines

SecondaryReduction ==
  /\ Running("select")
  /\ \E order \in Orders(Weighed) :
       Stable(order, job.weight) /\ Return(Reduced(order))

-----------------------------------------------------------------------------

Ended == pc # "run" /\ UNCHANGED vars

Proceed ==
  \/ Slice \/ SliceLines \/ TruncateOutput
  \/ SplitIntoChunks \/ ProcessChunk \/ Finalize
  \/ Find \/ IndexTerms \/ MapReduce \/ MapOutOfFuel \/ SecondaryReduction

Next == Proceed \/ ModuleFails \/ Ended

\* A command runs until it returns; its module need not fail.
Spec == Init /\ [][Next]_vars /\ WF_vars(Proceed)

-----------------------------------------------------------------------------
(* Properties.                                                              *)

Done(op) == pc = "done" /\ job.op = op

\* The characters that a range of bytes touches, or an empty one splits.
Asked(text, lo, hi) ==
  LET at == Offset(text)
  IN {i \in DOMAIN text : at[i - 1] < hi /\ lo < at[i]}

WholeSlice(j, cut) ==
  LET r == Range2(j, Bytes(j.text))
      asked == Asked(j.text, r[1], r[2])
  IN cut = IF asked = {} THEN <<>> ELSE SubSeq(j.text, Least(asked), Greatest(asked))

HalvesApart(j, halves) ==
  /\ halves[1] \intersect halves[2] = {}
  /\ \A i \in halves[1], k \in halves[2] : i < k
  /\ Bytes(j.text) <= j.limit => halves[1] \union halves[2] = DOMAIN j.text

\* Cutting text at byte positions never splits a character and loses none that
\* was asked for: a slice is the shortest run of whole characters that covers
\* its bytes, and the head and tail of a truncated output never share one.
CutsWholeCharacters ==
  /\ Done("slice") => WholeSlice(job, out)
  /\ Done("truncate") => HalvesApart(job, out)

KeepContent(s, c) == IF c \in Blank THEN s ELSE Append(s, c)
Content(s) == FoldLeft(KeepContent, <<>>, s)

KeepText(j, chunks) ==
  /\ Content(FlattenSeq(chunks)) = Content(j.text)
  /\ Content(j.text) # <<>> =>
       \A i \in DOMAIN chunks :
         Bytes(chunks[i]) > j.target => Len(Paragraphs(chunks[i])) = 1

\* The chunks of llm_reduce hold the whole text, in order, blanks apart, and a
\* chunk is over the target only when it is a single paragraph.
ChunksKeepText == Done("chunks") => KeepText(job, out)

\* The pieces of a reduction are the source, in order, and a line is cut in
\* two only where it is longer than a piece: process_line sees whole lines.
PiecesKeepLines ==
  job.op = "reduce" =>
    /\ out = SubSeq(Source, 1, start)
    /\ pc = "done" => start = Len(Source)
    /\ (start \in 1..Len(Source) - 1 /\ Source[start] # "n") =>
         /\ start >= job.size
         /\ \A i \in start - job.size + 1..start : Source[i] # "n"

\* A reduction ends.  The model may ask for pieces of zero bytes, of which no
\* number makes a source: only the fuel, given once for all the pieces, stops
\* the loop of rust_wasm_reduce_intent then.
ReductionEnds == (job.op = "reduce") ~> (pc # "run")

\* The entries with the greatest values, as many as fit.
TopEntries(j, entries) ==
  LET kept == {entries[i].key : i \in DOMAIN entries} IN
  /\ Len(entries) = Smaller(j.limit, Cardinality(Keys(j)))
  /\ \A k \in kept, l \in Keys(j) \ kept : Weight(j)[k] >= Weight(j)[l]

TopTerms(j, terms) ==
  \A k \in ToSet(terms), l \in DOMAIN j.weight \ ToSet(terms) :
    j.weight[l] >= j.least => j.weight[k] >= j.weight[l] /\ Len(terms) = j.limit

AddLength(size, length) == size + length + 1
Size(j, lines) ==
  FoldLeft(AddLength, 0, [i \in DOMAIN lines |-> j.length[lines[i]]])

BestLines(j, lines) ==
  /\ \A k \in ToSet(lines), l \in DOMAIN j.weight \ ToSet(lines) :
       j.weight[k] >= j.weight[l]
  /\ Len(lines) > 1 => Size(j, lines) <= j.target + 1

\* What a ranked and limited result leaves out ranks no higher than what it
\* keeps, and it leaves out something only for want of room.
BestKept ==
  /\ Done("mapreduce") /\ job.sort => TopEntries(job, out)
  /\ Done("index") => TopTerms(job, out)
  /\ Done("select") => BestLines(job, out)

=============================================================================
