------------------------------- MODULE MCText -------------------------------
EXTENDS Text

Texts(alphabet, n) == UNION {[1..k -> alphabet] : k \in 0..n}

MCSlices == [op : {"slice"}, text : Texts({"a", "e"}, 3), start : -7..7, end : -7..7]
MCLines == [op : {"lines"}, text : Texts({"a", "n"}, 3), start : -4..4, end : -4..4]
MCTruncations == [op : {"truncate"}, text : Texts({"a", "e"}, 5), limit : 0..8]
MCChunks ==
  [op : {"chunks"}, text : Texts({"a", "n", "#", " "}, 5), target : 0..6]
  \union [op : {"chunks"}, text : {<<"a", "n", "n", "e", "n", "#", "b">>},
          target : 0..10]
\* The most that a source of this length burns is 16, in pieces of one byte.
MCReductions ==
  [op : {"reduce"}, text : Texts({"a", "e", "n"}, 4), size : 0..5, fuel : {2, 16}]

Rankings(n) == UNION {[1..k -> 0..3] : k \in 0..n}
MCFinds == [op : {"find"}, weight : Rankings(4)]
MCIndexes == [op : {"index"}, weight : Rankings(3), least : 1..2, limit : 0..3]
MCMaps ==
  [op : {"mapreduce"}, lengths : {<<1>>, <<1, 3, 1>>}, fuel : {2},
   pairs : UNION {[1..k -> [key : {"x", "y"}, value : {<<>>, <<1>>, <<-2>>}]] : k \in 0..3},
   combiner : {"count", "sum", "max", "min", "first", "last", "list"},
   sort : BOOLEAN, limit : 0..2]
MCSelections ==
  {[op |-> "select", weight |-> w, length |-> l, target |-> t] :
     w \in [1..3 -> 0..3], l \in [1..3 -> {0, 2, 4}], t \in 0..8}

MCJobs == MCSlices \union MCLines \union MCTruncations \union MCChunks
          \union MCReductions \union MCFinds \union MCIndexes \union MCMaps
          \union MCSelections
=============================================================================
