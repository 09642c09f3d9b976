------------------------------ MODULE MCStore ------------------------------
EXTENDS Store

CONSTANTS q1, q2

\* A source that is run both as a module and as a program, and one that has the
\* functions of a reduction and of a map but is no analysis.
MCParts == [s \in Sources |->
  IF s = "counts" THEN {"fn analyze", "pub fn analyze"}
  ELSE {"struct State", "fn init_state", "fn process_line", "fn finalize", "fn map_line"}]
MCRequests == [e \in Executors |->
  {<<"cli", "counts">>} \union
  IF e = q1 THEN {<<"analyze", "counts">>, <<"reduce", "ranks">>}
  ELSE {<<"map", "ranks">>, <<"analyze", "ranks">>}]
=============================================================================
