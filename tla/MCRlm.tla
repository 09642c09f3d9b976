------------------------------- MODULE MCRlm -------------------------------
EXTENDS Rlm

C(op, on, store) == [op |-> op, on |-> on, store |-> store]
Plain(op) == C(op, None, None)

\* Batches a model writes: a plain answer, tools, calls before a failing
\* command, a delegation before another call, a reduction of a variable.
MCBatches ==
  {<<C("regex", None, "x"), C("rust_wasm", "x", None)>>,
   <<C("rust_cli_intent", "x", None), Plain("final")>>,
   <<Plain("index_terms"), C("llm_query", None, "x"), Plain("bad")>>,
   <<C("llm_delegate", None, "x"), Plain("llm_query"), Plain("get")>>,
   <<C("set", None, "x"), C("llm_delegate", "x", None)>>,
   <<C("llm_reduce", "x", None), Plain("final")>>}

MCInstallations == {{"generator", "compiler", "runtime"}}
=============================================================================
