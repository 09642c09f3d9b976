------------------------------ MODULE Commands ------------------------------
(***************************************************************************)
(* The commands of the RLM that run inside the command executor             *)
(* (rlm-orchestrator/src/commands/mod.rs): everything but the commands that *)
(* ask a model for an answer, which are actions of Rlm.tla.                 *)
(*                                                                          *)
(* A command is a record [op, on, store]: its operation, the source it      *)
(* reads and the variable it writes.  A variable is known by its name only. *)
(* Outcomes(ex, cmd) is the set of ways execute_one may end.                *)
(***************************************************************************)
EXTENDS Naturals, Sequences

CONSTANTS
  None,       \* no variable named
  Durations   \* what the millisecond counters may measure; 0 is below a ms

ASSUME DurationsAssumption == Durations \subseteq Nat

\* The operations that are compiled or run, and the stages of each.
Tools == {"codegen", "compile", "wasm", "cli"}
NoTiming == [t \in Tools |-> 0]

ContextOps == {"slice", "lines"}
SourceOps == {"regex", "find", "count", "split", "len", "index_terms"}
TextOps == ContextOps \union SourceOps
PlainOps == {"get", "set", "final", "bad"}
ToolOps == {"wasm", "wasm_wat", "rust_wasm", "wasm_template", "rust_wasm_intent",
            "rust_wasm_reduce_intent", "rust_wasm_mapreduce", "rust_cli_intent"}
LocalOps == TextOps \union PlainOps \union ToolOps

\* The state of a CommandExecutor that outlives a command.
NewExecutor(installed) ==
  [installed |-> installed,  \* generator, compiler, runtime
   names |-> {},             \* variables
   timing |-> NoTiming,      \* the last_*_ms counters
   sub |-> 0]                \* sub_calls

\* resolve_source: the context and the last result always resolve.
Resolves(ex, on) == on \in {None, "context", "last"} \union ex.names

\* llm_delegate and llm_reduce look the name up in the variables alone.
ResolvesVariable(ex, on) == on \in {None} \union ex.names

\* store_result
StoreResult(ex, name) ==
  IF name = None THEN ex ELSE [ex EXCEPT !.names = @ \union {name}]

\* A command that asked a model stores its answer and counts its calls.
Asked(ex, name, calls) == [StoreResult(ex, name) EXCEPT !.sub = @ + calls]

Outcome(kind, ex) == [kind |-> kind, ex |-> ex]

-----------------------------------------------------------------------------
(* Text commands.  slice and lines read the context; the others their        *)
(* source.  A bad pattern is an error to regex and only an output to          *)
(* index_terms, which stores nothing then; its listing is cut at byte 5000,   *)
(* which may lie inside a character.                                          *)

TextCommand(ex, cmd) ==
  LET stored == Outcome("continue", StoreResult(ex, cmd.store))
  IN IF cmd.op \in SourceOps /\ ~Resolves(ex, cmd.on) THEN {Outcome("error", ex)}
     ELSE {stored}
          \union (IF cmd.op = "regex" THEN {Outcome("error", ex)} ELSE {})
          \union (IF cmd.op = "index_terms"
                  THEN {Outcome("continue", ex), Outcome("panic", ex)} ELSE {})

\* get and print never fail, an undefined variable prints as such; set expands
\* variables in its value; final ends the batch whatever it names.
PlainCommand(ex, cmd) ==
  CASE cmd.op = "get"   -> {Outcome("continue", ex)}
    [] cmd.op = "set"   -> {Outcome("continue", StoreResult(ex, cmd.store))}
    [] cmd.op = "final" -> {Outcome("final", ex)}
    [] cmd.op = "bad"   -> {Outcome("error", ex)}

-----------------------------------------------------------------------------
(* Tools.  A tool runs its stages in order and stops at the first that fails. *)

Wasm            == <<"runtime", "source", "library", "execute">>
WasmWat         == <<"runtime", "wat", "source", "execute">>
RustWasm        == <<"compiler", "runtime", "cache", "source", "run">>
WasmTemplate    == <<"template", "compiler", "runtime", "cache", "source", "run">>
RustWasmIntent  == <<"generator", "compiler", "runtime", "generate", "cache",
                     "source", "run">>
RustWasmReduceIntent ==
  <<"generator", "compiler", "runtime", "generate", "cache", "instance",
    "source", "run">>
RustWasmMapReduce ==
  <<"generator", "compiler", "runtime", "generate", "cache", "instance",
    "source", "run">>
RustCliIntent   == <<"generator", "compiler", "codegen", "build", "source",
                     "process", "exit">>

Stages(op) ==
  CASE op = "wasm"                    -> Wasm
    [] op = "wasm_wat"                -> WasmWat
    [] op = "rust_wasm"               -> RustWasm
    [] op = "wasm_template"           -> WasmTemplate
    [] op = "rust_wasm_intent"        -> RustWasmIntent
    [] op = "rust_wasm_reduce_intent" -> RustWasmReduceIntent
    [] op = "rust_wasm_mapreduce"     -> RustWasmMapReduce
    [] op = "rust_cli_intent"         -> RustCliIntent

\* The counters a tool clears before it starts.
Resets(op) ==
  CASE op \in {"wasm", "wasm_wat"} -> {}
    [] op = "rust_cli_intent"      -> Tools
    [] OTHER                       -> {"compile", "wasm"}

\* The counter a stage sets when it succeeds.
Clock(stage) ==
  CASE stage = "codegen"           -> {"codegen"}
    [] stage \in {"cache", "build"} -> {"compile"}
    [] stage = "run"               -> {"wasm"}
    [] stage = "process"           -> {"cli"}
    [] OTHER                       -> {}

Checked == {"generator", "compiler", "runtime", "source"}

CanPass(ex, cmd, stage) ==
  /\ stage = "source" => Resolves(ex, cmd.on)
  /\ stage \in Checked \ {"source"} => stage \in ex.installed
CanFail(ex, cmd, stage) == stage \in Checked => ~CanPass(ex, cmd, stage)

\* The executor after the first k stages; a module found in the cache leaves
\* the compile counter at zero.
After(ex, op, k) ==
  LET stages == Stages(op)
      clocks == UNION {Clock(stages[i]) : i \in 1..k}
      hits   == IF \E i \in 1..k : stages[i] = "cache" THEN {{}, {"compile"}} ELSE {{}}
  IN {[ex EXCEPT
         !.timing = [t \in Tools |->
                       IF t \in clocks \ hit THEN ms
                       ELSE IF t \in Resets(op) THEN 0 ELSE @[t]]] :
      hit \in hits, ms \in Durations}

ToolCommand(ex, cmd) ==
  LET stages == Stages(cmd.op)
      Reaches(k) == \A i \in 1..k : CanPass(ex, cmd, stages[i])
      failing == {k \in DOMAIN stages :
                    Reaches(k - 1) /\ CanFail(ex, cmd, stages[k])}
  IN {Outcome("error", e) : e \in UNION {After(ex, cmd.op, k - 1) : k \in failing}}
     \union
     (IF Reaches(Len(stages))
      THEN {Outcome("continue", StoreResult(e, cmd.store)) :
              e \in After(ex, cmd.op, Len(stages))}
      ELSE {})

\* execute_one
Outcomes(ex, cmd) ==
  CASE cmd.op \in TextOps  -> TextCommand(ex, cmd)
    [] cmd.op \in PlainOps -> PlainCommand(ex, cmd)
    [] cmd.op \in ToolOps  -> ToolCommand(ex, cmd)

-----------------------------------------------------------------------------
(* What the orchestrator tells its observer about a batch, from the text of  *)
(* the batch and the counters.                                               *)

MentionsCli(ops)  == "rust_cli_intent" \in ops
MentionsWasm(ops) ==
  ops \intersect {"rust_wasm", "rust_wasm_intent", "rust_wasm_reduce_intent",
                  "rust_wasm_mapreduce"} # {}

Announcement(ops) ==
  IF MentionsCli(ops) THEN <<"cli_codegen_start">>
  ELSE IF MentionsWasm(ops) THEN <<"wasm_compile_start">>
  ELSE IF "llm_delegate" \in ops THEN <<"delegate_start">>
  ELSE <<>>

If(p, events) == IF p THEN events ELSE <<>>

ToolReport(ops, timing) ==
  If(MentionsCli(ops) /\ timing["codegen"] > 0, <<"cli_codegen_complete">>)
  \o If(MentionsCli(ops) /\ timing["compile"] > 0,
        <<"cli_compile_start", "cli_compile_complete">>)
  \o If(~MentionsCli(ops) /\ MentionsWasm(ops) /\ timing["compile"] > 0,
        <<"wasm_compile_complete">>)
  \o If(timing["cli"] > 0, <<"cli_run_complete">>)
  \o If(timing["wasm"] > 0, <<"wasm_run_complete">>)

\* The nested iterations of the last delegation, then its end.  nested is the
\* has_error flag of each.
DelegationReport(nested) ==
  If(nested # <<>>,
     [i \in DOMAIN nested |-> "nested_iteration"]
     \o <<IF nested # <<>> /\ nested[Len(nested)] THEN "delegate_failed"
          ELSE "delegate_succeeded">>)

=============================================================================
