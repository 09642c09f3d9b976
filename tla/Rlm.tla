-------------------------------- MODULE Rlm --------------------------------
(***************************************************************************)
(* One query of the RLM orchestrator: orchestrator.rs and the command       *)
(* executor it drives.  The root loop and the loop of a nested query are    *)
(* frames of one stack: llm_delegate pushes a frame in the middle of a      *)
(* command and blocks until it is popped.  Prompts, answers and contents    *)
(* are left out; a provider may answer anything or fail at any call.        *)
(***************************************************************************)
EXTENDS Commands, SequencesExt

CONSTANTS
  MaxIterations,   \* RlmConfig.max_iterations
  MaxSubCalls,     \* RlmConfig.max_sub_calls
  MaxDepth,        \* llm_delegation.max_recursion_depth
  Delegation,      \* llm_delegation.enabled
  NestedLimits,    \* values a model gives to llm_delegate's max_iterations
  ChunkCounts,     \* numbers of chunks a source splits into
  Batches,         \* the command batches a model may write in one response
  Installations,   \* what is installed: sets of generator, compiler, runtime
  MaxTools         \* bound: tool events in one burst, for Progress.tla

Command == [op : STRING, on : STRING, store : STRING]
Installable == {"generator", "compiler", "runtime"}

ASSUME LimitsAssumption ==
  /\ MaxIterations \in Nat /\ MaxSubCalls \in Nat /\ MaxDepth \in Nat
  /\ Delegation \in BOOLEAN
  /\ NestedLimits \subseteq Nat
  /\ ChunkCounts \subseteq Nat

ASSUME InputsAssumption ==
  /\ Batches \subseteq Seq(Command)
  /\ Installations \subseteq SUBSET Installable

\* A batch reports five events of its tools at most, a chunk that fails, the
\* iterations of the last nested query and its end.
ASSUME MaxToolsAssumption ==
  /\ MaxTools \in Nat /\ MaxTools >= 6
  /\ \A limit \in NestedLimits : limit + 7 <= MaxTools

VARIABLES
  at,      \* where the query is (the places of Progress.tla)
  config,  \* what the routing depends on: [size, force], and what is installed
  stack,   \* the running loops, root first
  burst,   \* the progress events emitted by the last step
  result,  \* the RlmResult, or the error
  phased,  \* LLM calls of the phases, reported as sub-calls
  subs     \* history: calls the sub-providers answered

vars == <<at, config, stack, burst, result, phased, subs>>

\* A loop and its command executor.
NewFrame(depth, limit, delegate) ==
  [depth |-> depth, limit |-> limit, delegate |-> delegate,
   pc |-> "iterate",   \* iterate, llm, exec, reduce, wait
   iter |-> 0,         \* iterations started
   total |-> 0,        \* total_sub_calls, shared with the callbacks
   ex |-> NewExecutor(config.installed),
   sub0 |-> 0,         \* ex.sub when the batch began
   batch |-> <<>>,     \* commands still to execute
   ops |-> {},         \* the operations the text of the batch mentions
   todo |-> 0,         \* chunks still to reduce
   chunks |-> 0,       \* chunks of the reduction
   made |-> 0,         \* history: sub-calls made in this iteration
   nested |-> <<>>,    \* last_nested_history: has_error of each record
   records |-> <<>>]   \* the history of iterations

Top == stack[Len(stack)]
IsRoot == Len(stack) = 1
SetTop(frame) == stack' = [stack EXCEPT ![Len(stack)] = frame]
Emit(events) == burst' = If(IsRoot, events)

Failure(kind) ==
  [kind |-> kind, iterations |-> 0, records |-> <<>>, subCalls |-> 0]

Init ==
  /\ at = "start"
  /\ config \in [size : {"small", "normal", "large"}, force : BOOLEAN,
                 installed : Installations]
  /\ stack = <<>>
  /\ burst = <<>>
  /\ result = Failure("none")
  /\ phased = 0
  /\ subs = 0

Close(r) == at' = "closed" /\ result' = r

-----------------------------------------------------------------------------
(* Routing.                                                                 *)

\* should_bypass, process_direct
Bypass ==
  /\ at = "start" /\ config.size = "small" /\ ~config.force
  /\ at' = "direct"
  /\ burst' = <<>>
  /\ UNCHANGED <<config, stack, result, phased, subs>>

Direct ==
  /\ at = "direct"
  /\ \/ Close([kind |-> "bypassed", iterations |-> 1, subCalls |-> 0,
               records |-> <<[err |-> FALSE, sub |-> 0, made |-> 0]>>])
     \/ Close(Failure("error"))
  /\ burst' = <<>>
  /\ UNCHANGED <<config, stack, phased, subs>>

\* process_phased: assess, index, select, retrieve, then the loop.
StartPhases ==
  /\ at = "start" /\ config.size = "large" /\ ~config.force
  /\ at' = "phase1"
  /\ burst' = <<"phased_start", "phase_start">>
  /\ UNCHANGED <<config, stack, result, phased, subs>>

\* Mutant: every phase counts a call.
NextPhase_AllCount(from, to, calls) ==
  /\ at = from
  /\ at' = to
  /\ phased' = phased + 1
  /\ burst' = <<"phase_complete", "phase_start">>
  /\ UNCHANGED <<config, stack, result, subs>>

NextPhase(from, to, calls) ==
  /\ at = from
  /\ at' = to
  /\ phased' = phased + calls
  /\ burst' = <<"phase_complete", "phase_start">>
  /\ UNCHANGED <<config, stack, result, subs>>

PhaseFails(place, kind) ==
  /\ at = place
  /\ Close(Failure(kind))
  /\ burst' = <<>>
  /\ UNCHANGED <<config, stack, phased, subs>>

Assess == NextPhase("phase1", "phase2", 1) \/ PhaseFails("phase1", "error")

\* Indexing and selection cut the index at a byte that may lie in a character.
Index == NextPhase("phase2", "phase3", 0) \/ PhaseFails("phase2", "panic")
Select ==
  \/ NextPhase("phase3", "phase4", 1)
  \/ PhaseFails("phase3", "error")
  \/ PhaseFails("phase3", "panic")

StartLoop ==
  /\ \/ /\ at = "start"
        /\ config.force \/ config.size = "normal"
        /\ burst' = <<"query_start">>
     \/ /\ at = "phase4"
        /\ burst' = <<"phase_complete", "phase_start", "query_start">>
  /\ at' = "loop"
  /\ stack' = <<NewFrame(0, MaxIterations, Delegation)>>
  /\ UNCHANGED <<config, result, phased, subs>>

-----------------------------------------------------------------------------
(* The loop: process_with_options for the root, process_nested above it.    *)

Loop(pc) == stack # <<>> /\ at \in {"loop", "llm", "exec"} /\ Top.pc = pc
Go(place) == at' = IF IsRoot THEN place ELSE at

StartIteration ==
  /\ Loop("iterate") /\ Top.iter < Top.limit
  /\ IsRoot => Top.total < MaxSubCalls  \* only the root looks at its budget here
  /\ SetTop([Top EXCEPT !.pc = "llm", !.iter = @ + 1, !.made = 0])
  /\ Go("llm")
  /\ Emit(<<"iteration_start", "llm_start">>)
  /\ UNCHANGED <<config, result, phased, subs>>

\* Mutant: the observer is not told that the query is over.
OutOfCalls_Silent ==
  /\ Loop("iterate") /\ Top.iter < Top.limit
  /\ IsRoot /\ Top.total >= MaxSubCalls
  /\ SetTop([Top EXCEPT !.iter = @ + 1])
  /\ Close(Failure("error"))
  /\ burst' = <<"iteration_start">>
  /\ UNCHANGED <<config, phased, subs>>

OutOfCalls ==
  /\ Loop("iterate") /\ Top.iter < Top.limit
  /\ IsRoot /\ Top.total >= MaxSubCalls
  /\ SetTop([Top EXCEPT !.iter = @ + 1])
  /\ Close(Failure("error"))
  /\ burst' = <<"iteration_start", "complete">>
  /\ UNCHANGED <<config, phased, subs>>

\* The model answers with commands: extract_commands finds a batch.
RunBatch == \E batch \in Batches :
  /\ Loop("llm")
  /\ LET ops == {batch[i].op : i \in DOMAIN batch} IN
     /\ SetTop([Top EXCEPT !.pc = "exec", !.batch = batch, !.ops = ops,
                           !.sub0 = Top.ex.sub,
                           !.nested = IF IsRoot THEN <<>> ELSE @])
     /\ Emit(<<"llm_complete", "commands">> \o Announcement(ops))
  /\ Go("exec")
  /\ UNCHANGED <<config, result, phased, subs>>

RootResult(kind, frame) ==
  [kind |-> kind, iterations |-> frame.iter, records |-> frame.records,
   subCalls |-> frame.total]

\* A nested query ends: llm_delegate's callback counts one call whatever the
\* outcome, and the command goes on in the frame below.
Record(frame, err, sub) ==
  [frame EXCEPT !.records = Append(@, [err |-> err, sub |-> sub, made |-> frame.made]),
                !.pc = "iterate"]

Parent == stack[Len(stack) - 1]
Pop(frame) == stack' = [SubSeq(stack, 1, Len(stack) - 1) EXCEPT ![Len(stack) - 1] = frame]

\* The rest of llm_delegate: its records are kept for the observer, its answer
\* is stored, its call counted, whether the nested query succeeded or not.
Resumed(frame, records) ==
  [frame EXCEPT !.pc = "exec", !.batch = Tail(@),
                !.nested = [i \in DOMAIN records |-> records[i].err],
                !.ex = Asked(@, Head(frame.batch).store, 1)]

\* Mutant: a nested query that ends is not counted by the shared count.
NestedReturns_Uncounted(records) ==
  /\ ~IsRoot
  /\ Pop(Resumed(Parent, records))
  /\ burst' = <<>>
  /\ UNCHANGED <<at, config, result, phased, subs>>

NestedReturns(records) ==
  /\ ~IsRoot
  /\ Pop(Resumed([Parent EXCEPT !.total = @ + 1, !.made = @ + 1], records))
  /\ burst' = <<>>
  /\ UNCHANGED <<at, config, result, phased, subs>>

\* The end of a batch that goes on, or of one that stops at an error: the
\* commands already executed keep their effects, the others are dropped.
Report(frame) ==
  ToolReport(frame.ops, frame.ex.timing) \o DelegationReport(frame.nested)

BatchEnds(frame, err) ==
  /\ SetTop(Record(frame, err, IF err THEN 0 ELSE frame.ex.sub - frame.sub0))
  /\ Go("loop")
  /\ Emit(Report(frame) \o <<"command_complete", "iteration_complete">>)
  /\ UNCHANGED <<config, result, phased>>

EndBatch ==
  /\ Loop("exec") /\ Top.batch = <<>>
  /\ BatchEnds(Top, FALSE)
  /\ UNCHANGED subs

\* The batch, or the text of the model, holds the final answer.  The last
\* iteration of a nested query leaves no record.
Answer(frame, events, sub) ==
  IF IsRoot
  THEN LET final == Record(frame, FALSE, sub) IN
       /\ SetTop(final)
       /\ at' = "return"
       /\ result' = RootResult("answered", final)
       /\ burst' = events
       /\ UNCHANGED <<config, phased, subs>>
  ELSE NestedReturns(frame.records)

FinalText ==
  /\ Loop("llm")
  /\ Answer(Top, <<"llm_complete", "final_answer", "iteration_complete", "complete">>, 0)

\* Mutant: an answer without commands is asked again for free.
NoCommands_Retry ==
  /\ Loop("llm")
  /\ SetTop([Top EXCEPT !.pc = "iterate", !.iter = @ - 1])
  /\ Go("loop")
  /\ Emit(<<"llm_complete", "iteration_complete">>)
  /\ UNCHANGED <<config, result, phased, subs>>

NoCommands ==
  /\ Loop("llm")
  /\ SetTop(Record(Top, TRUE, 0))
  /\ Go("loop")
  /\ Emit(<<"llm_complete", "iteration_complete">>)
  /\ UNCHANGED <<config, result, phased, subs>>

\* The provider of the root model fails: a nested query fails its command, the
\* root query returns the error and emits nothing.
ModelFails ==
  /\ Loop("llm")
  /\ IF IsRoot
     THEN /\ Close(Failure("error"))
          /\ burst' = <<>>
          /\ UNCHANGED <<config, stack, phased, subs>>
     ELSE LET counted == [Parent EXCEPT !.total = @ + 1, !.made = @ + 1] IN
          /\ Pop(Record(counted, TRUE, 0))
          /\ at' = "loop"
          /\ burst' = Report(counted) \o <<"command_complete", "iteration_complete">>
          /\ UNCHANGED <<config, result, phased, subs>>

Exhaust ==
  /\ Loop("iterate") /\ Top.iter = Top.limit
  /\ IF IsRoot
     THEN /\ at' = "return"
          /\ result' = RootResult("exhausted", Top)
          /\ burst' = <<"complete">>
          /\ UNCHANGED <<config, stack, phased, subs>>
     ELSE NestedReturns(Top.records)

\* A phased query closes its last phase and adds the calls of the phases.
Return ==
  /\ at = "return"
  /\ Close([result EXCEPT !.subCalls = @ + phased])
  /\ burst' = If(phased > 0, <<"phase_complete", "complete">>)
  /\ UNCHANGED <<config, stack, phased, subs>>

-----------------------------------------------------------------------------
(* Execution of the commands of a batch.                                    *)

Next1 == Head(Top.batch)
Executes(op) == Loop("exec") /\ Top.batch # <<>> /\ Next1.op = op
Done(frame) == [frame EXCEPT !.pc = "exec", !.batch = Tail(@)]

Panic ==
  /\ Close(Failure("panic"))
  /\ burst' = <<>>
  /\ UNCHANGED <<config, stack, phased, subs>>

\* What execute does with the result of a command.
CommandEnds(frame, kind) ==
  \/ /\ kind = "continue"
     /\ SetTop(Done(frame))
     /\ burst' = <<>>
     /\ UNCHANGED <<at, config, result, phased, subs>>
  \/ kind = "error" /\ BatchEnds(frame, TRUE) /\ UNCHANGED subs
  \/ /\ kind = "final"
     /\ Answer(frame,
               Report(frame) \o <<"command_complete", "iteration_complete",
                                  "final_answer", "complete">>,
               frame.ex.sub - frame.sub0)
  \/ kind = "panic" /\ Panic

\* The commands that ask no model: Commands.tla.
LocalCommand == \E op \in LocalOps :
  /\ Executes(op)
  /\ \E o \in Outcomes(Top.ex, Next1) :
       CommandEnds([Top EXCEPT !.ex = o.ex], o.kind)

\* llm_query: the executor's count and the shared count are checked, then the
\* sub-provider is asked.
QueryRefused ==
  /\ Executes("llm_query")
  /\ Top.ex.sub >= MaxSubCalls \/ Top.total >= MaxSubCalls
  /\ BatchEnds(Top, TRUE)
  /\ UNCHANGED subs

\* Mutant: the callback does not look at the shared count.
Query_ExecutorOnly ==
  /\ Executes("llm_query")
  /\ Top.ex.sub < MaxSubCalls
  /\ \/ /\ SetTop([Done(Top) EXCEPT
                     !.total = @ + 1, !.made = @ + 1,
                     !.ex = Asked(@, Next1.store, 1)])
        /\ subs' = subs + 1
        /\ burst' = <<>>
        /\ UNCHANGED <<at, config, result, phased>>
     \/ BatchEnds(Top, TRUE) /\ UNCHANGED subs

Query ==
  /\ Executes("llm_query")
  /\ Top.ex.sub < MaxSubCalls /\ Top.total < MaxSubCalls
  /\ \/ /\ SetTop([Done(Top) EXCEPT
                     !.total = @ + 1, !.made = @ + 1,
                     !.ex = Asked(@, Next1.store, 1)])
        /\ subs' = subs + 1
        /\ burst' = <<>>
        /\ UNCHANGED <<at, config, result, phased>>
     \/ BatchEnds(Top, TRUE) /\ UNCHANGED subs

\* llm_delegate: the depth, the callback, the source, then the shared count.
MayDelegate ==
  /\ Top.depth < MaxDepth /\ Top.delegate
  /\ ResolvesVariable(Top.ex, Next1.on)
  /\ Top.total < MaxSubCalls

DelegateRefused ==
  /\ Executes("llm_delegate") /\ ~MayDelegate
  /\ BatchEnds(Top, TRUE)
  /\ UNCHANGED subs

Delegate == \E limit \in NestedLimits :
  /\ Executes("llm_delegate") /\ MayDelegate
  /\ stack' = Append([stack EXCEPT ![Len(stack)].pc = "wait"],
                     NewFrame(Top.depth + 1, limit, FALSE))
  /\ burst' = <<>>
  /\ UNCHANGED <<at, config, result, phased, subs>>

\* llm_reduce: one call per chunk, counted by the executor when all are made.
StartReduce == \E n \in ChunkCounts :
  /\ Executes("llm_reduce")
  /\ IF ResolvesVariable(Top.ex, Next1.on) /\ n <= Top.limit
     THEN \/ /\ SetTop([Top EXCEPT !.pc = "reduce", !.todo = n, !.chunks = n])
             /\ Emit(<<"reduce_start">>)
             /\ UNCHANGED <<at, config, result, phased, subs>>
          \/ Panic  \* the preview of the directive is cut at byte 100
     ELSE BatchEnds(Top, TRUE) /\ UNCHANGED subs

ReduceChunk ==
  /\ Loop("reduce") /\ Top.todo > 0
  /\ \/ /\ Top.total < MaxSubCalls
        /\ SetTop([Top EXCEPT !.todo = @ - 1, !.total = @ + 1, !.made = @ + 1])
        /\ subs' = subs + 1
        /\ Emit(<<"reduce_chunk_start", "reduce_chunk_complete">>)
        /\ UNCHANGED <<at, config, result, phased>>
     \/ /\ SetTop(Record(Top, TRUE, 0))
        /\ Go("loop")
        /\ Emit(<<"reduce_chunk_start">> \o Report(Top)
                \o <<"command_complete", "iteration_complete">>)
        /\ UNCHANGED <<config, result, phased, subs>>

\* Mutant: a reduction counts as one call.
EndReduce_One ==
  /\ Loop("reduce") /\ Top.todo = 0
  /\ SetTop([Done(Top) EXCEPT
               !.ex = Asked(@, Next1.store, 1)])
  /\ burst' = <<>>
  /\ UNCHANGED <<at, config, result, phased, subs>>

EndReduce ==
  /\ Loop("reduce") /\ Top.todo = 0
  /\ SetTop([Done(Top) EXCEPT
               !.ex = Asked(@, Next1.store, Top.chunks)])
  /\ burst' = <<>>
  /\ UNCHANGED <<at, config, result, phased, subs>>

-----------------------------------------------------------------------------

Terminated == at = "closed" /\ UNCHANGED vars

Step ==
  \/ Bypass \/ Direct
  \/ StartPhases \/ Assess \/ Index \/ Select
  \/ StartLoop \/ StartIteration \/ OutOfCalls
  \/ RunBatch \/ FinalText \/ NoCommands \/ ModelFails
  \/ LocalCommand \/ EndBatch
  \/ QueryRefused \/ Query
  \/ DelegateRefused \/ Delegate
  \/ StartReduce \/ ReduceChunk \/ EndReduce
  \/ Exhaust \/ Return

Next == Step \/ Terminated

\* A native program was built and runs; wait_with_output has no limit.
InProgram == Executes("rust_cli_intent")

\* The query is one task of the runtime: it runs until it returns, rustc ends,
\* and every provider call ends, with an answer or with an error.  Nothing makes
\* a native program end.
Spec == Init /\ [][Next]_vars /\ WF_vars(~InProgram /\ Step)

-----------------------------------------------------------------------------
(* Properties.                                                              *)

Executor ==
  [installed : SUBSET Installable, names : SUBSET STRING,
   timing : [Tools -> Nat], sub : Nat]
IterationRecord == [err : BOOLEAN, sub : Nat, made : Nat]
Frame ==
  [depth : Nat, limit : Nat, delegate : BOOLEAN,
   pc : {"iterate", "llm", "exec", "reduce", "wait"},
   iter : Nat, total : Nat, ex : Executor, sub0 : Nat, batch : Seq(Command),
   ops : SUBSET STRING, todo : Nat, chunks : Nat, made : Nat,
   nested : Seq(BOOLEAN), records : Seq(IterationRecord)]

\* The variables have their types.
TypeOK ==
  /\ config \in [size : {"small", "normal", "large"}, force : BOOLEAN,
                 installed : SUBSET Installable]
  /\ stack \in Seq(Frame)
  /\ phased \in 0..2
  /\ subs \in Nat
  /\ (at \in {"return", "closed"}) <=> (result.kind # "none")

\* The calls a level has made, whoever of the executor, the callbacks and the
\* reduction made them, stay within max_sub_calls; what the executor counts
\* for itself never runs ahead of the shared count.
BudgetKept == \A i \in DOMAIN stack :
  stack[i].ex.sub <= stack[i].total /\ stack[i].total <= MaxSubCalls

\* Each level has its own budget, so a whole query may ask the sub-providers
\* max_sub_calls times over, and no more than that.
WorkBounded == subs <= MaxSubCalls * MaxSubCalls

AddMade(n, record) == n + record.made
MadeIn(records) == FoldLeft(AddMade, 0, records)

\* The result accounts for the run: a record per iteration, every sub-call made
\* in one of them, and an iteration that ended well reports the calls it made.
ResultAccounts ==
  (at = "closed" /\ result.kind \in {"answered", "exhausted"}) =>
    /\ Len(result.records) = result.iterations
    /\ result.subCalls = MadeIn(result.records) + phased
    /\ \A i \in DOMAIN result.records :
         LET r == result.records[i] IN r.sub = IF r.err THEN 0 ELSE r.made

\* A query that does not end waits for ever for one native program: nothing else
\* that the model writes, and no provider that fails, keeps it going.
Terminates == <>(at = "closed") \/ <>[]InProgram

\* What the observer is told is what Progress.tla allows.
Kind(event) ==
  IF event \in {"phased_start", "phase_start", "phase_complete", "query_start",
                "iteration_start", "llm_start", "llm_complete", "commands",
                "command_complete", "iteration_complete", "final_answer", "complete"}
  THEN event ELSE "tool"

Kinds(events) == [i \in DOMAIN events |-> Kind(events[i])]

P == INSTANCE Progress WITH
       burst <- Kinds(burst),
       step <- IF stack = <<>> THEN 0 ELSE stack[1].iter,
       outcome <- IF result.kind = "bypassed" THEN "answered" ELSE result.kind
RefinesProgress == P!ProgressSpec

=============================================================================
