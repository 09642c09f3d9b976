# SGR Kernel: specifications, model checking and proofs

TLA+ specifications of the SGR Kernel, checked with TLC and proved in part with
TLAPS. Two programs are modelled: the Rust engine that answers questions over
large contexts (`skills/xbrl_rlm/rlm-orchestrator`, called "the engine" below),
and the Python kernel around it (`core`, called "the kernel"). Every definition
is a translation of code; `PROJECT.json` maps each one to its lines. Where the
documents of the repository disagree with the code, the specification follows
the code, and a run shows the disagreement or section 7 names it.

## 1. The system

### The Rust engine

A query is a question and a context that may be far larger than a model's window.
The orchestrator lets a root model write *commands* in a loop; an executor runs
them over the context: slices and searches, calls of cheaper models on parts of
the context (`llm_query`, `llm_reduce`), nested queries (`llm_delegate`), and code
that a model writes and `rustc` compiles to WASM modules or native programs. A
server streams the progress of a query to a browser page.

| part | state | operations | talks to |
|---|---|---|---|
| orchestrator, `orchestrator.rs` | iteration, history of records, shared count of sub-calls | routing (bypass, phases, loop), `process_with_options`, `process_nested` | executor, providers, observer |
| command executor, `commands/mod.rs` | variables, last result, counters, last compile and run times | one arm of `execute_one` per command | context, providers through callbacks, module cache, compilers |
| text operations, `commands/mod.rs`, `wasm/mod.rs` | position in the source, aggregates | slices, lines, truncation, chunking, rankings, map-reduce, streaming reduction | WASM modules |
| module cache, `wasm/cache.rs`; compilers, `wasm/compiler.rs` | LRU list in memory, files on disk | `get`, `put`, `compile*`, `compile_cli`, validators | file system, `rustc`, other queries of the server |
| provider pool, `pool/mod.rs` | health and latency of each provider, statistics by name, turn | `get_provider_for_role`, `complete`, `health_check_all` | HTTP services |
| streaming API and page, `api/mod.rs` | channel; the page's run, data, history, example | `stream_query`, `runQuery`, `handleStreamEvent`, `loadExample` | orchestrator, browser |
| levels and configuration, `levels/`, `lib.rs` | flags, read once | `required_level` | executor |
| code generation and library, `codegen.rs`, `wasm/library.rs` | none | prompts and templates | executor |
| programs, `bin/`, `main.rs` | none | build one orchestrator, print its result | all |

### The Python kernel

A request is planned by an LLM into a graph of steps; the kernel executes the
graph in waves, each step by a skill, and records what happened as events that
mutate one state object and trigger checkpoints. Around it are a multi-agent
loop (the swarm), a Redis dispatch path with workers, a durable job table with a
reconciler, and skills, one of which calls the engine.

| part | state | operations | talks to |
|---|---|---|---|
| kernel engine, `core/runtime.py` | `active_executions` | `run`, `resume`, `replay`, `fork`, `abort` | planner, orchestrator, bus, checkpoints |
| orchestrator, `core/orchestrator.py` | the loop's position | `execute`: wave, results, retry, escalation, finalization | graph engine, scheduler, bus, a human |
| state manager and events, `core/state_manager.py`, `core/events.py`, `core/replay.py` | `ExecutionState` | `apply_event`, `reconstruct` | called by the bus |
| graph engine, `core/execution/graph_engine.py` | none | `is_complete`, `get_runnable_steps` | called by the orchestrator |
| event bus and store, `core/event_bus.py`, `core/event_store.py` | handlers; a log nobody reads back | `publish` | state manager, checkpoints |
| checkpoints, `core/checkpoints.py` | JSON files, the newest counts | `save_checkpoint`, `load_checkpoint` | file system |
| scheduler and lifecycle, `core/scheduler.py`, `core/execution/lifecycle.py` | pending results | `dispatch` (local or Redis), `execute_task` | skills, Redis, workers |
| swarm engine, `core/swarm.py` | agent, history, counters; cost and transfer cells shared by nested calls | `execute` | LLM, critic, skills |
| worker, `run_worker.py`; quota, `core/quota.py` | Redis lists and counters | pop, execute, push; `check_rate`, `enforce` | scheduler |
| job store, `core/ui_memory.py`; reconciler, `core/reconciler.py` | job rows with lease and version | `create_job`, `update_job_status`, `get_stale_jobs`; sweep | workers, Redis |
| leader lock, `core/distributed_lock.py` | Redis key with a TTL; `is_leader` | acquire, renew, release | reconciler |
| circuit breaker, `core/circuit_breaker.py` | Redis failure window and OPEN key | `allow_request`, `record_failure`, `record_success` | skills |

The components not in these tables (policies, PII, prompts, routing, RAG, other
skills, front ends) keep no state whose changes could come in a wrong order.

### What is hard, and what must hold

* **budgets counted twice.** The engine counts sub-calls in the executor and in
  a count its callbacks share, at different moments and on different error paths.
  They must stay in step, within the limit, and add up in the result.
* **nested work.** A delegated query or sub-swarm suspends its parent in the
  middle of a command, has limits of its own and shares some of the parent's.
* **a stream with a slow or absent reader.** Progress events are dropped when the
  channel is full, the result must not be; the page must not mix two runs.
* **a cache shared by queries.** Files are written in place while other queries
  look them up, and a server may die in the middle.
* **text cut at byte positions.** Offsets come from a model; slices must not
  split a character, pieces must not split a line, limits must keep the best.
* **shared statistics and health** of providers under concurrent and dropped calls.
* **crashes of the kernel.** A process dies after side effects and before their
  events, or while a checkpoint is written. Duplicated work must be bounded,
  finished work must stay finished, and what is on disk must be resumable.
* **concurrency on one event loop.** An abort, several tasks, a human and the
  planner interleave at every `await`.
* **order.** Results of a wave are published one after another with checkpoints
  in between; dependencies must hold in the log, also after a roll-back.
* **termination for any plan and any model.** Plans with cycles, commands that
  fail anywhere and models that never answer reach the loops unvalidated.

`PROJECT.json` lists the hazards line by line with the properties that cover them,
and says of the others why none does.

## 2. Modules

| module | what it is |
|---|---|
| `Progress` | Abstract specification of what a query tells its observer: the order of its events and how it may end. |
| `Commands` | The commands that ask no model: the ways each may end and what it does to the executor. Pure operators. |
| `Rlm`, `RlmProofs` | One query of the engine: routing, phases, the loop, nested queries, every command. EXTENDS `Commands`; implements `Progress`. The inductive invariant, theorems, and the refinement step by step. |
| `Stream`, `StreamProofs` | `Progress` composed with the server task, the bounded channel and the browser page; the inductive invariant and theorems. |
| `Text`, `TextProofs` | The text operations, one job at a time, against reference definitions; what the definitions compute, and theorems. |
| `LeftFold` | `FoldLeft` over any operator, proved to do what it is read to do; the proof modules instantiate it. |
| `Store`, `StoreProofs` | Concurrent queries that validate, compile, cache and run code; the inductive invariant and theorems. |
| `Pool`, `PoolProofs` | The provider pool under concurrent calls and health checks; the inductive invariant and theorems. |
| `ExecutionState` | Data of one request of the kernel: plan, state, the events' effect (`Mutate`, `ApplyEvent`), `Reconstruct`, and the graph engine's reading of it (`IsComplete`, `Runnable`). Pure operators. |
| `Kernel`, `KernelProofs` | The process that executes a request: `CoreEngine`, the wave loop, publication, checkpoints, aborts, crashes, resumption, roll-back; invariant and theorems. |
| `Swarm`, `SwarmProofs` | `SwarmEngine.execute` with its nested calls; invariant and theorems. |
| `MC...` | Constants for TLC. |

How they compose: `Rlm` EXTENDS `Commands` and is shown to implement `Progress`
under the mapping `P` (event names to their kinds, the root frame's iteration to
`step`, the result to `outcome`), so `Stream`, which contains `Progress` and not
`Rlm`, is about every query `Rlm` can make. `Pool` and `Store` are what `Rlm` sees
as "a provider call is answered or fails" and "a tool command succeeds or fails".
`Kernel` EXTENDS `ExecutionState`. The callback's filter of events (`Forwarded`), the
records of a query (`MadeIn`), `Reconstruct`, the chunks of a text (`Group`) and its
content are folds from the left. A definition named after another one with a
suffix (`Click_KeepsHistory` beside `Click`), under a comment "Mutant", is a
plausible slip in that code; no specification uses it, and every property is
violated when one of them takes the place of the original.

### Progress, Commands and Rlm

A query is one task: the code between two calls of a model is one action, and a
batch of commands one action per command, because each may fail by itself and
leaves the effects of those before it.

| `at` | the query is | actions that leave it |
|---|---|---|
| `start` | before the routing of `process` | `Bypass`, `StartPhases`, `StartLoop` |
| `direct` | asking the model about a small context | `Direct` |
| `phase1`..`phase4` | in `process_phased` | `Assess`, `Index`, `Select`, `StartLoop` |
| `loop` | at the head of an iteration | `StartIteration`, `OutOfCalls`, `Exhaust` |
| `llm` | asking the root model | `RunBatch`, `FinalText`, `NoCommands`, `ModelFails` |
| `exec` | executing a batch | `LocalCommand`, `Query*`, `Delegate*`, `StartReduce`, `ReduceChunk`, `EndReduce`, `EndBatch` |
| `return` | after the loop | `Return` |

`stack` holds the loops, the root's first: `Delegate` pushes a frame and leaves
its parent in `wait`, and the end of the nested loop pops it (`NestedReturns`,
or `ModelFails` above the root). A frame has the counters of the code
under their roles: `total` is `total_sub_calls`, `ex.sub` the executor's
`sub_calls`, `sub0` its value when the batch began, `nested` is
`last_nested_history`. Contents, prompts and answers are left out; a variable is
its name; a model may write any batch of `Batches`, answer, or write neither; a
provider may fail at any call. `made` and `subs` are observers.

The milliseconds a tool took are in the state (`timing`) because the code decides
by them which events to report (`> 0`), and a stale value is reported again.

### Stream

`task` is the spawned task of `stream_query`, `emitting` what its callback still
has to offer with `try_send`, `channel` the mpsc channel, `page` the script's
variables. The callback forwards every event but the query's own `complete`; the
result goes by `send().await` (`SendLast`), which waits for room unless the page
has gone. `Click` is `runQuery`, `Shown` is `handleStreamEvent`, `StreamEnds` and
`Disconnect` the ends of the page's `try`/`finally`, `Select` and `Fetched` the two
halves of `loadExample`. A task whose page starts another run goes on unobserved
in the code and is left out from then on.

### Text

`job` is an operation and its inputs, one action per operation, except for the
streaming reduction, whose loop has an action per piece (`ProcessChunk`). A text is
a sequence of characters: `a` one byte, `e` two bytes, `n` a newline, `#` and blank.
`Offset` gives the byte where each character begins. `Paragraphs` is the scan of
`split_into_chunks` from one break to the next, `Group` its second loop with
`AddParagraph` as the body. A stable sort is any order that is `Stable`; a hash map's
keys come in any order. `JobsAssumption` says what callers pass: a selection knows the
length of every line that it weighs, only the indices of a slice may be negative.
`fuel` is what is left for a reduction's module: it is set once, every piece burns
some for its calls and more for its bytes, so a long source runs out of it, and so
does a loop over empty pieces.

### Store

`task[e].pc` is where the command of query `e` is: `lookup` (`ModuleCache::get`),
`compile` (validation, `rustc`), `write` and `writing` (`put` with `fs::write`),
`link` (a native program is linked in place), `run`. `disk` is shared, `memory` is
the LRU list of each query's executor. A file that is being written, or whose
writing failed, holds `Torn`; nothing checks what was read. A source is known by
what the validators look for in it (`Parts`). The key of a module does not name
what it was compiled as, so a source cached as one kind is loaded as another.
`accidents` is an observer: the files that two commands worked with at once, or
whose writing was cut short.

### Pool

`call[c]` is the call a task has under way, `sweep` where the health checks are,
`counts` the statistics kept by name. `Select` chooses and counts, `Answers` counts
the outcome, `Dropped` is a future that is dropped with its client. `up` is the
environment. `served` and `lost` are observers.

### Kernel

The kernel is one asyncio process, so the code between two `await`s is one
action and `pc` names the `await` at which the coroutine is suspended:

| `pc` | suspended at | actions that leave it |
|---|---|---|
| `planning` | `_generate_plan` | `PlanCreated`, `PlanFails` |
| `starting`, `answering` | publication of EXECUTION_STARTED; of the direct answer | `PublishStarted`, `PublishAnswered` |
| `looping` | head of `while not is_complete` | `NextWave`, `LoopEnds` |
| `gathering` | `scheduler.dispatch` | `TaskSucceeds`, `TaskFails` |
| `publishing` | publication of the cursor's part of one result | `PublishStepStarted`, `PublishStepCompleted`, `PublishStepFailed`, `Retry`, `GiveUp`, `Escalate` |
| `awaiting_approval` | the approval callback | `Approve`, `Reject`, `ApprovalRaises` |
| `completing`, `signalling` | publication of EXECUTION_COMPLETED, LEARNING_SIGNAL | `PublishCompleted`, `PublishLearningSignal` |

`Abort`, `Crash` and `CrashInSave` may occur at any of them; `Resume` and
`Replay` start again from the newest checkpoint. `Publish` is the whole of
`EventBus.publish` with the two handlers the kernel registers: apply, then save
for the three checkpointed types. A save that raises is swallowed by the bus'
`gather(return_exceptions=True)`. The newest file is then the older one, or a torn
one: the new file is opened before the state is dumped into it.

Abstractions: an output is the number of the execution that produced it (two
executions of a step give different outputs, the pessimistic case); a failure is
its class; only the newest checkpoint is kept, because nothing reads an older
one; a timestamp is log order. `execs` and `consumed` are observers that no
action reads. The guard on Redis `setnx` never blocks, because the coroutine is
tested instead of its result.

### Swarm

`stack` holds the nested calls of `execute`, the session's own first; a frame has
the agent in charge, the turn and transfer counters, the critic's failures, the
unhandled tool calls of the reply, and an abstract history: whose instructions
head it (`prompt`) and whose raw messages it holds (`seen`). `handed` and `spent`
are the one-element lists that Python hands down to nested calls. A call of the
LLM counts for any cost up to `MaxCost` (`Counts`), for nothing when the model is one
that the estimator does not know; `spent` is what was counted. `TurnRefused` is every early error return at the head of a
turn (blocked input, compliance, budget, quota, LLM failure); `SubSwarmRaises`
and the second disjunct of `SessionEnds` are exceptions that `execute` does not
catch, the unbound `last_summary` of a call whose every reply was rejected
included.

## 3. Runs

Passing runs:

| run | what it shows | instance | states |
|---|---|---|---|
| `Rlm` | the two counts of sub-calls agree and stay in budget, the whole query's work is bounded, the result accounts for every iteration and call, the query ends unless a native program never does, and its events are those of `Progress` | 2 iterations, 2 sub-calls, depth 2, nested limits 0 and 2, 2 or 3 chunks, 6 kinds of batches | 57,681 |
| `Stream` | dropped events, broken connections and clicks never make the page show another result or history than the run's; the page stops running unless a batch never ends, and the task that holds a result ends | 2 iterations, channel of 2, 2 runs, one example from a URL, one from a file and one with its own text | 275,143 |
| `Text` | cuts keep characters whole, chunks and pieces keep the text and its lines, limits keep the best, a reduction ends | every text of up to 3 (slices), 4 (reductions) or 5 characters (chunks, truncation), every offset from beyond one end to beyond the other, rankings of up to 4 | 158,668 |
| `Store` | part of a build is found, kept or run only after an accident; whole builds stay; commands end | 2 queries with three requests each, 2 sources, memory for 1 module, 1 crash | 131,201 |
| `Pool` | statistics account for every call; a provider that works again gets calls again | 2 providers of one name, 2 tasks, 3 calls, 3 strategies | 1,177,088 |
| `KernelCrash` | dependencies, consistent inputs, bounded duplication, no work left behind, an abort holds, every call ends | 3 steps, 5 plan shapes, crash anywhere, 2 resumptions | 37,439 |
| `KernelReplay` | under roll-backs to any event, resumptions, aborts and crashes the log reconstructs the state and respects the dependencies | a chain of 2 steps with 2 attempts, 2 roll-backs or resumptions | 619,481 |
| `KernelFaults` | whatever the human does and whichever saves raise or are torn: a step is given up only when all its attempts are on record, what is on disk can be resumed, and what it shows as done is not done again | 3 plans, two of which can escalate twice; 2 resumptions | 597,038 |
| `Swarm` | shared and local limits, accounting of transfers, separate histories, termination | 3 agents handing over in a circle, desks nested two deep, 2 turns and 1 below, a critic, a budget of 2, 2 tool calls in a reply | 647,503 |

Why the bounds are enough.

* `Rlm`: two iterations are the least in which a record, a count or a timing can be
  carried from one to the next; with two sub-calls the budget can be used up in
  a batch, between batches, in a reduction (3 chunks) and in a nested query; the
  batches put a failing command after, and a delegation before, commands that
  count. A nested query gets no delegation callback, so no larger depth exists.
  `MaxTools` = 9 in the mapping is what a batch can report here: five events of its
  tools, a chunk that fails, and the iterations and the end of the last nested query
  (`MaxToolsAssumption` states it for every instance).
* `Stream`: a channel of 2 (100 in the code) is filled by two events, and a run
  emits more; two runs are enough to mix one with the next. `MaxTools` = 0: a
  tool event is handled like the other events that change nothing on the page.
* `Text`: three characters give a start, a middle and an end, each of one byte or
  of two; five characters are two paragraphs with a heading and a boundary that
  falls on either; a text of seven has three paragraphs. Fuel of 16 is just enough for the
  longest source in pieces of one byte, fuel of 2 for one piece.
* `Store`: two queries with a shared source of each kind; memory for one makes
  every second module leave. The instance has a source that is no analysis and one
  that is run both as a module and as a program.
* `Pool`: two providers of one name share a statistics record; one has no weight;
  `Wrap` = 3 stands for 2^64 and is reached within the calls.
* `Kernel`: the plan shapes are the ones the loop distinguishes: a join whose
  sources finish at different times, retries beside finished steps, a cycle, a
  dependency on nothing, no steps. A second resumption reaches everything that
  depends on a state that was itself resumed. Roll-backs multiply the states by
  the log's length, which is why they have a run with one plan.
* `Swarm`: the limits are small enough for each to be exceeded (the code's 15, 5
  and 3 are parameters) and `MaxCalls` = 2 lets something follow a refused transfer
  within one reply. Depth 2
  is the least at which a call is both nested and a parent. A call may cost nothing,
  so the one budget of 2 includes sessions that no budget stops.

Deadlock is checked where a system goes on for ever (`Rlm`, `Text`, which stutter
explicitly when they have ended, `Store`, `Pool`) and not in `Kernel*`, `Swarm` and
`Stream`, where a finished request or the last allowed click legitimately leaves
no step.

`ConsistentInputs` is asked of runs without a human or failing saves only: an
approval commits a step without an event, so a crash may take it back, and a save
that raises leaves a consumed output unsaved. `CausalLog` and `AbortHolds` likewise
exclude a human (an approval is not in the log, and an answer replaces ABORTED), and
so does `ReplayAgrees` (section 7). These limits are the code's. Approvals
and failing saves are in `KernelFaults` only and roll-backs in `KernelReplay` only.

Runs in which TLC refutes a statement of the repository:

| run | statement | what the code does |
|---|---|---|
| `DocRejection` | ADR 003, line 19: a rejected step aborts the execution | `break` leaves only the inner loop; a second escalation of the wave replaces ABORTED by PAUSED_APPROVAL (the trace ends there) |
| `DocTimeout` | `timeout_secs` is a timeout (`commands/mod.rs:557`, `:2695`) | the executor waits for the program to end and compares the time then; one that does not end is never stopped |
| `DocTurns` | round robin across the healthy providers (`pool/mod.rs:60`) | root calls and sub-calls share one turn, taken modulo the providers of the call at hand |

## 4. Fairness

* `Rlm!Spec`: weak fairness of the query's next step, except while a native program
  runs (`InProgram`). A query is a task of the runtime that runs until it returns; a
  provider call ends with an answer or an error (the clients of all three providers
  have a timeout of 300 s); `rustc` is assumed to end. A native program is
  waited for without a limit (`commands/mod.rs:2696`) and need not end, so
  `Terminates` says: the query ends, or it stays in a native program for ever.
* `Text!Spec`: weak fairness of the job. `ModuleFails` needs none: a module need not fail.
* `Stream!Spec`: weak fairness of the server task and of the browser's reader,
  which the runtimes poll. A batch of commands (`at = "exec"`) gets none, for the same
  reason as above, so `RunEnds` excepts a query that stays in one for ever. Nothing is
  assumed of the user, of connections or of fetches.
* `Store!Spec`: weak fairness of each command. `FairSpec` adds that `rustc` and the
  program that was built end. `CommandEnds` needs that; `DocTimeout` shows that
  the timeout does not replace it.
* `Pool!Spec`: weak fairness of the health-check task: it is never stopped, and a
  check ends because its client has a timeout. Nothing is assumed of callers.
* `Kernel!FairSpec`: weak fairness of the planner call and of the orchestrator's
  coroutine. `execute_task` wraps every skill in `asyncio.wait_for`, the planner's
  client has a timeout, and publications do not block. Nothing is assumed of a
  human, of crashes, aborts or resumptions; so `Termination` is checked in a run
  without an approval callback.
* `Swarm!FairSpec`: weak fairness of the loop. A call of the LLM has a timeout of
  an hour and three attempts. A skill is awaited without a limit (`swarm.py:405`), and
  so is the stream of an answer (`swarm.py:272`): that they end is an assumption, which
  `SessionTerminates` needs and the code does not enforce.

## 5. Proofs

The proofs are checked by `tlapm` with no assumption but the named ones on the
constants: plans and names are well formed, limits are naturals, at least one
provider, a finite set of callers, jobs as `JobsAssumption` says, bursts long enough
for what one iteration tells. They hold for every value of the constants. Every safety
property that a passing run checks is the conclusion of a theorem, though not under
roll-backs (the table).

Some theorems about the kernel have a hypothesis, a mode of the program that some
runs are in:

| hypothesis | theorems | why |
|---|---|---|
| `~CanReplay` | `TypeCorrect`, `DuplicationIsBounded`, `CheckpointsAreResumable`, `CompletionLeavesNoWork`, `CommittedWorkIsNotRepeated`, `FailuresAreOnRecord` | they follow from `IInv`, and a roll-back returns attempts and finished work to an earlier state, which is its purpose |
| `~CanReplay`, `~HasApproval` | `LogIsCausal`, `AbortIsFinal` | an approval commits a step without an event, and a human's answer replaces ABORTED |
| these and `"save_error" \notin Faults` | `InputsAreConsistent` | a save that raises leaves an output that was consumed unsaved |
| `~HasApproval` | `ReplayIsFaithful` | an approval is not in the log |

**Folds and recursion.** No prover here can instantiate a theorem that takes an
operator, and `FoldLeft` is a `CHOOSE` of a function over subsets. `LeftFold` has the
operator and the base as CONSTANTS. It shows that the iteration exists and is unique,
and concludes `FoldedEmpty` and `FoldedAppend`. An instance with the operator
substituted (`AddMade`, `AddTransfers`, `ApplyEvent`, `AddParagraph`, `KeepContent` and
others) makes them facts about that fold. Induction is over sets: a set of naturals with 0 that is
closed under successor is `Nat` (`NatSetInduction`, from the well-foundedness of `<`),
and a set of sequences with `<<>>` that is closed under `Append` is `Seq(S)`
(`SeqInduct`). A recursive function is shown to exist first (`FlattenExists`,
`SplitExists`); what it computes then follows by the same induction.

**Query (`RlmProofs`).** That the two counts agree is not inductive, because between a
call and its record they differ by what is under way. `QueryInv` adds: what runs
where (`Shape`: how many frames there are, which waits for which); for each frame,
that the executor's count and the calls of a reduction it has yet to be told of are
within `total`, that they have grown by `made` since the batch began, and that
`total` is `made` and what the records say was made (`SoundFrame`, `Recorded`); that
the whole query's calls are at most the root's `total` times the limit, plus those of
the nested query under way (`Work`); and
what a result may say (`Ending`). Lemmas about the top frame going on, a push and a
pop carry it through the actions. Theorems: `QueryIsSound`, `QueryTypes`, `BudgetIsKept`,
`WorkIsBounded`, `ResultIsAccounted`.

**Refinement.** `ProgressIsRefined` shows `Rlm!Spec => RefinesProgress`: initial
states map to initial states, and under `QueryInv` every action maps to an action of
`Progress` or to a stutter. The work is in the events of a step: a lemma for each way
to end an iteration gives its events as one of the bursts `Progress` allows, among
them that tool events never outnumber `MaxTools`.

**Page (`StreamProofs`).** The invariant says what the query, the task, the channel and
the page have of each other: a result that is in the channel or on the page is the
run's (`TaskInv`, `HasResult`); the iterations told, waiting and shown are in order and,
when nothing was dropped, all of them (`HistoryInv`). Theorems: `StreamIsSound`,
`StreamTypes`, `ResultIsShown`, `HistoryIsShown`.

**Text (`TextProofs`).** A job returns in one step, except the reduction, so the theorems
are about what the definitions compute for every text, weight and limit.
`CutsAreWhole`: the character boundaries around two byte positions enclose just the
characters the positions touch, since offsets rise (`OffsetRises`, `CoveredIsAsked`).
`ChunksHoldText`: the recursive scan yields paragraphs that have together the
content of the text (`SplitStep`: what lies between two of them is newlines), a trimmed
paragraph is its own only paragraph (`ParagraphStays`), `AddParagraph` keeps content and
target (`AddParagraphHolds`, with bytes additive over concatenation), and a text that
has no paragraph has no content. `ReductionKeepsLines`: the invariant relates `start`,
`out` and the last newline. `RankingsKeepBest`: a prefix of a descending order keeps the
best, also when the loop of the secondary reduction stops at the first line too long
(`AddLineSelects`, over the fold).

**Store.** That a torn file is only met after an accident is not inductive. `IInv`
adds: which kind of build may be in which file (`KindInv`); that any two commands
that are under way with the same file have marked it (`SharingInv`); and for each
command what it knows at its place: who is past a miss without a mark still has no
file (`Knows`), and who writes owns the torn file (`Owns`). The lemmas `RemovedAt`,
`WithoutIs` and `TouchedIs` say what the LRU list holds after a get or a put;
`LocalKeeps` covers every step that changes one task only; each action has a
lemma. The theorems `StoreTypeCorrect`, `PartialOnlyByAccident` and
`WholeBuildsStay` hold for any number of queries, sources, requests and crashes.

**Pool.** `CallsAccounted` is inductive with the types. The cardinality of the calls
under way goes up and down with the one call that changes; lemmas about adding
and removing a caller carry it. `PoolTypeCorrect` and `EveryCallIsAccounted` hold
for any providers, roles, weights, callers and strategies.

**Kernel.** `TypeOK` and `BoundedDuplication` are not inductive: that a step executes
at most `max_attempts` times per incarnation needs to know, for every state in
memory or on disk, how many executions its attempt counter stands for. `IInv` adds,
by conjunct: that the control state matches the wave
(tasks only of PENDING steps, a result published in order, each part once); that
a wave's attempt number is one more than the counter; that executions are bounded
by the attempts of the live state plus the budget of the earlier incarnations,
and likewise for the newest checkpoint; that a checkpoint never holds a RUNNING
step and, with the live state, agrees on every COMMITTED step. One lemma per
action shows that it is kept.

The rest of the kernel's properties have invariants of their own over `IInv`. The log
(`LInv`): every snapshot, live or on disk, has the completion of a dependency in its log
before any start of a step that needs it, and a committed step has its completion
there. `FailuresAreOnRecord` (`UInv`): the failures in a log are as many as the
attempts of the state, when no wave is running the step, and a step that is FAILED
has none left; a retry, a failure and its record are three assignments in two
handlers, and the save between them may raise or tear. `AbortIsFinal` says which control
states an aborted wave may be in. `InputsAreConsistent` (`CInv`): a commit is on disk before the coroutine goes on, and
what a task has read is on disk as it was read, until the file is torn, which ends all
work. `ReplayIsFaithful` (`RInv`) is proved with replay allowed: for the live state and the
saved one, the fold of `ApplyEvent` over the log gives the steps, attempts and outputs;
events are numbered, so that none is taken for a duplicate, also in a prefix.

**Swarm.** Every action replaces, pushes or pops the top frame, so `IInv` is a
predicate of one frame (`CallInv`) for all frames plus the relations of the shared
cells (accepted transfers are at most the counted ones and at most the limit; the
counted cost is at most one call over the budget). `BudgetOverrun` bounds what was
counted, for any cost of a call; calls whose cost is unknown count for nothing. Three lemmas about replacing, pushing
and popping carry it through all actions, `CallKept` says what such a step must
leave alone. The theorems: `SwarmTypeCorrect`, `GlobalTransferLimit`,
`BudgetOverrun`, `LoopsAreCut`, `HistoriesDoNotMix`, and `HandoffsAreCounted`, where the
sum over the stack is a fold that changes by what the top frame counts; for any
agents, limits, depth and number of tool calls.

**Only model-checked.** Every liveness property (`Terminates`, `RunEnds`, `TaskEnds`,
`ReductionEnds`, `CommandEnds`, `Rejoins`, `Termination`, `SessionTerminates`), which
is out of the prover's reach. With `replay`, `CausalLog` is checked by
`KernelReplay` and not proved, and every other property of the kernel but `ReplayAgrees`
is outside both (the table above says why).
The findings' runs are refutations of instances.

## 6. Not modelled

* The engine: prompts, token counts and context statistics; regular expressions and
  replacements (the library's semantics); substitution of variables in text; HTTP
  bodies; the endpoints that return one answer; rendering of the page; `clear` and
  the statistics of the module cache, which only tests call; levels and
  configuration (flags read once, used in `Checked` of `Commands`); code generation and
  the WASM library (text); the command-line and experiment programs.
* The kernel: `execute_step` with critic and repair, which no caller reaches from
  the orchestrator; `fork`; concurrent calls for one request; the conversational
  memory; the summarising of a swarm's long history.
* The distributed parts: Redis dispatch and worker, quota, circuit breaker, leader
  lock, job store and reconciler, the PEFTLab skill and its worker. They have
  hazards worth modelling and are next in the plan.
* Policies, security, governance, PII, planner, routing, RAG, other skills and
  front ends: text, calls of services, rendering.

Next, in this order: which properties of the kernel survive a roll-back, and their
theorems; then `Dispatch` (deadlines against late answers,
a worker's crash after the pop, a batch refused half way), `LeaderLock` and
`JobStore` (leases with versions, the sweep), `CircuitBreaker`.

## 7. Divergences met without a run of their own

In the engine:

* `lib.rs:41` speaks of the maximum of sub-calls per session; every nested query has
  that maximum again, so a query may make its square (`WorkBounded`).
* `commands/mod.rs:472` promises arbitrarily large datasets; fuel is set once for the
  whole reduction (`wasm/mod.rs:218`), so a long source runs out of it (`MapOutOfFuel`
  and `ProcessChunk` of `Text`).
* A record of an iteration that ended in an error reports no sub-calls, though the
  calls made before the error are in the total (`ResultAccounts` says so).
* The times of a tool's last use are reported again by a later iteration whose text
  mentions the tool but that ends before it runs it.
* A delegation's success is taken from its last iteration.
* The text of a fetched example is written over whatever was selected since
  (`api/mod.rs:2663`): selecting a fetched example (`Select`), then one with a text of its
  own (`Select`), and the answer (`Fetched`) leaves the page asking about the first
  one (`Request`) with the second one selected. A file is not affected, because its
  path is taken before the text. So no property of `Stream` relates a query's
  context to the selection.
* Byte cuts at `orchestrator.rs:1402`, `:1467` and `:1472` and at `commands/mod.rs:1490` do
  not look for a character's boundary; `Rlm` and `Commands` let them panic, and
  `RefinesProgress` covers what an observer is told then.
* A disconnected page keeps its wait timer, which goes on overwriting the status;
  the history it shows for a run says 0 sub-calls.
* A limit without sorting keeps arbitrary keys of a map-reduce.
* With `chunk_size` 0 a reduction passes on empty pieces until its fuel is burnt, and
  then fails with OutOfFuel.
* The server always balances by round robin; weights are read and not used. With a
  weighted pool whose eligible weights are all zero a call panics.
* A module that was cached as one kind is loaded as another and fails.

In the kernel:

* COMPLETED is declared with failed or unreachable steps.
* A torn newest checkpoint makes `resume` raise (`docs/reliability.md:33`).
* A human's approval assigns status and output without an event, so the log no longer
  rebuilds the state (`docs/sa_portfolio/event_catalog.en.md:130`, `:131`).
* Later status events overwrite what `abort` assigned.
* The exactly-once guard tests an un-awaited coroutine (`orchestrator.py:83`).
* A step rolled back to RUNNING is never runnable again.
* The budget is compared before a call of the LLM whose cost is added after it, so it
  is overrun by that call (`specifications/EconomicBudgeting.tla:35` says it cannot be;
  `BudgetHolds` has the bound that holds).
* A session counts nothing for a call whose model the cost estimator does not know
  (`swarm.py:291`), nor for the summariser's and the critic's calls, so the budget does
  not bound what they cost.
* After a handoff the history is still headed by the first agent's instructions
  (`docs/swarm_protocol.md:47`).
