------------------------------ MODULE Progress ------------------------------
(***************************************************************************)
(* What a query tells its observer: the abstract specification of the      *)
(* progress events of rlm-orchestrator (orchestrator.rs, ProgressEvent).    *)
(* Each step of the query emits a burst of events, here reduced to their    *)
(* kinds.  Rlm.tla is the detailed query and implements this module;        *)
(* Stream.tla composes this module with the channel and the browser page    *)
(* that consume the events.                                                 *)
(***************************************************************************)
EXTENDS Naturals, Sequences

CONSTANTS
  MaxIterations,  \* RlmConfig.max_iterations
  MaxTools        \* bound: tool events in one burst (checked instances only)

ASSUME MaxIterationsAssumption == MaxIterations \in Nat
ASSUME MaxToolsAssumption == MaxTools \in Nat

VARIABLES
  at,      \* where the query is
  step,    \* the last iteration that was started
  burst,   \* the events emitted by the last step of the query
  outcome  \* how the query ended: "none" while it runs

progressVars == <<at, step, burst, outcome>>

Places == {"start", "direct", "phase1", "phase2", "phase3", "phase4",
           "loop", "llm", "exec", "return", "closed"}

Outcomes == {"none", "answered", "exhausted", "error", "panic"}

EventKinds ==
  {"phased_start", "phase_start", "phase_complete", "query_start",
   "iteration_start", "llm_start", "llm_complete", "commands", "tool",
   "command_complete", "iteration_complete", "final_answer", "complete"}

\* Bursts of tool events: compilations, runs, chunks and nested iterations.
ToolBursts == UNION {[1..n -> {"tool"}] : n \in 0..MaxTools}

ProgressInit ==
  /\ at = "start"
  /\ step = 0
  /\ burst = <<>>
  /\ outcome = "none"

Move(from, to, events) ==
  /\ at = from
  /\ at' = to
  /\ burst' = events

Continue == outcome' = outcome
Same == UNCHANGED <<step, outcome>>

\* A provider error ends the query where a model is asked; a slice that cuts
\* a character in two kills its task.  Neither emits anything.
Fail(kind, places) ==
  /\ at \in places
  /\ at' = "closed"
  /\ burst' = <<>>
  /\ outcome' = kind
  /\ UNCHANGED step

-----------------------------------------------------------------------------

\* A small context is answered by one call; nothing is emitted.
Bypass == Move("start", "direct", <<>>) /\ Same
DirectAnswer ==
  /\ Move("direct", "closed", <<>>)
  /\ outcome' = "answered"
  /\ UNCHANGED step

\* A large context goes through four phases before the loop starts.
StartPhases ==
  Move("start", "phase1", <<"phased_start", "phase_start">>) /\ Same
NextPhase(from, to) ==
  Move(from, to, <<"phase_complete", "phase_start">>) /\ Same

\* The loop starts: from the beginning, or as phase 5.
StartLoop == \E from \in {"start", "phase4"} :
  /\ Move(from, "loop",
          IF from = "start" THEN <<"query_start">>
          ELSE <<"phase_complete", "phase_start", "query_start">>)
  /\ Same

StartIteration ==
  /\ step < MaxIterations
  /\ Move("loop", "llm", <<"iteration_start", "llm_start">>)
  /\ step' = step + 1
  /\ Continue

\* Before the model is asked: the budget of sub-calls is spent.
OutOfCalls ==
  /\ step < MaxIterations
  /\ Move("loop", "closed", <<"iteration_start", "complete">>)
  /\ step' = step + 1
  /\ outcome' = "error"

RunCommands == \E tools \in ToolBursts :
  Move("llm", "exec", <<"llm_complete", "commands">> \o tools) /\ Same

RunTool == \E tools \in ToolBursts : Move("exec", "exec", tools) /\ Same

EndIteration == \E tools \in ToolBursts :
  /\ \/ Move("exec", "loop",
             tools \o <<"command_complete", "iteration_complete">>)
     \/ Move("llm", "loop", <<"llm_complete", "iteration_complete">>)
  /\ Same

\* The commands, or the model's text, hold the final answer.
Answer == \E tools \in ToolBursts :
  /\ \/ Move("exec", "return",
             tools \o <<"command_complete", "iteration_complete",
                        "final_answer", "complete">>)
     \/ Move("llm", "return",
             <<"llm_complete", "final_answer", "iteration_complete", "complete">>)
  /\ outcome' = "answered"
  /\ UNCHANGED step

Exhaust ==
  /\ step = MaxIterations
  /\ Move("loop", "return", <<"complete">>)
  /\ outcome' = "exhausted"
  /\ UNCHANGED step

\* The caller gets the result; a phased query closes its last phase first.
Return == \E events \in {<<>>, <<"phase_complete", "complete">>} :
  /\ Move("return", "closed", events)
  /\ Same

ProgressNext ==
  \/ Bypass \/ DirectAnswer
  \/ StartPhases
  \/ NextPhase("phase1", "phase2")
  \/ NextPhase("phase2", "phase3")
  \/ NextPhase("phase3", "phase4")
  \/ StartLoop \/ StartIteration \/ OutOfCalls
  \/ RunCommands \/ RunTool \/ EndIteration \/ Answer \/ Exhaust \/ Return
  \/ Fail("error", {"direct", "phase1", "phase3", "llm"})
  \/ Fail("panic", {"phase2", "phase3", "exec"})

ProgressSpec == ProgressInit /\ [][ProgressNext]_progressVars

=============================================================================
