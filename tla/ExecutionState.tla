--------------------------- MODULE ExecutionState ---------------------------
(***************************************************************************)
(* The data of one request: the ExecutionState object, the events that     *)
(* mutate it (StateManager), the graph engine's reading of it and its      *)
(* reconstruction from a log.  Pure operators; Kernel.tla holds the        *)
(* behaviour.                                                              *)
(*                                                                         *)
(* A skill's output is abstracted to the number of the execution of the    *)
(* step that produced it; a failure to its kind.                           *)
(***************************************************************************)
EXTENDS Integers, Sequences, FiniteSets, SequencesExt

CONSTANTS
  StepIds,    \* every step id a plan may mention
  Plans,      \* the plans the planner (an LLM) may return
  NoPlan,     \* state.plan_ir before PLAN_CREATED
  NoStep,     \* the step_id of an event about the whole execution
  NoOutput,   \* a step without an entry in skill_outputs
  Approved    \* the output "Approved by Human Fallback"

(***************************************************************************)
(* A plan: its steps and their place in the list, the sources of the edges *)
(* into each step, the retry budgets, and whether the planner answered     *)
(* directly.  Nothing validates an LLM's plan: `deps` may name a step that *)
(* the plan does not have, and may be cyclic.  Step ids are unique, which  *)
(* the planner's schema asks of the LLM.                                   *)
(***************************************************************************)
PlanIR == [steps : SUBSET StepIds, pos : [StepIds -> Nat],
           deps : [StepIds -> SUBSET StepIds], max : [StepIds -> Nat \ {0}],
           direct : BOOLEAN]

ASSUME PlansAssumption == /\ Plans \subseteq PlanIR
                          /\ NoPlan \notin Plans
ASSUME NamesAssumption == /\ NoStep \notin StepIds
                          /\ NoOutput \notin Nat
                          /\ Approved \notin Nat
                          /\ Approved # NoOutput

ExecutionStatus == {"CREATED", "PLANNED", "RUNNING", "PAUSED_APPROVAL",
                    "COMPLETED", "FAILED", "ABORTED"}

\* ABSENT: no entry in step_states yet.
StepStatus == {"ABSENT", "PENDING", "RUNNING", "COMMITTED", "FAILED"}

Failures == {"TOOL_ERROR", "CRITIC_FAIL"}

Outputs == Nat \cup {NoOutput, Approved}

EventType == {"PLAN_CREATED", "EXECUTION_STARTED", "EXECUTION_COMPLETED",
              "EXECUTION_FAILED", "EXECUTION_ABORTED", "EXECUTION_PAUSED",
              "LEARNING_SIGNAL", "STEP_STARTED", "STEP_COMPLETED",
              "STEP_FAILED", "STEP_RETRYING"}

\* The part of a payload that apply_event reads.
EmptyPayload == [empty |-> TRUE]
Payload == {EmptyPayload} \cup [plan : Plans] \cup [attempt : Nat]
                          \cup [output : Outputs] \cup [failure : Failures]

KernelEvent == [id : Nat, type : EventType, step : StepIds \cup {NoStep},
                payload : Payload]

StateType == [status   : ExecutionStatus,
              plan     : Plans \cup {NoPlan},
              step     : [StepIds -> StepStatus],
              attempts : [StepIds -> Nat],
              output   : [StepIds -> Outputs],
              log      : Seq(KernelEvent)]

-----------------------------------------------------------------------------
(* ExecutionState(request_id, input_payload)                               *)
EmptyState == [status   |-> "CREATED",
               plan     |-> NoPlan,
               step     |-> [s \in StepIds |-> "ABSENT"],
               attempts |-> [s \in StepIds |-> 0],
               output   |-> [s \in StepIds |-> NoOutput],
               log      |-> << >>]

Known(st, s) == s \in StepIds /\ st.step[s] # "ABSENT"

\* StateManager.apply_event past the duplicate check and the append to the log.
Mutate(st, e) ==
  CASE e.type = "PLAN_CREATED" ->
         [st EXCEPT !.plan = e.payload.plan, !.status = "PLANNED",
                    !.step = [s \in StepIds |->
                       IF s \in e.payload.plan.steps /\ st.step[s] = "ABSENT"
                       THEN "PENDING" ELSE st.step[s]]]
    [] e.type = "EXECUTION_STARTED"   -> [st EXCEPT !.status = "RUNNING"]
    [] e.type = "EXECUTION_COMPLETED" -> [st EXCEPT !.status = "COMPLETED"]
    [] e.type = "EXECUTION_FAILED"    -> [st EXCEPT !.status = "FAILED"]
    [] e.type = "EXECUTION_ABORTED"   -> [st EXCEPT !.status = "ABORTED"]
    [] e.type = "STEP_STARTED" /\ Known(st, e.step) ->
         [st EXCEPT !.step[e.step] = "RUNNING", !.attempts[e.step] = e.payload.attempt]
    [] e.type = "STEP_COMPLETED" /\ Known(st, e.step) ->
         [st EXCEPT !.step[e.step] = "COMMITTED", !.output[e.step] = e.payload.output]
    [] e.type = "STEP_FAILED" /\ Known(st, e.step) ->
         [st EXCEPT !.step[e.step] = "FAILED"]
    [] e.type = "STEP_RETRYING" /\ Known(st, e.step) ->
         [st EXCEPT !.step[e.step] = "PENDING"]
    [] OTHER -> st

\* processed_event_ids
SeenIds(st) == {st.log[i].id : i \in 1..Len(st.log)}

\* A known event_id is skipped, any other event is logged and applied.
ApplyEvent(st, e) ==
  IF e.id \in SeenIds(st) THEN st
  ELSE [Mutate(st, e) EXCEPT !.log = Append(st.log, e)]

\* StateManager.reconstruct.  Its sort by timestamp is stable and keeps the
\* order of each step's events (one process, one clock), and events of
\* different steps change different fields, so log order stands for it.
Reconstruct(events) == FoldLeft(ApplyEvent, EmptyState, events)

-----------------------------------------------------------------------------
(* ExecutionGraphEngine                                                    *)
IsComplete(st) ==
  \A s \in st.plan.steps : st.step[s] \in {"COMMITTED", "FAILED"}

\* Mutant: one committed dependency is enough.
Runnable_SomeDep(st) ==
  {s \in st.plan.steps :
     /\ st.step[s] = "PENDING"
     /\ st.plan.deps[s] = {} \/ \E d \in st.plan.deps[s] : st.step[d] = "COMMITTED"}

\* Mutant: a dependency that has ended is enough.
Runnable_Ended(st) ==
  {s \in st.plan.steps :
     /\ st.step[s] = "PENDING"
     /\ \A d \in st.plan.deps[s] : st.step[d] \in {"COMMITTED", "FAILED"}}

\* get_runnable_steps
Runnable(st) ==
  {s \in st.plan.steps :
     /\ st.step[s] = "PENDING"
     /\ \A d \in st.plan.deps[s] : st.step[d] = "COMMITTED"}
=============================================================================
