------------------------------- MODULE Kernel -------------------------------
(***************************************************************************)
(* The kernel process executing one request: CoreEngine (run, resume,      *)
(* replay, abort), the orchestrator's wave loop, the in-process scheduler  *)
(* and step lifecycle, the event bus and the checkpoint files, with aborts *)
(* and process crashes at any point.                                       *)
(*                                                                         *)
(* The kernel is one asyncio loop: code between two awaits is atomic.      *)
(* `pc` is the await at which CoreEngine.run / resume is suspended.        *)
(***************************************************************************)
EXTENDS ExecutionState

CONSTANTS
  HasApproval,  \* an approval_callback is registered
  Faults,       \* which I/O faults occur: subset of FaultKinds
  MaxResumes,   \* bound: calls of resume() and replay()
  CanReplay     \* replay() is used as well as resume()

FaultKinds == {"save_error",  \* save_checkpoint raises; the process goes on
               "torn_write"}  \* the process dies while writing a checkpoint

ASSUME ConfigAssumption == /\ HasApproval \in BOOLEAN
                           /\ CanReplay \in BOOLEAN
                           /\ Faults \subseteq FaultKinds
                           /\ MaxResumes \in Nat

VARIABLES
  state,       \* the ExecutionState object the orchestrator works on
  pc,          \* where the kernel's coroutine is suspended
  owner,       \* the call that put state into active_executions, or "none"
  wave,        \* wave[s]: attempt number of s's task, 0 if it is not in the wave
  results,     \* results[s]: outcome of that task
  cursor,      \* the step whose result is being published, and its next part
  checkpoint,  \* what the newest checkpoint file holds
  resumes,     \* number of resume() / replay() calls
  execs,       \* observer: executions of each step's skill so far
  consumed     \* observer: <<s, o>> when output o of s was an input of a task

vars == <<state, pc, owner, wave, results, cursor, checkpoint, resumes, execs, consumed>>
observers == <<execs, consumed>>
dispatching == <<wave, results, cursor>>

NoFile == [kind |-> "none"]
TornFile == [kind |-> "torn"]
File(st) == [kind |-> "whole", state |-> st]

NoTask == [kind |-> "none"]
Pending == [kind |-> "pending"]
Succeeded(o) == [kind |-> "success", output |-> o]
FailedWith(f) == [kind |-> "failure", failure |-> f]

NoWave == [s \in StepIds |-> 0]
NoResults == [s \in StepIds |-> NoTask]
NoCursor == [step |-> NoStep, part |-> 1]

-----------------------------------------------------------------------------
(* EventBus.publish and CoreEngine._on_any_event                           *)

Event(type, step, payload) ==
  [id |-> Len(state.log) + 1, type |-> type, step |-> step, payload |-> payload]

\* Mutants: a step's commit is not saved; a snapshot is taken as a step starts.
CheckpointedEvents_NoSteps == {"PLAN_CREATED", "EXECUTION_COMPLETED"}
CheckpointedEvents_Started ==
  {"STEP_STARTED", "STEP_COMPLETED", "PLAN_CREATED", "EXECUTION_COMPLETED"}

CheckpointedEvents == {"STEP_COMPLETED", "PLAN_CREATED", "EXECUTION_COMPLETED"}

\* What may be on disk after the handler of an event of this type ran.  A save
\* that raises leaves no new file, or one that json.dump had begun.
Saved(type, st) ==
  IF type \notin CheckpointedEvents THEN {checkpoint}
  ELSE {File(st)} \cup (IF "save_error" \in Faults THEN {checkpoint, TornFile} ELSE {})

\* Persist, then apply, then checkpoint; a failure to append to the EventStore
\* (which nothing reads back) or to save is logged and otherwise ignored.
Publish(type, step, payload) ==
  /\ state' = ApplyEvent(state, Event(type, step, payload))
  /\ checkpoint' \in Saved(type, state')

-----------------------------------------------------------------------------
(* CoreEngine.run                                                          *)

Run ==
  /\ pc = "idle"
  /\ state' = EmptyState
  /\ owner' = "run"
  /\ pc' = "planning"
  /\ UNCHANGED <<dispatching, checkpoint, resumes, observers>>

\* _generate_plan answered; PLAN_CREATED is published.
PlanCreated(p) ==
  /\ pc = "planning"
  /\ Publish("PLAN_CREATED", NoStep, [plan |-> p])
  /\ pc' = "starting"
  /\ UNCHANGED <<owner, dispatching, resumes, observers>>

DropWave == wave' = NoWave /\ results' = NoResults /\ cursor' = NoCursor

\* The coroutine ends, by return or by an exception: run()'s `finally`
\* forgets the execution, resume() and replay() do not.
Return ==
  /\ pc' = "returned"
  /\ owner' = IF owner = "run" THEN "none" ELSE owner
  /\ DropWave

PlanFails ==
  /\ pc = "planning"
  /\ Return
  /\ UNCHANGED <<state, checkpoint, resumes, observers>>

-----------------------------------------------------------------------------
(* ExecutionOrchestrator.execute                                           *)

PublishStarted ==
  /\ pc = "starting"
  /\ Publish("EXECUTION_STARTED", NoStep, EmptyPayload)
  /\ pc' = IF state.plan.direct THEN "answering" ELSE "looping"
  /\ UNCHANGED <<owner, dispatching, resumes, observers>>

\* The direct_response shortcut.
PublishAnswered ==
  /\ pc = "answering"
  /\ Publish("EXECUTION_COMPLETED", NoStep, EmptyPayload)
  /\ Return
  /\ UNCHANGED <<resumes, observers>>

\* Mutants: no status check at the top of the loop; the loop stops at the first
\* failed step; no deadlock check.
MayDispatch_IgnoreAbort == ~IsComplete(state) /\ Runnable(state) # {}
MayDispatch_FailFast == /\ ~IsComplete(state)
                        /\ state.status # "ABORTED"
                        /\ \A s \in StepIds : state.step[s] # "FAILED"
                        /\ Runnable(state) # {}
MayDispatch_NoDeadlockCheck == ~IsComplete(state) /\ state.status # "ABORTED"

MayDispatch ==
  /\ ~IsComplete(state)
  /\ state.status # "ABORTED"
  /\ Runnable(state) # {}

\* One turn of the while loop up to `await self.scheduler.dispatch(tasks)`:
\* every runnable step becomes a task and the tasks start together.  The
\* deduplication guard never blocks: it tests the coroutine that the asyncio
\* client's setnx returns, without awaiting it.
NextWave ==
  /\ pc = "looping"
  /\ MayDispatch
  /\ LET runnable == Runnable(state)
     IN /\ wave' = [s \in StepIds |-> IF s \in runnable THEN state.attempts[s] + 1 ELSE 0]
        /\ results' = [s \in StepIds |-> IF s \in runnable THEN Pending ELSE NoTask]
        /\ execs' = [s \in StepIds |-> IF s \in runnable THEN execs[s] + 1 ELSE execs[s]]
        /\ consumed' = consumed \cup
             {<<d, state.output[d]>> : d \in UNION {state.plan.deps[s] : s \in runnable}}
  /\ pc' = "gathering"
  /\ UNCHANGED <<state, owner, cursor, checkpoint, resumes>>

\* The loop ends: complete, aborted, or deadlocked (nothing is runnable).
LoopEnds ==
  /\ pc = "looping"
  /\ ~MayDispatch
  /\ pc' = IF state.status \in {"ABORTED", "FAILED"} THEN "signalling" ELSE "completing"
  /\ UNCHANGED <<state, owner, dispatching, checkpoint, resumes, observers>>

At == cursor.step

\* The results are published in the order of the plan's list; after the last
\* one the loop turns.  `todo` are the steps left.
GoOnWith(todo) ==
  IF todo = {} THEN pc' = "looping" /\ cursor' = NoCursor
  ELSE \E s \in todo : /\ \A t \in todo : state.plan.pos[s] <= state.plan.pos[t]
                       /\ pc' = "publishing"
                       /\ cursor' = [step |-> s, part |-> 1]

\* StepLifecycleEngine.execute_task of one task ends (wait_for bounds it);
\* gather returns when all have.
TaskEnds(s, outcome) ==
  /\ pc = "gathering"
  /\ results[s] = Pending
  /\ results' = [results EXCEPT ![s] = outcome]
  /\ IF \E t \in StepIds \ {s} : results[t] = Pending
     THEN UNCHANGED <<pc, cursor>>
     ELSE GoOnWith({t \in StepIds : wave[t] # 0})
  /\ UNCHANGED <<state, owner, wave, checkpoint, resumes, observers>>

TaskSucceeds(s) == TaskEnds(s, Succeeded(execs[s]))
TaskFails(s) == \E f \in Failures : TaskEnds(s, FailedWith(f))

\* Mutant: the result stays behind.
NextResult_Stale ==
  /\ wave' = [wave EXCEPT ![At] = 0]
  /\ UNCHANGED results
  /\ GoOnWith({t \in StepIds : wave'[t] # 0})

NextResult ==
  /\ wave' = [wave EXCEPT ![At] = 0]
  /\ results' = [results EXCEPT ![At] = NoTask]
  /\ GoOnWith({t \in StepIds : wave'[t] # 0})

\* Every result carries STEP_STARTED first.
PublishStepStarted ==
  /\ pc = "publishing" /\ cursor.part = 1
  /\ Publish("STEP_STARTED", At, [attempt |-> wave[At]])
  /\ cursor' = [cursor EXCEPT !.part = 2]
  /\ UNCHANGED <<pc, owner, wave, results, resumes, observers>>

PublishStepCompleted ==
  /\ pc = "publishing" /\ cursor.part = 2
  /\ results[At].kind = "success"
  /\ Publish("STEP_COMPLETED", At, [output |-> results[At].output])
  /\ NextResult
  /\ UNCHANGED <<owner, resumes, observers>>

PublishStepFailed ==
  /\ pc = "publishing" /\ cursor.part = 2
  /\ results[At].kind = "failure"
  /\ Publish("STEP_FAILED", At, [failure |-> results[At].failure])
  /\ cursor' = [cursor EXCEPT !.part = 3]
  /\ UNCHANGED <<pc, owner, wave, results, resumes, observers>>

\* Mutants: off by one, either way.
AttemptsLeft_Late == state.attempts[At] <= state.plan.max[At]
AttemptsLeft_Early == state.attempts[At] + 1 < state.plan.max[At]

AttemptsLeft == state.attempts[At] < state.plan.max[At]

\* Mutant: the step is reset without an event.
Retry_Silent ==
  /\ pc = "publishing" /\ cursor.part = 3
  /\ AttemptsLeft
  /\ state' = [state EXCEPT !.step[At] = "PENDING"]
  /\ NextResult
  /\ UNCHANGED <<checkpoint, owner, resumes, observers>>

\* Retry logic after a failed result.  The idempotency guard never blocks:
\* execute_task reports every failure in phase RUNNING.
Retry ==
  /\ pc = "publishing" /\ cursor.part = 3
  /\ AttemptsLeft
  /\ Publish("STEP_RETRYING", At, EmptyPayload)
  /\ NextResult
  /\ UNCHANGED <<owner, resumes, observers>>

MayEscalate == results[At].failure = "CRITIC_FAIL" /\ HasApproval

GiveUp ==
  /\ pc = "publishing" /\ cursor.part = 3
  /\ ~AttemptsLeft /\ ~MayEscalate
  /\ NextResult
  /\ UNCHANGED <<state, owner, checkpoint, resumes, observers>>

\* EXECUTION_PAUSED has no case in apply_event; the status is assigned after
\* the publication.
Escalate ==
  /\ pc = "publishing" /\ cursor.part = 3
  /\ ~AttemptsLeft /\ MayEscalate
  /\ state' = [ApplyEvent(state, Event("EXECUTION_PAUSED", NoStep, EmptyPayload))
                 EXCEPT !.status = "PAUSED_APPROVAL"]
  /\ pc' = "awaiting_approval"
  /\ UNCHANGED <<owner, dispatching, checkpoint, resumes, observers>>

\* The human approves: status and step are assigned without an event.
Approve ==
  /\ pc = "awaiting_approval"
  /\ state' = [state EXCEPT !.status = "RUNNING", !.step[At] = "COMMITTED",
                   !.output[At] = IF @ = NoOutput THEN Approved ELSE @]
  /\ NextResult
  /\ UNCHANGED <<owner, checkpoint, resumes, observers>>

\* The human rejects: `break` leaves the loop over this result's events only.
Reject ==
  /\ pc = "awaiting_approval"
  /\ state' = [state EXCEPT !.status = "ABORTED"]
  /\ NextResult
  /\ UNCHANGED <<owner, checkpoint, resumes, observers>>

\* The approval callback raises: the exception leaves execute().
ApprovalRaises ==
  /\ pc = "awaiting_approval"
  /\ Return
  /\ UNCHANGED <<state, checkpoint, resumes, observers>>

PublishCompleted ==
  /\ pc = "completing"
  /\ Publish("EXECUTION_COMPLETED", NoStep, EmptyPayload)
  /\ pc' = "signalling"
  /\ UNCHANGED <<owner, dispatching, resumes, observers>>

\* LEARNING_SIGNAL, then execute() returns its summary.
PublishLearningSignal ==
  /\ pc = "signalling"
  /\ Publish("LEARNING_SIGNAL", NoStep, EmptyPayload)
  /\ Return
  /\ UNCHANGED <<resumes, observers>>

-----------------------------------------------------------------------------
(* The callers and the environment                                         *)

Live == pc \notin {"idle", "returned", "crashed"}

\* CoreEngine.abort, from another coroutine of the same loop.
Abort ==
  /\ owner # "none"
  /\ state' = [state EXCEPT !.status = "ABORTED"]
  /\ UNCHANGED <<pc, owner, dispatching, checkpoint, resumes, observers>>

\* The process dies (or a BaseException leaves the gather).
Crash ==
  /\ Live
  /\ state' = EmptyState
  /\ pc' = "crashed"
  /\ owner' = "none"
  /\ DropWave
  /\ UNCHANGED <<checkpoint, resumes, observers>>

\* The await after which an event of a checkpointed type is published.
AtSave == \/ pc \in {"planning", "answering", "completing"}
          \/ pc = "publishing" /\ cursor.part = 2 /\ results[At].kind = "success"

\* The process dies after open(path, "w"), before json.dump ends.
CrashInSave ==
  /\ "torn_write" \in Faults
  /\ AtSave
  /\ checkpoint' = TornFile
  /\ state' = EmptyState
  /\ pc' = "crashed"
  /\ owner' = "none"
  /\ DropWave
  /\ UNCHANGED <<resumes, observers>>

\* The request is picked up again in state st.  Callers do it when no call
\* for the request is running.
Reenter(st) ==
  /\ ~Live /\ pc # "idle"
  /\ resumes < MaxResumes
  /\ resumes' = resumes + 1
  /\ state' = st
  /\ owner' = "resume"
  /\ pc' = "starting"
  /\ UNCHANGED <<dispatching, checkpoint, observers>>

\* Mutant: resuming restarts every step of the plan.
Resume_Restart ==
  /\ checkpoint.kind = "whole"
  /\ Reenter([checkpoint.state EXCEPT
       !.step = [s \in StepIds |-> IF @[s] = "ABSENT" THEN "ABSENT" ELSE "PENDING"]])

\* load_checkpoint raises on a torn file and nothing changes.
Resume == checkpoint.kind = "whole" /\ Reenter(checkpoint.state)

\* replay(request_id, up_to_event_id) with the k-th event of the log.
Replay(k) ==
  /\ CanReplay
  /\ checkpoint.kind = "whole"
  /\ Reenter(Reconstruct(SubSeq(checkpoint.state.log, 1, k)))

-----------------------------------------------------------------------------
Init ==
  /\ state = EmptyState
  /\ pc = "idle"
  /\ owner = "none"
  /\ wave = NoWave /\ results = NoResults /\ cursor = NoCursor
  /\ checkpoint = NoFile
  /\ resumes = 0
  /\ execs = [s \in StepIds |-> 0]
  /\ consumed = {}

Orchestrate ==
  \/ PublishStarted \/ PublishAnswered \/ NextWave \/ LoopEnds
  \/ \E s \in StepIds : TaskSucceeds(s) \/ TaskFails(s)
  \/ PublishStepStarted \/ PublishStepCompleted \/ PublishStepFailed
  \/ Retry \/ GiveUp \/ Escalate
  \/ PublishCompleted \/ PublishLearningSignal

Plan == (\E p \in Plans : PlanCreated(p)) \/ PlanFails

Human == Approve \/ Reject \/ ApprovalRaises

Reentry == \/ Resume
           \/ checkpoint.kind = "whole" /\ \E k \in DOMAIN checkpoint.state.log : Replay(k)

Next == Run \/ Plan \/ Orchestrate \/ Human \/ Abort \/ Crash \/ CrashInSave \/ Reentry

Spec == Init /\ [][Next]_vars

\* The event loop keeps running the coroutine: the planner call ends or
\* raises, every skill is bounded by wait_for, publications do not block.
\* Nothing makes a human answer.
FairSpec == Spec /\ WF_vars(Plan) /\ WF_vars(Orchestrate)

-----------------------------------------------------------------------------
(* Properties                                                              *)

Snapshots == IF checkpoint.kind = "whole" THEN {state, checkpoint.state} ELSE {state}

FileType == {NoFile, TornFile} \cup [kind : {"whole"}, state : StateType]

ResultType == {NoTask, Pending} \cup [kind : {"success"}, output : Nat]
                                \cup [kind : {"failure"}, failure : Failures]

InWave == {s \in StepIds : wave[s] # 0}

\* Types, and the shape of a wave: tasks and results correspond, and a wave
\* exists exactly while the orchestrator dispatches it or awaits a human.
TypeOK ==
  /\ state \in StateType
  /\ pc \in {"idle", "planning", "starting", "answering", "looping", "gathering",
             "publishing", "awaiting_approval", "completing", "signalling",
             "returned", "crashed"}
  /\ owner \in {"none", "run", "resume"}
  /\ wave \in [StepIds -> Nat]
  /\ results \in [StepIds -> ResultType]
  /\ cursor \in [step : StepIds \cup {NoStep}, part : 1..3]
  /\ checkpoint \in FileType
  /\ resumes \in 0..MaxResumes
  /\ execs \in [StepIds -> Nat]
  /\ consumed \subseteq (StepIds \X Outputs)
  /\ \A s \in StepIds : wave[s] = 0 <=> results[s] = NoTask
  /\ InWave # {} <=> pc \in {"gathering", "publishing", "awaiting_approval"}

\* A step starts only after every step it depends on has completed, in the
\* order of the execution's own log, across crashes and resumptions
\* (get_runnable_steps, "Strict dependency: Source must be COMMITTED").
CausalLog ==
  \A st \in Snapshots : \A i \in DOMAIN st.log :
    st.log[i].type = "STEP_STARTED" =>
      \A d \in st.plan.deps[st.log[i].step] :
        \E j \in 1..(i - 1) : st.log[j].type = "STEP_COMPLETED" /\ st.log[j].step = d

\* No two tasks ever read different outputs of one step: an output is on disk
\* before the first task that consumes it starts, so no crash can take it
\* back (_on_any_event checkpoints each STEP_COMPLETED before the next wave).
ConsistentInputs ==
  \A c, d \in consumed : c[1] = d[1] => c[2] = d[2]

\* A step that the newest checkpoint shows as COMMITTED is never executed
\* again, whatever crashes (CoreEngine.resume continues from the first
\* uncommitted step).
CommittedStaysDone ==
  [][\A s \in StepIds : checkpoint.kind = "whole" /\ checkpoint.state.step[s] = "COMMITTED"
       => execs'[s] = execs[s]]_vars

\* Duplicate executions are bounded: each call of run, resume or replay
\* executes a step at most max_attempts times in all.
BoundedDuplication ==
  state.plan # NoPlan =>
    \A s \in StepIds : execs[s] <= state.plan.max[s] * (resumes + 1)

\* A checkpoint is never taken while a step is RUNNING.  A RUNNING step is
\* never runnable again, so resuming from such a checkpoint would strand it
\* (save_checkpoint is called between the events of a wave).
CheckpointResumable ==
  checkpoint.kind = "whole" =>
    \A s \in StepIds : checkpoint.state.step[s] # "RUNNING"

\* When the orchestrator decides to complete, no step is left that it could
\* still run, and none is stuck half way (the while loop of execute).
NothingLeftBehind ==
  pc = "completing" =>
    \A s \in state.plan.steps : state.step[s] # "RUNNING" /\ s \notin Runnable(state)

\* Replaying the log gives the steps of the live state: events are the only
\* thing that changes a step (StateManager.reconstruct).  The event catalog
\* promises it; a human's approval breaks it.
ReplayAgrees ==
  \A st \in Snapshots :
    LET r == Reconstruct(st.log)
    IN r.step = st.step /\ r.attempts = st.attempts /\ r.output = st.output

\* Once abort() has hit the wave loop no further task is started and no other
\* status replaces ABORTED until the coroutine ends, whatever the tasks in
\* flight answer (execute checks the status at the top of the loop).
AbortHolds ==
  [][state.status = "ABORTED" /\ pc \in {"looping", "gathering", "publishing", "signalling"}
       => execs' = execs /\ (state'.status = "ABORTED" \/ pc' = "crashed")]_vars

FailuresOf(st, s) ==
  {i \in DOMAIN st.log : st.log[i].type = "STEP_FAILED" /\ st.log[i].step = s}
UsedUp(st, s) ==
  st.step[s] = "FAILED" => Cardinality(FailuresOf(st, s)) = st.plan.max[s]

\* A step is left FAILED, in memory or on disk, only with its whole retry
\* budget on record: max_attempts failures in the execution's own log, none
\* lost and none counted twice by a crash, a resumption, a save that fails or
\* an escalation (the retry logic of execute, between two publications).
AttemptsUsedUp ==
  /\ \A s \in StepIds : wave[s] = 0 => UsedUp(state, s)
  /\ checkpoint.kind = "whole" => \A s \in StepIds : UsedUp(checkpoint.state, s)

\* A call of run, resume or replay ends: the retry budgets bound the waves,
\* and a wave that leaves nothing runnable ends the loop.
Termination == Live ~> ~Live

-----------------------------------------------------------------------------
(* What a document says of the kernel; refuted by a run.                   *)

\* A step whose last failure was escalated and is dealt with: it was rejected.
Rejected(s) ==
  /\ HasApproval /\ wave[s] = 0 /\ state.step[s] = "FAILED"
  /\ \E i \in DOMAIN state.log :
       /\ state.log[i].type = "STEP_FAILED" /\ state.log[i].step = s
       /\ state.log[i].payload.failure = "CRITIC_FAIL"
       /\ \A j \in (i + 1)..Len(state.log) : state.log[j].step # s

\* ADR 003: once a human rejects a step the execution is ABORTED.
RejectionIsFinal ==
  pc \in {"looping", "gathering", "publishing", "awaiting_approval"} =>
    \A s \in StepIds : Rejected(s) => state.status = "ABORTED"
=============================================================================
