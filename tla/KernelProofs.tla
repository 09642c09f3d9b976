---------------------------- MODULE KernelProofs ----------------------------
(***************************************************************************)
(* The theorems of Kernel.tla.  They hold for every set of plans, number   *)
(* of steps, retry budget, number of crashes and of resumptions and with   *)
(* every fault of the store and of the checkpoint files.                   *)
(*                                                                         *)
(* First the invariant of the live state, the wave and the checkpoint      *)
(* (IInv) and what follows from it, with or without a human; then the      *)
(* event log (LInv), the failures on record (UInv), aborts, what tasks     *)
(* have read (CInv) and what reconstruct makes of a log (RInv).  A human's *)
(* approval commits a step without an event and without a save, so the     *)
(* theorems about causality, aborts, inputs and replay are about kernels   *)
(* without an approval callback.  All but the last exclude replay().       *)
(***************************************************************************)
EXTENDS Kernel, FiniteSetTheorems, TLAPS

\* The events of a log are numbered: a new event is never taken for a duplicate.
Numbered(st) == \A i \in 1..Len(st.log) : st.log[i].id = i

\* A step that can still run has an attempt left.
Budgeted(st) ==
  st.plan # NoPlan =>
    \A s \in StepIds : /\ st.attempts[s] <= st.plan.max[s]
                       /\ st.step[s] = "PENDING" => st.attempts[s] < st.plan.max[s]

Blank(st) == \A s \in StepIds : st.step[s] = "ABSENT" /\ st.attempts[s] = 0

Executing == {"starting", "answering", "looping", "gathering", "publishing",
              "awaiting_approval", "completing", "signalling"}
Publishing == {"publishing", "awaiting_approval"}

\* Where the coroutine is, and what that says of the plan and the cursor.
Position ==
  /\ pc \in {"idle", "planning"} =>
       checkpoint = NoFile /\ resumes = 0 /\ \A s \in StepIds : execs[s] = 0
  /\ pc \in {"idle", "planning", "crashed"} => state.plan = NoPlan
  /\ state.plan = NoPlan => Blank(state)
  /\ pc \in Executing => state.plan # NoPlan
  /\ pc \in Publishing => At \in InWave
  /\ pc \notin Publishing => cursor = NoCursor
  /\ pc = "awaiting_approval" => cursor.part = 3

\* The steps of a wave: PENDING until STEP_STARTED is published for them, then
\* RUNNING, then FAILED until the retry logic has seen them.
WaveSteps ==
  /\ \A s \in StepIds :
       state.step[s] = "RUNNING" => pc = "publishing" /\ s = At /\ cursor.part = 2
  /\ \A s \in InWave :
       IF s = At /\ cursor.part > 1
       THEN /\ state.attempts[s] = wave[s]
            /\ state.step[s] = IF cursor.part = 2 THEN "RUNNING" ELSE "FAILED"
       ELSE /\ state.step[s] = "PENDING"
            /\ wave[s] = state.attempts[s] + 1

\* The attempts of s in this incarnation, the one under way included.
Spent(s) == IF wave[s] # 0 THEN wave[s] ELSE state.attempts[s]

Counted ==
  pc \in Executing =>
    \A s \in StepIds : execs[s] <= state.plan.max[s] * resumes + Spent(s)

\* What the newest checkpoint guarantees to the call that loads it.
Disk ==
  checkpoint.kind = "whole" =>
    LET cs == checkpoint.state
    IN /\ cs.plan # NoPlan
       /\ state.plan # NoPlan => state.plan = cs.plan
       /\ Numbered(cs)
       /\ Budgeted(cs)
       /\ \A s \in StepIds :
            /\ cs.step[s] # "RUNNING"
            /\ execs[s] <= cs.plan.max[s] * (resumes + 1)
            /\ pc \in Executing /\ cs.step[s] = "COMMITTED" => state.step[s] = "COMMITTED"

NoWorkLeft ==
  pc = "completing" => \A s \in state.plan.steps : s \notin Runnable(state)

IInv == /\ TypeOK
        /\ Numbered(state) /\ Budgeted(state)
        /\ Position /\ WaveSteps /\ Counted /\ BoundedDuplication
        /\ Disk /\ NoWorkLeft

-----------------------------------------------------------------------------
(* What the publication of an event does to the state.                     *)

\* A new event has the next number, so apply_event logs and applies it.
LEMMA NewEvent ==
  ASSUME state \in StateType, Numbered(state),
         NEW type \in EventType, NEW s \in StepIds \cup {NoStep},
         NEW p \in Payload
  PROVE  LET e == Event(type, s, p)
         IN /\ e \in KernelEvent
            /\ ApplyEvent(state, e) = [Mutate(state, e) EXCEPT !.log = Append(state.log, e)]
<1> DEFINE e == Event(type, s, p)
<1>1. state.log \in Seq(KernelEvent) /\ Len(state.log) \in Nat
  BY DEF StateType
<1>2. e \in KernelEvent
  BY <1>1 DEF Event, KernelEvent
<1>3. e.id = Len(state.log) + 1
  BY DEF Event
<1>4. e.id \notin SeenIds(state)
  <2>1. \A i \in 1..Len(state.log) : state.log[i].id # Len(state.log) + 1
    BY <1>1 DEF Numbered
  <2> QED BY <2>1, <1>3 DEF SeenIds
<1> HIDE DEF e
<1>5. ApplyEvent(state, e) = [Mutate(state, e) EXCEPT !.log = Append(state.log, e)]
  BY <1>4 DEF ApplyEvent
<1> QED BY <1>2, <1>5 DEF e

\* Logging it keeps the log numbered.
LEMMA LoggedEvent ==
  ASSUME state \in StateType, Numbered(state), NEW e \in KernelEvent,
         e.id = Len(state.log) + 1,
         NEW m \in StateType, m.log = state.log
  PROVE  LET st == [m EXCEPT !.log = Append(state.log, e)]
         IN /\ st \in StateType /\ Numbered(st)
            /\ st.status = m.status /\ st.plan = m.plan /\ st.step = m.step
            /\ st.attempts = m.attempts /\ st.output = m.output
<1> DEFINE st == [m EXCEPT !.log = Append(state.log, e)]
<1>1. state.log \in Seq(KernelEvent) /\ Len(state.log) \in Nat
  BY DEF StateType
<1>2. Append(state.log, e) \in Seq(KernelEvent)
  BY <1>1
<1>3. st \in StateType /\ st.log = Append(state.log, e)
  BY <1>2 DEF StateType
<1>4. Numbered(st)
  <2> SUFFICES ASSUME NEW i \in 1..Len(Append(state.log, e))
               PROVE  Append(state.log, e)[i].id = i
    BY <1>3 DEF Numbered
  <2>1. CASE i \in 1..Len(state.log)
    BY <2>1, <1>1 DEF Numbered
  <2>2. CASE i = Len(state.log) + 1
    BY <2>2, <1>1
  <2> QED BY <2>1, <2>2, <1>1
<1> QED BY <1>3, <1>4 DEF StateType

\* Events about the whole execution leave plan and steps alone.
SameSteps(st) == /\ st.plan = state.plan /\ st.step = state.step
                 /\ st.attempts = state.attempts /\ st.output = state.output

LEMMA StatusEvent ==
  ASSUME state \in StateType, Numbered(state),
         NEW type \in {"EXECUTION_STARTED", "EXECUTION_COMPLETED", "EXECUTION_PAUSED",
                       "LEARNING_SIGNAL"}
  PROVE  LET st == ApplyEvent(state, Event(type, NoStep, EmptyPayload))
         IN st \in StateType /\ Numbered(st) /\ SameSteps(st)
<1> DEFINE e == Event(type, NoStep, EmptyPayload)
           m == Mutate(state, e)
<1>0. /\ type \in EventType /\ NoStep \in StepIds \cup {NoStep}
      /\ EmptyPayload \in Payload
  BY DEF EventType, Payload
<1>1. /\ e \in KernelEvent
      /\ ApplyEvent(state, e) = [m EXCEPT !.log = Append(state.log, e)]
  BY <1>0, NewEvent
<1>2. e.type = type /\ e.id = Len(state.log) + 1
  BY DEF Event
<1> HIDE DEF e
<1>3. m \in StateType /\ m.log = state.log /\ SameSteps(m)
  BY <1>2 DEF Mutate, StateType, ExecutionStatus, SameSteps
<1> HIDE DEF m
<1> QED BY <1>1, <1>2, <1>3, LoggedEvent DEF SameSteps, e

\* PLAN_CREATED on the empty state.
LEMMA PlanEvent ==
  ASSUME state \in StateType, Numbered(state), Blank(state), NEW p \in Plans
  PROVE  LET st == ApplyEvent(state, Event("PLAN_CREATED", NoStep, [plan |-> p]))
         IN /\ st \in StateType /\ Numbered(st)
            /\ st.plan = p /\ st.attempts = state.attempts
            /\ \A s \in StepIds : st.step[s] \in {"ABSENT", "PENDING"}
<1> DEFINE e == Event("PLAN_CREATED", NoStep, [plan |-> p])
           m == Mutate(state, e)
<1>0. /\ "PLAN_CREATED" \in EventType /\ NoStep \in StepIds \cup {NoStep}
      /\ [plan |-> p] \in Payload
  BY DEF EventType, Payload
<1>1. /\ e \in KernelEvent
      /\ ApplyEvent(state, e) = [m EXCEPT !.log = Append(state.log, e)]
  BY <1>0, NewEvent
<1>2. e.type = "PLAN_CREATED" /\ e.id = Len(state.log) + 1 /\ e.payload.plan = p
  BY DEF Event
<1> HIDE DEF e
<1>3. /\ m \in StateType /\ m.log = state.log
      /\ m.plan = p /\ m.attempts = state.attempts
      /\ \A s \in StepIds : m.step[s] \in {"ABSENT", "PENDING"}
  <2>1. m = [state EXCEPT !.plan = p, !.status = "PLANNED",
                          !.step = [s \in StepIds |->
                             IF s \in p.steps /\ state.step[s] = "ABSENT"
                             THEN "PENDING" ELSE state.step[s]]]
    BY <1>2 DEF Mutate
  <2>2. [s \in StepIds |-> IF s \in p.steps /\ state.step[s] = "ABSENT"
                           THEN "PENDING" ELSE state.step[s]] \in [StepIds -> StepStatus]
    BY DEF StateType, StepStatus
  <2> HIDE DEF m
  <2>3. m \in StateType /\ m.log = state.log /\ m.plan = p /\ m.attempts = state.attempts
    BY <2>1, <2>2 DEF StateType, ExecutionStatus
  <2>4. \A s \in StepIds : m.step[s] \in {"ABSENT", "PENDING"}
    BY <2>1 DEF StateType, Blank
  <2> QED BY <2>3, <2>4
<1> HIDE DEF m
<1>4. LET st == ApplyEvent(state, e)
      IN /\ st \in StateType /\ Numbered(st) /\ st.plan = m.plan
         /\ st.attempts = m.attempts /\ st.step = m.step
  BY <1>1, <1>2, <1>3, LoggedEvent
<1> QED BY <1>3, <1>4 DEF e

\* The events of a step change its entry only.
StepEffect(st, s, status, attempts) ==
  /\ st.plan = state.plan
  /\ st.step = [state.step EXCEPT ![s] = status]
  /\ st.attempts = [state.attempts EXCEPT ![s] = attempts]

LEMMA StepEvent ==
  ASSUME state \in StateType, Numbered(state),
         NEW s \in StepIds, state.step[s] # "ABSENT",
         NEW n \in Nat, NEW o \in Outputs, NEW f \in Failures
  PROVE  LET started   == ApplyEvent(state, Event("STEP_STARTED", s, [attempt |-> n]))
             completed == ApplyEvent(state, Event("STEP_COMPLETED", s, [output |-> o]))
             failed    == ApplyEvent(state, Event("STEP_FAILED", s, [failure |-> f]))
             retrying  == ApplyEvent(state, Event("STEP_RETRYING", s, EmptyPayload))
         IN /\ {started, completed, failed, retrying} \subseteq StateType
            /\ Numbered(started) /\ Numbered(completed)
            /\ Numbered(failed) /\ Numbered(retrying)
            /\ StepEffect(started, s, "RUNNING", n)
            /\ StepEffect(completed, s, "COMMITTED", state.attempts[s])
            /\ StepEffect(failed, s, "FAILED", state.attempts[s])
            /\ StepEffect(retrying, s, "PENDING", state.attempts[s])
<1> DEFINE e1 == Event("STEP_STARTED", s, [attempt |-> n])
           e2 == Event("STEP_COMPLETED", s, [output |-> o])
           e3 == Event("STEP_FAILED", s, [failure |-> f])
           e4 == Event("STEP_RETRYING", s, EmptyPayload)
           Applied(e) == [Mutate(state, e) EXCEPT !.log = Append(state.log, e)]
<1>0. /\ {"STEP_STARTED", "STEP_COMPLETED", "STEP_FAILED", "STEP_RETRYING"} \subseteq EventType
      /\ [attempt |-> n] \in Payload /\ [output |-> o] \in Payload
      /\ [failure |-> f] \in Payload /\ EmptyPayload \in Payload
      /\ s \in StepIds \cup {NoStep}
  BY DEF EventType, Payload
<1>1. /\ {e1, e2, e3, e4} \subseteq KernelEvent
      /\ ApplyEvent(state, e1) = Applied(e1)
      /\ ApplyEvent(state, e2) = Applied(e2)
      /\ ApplyEvent(state, e3) = Applied(e3)
      /\ ApplyEvent(state, e4) = Applied(e4)
  <2>1. e1 \in KernelEvent /\ ApplyEvent(state, e1) = Applied(e1)
    BY <1>0, NewEvent
  <2>2. e2 \in KernelEvent /\ ApplyEvent(state, e2) = Applied(e2)
    BY <1>0, NewEvent
  <2>3. e3 \in KernelEvent /\ ApplyEvent(state, e3) = Applied(e3)
    BY <1>0, NewEvent
  <2>4. e4 \in KernelEvent /\ ApplyEvent(state, e4) = Applied(e4)
    BY <1>0, NewEvent
  <2> HIDE DEF e1, e2, e3, e4, Applied
  <2> QED BY <2>1, <2>2, <2>3, <2>4
<1>2. /\ e1.type = "STEP_STARTED" /\ e1.step = s /\ e1.payload.attempt = n
      /\ e2.type = "STEP_COMPLETED" /\ e2.step = s /\ e2.payload.output = o
      /\ e3.type = "STEP_FAILED" /\ e3.step = s
      /\ e4.type = "STEP_RETRYING" /\ e4.step = s
      /\ \A e \in {e1, e2, e3, e4} : e.id = Len(state.log) + 1
  BY DEF Event
<1> HIDE DEF e1, e2, e3, e4
<1>3. /\ Mutate(state, e1) = [state EXCEPT !.step[s] = "RUNNING", !.attempts[s] = n]
      /\ Mutate(state, e2) = [state EXCEPT !.step[s] = "COMMITTED", !.output[s] = o]
      /\ Mutate(state, e3) = [state EXCEPT !.step[s] = "FAILED"]
      /\ Mutate(state, e4) = [state EXCEPT !.step[s] = "PENDING"]
  BY <1>2 DEF Mutate, Known
<1>4. \A x \in StepStatus : [state.step EXCEPT ![s] = x] \in [StepIds -> StepStatus]
  BY DEF StateType
<1>5. /\ [state.attempts EXCEPT ![s] = n] \in [StepIds -> Nat]
      /\ [state.output EXCEPT ![s] = o] \in [StepIds -> Outputs]
      /\ [state.attempts EXCEPT ![s] = state.attempts[s]] = state.attempts
  BY DEF StateType
<1>6. \A e \in {e1, e2, e3, e4} : Mutate(state, e) \in StateType /\ Mutate(state, e).log = state.log
  <2> HIDE DEF Applied
  <2>1. Mutate(state, e1) \in StateType /\ Mutate(state, e1).log = state.log
    BY <1>3, <1>4, <1>5, ZenonT(30) DEF StateType, StepStatus
  <2>2. Mutate(state, e2) \in StateType /\ Mutate(state, e2).log = state.log
    BY <1>3, <1>4, <1>5 DEF StateType, StepStatus
  <2>3. Mutate(state, e3) \in StateType /\ Mutate(state, e3).log = state.log
    BY <1>3, <1>4 DEF StateType, StepStatus
  <2>4. Mutate(state, e4) \in StateType /\ Mutate(state, e4).log = state.log
    BY <1>3, <1>4, ZenonT(30) DEF StateType, StepStatus
  <2> QED BY <2>1, <2>2, <2>3, <2>4
<1>7. /\ StepEffect(Mutate(state, e1), s, "RUNNING", n)
      /\ StepEffect(Mutate(state, e2), s, "COMMITTED", state.attempts[s])
      /\ StepEffect(Mutate(state, e3), s, "FAILED", state.attempts[s])
      /\ StepEffect(Mutate(state, e4), s, "PENDING", state.attempts[s])
  BY <1>3, <1>5 DEF StateType, StepEffect
<1>8. \A e \in {e1, e2, e3, e4} :
         LET m == Mutate(state, e)
         IN /\ Applied(e) \in StateType /\ Numbered(Applied(e))
            /\ Applied(e).plan = m.plan /\ Applied(e).step = m.step
            /\ Applied(e).attempts = m.attempts
  <2> TAKE e \in {e1, e2, e3, e4}
  <2> DEFINE m == Mutate(state, e)
  <2>1. e \in KernelEvent /\ e.id = Len(state.log) + 1 /\ m \in StateType /\ m.log = state.log
    BY <1>1, <1>2, <1>6
  <2> HIDE DEF m
  <2> QED BY <2>1, LoggedEvent DEF m
<1> HIDE DEF Applied
<1> QED BY <1>1, <1>7, <1>8 DEF StepEffect, e1, e2, e3, e4

-----------------------------------------------------------------------------
(* The inductive invariant.                                                *)

LEMMA InitIInv == Init => IInv
<1> SUFFICES ASSUME Init PROVE IInv
  OBVIOUS
<1>1. EmptyState \in StateType
  BY DEF EmptyState, StateType, ExecutionStatus, StepStatus, Outputs
<1>2. TypeOK
  BY <1>1, ConfigAssumption
     DEF Init, TypeOK, NoWave, NoResults, NoCursor, InWave, ResultType, FileType
<1>3. Numbered(state) /\ Budgeted(state) /\ BoundedDuplication /\ NoWorkLeft
  BY DEF Init, EmptyState, Numbered, Budgeted, BoundedDuplication, NoWorkLeft
<1>4. Position /\ Counted
  BY DEF Init, EmptyState, Position, Counted, Blank, Executing, Publishing
<1>5. WaveSteps
  BY DEF Init, EmptyState, WaveSteps, InWave, NoWave
<1>6. Disk
  BY DEF Init, NoFile, Disk
<1> QED BY <1>2, <1>3, <1>4, <1>5, <1>6 DEF IInv

Quiet == Executing \ ({"gathering"} \cup Publishing)

\* A step that changes the execution status, and perhaps saves it, keeps the
\* invariant: publications about the execution, the end of the loop, abort().
LEMMA StatusStep ==
  ASSUME IInv,
         state' \in StateType, Numbered(state'), SameSteps(state'),
         \/ checkpoint' = checkpoint
         \/ checkpoint' \in {File(state'), TornFile} /\ pc \in Quiet,
         UNCHANGED <<wave, results, cursor, resumes, execs, consumed>>,
         owner' \in {"none", "run", "resume"},
         \/ pc' = pc
         \/ /\ pc \in Quiet /\ pc' \in Quiet \cup {"returned"}
            /\ pc' = "completing" => Runnable(state) = {}
  PROVE  IInv'
<1>1. TypeOK'
  <2>1. checkpoint' \in FileType
    BY DEF IInv, TypeOK, FileType, File
  <2> QED BY <2>1 DEF IInv, TypeOK, InWave, Quiet, Executing, Publishing
<1>2. Budgeted(state') /\ BoundedDuplication'
  BY DEF IInv, SameSteps, Budgeted, BoundedDuplication
<1>3. Position'
  BY DEF IInv, Position, SameSteps, Blank, At, InWave, Quiet, Executing, Publishing
<1>4. WaveSteps'
  BY DEF IInv, Position, WaveSteps, SameSteps, At, InWave, Quiet, Executing, Publishing
<1>5. Counted'
  BY DEF IInv, Counted, SameSteps, Spent, Quiet, Executing, Publishing
<1>6. Disk'
  <2>1. CASE checkpoint' = checkpoint
    BY <2>1 DEF IInv, Disk, SameSteps, Quiet, Executing, Publishing
  <2>2. CASE checkpoint' = File(state') /\ pc \in Quiet
    BY <2>2 DEF IInv, Disk, File, SameSteps, Position, WaveSteps, Budgeted,
                BoundedDuplication, Quiet, Executing, Publishing
  <2>3. CASE checkpoint' = TornFile
    BY <2>3 DEF Disk, TornFile
  <2> QED BY <2>1, <2>2, <2>3
<1>7. NoWorkLeft'
  BY DEF IInv, NoWorkLeft, Runnable, SameSteps, Quiet
<1> QED BY <1>1, <1>2, <1>3, <1>4, <1>5, <1>6, <1>7 DEF IInv

\* Leaving the coroutine, by an exception or with the process, keeps it.
LEMMA LeaveStep ==
  ASSUME IInv,
         \/ state' = EmptyState /\ pc' = "crashed" /\ pc \notin {"idle"}
         \/ state' = state /\ pc' = "returned" /\ pc \in {"planning", "awaiting_approval"},
         checkpoint' \in {checkpoint, TornFile},
         DropWave, UNCHANGED <<resumes, execs, consumed>>,
         owner' \in {"none", "run", "resume"}
  PROVE  IInv'
<1>1. EmptyState \in StateType /\ Numbered(EmptyState) /\ Blank(EmptyState)
      /\ EmptyState.plan = NoPlan
  BY DEF EmptyState, StateType, ExecutionStatus, StepStatus, Outputs, Numbered, Blank
<1>2. TypeOK'
  <2>1. checkpoint' \in FileType
    BY DEF IInv, TypeOK, FileType
  <2>2. wave' = NoWave /\ results' = NoResults /\ cursor' = NoCursor
    BY DEF DropWave
  <2>3. NoWave \in [StepIds -> Nat] /\ NoResults \in [StepIds -> ResultType]
        /\ NoCursor \in [step : StepIds \cup {NoStep}, part : 1..3]
    BY DEF NoWave, NoResults, NoCursor, ResultType
  <2>4. InWave' = {} /\ \A s \in StepIds : wave'[s] = 0 <=> results'[s] = NoTask
    BY <2>2 DEF InWave, NoWave, NoResults
  <2> QED BY <1>1, <2>1, <2>2, <2>3, <2>4 DEF IInv, TypeOK
<1>3. Budgeted(state') /\ BoundedDuplication' /\ Numbered(state')
  BY <1>1 DEF IInv, Budgeted, BoundedDuplication
<1>4. Position'
  BY <1>1 DEF IInv, Position, DropWave, Executing, Publishing
<1>5. WaveSteps'
  BY <1>1 DEF IInv, Position, WaveSteps, DropWave, InWave, NoWave, Blank
<1>6. Counted' /\ NoWorkLeft'
  BY DEF Counted, NoWorkLeft, Executing
<1>7. Disk'
  <2>1. CASE checkpoint' = checkpoint
    BY <2>1, <1>1 DEF IInv, Disk, Executing
  <2>2. CASE checkpoint' = TornFile
    BY <2>2 DEF Disk, TornFile
  <2> QED BY <2>1, <2>2
<1> QED BY <1>2, <1>3, <1>4, <1>5, <1>6, <1>7 DEF IInv

\* The next result, or the next turn of the loop.
LEMMA GoOn ==
  ASSUME NEW todo, GoOnWith(todo)
  PROVE  \/ todo = {} /\ pc' = "looping" /\ cursor' = NoCursor
         \/ \E s \in todo : pc' = "publishing" /\ cursor' = [step |-> s, part |-> 1]
BY DEF GoOnWith

\* Finishing with one result keeps it: its step is COMMITTED, FAILED for good,
\* or PENDING again with an attempt left.
LEMMA ResultStep ==
  ASSUME IInv, pc \in Publishing, cursor.part > 1, NextResult,
         state' \in StateType, Numbered(state'), state'.plan = state.plan,
         state'.attempts = state.attempts,
         NEW x \in {"COMMITTED", "FAILED", "PENDING"},
         state'.step = [state.step EXCEPT ![At] = x],
         x = "PENDING" => state.attempts[At] < state.plan.max[At],
         checkpoint' \in {checkpoint, File(state'), TornFile},
         UNCHANGED <<owner, resumes, execs, consumed>>
  PROVE  IInv'
<1>1. /\ At \in InWave /\ At \in StepIds /\ state.plan # NoPlan
      /\ state.attempts[At] = wave[At] /\ state.step[At] \in {"RUNNING", "FAILED"}
  BY DEF IInv, Position, WaveSteps, InWave, Publishing, Executing
<1>2. /\ wave' = [wave EXCEPT ![At] = 0] /\ InWave' = InWave \ {At}
      /\ results' = [results EXCEPT ![At] = NoTask]
  BY <1>1 DEF NextResult, InWave, IInv, TypeOK
<1>3. \/ InWave' = {} /\ pc' = "looping" /\ cursor' = NoCursor
      \/ \E s \in InWave' : pc' = "publishing" /\ cursor' = [step |-> s, part |-> 1]
  BY GoOn DEF NextResult, InWave
<1>4. /\ \A s \in StepIds \ {At} : state'.step[s] = state.step[s] /\ wave'[s] = wave[s]
      /\ state'.step[At] = x /\ wave'[At] = 0
  BY <1>1, <1>2 DEF IInv, TypeOK, StateType
<1>5. TypeOK'
  <2>1. checkpoint' \in FileType
    BY DEF IInv, TypeOK, FileType, File
  <2>2. wave' \in [StepIds -> Nat] /\ results' \in [StepIds -> ResultType]
    BY <1>2 DEF IInv, TypeOK, ResultType
  <2>3. cursor' \in [step : StepIds \cup {NoStep}, part : 1..3]
    BY <1>3 DEF InWave, NoCursor
  <2>4. \A s \in StepIds : wave'[s] = 0 <=> results'[s] = NoTask
    BY <1>1, <1>2 DEF IInv, TypeOK
  <2>5. /\ InWave' # {} <=> pc' \in {"gathering", "publishing", "awaiting_approval"}
        /\ pc' \in {"looping", "publishing"}
    BY <1>3
  <2> QED BY <2>1, <2>2, <2>3, <2>4, <2>5 DEF IInv, TypeOK
<1>6. Budgeted(state')
  BY <1>1, <1>4 DEF IInv, Budgeted
<1>7. BoundedDuplication'
  BY DEF IInv, BoundedDuplication
<1>8. Position'
  BY <1>1, <1>3 DEF IInv, Position, At, NoCursor, Executing, Publishing
<1>9. WaveSteps'
  <2>1. \A s \in StepIds : state'.step[s] # "RUNNING"
    BY <1>4 DEF IInv, WaveSteps
  <2>2. ASSUME NEW s \in InWave'
        PROVE  state'.step[s] = "PENDING" /\ wave'[s] = state'.attempts[s] + 1
    BY <1>2, <1>4 DEF IInv, WaveSteps, InWave
  <2>3. cursor'.part = 1
    BY <1>3 DEF NoCursor
  <2> QED BY <2>1, <2>2, <2>3 DEF WaveSteps
<1>10. Counted'
  <2>1. \A s \in StepIds : (Spent(s))' = Spent(s)
    BY <1>1, <1>4 DEF Spent
  <2> QED BY <1>1, <2>1 DEF IInv, Counted, Executing, Publishing
<1>11. Disk'
  <2>1. \A s \in StepIds : state.step[s] = "COMMITTED" => state'.step[s] = "COMMITTED"
    BY <1>1, <1>4
  <2>2. CASE checkpoint' = checkpoint
    BY <2>1, <2>2, <1>1, <1>3 DEF IInv, Disk, Executing, Publishing
  <2>3. CASE checkpoint' = File(state')
    BY <2>3, <1>1, <1>6, <1>7, <1>9, <1>3, <1>4, ZenonT(30) DEF IInv, WaveSteps, Disk, File, BoundedDuplication
  <2>4. CASE checkpoint' = TornFile
    BY <2>4 DEF Disk, TornFile
  <2> QED BY <2>2, <2>3, <2>4
<1>12. NoWorkLeft'
  BY <1>3 DEF NoWorkLeft
<1> QED BY <1>5, <1>6, <1>7, <1>8, <1>9, <1>10, <1>11, <1>12 DEF IInv

-----------------------------------------------------------------------------
(* The actions.                                                            *)

\* A publication stores what apply_event made of the state, or nothing.
LEMMA PublishEffect ==
  ASSUME NEW type, NEW s, NEW p, Publish(type, s, p)
  PROVE  /\ state' = ApplyEvent(state, Event(type, s, p))
         /\ checkpoint' \in {checkpoint, File(state'), TornFile}
         /\ type \notin CheckpointedEvents => checkpoint' = checkpoint
BY DEF Publish, Saved

\* Where there is no wave, dropping it changes nothing.
LEMMA NoWaveToDrop ==
  ASSUME IInv, pc \notin {"gathering"} \cup Publishing, DropWave
  PROVE  UNCHANGED <<wave, results, cursor>>
<1>1. \A s \in StepIds : wave[s] = 0 /\ results[s] = NoTask
  BY DEF IInv, TypeOK, InWave, Publishing
<1>2. wave = NoWave /\ results = NoResults
  BY <1>1 DEF IInv, TypeOK, NoWave, NoResults
<1> QED BY <1>2 DEF DropWave, IInv, Position

LEMMA StatusPublication ==
  ASSUME IInv, pc \in Quiet,
         NEW type \in {"EXECUTION_STARTED", "EXECUTION_COMPLETED", "LEARNING_SIGNAL"},
         Publish(type, NoStep, EmptyPayload),
         UNCHANGED <<wave, results, cursor, resumes, execs, consumed>>,
         owner' \in {"none", "run", "resume"},
         pc' \in (Quiet \ {"completing"}) \cup {"returned"}
  PROVE  IInv'
<1>1. state' = ApplyEvent(state, Event(type, NoStep, EmptyPayload))
  BY PublishEffect
<1>2. checkpoint' \in {checkpoint, File(state'), TornFile}
  BY PublishEffect
<1>3. state' \in StateType /\ Numbered(state') /\ SameSteps(state')
  BY <1>1, StatusEvent DEF IInv, TypeOK
<1> QED BY <1>2, <1>3, StatusStep

LEMMA StatusActions ==
  ASSUME IInv,
         PublishStarted \/ PublishAnswered \/ LoopEnds \/ PublishCompleted
           \/ PublishLearningSignal \/ Abort
  PROVE  IInv'
<1> USE DEF Quiet, Executing, Publishing, dispatching, observers
<1>0. owner \in {"none", "run", "resume"} /\ state \in StateType /\ Numbered(state)
  BY DEF IInv, TypeOK
<1>1. CASE PublishStarted
  BY <1>0, <1>1, StatusPublication DEF PublishStarted
<1>2. CASE PublishAnswered
  <2>1. UNCHANGED <<wave, results, cursor>> /\ owner' \in {"none", "run", "resume"}
    BY <1>0, <1>2, NoWaveToDrop DEF PublishAnswered, Return
  <2> QED BY <1>2, <2>1, StatusPublication DEF PublishAnswered, Return
<1>3. CASE LoopEnds
  <2>1. pc' = "completing" => Runnable(state) = {}
    <3> SUFFICES ASSUME pc' = "completing", NEW s \in Runnable(state) PROVE FALSE
      OBVIOUS
    <3>1. IsComplete(state)
      BY <1>3 DEF LoopEnds, MayDispatch
    <3> QED BY <3>1 DEF IsComplete, Runnable
  <2> QED BY <1>0, <1>3, <2>1, StatusStep DEF LoopEnds, SameSteps
<1>4. CASE PublishCompleted
  BY <1>0, <1>4, StatusPublication DEF PublishCompleted
<1>5. CASE PublishLearningSignal
  <2>1. UNCHANGED <<wave, results, cursor>> /\ owner' \in {"none", "run", "resume"}
    BY <1>0, <1>5, NoWaveToDrop DEF PublishLearningSignal, Return
  <2> QED BY <1>5, <2>1, StatusPublication DEF PublishLearningSignal, Return
<1>6. CASE Abort
  <2>1. state' \in StateType /\ SameSteps(state') /\ Numbered(state')
    BY <1>0, <1>6 DEF Abort, StateType, ExecutionStatus, SameSteps, Numbered
  <2> QED BY <1>0, <1>6, <2>1, StatusStep DEF Abort
<1> QED BY <1>1, <1>2, <1>3, <1>4, <1>5, <1>6

LEMMA LeavingActions ==
  ASSUME IInv, PlanFails \/ ApprovalRaises \/ Crash \/ CrashInSave
  PROVE  IInv'
<1>0. owner \in {"none", "run", "resume"}
  BY DEF IInv, TypeOK
<1>1. CASE PlanFails \/ ApprovalRaises
  BY <1>0, <1>1, LeaveStep DEF PlanFails, ApprovalRaises, Return, observers
<1>2. CASE Crash \/ CrashInSave
  BY <1>2, LeaveStep DEF Crash, CrashInSave, Live, AtSave, observers
<1> QED BY <1>1, <1>2

LEMMA RunActions ==
  ASSUME IInv, Run \/ (\E p \in Plans : PlanCreated(p))
  PROVE  IInv'
<1>1. CASE Run
  <2>1. EmptyState \in StateType /\ Numbered(EmptyState) /\ Blank(EmptyState)
        /\ EmptyState.plan = NoPlan
    BY DEF EmptyState, StateType, ExecutionStatus, StepStatus, Outputs, Numbered, Blank
  <2>2. UNCHANGED <<wave, results, cursor, checkpoint, resumes, execs, consumed>>
        /\ pc = "idle" /\ pc' = "planning" /\ state' = EmptyState /\ owner' = "run"
    BY <1>1 DEF Run, dispatching, observers
  <2>3. TypeOK'
    BY <2>1, <2>2 DEF IInv, TypeOK, InWave
  <2>4. Position' /\ Disk'
    BY <2>1, <2>2 DEF IInv, Position, Disk, NoFile, At, Executing, Publishing
  <2>5. Numbered(state)' /\ Budgeted(state)' /\ BoundedDuplication' /\ Counted' /\ NoWorkLeft'
    BY <2>1, <2>2 DEF Numbered, Budgeted, BoundedDuplication, Counted, NoWorkLeft, Executing
  <2>6. WaveSteps'
    <3>1. \A s \in StepIds : state'.step[s] # "RUNNING"
      BY <2>1, <2>2 DEF Blank
    <3>2. InWave' = {}
      BY <2>2 DEF IInv, TypeOK, InWave
    <3> QED BY <3>1, <3>2 DEF WaveSteps
  <2> QED BY <2>3, <2>4, <2>5, <2>6 DEF IInv
<1>2. ASSUME NEW p \in Plans, PlanCreated(p) PROVE IInv'
  <2>1. pc = "planning" /\ pc' = "starting"
        /\ UNCHANGED <<owner, wave, results, cursor, resumes, execs, consumed>>
        /\ Publish("PLAN_CREATED", NoStep, [plan |-> p])
    BY <1>2 DEF PlanCreated, dispatching, observers
  <2>2. state' = ApplyEvent(state, Event("PLAN_CREATED", NoStep, [plan |-> p]))
    BY <2>1, PublishEffect
  <2>3. checkpoint' \in {checkpoint, File(state'), TornFile}
    BY <2>1, PublishEffect
  <2>4. state.plan = NoPlan /\ Blank(state) /\ resumes = 0 /\ checkpoint = NoFile
        /\ \A s \in StepIds : execs[s] = 0
    BY <2>1 DEF IInv, Position
  <2>5. /\ state' \in StateType /\ Numbered(state')
        /\ state'.plan = p /\ state'.attempts = state.attempts
        /\ \A s \in StepIds : state'.step[s] \in {"ABSENT", "PENDING"}
    BY <2>2, <2>4, PlanEvent DEF IInv, TypeOK
  <2>6. p # NoPlan /\ p.max \in [StepIds -> Nat \ {0}]
    BY PlansAssumption DEF PlanIR
  <2>7. TypeOK'
    <3>1. checkpoint' \in FileType
      BY <2>3, <2>5 DEF IInv, TypeOK, FileType, File
    <3> QED BY <2>1, <2>5, <3>1 DEF IInv, TypeOK, InWave
  <2>8. Position'
    BY <2>1, <2>5, <2>6 DEF IInv, Position, Executing, Publishing
  <2>9. WaveSteps'
    <3>1. InWave' = {}
      BY <2>1 DEF IInv, TypeOK, InWave
    <3> QED BY <2>5, <3>1 DEF WaveSteps
  <2>10. Budgeted(state')
    BY <2>4, <2>5, <2>6 DEF Blank, Budgeted
  <2>11. Counted' /\ BoundedDuplication'
    <3>1. \A s \in StepIds : p.max[s] * 0 = 0 /\ p.max[s] * (0 + 1) = p.max[s] /\ p.max[s] \in Nat
      BY <2>6
    <3>2. wave' = wave /\ \A s \in StepIds : wave[s] = 0
      BY <2>1 DEF IInv, TypeOK, InWave
    <3>3. \A s \in StepIds : Spent(s)' = 0
      BY <2>4, <2>5, <3>2 DEF Spent, Blank
    <3> QED BY <2>1, <2>4, <2>5, <3>1, <3>3 DEF Counted, BoundedDuplication
  <2>12. Disk'
    <3>1. CASE checkpoint' = checkpoint
      BY <3>1, <2>4 DEF Disk, NoFile
    <3>2. CASE checkpoint' = File(state')
      BY <3>2, <2>5, <2>6, <2>10, <2>11 DEF Disk, File, BoundedDuplication
    <3>3. CASE checkpoint' = TornFile
      BY <3>3 DEF Disk, TornFile
    <3> QED BY <2>3, <3>1, <3>2, <3>3
  <2>13. NoWorkLeft'
    BY <2>1 DEF NoWorkLeft
  <2> QED BY <2>5, <2>7, <2>8, <2>9, <2>10, <2>11, <2>12, <2>13 DEF IInv
<1> QED BY <1>1, <1>2

\* What a plan is, and a budget's arithmetic.
LEMMA PlanFacts ==
  ASSUME IInv, state.plan # NoPlan
  PROVE  /\ state.plan \in PlanIR /\ state.plan \in Plans
         /\ state.plan.steps \subseteq StepIds
         /\ \A s \in StepIds : /\ state.plan.deps[s] \subseteq StepIds
                               /\ state.plan.max[s] \in Nat \ {0}
BY PlansAssumption DEF IInv, TypeOK, StateType, PlanIR

LEMMA Budget ==
  ASSUME NEW m \in Nat, NEW r \in Nat
  PROVE  m * (r + 1) = m * r + m /\ m * r \in Nat
OBVIOUS

\* A wave executes steps that were PENDING and had an attempt left, once each.
LEMMA WaveEffect ==
  ASSUME IInv, NextWave
  PROVE  /\ Runnable(state) # {} /\ Runnable(state) \subseteq StepIds
         /\ \A s \in StepIds :
              IF s \in Runnable(state)
              THEN /\ state.step[s] = "PENDING"
                   /\ state.attempts[s] < state.plan.max[s]
                   /\ wave'[s] = state.attempts[s] + 1 /\ results'[s] = Pending
                   /\ execs'[s] = execs[s] + 1
              ELSE wave'[s] = 0 /\ results'[s] = NoTask /\ execs'[s] = execs[s]
         /\ InWave' = Runnable(state) /\ InWave = {}
<1>1. state.plan # NoPlan /\ InWave = {}
  BY DEF NextWave, IInv, Position, TypeOK, Executing
<1>2. Runnable(state) # {} /\ Runnable(state) \subseteq StepIds
  BY <1>1, PlanFacts DEF NextWave, MayDispatch, Runnable
<1>3. \A s \in Runnable(state) : state.step[s] = "PENDING" /\ state.attempts[s] < state.plan.max[s]
  BY <1>1, <1>2 DEF Runnable, IInv, Budgeted
<1>4. \A s \in StepIds :
        IF s \in Runnable(state)
        THEN wave'[s] = state.attempts[s] + 1 /\ results'[s] = Pending /\ execs'[s] = execs[s] + 1
        ELSE wave'[s] = 0 /\ results'[s] = NoTask /\ execs'[s] = execs[s]
  BY DEF NextWave
<1>5. InWave' = Runnable(state)
  BY <1>2, <1>4 DEF InWave, IInv, TypeOK, StateType
<1> QED BY <1>1, <1>2, <1>3, <1>4, <1>5

LEMMA NextWaveAction ==
  ASSUME IInv, NextWave
  PROVE  IInv'
<1> DEFINE runnable == Runnable(state)
<1>0. /\ pc = "looping" /\ pc' = "gathering" /\ state.plan # NoPlan
      /\ UNCHANGED <<state, owner, cursor, checkpoint, resumes>>
  BY DEF NextWave, IInv, Position, Executing
<1>1. state.attempts \in [StepIds -> Nat] /\ execs \in [StepIds -> Nat] /\ resumes \in Nat
      /\ MaxResumes \in Nat
  BY ConfigAssumption DEF IInv, TypeOK, StateType
<1>2. TypeOK'
  <2>1. wave' \in [StepIds -> Nat] /\ results' \in [StepIds -> ResultType]
        /\ execs' \in [StepIds -> Nat]
    BY <1>1 DEF NextWave, ResultType
  <2>2. consumed' \subseteq StepIds \X Outputs
    <3>1. state.output \in [StepIds -> Outputs] /\ consumed \subseteq StepIds \X Outputs
      BY DEF IInv, TypeOK, StateType
    <3>2. \A s \in runnable : state.plan.deps[s] \subseteq StepIds
      BY <1>0, PlanFacts, WaveEffect
    <3> QED BY <3>1, <3>2 DEF NextWave
  <2>3. \A s \in StepIds : wave'[s] = 0 <=> results'[s] = NoTask
    BY <1>1, WaveEffect DEF Pending, NoTask
  <2>4. InWave' # {}
    BY WaveEffect
  <2> QED BY <1>0, <2>1, <2>2, <2>3, <2>4 DEF IInv, TypeOK
<1>3. Numbered(state)' /\ Budgeted(state)'
  BY <1>0 DEF IInv, Numbered, Budgeted
<1>4. Position'
  BY <1>0 DEF IInv, Position, Executing, Publishing
<1>5. WaveSteps'
  <2>1. \A s \in StepIds : state'.step[s] # "RUNNING"
    BY <1>0 DEF IInv, WaveSteps
  <2>2. cursor'.part = 1
    BY <1>0 DEF IInv, Position, NoCursor, Publishing
  <2>3. \A s \in InWave' : state'.step[s] = "PENDING" /\ wave'[s] = state'.attempts[s] + 1
    BY <1>0, WaveEffect
  <2> QED BY <2>1, <2>2, <2>3 DEF WaveSteps
<1>6. Counted' /\ BoundedDuplication'
  <2> SUFFICES ASSUME NEW s \in StepIds
               PROVE  /\ execs'[s] <= state'.plan.max[s] * resumes' + Spent(s)'
                      /\ execs'[s] <= state'.plan.max[s] * (resumes' + 1)
    BY DEF Counted, BoundedDuplication
  <2>1. PICK m \in Nat : m = state.plan.max[s]
    BY <1>0, PlanFacts
  <2>2. wave[s] = 0 /\ Spent(s) = state.attempts[s]
    BY WaveEffect DEF InWave, Spent
  <2>3. execs[s] <= m * resumes + state.attempts[s] /\ execs[s] <= m * (resumes + 1)
    BY <1>0, <2>1, <2>2 DEF IInv, Counted, BoundedDuplication, Executing
  <2>4. m * (resumes + 1) = m * resumes + m /\ m * resumes \in Nat
    BY <1>1, <2>1, Budget
  <2>5. CASE s \in runnable
    <3>1. state.attempts[s] < m /\ execs'[s] = execs[s] + 1
          /\ Spent(s)' = state.attempts[s] + 1
      BY <1>1, <2>1, <2>5, WaveEffect DEF Spent
    <3> QED BY <1>0, <1>1, <2>1, <2>3, <2>4, <3>1
  <2>6. CASE s \notin runnable
    <3>1. execs'[s] = execs[s] /\ Spent(s)' = state.attempts[s]
      BY <1>0, <2>6, WaveEffect DEF Spent
    <3> QED BY <1>0, <2>1, <2>3, <3>1
  <2> QED BY <2>5, <2>6
<1>7. Disk'
  <2>1. checkpoint.kind = "whole" => state.plan = checkpoint.state.plan
    BY <1>0 DEF IInv, Disk
  <2> QED BY <1>0, <1>6, <2>1 DEF IInv, Disk, BoundedDuplication, Executing
<1>8. NoWorkLeft'
  BY <1>0 DEF NoWorkLeft
<1> QED BY <1>2, <1>3, <1>4, <1>5, <1>6, <1>7, <1>8 DEF IInv

\* The end of a task.
LEMMA TaskActions ==
  ASSUME IInv, NEW s \in StepIds, TaskSucceeds(s) \/ TaskFails(s)
  PROVE  IInv'
<1>1. PICK o \in ResultType \ {NoTask, Pending} : TaskEnds(s, o)
  <2>1. execs[s] \in Nat
    BY DEF IInv, TypeOK
  <2>2. Succeeded(execs[s]) \in ResultType \ {NoTask, Pending}
    BY <2>1 DEF Succeeded, ResultType, NoTask, Pending
  <2>3. \A f \in Failures : FailedWith(f) \in ResultType \ {NoTask, Pending}
    BY DEF FailedWith, ResultType, NoTask, Pending
  <2> QED BY <2>2, <2>3 DEF TaskSucceeds, TaskFails
<1>2. /\ pc = "gathering" /\ results[s] = Pending
      /\ results' = [results EXCEPT ![s] = o]
      /\ UNCHANGED <<state, owner, wave, checkpoint, resumes, execs, consumed>>
  BY <1>1 DEF TaskEnds, observers
<1>3. s \in InWave /\ InWave' = InWave /\ cursor = NoCursor
  BY <1>2 DEF IInv, TypeOK, InWave, Position, Publishing, Pending, NoTask
<1>4. \/ pc' = "gathering" /\ cursor' = cursor
      \/ \E t \in InWave : pc' = "publishing" /\ cursor' = [step |-> t, part |-> 1]
  BY <1>1, <1>2, <1>3, GoOn DEF TaskEnds, InWave
<1>5. TypeOK'
  <2>1. results' \in [StepIds -> ResultType]
    BY <1>2 DEF IInv, TypeOK
  <2>2. \A t \in StepIds : wave'[t] = 0 <=> results'[t] = NoTask
    BY <1>2 DEF IInv, TypeOK, Pending, NoTask
  <2>3. cursor' \in [step : StepIds \cup {NoStep}, part : 1..3]
    BY <1>4 DEF IInv, TypeOK, InWave
  <2> QED BY <1>2, <1>3, <1>4, <2>1, <2>2, <2>3 DEF IInv, TypeOK
<1>6. Numbered(state)' /\ Budgeted(state)' /\ BoundedDuplication'
  BY <1>2 DEF IInv, Numbered, Budgeted, BoundedDuplication
<1>7. Position'
  BY <1>2, <1>3, <1>4 DEF IInv, Position, At, Executing, Publishing
<1>8. WaveSteps'
  <2>1. \A t \in StepIds : state.step[t] # "RUNNING"
    BY <1>2 DEF IInv, WaveSteps
  <2>2. cursor.part = 1 /\ cursor'.part = 1
    BY <1>3, <1>4 DEF NoCursor
  <2>3. \A t \in InWave : state.step[t] = "PENDING" /\ wave[t] = state.attempts[t] + 1
    BY <2>2 DEF IInv, WaveSteps
  <2> QED BY <1>2, <1>3, <2>1, <2>2, <2>3 DEF WaveSteps
<1>9. Counted'
  BY <1>2, <1>4 DEF IInv, Counted, Spent, Executing
<1>10. Disk' /\ NoWorkLeft'
  BY <1>2, <1>4 DEF IInv, Disk, NoWorkLeft, Executing
<1> QED BY <1>5, <1>6, <1>7, <1>8, <1>9, <1>10 DEF IInv

\* Publishing how far the step at the cursor got: STEP_STARTED, STEP_FAILED.
LEMMA ProgressStep ==
  ASSUME IInv, pc = "publishing",
         state' \in StateType, Numbered(state'),
         NEW x \in {"RUNNING", "FAILED"},
         StepEffect(state', At, x, wave[At]),
         IF x = "RUNNING" THEN cursor.part = 1 ELSE cursor.part = 2,
         cursor' = [cursor EXCEPT !.part = IF x = "RUNNING" THEN 2 ELSE 3],
         UNCHANGED <<pc, owner, wave, results, checkpoint, resumes, execs, consumed>>
  PROVE  IInv'
<1>1. /\ At \in InWave /\ At \in StepIds /\ state.plan # NoPlan /\ wave[At] # 0
      /\ cursor'.step = At /\ cursor' \in [step : StepIds \cup {NoStep}, part : 1..3]
      /\ cursor'.part = IF x = "RUNNING" THEN 2 ELSE 3
  BY DEF IInv, TypeOK, Position, InWave, Publishing, Executing, At
<1>2. /\ state'.plan = state.plan
      /\ \A s \in StepIds \ {At} : /\ state'.step[s] = state.step[s]
                                   /\ state'.attempts[s] = state.attempts[s]
      /\ state'.step[At] = x /\ state'.attempts[At] = wave[At]
  BY <1>1 DEF IInv, TypeOK, StateType, StepEffect
<1>3. /\ state.step[At] \in {"PENDING", "RUNNING"}
      /\ wave[At] <= state.plan.max[At]
  <2>1. /\ state.attempts[At] \in Nat /\ wave[At] \in Nat /\ state.plan.max[At] \in Nat
        /\ state.attempts[At] <= state.plan.max[At]
        /\ state.step[At] = "PENDING" => state.attempts[At] < state.plan.max[At]
    BY <1>1, PlanFacts DEF IInv, TypeOK, StateType, Budgeted
  <2>2. CASE x = "RUNNING"
    BY <1>1, <2>1, <2>2 DEF IInv, WaveSteps
  <2>3. CASE x = "FAILED"
    BY <1>1, <2>1, <2>3 DEF IInv, WaveSteps
  <2> QED BY <2>2, <2>3
<1>4. TypeOK'
  BY <1>1 DEF IInv, TypeOK, InWave
<1>5. Budgeted(state')
  BY <1>1, <1>2, <1>3 DEF IInv, Budgeted
<1>6. BoundedDuplication'
  BY <1>1, <1>2 DEF IInv, BoundedDuplication
<1>7. Position'
  BY <1>1, <1>2 DEF IInv, Position, At, InWave, Executing, Publishing
<1>8. WaveSteps'
  <2>1. \A s \in StepIds \ {At} : state.step[s] # "RUNNING"
    BY DEF IInv, WaveSteps
  <2>2. ASSUME NEW s \in InWave, s # At
        PROVE  state'.step[s] = "PENDING" /\ wave[s] = state'.attempts[s] + 1
    BY <1>2, <2>2 DEF IInv, WaveSteps, InWave
  <2>3. InWave' = InWave /\ At' = At /\ cursor'.part > 1
    BY <1>1 DEF InWave, At
  <2> QED BY <1>1, <1>2, <2>1, <2>2, <2>3 DEF WaveSteps
<1>9. Counted'
  <2>1. \A s \in StepIds : Spent(s)' = Spent(s)
    BY <1>1, <1>2 DEF Spent
  <2> QED BY <1>2, <2>1 DEF IInv, Counted
<1>10. Disk' /\ NoWorkLeft'
  <2>1. Disk'
    BY <1>1, <1>2, <1>3 DEF IInv, Disk
  <2> QED BY <2>1 DEF NoWorkLeft
<1> QED BY <1>4, <1>5, <1>6, <1>7, <1>8, <1>9, <1>10 DEF IInv

\* The facts StepEvent asks for, of the step at the cursor.
LEMMA AtFacts ==
  ASSUME IInv, pc \in Publishing
  PROVE  /\ At \in StepIds /\ At \in InWave /\ state.step[At] # "ABSENT"
         /\ state \in StateType /\ Numbered(state) /\ wave[At] \in Nat
         /\ state.step \in [StepIds -> StepStatus] /\ state.attempts \in [StepIds -> Nat]
         /\ results[At] \in ResultType
         /\ cursor.part > 1 => state.attempts[At] = wave[At]
BY DEF IInv, TypeOK, StateType, Position, WaveSteps, InWave, Publishing

LEMMA ProgressActions ==
  ASSUME IInv, PublishStepStarted \/ PublishStepFailed
  PROVE  IInv'
<1>0. pc = "publishing" /\ pc \in Publishing
  BY DEF PublishStepStarted, PublishStepFailed, Publishing
<1>1. CASE PublishStepStarted
  <2>1. state' = ApplyEvent(state, Event("STEP_STARTED", At, [attempt |-> wave[At]]))
    BY <1>1, PublishEffect DEF PublishStepStarted
  <2>2. checkpoint' = checkpoint
    BY <1>1, PublishEffect DEF PublishStepStarted, CheckpointedEvents
  <2>3. NoOutput \in Outputs /\ "TOOL_ERROR" \in Failures
    BY DEF Outputs, Failures
  <2>4. /\ state' \in StateType /\ Numbered(state')
        /\ StepEffect(state', At, "RUNNING", wave[At])
    BY <1>0, <2>1, <2>3, AtFacts, StepEvent
  <2> QED BY <1>1, <2>2, <2>4, ProgressStep DEF PublishStepStarted, observers
<1>2. CASE PublishStepFailed
  <2>0. results[At].failure \in Failures
    BY <1>0, <1>2, AtFacts DEF PublishStepFailed, ResultType, NoTask, Pending
  <2>1. state' = ApplyEvent(state, Event("STEP_FAILED", At,
                                           [failure |-> results[At].failure]))
    BY <1>2, PublishEffect DEF PublishStepFailed
  <2>2. checkpoint' = checkpoint
    BY <1>2, PublishEffect DEF PublishStepFailed, CheckpointedEvents
  <2>3. NoOutput \in Outputs /\ 0 \in Nat
    BY DEF Outputs
  <2>4. state.attempts[At] = wave[At]
    BY <1>0, <1>2, AtFacts DEF PublishStepFailed
  <2>5. /\ state' \in StateType /\ Numbered(state')
        /\ StepEffect(state', At, "FAILED", state.attempts[At])
    BY <1>0, <2>0, <2>1, <2>3, AtFacts, StepEvent
  <2> QED BY <1>2, <2>2, <2>4, <2>5, ProgressStep DEF PublishStepFailed, observers
<1> QED BY <1>1, <1>2

\* The coroutine waits for the human with the failed step at the cursor.
LEMMA EscalateAction ==
  ASSUME IInv, Escalate
  PROVE  IInv'
<1>0. /\ pc = "publishing" /\ cursor.part = 3 /\ pc' = "awaiting_approval"
      /\ UNCHANGED <<owner, wave, results, cursor, checkpoint, resumes, execs, consumed>>
  BY DEF Escalate, dispatching, observers
<1>1. state' \in StateType /\ Numbered(state') /\ SameSteps(state')
  <2>1. state' = [ApplyEvent(state, Event("EXECUTION_PAUSED", NoStep, EmptyPayload))
                      EXCEPT !.status = "PAUSED_APPROVAL"]
    BY DEF Escalate
  <2> DEFINE st == ApplyEvent(state, Event("EXECUTION_PAUSED", NoStep, EmptyPayload))
  <2>2. st \in StateType /\ Numbered(st) /\ SameSteps(st)
    BY StatusEvent DEF IInv, TypeOK
  <2> HIDE DEF st
  <2>3. state' = [st EXCEPT !.status = "PAUSED_APPROVAL"]
    BY <2>1 DEF st
  <2> QED BY <2>2, <2>3 DEF StateType, ExecutionStatus, Numbered, SameSteps
<1>2. TypeOK'
  BY <1>0, <1>1 DEF IInv, TypeOK, InWave
<1>3. Budgeted(state') /\ BoundedDuplication'
  BY <1>0, <1>1 DEF IInv, SameSteps, Budgeted, BoundedDuplication
<1>4. Position'
  BY <1>0, <1>1 DEF IInv, Position, SameSteps, Blank, At, InWave, Executing, Publishing
<1>5. WaveSteps'
  BY <1>0, <1>1 DEF IInv, WaveSteps, SameSteps, At, InWave
<1>6. Counted' /\ Disk' /\ NoWorkLeft'
  BY <1>0, <1>1 DEF IInv, Counted, Disk, NoWorkLeft, SameSteps, Spent, Executing
<1> QED BY <1>1, <1>2, <1>3, <1>4, <1>5, <1>6 DEF IInv

LEMMA ResultActions ==
  ASSUME IInv, PublishStepCompleted \/ Retry \/ GiveUp \/ Approve \/ Reject
  PROVE  IInv'
<1>0. /\ pc \in Publishing /\ cursor.part > 1
      /\ NextResult /\ UNCHANGED <<owner, resumes, execs, consumed>>
  BY DEF PublishStepCompleted, Retry, GiveUp, Approve, Reject, Publishing, observers,
         IInv, Position
<1>1. /\ NoOutput \in Outputs /\ "TOOL_ERROR" \in Failures /\ 0 \in Nat
      /\ [state.attempts EXCEPT ![At] = state.attempts[At]] = state.attempts
  BY <1>0, AtFacts DEF Outputs, Failures
<1>2. CASE PublishStepCompleted
  <2>1. results[At].output \in Outputs
    BY <1>0, <1>2, AtFacts DEF PublishStepCompleted, ResultType, NoTask, Pending, Outputs
  <2>2. state' = ApplyEvent(state, Event("STEP_COMPLETED", At,
                                           [output |-> results[At].output]))
    BY <1>2, PublishEffect DEF PublishStepCompleted
  <2>3. checkpoint' \in {checkpoint, File(state'), TornFile}
    BY <1>2, PublishEffect DEF PublishStepCompleted
  <2>4. /\ state' \in StateType /\ Numbered(state')
        /\ StepEffect(state', At, "COMMITTED", state.attempts[At])
    BY <1>0, <1>1, <2>1, <2>2, AtFacts, StepEvent
  <2> QED BY <1>0, <1>1, <2>3, <2>4, ResultStep DEF StepEffect
<1>3. CASE Retry
  <2>1. state' = ApplyEvent(state, Event("STEP_RETRYING", At, EmptyPayload))
    BY <1>3, PublishEffect DEF Retry
  <2>2. checkpoint' = checkpoint
    BY <1>3, PublishEffect DEF Retry, CheckpointedEvents
  <2>3. /\ state' \in StateType /\ Numbered(state')
        /\ StepEffect(state', At, "PENDING", state.attempts[At])
    BY <1>0, <1>1, <2>1, AtFacts, StepEvent
  <2>4. state.attempts[At] < state.plan.max[At]
    BY <1>3 DEF Retry, AttemptsLeft
  <2> QED BY <1>0, <1>1, <2>2, <2>3, <2>4, ResultStep DEF StepEffect
<1>4. CASE GiveUp \/ Reject
  <2>1. /\ state' = state \/ state' = [state EXCEPT !.status = "ABORTED"]
        /\ checkpoint' = checkpoint /\ cursor.part = 3
    BY <1>4 DEF GiveUp, Reject, IInv, Position
  <2>2. /\ state' \in StateType /\ Numbered(state')
        /\ state'.plan = state.plan /\ state'.attempts = state.attempts
        /\ state'.step = state.step
    BY <2>1 DEF IInv, TypeOK, StateType, ExecutionStatus, Numbered
  <2>3. state.step = [state.step EXCEPT ![At] = "FAILED"]
    BY <1>0, <2>1, AtFacts DEF IInv, WaveSteps
  <2> QED BY <1>0, <2>1, <2>2, <2>3, ResultStep
<1>5. CASE Approve
  <2> DEFINE o == [state.output EXCEPT ![At] = IF state.output[At] = NoOutput THEN Approved
                                               ELSE state.output[At]]
             c == [state.step EXCEPT ![At] = "COMMITTED"]
  <2>1. /\ state' = [state EXCEPT !.status = "RUNNING", !.step = c, !.output = o]
        /\ checkpoint' = checkpoint
    BY <1>5 DEF Approve
  <2>2. o \in [StepIds -> Outputs] /\ c \in [StepIds -> StepStatus]
    BY <1>0, AtFacts DEF Outputs, StepStatus, StateType
  <2> HIDE DEF o
  <2>3. /\ state' \in StateType /\ Numbered(state')
        /\ state'.plan = state.plan /\ state'.attempts = state.attempts
        /\ state'.step = [state.step EXCEPT ![At] = "COMMITTED"]
    BY <1>0, <2>1, <2>2, AtFacts DEF StateType, ExecutionStatus, Numbered
  <2> QED BY <1>0, <2>1, <2>3, ResultStep
<1> QED BY <1>2, <1>3, <1>4, <1>5

\* A request is picked up in the state of its newest checkpoint.
LEMMA ResumeAction ==
  ASSUME IInv, Resume
  PROVE  IInv'
<1> DEFINE cs == checkpoint.state
<1>0. /\ checkpoint.kind = "whole" /\ state' = cs /\ pc' = "starting"
      /\ pc \notin Publishing \cup {"gathering", "idle"}
      /\ owner' = "resume" /\ resumes < MaxResumes /\ resumes' = resumes + 1
      /\ UNCHANGED <<wave, results, cursor, checkpoint, execs, consumed>>
  BY DEF Resume, Reenter, Live, dispatching, observers, Publishing
<1>1. cs \in StateType /\ cs.plan # NoPlan /\ Numbered(cs) /\ Budgeted(cs)
      /\ \A s \in StepIds : /\ cs.step[s] # "RUNNING"
                            /\ execs[s] <= cs.plan.max[s] * (resumes + 1)
  BY <1>0 DEF IInv, TypeOK, FileType, NoFile, TornFile, Disk
<1> HIDE DEF cs
<1>2. InWave' = {} /\ cursor = NoCursor /\ \A s \in StepIds : wave[s] = 0
  BY <1>0 DEF IInv, TypeOK, InWave, Position, Publishing
<1>3. TypeOK'
  BY <1>0, <1>1, <1>2, ConfigAssumption DEF IInv, TypeOK
<1>4. Numbered(state') /\ Budgeted(state')
  BY <1>0, <1>1
<1>5. Position'
  BY <1>0, <1>1, <1>2 DEF Position, Executing, Publishing
<1>6. WaveSteps'
  BY <1>0, <1>1, <1>2 DEF WaveSteps
<1>7. Counted' /\ BoundedDuplication'
  <2> SUFFICES ASSUME NEW s \in StepIds
               PROVE  /\ execs[s] <= cs.plan.max[s] * (resumes + 1) + Spent(s)'
                      /\ execs[s] <= cs.plan.max[s] * (resumes + 1 + 1)
    BY <1>0 DEF Counted, BoundedDuplication
  <2>1. PICK m \in Nat : m = cs.plan.max[s]
    BY <1>1, PlansAssumption DEF StateType, PlanIR
  <2>2. execs[s] \in Nat /\ resumes \in Nat /\ Spent(s)' \in Nat
    BY <1>0, <1>1, <1>2, ConfigAssumption DEF IInv, TypeOK, StateType, Spent
  <2>3. execs[s] <= m * (resumes + 1)
    BY <1>1, <2>1
  <2>4. m * (resumes + 1 + 1) = m * (resumes + 1) + m /\ m * (resumes + 1) \in Nat
    <3>1. resumes + 1 \in Nat
      BY <2>2
    <3> QED BY <3>1, Budget
  <2> QED BY <2>1, <2>2, <2>3, <2>4
<1>8. Disk'
  BY <1>0, <1>1, <1>7 DEF Disk, BoundedDuplication, cs
<1>9. NoWorkLeft'
  BY <1>0 DEF NoWorkLeft
<1> QED BY <1>3, <1>4, <1>5, <1>6, <1>7, <1>8, <1>9 DEF IInv

-----------------------------------------------------------------------------
(* The theorems that follow from IInv.                                     *)

\* Every step keeps the invariant, replay() apart.
LEMMA NextIInv ==
  ASSUME ~CanReplay, IInv, [Next]_vars
  PROVE  IInv'
<1>1. CASE UNCHANGED vars
  BY <1>1 DEF vars, IInv, TypeOK, InWave, Numbered, Budgeted, Position, Blank, At, WaveSteps,
              Counted, Spent, BoundedDuplication, Disk, NoWorkLeft, Runnable
<1>2. CASE Run \/ Plan
  BY <1>2, RunActions, LeavingActions DEF Plan
<1>3. CASE Orchestrate
  <2>1. CASE PublishStarted \/ PublishAnswered \/ LoopEnds \/ PublishCompleted
               \/ PublishLearningSignal
    BY <2>1, StatusActions
  <2>2. CASE NextWave
    BY <2>2, NextWaveAction
  <2>3. CASE \E s \in StepIds : TaskSucceeds(s) \/ TaskFails(s)
    BY <2>3, TaskActions
  <2>4. CASE PublishStepStarted \/ PublishStepFailed
    BY <2>4, ProgressActions
  <2>5. CASE PublishStepCompleted \/ Retry \/ GiveUp
    BY <2>5, ResultActions
  <2>6. CASE Escalate
    BY <2>6, EscalateAction
  <2> QED BY <1>3, <2>1, <2>2, <2>3, <2>4, <2>5, <2>6 DEF Orchestrate
<1>4. CASE Human
  BY <1>4, ResultActions, LeavingActions DEF Human
<1>5. CASE Abort \/ Crash \/ CrashInSave
  BY <1>5, StatusActions, LeavingActions
<1>6. CASE Reentry
  <2>1. \A k : ~Replay(k)
    BY DEF Replay
  <2> QED BY <1>6, <2>1, ResumeAction DEF Reentry
<1> QED BY <1>1, <1>2, <1>3, <1>4, <1>5, <1>6 DEF Next

\* The kernel keeps the inductive invariant.
THEOREM KernelInvariant ==
  ASSUME ~CanReplay
  PROVE  Spec => []IInv
<1>1. Init => IInv
  BY InitIInv
<1>2. IInv /\ [Next]_vars => IInv'
  BY NextIInv
<1> QED BY <1>1, <1>2, PTL DEF Spec

\* Type correctness, and the shape of a wave: every task has its result slot
\* and waves exist only while the orchestrator awaits them.
THEOREM TypeCorrect ==
  ASSUME ~CanReplay
  PROVE  Spec => []TypeOK
<1>1. IInv => TypeOK
  BY DEF IInv
<1> QED BY <1>1, KernelInvariant, PTL

\* No number of crashes, resumptions, failures or aborts makes a step execute
\* more than max_attempts times per call of run or resume (retry logic of
\* execute, attempt counters restored from the checkpoint).
THEOREM DuplicationIsBounded ==
  ASSUME ~CanReplay
  PROVE  Spec => []BoundedDuplication
<1>1. IInv => BoundedDuplication
  BY DEF IInv
<1> QED BY <1>1, KernelInvariant, PTL

\* No checkpoint shows a step in the middle of its publication, so resume()
\* never strands a step (CHECKPOINT_EVENTS and the order of a result's events).
THEOREM CheckpointsAreResumable ==
  ASSUME ~CanReplay
  PROVE  Spec => []CheckpointResumable
<1>1. IInv => CheckpointResumable
  BY DEF IInv, Disk, CheckpointResumable
<1> QED BY <1>1, KernelInvariant, PTL

\* The orchestrator declares completion only with nothing runnable and nothing
\* half published, for any plan, cyclic and dangling ones included.
THEOREM CompletionLeavesNoWork ==
  ASSUME ~CanReplay
  PROVE  Spec => []NothingLeftBehind
<1>1. ASSUME IInv PROVE NothingLeftBehind
  <2> SUFFICES ASSUME pc = "completing", NEW s \in state.plan.steps
               PROVE  state.step[s] # "RUNNING" /\ s \notin Runnable(state)
    BY DEF NothingLeftBehind
  <2>1. s \in StepIds
    BY <1>1, PlanFacts DEF IInv, Position, Executing
  <2> QED BY <1>1, <2>1 DEF IInv, WaveSteps, NoWorkLeft
<1> QED BY <1>1, KernelInvariant, PTL

\* A step that the newest checkpoint shows as COMMITTED is never executed
\* again (resume() restores step_states; get_runnable_steps asks for PENDING).
THEOREM CommittedWorkIsNotRepeated ==
  ASSUME ~CanReplay
  PROVE  Spec => CommittedStaysDone
<1> DEFINE Repeats == \A s \in StepIds :
             checkpoint.kind = "whole" /\ checkpoint.state.step[s] = "COMMITTED"
               => execs'[s] = execs[s]
<1>1. ASSUME IInv, [Next]_vars PROVE [Repeats]_vars
  <2>1. CASE NextWave
    <3>1. pc \in Executing
      BY <2>1 DEF NextWave, Executing
    <3> QED BY <1>1, <2>1, <3>1, WaveEffect DEF IInv, Disk
  <2>2. CASE ~NextWave /\ Next
    <3>1. execs' = execs
      BY <2>2 DEF Next, Run, Plan, PlanCreated, PlanFails, Orchestrate, PublishStarted,
                  PublishAnswered, LoopEnds, TaskSucceeds, TaskFails, TaskEnds,
                  PublishStepStarted, PublishStepCompleted, PublishStepFailed, Retry, GiveUp,
                  Escalate, PublishCompleted, PublishLearningSignal, Human, Approve, Reject,
                  ApprovalRaises, Abort, Crash, CrashInSave, Reentry, Resume, Replay, Reenter,
                  observers
    <3> QED BY <3>1
  <2> QED BY <1>1, <2>1, <2>2
<1>2. IInv /\ [Next]_vars => [Repeats]_vars
  BY <1>1
<1> QED BY <1>2, KernelInvariant, PTL DEF Spec, CommittedStaysDone

-----------------------------------------------------------------------------
(* What is kept of the log and of the inputs of tasks.                     *)

\* Step s is completed by one of the first n events.
CompletedBy(st, s, n) ==
  \E j \in 1..n : st.log[j].type = "STEP_COMPLETED" /\ st.log[j].step = s

Causal(st) ==
  \A i \in 1..Len(st.log) :
    st.log[i].type = "STEP_STARTED" =>
      \A d \in st.plan.deps[st.log[i].step] : CompletedBy(st, d, i - 1)

CommitsLogged(st) ==
  \A s \in StepIds : st.step[s] = "COMMITTED" => CompletedBy(st, s, Len(st.log))

LogInv(st) ==
  /\ Causal(st) /\ CommitsLogged(st)
  /\ st.plan = NoPlan => st.log = << >>

\* What the tasks of a wave depend on stays committed while they are dispatched.
WaveFounded ==
  \A s \in InWave : \A d \in state.plan.deps[s] : state.step[d] = "COMMITTED"

LInv ==
  /\ IInv /\ pc # "awaiting_approval" /\ WaveFounded
  /\ LogInv(state)
  /\ checkpoint.kind = "whole" => LogInv(checkpoint.state)

\* The newest checkpoint has committed s with output o.
OnDisk(s, o) ==
  /\ checkpoint.kind = "whole"
  /\ checkpoint.state.step[s] = "COMMITTED" /\ checkpoint.state.output[s] = o

\* A commit is on disk before the coroutine goes on; an input that was once
\* read is there as it was read, until the file is torn, which ends all work.
InputInv ==
  /\ \A s \in StepIds : state.step[s] = "COMMITTED" => OnDisk(s, state.output[s])
  /\ checkpoint = TornFile => pc = "crashed"
  /\ checkpoint # TornFile => \A c \in consumed : OnDisk(c[1], c[2])
  /\ ConsistentInputs

-----------------------------------------------------------------------------
(* Events and the log.                                                     *)

\* A new event is appended, and changes what its case of apply_event changes.
LEMMA Logged ==
  ASSUME state \in StateType, Numbered(state),
         NEW type \in EventType, NEW s \in StepIds \cup {NoStep}, NEW p \in Payload,
         Mutate(state, Event(type, s, p)) \in StateType
  PROVE  LET e == Event(type, s, p)
             m == Mutate(state, e)
             st == ApplyEvent(state, e)
         IN /\ st.log = Append(state.log, e)
            /\ e \in KernelEvent /\ e.type = type /\ e.step = s
            /\ st.status = m.status /\ st.step = m.step /\ st.output = m.output
<1> DEFINE e == Event(type, s, p)
           m == Mutate(state, e)
<1>1. e \in KernelEvent /\ ApplyEvent(state, e) = [m EXCEPT !.log = Append(state.log, e)]
  BY NewEvent
<1>2. e.type = type /\ e.step = s
  BY DEF Event
<1> HIDE DEF m, e
<1>3. LET st == [m EXCEPT !.log = Append(state.log, e)]
      IN /\ st.log = Append(state.log, e)
         /\ st.status = m.status /\ st.step = m.step /\ st.output = m.output
  BY DEF m, e, StateType
<1> QED BY <1>1, <1>2, <1>3 DEF m, e

\* A step's event leaves the status alone; its log and its effect.
StepHistory(st, s, type, status, output) ==
  /\ \E e \in KernelEvent : e.type = type /\ e.step = s /\ st.log = Append(state.log, e)
  /\ st.status = state.status
  /\ st.step = [state.step EXCEPT ![s] = status]
  /\ st.output = output

LEMMA StepEventHistory ==
  ASSUME state \in StateType, Numbered(state),
         NEW s \in StepIds, state.step[s] # "ABSENT",
         NEW n \in Nat, NEW o \in Outputs, NEW f \in Failures
  PROVE  LET started   == ApplyEvent(state, Event("STEP_STARTED", s, [attempt |-> n]))
             completed == ApplyEvent(state, Event("STEP_COMPLETED", s, [output |-> o]))
             failed    == ApplyEvent(state, Event("STEP_FAILED", s, [failure |-> f]))
             retrying  == ApplyEvent(state, Event("STEP_RETRYING", s, EmptyPayload))
         IN /\ StepHistory(started, s, "STEP_STARTED", "RUNNING", state.output)
            /\ StepHistory(completed, s, "STEP_COMPLETED", "COMMITTED",
                           [state.output EXCEPT ![s] = o])
            /\ StepHistory(failed, s, "STEP_FAILED", "FAILED", state.output)
            /\ StepHistory(retrying, s, "STEP_RETRYING", "PENDING", state.output)
<1>0. /\ {"STEP_STARTED", "STEP_COMPLETED", "STEP_FAILED", "STEP_RETRYING"} \subseteq EventType
      /\ [attempt |-> n] \in Payload /\ [output |-> o] \in Payload
      /\ [failure |-> f] \in Payload /\ EmptyPayload \in Payload
      /\ s \in StepIds \cup {NoStep}
  BY DEF EventType, Payload
<1>1. \A x \in StepStatus : [state.step EXCEPT ![s] = x] \in [StepIds -> StepStatus]
  BY DEF StateType
<1>2. /\ [state.attempts EXCEPT ![s] = n] \in [StepIds -> Nat]
      /\ [state.output EXCEPT ![s] = o] \in [StepIds -> Outputs]
  BY DEF StateType
<1>3. StepHistory(ApplyEvent(state, Event("STEP_STARTED", s, [attempt |-> n])),
                  s, "STEP_STARTED", "RUNNING", state.output)
  <2> DEFINE e == Event("STEP_STARTED", s, [attempt |-> n])
  <2>1. Mutate(state, e) = [state EXCEPT !.step[s] = "RUNNING", !.attempts[s] = n]
    BY DEF Mutate, Known, Event
  <2> HIDE DEF e
  <2>2. /\ Mutate(state, e) \in StateType /\ Mutate(state, e).status = state.status
        /\ Mutate(state, e).step = [state.step EXCEPT ![s] = "RUNNING"]
        /\ Mutate(state, e).output = state.output
    BY <1>1, <1>2, <2>1 DEF StateType, StepStatus
  <2> QED BY <1>0, <2>2, Logged DEF StepHistory, e
<1>4. StepHistory(ApplyEvent(state, Event("STEP_COMPLETED", s, [output |-> o])),
                  s, "STEP_COMPLETED", "COMMITTED", [state.output EXCEPT ![s] = o])
  <2> DEFINE e == Event("STEP_COMPLETED", s, [output |-> o])
  <2>1. Mutate(state, e) = [state EXCEPT !.step[s] = "COMMITTED", !.output[s] = o]
    BY DEF Mutate, Known, Event
  <2> HIDE DEF e
  <2>2. /\ Mutate(state, e) \in StateType /\ Mutate(state, e).status = state.status
        /\ Mutate(state, e).step = [state.step EXCEPT ![s] = "COMMITTED"]
        /\ Mutate(state, e).output = [state.output EXCEPT ![s] = o]
    BY <1>1, <1>2, <2>1 DEF StateType, StepStatus
  <2> QED BY <1>0, <2>2, Logged DEF StepHistory, e
<1>5. StepHistory(ApplyEvent(state, Event("STEP_FAILED", s, [failure |-> f])),
                  s, "STEP_FAILED", "FAILED", state.output)
  <2> DEFINE e == Event("STEP_FAILED", s, [failure |-> f])
  <2>1. Mutate(state, e) = [state EXCEPT !.step[s] = "FAILED"]
    BY DEF Mutate, Known, Event
  <2> HIDE DEF e
  <2>2. /\ Mutate(state, e) \in StateType /\ Mutate(state, e).status = state.status
        /\ Mutate(state, e).step = [state.step EXCEPT ![s] = "FAILED"]
        /\ Mutate(state, e).output = state.output
    BY <1>1, <2>1 DEF StateType, StepStatus
  <2> QED BY <1>0, <2>2, Logged DEF StepHistory, e
<1>6. StepHistory(ApplyEvent(state, Event("STEP_RETRYING", s, EmptyPayload)),
                  s, "STEP_RETRYING", "PENDING", state.output)
  <2> DEFINE e == Event("STEP_RETRYING", s, EmptyPayload)
  <2>1. Mutate(state, e) = [state EXCEPT !.step[s] = "PENDING"]
    BY DEF Mutate, Known, Event
  <2> HIDE DEF e
  <2>2. /\ Mutate(state, e) \in StateType /\ Mutate(state, e).status = state.status
        /\ Mutate(state, e).step = [state.step EXCEPT ![s] = "PENDING"]
        /\ Mutate(state, e).output = state.output
    BY <1>1, <2>1 DEF StateType, StepStatus
  <2> QED BY <1>0, <2>2, Logged DEF StepHistory, e
<1> QED BY <1>3, <1>4, <1>5, <1>6

\* Events about the whole execution: a log entry, and nothing of the steps.
LEMMA StatusEventHistory ==
  ASSUME state \in StateType, Numbered(state),
         NEW type \in {"EXECUTION_STARTED", "EXECUTION_COMPLETED", "EXECUTION_PAUSED",
                       "LEARNING_SIGNAL"}
  PROVE  LET st == ApplyEvent(state, Event(type, NoStep, EmptyPayload))
         IN /\ \E e \in KernelEvent : e.type = type /\ st.log = Append(state.log, e)
            /\ st.output = state.output
            /\ type = "LEARNING_SIGNAL" => st.status = state.status
<1> DEFINE e == Event(type, NoStep, EmptyPayload)
<1>0. type \in EventType /\ NoStep \in StepIds \cup {NoStep} /\ EmptyPayload \in Payload
  BY DEF EventType, Payload
<1>1. e.type = type
  BY DEF Event
<1> HIDE DEF e
<1>2. /\ Mutate(state, e) \in StateType /\ Mutate(state, e).output = state.output
      /\ type = "LEARNING_SIGNAL" => Mutate(state, e).status = state.status
  BY <1>1 DEF Mutate, StateType, ExecutionStatus
<1> QED BY <1>0, <1>2, Logged DEF e

LEMMA PlanEventHistory ==
  ASSUME state \in StateType, Numbered(state), Blank(state), NEW p \in Plans
  PROVE  LET st == ApplyEvent(state, Event("PLAN_CREATED", NoStep, [plan |-> p]))
         IN \E e \in KernelEvent : e.type = "PLAN_CREATED" /\ st.log = Append(state.log, e)
<1> DEFINE e == Event("PLAN_CREATED", NoStep, [plan |-> p])
<1>0. /\ "PLAN_CREATED" \in EventType /\ NoStep \in StepIds \cup {NoStep}
      /\ [plan |-> p] \in Payload
  BY DEF EventType, Payload
<1>1. e.type = "PLAN_CREATED" /\ e.payload.plan = p
  BY DEF Event
<1> HIDE DEF e
<1>2. Mutate(state, e) \in StateType
  <2>1. [s \in StepIds |-> IF s \in p.steps /\ state.step[s] = "ABSENT"
                           THEN "PENDING" ELSE state.step[s]] \in [StepIds -> StepStatus]
    BY DEF StateType, StepStatus
  <2> QED BY <1>1, <2>1 DEF Mutate, StateType, ExecutionStatus
<1> QED BY <1>0, <1>2, Logged DEF e

\* A longer log has completed what the shorter one had.
LEMMA CompletedStays ==
  ASSUME NEW st1 \in StateType, NEW st2, NEW e \in KernelEvent,
         st2.log = Append(st1.log, e), NEW d, NEW n \in 0..Len(st1.log),
         CompletedBy(st1, d, n)
  PROVE  CompletedBy(st2, d, n) /\ CompletedBy(st2, d, Len(st2.log))
<1>1. st1.log \in Seq(KernelEvent) /\ Len(st1.log) \in Nat
  BY DEF StateType
<1>2. PICK j \in 1..n : st1.log[j].type = "STEP_COMPLETED" /\ st1.log[j].step = d
  BY DEF CompletedBy
<1>3. j \in 1..Len(st1.log) /\ st2.log[j] = st1.log[j] /\ Len(st2.log) = Len(st1.log) + 1
  BY <1>1
<1>4. j \in 1..Len(st2.log)
  BY <1>1, <1>3
<1> QED BY <1>2, <1>3, <1>4 DEF CompletedBy

\* An event keeps the log causal when a step starts only on committed steps and
\* is committed only by its completion.
LEMMA AppendKeepsLog ==
  ASSUME NEW st1 \in StateType, LogInv(st1), st1.plan # NoPlan,
         \A s \in StepIds : st1.plan.deps[s] \subseteq StepIds,
         NEW st2, NEW e \in KernelEvent,
         st2.plan = st1.plan, st2.log = Append(st1.log, e),
         e.type = "STEP_STARTED" =>
           e.step \in StepIds /\ \A d \in st1.plan.deps[e.step] : st1.step[d] = "COMMITTED",
         \A s \in StepIds : st2.step[s] = "COMMITTED" =>
           st1.step[s] = "COMMITTED" \/ (e.type = "STEP_COMPLETED" /\ e.step = s)
  PROVE  LogInv(st2)
<1> DEFINE n == Len(st1.log)
<1>1. /\ st1.log \in Seq(KernelEvent) /\ n \in Nat
      /\ Len(st2.log) = n + 1 /\ st2.log[n + 1] = e
      /\ \A i \in 1..n : st2.log[i] = st1.log[i]
  BY DEF StateType
<1>2. ASSUME NEW i \in 1..(n + 1), st2.log[i].type = "STEP_STARTED",
             NEW d \in st2.plan.deps[st2.log[i].step]
      PROVE  CompletedBy(st2, d, i - 1)
  <2>1. CASE i = n + 1
    <3>1. e.step \in StepIds /\ d \in StepIds /\ st1.step[d] = "COMMITTED"
      BY <1>1, <1>2, <2>1
    <3>2. CompletedBy(st1, d, n) /\ n \in 0..Len(st1.log)
      BY <1>1, <3>1 DEF LogInv, CommitsLogged
    <3>3. CompletedBy(st2, d, n)
      BY <3>2, CompletedStays
    <3> QED BY <1>1, <2>1, <3>3
  <2>2. CASE i # n + 1
    <3>1. i \in 1..n /\ st2.log[i] = st1.log[i] /\ i - 1 \in 0..Len(st1.log)
      BY <1>1, <2>2
    <3>2. CompletedBy(st1, d, i - 1)
      BY <1>2, <3>1 DEF LogInv, Causal
    <3> QED BY <3>1, <3>2, CompletedStays
  <2> QED BY <2>1, <2>2
<1>3. Causal(st2)
  BY <1>1, <1>2 DEF Causal
<1>4. ASSUME NEW s \in StepIds, st2.step[s] = "COMMITTED"
      PROVE  CompletedBy(st2, s, Len(st2.log))
  <2>1. CASE st1.step[s] = "COMMITTED"
    <3>1. CompletedBy(st1, s, n) /\ n \in 0..Len(st1.log)
      BY <1>1, <2>1 DEF LogInv, CommitsLogged
    <3> QED BY <3>1, CompletedStays
  <2>2. CASE e.type = "STEP_COMPLETED" /\ e.step = s
    <3>1. n + 1 \in 1..Len(st2.log) /\ st2.log[n + 1].type = "STEP_COMPLETED"
          /\ st2.log[n + 1].step = s
      BY <1>1, <2>2
    <3> QED BY <3>1 DEF CompletedBy
  <2> QED BY <1>4, <2>1, <2>2
<1> QED BY <1>3, <1>4 DEF LogInv, CommitsLogged

\* The same log under the same plan and commits.
LEMMA SameLog ==
  ASSUME NEW st1, LogInv(st1), NEW st2, st2.plan = st1.plan, st2.log = st1.log,
         st2.step = st1.step
  PROVE  LogInv(st2)
BY DEF LogInv, Causal, CommitsLogged, CompletedBy

LEMMA EmptyLog == LogInv(EmptyState)
BY DEF EmptyState, LogInv, Causal, CommitsLogged

-----------------------------------------------------------------------------
(* The log, action by action.                                              *)

\* A new state, or its snapshot, has a causal log; the newest file holds it or
\* what it held.
LEMMA SavedLog ==
  ASSUME LInv, LogInv(state)', checkpoint' \in {checkpoint, File(state'), TornFile}
  PROVE  checkpoint'.kind = "whole" => LogInv(checkpoint.state)'
<1>1. CASE checkpoint' = checkpoint
  BY <1>1 DEF LInv, LogInv, Causal, CommitsLogged, CompletedBy
<1>2. CASE checkpoint' = File(state')
  BY <1>2 DEF File, LogInv, Causal, CommitsLogged, CompletedBy
<1>3. CASE checkpoint' = TornFile
  BY <1>3 DEF TornFile
<1> QED BY <1>1, <1>2, <1>3

\* What a step does to the state of an execution: nothing to the steps, or one
\* event of the step at the cursor.
Eventless ==
  /\ SameSteps(state') /\ UNCHANGED <<wave>>
  /\ \/ state'.log = state.log
     \/ \E e \in KernelEvent : /\ e.type \notin {"STEP_STARTED", "STEP_COMPLETED"}
                               /\ state'.log = Append(state.log, e)

LEMMA EventlessKeeps ==
  ASSUME LInv, IInv', Eventless, pc' # "awaiting_approval",
         state.plan = NoPlan => state'.log = state.log,
         checkpoint' \in {checkpoint, File(state'), TornFile}
  PROVE  LInv'
<1>1. LogInv(state)'
  <2>1. CASE state'.log = state.log
    BY <2>1, SameLog DEF LInv, Eventless, SameSteps
  <2>2. CASE state.plan # NoPlan /\ \E e \in KernelEvent :
               /\ e.type \notin {"STEP_STARTED", "STEP_COMPLETED"}
               /\ state'.log = Append(state.log, e)
    <3>1. PICK e \in KernelEvent : /\ e.type \notin {"STEP_STARTED", "STEP_COMPLETED"}
                                   /\ state'.log = Append(state.log, e)
      BY <2>2
    <3>2. state \in StateType /\ LogInv(state) /\ state'.plan = state.plan
          /\ state'.step = state.step /\ \A s \in StepIds : state.plan.deps[s] \subseteq StepIds
      BY <2>2, PlanFacts DEF LInv, IInv, TypeOK, Eventless, SameSteps
    <3> QED BY <2>2, <3>1, <3>2, AppendKeepsLog
  <2> QED BY <2>1, <2>2 DEF Eventless
<1>2. WaveFounded'
  BY DEF LInv, WaveFounded, Eventless, SameSteps, InWave
<1> QED BY <1>1, <1>2, SavedLog DEF LInv

LEMMA EventlessActions ==
  ASSUME LInv, IInv', ~HasApproval,
         \/ PublishStarted \/ PublishAnswered \/ LoopEnds \/ PublishCompleted
         \/ PublishLearningSignal \/ Abort \/ PlanFails \/ GiveUp
         \/ \E s \in StepIds : TaskSucceeds(s) \/ TaskFails(s)
  PROVE  LInv'
<1>0. state \in StateType /\ Numbered(state) /\ pc # "awaiting_approval"
  BY DEF LInv, IInv, TypeOK
<1>1. ASSUME NEW type \in {"EXECUTION_STARTED", "EXECUTION_COMPLETED", "LEARNING_SIGNAL"},
             Publish(type, NoStep, EmptyPayload), pc \in Quiet, pc' # "awaiting_approval",
             UNCHANGED wave
      PROVE  LInv'
  <2>1. /\ state' = ApplyEvent(state, Event(type, NoStep, EmptyPayload))
        /\ checkpoint' \in {checkpoint, File(state'), TornFile}
    BY <1>1, PublishEffect
  <2>2. SameSteps(state')
    BY <1>0, <2>1, StatusEvent
  <2>3. \E e \in KernelEvent : e.type = type /\ state'.log = Append(state.log, e)
    BY <1>0, <2>1, StatusEventHistory
  <2>4. state.plan # NoPlan
    BY <1>1 DEF LInv, IInv, Position, Quiet
  <2> QED BY <1>1, <2>1, <2>2, <2>3, <2>4, EventlessKeeps DEF Eventless
<1>2. CASE PublishStarted
  BY <1>1, <1>2 DEF PublishStarted, Quiet, Executing, Publishing, dispatching
<1>3. CASE PublishAnswered
  <2>1. pc \in Quiet /\ UNCHANGED wave
    BY <1>3, NoWaveToDrop DEF LInv, PublishAnswered, Return, Quiet, Executing, Publishing
  <2> QED BY <1>1, <1>3, <2>1 DEF PublishAnswered, Return
<1>4. CASE PublishCompleted
  BY <1>1, <1>4 DEF PublishCompleted, Quiet, Executing, Publishing, dispatching
<1>5. CASE PublishLearningSignal
  <2>1. pc \in Quiet /\ UNCHANGED wave
    BY <1>5, NoWaveToDrop DEF LInv, PublishLearningSignal, Return, Quiet, Executing, Publishing
  <2> QED BY <1>1, <1>5, <2>1 DEF PublishLearningSignal, Return
<1>6. ASSUME checkpoint' = checkpoint, UNCHANGED wave, pc' # "awaiting_approval",
             state' = state \/ state' = [state EXCEPT !.status = "ABORTED"]
      PROVE  LInv'
  <2>1. SameSteps(state') /\ state'.log = state.log
    BY <1>0, <1>6 DEF SameSteps, StateType
  <2> QED BY <1>6, <2>1, EventlessKeeps DEF Eventless
<1>7. CASE LoopEnds \/ Abort
  BY <1>0, <1>6, <1>7 DEF LoopEnds, Abort, dispatching
<1>8. CASE PlanFails
  <2>1. UNCHANGED wave
    BY <1>8, NoWaveToDrop DEF LInv, PlanFails, Return, Publishing
  <2> QED BY <1>6, <1>8, <2>1 DEF PlanFails, Return
<1>9. CASE GiveUp
  <2>1. /\ pc' # "awaiting_approval"
        /\ state' = state /\ checkpoint' = checkpoint /\ wave' = [wave EXCEPT ![At] = 0]
    BY <1>9, GoOn DEF GiveUp, NextResult
  <2>2. InWave' \subseteq InWave
    BY <2>1 DEF LInv, IInv, TypeOK, InWave
  <2> QED BY <2>1, <2>2 DEF LInv, WaveFounded, LogInv, Causal, CommitsLogged, CompletedBy
<1>10. CASE \E s \in StepIds : TaskSucceeds(s) \/ TaskFails(s)
  <2>1. PICK s \in StepIds : \E o : TaskEnds(s, o)
    BY <1>10 DEF TaskSucceeds, TaskFails
  <2>2. pc' # "awaiting_approval"
    BY <1>0, <2>1, GoOn DEF TaskEnds
  <2> QED BY <1>6, <2>1, <2>2 DEF TaskEnds
<1> QED BY <1>2, <1>3, <1>4, <1>5, <1>7, <1>8, <1>9, <1>10

\* A wave starts: its steps depend on committed steps only.
LEMMA NextWaveFounded ==
  ASSUME LInv, IInv', NextWave
  PROVE  LInv'
<1>1. InWave' = Runnable(state) /\ UNCHANGED <<state, checkpoint>> /\ pc' = "gathering"
  BY WaveEffect DEF LInv, NextWave
<1>2. WaveFounded'
  BY <1>1 DEF WaveFounded, Runnable
<1>3. LogInv(state)'
  BY <1>1, SameLog DEF LInv
<1> QED BY <1>1, <1>2, <1>3, SavedLog DEF LInv

\* A step's publication: the log gets its event; a step leaves RUNNING only.
LEMMA StepKeepsLog ==
  ASSUME LInv, IInv', pc = "publishing", pc' # "awaiting_approval",
         NEW type, NEW status, NEW output, StepHistory(state', At, type, status, output),
         state'.plan = state.plan,
         type = "STEP_STARTED" => cursor.part = 1,
         status = "COMMITTED" => type = "STEP_COMPLETED",
         wave' = wave \/ wave' = [wave EXCEPT ![At] = 0],
         checkpoint' \in {checkpoint, File(state'), TornFile}
  PROVE  LInv'
<1>0. pc \in Publishing /\ state.plan # NoPlan
  BY DEF LInv, IInv, Position, Publishing, Executing
<1>1. At \in StepIds /\ At \in InWave /\ state \in StateType
      /\ state.step \in [StepIds -> StepStatus]
      /\ \A s \in StepIds : state.plan.deps[s] \subseteq StepIds
  BY <1>0, AtFacts, PlanFacts DEF LInv
<1>2. PICK e \in KernelEvent : /\ e.type = type /\ e.step = At
                               /\ state'.log = Append(state.log, e)
  BY DEF StepHistory
<1>3. \A s \in StepIds : state'.step[s] = IF s = At THEN status ELSE state.step[s]
  BY <1>1 DEF StepHistory
<1>4. LogInv(state)'
  <2>1. e.type = "STEP_STARTED" =>
          e.step \in StepIds /\ \A d \in state.plan.deps[e.step] : state.step[d] = "COMMITTED"
    BY <1>1, <1>2 DEF LInv, WaveFounded
  <2>2. \A s \in StepIds : state'.step[s] = "COMMITTED" =>
          state.step[s] = "COMMITTED" \/ (e.type = "STEP_COMPLETED" /\ e.step = s)
    BY <1>2, <1>3
  <2> QED BY <1>0, <1>1, <1>2, <2>1, <2>2, AppendKeepsLog DEF LInv
<1>5. WaveFounded'
  <2>1. InWave' \subseteq InWave
    BY <1>1 DEF InWave, LInv, IInv, TypeOK
  <2>2. state.step[At] # "COMMITTED"
    BY <1>1 DEF LInv, IInv, WaveSteps
  <2>3. InWave \subseteq StepIds
    BY DEF InWave
  <2> QED BY <1>1, <1>3, <2>1, <2>2, <2>3 DEF LInv, WaveFounded
<1> QED BY <1>4, <1>5, SavedLog DEF LInv

LEMMA StepActionsKeepLog ==
  ASSUME LInv, IInv', PublishStepStarted \/ PublishStepCompleted \/ PublishStepFailed \/ Retry
  PROVE  LInv'
<1>0. /\ pc = "publishing" /\ pc \in Publishing /\ 0 \in Nat
      /\ NoOutput \in Outputs /\ "TOOL_ERROR" \in Failures
      /\ At \in StepIds /\ state.step[At] # "ABSENT" /\ wave[At] \in Nat
      /\ state \in StateType /\ Numbered(state) /\ results[At] \in ResultType
  BY AtFacts DEF LInv, Publishing, Outputs, Failures,
                 PublishStepStarted, PublishStepCompleted, PublishStepFailed, Retry
<1>1. NextResult => pc' # "awaiting_approval" /\ wave' = [wave EXCEPT ![At] = 0]
  BY GoOn DEF NextResult
<1>2. CASE PublishStepStarted
  <2>1. state' = ApplyEvent(state, Event("STEP_STARTED", At, [attempt |-> wave[At]]))
        /\ checkpoint' \in {checkpoint, File(state'), TornFile}
    BY <1>2, PublishEffect DEF PublishStepStarted
  <2>2. StepHistory(state', At, "STEP_STARTED", "RUNNING", state.output)
    BY <1>0, <2>1, StepEventHistory
  <2>3. state'.plan = state.plan
    BY <1>0, <2>1, StepEvent DEF StepEffect
  <2> QED BY <1>0, <1>2, <2>1, <2>2, <2>3, StepKeepsLog DEF PublishStepStarted
<1>3. CASE PublishStepCompleted
  <2>0. results[At].output \in Outputs
    BY <1>0, <1>3 DEF PublishStepCompleted, ResultType, NoTask, Pending, Outputs
  <2>1. state' = ApplyEvent(state, Event("STEP_COMPLETED", At,
                                           [output |-> results[At].output]))
        /\ checkpoint' \in {checkpoint, File(state'), TornFile}
    BY <1>3, PublishEffect DEF PublishStepCompleted
  <2>2. StepHistory(state', At, "STEP_COMPLETED", "COMMITTED",
                    [state.output EXCEPT ![At] = results[At].output])
    BY <1>0, <2>0, <2>1, StepEventHistory
  <2>3. state'.plan = state.plan
    BY <1>0, <2>0, <2>1, StepEvent DEF StepEffect
  <2> QED BY <1>0, <1>1, <1>3, <2>1, <2>2, <2>3, StepKeepsLog DEF PublishStepCompleted
<1>4. CASE PublishStepFailed
  <2>0. results[At].failure \in Failures
    BY <1>0, <1>4 DEF PublishStepFailed, ResultType, NoTask, Pending
  <2>1. state' = ApplyEvent(state, Event("STEP_FAILED", At,
                                           [failure |-> results[At].failure]))
        /\ checkpoint' \in {checkpoint, File(state'), TornFile}
    BY <1>4, PublishEffect DEF PublishStepFailed
  <2>2. StepHistory(state', At, "STEP_FAILED", "FAILED", state.output)
    BY <1>0, <2>0, <2>1, StepEventHistory
  <2>3. state'.plan = state.plan
    BY <1>0, <2>0, <2>1, StepEvent DEF StepEffect
  <2> QED BY <1>0, <1>4, <2>1, <2>2, <2>3, StepKeepsLog DEF PublishStepFailed
<1>5. CASE Retry
  <2>1. state' = ApplyEvent(state, Event("STEP_RETRYING", At, EmptyPayload))
        /\ checkpoint' \in {checkpoint, File(state'), TornFile}
    BY <1>5, PublishEffect DEF Retry
  <2>2. StepHistory(state', At, "STEP_RETRYING", "PENDING", state.output)
    BY <1>0, <2>1, StepEventHistory
  <2>3. state'.plan = state.plan
    BY <1>0, <2>1, StepEvent DEF StepEffect
  <2> QED BY <1>0, <1>1, <1>5, <2>1, <2>2, <2>3, StepKeepsLog DEF Retry
<1> QED BY <1>2, <1>3, <1>4, <1>5

\* A request starts or is planned, is lost with its process, or picked up again.
LEMMA StartsKeepLog ==
  ASSUME LInv, IInv', Run \/ (\E p \in Plans : PlanCreated(p)) \/ Crash \/ CrashInSave \/ Resume
  PROVE  LInv'
<1>1. CASE Run
  <2>1. LogInv(state)' /\ checkpoint' = checkpoint /\ wave' = wave /\ pc' = "planning"
    BY <1>1, EmptyLog DEF Run, dispatching
  <2>2. InWave = {}
    BY <1>1 DEF LInv, IInv, TypeOK, Run
  <2> QED BY <2>1, <2>2, SavedLog DEF LInv, WaveFounded, InWave
<1>2. ASSUME NEW p \in Plans, PlanCreated(p) PROVE LInv'
  <2>0. /\ pc = "planning" /\ state \in StateType /\ Numbered(state) /\ Blank(state)
        /\ state.plan = NoPlan /\ state.log = << >> /\ InWave = {}
    BY <1>2 DEF PlanCreated, LInv, LogInv, IInv, Position, TypeOK
  <2>1. /\ state' = ApplyEvent(state, Event("PLAN_CREATED", NoStep, [plan |-> p]))
        /\ checkpoint' \in {checkpoint, File(state'), TornFile}
        /\ wave' = wave /\ pc' = "starting"
    BY <1>2, PublishEffect DEF PlanCreated, dispatching
  <2>2. state'.plan = p /\ \A s \in StepIds : state'.step[s] \in {"ABSENT", "PENDING"}
    BY <2>0, <2>1, PlanEvent
  <2>3. PICK e \in KernelEvent : e.type = "PLAN_CREATED" /\ state'.log = Append(state.log, e)
    BY <2>0, <2>1, PlanEventHistory
  <2>4. Len(state'.log) = 1 /\ state'.log[1] = e
    BY <2>0, <2>3
  <2>5. LogInv(state)'
    BY <2>2, <2>3, <2>4, PlansAssumption DEF LogInv, Causal, CommitsLogged
  <2> QED BY <2>0, <2>1, <2>5, SavedLog DEF LInv, WaveFounded, InWave
<1>3. CASE Crash \/ CrashInSave
  <2>1. LogInv(state)' /\ checkpoint' \in {checkpoint, File(state'), TornFile}
        /\ wave' = NoWave /\ pc' = "crashed"
    BY <1>3, EmptyLog DEF Crash, CrashInSave, DropWave
  <2> QED BY <2>1, SavedLog DEF LInv, WaveFounded, InWave, NoWave
<1>4. CASE Resume
  <2>1. /\ checkpoint.kind = "whole" /\ state' = checkpoint.state /\ checkpoint' = checkpoint
        /\ wave' = wave /\ pc' = "starting" /\ pc \notin {"gathering"} \cup Publishing
    BY <1>4 DEF Resume, Reenter, Live, dispatching, Publishing
  <2>2. LogInv(state)'
    BY <2>1, SameLog DEF LInv
  <2>3. InWave = {}
    BY <2>1 DEF LInv, IInv, TypeOK, Publishing
  <2> QED BY <2>1, <2>2, <2>3, SavedLog DEF LInv, WaveFounded, InWave
<1> QED BY <1>1, <1>2, <1>3, <1>4

LEMMA NextLInv ==
  ASSUME ~CanReplay, ~HasApproval, LInv, [Next]_vars
  PROVE  LInv'
<1>0. IInv'
  BY NextIInv DEF LInv
<1>1. CASE UNCHANGED vars
  <2>1. LogInv(state)' /\ checkpoint' = checkpoint
    BY <1>1, SameLog DEF LInv, vars
  <2> QED BY <1>0, <1>1, <2>1, SavedLog DEF LInv, vars, WaveFounded, InWave
<1>2. ~Escalate /\ ~Human /\ \A k : ~Replay(k)
  BY DEF LInv, Escalate, MayEscalate, Human, Approve, Reject, ApprovalRaises, Replay
<1>3. CASE NextWave
  BY <1>0, <1>3, NextWaveFounded
<1> QED BY <1>0, <1>1, <1>2, <1>3, EventlessActions, StepActionsKeepLog, StartsKeepLog
        DEF Next, Plan, Orchestrate, Reentry

LEMMA InitLInv == Init => LInv
<1> SUFFICES ASSUME Init PROVE LInv
  OBVIOUS
<1>1. WaveFounded
  BY DEF Init, WaveFounded, InWave, NoWave
<1>2. LogInv(state) /\ checkpoint.kind # "whole"
  BY EmptyLog DEF Init, NoFile
<1> QED BY <1>1, <1>2, InitIInv DEF Init, LInv

\* Without a human no step ever starts in the log of an execution, live or on
\* disk, before the completions of all it depends on, whatever crashes, fails
\* or is resumed (get_runnable_steps, the order in which results are published).
THEOREM LogIsCausal ==
  ASSUME ~CanReplay, ~HasApproval
  PROVE  Spec => []CausalLog
<1>1. ASSUME LInv PROVE CausalLog
  <2>1. \A st \in Snapshots : st \in StateType /\ LogInv(st)
    BY <1>1 DEF LInv, Snapshots, IInv, TypeOK, FileType, NoFile, TornFile
  <2>2. ASSUME NEW st \in Snapshots, NEW i \in DOMAIN st.log,
               st.log[i].type = "STEP_STARTED", NEW d \in st.plan.deps[st.log[i].step]
        PROVE  \E j \in 1..(i - 1) :
                 st.log[j].type = "STEP_COMPLETED" /\ st.log[j].step = d
    <3>1. i \in 1..Len(st.log)
      BY <2>1, <2>2 DEF StateType
    <3> QED BY <2>1, <2>2, <3>1 DEF LogInv, Causal, CompletedBy
  <2> QED BY <2>2 DEF CausalLog
<1>2. Init => LInv
  BY InitLInv
<1>3. LInv /\ [Next]_vars => LInv'
  BY NextLInv
<1>4. LInv => CausalLog
  BY <1>1
<1> QED BY <1>2, <1>3, <1>4, PTL DEF Spec

-----------------------------------------------------------------------------
(* Escalations.                                                            *)

\* The human is asked about a step with no attempt left.
Exhausted == pc = "awaiting_approval" => state.attempts[At] >= state.plan.max[At]

LEMMA NextExhausted ==
  ASSUME ~CanReplay, IInv, Exhausted, [Next]_vars
  PROVE  Exhausted'
<1>0. state \in StateType /\ Numbered(state)
  BY DEF IInv, TypeOK
<1> SUFFICES ASSUME pc' = "awaiting_approval"
             PROVE  state'.attempts[At'] >= state'.plan.max[At']
  BY DEF Exhausted
<1>1. CASE Escalate
  <2> DEFINE st == ApplyEvent(state, Event("EXECUTION_PAUSED", NoStep, EmptyPayload))
  <2>1. st \in StateType /\ SameSteps(st)
    BY <1>0, StatusEvent
  <2>2. state' = [st EXCEPT !.status = "PAUSED_APPROVAL"] /\ At' = At
        /\ ~(state.attempts[At] < state.plan.max[At])
    BY <1>1 DEF Escalate, dispatching, At, AttemptsLeft
  <2> HIDE DEF st
  <2>3. state'.attempts = state.attempts /\ state'.plan = state.plan
    BY <2>1, <2>2 DEF StateType, SameSteps
  <2>4. state.plan # NoPlan /\ At \in StepIds
    BY <1>1, AtFacts DEF Escalate, IInv, Position, Publishing, Executing
  <2>5. state.attempts[At] \in Nat /\ state.plan.max[At] \in Nat
    BY <1>0, <2>4, PlanFacts DEF StateType
  <2> QED BY <2>2, <2>3, <2>5
<1>2. CASE Abort \/ UNCHANGED vars
  <2>1. pc = "awaiting_approval" /\ At' = At /\ state'.attempts = state.attempts
        /\ state'.plan = state.plan
    BY <1>0, <1>2 DEF Abort, vars, dispatching, At, StateType
  <2> QED BY <2>1 DEF Exhausted
<1>3. CASE Next /\ ~Escalate /\ ~Abort
  <2>1. NextResult => pc' # "awaiting_approval"
    BY GoOn DEF NextResult
  <2>2. \A s \in StepIds : \A o : TaskEnds(s, o) => pc' # "awaiting_approval"
    BY GoOn DEF TaskEnds
  <2> QED BY <1>3, <2>1, <2>2
          DEF Next, Run, Plan, PlanCreated, PlanFails, Orchestrate, PublishStarted,
              PublishAnswered, NextWave, LoopEnds, TaskSucceeds, TaskFails,
              PublishStepStarted, PublishStepCompleted, PublishStepFailed, Retry, GiveUp,
              PublishCompleted, PublishLearningSignal, Human, Approve, Reject,
              ApprovalRaises, Crash, CrashInSave, Reentry, Resume, Replay, Reenter, Return
<1> QED BY <1>1, <1>2, <1>3

-----------------------------------------------------------------------------
(* Attempts and failures.                                                  *)

OnRecord(st, s) == Cardinality(FailuresOf(st, s))

\* The failures on record are the attempts, but for one that is under way.
Recorded(st) ==
  \A s \in StepIds :
    /\ st.step[s] \in {"ABSENT", "PENDING", "FAILED"} => OnRecord(st, s) = st.attempts[s]
    /\ st.step[s] = "RUNNING" => OnRecord(st, s) + 1 = st.attempts[s]

\* A failed step has no attempt left.
NoneLeft(st, s) == st.step[s] = "FAILED" => st.attempts[s] >= st.plan.max[s]

\* Where the retry logic is done with it, and on disk.
GivenUp == \A s \in StepIds : wave[s] = 0 => NoneLeft(state, s)
OnFile ==
  checkpoint.kind = "whole" =>
    /\ Recorded(checkpoint.state)
    /\ \A s \in StepIds : NoneLeft(checkpoint.state, s)

UInv == IInv /\ Exhausted /\ Recorded(state) /\ GivenUp /\ OnFile

\* What one event adds to the failures on record.
LEMMA OneMoreEvent ==
  ASSUME state \in StateType, NEW e \in KernelEvent, NEW st,
         st.log = Append(state.log, e), NEW s \in StepIds
  PROVE  /\ OnRecord(state, s) \in Nat
         /\ OnRecord(st, s) = IF e.type = "STEP_FAILED" /\ e.step = s
                              THEN OnRecord(state, s) + 1 ELSE OnRecord(state, s)
<1> DEFINE n == Len(state.log)
           F == FailuresOf(state, s)
<1>1. state.log \in Seq(KernelEvent) /\ n \in Nat /\ DOMAIN state.log = 1..n
  BY DEF StateType
<1>2. /\ DOMAIN st.log = 1..(n + 1) /\ st.log[n + 1] = e
      /\ \A i \in 1..n : st.log[i] = state.log[i]
  BY <1>1
<1>3. IsFiniteSet(F) /\ n + 1 \notin F
  <2>1. IsFiniteSet(1..n)
    BY <1>1, FS_Interval
  <2>2. F \subseteq 1..n
    BY <1>1 DEF FailuresOf
  <2>3. n + 1 \notin 1..n
    BY <1>1
  <2> HIDE DEF F
  <2> QED BY <2>1, <2>2, <2>3, FS_Subset
<1>4. FailuresOf(st, s) = IF e.type = "STEP_FAILED" /\ e.step = s THEN F \cup {n + 1} ELSE F
  <2>1. \A i : i \in 1..(n + 1) <=> i \in 1..n \/ i = n + 1
    BY <1>1
  <2>2. n + 1 \notin 1..n
    BY <1>1
  <2> HIDE DEF n
  <2> QED BY <1>1, <1>2, <2>1, <2>2 DEF FailuresOf
<1> HIDE DEF F, n
<1>5. Cardinality(F) \in Nat /\ Cardinality(F \cup {n + 1}) = Cardinality(F) + 1
  BY <1>3, FS_CardinalityType, FS_AddElement
<1> QED BY <1>4, <1>5 DEF OnRecord, F

\* An unchanged log, or an event of another kind, adds none.
Unfailing ==
  \/ state'.log = state.log
  \/ \E e \in KernelEvent : e.type # "STEP_FAILED" /\ state'.log = Append(state.log, e)

LEMMA UnfailingRecord ==
  ASSUME state \in StateType, Unfailing
  PROVE  \A s \in StepIds : OnRecord(state', s) = OnRecord(state, s)
<1>1. CASE state'.log = state.log
  BY <1>1 DEF OnRecord, FailuresOf
<1>2. CASE \E e \in KernelEvent : e.type # "STEP_FAILED" /\ state'.log = Append(state.log, e)
  BY <1>2, OneMoreEvent
<1> QED BY <1>1, <1>2 DEF Unfailing

\* What is on disk after a step.
LEMMA SavedRecord ==
  ASSUME UInv, checkpoint' \in {checkpoint, File(state'), TornFile},
         checkpoint' = File(state') =>
           Recorded(state') /\ \A s \in StepIds : NoneLeft(state', s)
  PROVE  OnFile'
<1>1. CASE checkpoint' = checkpoint
  BY <1>1 DEF UInv, OnFile, Recorded, OnRecord, FailuresOf, NoneLeft
<1>2. CASE checkpoint' = File(state')
  BY <1>2 DEF OnFile, File, Recorded, OnRecord, FailuresOf, NoneLeft
<1>3. CASE checkpoint' = TornFile
  BY <1>3 DEF OnFile, TornFile
<1> QED BY <1>1, <1>2, <1>3

\* A step of the kernel that changes no step of the plan.
LEMMA CalmStep ==
  ASSUME UInv, SameSteps(state'), Unfailing,
         \A s \in StepIds : wave'[s] = 0 => wave[s] = 0,
         \/ checkpoint' \in {checkpoint, TornFile}
         \/ checkpoint' = File(state') /\ \A s \in StepIds : wave[s] = 0
  PROVE  Recorded(state)' /\ GivenUp' /\ OnFile'
<1>1. Recorded(state') /\ Recorded(state)'
  <2>1. \A s \in StepIds : OnRecord(state', s) = OnRecord(state, s) /\ OnRecord(state, s)' = OnRecord(state', s)
    BY UnfailingRecord DEF UInv, IInv, TypeOK, OnRecord, FailuresOf
  <2> QED BY <2>1 DEF UInv, Recorded, SameSteps
<1>2. GivenUp'
  BY DEF UInv, GivenUp, NoneLeft, SameSteps
<1>3. checkpoint' = File(state') => \A s \in StepIds : NoneLeft(state', s)
  <2>1. CASE checkpoint' = File(state') /\ \A s \in StepIds : wave[s] = 0
    BY <2>1 DEF UInv, GivenUp, NoneLeft, SameSteps
  <2>2. CASE checkpoint' = TornFile
    BY <2>2 DEF TornFile, File
  <2>3. CASE checkpoint' = checkpoint /\ checkpoint' = File(state')
    BY <2>3 DEF UInv, OnFile, File, NoneLeft
  <2> QED BY <2>1, <2>2, <2>3
<1> QED BY <1>1, <1>2, <1>3, SavedRecord

\* The steps that change none: publications about the execution, waves and
\* tasks, aborts, escalations.
LEMMA CalmActions ==
  ASSUME UInv,
         \/ PublishStarted \/ PublishAnswered \/ LoopEnds \/ PublishCompleted
         \/ PublishLearningSignal \/ Abort \/ PlanFails \/ Escalate \/ NextWave
         \/ (\E s \in StepIds : TaskSucceeds(s) \/ TaskFails(s)) \/ UNCHANGED vars
  PROVE  Recorded(state)' /\ GivenUp' /\ OnFile'
<1>0. state \in StateType /\ Numbered(state)
  BY DEF UInv, IInv, TypeOK
<1>1. pc \notin {"gathering"} \cup Publishing => \A s \in StepIds : wave[s] = 0
  BY DEF UInv, IInv, TypeOK, InWave, Publishing
<1>2. ASSUME NEW type \in {"EXECUTION_STARTED", "EXECUTION_COMPLETED", "LEARNING_SIGNAL"},
             Publish(type, NoStep, EmptyPayload), pc \notin {"gathering"} \cup Publishing
      PROVE  Recorded(state)' /\ GivenUp' /\ OnFile'
  <2>1. /\ state' = ApplyEvent(state, Event(type, NoStep, EmptyPayload))
        /\ checkpoint' \in {checkpoint, File(state'), TornFile}
    BY <1>2, PublishEffect
  <2>2. SameSteps(state')
    BY <1>0, <2>1, StatusEvent
  <2>3. Unfailing
    BY <1>0, <2>1, StatusEventHistory DEF Unfailing
  <2> QED BY <1>1, <1>2, <2>1, <2>2, <2>3, CalmStep
<1>3. CASE PublishStarted \/ PublishAnswered \/ PublishCompleted \/ PublishLearningSignal
  BY <1>2, <1>3 DEF PublishStarted, PublishAnswered, PublishCompleted, PublishLearningSignal,
                    Publishing
<1>4. ASSUME state' = state \/ state' = [state EXCEPT !.status = "ABORTED"],
             checkpoint' = checkpoint, \A s \in StepIds : wave'[s] = 0 => wave[s] = 0
      PROVE  Recorded(state)' /\ GivenUp' /\ OnFile'
  <2>1. SameSteps(state') /\ Unfailing
    BY <1>0, <1>4 DEF SameSteps, Unfailing, StateType
  <2> QED BY <1>4, <2>1, CalmStep
<1>5. CASE LoopEnds \/ Abort \/ UNCHANGED vars
  BY <1>4, <1>5 DEF LoopEnds, Abort, dispatching, vars
<1>6. CASE NextWave \/ PlanFails
  BY <1>1, <1>4, <1>6 DEF NextWave, PlanFails, Publishing
<1>7. CASE \E s \in StepIds : TaskSucceeds(s) \/ TaskFails(s)
  BY <1>4, <1>7 DEF TaskSucceeds, TaskFails, TaskEnds
<1>8. CASE Escalate
  <2> DEFINE st == ApplyEvent(state, Event("EXECUTION_PAUSED", NoStep, EmptyPayload))
  <2>1. st \in StateType /\ SameSteps(st)
        /\ \E e \in KernelEvent : e.type = "EXECUTION_PAUSED" /\ st.log = Append(state.log, e)
    BY <1>0, StatusEvent, StatusEventHistory
  <2>2. state' = [st EXCEPT !.status = "PAUSED_APPROVAL"]
        /\ UNCHANGED <<wave, checkpoint>>
    BY <1>8 DEF Escalate, dispatching
  <2> HIDE DEF st
  <2>3. state'.log = st.log /\ SameSteps(state')
    BY <2>1, <2>2 DEF StateType, SameSteps
  <2>4. Unfailing
    BY <2>1, <2>3 DEF Unfailing
  <2> QED BY <2>2, <2>3, <2>4, CalmStep
<1> QED BY <1>3, <1>5, <1>6, <1>7, <1>8

\* A wave's other steps are PENDING while one is dealt with.
LEMMA OthersPending ==
  ASSUME UInv, pc \in Publishing
  PROVE  /\ At \in StepIds /\ wave[At] # 0
         /\ \A s \in StepIds \ {At} : wave[s] # 0 => state.step[s] = "PENDING"
BY DEF UInv, IInv, Position, WaveSteps, InWave, Publishing

\* What is left of a step whose result is dealt with.
LEMMA DealtWith ==
  ASSUME UInv, pc \in Publishing,
         NEW status \in {"COMMITTED", "PENDING", "FAILED"},
         state'.step = [state.step EXCEPT ![At] = status],
         state'.attempts = state.attempts, state'.plan = state.plan,
         Unfailing, cursor.part = 3 \/ status = "COMMITTED",
         status = "FAILED" => state.attempts[At] >= state.plan.max[At],
         checkpoint' \in {checkpoint, File(state'), TornFile}
  PROVE  Recorded(state)' /\ GivenUp' /\ OnFile'
<1>0. state \in StateType /\ state.step \in [StepIds -> StepStatus]
  BY DEF UInv, IInv, TypeOK, StateType
<1>1. \A s \in StepIds : OnRecord(state', s) = OnRecord(state, s)
  BY <1>0, UnfailingRecord
<1>2. /\ At \in StepIds /\ wave[At] # 0
      /\ \A s \in StepIds \ {At} : wave[s] # 0 => state.step[s] = "PENDING"
  BY OthersPending
<1>3. cursor.part = 3 => state.step[At] = "FAILED"
  BY <1>2 DEF UInv, IInv, WaveSteps, InWave
<1>4. Recorded(state') /\ Recorded(state)'
  <2>1. ASSUME NEW s \in StepIds
        PROVE  /\ state'.step[s] \in {"ABSENT", "PENDING", "FAILED"} =>
                    OnRecord(state', s) = state'.attempts[s]
               /\ state'.step[s] = "RUNNING" => OnRecord(state', s) + 1 = state'.attempts[s]
    <3>1. CASE s = At
      BY <3>1, <1>0, <1>1, <1>2, <1>3 DEF UInv, Recorded
    <3>2. CASE s # At
      BY <3>2, <1>0, <1>1 DEF UInv, Recorded
    <3> QED BY <3>1, <3>2
  <2> QED BY <2>1 DEF Recorded, OnRecord, FailuresOf
<1>5. \A s \in StepIds : NoneLeft(state', s)
  <2>1. ASSUME NEW s \in StepIds, s # At PROVE NoneLeft(state', s)
    <3>1. state'.step[s] = state.step[s]
      BY <2>1, <1>0
    <3>2. CASE wave[s] = 0
      BY <3>1, <3>2 DEF UInv, GivenUp, NoneLeft
    <3>3. CASE wave[s] # 0
      BY <1>2, <2>1, <3>1, <3>3 DEF NoneLeft
    <3> QED BY <3>2, <3>3
  <2>2. NoneLeft(state', At)
    BY <1>0, <1>2 DEF NoneLeft
  <2> QED BY <2>1, <2>2
<1> QED BY <1>4, <1>5, SavedRecord DEF GivenUp, NoneLeft

LEMMA PublishingSteps ==
  ASSUME UInv, PublishStepStarted \/ PublishStepFailed
  PROVE  Recorded(state)' /\ GivenUp' /\ OnFile'
<1>0. /\ pc = "publishing" /\ pc \in Publishing /\ 0 \in Nat
      /\ NoOutput \in Outputs /\ "TOOL_ERROR" \in Failures
      /\ At \in StepIds /\ state.step[At] # "ABSENT" /\ wave[At] \in Nat /\ wave[At] # 0
      /\ state \in StateType /\ Numbered(state) /\ results[At] \in ResultType
      /\ state.step \in [StepIds -> StepStatus] /\ state.attempts \in [StepIds -> Nat]
  BY AtFacts, OthersPending DEF UInv, Publishing, Outputs, Failures,
                                PublishStepStarted, PublishStepFailed
<1>1. ASSUME checkpoint' = checkpoint, wave' = wave, state'.plan = state.plan,
             NEW n \in Nat, NEW status \in {"RUNNING", "FAILED"},
             StepEffect(state', At, status, n),
             \A s \in StepIds \ {At} : OnRecord(state', s) = OnRecord(state, s),
             IF status = "RUNNING" THEN OnRecord(state', At) + 1 = n ELSE OnRecord(state', At) = n
      PROVE  Recorded(state)' /\ GivenUp' /\ OnFile'
  <2>1. Recorded(state')
    <3>1. ASSUME NEW s \in StepIds
          PROVE  /\ state'.step[s] \in {"ABSENT", "PENDING", "FAILED"} =>
                      OnRecord(state', s) = state'.attempts[s]
                 /\ state'.step[s] = "RUNNING" => OnRecord(state', s) + 1 = state'.attempts[s]
      <4>1. CASE s = At
        BY <4>1, <1>0, <1>1 DEF StepEffect
      <4>2. CASE s # At
        BY <4>2, <1>0, <1>1 DEF UInv, Recorded, StepEffect
      <4> QED BY <4>1, <4>2
    <3> QED BY <3>1 DEF Recorded
  <2>2. GivenUp'
    BY <1>0, <1>1 DEF UInv, GivenUp, NoneLeft, StepEffect
  <2> QED BY <1>1, <2>1, <2>2, SavedRecord DEF UInv, OnFile, Recorded, OnRecord, FailuresOf, NoneLeft
<1>2. CASE PublishStepStarted
  <2>1. /\ state' = ApplyEvent(state, Event("STEP_STARTED", At, [attempt |-> wave[At]]))
        /\ checkpoint' = checkpoint /\ wave' = wave
    BY <1>2, PublishEffect DEF PublishStepStarted, CheckpointedEvents
  <2>2. StepHistory(state', At, "STEP_STARTED", "RUNNING", state.output)
    BY <1>0, <2>1, StepEventHistory
  <2>3. StepEffect(state', At, "RUNNING", wave[At])
    BY <1>0, <2>1, StepEvent
  <2>4. Unfailing
    BY <2>2 DEF StepHistory, Unfailing
  <2>5. state.step[At] = "PENDING" /\ wave[At] = state.attempts[At] + 1
    BY <1>0, <1>2 DEF PublishStepStarted, UInv, IInv, WaveSteps, InWave
  <2>6. \A s \in StepIds : OnRecord(state', s) = OnRecord(state, s)
    BY <1>0, <2>4, UnfailingRecord
  <2>7. OnRecord(state', At) + 1 = wave[At]
    BY <1>0, <2>5, <2>6 DEF UInv, Recorded
  <2> QED BY <1>0, <1>1, <2>1, <2>3, <2>6, <2>7 DEF StepEffect
<1>3. CASE PublishStepFailed
  <2>0. results[At].failure \in Failures
    BY <1>0, <1>3 DEF PublishStepFailed, ResultType, NoTask, Pending
  <2>1. /\ state' = ApplyEvent(state, Event("STEP_FAILED", At,
                                             [failure |-> results[At].failure]))
        /\ checkpoint' = checkpoint /\ wave' = wave
    BY <1>3, PublishEffect DEF PublishStepFailed, CheckpointedEvents
  <2>2. StepHistory(state', At, "STEP_FAILED", "FAILED", state.output)
    BY <1>0, <2>0, <2>1, StepEventHistory
  <2>3. StepEffect(state', At, "FAILED", state.attempts[At])
    BY <1>0, <2>0, <2>1, StepEvent
  <2>4. PICK e \in KernelEvent : /\ e.type = "STEP_FAILED" /\ e.step = At
                                 /\ state'.log = Append(state.log, e)
    BY <2>2 DEF StepHistory
  <2>5. \A s \in StepIds :
          OnRecord(state', s) = IF s = At THEN OnRecord(state, s) + 1 ELSE OnRecord(state, s)
    BY <1>0, <2>4, OneMoreEvent
  <2>6. state.step[At] = "RUNNING"
    BY <1>0, <1>3 DEF PublishStepFailed, UInv, IInv, WaveSteps, InWave
  <2>7. OnRecord(state', At) = state.attempts[At] /\ state.attempts[At] \in Nat
    BY <1>0, <2>5, <2>6 DEF UInv, Recorded
  <2> QED BY <1>0, <1>1, <2>1, <2>3, <2>5, <2>7 DEF StepEffect
<1> QED BY <1>2, <1>3

LEMMA DealingSteps ==
  ASSUME UInv, PublishStepCompleted \/ Retry \/ GiveUp \/ Approve \/ Reject
  PROVE  Recorded(state)' /\ GivenUp' /\ OnFile'
<1>0. /\ pc \in Publishing /\ 0 \in Nat /\ NoOutput \in Outputs /\ "TOOL_ERROR" \in Failures
      /\ At \in StepIds /\ state.step[At] # "ABSENT" /\ results[At] \in ResultType
      /\ state \in StateType /\ Numbered(state)
      /\ state.step \in [StepIds -> StepStatus] /\ state.attempts \in [StepIds -> Nat]
      /\ [state.attempts EXCEPT ![At] = state.attempts[At]] = state.attempts
  BY AtFacts DEF UInv, Publishing, Outputs, Failures,
                 PublishStepCompleted, Retry, GiveUp, Approve, Reject
<1>1. CASE PublishStepCompleted
  <2>0. results[At].output \in Outputs
    BY <1>0, <1>1 DEF PublishStepCompleted, ResultType, NoTask, Pending, Outputs
  <2>1. /\ state' = ApplyEvent(state, Event("STEP_COMPLETED", At,
                                             [output |-> results[At].output]))
        /\ checkpoint' \in {checkpoint, File(state'), TornFile}
    BY <1>1, PublishEffect DEF PublishStepCompleted
  <2>2. StepHistory(state', At, "STEP_COMPLETED", "COMMITTED",
                    [state.output EXCEPT ![At] = results[At].output])
    BY <1>0, <2>0, <2>1, StepEventHistory
  <2>3. Unfailing
    BY <2>2 DEF StepHistory, Unfailing
  <2>4. StepEffect(state', At, "COMMITTED", state.attempts[At])
    BY <1>0, <2>0, <2>1, StepEvent
  <2> QED BY <1>0, <2>1, <2>3, <2>4, DealtWith DEF StepEffect
<1>2. CASE Retry
  <2>1. state' = ApplyEvent(state, Event("STEP_RETRYING", At, EmptyPayload))
        /\ checkpoint' \in {checkpoint, File(state'), TornFile} /\ cursor.part = 3
    BY <1>2, PublishEffect DEF Retry
  <2>2. StepHistory(state', At, "STEP_RETRYING", "PENDING", state.output)
    BY <1>0, <2>1, StepEventHistory
  <2>3. Unfailing
    BY <2>2 DEF StepHistory, Unfailing
  <2>4. StepEffect(state', At, "PENDING", state.attempts[At])
    BY <1>0, <2>1, StepEvent
  <2> QED BY <1>0, <2>1, <2>3, <2>4, DealtWith DEF StepEffect
<1>3. CASE GiveUp \/ Reject
  <2>1. /\ state' = state \/ state' = [state EXCEPT !.status = "ABORTED"]
        /\ checkpoint' = checkpoint /\ cursor.part = 3
        /\ ~(state.attempts[At] < state.plan.max[At]) \/ pc = "awaiting_approval"
    BY <1>3 DEF GiveUp, Reject, AttemptsLeft, UInv, IInv, Position
  <2>2. Unfailing /\ state'.plan = state.plan /\ state'.attempts = state.attempts
        /\ state'.step = state.step
    BY <1>0, <2>1 DEF Unfailing, StateType
  <2>3. state.step = [state.step EXCEPT ![At] = "FAILED"]
    BY <1>0, <2>1, OthersPending DEF UInv, IInv, WaveSteps, InWave
  <2>4. state.attempts[At] \in Nat /\ state.plan.max[At] \in Nat
    BY <1>0, PlanFacts DEF UInv, IInv, Position, Publishing, Executing
  <2>5. state.attempts[At] >= state.plan.max[At]
    BY <2>1, <2>4 DEF UInv, Exhausted
  <2> QED BY <1>0, <2>1, <2>2, <2>3, <2>5, DealtWith
<1>4. CASE Approve
  <2> DEFINE o == [state.output EXCEPT ![At] = IF state.output[At] = NoOutput THEN Approved
                                               ELSE state.output[At]]
             c == [state.step EXCEPT ![At] = "COMMITTED"]
  <2>1. /\ state' = [state EXCEPT !.status = "RUNNING", !.step = c, !.output = o]
        /\ checkpoint' = checkpoint
    BY <1>4 DEF Approve
  <2> HIDE DEF o, c
  <2>2. /\ state'.log = state.log /\ state'.step = c
        /\ state'.plan = state.plan /\ state'.attempts = state.attempts
    BY <1>0, <2>1 DEF StateType
  <2> QED BY <1>0, <2>1, <2>2, DealtWith DEF Unfailing, c
<1> QED BY <1>1, <1>2, <1>3, <1>4

\* An execution with no failure on record and no attempt.
LEMMA EmptyRecord ==
  ASSUME NEW st, st.log = << >>, Blank(st)
  PROVE  Recorded(st) /\ \A s \in StepIds : NoneLeft(st, s)
<1>1. \A s \in StepIds : FailuresOf(st, s) = {}
  BY DEF FailuresOf
<1>2. \A s \in StepIds : OnRecord(st, s) = 0
  BY <1>1, FS_EmptySet DEF OnRecord
<1> QED BY <1>2 DEF Recorded, NoneLeft, Blank

\* A request starts or is planned, is lost with its process, left by an
\* exception, or picked up again.
LEMMA BoundarySteps ==
  ASSUME UInv, \/ Run \/ (\E p \in Plans : PlanCreated(p))
               \/ ApprovalRaises \/ Crash \/ CrashInSave \/ Resume
  PROVE  Recorded(state)' /\ GivenUp' /\ OnFile'
<1>1. ASSUME state' = EmptyState, checkpoint' \in {checkpoint, TornFile}
      PROVE  Recorded(state)' /\ GivenUp' /\ OnFile'
  <2>1. EmptyState.log = << >> /\ Blank(EmptyState)
    BY DEF EmptyState, Blank
  <2>2. Recorded(state') /\ \A s \in StepIds : NoneLeft(state', s)
    BY <1>1, <2>1, EmptyRecord
  <2> QED BY <1>1, <2>2, SavedRecord DEF GivenUp, NoneLeft, Recorded, OnRecord, FailuresOf
<1>2. CASE Run \/ Crash \/ CrashInSave
  BY <1>1, <1>2 DEF Run, Crash, CrashInSave
<1>3. ASSUME NEW p \in Plans, PlanCreated(p)
      PROVE  Recorded(state)' /\ GivenUp' /\ OnFile'
  <2>1. /\ state \in StateType /\ Numbered(state) /\ Blank(state)
    BY <1>3 DEF UInv, IInv, Position, TypeOK, PlanCreated
  <2>2. /\ state' = ApplyEvent(state, Event("PLAN_CREATED", NoStep, [plan |-> p]))
        /\ checkpoint' \in {checkpoint, File(state'), TornFile}
    BY <1>3, PublishEffect DEF PlanCreated
  <2>3. /\ state'.attempts = state.attempts
        /\ \A s \in StepIds : state'.step[s] \in {"ABSENT", "PENDING"}
    BY <2>1, <2>2, PlanEvent
  <2>4. Unfailing
    BY <2>1, <2>2, PlanEventHistory DEF Unfailing
  <2>5. \A s \in StepIds : OnRecord(state', s) = state.attempts[s]
    BY <2>1, <2>4, UnfailingRecord DEF UInv, Recorded, Blank
  <2>6. Recorded(state') /\ \A s \in StepIds : NoneLeft(state', s)
    BY <2>3, <2>5 DEF Recorded, NoneLeft
  <2> QED BY <2>2, <2>6, SavedRecord DEF GivenUp, NoneLeft, Recorded, OnRecord, FailuresOf
<1>4. CASE ApprovalRaises
  <2>1. /\ pc \in Publishing /\ state' = state /\ checkpoint' = checkpoint
        /\ state.attempts[At] >= state.plan.max[At]
    BY <1>4 DEF ApprovalRaises, Publishing, UInv, Exhausted
  <2>2. \A s \in StepIds : NoneLeft(state, s)
    <3>1. ASSUME NEW s \in StepIds \ {At}, wave[s] # 0 PROVE NoneLeft(state, s)
      BY <2>1, <3>1, OthersPending DEF NoneLeft
    <3> QED BY <2>1, <3>1 DEF UInv, GivenUp, NoneLeft
  <2>3. OnFile'
    BY <2>1, <2>2, SavedRecord DEF UInv
  <2> QED BY <2>1, <2>2, <2>3 DEF UInv, GivenUp, NoneLeft, Recorded, OnRecord, FailuresOf
<1>5. CASE Resume
  <2>1. checkpoint.kind = "whole" /\ state' = checkpoint.state /\ checkpoint' = checkpoint
    BY <1>5 DEF Resume, Reenter
  <2> QED BY <2>1 DEF UInv, OnFile, GivenUp, NoneLeft, Recorded, OnRecord, FailuresOf
<1> QED BY <1>2, <1>3, <1>4, <1>5

LEMMA NextUInv ==
  ASSUME ~CanReplay, UInv, [Next]_vars
  PROVE  UInv'
<1>1. IInv' /\ Exhausted'
  BY NextIInv, NextExhausted DEF UInv
<1>2. \A k : ~Replay(k)
  BY DEF Replay
<1>3. Recorded(state)' /\ GivenUp' /\ OnFile'
  BY <1>2, CalmActions, PublishingSteps, DealingSteps, BoundarySteps
     DEF Next, Plan, Orchestrate, Human, Reentry
<1> QED BY <1>1, <1>3 DEF UInv

\* A step is left FAILED, in memory or on disk, only with max_attempts failures
\* in the execution's own log, for any plans, crashes, resumptions, aborts and
\* saves that fail, and whatever the human does (the retry logic of execute).
THEOREM FailuresAreOnRecord ==
  ASSUME ~CanReplay
  PROVE  Spec => []AttemptsUsedUp
<1>1. Init => UInv
  <2> SUFFICES ASSUME Init PROVE UInv
    OBVIOUS
  <2>1. EmptyState.log = << >> /\ Blank(EmptyState)
    BY DEF EmptyState, Blank
  <2>2. Recorded(state) /\ \A s \in StepIds : NoneLeft(state, s)
    BY <2>1, EmptyRecord DEF Init
  <2> QED BY <2>2, InitIInv DEF UInv, Init, Exhausted, GivenUp, OnFile, NoFile
<1>2. UInv /\ [Next]_vars => UInv'
  BY NextUInv
<1>3. UInv => AttemptsUsedUp
  <2>1. ASSUME UInv, NEW st \in StateType, st.plan \in Plans \/ Blank(st),
               Budgeted(st), Recorded(st), NEW s \in StepIds, NoneLeft(st, s)
        PROVE  UsedUp(st, s)
    <3> SUFFICES ASSUME st.step[s] = "FAILED"
                 PROVE  OnRecord(st, s) = st.plan.max[s]
      BY DEF UsedUp, OnRecord
    <3>1. st.plan \in Plans /\ st.plan # NoPlan /\ st.plan \in PlanIR
      BY <2>1, PlansAssumption DEF Blank
    <3>2. st.plan.max[s] \in Nat /\ st.attempts[s] \in Nat
      BY <3>1 DEF PlanIR, StateType
    <3>3. st.attempts[s] = st.plan.max[s]
      BY <2>1, <3>1, <3>2 DEF Budgeted, NoneLeft
    <3> QED BY <2>1, <3>3 DEF Recorded
  <2> SUFFICES ASSUME UInv PROVE AttemptsUsedUp
    OBVIOUS
  <2>2. ASSUME NEW s \in StepIds, wave[s] = 0 PROVE UsedUp(state, s)
    BY <2>1, <2>2 DEF UInv, IInv, TypeOK, Position, GivenUp, StateType
  <2>3. ASSUME checkpoint.kind = "whole", NEW s \in StepIds PROVE UsedUp(checkpoint.state, s)
    <3>1. checkpoint.state \in StateType /\ checkpoint.state.plan \in Plans
      BY <2>3 DEF UInv, IInv, TypeOK, FileType, NoFile, TornFile, Disk, StateType
    <3> QED BY <2>1, <2>3, <3>1 DEF UInv, IInv, OnFile, Disk
  <2> QED BY <2>2, <2>3 DEF AttemptsUsedUp
<1> QED BY <1>1, <1>2, <1>3, PTL DEF Spec

-----------------------------------------------------------------------------
(* Aborts.                                                                 *)

\* An action that publishes something about the step at the cursor keeps the status.
LEMMA StepActionsKeepStatus ==
  ASSUME IInv, PublishStepStarted \/ PublishStepCompleted \/ PublishStepFailed \/ Retry
  PROVE  state'.status = state.status
<1>0. /\ pc = "publishing" /\ pc \in Publishing /\ 0 \in Nat
      /\ NoOutput \in Outputs /\ "TOOL_ERROR" \in Failures
      /\ At \in StepIds /\ state.step[At] # "ABSENT" /\ wave[At] \in Nat
      /\ state \in StateType /\ Numbered(state) /\ results[At] \in ResultType
  BY AtFacts DEF Publishing, Outputs, Failures,
                 PublishStepStarted, PublishStepCompleted, PublishStepFailed, Retry
<1>1. CASE PublishStepStarted
  <2>1. state' = ApplyEvent(state, Event("STEP_STARTED", At, [attempt |-> wave[At]]))
    BY <1>1, PublishEffect DEF PublishStepStarted
  <2>2. StepHistory(state', At, "STEP_STARTED", "RUNNING", state.output)
    BY <1>0, <2>1, StepEventHistory
  <2> QED BY <2>2 DEF StepHistory
<1>2. CASE PublishStepCompleted
  <2>0. results[At].output \in Outputs
    BY <1>0, <1>2 DEF PublishStepCompleted, ResultType, NoTask, Pending, Outputs
  <2>1. state' = ApplyEvent(state, Event("STEP_COMPLETED", At,
                                           [output |-> results[At].output]))
    BY <1>2, PublishEffect DEF PublishStepCompleted
  <2>2. StepHistory(state', At, "STEP_COMPLETED", "COMMITTED",
                    [state.output EXCEPT ![At] = results[At].output])
    BY <1>0, <2>0, <2>1, StepEventHistory
  <2> QED BY <2>2 DEF StepHistory
<1>3. CASE PublishStepFailed
  <2>0. results[At].failure \in Failures
    BY <1>0, <1>3 DEF PublishStepFailed, ResultType, NoTask, Pending
  <2>1. state' = ApplyEvent(state, Event("STEP_FAILED", At,
                                           [failure |-> results[At].failure]))
    BY <1>3, PublishEffect DEF PublishStepFailed
  <2>2. StepHistory(state', At, "STEP_FAILED", "FAILED", state.output)
    BY <1>0, <2>0, <2>1, StepEventHistory
  <2> QED BY <2>2 DEF StepHistory
<1>4. CASE Retry
  <2>1. state' = ApplyEvent(state, Event("STEP_RETRYING", At, EmptyPayload))
    BY <1>4, PublishEffect DEF Retry
  <2>2. StepHistory(state', At, "STEP_RETRYING", "PENDING", state.output)
    BY <1>0, <2>1, StepEventHistory
  <2> QED BY <2>2 DEF StepHistory
<1> QED BY <1>1, <1>2, <1>3, <1>4

\* After abort() no task starts and no other status replaces ABORTED until the
\* coroutine ends or its process dies, whatever the tasks in flight answer (the
\* status check at the top of execute's loop; the events of a step leave the
\* status alone).  A human's answer does replace it, hence the assumption.
THEOREM AbortIsFinal ==
  ASSUME ~CanReplay, ~HasApproval
  PROVE  Spec => AbortHolds
<1> DEFINE Aborting == state.status = "ABORTED"
                         /\ pc \in {"looping", "gathering", "publishing", "signalling"}
           Holds == execs' = execs /\ (state'.status = "ABORTED" \/ pc' = "crashed")
<1>1. ASSUME IInv, [Next]_vars, Aborting PROVE Holds
  <2>0. state \in StateType /\ Numbered(state)
    BY <1>1 DEF IInv, TypeOK
  <2>1. CASE PublishStepStarted \/ PublishStepCompleted \/ PublishStepFailed \/ Retry
    <3>1. execs' = execs
      BY <2>1 DEF PublishStepStarted, PublishStepCompleted, PublishStepFailed, Retry, observers
    <3> QED BY <1>1, <2>1, <3>1, StepActionsKeepStatus
  <2>2. CASE PublishLearningSignal
    <3>1. state' = ApplyEvent(state, Event("LEARNING_SIGNAL", NoStep, EmptyPayload))
          /\ execs' = execs
      BY <2>2, PublishEffect DEF PublishLearningSignal, observers
    <3> QED BY <1>1, <2>0, <3>1, StatusEventHistory
  <2>3. CASE Abort
    BY <2>0, <2>3 DEF Abort, observers, StateType
  <2>4. CASE Crash \/ CrashInSave
    BY <2>4 DEF Crash, CrashInSave, observers
  <2>5. CASE UNCHANGED vars
    BY <1>1, <2>5 DEF vars
  <2>6. CASE LoopEnds \/ GiveUp \/ \E s \in StepIds : TaskSucceeds(s) \/ TaskFails(s)
    BY <1>1, <2>6 DEF LoopEnds, GiveUp, TaskSucceeds, TaskFails, TaskEnds, observers
  <2>7. ~NextWave
    BY <1>1 DEF NextWave, MayDispatch
  <2>8. ~Run /\ ~Plan /\ ~PublishStarted /\ ~PublishAnswered /\ ~PublishCompleted
        /\ ~Escalate /\ ~Human /\ ~Reentry
    BY <1>1 DEF Run, Plan, PlanCreated, PlanFails, PublishStarted, PublishAnswered,
                PublishCompleted, Escalate, MayEscalate, Human, Approve, Reject,
                ApprovalRaises, Reentry, Resume, Replay, Reenter, Live
  <2> QED BY <1>1, <2>1, <2>2, <2>3, <2>4, <2>5, <2>6, <2>7, <2>8 DEF Next, Orchestrate
<1>2. IInv /\ [Next]_vars => [Aborting => Holds]_vars
  BY <1>1
<1> QED BY <1>2, KernelInvariant, PTL DEF Spec, AbortHolds

-----------------------------------------------------------------------------
(* What tasks have read.                                                   *)

CInv == IInv /\ pc # "awaiting_approval" /\ InputInv

\* A step that saves nothing and takes no commit for granted keeps the inputs.
LEMMA UnsavedKeepsInputs ==
  ASSUME InputInv, UNCHANGED <<checkpoint, consumed>>,
         \A s \in StepIds : state'.step[s] = "COMMITTED" =>
           state.step[s] = "COMMITTED" /\ state'.output[s] = state.output[s],
         pc = "crashed" => pc' = "crashed" \/ checkpoint # TornFile
  PROVE  InputInv'
BY DEF InputInv, OnDisk, ConsistentInputs

\* A save keeps what an earlier file had: the commits on disk are commits of the
\* live state, and a commit keeps its output.
LEMMA SavedKeepsInputs ==
  ASSUME IInv, InputInv, pc \in Executing, UNCHANGED consumed, checkpoint' = File(state'),
         \A s \in StepIds : state.step[s] = "COMMITTED" =>
           state'.step[s] = "COMMITTED" /\ state'.output[s] = state.output[s]
  PROVE  InputInv'
<1>1. /\ checkpoint'.kind = "whole" /\ checkpoint'.state = state' /\ checkpoint' # TornFile
      /\ checkpoint # TornFile
  BY DEF File, TornFile, InputInv, Executing
<1>2. ASSUME NEW c \in consumed PROVE OnDisk(c[1], c[2])'
  <2>1. c[1] \in StepIds /\ OnDisk(c[1], c[2])
    BY <1>1, <1>2 DEF IInv, TypeOK, InputInv
  <2>2. state.step[c[1]] = "COMMITTED"
    BY <2>1 DEF OnDisk, IInv, Disk
  <2>3. state.output[c[1]] = c[2]
    BY <2>1, <2>2 DEF InputInv, OnDisk
  <2> QED BY <1>1, <2>1, <2>2, <2>3 DEF OnDisk
<1>3. ConsistentInputs'
  BY DEF InputInv, ConsistentInputs
<1> QED BY <1>1, <1>2, <1>3 DEF InputInv, OnDisk

\* Without save errors, an event of a checkpointed type is saved.
LEMMA SavedPublication ==
  ASSUME "save_error" \notin Faults, NEW type, NEW s, NEW p, Publish(type, s, p)
  PROVE  IF type \in CheckpointedEvents THEN checkpoint' = File(state')
         ELSE checkpoint' = checkpoint
BY DEF Publish, Saved

\* A wave reads what is on disk.
LEMMA NextWaveInputs ==
  ASSUME CInv, NextWave
  PROVE  InputInv'
<1>1. /\ pc = "looping" /\ pc' = "gathering" /\ UNCHANGED <<state, checkpoint>>
      /\ consumed' = consumed \cup
           {<<d, state.output[d]>> : d \in UNION {state.plan.deps[s] : s \in Runnable(state)}}
      /\ checkpoint # TornFile
  BY DEF NextWave, CInv, InputInv
<1>2. ASSUME NEW c \in consumed' PROVE OnDisk(c[1], c[2])
  <2>1. CASE c \in consumed
    BY <1>1, <2>1 DEF CInv, InputInv
  <2>2. CASE c \notin consumed
    <3>1. PICK s \in Runnable(state) :
            \E d \in state.plan.deps[s] : c = <<d, state.output[d]>>
      BY <1>1, <1>2, <2>2
    <3>2. PICK d \in state.plan.deps[s] : c = <<d, state.output[d]>>
      BY <3>1
    <3>3. state.plan # NoPlan /\ s \in StepIds
      BY <1>1, WaveEffect DEF CInv, IInv, Position, Executing
    <3>4. d \in StepIds /\ state.step[d] = "COMMITTED"
      BY <3>3, PlanFacts DEF CInv, Runnable
    <3> QED BY <3>2, <3>4 DEF CInv, InputInv
  <2> QED BY <2>1, <2>2
<1>3. ConsistentInputs'
  BY <1>2 DEF ConsistentInputs, OnDisk
<1> QED BY <1>1, <1>2, <1>3 DEF CInv, InputInv, OnDisk

\* The publications: of the execution, and of the step at the cursor.
LEMMA StatusInputs ==
  ASSUME CInv, "save_error" \notin Faults, pc \in Executing, UNCHANGED consumed,
         NEW type \in {"EXECUTION_STARTED", "EXECUTION_COMPLETED", "LEARNING_SIGNAL"},
         Publish(type, NoStep, EmptyPayload)
  PROVE  InputInv'
<1>1. state \in StateType /\ Numbered(state)
      /\ state' = ApplyEvent(state, Event(type, NoStep, EmptyPayload))
  BY PublishEffect DEF CInv, IInv, TypeOK
<1>2. SameSteps(state')
  BY <1>1, StatusEvent
<1>3. checkpoint' = checkpoint \/ checkpoint' = File(state')
  BY SavedPublication
<1>4. pc # "crashed"
  BY DEF Executing
<1> QED BY <1>2, <1>3, <1>4, UnsavedKeepsInputs, SavedKeepsInputs DEF CInv, SameSteps

LEMMA StepInputs ==
  ASSUME CInv, "save_error" \notin Faults,
         PublishStepStarted \/ PublishStepCompleted \/ PublishStepFailed \/ Retry
  PROVE  InputInv'
<1>0. /\ pc = "publishing" /\ pc \in Publishing /\ pc \in Executing /\ 0 \in Nat
      /\ NoOutput \in Outputs /\ "TOOL_ERROR" \in Failures /\ IInv
      /\ At \in StepIds /\ state.step[At] # "ABSENT" /\ wave[At] \in Nat
      /\ state \in StateType /\ Numbered(state) /\ results[At] \in ResultType
      /\ state.step \in [StepIds -> StepStatus] /\ state.output \in [StepIds -> Outputs]
      /\ UNCHANGED consumed
  BY AtFacts DEF CInv, Publishing, Executing, Outputs, Failures, observers, StateType,
                 PublishStepStarted, PublishStepCompleted, PublishStepFailed, Retry
<1>1. state.step[At] # "COMMITTED"
  BY <1>0, AtFacts DEF IInv, WaveSteps
<1>2. ASSUME NEW type, NEW status \in {"RUNNING", "FAILED", "PENDING"},
             StepHistory(state', At, type, status, state.output), checkpoint' = checkpoint
      PROVE  InputInv'
  <2>1. \A s \in StepIds : state'.step[s] = "COMMITTED" =>
          state.step[s] = "COMMITTED" /\ state'.output[s] = state.output[s]
    BY <1>0, <1>2 DEF StepHistory
  <2> QED BY <1>0, <1>2, <2>1, UnsavedKeepsInputs DEF CInv
<1>3. CASE PublishStepStarted
  <2>1. state' = ApplyEvent(state, Event("STEP_STARTED", At, [attempt |-> wave[At]]))
        /\ checkpoint' = checkpoint
    BY <1>3, PublishEffect DEF PublishStepStarted, CheckpointedEvents
  <2>2. StepHistory(state', At, "STEP_STARTED", "RUNNING", state.output)
    BY <1>0, <2>1, StepEventHistory
  <2> QED BY <1>2, <2>1, <2>2
<1>4. CASE PublishStepFailed
  <2>0. results[At].failure \in Failures
    BY <1>0, <1>4 DEF PublishStepFailed, ResultType, NoTask, Pending
  <2>1. state' = ApplyEvent(state, Event("STEP_FAILED", At,
                                           [failure |-> results[At].failure]))
        /\ checkpoint' = checkpoint
    BY <1>4, PublishEffect DEF PublishStepFailed, CheckpointedEvents
  <2>2. StepHistory(state', At, "STEP_FAILED", "FAILED", state.output)
    BY <1>0, <2>0, <2>1, StepEventHistory
  <2> QED BY <1>2, <2>1, <2>2
<1>5. CASE Retry
  <2>1. state' = ApplyEvent(state, Event("STEP_RETRYING", At, EmptyPayload))
        /\ checkpoint' = checkpoint
    BY <1>5, PublishEffect DEF Retry, CheckpointedEvents
  <2>2. StepHistory(state', At, "STEP_RETRYING", "PENDING", state.output)
    BY <1>0, <2>1, StepEventHistory
  <2> QED BY <1>2, <2>1, <2>2
<1>6. CASE PublishStepCompleted
  <2>0. results[At].output \in Outputs
    BY <1>0, <1>6 DEF PublishStepCompleted, ResultType, NoTask, Pending, Outputs
  <2>1. state' = ApplyEvent(state, Event("STEP_COMPLETED", At,
                                           [output |-> results[At].output]))
        /\ checkpoint' = File(state')
    BY <1>6, PublishEffect, SavedPublication DEF PublishStepCompleted, CheckpointedEvents
  <2>2. StepHistory(state', At, "STEP_COMPLETED", "COMMITTED",
                    [state.output EXCEPT ![At] = results[At].output])
    BY <1>0, <2>0, <2>1, StepEventHistory
  <2>3. \A s \in StepIds : state.step[s] = "COMMITTED" =>
          state'.step[s] = "COMMITTED" /\ state'.output[s] = state.output[s]
    BY <1>0, <1>1, <2>2 DEF StepHistory
  <2> QED BY <1>0, <2>1, <2>3, SavedKeepsInputs DEF CInv
<1> QED BY <1>3, <1>4, <1>5, <1>6

LEMMA NextCInv ==
  ASSUME ~CanReplay, ~HasApproval, "save_error" \notin Faults, CInv, [Next]_vars
  PROVE  CInv'
<1>0. IInv' /\ pc' # "awaiting_approval"
  <2>1. IInv'
    BY NextIInv DEF CInv
  <2>2. ~Escalate
    BY DEF Escalate, MayEscalate
  <2>3. /\ NextResult => pc' # "awaiting_approval"
        /\ \A s \in StepIds : \A o : TaskEnds(s, o) => pc' # "awaiting_approval"
    BY GoOn DEF NextResult, TaskEnds
  <2>4. pc' # "awaiting_approval"
    BY <2>2, <2>3
       DEF CInv, vars, Next, Run, Plan, PlanCreated, PlanFails, Orchestrate, PublishStarted,
           PublishAnswered, NextWave, LoopEnds, TaskSucceeds, TaskFails,
           PublishStepStarted, PublishStepCompleted, PublishStepFailed, Retry, GiveUp,
           PublishCompleted, PublishLearningSignal, Human, Approve, Reject,
           ApprovalRaises, Abort, Crash, CrashInSave, Reentry, Resume, Replay, Reenter, Return
  <2> QED BY <2>1, <2>4
<1> SUFFICES InputInv'
  BY <1>0 DEF CInv
<1>1. CASE UNCHANGED vars
  BY <1>1, UnsavedKeepsInputs DEF CInv, vars
<1>2. CASE NextWave
  BY <1>2, NextWaveInputs
<1>3. CASE PublishStarted \/ PublishAnswered \/ PublishCompleted \/ PublishLearningSignal
  <2>1. pc \in Executing /\ UNCHANGED consumed
    BY <1>3 DEF PublishStarted, PublishAnswered, PublishCompleted, PublishLearningSignal,
                Executing, observers
  <2> QED BY <1>3, <2>1, StatusInputs
          DEF PublishStarted, PublishAnswered, PublishCompleted, PublishLearningSignal
<1>4. CASE PublishStepStarted \/ PublishStepCompleted \/ PublishStepFailed \/ Retry
  BY <1>4, StepInputs
<1>5. CASE PlanFails \/ LoopEnds \/ GiveUp \/ Abort
             \/ \E s \in StepIds : TaskSucceeds(s) \/ TaskFails(s)
  <2>1. /\ UNCHANGED <<checkpoint, consumed>>
        /\ state' = state \/ state' = [state EXCEPT !.status = "ABORTED"]
        /\ pc = "crashed" => pc' = "crashed"
    BY <1>5 DEF PlanFails, LoopEnds, GiveUp, Abort, TaskSucceeds, TaskFails, TaskEnds, observers
  <2>2. state'.step = state.step /\ state'.output = state.output
    BY <2>1 DEF CInv, IInv, TypeOK, StateType
  <2> QED BY <2>1, <2>2, UnsavedKeepsInputs DEF CInv
<1>6. CASE Run \/ Crash
  <2>1. /\ UNCHANGED <<checkpoint, consumed>> /\ pc # "crashed"
        /\ \A s \in StepIds : state'.step[s] # "COMMITTED"
    BY <1>6 DEF Run, Crash, Live, EmptyState, observers
  <2> QED BY <2>1, UnsavedKeepsInputs DEF CInv
<1>7. CASE CrashInSave
  <2>1. /\ UNCHANGED consumed /\ pc' = "crashed" /\ checkpoint' = TornFile
        /\ \A s \in StepIds : state'.step[s] # "COMMITTED"
    BY <1>7 DEF CrashInSave, EmptyState, observers
  <2> QED BY <2>1 DEF CInv, InputInv, ConsistentInputs
<1>8. CASE \E p \in Plans : PlanCreated(p)
  <2>1. PICK p \in Plans : PlanCreated(p)
    BY <1>8
  <2>2. /\ state \in StateType /\ Numbered(state) /\ Blank(state)
        /\ checkpoint = NoFile /\ UNCHANGED consumed
        /\ state' = ApplyEvent(state, Event("PLAN_CREATED", NoStep, [plan |-> p]))
        /\ checkpoint' = File(state')
    BY <2>1, PublishEffect, SavedPublication
       DEF PlanCreated, CInv, IInv, TypeOK, Position, observers, CheckpointedEvents
  <2>3. \A s \in StepIds : state'.step[s] \in {"ABSENT", "PENDING"}
    BY <2>2, PlanEvent
  <2>4. consumed = {}
    BY <2>2 DEF CInv, InputInv, OnDisk, NoFile, TornFile
  <2> QED BY <2>2, <2>3, <2>4 DEF InputInv, File, TornFile, ConsistentInputs
<1>9. CASE Reentry
  <2>1. /\ checkpoint.kind = "whole" /\ state' = checkpoint.state
        /\ UNCHANGED <<checkpoint, consumed>>
    BY <1>9 DEF Reentry, Resume, Replay, Reenter, observers
  <2> QED BY <2>1 DEF CInv, InputInv, OnDisk, TornFile, ConsistentInputs
<1>10. ~Escalate /\ ~Human
  BY DEF CInv, Escalate, MayEscalate, Human, Approve, Reject, ApprovalRaises
<1> QED BY <1>1, <1>2, <1>3, <1>4, <1>5, <1>6, <1>7, <1>8, <1>9, <1>10
        DEF Next, Plan, Orchestrate

\* No two tasks ever read different outputs of one step, whatever number of
\* crashes and resumptions lies between them, when saves do not fail: a commit is
\* on disk before any task that depends on it starts (_on_any_event runs between
\* STEP_COMPLETED and the next wave).
THEOREM InputsAreConsistent ==
  ASSUME ~CanReplay, ~HasApproval, "save_error" \notin Faults
  PROVE  Spec => []ConsistentInputs
<1>1. Init => CInv
  <2> SUFFICES ASSUME Init PROVE CInv
    OBVIOUS
  <2>1. InputInv
    BY DEF Init, InputInv, EmptyState, NoFile, TornFile, ConsistentInputs
  <2> QED BY <2>1, InitIInv DEF Init, CInv
<1>2. CInv /\ [Next]_vars => CInv'
  BY NextCInv
<1>3. CInv => ConsistentInputs
  BY DEF CInv, InputInv
<1> QED BY <1>1, <1>2, <1>3, PTL DEF Spec

-----------------------------------------------------------------------------
(* Replay: what StateManager.reconstruct makes of a log.                   *)

Fold == INSTANCE LeftFold WITH Op <- ApplyEvent, Base <- EmptyState

\* Reconstruction starts from the empty state and applies one event after another.
LEMMA ReconstructIsFold ==
  /\ Reconstruct(<< >>) = EmptyState
  /\ \A log \in Seq(KernelEvent), e \in KernelEvent :
       Reconstruct(Append(log, e)) = ApplyEvent(Reconstruct(log), e)
<1>1. \A log : Fold!Folded(log) = Reconstruct(log)
  BY Zenon DEF Fold!Folded, Fold!FoldLeft, Fold!MapThenFoldSet, Fold!Max,
               Reconstruct, FoldLeft, MapThenFoldSet, Max
<1>2. Reconstruct(<< >>) = EmptyState
  BY <1>1, Fold!FoldedEmpty, Zenon
<1>3. ASSUME NEW log \in Seq(KernelEvent), NEW e \in KernelEvent
      PROVE  Reconstruct(Append(log, e)) = ApplyEvent(Reconstruct(log), e)
  BY <1>1, Fold!FoldedAppend, Zenon
<1> QED BY <1>2, <1>3

\* The payload is one that apply_event can read.
Readable(e) ==
  /\ e \in KernelEvent
  /\ e.type = "PLAN_CREATED" => e.payload.plan \in Plans
  /\ e.type = "STEP_STARTED" => e.payload.attempt \in Nat
  /\ e.type = "STEP_COMPLETED" => e.payload.output \in Outputs

SameEntries(st1, st2) ==
  st1.step = st2.step /\ st1.attempts = st2.attempts /\ st1.output = st2.output

LEMMA MutateTyped ==
  ASSUME NEW st \in StateType, NEW e, Readable(e)
  PROVE  Mutate(st, e) \in StateType /\ Mutate(st, e).log = st.log
<1>1. CASE e.type = "PLAN_CREATED"
  <2>1. [s \in StepIds |-> IF s \in e.payload.plan.steps /\ st.step[s] = "ABSENT"
                           THEN "PENDING" ELSE st.step[s]] \in [StepIds -> StepStatus]
    BY DEF StateType, StepStatus
  <2> QED BY <1>1, <2>1 DEF Mutate, StateType, ExecutionStatus, Readable
<1>2. CASE e.type \in {"STEP_STARTED", "STEP_COMPLETED", "STEP_FAILED", "STEP_RETRYING"}
           /\ Known(st, e.step)
  <2>1. PICK s \in StepIds : s = e.step
    BY <1>2 DEF Known
  <2>2. \A x \in StepStatus : [st.step EXCEPT ![s] = x] \in [StepIds -> StepStatus]
    BY DEF StateType
  <2>3. CASE e.type = "STEP_STARTED"
    <3>1. PICK n \in Nat : n = e.payload.attempt
      BY <2>3 DEF Readable
    <3>2. Mutate(st, e) = [st EXCEPT !.step[s] = "RUNNING", !.attempts[s] = n]
      BY <1>2, <2>1, <2>3, <3>1 DEF Mutate
    <3>3. [st.attempts EXCEPT ![s] = n] \in [StepIds -> Nat]
      BY DEF StateType
    <3> QED BY <2>2, <3>2, <3>3 DEF StateType, StepStatus
  <2>4. CASE e.type = "STEP_COMPLETED"
    <3>1. PICK o \in Outputs : o = e.payload.output
      BY <2>4 DEF Readable
    <3>2. Mutate(st, e) = [st EXCEPT !.step[s] = "COMMITTED", !.output[s] = o]
      BY <1>2, <2>1, <2>4, <3>1 DEF Mutate
    <3>3. [st.output EXCEPT ![s] = o] \in [StepIds -> Outputs]
      BY DEF StateType
    <3> QED BY <2>2, <3>2, <3>3 DEF StateType, StepStatus
  <2>5. CASE e.type = "STEP_FAILED"
    <3>1. Mutate(st, e) = [st EXCEPT !.step[s] = "FAILED"]
      BY <1>2, <2>1, <2>5 DEF Mutate
    <3> QED BY <2>2, <3>1 DEF StateType, StepStatus
  <2>6. CASE e.type = "STEP_RETRYING"
    <3>1. Mutate(st, e) = [st EXCEPT !.step[s] = "PENDING"]
      BY <1>2, <2>1, <2>6 DEF Mutate
    <3> QED BY <2>2, <3>1, ZenonT(30) DEF StateType, StepStatus
  <2> QED BY <1>2, <2>3, <2>4, <2>5, <2>6
<1>3. CASE e.type # "PLAN_CREATED"
           /\ ~(e.type \in {"STEP_STARTED", "STEP_COMPLETED", "STEP_FAILED", "STEP_RETRYING"}
                /\ Known(st, e.step))
  BY <1>3 DEF Mutate, StateType, ExecutionStatus
<1> QED BY <1>1, <1>2, <1>3

\* apply_event changes the entries of the steps from the entries alone: two states
\* that agree on them still do after the same event.
LEMMA MutateAgrees ==
  ASSUME NEW st1 \in StateType, NEW st2 \in StateType, SameEntries(st1, st2), NEW e
  PROVE  SameEntries(Mutate(st1, e), Mutate(st2, e))
BY DEF Mutate, SameEntries, StateType, Known

\* Every prefix of the log can be replayed and gives a state with that log.
Replayable(log) ==
  /\ log \in Seq(KernelEvent) /\ \A i \in 1..Len(log) : log[i].id = i
  /\ \A k \in 0..Len(log) :
       LET r == Reconstruct(SubSeq(log, 1, k))
       IN r \in StateType /\ r.log = SubSeq(log, 1, k)

Replayed(st) ==
  /\ st \in StateType
  /\ Replayable(st.log)
  /\ SameEntries(Reconstruct(st.log), st)

LEMMA NewEventApplies ==
  ASSUME NEW st \in StateType, Numbered(st), NEW e, Readable(e), e.id = Len(st.log) + 1
  PROVE  /\ ApplyEvent(st, e) \in StateType
         /\ ApplyEvent(st, e).log = Append(st.log, e)
         /\ SameEntries(ApplyEvent(st, e), Mutate(st, e))
<1>1. st.log \in Seq(KernelEvent) /\ Len(st.log) \in Nat /\ e \in KernelEvent
  BY DEF StateType, Readable
<1>2. e.id \notin SeenIds(st)
  <2>1. \A i \in 1..Len(st.log) : st.log[i].id # Len(st.log) + 1
    BY <1>1 DEF Numbered
  <2> QED BY <2>1 DEF SeenIds
<1> DEFINE m == Mutate(st, e)
<1>3. m \in StateType /\ ApplyEvent(st, e) = [m EXCEPT !.log = Append(st.log, e)]
  BY <1>2, MutateTyped DEF ApplyEvent
<1>4. Append(st.log, e) \in Seq(KernelEvent)
  BY <1>1
<1> HIDE DEF m
<1>5. LET new == [m EXCEPT !.log = Append(st.log, e)]
      IN new \in StateType /\ new.log = Append(st.log, e) /\ SameEntries(new, m)
  BY <1>3, <1>4 DEF StateType, SameEntries
<1> QED BY <1>3, <1>5 DEF m

\* The next event keeps a state replayable.
LEMMA EventReplayed ==
  ASSUME NEW st, Replayed(st), NEW e, Readable(e), e.id = Len(st.log) + 1
  PROVE  Replayed(ApplyEvent(st, e))
<1> DEFINE n == Len(st.log)
           log == Append(st.log, e)
           r == Reconstruct(st.log)
<1>1. /\ st \in StateType /\ st.log \in Seq(KernelEvent) /\ n \in Nat /\ e \in KernelEvent
      /\ Numbered(st) /\ SameEntries(r, st)
  BY DEF Replayed, Replayable, Numbered, Readable
<1>2. r \in StateType /\ r.log = st.log
  <2>1. n \in 0..n /\ SubSeq(st.log, 1, n) = st.log
    BY <1>1
  <2> QED BY <2>1 DEF Replayed, Replayable
<1>3. Numbered(r) /\ e.id = Len(r.log) + 1
  BY <1>1, <1>2 DEF Numbered
<1>4. Reconstruct(log) = ApplyEvent(r, e)
  BY <1>1, ReconstructIsFold
<1> HIDE DEF r
<1>5. /\ ApplyEvent(st, e) \in StateType /\ ApplyEvent(st, e).log = log
      /\ SameEntries(ApplyEvent(st, e), Mutate(st, e))
  BY <1>1, NewEventApplies
<1>6. /\ ApplyEvent(r, e) \in StateType /\ ApplyEvent(r, e).log = log
      /\ SameEntries(ApplyEvent(r, e), Mutate(r, e))
  BY <1>2, <1>3, NewEventApplies
<1>7. SameEntries(Mutate(r, e), Mutate(st, e))
  BY <1>1, <1>2, MutateAgrees
<1>8. SameEntries(Reconstruct(log), ApplyEvent(st, e))
  BY <1>4, <1>5, <1>6, <1>7 DEF SameEntries
<1>9. Replayable(log)
  <2>1. /\ log \in Seq(KernelEvent) /\ Len(log) = n + 1 /\ log[n + 1] = e
        /\ \A i \in 1..n : log[i] = st.log[i]
    BY <1>1
  <2>2. \A i \in 1..Len(log) : log[i].id = i
    BY <1>1, <2>1 DEF Numbered
  <2>3. \A k \in 0..n : SubSeq(log, 1, k) = SubSeq(st.log, 1, k)
    BY <1>1, <2>1
  <2>4. SubSeq(log, 1, n + 1) = log
    BY <1>1, <2>1
  <2> HIDE DEF log
  <2>5. ASSUME NEW k \in 0..Len(log)
        PROVE  LET p == Reconstruct(SubSeq(log, 1, k))
               IN p \in StateType /\ p.log = SubSeq(log, 1, k)
    <3>1. CASE k \in 0..n
      BY <2>3, <3>1 DEF Replayed, Replayable
    <3>2. CASE k = n + 1
      BY <1>4, <1>6, <2>4, <3>2
    <3> QED BY <1>1, <2>1, <3>1, <3>2
  <2> QED BY <2>1, <2>2, <2>5 DEF Replayable
<1> QED BY <1>5, <1>8, <1>9 DEF Replayed

\* A state that replay() makes of a prefix of a log.
LEMMA PrefixReplayed ==
  ASSUME NEW log, Replayable(log), NEW k \in 1..Len(log)
  PROVE  Replayed(Reconstruct(SubSeq(log, 1, k)))
<1> DEFINE p == SubSeq(log, 1, k)
<1>1. /\ log \in Seq(KernelEvent) /\ k \in 0..Len(log) /\ Len(log) \in Nat
      /\ p \in Seq(KernelEvent) /\ Len(p) = k /\ \A i \in 1..k : p[i] = log[i]
  BY DEF Replayable
<1>2. \A j \in 0..k : SubSeq(p, 1, j) = SubSeq(log, 1, j)
  BY <1>1
<1>3. Reconstruct(p) \in StateType /\ Reconstruct(p).log = p
  BY <1>1 DEF Replayable
<1> HIDE DEF p
<1>4. Replayable(p)
  <2>1. \A i \in 1..Len(p) : p[i].id = i
    <3>1. \A i \in 1..k : i \in 1..Len(log)
      BY <1>1
    <3> QED BY <1>1, <3>1 DEF Replayable
  <2>2. ASSUME NEW j \in 0..Len(p)
        PROVE  LET r == Reconstruct(SubSeq(p, 1, j))
               IN r \in StateType /\ r.log = SubSeq(p, 1, j)
    <3>1. j \in 0..k /\ j \in 0..Len(log)
      BY <1>1
    <3> QED BY <1>2, <3>1 DEF Replayable
  <2> QED BY <1>1, <2>1, <2>2 DEF Replayable
<1> QED BY <1>3, <1>4 DEF Replayed, SameEntries, p

\* The live state and the newest checkpoint can be replayed; the data that the
\* events are made of is well formed.
RInv ==
  /\ Replayed(state)
  /\ checkpoint.kind = "whole" => Replayed(checkpoint.state)
  /\ wave \in [StepIds -> Nat] /\ results \in [StepIds -> ResultType]
  /\ execs \in [StepIds -> Nat]
  /\ pc = "publishing" => At \in StepIds
  /\ pc # "awaiting_approval"

LEMMA ReadableEvent ==
  ASSUME state \in StateType, NEW type \in EventType, NEW s \in StepIds \cup {NoStep},
         NEW p \in Payload,
         type = "PLAN_CREATED" => p.plan \in Plans,
         type = "STEP_STARTED" => p.attempt \in Nat,
         type = "STEP_COMPLETED" => p.output \in Outputs
  PROVE  Readable(Event(type, s, p)) /\ Event(type, s, p).id = Len(state.log) + 1
<1>1. Len(state.log) + 1 \in Nat
  BY DEF StateType
<1> QED BY <1>1 DEF Readable, Event, KernelEvent

\* A publication keeps the states, live and saved, replayable.
LEMMA PublicationReplayed ==
  ASSUME RInv, NEW type, NEW s, NEW p, Publish(type, s, p), Readable(Event(type, s, p)),
         Event(type, s, p).id = Len(state.log) + 1
  PROVE  Replayed(state') /\ (checkpoint'.kind = "whole" => Replayed(checkpoint'.state))
<1>1. state' = ApplyEvent(state, Event(type, s, p))
      /\ checkpoint' \in {checkpoint, File(state'), TornFile}
  BY PublishEffect
<1>2. Replayed(state')
  BY <1>1, EventReplayed DEF RInv
<1> QED BY <1>1, <1>2 DEF RInv, File, TornFile

\* The status is not replayed: it is assigned without an event as well.
LEMMA StatusReplayed ==
  ASSUME NEW st, Replayed(st), NEW x \in ExecutionStatus
  PROVE  Replayed([st EXCEPT !.status = x])
<1> DEFINE new == [st EXCEPT !.status = x]
<1>1. new \in StateType /\ new.log = st.log /\ SameEntries(new, st)
  BY DEF Replayed, StateType, SameEntries
<1> HIDE DEF new
<1> QED BY <1>1 DEF Replayed, SameEntries, new

LEMMA EmptyReplayed == Replayed(EmptyState)
<1>1. EmptyState \in StateType /\ EmptyState.log = << >>
  BY DEF EmptyState, StateType, ExecutionStatus, StepStatus, Outputs
<1>2. Reconstruct(<< >>) = EmptyState
  BY ReconstructIsFold
<1>3. Replayable(<< >>)
  <2> DEFINE log == << >>
  <2>1. log \in Seq(KernelEvent) /\ Len(log) = 0 /\ \A k \in 0..0 : SubSeq(log, 1, k) = log
    OBVIOUS
  <2>2. Reconstruct(log) \in StateType /\ Reconstruct(log).log = log
    BY <1>1, <1>2
  <2> HIDE DEF log
  <2>3. \A k \in 0..Len(log) : SubSeq(log, 1, k) = log
    BY <2>1
  <2>4. \A i \in 1..Len(log) : log[i].id = i
    BY <2>1
  <2>5. Replayable(log)
    BY <2>1, <2>2, <2>3, <2>4 DEF Replayable
  <2> QED BY <2>5 DEF log
<1> QED BY <1>1, <1>2, <1>3 DEF Replayed, SameEntries

\* Where the publications of a wave go next.
LEMMA NextResultRange ==
  ASSUME RInv, NextResult
  PROVE  /\ wave' \in [StepIds -> Nat] /\ results' \in [StepIds -> ResultType]
         /\ pc' # "awaiting_approval" /\ (pc' = "publishing" => At' \in StepIds)
<1>1. wave' = [wave EXCEPT ![At] = 0] /\ results' = [results EXCEPT ![At] = NoTask]
  BY DEF NextResult
<1>2. wave' \in [StepIds -> Nat] /\ results' \in [StepIds -> ResultType]
  BY <1>1 DEF RInv, ResultType
<1>3. pc' # "awaiting_approval" /\ (pc' = "publishing" => cursor'.step \in StepIds)
  BY GoOn DEF NextResult
<1> QED BY <1>2, <1>3 DEF At

LEMMA StepActionsReplayed ==
  ASSUME RInv, PublishStepStarted \/ PublishStepCompleted \/ PublishStepFailed \/ Retry
  PROVE  RInv'
<1>0. /\ pc = "publishing" /\ At \in StepIds \cup {NoStep} /\ At \in StepIds
      /\ state \in StateType /\ wave[At] \in Nat /\ results[At] \in ResultType
      /\ execs' = execs
  BY DEF RInv, Replayed, observers,
         PublishStepStarted, PublishStepCompleted, PublishStepFailed, Retry
<1>1. CASE PublishStepStarted
  <2> DEFINE p == [attempt |-> wave[At]]
  <2>1. "STEP_STARTED" \in EventType /\ p \in Payload /\ p.attempt \in Nat
    BY <1>0 DEF EventType, Payload
  <2> HIDE DEF p
  <2>2. Readable(Event("STEP_STARTED", At, p)) /\ Event("STEP_STARTED", At, p).id = Len(state.log) + 1
    BY <1>0, <2>1, ReadableEvent
  <2>3. Replayed(state') /\ (checkpoint'.kind = "whole" => Replayed(checkpoint'.state))
    BY <1>1, <2>2, PublicationReplayed DEF PublishStepStarted, p
  <2> QED BY <1>0, <1>1, <2>3 DEF PublishStepStarted, RInv, At
<1>2. CASE PublishStepCompleted
  <2> DEFINE p == [output |-> results[At].output]
  <2>1. "STEP_COMPLETED" \in EventType /\ p \in Payload /\ p.output \in Outputs
    BY <1>0, <1>2 DEF EventType, Payload, PublishStepCompleted, ResultType, NoTask, Pending, Outputs
  <2> HIDE DEF p
  <2>2. /\ Readable(Event("STEP_COMPLETED", At, p))
        /\ Event("STEP_COMPLETED", At, p).id = Len(state.log) + 1
    BY <1>0, <2>1, ReadableEvent
  <2>3. Replayed(state') /\ (checkpoint'.kind = "whole" => Replayed(checkpoint'.state))
    BY <1>2, <2>2, PublicationReplayed DEF PublishStepCompleted, p
  <2> QED BY <1>0, <1>2, <2>3, NextResultRange DEF PublishStepCompleted, RInv
<1>3. CASE PublishStepFailed
  <2> DEFINE p == [failure |-> results[At].failure]
  <2>1. "STEP_FAILED" \in EventType /\ p \in Payload
    BY <1>0, <1>3 DEF EventType, Payload, PublishStepFailed, ResultType, NoTask, Pending
  <2> HIDE DEF p
  <2>2. Readable(Event("STEP_FAILED", At, p)) /\ Event("STEP_FAILED", At, p).id = Len(state.log) + 1
    BY <1>0, <2>1, ReadableEvent
  <2>3. Replayed(state') /\ (checkpoint'.kind = "whole" => Replayed(checkpoint'.state))
    BY <1>3, <2>2, PublicationReplayed DEF PublishStepFailed, p
  <2> QED BY <1>0, <1>3, <2>3 DEF PublishStepFailed, RInv, At
<1>4. CASE Retry
  <2>1. "STEP_RETRYING" \in EventType /\ EmptyPayload \in Payload
    BY DEF EventType, Payload
  <2>2. /\ Readable(Event("STEP_RETRYING", At, EmptyPayload))
        /\ Event("STEP_RETRYING", At, EmptyPayload).id = Len(state.log) + 1
    BY <1>0, <2>1, ReadableEvent
  <2>3. Replayed(state') /\ (checkpoint'.kind = "whole" => Replayed(checkpoint'.state))
    BY <1>4, <2>2, PublicationReplayed DEF Retry
  <2> QED BY <1>0, <1>4, <2>3, NextResultRange DEF Retry, RInv
<1> QED BY <1>1, <1>2, <1>3, <1>4

LEMMA RequestActionsReplayed ==
  ASSUME RInv,
         \/ PublishStarted \/ PublishAnswered \/ PublishCompleted \/ PublishLearningSignal
         \/ \E p \in Plans : PlanCreated(p)
  PROVE  RInv'
<1>0. state \in StateType /\ NoStep \in StepIds \cup {NoStep}
  BY DEF RInv, Replayed
<1>1. /\ wave' \in [StepIds -> Nat] /\ results' \in [StepIds -> ResultType] /\ execs' = execs
      /\ pc' \notin {"publishing", "awaiting_approval"}
  <2>1. CASE PublishStarted \/ PublishCompleted \/ \E p \in Plans : PlanCreated(p)
    BY <2>1 DEF RInv, PublishStarted, PublishCompleted, PlanCreated, dispatching, observers
  <2>2. CASE PublishAnswered \/ PublishLearningSignal
    <3>1. Return /\ execs' = execs
      BY <2>2 DEF PublishAnswered, PublishLearningSignal, observers
    <3> QED BY <3>1 DEF Return, DropWave, NoWave, NoResults, ResultType
  <2> QED BY <2>1, <2>2
<1>2. ASSUME NEW type \in {"EXECUTION_STARTED", "EXECUTION_COMPLETED", "LEARNING_SIGNAL"},
             Publish(type, NoStep, EmptyPayload)
      PROVE  RInv'
  <2>1. type \in EventType /\ EmptyPayload \in Payload
    BY DEF EventType, Payload
  <2>2. /\ Readable(Event(type, NoStep, EmptyPayload))
        /\ Event(type, NoStep, EmptyPayload).id = Len(state.log) + 1
    BY <1>0, <2>1, ReadableEvent
  <2>3. Replayed(state') /\ (checkpoint'.kind = "whole" => Replayed(checkpoint'.state))
    BY <1>2, <2>2, PublicationReplayed
  <2> QED BY <1>1, <2>3 DEF RInv
<1>3. ASSUME NEW p \in Plans, PlanCreated(p) PROVE RInv'
  <2> DEFINE q == [plan |-> p]
  <2>1. "PLAN_CREATED" \in EventType /\ q \in Payload /\ q.plan \in Plans
    BY DEF EventType, Payload
  <2> HIDE DEF q
  <2>2. /\ Readable(Event("PLAN_CREATED", NoStep, q))
        /\ Event("PLAN_CREATED", NoStep, q).id = Len(state.log) + 1
    BY <1>0, <2>1, ReadableEvent
  <2>3. Replayed(state') /\ (checkpoint'.kind = "whole" => Replayed(checkpoint'.state))
    BY <1>3, <2>2, PublicationReplayed DEF PlanCreated, q
  <2> QED BY <1>1, <2>3 DEF RInv
<1> QED BY <1>2, <1>3
        DEF PublishStarted, PublishAnswered, PublishCompleted, PublishLearningSignal

\* The actions that publish nothing.
LEMMA SilentActionsReplayed ==
  ASSUME RInv,
         \/ Run \/ PlanFails \/ NextWave \/ LoopEnds \/ GiveUp \/ Abort \/ Crash \/ CrashInSave
         \/ \E s \in StepIds : TaskSucceeds(s) \/ TaskFails(s)
         \/ Reentry
  PROVE  RInv'
<1>1. CASE Run \/ Crash \/ CrashInSave
  <2>1. /\ state' = EmptyState /\ checkpoint' \in {checkpoint, TornFile}
        /\ wave' \in [StepIds -> Nat] /\ results' \in [StepIds -> ResultType] /\ execs' = execs
        /\ pc' \notin {"publishing", "awaiting_approval"}
    BY <1>1 DEF RInv, Run, Crash, CrashInSave, DropWave, NoWave, NoResults, ResultType,
                dispatching, observers
  <2> QED BY <2>1, EmptyReplayed DEF RInv, TornFile
<1>2. CASE PlanFails \/ LoopEnds \/ Abort \/ GiveUp
  <2>1. /\ state' = state \/ state' = [state EXCEPT !.status = "ABORTED"]
        /\ checkpoint' = checkpoint /\ execs' = execs
    BY <1>2 DEF PlanFails, LoopEnds, Abort, GiveUp, observers
  <2>2. Replayed(state')
    BY <2>1, StatusReplayed DEF RInv, ExecutionStatus
  <2>3. /\ wave' \in [StepIds -> Nat] /\ results' \in [StepIds -> ResultType]
        /\ pc' # "awaiting_approval" /\ (pc' = "publishing" => At' \in StepIds)
    BY <1>2, NextResultRange DEF RInv, PlanFails, LoopEnds, Abort, GiveUp, Return, DropWave,
                NoWave, NoResults, ResultType, dispatching, At
  <2> QED BY <2>1, <2>2, <2>3 DEF RInv
<1>3. CASE NextWave
  <2>1. state.attempts \in [StepIds -> Nat]
    BY DEF RInv, Replayed, StateType
  <2>2. /\ wave' \in [StepIds -> Nat] /\ results' \in [StepIds -> ResultType]
        /\ execs' \in [StepIds -> Nat] /\ UNCHANGED <<state, checkpoint>> /\ pc' = "gathering"
    BY <1>3, <2>1 DEF RInv, NextWave, ResultType
  <2> QED BY <2>2 DEF RInv
<1>4. CASE \E s \in StepIds : TaskSucceeds(s) \/ TaskFails(s)
  <2>1. PICK s \in StepIds : TaskSucceeds(s) \/ TaskFails(s)
    BY <1>4
  <2>2. PICK o \in ResultType : TaskEnds(s, o)
    BY <2>1 DEF RInv, TaskSucceeds, TaskFails, Succeeded, FailedWith, ResultType
  <2>3. /\ UNCHANGED <<state, checkpoint, wave, execs>> /\ pc = "gathering"
        /\ results' \in [StepIds -> ResultType]
    BY <2>2 DEF RInv, TaskEnds, observers
  <2>4. pc' # "awaiting_approval" /\ (pc' = "publishing" => At' \in StepIds)
    BY <2>2, <2>3, GoOn DEF TaskEnds, At
  <2> QED BY <2>3, <2>4 DEF RInv
<1>5. CASE Reentry
  <2>1. PICK st : Reenter(st) /\ Replayed(st)
    <3>1. CASE Resume
      BY <3>1 DEF Resume, RInv
    <3>2. ASSUME checkpoint.kind = "whole", NEW k \in DOMAIN checkpoint.state.log, Replay(k)
          PROVE  \E st : Reenter(st) /\ Replayed(st)
      <4>1. Replayable(checkpoint.state.log)
        BY <3>2 DEF RInv, Replayed
      <4>2. k \in 1..Len(checkpoint.state.log)
        BY <3>2, <4>1 DEF Replayable
      <4> QED BY <3>2, <4>1, <4>2, PrefixReplayed DEF Replay
    <3> QED BY <1>5, <3>1, <3>2 DEF Reentry
  <2> QED BY <2>1 DEF Reenter, RInv, dispatching, observers
<1> QED BY <1>1, <1>2, <1>3, <1>4, <1>5

LEMMA NextRInv ==
  ASSUME ~HasApproval, RInv, [Next]_vars
  PROVE  RInv'
<1>1. CASE UNCHANGED vars
  BY <1>1 DEF vars, RInv, At
<1>2. ~Escalate /\ ~Human
  BY DEF RInv, Escalate, MayEscalate, Human, Approve, Reject, ApprovalRaises
<1> QED BY <1>1, <1>2, StepActionsReplayed, RequestActionsReplayed, SilentActionsReplayed
        DEF Next, Plan, Orchestrate

\* Without a human's approvals the log alone gives the steps, attempts and outputs
\* of the execution, live and on disk, through crashes, resumptions and replays of
\* any prefix (StateManager.reconstruct, apply_event as the only writer of a step).
THEOREM ReplayIsFaithful ==
  ASSUME ~HasApproval
  PROVE  Spec => []ReplayAgrees
<1>1. Init => RInv
  <2> SUFFICES ASSUME Init PROVE RInv
    OBVIOUS
  <2>1. Replayed(state) /\ checkpoint.kind # "whole"
    BY EmptyReplayed DEF Init, NoFile
  <2> QED BY <2>1 DEF Init, RInv, NoWave, NoResults, ResultType
<1>2. RInv /\ [Next]_vars => RInv'
  BY NextRInv
<1>3. RInv => ReplayAgrees
  BY DEF RInv, Replayed, SameEntries, ReplayAgrees, Snapshots
<1> QED BY <1>1, <1>2, <1>3, PTL DEF Spec
=============================================================================
