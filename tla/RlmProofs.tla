----------------------------- MODULE RlmProofs -----------------------------
(***************************************************************************)
(* Proofs about one query of the RLM orchestrator (Rlm.tla): its types, the *)
(* budget of sub-calls at every level and of the whole query, the account   *)
(* its result gives of the run, and that what it tells its observer is what *)
(* Progress.tla allows.                                                     *)
(*                                                                          *)
(* All follow from one inductive invariant, QueryInv: where the query is    *)
(* determines how many loops run and what each of them is doing (Shape),    *)
(* and every loop's counters agree with each other and with its records     *)
(* (SoundFrame, Recorded).                                                  *)
(***************************************************************************)
EXTENDS Rlm, SequenceTheorems, TLAPS

Places == {"start", "direct", "phase1", "phase2", "phase3", "phase4",
           "loop", "llm", "exec", "return", "closed"}
Early == {"start", "direct", "phase1", "phase2", "phase3", "phase4"}
Running == {"loop", "llm", "exec"}

Results == [kind : {"none", "bypassed", "answered", "exhausted", "error", "panic"},
            iterations : Nat, records : Seq(IterationRecord), subCalls : Nat]

-----------------------------------------------------------------------------
(* The inductive invariant.                                                *)

\* What a record says of the calls made in its iteration.
FaithfulRecord(r) == r.sub = IF r.err THEN 0 ELSE r.made
FaithfulRecords(records) == \A i \in DOMAIN records : FaithfulRecord(records[i])

\* The calls the executor has yet to be told of: those of a reduction.
Uncounted(f) == IF f.pc = "reduce" THEN f.chunks - f.todo ELSE 0

\* The three counts of a loop agree: the shared count, the executor's count,
\* and what the records and the current iteration say was made.
Counted(f) ==
  /\ f.sub0 <= f.ex.sub
  /\ f.ex.sub + Uncounted(f) <= f.total
  /\ f.total <= MaxSubCalls
  /\ f.todo <= f.chunks
  /\ f.pc = "wait" => f.total < MaxSubCalls
  /\ f.pc = "llm" => f.made = 0
  /\ f.pc \in {"exec", "reduce", "wait"} =>
       f.made = (f.ex.sub + Uncounted(f)) - f.sub0
  /\ MadeIn(f.records) \in Nat
  /\ f.total = MadeIn(f.records) + IF f.pc = "iterate" THEN 0 ELSE f.made
  /\ FaithfulRecords(f.records)

\* What a loop may report fits a burst, for it iterates within its limit.
Bounded(f) ==
  /\ f.iter <= f.limit
  /\ Len(f.records) + (IF f.pc = "iterate" THEN 0 ELSE 1) <= f.iter
  /\ f.nested = <<>> \/ Len(f.nested) + 7 <= MaxTools
  /\ f.pc \in {"reduce", "wait"} => f.batch # <<>>

SoundFrame(f) == f \in Frame /\ Counted(f) /\ Bounded(f)

\* An iteration that is over has its record.
Recorded(f) == Len(f.records) + (IF f.pc = "iterate" THEN 0 ELSE 1) = f.iter

RootFits(place, pc) ==
  \/ place = "loop" /\ pc = "iterate"
  \/ place = "llm" /\ pc = "llm"
  \/ place = "exec" /\ pc \in {"exec", "reduce"}

Nested(f) == f.pc # "wait" /\ ~f.delegate /\ f.limit \in NestedLimits

\* Where the query is, and the loops that run there.
Shape ==
  /\ at \in Places
  /\ at \in Early => stack = <<>>
  /\ at \in Running \union {"return"} => stack # <<>>
  /\ Len(stack) <= 2
  /\ stack # <<>> => stack[1].limit = MaxIterations
  /\ Len(stack) = 1 /\ at \in Running => RootFits(at, stack[1].pc)
  /\ Len(stack) = 2 => /\ at \in {"exec", "closed"}
                       /\ stack[1].pc = "wait" /\ Nested(stack[2])

Frames ==
  /\ stack \in Seq(Frame)
  /\ \A i \in DOMAIN stack : SoundFrame(stack[i])
  /\ at # "closed" => \A i \in DOMAIN stack : Recorded(stack[i])

\* The sub-providers' answers, by the counts of the levels that asked them.
Work ==
  /\ subs \in Nat
  /\ stack = <<>> => subs = 0
  /\ stack # <<>> =>
       subs <= stack[1].total * MaxSubCalls
                 + IF Len(stack) = 2 THEN stack[2].total ELSE 0

Phases ==
  /\ phased \in 0..2
  /\ at \in {"start", "direct", "phase1"} => phased = 0
  /\ at \in {"phase2", "phase3"} => phased = 1

Accounts(r, extra) ==
  /\ Len(r.records) = r.iterations
  /\ MadeIn(r.records) \in Nat
  /\ r.subCalls = MadeIn(r.records) + extra
  /\ FaithfulRecords(r.records)

Ending ==
  /\ result \in Results
  /\ (at \in {"return", "closed"}) <=> (result.kind # "none")
  /\ at = "return" => /\ result.kind \in {"answered", "exhausted"}
                      /\ Accounts(result, 0)
  /\ at = "closed" /\ result.kind \in {"answered", "exhausted"} =>
       Accounts(result, phased)

Config == config \in [size : {"small", "normal", "large"}, force : BOOLEAN,
                      installed : SUBSET Installable]

QueryInv == Config /\ Shape /\ Frames /\ Work /\ Phases /\ Ending

-----------------------------------------------------------------------------
(* The operators of the model.                                             *)

Fold == INSTANCE LeftFold WITH Op <- AddMade, Base <- 0

\* No calls are made in no iterations.
LEMMA MadeInNothing == MadeIn(<<>>) = 0
<1>1. \A records : Fold!Folded(records) = MadeIn(records)
  BY Zenon DEF Fold!Folded, Fold!FoldLeft, Fold!MapThenFoldSet, Fold!Max,
               MadeIn, FoldLeft, MapThenFoldSet, Max
<1> QED BY <1>1, Fold!FoldedEmpty, Zenon

\* One more iteration adds the calls made in it.
LEMMA MadeInAppend ==
  ASSUME NEW records \in Seq(IterationRecord), NEW r \in IterationRecord
  PROVE  MadeIn(Append(records, r)) = MadeIn(records) + r.made
<1>1. \A s : Fold!Folded(s) = MadeIn(s)
  BY Zenon DEF Fold!Folded, Fold!FoldLeft, Fold!MapThenFoldSet, Fold!Max,
               MadeIn, FoldLeft, MapThenFoldSet, Max
<1>2. Fold!Folded(Append(records, r)) = AddMade(Fold!Folded(records), r)
  BY Fold!FoldedAppend, Zenon
<1> QED BY <1>1, <1>2, Zenon DEF AddMade

\* Storing a result gives the executor a name at most.
LEMMA StoreResultTyped ==
  ASSUME NEW ex \in Executor, NEW name \in STRING
  PROVE  StoreResult(ex, name) \in Executor /\ StoreResult(ex, name).sub = ex.sub
BY DEF StoreResult, Executor

\* Calls to a model are counted.
LEMMA AskedTyped ==
  ASSUME NEW ex \in Executor, NEW name \in STRING, NEW calls \in Nat
  PROVE  Asked(ex, name, calls) \in Executor /\ Asked(ex, name, calls).sub = ex.sub + calls
<1> DEFINE e == StoreResult(ex, name)
<1>1. e \in Executor /\ e.sub = ex.sub /\ ex.sub \in Nat
  BY StoreResultTyped DEF Executor
<1>2. Asked(ex, name, calls) = [e EXCEPT !.sub = e.sub + calls]
  BY DEF Asked
<1> HIDE DEF e
<1>3. e.sub + calls \in Nat
  BY <1>1
<1> QED BY <1>1, <1>2, <1>3 DEF Executor

\* Stages of a tool change the counters of the executor and nothing else.
LEMMA AfterTyped ==
  ASSUME NEW ex \in Executor, NEW op, NEW k, NEW e \in After(ex, op, k)
  PROVE  e \in Executor /\ e.sub = ex.sub
<1>1. PICK timing \in [Tools -> Nat] : e = [ex EXCEPT !.timing = timing]
  BY DurationsAssumption DEF After, Executor
<1> QED BY <1>1 DEF Executor

\* A command that asks no model leaves the count of sub-calls alone.
LEMMA LocalOutcomes ==
  ASSUME NEW ex \in Executor, NEW cmd \in Command, cmd.op \in LocalOps,
         NEW o \in Outcomes(ex, cmd)
  PROVE  /\ o.ex \in Executor /\ o.ex.sub = ex.sub
         /\ o.kind \in {"continue", "error", "final", "panic"}
<1> DEFINE Fine(p) == /\ p.ex \in Executor /\ p.ex.sub = ex.sub
                      /\ p.kind \in {"continue", "error", "final", "panic"}
<1> cmd.op \in STRING /\ cmd.store \in STRING
  BY DEF Command
<1>1. \A e \in Executor : e.sub = ex.sub =>
        /\ Fine(Outcome("error", e)) /\ Fine(Outcome("panic", e))
        /\ Fine(Outcome("final", e)) /\ Fine(Outcome("continue", e))
        /\ Fine(Outcome("continue", StoreResult(e, cmd.store)))
  BY StoreResultTyped DEF Outcome
<1>2. ASSUME cmd.op \in TextOps PROVE Fine(o)
  <2>1. cmd.op \notin PlainOps /\ cmd.op \notin ToolOps
    BY <1>2 DEF PlainOps, TextOps, ContextOps, SourceOps, ToolOps
  <2>2. o \in TextCommand(ex, cmd)
    BY <1>2, <2>1 DEF Outcomes
  <2> QED BY <2>2, <1>1 DEF TextCommand
<1>3. ASSUME cmd.op \in PlainOps PROVE Fine(o)
  <2>1. cmd.op \notin TextOps /\ cmd.op \notin ToolOps
    BY <1>3 DEF PlainOps, TextOps, ContextOps, SourceOps, ToolOps
  <2>2. o \in PlainCommand(ex, cmd)
    BY <1>3, <2>1 DEF Outcomes
  <2>3. cmd.op = "get" \/ cmd.op = "set" \/ cmd.op = "final" \/ cmd.op = "bad"
    BY <1>3 DEF PlainOps
  <2>4. \/ o = Outcome("continue", ex) \/ o = Outcome("final", ex)
        \/ o = Outcome("continue", StoreResult(ex, cmd.store))
        \/ o = Outcome("error", ex)
    BY <2>2, <2>3 DEF PlainCommand
  <2> QED BY <2>4, <1>1
<1>4. ASSUME cmd.op \in ToolOps PROVE Fine(o)
  <2>1. cmd.op \notin TextOps /\ cmd.op \notin PlainOps
    BY <1>4 DEF PlainOps, TextOps, ContextOps, SourceOps, ToolOps
  <2>2. o \in ToolCommand(ex, cmd)
    BY <1>4, <2>1 DEF Outcomes
  <2>3. \E e, k : /\ e \in After(ex, cmd.op, k)
                  /\ o \in {Outcome("error", e), Outcome("continue", StoreResult(e, cmd.store))}
    BY <2>2 DEF ToolCommand
  <2> QED BY <2>3, <1>1, AfterTyped
<1> QED BY <1>2, <1>3, <1>4 DEF LocalOps

-----------------------------------------------------------------------------
(* The stack of loops.                                                     *)

\* Where there are b calls of weight m, one call for each of b - a more fits.
LEMMA Weighted ==
  ASSUME NEW a \in Nat, NEW b \in Nat, NEW m \in Nat, a <= b, b <= m
  PROVE  a * m + (b - a) <= b * m
<1>1. PICK d \in Nat : b = a + d
  <2>1. b - a \in Nat /\ b = a + (b - a)
    OBVIOUS
  <2> QED BY <2>1
<1>2. (a + d) * m = a * m + d * m
  OBVIOUS
<1>3. d <= d * m
  BY <1>1
<1> QED BY <1>1, <1>2, <1>3

\* A function over 1..n is a sequence of length n.
LEMMA FunctionIsSeq ==
  ASSUME NEW S, NEW n \in Nat, NEW f \in [1..n -> S]
  PROVE  f \in Seq(S) /\ Len(f) = n
OBVIOUS

\* A short sequence that is not empty.
LEMMA UpToTwo == \A n \in Nat : n # 0 /\ n <= 2 => n = 1 \/ n = 2
OBVIOUS

LEMMA OneOrTwo ==
  ASSUME NEW S, NEW s \in Seq(S), Len(s) <= 2
  PROVE  s # <<>> <=> Len(s) = 1 \/ Len(s) = 2
<1>1. ASSUME s # <<>> PROVE Len(s) = 1 \/ Len(s) = 2
  <2>1. Len(s) \in Nat /\ Len(s) # 0
    BY <1>1, EmptySeq
  <2> QED BY <2>1, UpToTwo
<1>2. ASSUME Len(s) = 1 \/ Len(s) = 2 PROVE s # <<>>
  BY <1>2, EmptySeq
<1> QED BY <1>1, <1>2

\* A stack whose top is replaced.
LEMMA TopReplaced ==
  ASSUME NEW f \in Frame, stack \in Seq(Frame), stack # <<>>, SetTop(f)
  PROVE  /\ stack' \in Seq(Frame) /\ Len(stack') = Len(stack)
         /\ stack' # <<>> /\ DOMAIN stack' = DOMAIN stack
         /\ stack'[Len(stack)] = f
         /\ \A i \in DOMAIN stack : i # Len(stack) => stack'[i] = stack[i]
<1>1. /\ Len(stack) \in 1..Len(stack) /\ Len(stack) \in Nat \ {0}
      /\ DOMAIN stack = 1..Len(stack)
  BY EmptySeq, LenProperties
<1>2. stack' = [stack EXCEPT ![Len(stack)] = f]
  BY DEF SetTop
<1>3. /\ stack' \in Seq(Frame) /\ Len(stack') = Len(stack)
      /\ \A j \in 1..Len(stack) : stack'[j] = IF j = Len(stack) THEN f ELSE stack[j]
  BY <1>1, <1>2, ExceptSeq, ZenonT(30)
<1>4. DOMAIN stack' = 1..Len(stack) /\ stack' # <<>>
  BY <1>1, <1>3, LenProperties, EmptySeq
<1> QED BY <1>1, <1>3, <1>4

\* The shapes of a running query: the root alone, or one nested loop above a
\* root that waits for it.
LEMMA RunningShape ==
  ASSUME QueryInv, at \in Running
  PROVE  /\ Len(stack) = 1 \/ Len(stack) = 2
         /\ Len(stack) <= 2 /\ stack # <<>> /\ stack \in Seq(Frame)
         /\ SoundFrame(Top) /\ Recorded(Top)
         /\ IsRoot => Top = stack[1] /\ RootFits(at, Top.pc) /\ Top.limit = MaxIterations
         /\ ~IsRoot => /\ at = "exec" /\ Nested(Top)
                       /\ Parent = stack[1] /\ Parent.pc = "wait"
                       /\ SoundFrame(Parent) /\ Recorded(Parent)
                       /\ Parent.limit = MaxIterations
<1>1. /\ Len(stack) = 1 \/ Len(stack) = 2
      /\ Len(stack) <= 2 /\ stack # <<>> /\ stack \in Seq(Frame)
  <2>1. stack # <<>> /\ Len(stack) <= 2
    BY DEF QueryInv, Shape, Running
  <2>2. stack \in Seq(Frame)
    BY DEF QueryInv, Frames
  <2> QED BY <2>1, <2>2, OneOrTwo
<1>2. Len(stack) \in DOMAIN stack /\ 1 \in DOMAIN stack
  BY <1>1
<1>3. at # "closed"
  BY DEF Running
<1> QED BY <1>1, <1>2, <1>3 DEF QueryInv, Shape, Frames, IsRoot, Top, Parent

\* The running loop goes on: what holds of its frame holds of the stack.
LEMMA TopChanges ==
  ASSUME QueryInv, at \in Running,
         NEW f, SoundFrame(f), Recorded(f), SetTop(f),
         f.limit = Top.limit, f.delegate = Top.delegate,
         IsRoot => RootFits(at', f.pc) \/ at' = "return",
         ~IsRoot => at' = at /\ f.pc # "wait",
         Top.total <= f.total,
         subs' \in Nat, subs' <= subs + (f.total - Top.total)
  PROVE  Shape' /\ Frames' /\ Work'
<1>1. /\ Len(stack) = 1 \/ Len(stack) = 2
      /\ stack # <<>> /\ stack \in Seq(Frame) /\ f \in Frame
      /\ at # "closed"
  BY RunningShape DEF SoundFrame, Running
<1>2. /\ stack' \in Seq(Frame) /\ Len(stack') = Len(stack) /\ stack' # <<>>
      /\ DOMAIN stack' = DOMAIN stack
      /\ stack'[Len(stack)] = f
      /\ \A i \in DOMAIN stack : i # Len(stack) => stack'[i] = stack[i]
  BY <1>1, TopReplaced
<1>3. Frames'
  BY <1>1, <1>2 DEF QueryInv, Frames
<1>4. Shape'
  <2>1. CASE IsRoot
    BY <1>1, <1>2, <2>1, RunningShape DEF Shape, RootFits, Running, Places, Early, IsRoot
  <2>2. CASE ~IsRoot
    BY <1>1, <1>2, <2>2, RunningShape DEF QueryInv, Shape, Nested, Running, Places, Early,
       IsRoot, Top
  <2> QED BY <2>1, <2>2
<1>5. Work'
  <2>1. /\ f.total \in Nat /\ Top.total \in Nat /\ MaxSubCalls \in Nat /\ subs \in Nat
        /\ f.total <= MaxSubCalls /\ stack[1].total \in Nat
    BY <1>1, RunningShape, LimitsAssumption DEF SoundFrame, Frame, Counted, QueryInv, Work
  <2>2. CASE IsRoot
    <3>1. subs <= Top.total * MaxSubCalls
      <4>1. Len(stack) = 1 /\ stack # <<>> /\ Top = stack[1]
        BY <2>2, <1>1, RunningShape DEF IsRoot
      <4>2. subs <= stack[1].total * MaxSubCalls + 0
        BY <4>1 DEF QueryInv, Work
      <4>3. Top.total * MaxSubCalls \in Nat
        BY <2>1
      <4> QED BY <4>1, <4>2, <4>3
    <3>2. Top.total * MaxSubCalls + (f.total - Top.total) <= f.total * MaxSubCalls
      BY <2>1, Weighted
    <3>3. /\ Top.total * MaxSubCalls \in Nat /\ f.total * MaxSubCalls \in Nat
      BY <2>1
    <3>4. subs' <= f.total * MaxSubCalls
      BY <2>1, <3>1, <3>2, <3>3
    <3> QED BY <1>2, <2>2, <3>3, <3>4 DEF Work, IsRoot
  <2>3. CASE ~IsRoot
    <3>1. Len(stack) = 2 /\ Top = stack[2]
      BY <1>1, <2>3 DEF IsRoot, Top
    <3>2. subs <= stack[1].total * MaxSubCalls + Top.total
      BY <1>1, <3>1 DEF QueryInv, Work
    <3>3. stack[1].total * MaxSubCalls \in Nat
      BY <2>1
    <3>4. subs' <= stack[1].total * MaxSubCalls + f.total
      BY <2>1, <3>2, <3>3
    <3>5. stack'[1] = stack[1] /\ stack'[2] = f
      BY <1>1, <1>2, <3>1
    <3> QED BY <1>2, <3>1, <3>3, <3>4, <3>5 DEF Work
  <2> QED BY <2>2, <2>3
<1> QED BY <1>3, <1>4, <1>5

\* A nested query ends: the frame of the root goes on, one call richer.
LEMMA LoopEnds ==
  ASSUME QueryInv, at \in Running, ~IsRoot,
         NEW f, SoundFrame(f), Recorded(f), Pop(f),
         f.limit = Parent.limit, f.total = Parent.total + 1,
         RootFits(at', f.pc), UNCHANGED subs
  PROVE  Shape' /\ Frames' /\ Work'
<1>1. /\ Len(stack) = 2 /\ stack \in Seq(Frame) /\ f \in Frame /\ Parent = stack[1]
  BY RunningShape DEF SoundFrame, IsRoot
<1>2. stack' = <<f>>
  BY <1>1 DEF Pop
<1>3. stack' \in Seq(Frame) /\ Len(stack') = 1 /\ stack'[1] = f /\ stack' # <<>>
      /\ DOMAIN stack' = {1}
  BY <1>1, <1>2
<1>4. Frames'
  BY <1>3 DEF Frames
<1>5. Shape'
  BY <1>3, RunningShape DEF Shape, RootFits, Places, Early, Running
<1>6. Work'
  <2>1. /\ Parent.total \in Nat /\ Top.total \in Nat /\ MaxSubCalls \in Nat /\ subs \in Nat
        /\ Top.total <= MaxSubCalls /\ Top = stack[2]
    BY <1>1, RunningShape, LimitsAssumption DEF SoundFrame, Frame, Counted, QueryInv, Work, Top
  <2>2. subs <= Parent.total * MaxSubCalls + Top.total
    BY <1>1, <2>1 DEF QueryInv, Work
  <2>3. (Parent.total + 1) * MaxSubCalls = Parent.total * MaxSubCalls + MaxSubCalls
    BY <2>1
  <2>4. Parent.total * MaxSubCalls \in Nat
    BY <2>1
  <2>5. subs <= f.total * MaxSubCalls /\ f.total * MaxSubCalls \in Nat
    BY <2>1, <2>2, <2>3, <2>4
  <2> QED BY <1>3, <2>1, <2>5 DEF Work
<1> QED BY <1>4, <1>5, <1>6

-----------------------------------------------------------------------------
(* The frame of a loop, operation by operation.                            *)

\* A loop in the middle of an iteration, ready to record it.
Ready(f) ==
  /\ f \in Frame /\ f.pc # "iterate"
  /\ f.sub0 <= f.ex.sub /\ f.ex.sub <= f.total /\ f.total <= MaxSubCalls
  /\ f.todo <= f.chunks
  /\ MadeIn(f.records) \in Nat /\ f.total = MadeIn(f.records) + f.made
  /\ FaithfulRecords(f.records)
  /\ f.iter <= f.limit
  /\ f.nested = <<>> \/ Len(f.nested) + 7 <= MaxTools
  /\ Recorded(f)

LEMMA FrameTyped ==
  ASSUME NEW f \in Frame
  PROVE  /\ f.depth \in Nat /\ f.limit \in Nat /\ f.delegate \in BOOLEAN
         /\ f.pc \in {"iterate", "llm", "exec", "reduce", "wait"}
         /\ f.iter \in Nat /\ f.total \in Nat /\ f.ex \in Executor /\ f.ex.sub \in Nat
         /\ f.sub0 \in Nat /\ f.batch \in Seq(Command) /\ f.ops \in SUBSET STRING
         /\ f.todo \in Nat /\ f.chunks \in Nat /\ f.made \in Nat
         /\ f.nested \in Seq(BOOLEAN) /\ f.records \in Seq(IterationRecord)
         /\ Len(f.records) \in Nat
BY LenProperties DEF Frame, Executor

LEMMA SoundIsReady ==
  ASSUME NEW f, SoundFrame(f), Recorded(f), f.pc # "iterate"
  PROVE  Ready(f)
BY FrameTyped DEF SoundFrame, Counted, Uncounted, Bounded, Ready

\* The frame that waits, once its nested query has been counted.
LEMMA CountedIsReady ==
  ASSUME NEW f, SoundFrame(f), Recorded(f), f.pc = "wait",
         NEW g, g = [f EXCEPT !.total = @ + 1, !.made = @ + 1]
  PROVE  /\ Ready(g) /\ g.limit = f.limit /\ g.total = f.total + 1
         /\ g.iter = f.iter /\ g.nested = f.nested
<1>1. f \in Frame /\ f.total < MaxSubCalls /\ MaxSubCalls \in Nat
  BY LimitsAssumption DEF SoundFrame, Counted
<1>2. g \in Frame
  <2>1. f.total + 1 \in Nat /\ f.made + 1 \in Nat
    BY <1>1, FrameTyped
  <2>2. g = [f EXCEPT !.total = f.total + 1, !.made = f.made + 1]
    OBVIOUS
  <2> QED BY <1>1, <2>1, <2>2 DEF Frame
<1>3. /\ g.pc = f.pc /\ g.sub0 = f.sub0 /\ g.ex = f.ex /\ g.todo = f.todo
      /\ g.chunks = f.chunks /\ g.records = f.records /\ g.iter = f.iter
      /\ g.limit = f.limit /\ g.nested = f.nested
      /\ g.total = f.total + 1 /\ g.made = f.made + 1
  BY <1>1 DEF Frame
<1>4. /\ f.sub0 \in Nat /\ f.ex.sub \in Nat /\ f.total \in Nat /\ f.made \in Nat
  BY <1>1, FrameTyped
<1>5. Ready(f)
  BY SoundIsReady
<1>6. Recorded(g)
  BY <1>3 DEF Recorded
<1>7. /\ MadeIn(f.records) \in Nat /\ f.total + 1 = MadeIn(f.records) + (f.made + 1)
      /\ f.ex.sub <= f.total + 1 /\ f.total + 1 <= MaxSubCalls
  BY <1>1, <1>4, <1>5 DEF Ready
<1> QED BY <1>2, <1>3, <1>5, <1>6, <1>7 DEF Ready

\* A record is made of the iteration, and the loop is sound again.
LEMMA RecordSound ==
  ASSUME NEW f, Ready(f), NEW err \in BOOLEAN, NEW sub \in Nat,
         sub = IF err THEN 0 ELSE f.made,
         NEW g, g = Record(f, err, sub)
  PROVE  /\ SoundFrame(g) /\ Recorded(g)
         /\ g.pc = "iterate" /\ g.limit = f.limit /\ g.delegate = f.delegate
         /\ g.total = f.total /\ g.iter = f.iter
         /\ Len(g.records) = g.iter /\ g.total = MadeIn(g.records)
<1> DEFINE r == [err |-> err, sub |-> sub, made |-> f.made]
<1>1. f \in Frame /\ r \in IterationRecord
  BY FrameTyped DEF Ready, IterationRecord
<1>2. /\ g = [f EXCEPT !.records = Append(f.records, r), !.pc = "iterate"]
  BY DEF Record
<1>3. /\ Append(f.records, r) \in Seq(IterationRecord)
      /\ Len(Append(f.records, r)) = Len(f.records) + 1
      /\ \A i \in 1..Len(f.records) : Append(f.records, r)[i] = f.records[i]
      /\ Append(f.records, r)[Len(f.records) + 1] = r
      /\ f.records \in Seq(IterationRecord)
  BY <1>1, FrameTyped, AppendProperties
<1>4. FaithfulRecord(r)
  BY DEF FaithfulRecord
<1>5. FaithfulRecords(Append(f.records, r))
  <2> SUFFICES ASSUME NEW i \in DOMAIN Append(f.records, r)
               PROVE  FaithfulRecord(Append(f.records, r)[i])
    BY DEF FaithfulRecords
  <2>1. i \in 1..(Len(f.records) + 1)
    BY <1>3, LenProperties
  <2>2. CASE i \in 1..Len(f.records)
    <3>1. FaithfulRecord(f.records[i])
      BY <1>3, <2>2, LenProperties DEF Ready, FaithfulRecords
    <3> QED BY <1>3, <2>2, <3>1
  <2>3. CASE i = Len(f.records) + 1
    BY <1>3, <1>4, <2>3
  <2>4. Len(f.records) \in Nat
    BY <1>3, LenProperties
  <2> QED BY <2>1, <2>2, <2>3, <2>4
<1>6. MadeIn(Append(f.records, r)) = MadeIn(f.records) + f.made
  BY <1>1, <1>3, MadeInAppend
<1> HIDE DEF r
<1>7. /\ g \in Frame /\ g.pc = "iterate" /\ g.records = Append(f.records, r)
      /\ g.limit = f.limit /\ g.delegate = f.delegate /\ g.total = f.total
      /\ g.iter = f.iter /\ g.sub0 = f.sub0 /\ g.ex = f.ex /\ g.todo = f.todo
      /\ g.chunks = f.chunks /\ g.nested = f.nested /\ g.made = f.made
  BY <1>1, <1>2, <1>3, ZenonT(30) DEF Frame
<1>8. /\ f.sub0 \in Nat /\ f.ex.sub \in Nat /\ f.total \in Nat /\ f.made \in Nat
      /\ Len(f.records) \in Nat /\ f.iter \in Nat
  BY <1>1, FrameTyped
<1>9. /\ MadeIn(f.records) \in Nat /\ MadeIn(g.records) = MadeIn(f.records) + f.made
      /\ FaithfulRecords(g.records) /\ f.total = MadeIn(f.records) + f.made
  BY <1>5, <1>6, <1>7 DEF Ready
<1>10. Counted(g)
  BY <1>7, <1>8, <1>9 DEF Counted, Uncounted, Ready
<1>11. Len(g.records) = Len(f.records) + 1 /\ f.iter = Len(f.records) + 1
  BY <1>3, <1>7, <1>8 DEF Ready, Recorded
<1>12. Bounded(g) /\ Recorded(g)
  BY <1>7, <1>8, <1>11 DEF Bounded, Ready, Recorded
<1> QED BY <1>7, <1>8, <1>9, <1>10, <1>11, <1>12 DEF SoundFrame

\* An iteration goes on: d more calls are made, counted by the shared count
\* and, now or when its reduction ends, by the executor.
LEMMA Continued ==
  ASSUME NEW f, SoundFrame(f), Recorded(f), f.pc \in {"exec", "reduce", "wait"},
         NEW g \in Frame, g.pc \in {"exec", "reduce", "wait"},
         g.records = f.records, g.iter = f.iter, g.limit = f.limit, g.sub0 = f.sub0,
         NEW d \in Nat, g.total = f.total + d, g.made = f.made + d,
         g.ex.sub + Uncounted(g) = f.ex.sub + Uncounted(f) + d,
         f.ex.sub <= g.ex.sub, g.total <= MaxSubCalls, g.todo <= g.chunks,
         g.pc = "wait" => g.total < MaxSubCalls,
         g.pc \in {"reduce", "wait"} => g.batch # <<>>,
         g.nested = f.nested \/ g.nested = <<>> \/ Len(g.nested) + 7 <= MaxTools
  PROVE  SoundFrame(g) /\ Recorded(g)
<1>1. /\ f \in Frame /\ f.sub0 \in Nat /\ f.ex.sub \in Nat /\ f.total \in Nat
      /\ f.made \in Nat /\ f.todo \in Nat /\ f.chunks \in Nat
  BY FrameTyped DEF SoundFrame
<1>2. Uncounted(f) \in Nat /\ Uncounted(g) \in Nat /\ g.ex.sub \in Nat
  <2>1. f.todo <= f.chunks /\ g.todo \in Nat /\ g.chunks \in Nat /\ g.ex.sub \in Nat
    BY FrameTyped DEF SoundFrame, Counted
  <2> QED BY <1>1, <2>1, SMTT(30) DEF Uncounted
<1>3. Ready(f)
  BY SoundIsReady
<1>4. f.ex.sub + Uncounted(f) <= f.total
  BY DEF SoundFrame, Counted
<1>5. f.made = (f.ex.sub + Uncounted(f)) - f.sub0
  BY DEF SoundFrame, Counted
<1>6. f.sub0 <= f.ex.sub
  BY DEF SoundFrame, Counted
<1> DEFINE u == f.ex.sub + Uncounted(f)
           v == g.ex.sub + Uncounted(g)
<1>0. u \in Nat /\ v = u + d
  BY <1>1, <1>2, SMTT(30)
<1> HIDE DEF u, v
<1>7. v <= g.total
  BY <1>1, <1>4, <1>0 DEF u
<1>8. g.made = v - g.sub0
  <2>1. f.made = u - f.sub0
    BY <1>5 DEF u
  <2>2. (u - f.sub0) + d = (u + d) - f.sub0
    BY <1>1, <1>0
  <2> QED BY <2>1, <2>2, <1>0
<1>9. g.sub0 <= g.ex.sub
  BY <1>1, <1>2, <1>6, SMTT(30)
<1>10. /\ MadeIn(g.records) \in Nat /\ g.total = MadeIn(g.records) + g.made
       /\ FaithfulRecords(g.records)
  BY <1>1, <1>3 DEF Ready
<1>11. Counted(g)
  <2>1. g.total = MadeIn(g.records) + IF g.pc = "iterate" THEN 0 ELSE g.made
    BY <1>10
  <2>2. g.made = (g.ex.sub + Uncounted(g)) - g.sub0
    BY <1>8 DEF v
  <2>3. g.ex.sub + Uncounted(g) <= g.total
    BY <1>7 DEF v
  <2>4. g.pc = "llm" => g.made = 0
    OBVIOUS
  <2> QED BY <1>9, <1>10, <2>1, <2>2, <2>3, <2>4 DEF Counted
<1>12. /\ Len(g.records) + 1 = g.iter /\ g.iter <= g.limit /\ g.iter \in Nat
       /\ g.nested = <<>> \/ Len(g.nested) + 7 <= MaxTools
  <2>1. g.iter <= g.limit /\ g.iter \in Nat
    BY <1>3, FrameTyped DEF Ready
  <2>2. Len(g.records) + 1 = g.iter
    BY DEF Recorded
  <2>3. f.nested = <<>> \/ Len(f.nested) + 7 <= MaxTools
    BY <1>3 DEF Ready
  <2> QED BY <2>1, <2>2, <2>3
<1>13. Bounded(g) /\ Recorded(g)
  <2>1. g.pc # "iterate"
    OBVIOUS
  <2>2. Recorded(g)
    BY <1>12, <2>1 DEF Recorded
  <2>3. Len(g.records) + 1 <= g.iter
    BY <1>12
  <2> QED BY <1>12, <2>1, <2>2, <2>3 DEF Bounded
<1> QED BY <1>11, <1>13 DEF SoundFrame

-----------------------------------------------------------------------------
(* What several actions share.                                             *)

\* The query goes on.
LEMMA GoesOn ==
  ASSUME QueryInv, at \in Running, at' \in Running, Shape', Frames', Work',
         UNCHANGED <<config, result, phased>>
  PROVE  QueryInv'
<1>1. Config'
  BY DEF QueryInv, Config
<1>2. Phases'
  BY DEF QueryInv, Phases, Running
<1>3. Ending'
  BY DEF QueryInv, Ending, Running
<1> QED BY <1>1, <1>2, <1>3 DEF QueryInv

\* The query fails: its loops are left as they are.
LEMMA Fails ==
  ASSUME QueryInv, at # "closed", NEW kind \in {"error", "panic"},
         Close(Failure(kind)), UNCHANGED <<config, stack, phased, subs>>
  PROVE  QueryInv'
<1>1. at' = "closed" /\ result' = Failure(kind)
  BY DEF Close
<1>2. Config' /\ Phases' /\ Work'
  BY <1>1 DEF QueryInv, Config, Phases, Work
<1>3. Shape'
  BY <1>1 DEF QueryInv, Shape, Places, Early, Running, Nested
<1>4. Frames'
  BY <1>1 DEF QueryInv, Frames
<1>5. Ending'
  <2>1. /\ Failure(kind) \in Results /\ Failure(kind).kind = kind
    BY EmptySeq DEF Failure, Results
  <2> QED BY <1>1, <2>1 DEF Ending
<1> QED BY <1>2, <1>3, <1>4, <1>5 DEF QueryInv

\* The loop on top goes on in the middle of its batch or of its iteration.
LEMMA TopGoesOn ==
  ASSUME QueryInv, at \in Running,
         NEW f, SoundFrame(f), Recorded(f), SetTop(f),
         f.limit = Top.limit, f.delegate = Top.delegate,
         IsRoot => RootFits(at', f.pc),
         ~IsRoot => at' = at /\ f.pc # "wait",
         Top.total <= f.total,
         subs' \in Nat, subs' <= subs + (f.total - Top.total),
         UNCHANGED <<config, result, phased>>
  PROVE  QueryInv'
<1>1. Shape' /\ Frames' /\ Work'
  BY TopChanges
<1>2. at' \in Running
  BY DEF RootFits, Running
<1> QED BY <1>1, <1>2, GoesOn

LEMMA BatchEndsInv ==
  ASSUME QueryInv, at \in Running, NEW f, Ready(f), NEW err \in BOOLEAN,
         ~err => f.made = f.ex.sub - f.sub0,
         f.limit = Top.limit, f.delegate = Top.delegate, f.total = Top.total,
         BatchEnds(f, err), UNCHANGED subs
  PROVE  QueryInv'
<1> DEFINE sub == IF err THEN 0 ELSE f.ex.sub - f.sub0
           g == Record(f, err, sub)
<1>1. sub \in Nat /\ sub = IF err THEN 0 ELSE f.made
  BY FrameTyped DEF Ready
<1>2. /\ SoundFrame(g) /\ Recorded(g) /\ g.pc = "iterate" /\ g.limit = f.limit
      /\ g.delegate = f.delegate /\ g.total = f.total
  <2> HIDE DEF sub
  <2> QED BY <1>1, RecordSound
<1>3. SetTop(g) /\ at' = (IF IsRoot THEN "loop" ELSE at)
      /\ UNCHANGED <<config, result, phased>>
  BY DEF BatchEnds, Go
<1>4. f.total \in Nat /\ subs \in Nat
  BY FrameTyped DEF Ready, QueryInv, Work
<1> HIDE DEF g
<1>5. IsRoot => RootFits(at', g.pc)
  BY <1>2, <1>3 DEF RootFits
<1> QED BY <1>2, <1>3, <1>4, <1>5, TopGoesOn

\* The command that delegated ends in the frame below.
LEMMA NestedReturnsInv ==
  ASSUME QueryInv, at \in Running, ~IsRoot,
         NEW records \in Seq(IterationRecord),
         records = <<>> \/ Len(records) + 7 <= MaxTools,
         NestedReturns(records)
  PROVE  QueryInv'
<1> DEFINE f == Parent
           c == [f EXCEPT !.total = @ + 1, !.made = @ + 1]
           g == Resumed(c, records)
           ex == Asked(f.ex, Head(f.batch).store, 1)
           nested == [i \in DOMAIN records |-> records[i].err]
<1>1. /\ SoundFrame(f) /\ Recorded(f) /\ f.pc = "wait" /\ f \in Frame /\ at = "exec"
      /\ f.batch # <<>> /\ f.total < MaxSubCalls /\ MaxSubCalls \in Nat
  BY RunningShape, LimitsAssumption DEF SoundFrame, Counted, Bounded
<1> HIDE DEF f
<1>2. /\ f.batch \in Seq(Command) /\ f.ex \in Executor /\ f.ex.sub \in Nat
      /\ f.total \in Nat /\ f.made \in Nat /\ f.todo \in Nat /\ f.chunks \in Nat
  BY <1>1, FrameTyped
<1>3. Tail(f.batch) \in Seq(Command) /\ Head(f.batch).store \in STRING
  <2>1. Head(f.batch) \in Command /\ Tail(f.batch) \in Seq(Command)
    BY <1>1, <1>2, HeadTailProperties
  <2> QED BY <2>1 DEF Command
<1>4. ex \in Executor /\ ex.sub = f.ex.sub + 1
  BY <1>2, <1>3, AskedTyped, ZenonT(30)
<1>5. nested \in Seq(BOOLEAN) /\ (nested = <<>> \/ Len(nested) + 7 <= MaxTools)
  <2>1. DOMAIN records = 1..Len(records) /\ Len(records) \in Nat
    BY LenProperties
  <2>2. \A i \in 1..Len(records) : records[i].err \in BOOLEAN
    <3>1. \A i \in 1..Len(records) : records[i] \in IterationRecord
      BY <2>1, LenProperties
    <3> QED BY <3>1 DEF IterationRecord
  <2>3. nested \in [1..Len(records) -> BOOLEAN]
    BY <2>1, <2>2
  <2>4. nested \in Seq(BOOLEAN) /\ Len(nested) = Len(records)
    BY <2>1, <2>3, FunctionIsSeq
  <2>5. records = <<>> => nested = <<>>
    OBVIOUS
  <2> QED BY <2>4, <2>5
<1>6. /\ c \in Frame /\ c.total = f.total + 1 /\ c.made = f.made + 1
      /\ c.records = f.records /\ c.iter = f.iter /\ c.limit = f.limit
      /\ c.sub0 = f.sub0 /\ c.todo = f.todo /\ c.chunks = f.chunks
      /\ c.batch = f.batch /\ c.ex = f.ex
  <2>1. c \in Frame
    BY <1>1, CountedIsReady DEF Ready
  <2> QED BY <1>1, <2>1 DEF Frame
<1> HIDE DEF c
<1>7. /\ g \in Frame /\ g.pc = "exec" /\ g.total = f.total + 1 /\ g.made = f.made + 1
      /\ g.records = f.records /\ g.iter = f.iter /\ g.limit = f.limit
      /\ g.sub0 = f.sub0 /\ g.ex = ex /\ g.nested = nested
      /\ g.todo = f.todo /\ g.chunks = f.chunks
  <2>1. g = [c EXCEPT !.pc = "exec", !.batch = Tail(f.batch), !.nested = nested,
                      !.ex = ex]
    BY <1>6 DEF Resumed
  <2> HIDE DEF g, ex, nested
  <2> QED BY <1>3, <1>4, <1>5, <1>6, <2>1 DEF Frame
<1> HIDE DEF g, ex, nested
<1>8. /\ g.ex.sub + Uncounted(g) = (f.ex.sub + Uncounted(f)) + 1
      /\ f.ex.sub <= g.ex.sub /\ g.total <= MaxSubCalls
  BY <1>1, <1>2, <1>4, <1>7 DEF Uncounted
<1>9. SoundFrame(g) /\ Recorded(g)
  <2>1. f.todo <= f.chunks
    BY <1>1 DEF SoundFrame, Counted
  <2> QED BY <1>1, <1>5, <1>7, <1>8, <2>1, Continued
<1>10. Pop(g) /\ at' = at /\ UNCHANGED <<config, result, phased, subs>>
  BY DEF NestedReturns, g, c, f
<1>11. RootFits(at', g.pc)
  BY <1>1, <1>7, <1>10 DEF RootFits
<1>12. Shape' /\ Frames' /\ Work'
  BY <1>7, <1>9, <1>10, <1>11, LoopEnds DEF f
<1> QED BY <1>10, <1>12, GoesOn

\* What the root returns accounts for what it recorded.
LEMMA RootResultAccounts ==
  ASSUME NEW g, SoundFrame(g), Len(g.records) = g.iter, g.total = MadeIn(g.records),
         NEW kind \in {"answered", "exhausted"}
  PROVE  /\ RootResult(kind, g) \in Results /\ RootResult(kind, g).kind = kind
         /\ Accounts(RootResult(kind, g), 0)
<1>1. /\ g \in Frame /\ g.iter \in Nat /\ g.total \in Nat
      /\ g.records \in Seq(IterationRecord) /\ FaithfulRecords(g.records)
  BY FrameTyped DEF SoundFrame, Counted
<1>2. RootResult(kind, g) = [kind |-> kind, iterations |-> g.iter,
                             records |-> g.records, subCalls |-> g.total]
  BY DEF RootResult
<1>3. RootResult(kind, g) \in Results
  BY <1>1, <1>2 DEF Results
<1>4. g.total = MadeIn(g.records) + 0 /\ MadeIn(g.records) \in Nat
  <2>1. MadeIn(g.records) \in Nat
    BY DEF SoundFrame, Counted
  <2> QED BY <2>1
<1>5. /\ RootResult(kind, g).records = g.records /\ RootResult(kind, g).kind = kind
      /\ RootResult(kind, g).iterations = g.iter /\ RootResult(kind, g).subCalls = g.total
  BY <1>2
<1> QED BY <1>1, <1>3, <1>4, <1>5 DEF Accounts

\* The records of a nested query fit a burst.
LEMMA NestedRecords ==
  ASSUME QueryInv, at \in Running, ~IsRoot
  PROVE  Top.records \in Seq(IterationRecord) /\ Len(Top.records) + 7 <= MaxTools
<1>1. /\ Top.records \in Seq(IterationRecord) /\ Len(Top.records) \in Nat
      /\ Top.iter \in Nat /\ Top.limit \in Nat /\ Top.limit \in NestedLimits
      /\ Top.iter <= Top.limit /\ Recorded(Top)
  BY RunningShape, FrameTyped DEF SoundFrame, Bounded, Nested
<1>2. Len(Top.records) <= Top.iter
  <2>1. CASE Top.pc = "iterate"
    BY <1>1, <2>1 DEF Recorded
  <2>2. CASE Top.pc # "iterate"
    BY <1>1, <2>2 DEF Recorded
  <2> QED BY <2>1, <2>2
<1>3. Top.limit + 7 <= MaxTools /\ MaxTools \in Nat
  BY <1>1, MaxToolsAssumption
<1> QED BY <1>1, <1>2, <1>3

LEMMA AnswerInv ==
  ASSUME QueryInv, at \in Running, NEW f, Ready(f), NEW sub \in Nat, sub = f.made,
         f.limit = Top.limit, f.delegate = Top.delegate, f.total = Top.total,
         f.records = Top.records,
         NEW events, Answer(f, events, sub)
  PROVE  QueryInv'
<1>1. CASE IsRoot
  <2> DEFINE g == Record(f, FALSE, sub)
  <2>1. /\ SetTop(g) /\ at' = "return" /\ result' = RootResult("answered", g)
        /\ UNCHANGED <<config, phased, subs>>
    BY <1>1 DEF Answer
  <2>2. /\ SoundFrame(g) /\ Recorded(g) /\ g.pc = "iterate" /\ g.limit = f.limit
        /\ g.delegate = f.delegate /\ g.total = f.total
        /\ Len(g.records) = g.iter /\ g.total = MadeIn(g.records)
    <3> HIDE DEF g
    <3>1. ASSUME NEW err \in BOOLEAN, err = FALSE, g = Record(f, err, sub)
          PROVE  /\ SoundFrame(g) /\ Recorded(g) /\ g.pc = "iterate"
                 /\ g.limit = f.limit /\ g.delegate = f.delegate /\ g.total = f.total
                 /\ Len(g.records) = g.iter /\ g.total = MadeIn(g.records)
      BY <3>1, RecordSound
    <3> QED BY <3>1, Zenon DEF g
  <2> HIDE DEF g
  <2>3. f.total \in Nat /\ subs \in Nat
    BY FrameTyped DEF Ready, QueryInv, Work
  <2>4. Shape' /\ Frames' /\ Work'
    BY <1>1, <2>1, <2>2, <2>3, TopChanges
  <2>5. /\ result' \in Results /\ result'.kind = "answered" /\ Accounts(result', 0)
    BY <2>1, <2>2, RootResultAccounts
  <2>6. Ending'
    BY <2>1, <2>5 DEF Ending
  <2>7. Phases' /\ Config'
    BY <2>1 DEF QueryInv, Phases, Config
  <2> QED BY <2>4, <2>6, <2>7 DEF QueryInv
<1>2. CASE ~IsRoot
  <2>1. NestedReturns(f.records)
    BY <1>2 DEF Answer
  <2> QED BY <1>2, <2>1, NestedRecords, NestedReturnsInv
<1> QED BY <1>1, <1>2

-----------------------------------------------------------------------------
(* The invariant, action by action.                                        *)

LEMMA InitInv == ASSUME Init PROVE QueryInv
<1>1. stack \in Seq(Frame) /\ Len(stack) = 0 /\ DOMAIN stack = {}
  BY EmptySeq DEF Init
<1>2. Failure("none") \in Results /\ Failure("none").kind = "none"
  BY EmptySeq DEF Failure, Results
<1>3. Config
  BY InputsAssumption DEF Init, Config
<1>4. Shape
  BY <1>1 DEF Init, Shape, Places, Early, Running
<1>5. Frames
  BY <1>1 DEF Frames
<1>6. Work /\ Phases
  BY DEF Init, Work, Phases
<1>7. Ending
  BY <1>2 DEF Init, Ending
<1> QED BY <1>3, <1>4, <1>5, <1>6, <1>7 DEF QueryInv

\* Before the loop there is no stack, and a phase that goes on counts its call.
LEMMA EarlyStep ==
  ASSUME QueryInv, at \in Early,
         at' \in Early, UNCHANGED <<config, stack, result, subs>>, Phases'
  PROVE  QueryInv'
<1>1. Config' /\ Work'
  BY DEF QueryInv, Config, Work
<1>2. stack = <<>> /\ Len(stack) = 0 /\ DOMAIN stack = {}
  BY EmptySeq DEF QueryInv, Shape
<1>3. Shape'
  BY <1>2 DEF QueryInv, Shape, Places, Early, Running
<1>4. Frames'
  BY <1>2 DEF QueryInv, Frames
<1>5. Ending'
  BY DEF QueryInv, Ending, Early
<1> QED BY <1>1, <1>3, <1>4, <1>5 DEF QueryInv

LEMMA BypassInv == ASSUME QueryInv, Bypass PROVE QueryInv'
BY EarlyStep DEF Bypass, QueryInv, Phases, Early

LEMMA DirectInv == ASSUME QueryInv, Direct PROVE QueryInv'
<1>1. CASE Close(Failure("error"))
  BY <1>1, Fails DEF Direct
<1>2. CASE ~Close(Failure("error"))
  <2> DEFINE r == [err |-> FALSE, sub |-> 0, made |-> 0]
             res == [kind |-> "bypassed", iterations |-> 1, subCalls |-> 0,
                     records |-> <<r>>]
  <2>1. at' = "closed" /\ result' = res
    BY <1>2 DEF Direct, Close
  <2>2. r \in IterationRecord
    BY DEF IterationRecord
  <2>3. <<r>> \in Seq(IterationRecord)
    <3> HIDE DEF r
    <3> QED BY <2>2
  <2>4. res \in Results /\ res.kind = "bypassed"
    BY <2>3 DEF Results
  <2> HIDE DEF res
  <2>5. Ending'
    BY <2>1, <2>4 DEF Ending
  <2>6. Config' /\ Phases' /\ Work'
    BY <2>1 DEF Direct, QueryInv, Config, Phases, Work
  <2>7. Shape'
    BY <2>1 DEF Direct, QueryInv, Shape, Places, Early, Running, Nested
  <2>8. Frames'
    BY <2>1 DEF Direct, QueryInv, Frames
  <2> QED BY <2>5, <2>6, <2>7, <2>8 DEF QueryInv
<1> QED BY <1>1, <1>2

LEMMA StartPhasesInv == ASSUME QueryInv, StartPhases PROVE QueryInv'
BY EarlyStep DEF StartPhases, QueryInv, Phases, Early

LEMMA AssessInv == ASSUME QueryInv, Assess PROVE QueryInv'
<1>1. CASE NextPhase("phase1", "phase2", 1)
  BY <1>1, EarlyStep DEF NextPhase, QueryInv, Phases, Early
<1>2. CASE PhaseFails("phase1", "error")
  BY <1>2, Fails DEF PhaseFails
<1> QED BY <1>1, <1>2 DEF Assess

LEMMA IndexInv == ASSUME QueryInv, Index PROVE QueryInv'
<1>1. CASE NextPhase("phase2", "phase3", 0)
  BY <1>1, EarlyStep DEF NextPhase, QueryInv, Phases, Early
<1>2. CASE PhaseFails("phase2", "panic")
  BY <1>2, Fails DEF PhaseFails
<1> QED BY <1>1, <1>2 DEF Index

LEMMA SelectInv == ASSUME QueryInv, Select PROVE QueryInv'
<1>1. CASE NextPhase("phase3", "phase4", 1)
  BY <1>1, EarlyStep DEF NextPhase, QueryInv, Phases, Early
<1>2. CASE PhaseFails("phase3", "error")
  BY <1>2, Fails DEF PhaseFails
<1>3. CASE PhaseFails("phase3", "panic")
  BY <1>3, Fails DEF PhaseFails
<1> QED BY <1>1, <1>2, <1>3 DEF Select

\* A new loop has counted nothing and recorded nothing.
LEMMA NewFrameSound ==
  ASSUME Config, NEW depth \in Nat, NEW limit \in Nat, NEW delegate \in BOOLEAN,
         NEW g, g = NewFrame(depth, limit, delegate)
  PROVE  /\ SoundFrame(g) /\ Recorded(g) /\ g.pc = "iterate" /\ g.total = 0
         /\ g.limit = limit /\ g.delegate = delegate
<1>1. NewExecutor(config.installed) \in Executor /\ NewExecutor(config.installed).sub = 0
  BY DEF Config, NewExecutor, NoTiming, Executor
<1>2. \A S : <<>> \in Seq(S) /\ Len(<<>>) = 0
  BY EmptySeq
<1>3. g \in Frame
  BY <1>1, <1>2 DEF NewFrame, Frame
<1>4. /\ g.pc = "iterate" /\ g.iter = 0 /\ g.total = 0 /\ g.ex.sub = 0 /\ g.sub0 = 0
      /\ g.todo = 0 /\ g.chunks = 0 /\ g.made = 0 /\ g.nested = <<>>
      /\ g.records = <<>> /\ g.limit = limit /\ g.delegate = delegate
  BY <1>1 DEF NewFrame
<1>5. FaithfulRecords(<<>>)
  BY DEF FaithfulRecords
<1>6. Counted(g)
  BY <1>4, <1>5, MadeInNothing, LimitsAssumption DEF Counted, Uncounted
<1>7. Bounded(g) /\ Recorded(g)
  BY <1>2, <1>4 DEF Bounded, Recorded
<1> QED BY <1>3, <1>4, <1>6, <1>7 DEF SoundFrame

LEMMA StartLoopInv == ASSUME QueryInv, StartLoop PROVE QueryInv'
<1> DEFINE g == NewFrame(0, MaxIterations, Delegation)
<1>1. /\ at' = "loop" /\ stack' = <<g>> /\ UNCHANGED <<config, result, phased, subs>>
      /\ at \in Early
  BY DEF StartLoop, Early
<1>2. /\ SoundFrame(g) /\ Recorded(g) /\ g.pc = "iterate" /\ g.total = 0
      /\ g.limit = MaxIterations
  <2> HIDE DEF g
  <2> QED BY NewFrameSound, LimitsAssumption DEF g, QueryInv
<1> HIDE DEF g
<1>3. /\ stack' \in Seq(Frame) /\ Len(stack') = 1 /\ stack'[1] = g /\ stack' # <<>>
      /\ DOMAIN stack' = {1}
  BY <1>1, <1>2 DEF SoundFrame
<1>4. Frames'
  BY <1>2, <1>3 DEF Frames
<1>5. Shape'
  BY <1>1, <1>2, <1>3 DEF Shape, Places, Early, Running, RootFits
<1>6. Work'
  <2>1. subs = 0 /\ subs \in Nat
    BY <1>1 DEF QueryInv, Work, Shape
  <2>2. 0 * MaxSubCalls = 0
    BY LimitsAssumption
  <2> QED BY <1>1, <1>2, <1>3, <2>1, <2>2 DEF Work
<1>7. Config' /\ Phases'
  BY <1>1 DEF QueryInv, Config, Phases, Early
<1>8. Ending'
  BY <1>1 DEF QueryInv, Ending, Early
<1> QED BY <1>4, <1>5, <1>6, <1>7, <1>8 DEF QueryInv

LEMMA StartIterationInv == ASSUME QueryInv, StartIteration PROVE QueryInv'
<1> DEFINE f == Top
           g == [f EXCEPT !.pc = "llm", !.iter = @ + 1, !.made = 0]
<1>1. /\ at \in Running /\ f.pc = "iterate" /\ f.iter < f.limit
      /\ SetTop(g) /\ at' = (IF IsRoot THEN "llm" ELSE at)
      /\ UNCHANGED <<config, result, phased, subs>>
  BY DEF StartIteration, Loop, Running, Go
<1>2. SoundFrame(f) /\ Recorded(f) /\ f \in Frame
  BY <1>1, RunningShape DEF SoundFrame
<1> HIDE DEF f
<1>3. /\ f.iter \in Nat /\ f.total \in Nat /\ f.limit \in Nat /\ Len(f.records) \in Nat
      /\ f.iter + 1 \in Nat
  BY <1>2, FrameTyped
<1>4. /\ g \in Frame /\ g.pc = "llm" /\ g.iter = f.iter + 1 /\ g.made = 0
      /\ g.total = f.total /\ g.records = f.records /\ g.limit = f.limit
      /\ g.delegate = f.delegate /\ g.ex = f.ex /\ g.sub0 = f.sub0
      /\ g.nested = f.nested /\ g.todo = f.todo /\ g.chunks = f.chunks
  BY <1>2, <1>3 DEF Frame
<1> HIDE DEF g
<1>5. Len(f.records) = f.iter
  BY <1>1, <1>2, <1>3 DEF Recorded
<1>6. Counted(g)
  BY <1>1, <1>2, <1>4 DEF SoundFrame, Counted, Uncounted
<1>7. Bounded(g) /\ Recorded(g)
  <2>1. f.nested = <<>> \/ Len(f.nested) + 7 <= MaxTools
    BY <1>2 DEF SoundFrame, Bounded
  <2> QED BY <1>1, <1>3, <1>4, <1>5, <2>1 DEF Bounded, Recorded
<1>8. SoundFrame(g)
  BY <1>4, <1>6, <1>7 DEF SoundFrame
<1>9. subs \in Nat /\ g.total = Top.total /\ g.limit = Top.limit /\ g.delegate = Top.delegate
  BY <1>4 DEF QueryInv, Work, f
<1>10. IsRoot => RootFits(at', g.pc)
  BY <1>1, <1>4 DEF RootFits
<1> QED BY <1>1, <1>3, <1>4, <1>7, <1>8, <1>9, <1>10, TopGoesOn

LEMMA OutOfCallsInv == ASSUME QueryInv, OutOfCalls PROVE QueryInv'
<1> DEFINE f == Top
           g == [f EXCEPT !.iter = @ + 1]
<1>1. /\ at \in Running /\ f.pc = "iterate" /\ f.iter < f.limit /\ IsRoot
      /\ SetTop(g) /\ at' = "closed" /\ result' = Failure("error")
      /\ UNCHANGED <<config, phased, subs>>
  BY DEF OutOfCalls, Loop, Running, Close
<1>2. /\ SoundFrame(f) /\ Recorded(f) /\ f \in Frame /\ f = stack[1]
      /\ f.limit = MaxIterations /\ stack \in Seq(Frame) /\ stack # <<>>
  BY <1>1, RunningShape DEF SoundFrame
<1> HIDE DEF f
<1>3. f.iter \in Nat /\ f.limit \in Nat /\ Len(f.records) \in Nat /\ f.iter + 1 \in Nat
  BY <1>2, FrameTyped
<1>4. /\ g \in Frame /\ g.pc = "iterate" /\ g.iter = f.iter + 1
      /\ g.total = f.total /\ g.records = f.records /\ g.limit = f.limit
      /\ g.ex = f.ex /\ g.sub0 = f.sub0 /\ g.made = f.made
      /\ g.nested = f.nested /\ g.todo = f.todo /\ g.chunks = f.chunks
  BY <1>1, <1>2, <1>3 DEF Frame
<1> HIDE DEF g
<1>5. Len(f.records) = f.iter
  BY <1>1, <1>2, <1>3 DEF Recorded
<1>6. Counted(g)
  BY <1>1, <1>2, <1>4 DEF SoundFrame, Counted, Uncounted
<1>7. Bounded(g)
  <2>1. f.nested = <<>> \/ Len(f.nested) + 7 <= MaxTools
    BY <1>2 DEF SoundFrame, Bounded
  <2> QED BY <1>1, <1>3, <1>4, <1>5, <2>1 DEF Bounded
<1>8. /\ stack' \in Seq(Frame) /\ Len(stack') = 1 /\ stack'[1] = g /\ stack' # <<>>
      /\ DOMAIN stack' = {1}
  <2>1. /\ stack' \in Seq(Frame) /\ Len(stack') = Len(stack) /\ stack' # <<>>
        /\ stack'[Len(stack)] = g
    BY <1>1, <1>2, <1>4, TopReplaced
  <2> QED BY <1>1, <2>1 DEF IsRoot
<1>9. Frames'
  BY <1>1, <1>4, <1>6, <1>7, <1>8 DEF Frames, SoundFrame
<1>10. Shape'
  BY <1>1, <1>2, <1>4, <1>8 DEF Shape, Places, Early, Running
<1>11. Work'
  BY <1>1, <1>2, <1>4, <1>8 DEF QueryInv, Work, IsRoot
<1>12. Config' /\ Phases'
  BY <1>1 DEF QueryInv, Config, Phases
<1>13. Ending'
  <2>1. Failure("error") \in Results /\ Failure("error").kind = "error"
    BY EmptySeq DEF Failure, Results
  <2> QED BY <1>1, <2>1 DEF Ending
<1> QED BY <1>9, <1>10, <1>11, <1>12, <1>13 DEF QueryInv

LEMMA RunBatchInv == ASSUME QueryInv, RunBatch PROVE QueryInv'
<1> DEFINE f == Top
<1>1. PICK batch \in Batches :
        /\ at \in Running /\ f.pc = "llm"
        /\ SetTop([f EXCEPT !.pc = "exec", !.batch = batch,
                            !.ops = {batch[i].op : i \in DOMAIN batch},
                            !.sub0 = f.ex.sub,
                            !.nested = IF IsRoot THEN <<>> ELSE @])
        /\ at' = (IF IsRoot THEN "exec" ELSE at)
        /\ UNCHANGED <<config, result, phased, subs>>
  BY DEF RunBatch, Loop, Running, Go
<1> DEFINE ops == {batch[i].op : i \in DOMAIN batch}
           nested == IF IsRoot THEN <<>> ELSE f.nested
           g == [f EXCEPT !.pc = "exec", !.batch = batch, !.ops = ops,
                          !.sub0 = f.ex.sub, !.nested = nested]
<1>2. SoundFrame(f) /\ Recorded(f) /\ f \in Frame
  BY <1>1, RunningShape DEF SoundFrame
<1>3. SetTop(g)
  BY <1>1
<1>4. batch \in Seq(Command) /\ ops \in SUBSET STRING
  <2>1. batch \in Seq(Command)
    BY InputsAssumption
  <2>2. \A i \in DOMAIN batch : batch[i] \in Command
    BY <2>1, LenProperties
  <2> QED BY <2>1, <2>2 DEF Command
<1> HIDE DEF f, ops
<1>5. /\ f.ex \in Executor /\ f.ex.sub \in Nat /\ f.nested \in Seq(BOOLEAN)
      /\ f.total \in Nat
  BY <1>2, FrameTyped
<1>6. nested \in Seq(BOOLEAN) /\ (nested = <<>> \/ Len(nested) + 7 <= MaxTools)
  BY <1>2, <1>5, EmptySeq DEF SoundFrame, Bounded
<1> HIDE DEF nested
<1>7. /\ g \in Frame /\ g.pc = "exec" /\ g.iter = f.iter /\ g.made = f.made
      /\ g.total = f.total /\ g.records = f.records /\ g.limit = f.limit
      /\ g.delegate = f.delegate /\ g.ex = f.ex /\ g.sub0 = f.ex.sub
      /\ g.nested = nested /\ g.todo = f.todo /\ g.chunks = f.chunks
  BY <1>2, <1>4, <1>5, <1>6 DEF Frame
<1> HIDE DEF g
<1>8. Counted(g)
  BY <1>1, <1>2, <1>5, <1>7 DEF SoundFrame, Counted, Uncounted
<1>9. Bounded(g) /\ Recorded(g)
  BY <1>1, <1>2, <1>6, <1>7 DEF SoundFrame, Bounded, Recorded
<1>10. SoundFrame(g)
  BY <1>7, <1>8, <1>9 DEF SoundFrame
<1>11. subs \in Nat /\ g.total = Top.total /\ g.limit = Top.limit /\ g.delegate = Top.delegate
  BY <1>7 DEF QueryInv, Work, f
<1>12. IsRoot => RootFits(at', g.pc)
  BY <1>1, <1>7 DEF RootFits
<1> QED BY <1>1, <1>3, <1>5, <1>7, <1>9, <1>10, <1>11, <1>12, TopGoesOn

\* The loop on top, in the middle of an iteration.
LEMMA TopReady ==
  ASSUME QueryInv, at \in Running, Top.pc # "iterate"
  PROVE  Ready(Top) /\ SoundFrame(Top) /\ Recorded(Top) /\ Top \in Frame
BY RunningShape, SoundIsReady DEF SoundFrame

LEMMA FinalTextInv == ASSUME QueryInv, FinalText PROVE QueryInv'
<1>1. at \in Running /\ Top.pc = "llm"
  BY DEF FinalText, Loop, Running
<1>2. Ready(Top) /\ Top.made = 0
  BY <1>1, TopReady DEF SoundFrame, Counted
<1> QED BY <1>1, <1>2, AnswerInv DEF FinalText

\* The record of an iteration that failed.
LEMMA ErrorRecordSound ==
  ASSUME NEW f, Ready(f), NEW g, g = Record(f, TRUE, 0)
  PROVE  /\ SoundFrame(g) /\ Recorded(g) /\ g.pc = "iterate" /\ g.limit = f.limit
         /\ g.delegate = f.delegate /\ g.total = f.total
<1> DEFINE Fine(h) == /\ SoundFrame(h) /\ Recorded(h) /\ h.pc = "iterate"
                      /\ h.limit = f.limit /\ h.delegate = f.delegate /\ h.total = f.total
<1>1. ASSUME NEW err \in BOOLEAN, NEW sub \in Nat, sub = IF err THEN 0 ELSE f.made
      PROVE  Fine(Record(f, err, sub))
  BY <1>1, RecordSound
<1>2. 0 \in Nat /\ TRUE \in BOOLEAN /\ 0 = IF TRUE THEN 0 ELSE f.made
  OBVIOUS
<1> HIDE DEF Fine
<1>3. Fine(Record(f, TRUE, 0))
  BY <1>1, <1>2, Zenon
<1> QED BY <1>3 DEF Fine

\* The iteration on top ends with an error.
LEMMA TopFails ==
  ASSUME QueryInv, at \in Running, NEW f, Ready(f),
         f.limit = Top.limit, f.delegate = Top.delegate, f.total = Top.total,
         SetTop(Record(f, TRUE, 0)), Go("loop"),
         UNCHANGED <<config, result, phased, subs>>
  PROVE  QueryInv'
<1> DEFINE g == Record(f, TRUE, 0)
<1>1. SoundFrame(g) /\ Recorded(g) /\ g.pc = "iterate" /\ g.limit = f.limit
      /\ g.delegate = f.delegate /\ g.total = f.total
  BY ErrorRecordSound
<1>2. SetTop(g) /\ at' = (IF IsRoot THEN "loop" ELSE at)
  BY DEF Go
<1> HIDE DEF g
<1>3. f.total \in Nat /\ subs \in Nat
  BY FrameTyped DEF Ready, QueryInv, Work
<1>4. IsRoot => RootFits(at', g.pc)
  BY <1>1, <1>2 DEF RootFits
<1> QED BY <1>1, <1>2, <1>3, <1>4, TopGoesOn

LEMMA NoCommandsInv == ASSUME QueryInv, NoCommands PROVE QueryInv'
<1>1. at \in Running /\ Top.pc = "llm"
  BY DEF NoCommands, Loop, Running
<1>2. Ready(Top)
  BY <1>1, TopReady
<1> QED BY <1>1, <1>2, TopFails DEF NoCommands

LEMMA ModelFailsInv == ASSUME QueryInv, ModelFails PROVE QueryInv'
<1>1. at \in Running
  BY DEF ModelFails, Loop, Running
<1>2. CASE IsRoot
  BY <1>1, <1>2, Fails DEF ModelFails, Running
<1>3. CASE ~IsRoot
  <2> DEFINE f == Parent
             c == [f EXCEPT !.total = @ + 1, !.made = @ + 1]
             g == Record(c, TRUE, 0)
  <2>1. /\ Pop(g) /\ at' = "loop" /\ UNCHANGED <<config, result, phased, subs>>
    BY <1>3, Zenon DEF ModelFails
  <2>2. SoundFrame(f) /\ Recorded(f) /\ f.pc = "wait"
    BY <1>1, <1>3, RunningShape
  <2> HIDE DEF f
  <2>3. Ready(c) /\ c.limit = f.limit /\ c.total = f.total + 1
    BY <2>2, CountedIsReady
  <2> HIDE DEF c
  <2>4. SoundFrame(g) /\ Recorded(g) /\ g.pc = "iterate" /\ g.limit = f.limit
        /\ g.total = f.total + 1
    BY <2>3, ErrorRecordSound
  <2> HIDE DEF g
  <2>5. RootFits(at', g.pc) /\ at' \in Running
    BY <2>1, <2>4 DEF RootFits, Running
  <2>6. Shape' /\ Frames' /\ Work'
    BY <1>1, <1>3, <2>1, <2>4, <2>5, LoopEnds DEF f
  <2> QED BY <1>1, <2>1, <2>5, <2>6, GoesOn
<1> QED BY <1>2, <1>3

LEMMA EndBatchInv == ASSUME QueryInv, EndBatch PROVE QueryInv'
<1>1. at \in Running /\ Top.pc = "exec" /\ BatchEnds(Top, FALSE) /\ UNCHANGED subs
  BY DEF EndBatch, Loop, Running
<1>2. Ready(Top) /\ SoundFrame(Top) /\ Top \in Frame
  BY <1>1, TopReady
<1>3. Top.made = Top.ex.sub - Top.sub0
  <2>1. Top.ex.sub \in Nat /\ Uncounted(Top) = 0
    BY <1>1, <1>2, FrameTyped DEF Uncounted
  <2> QED BY <1>1, <1>2, <2>1 DEF SoundFrame, Counted
<1>4. ASSUME NEW err \in BOOLEAN, err = FALSE, BatchEnds(Top, err)
      PROVE  QueryInv'
  BY <1>1, <1>2, <1>3, <1>4, BatchEndsInv
<1> QED BY <1>1, <1>4, Zenon

\* The batch stops at an error.
LEMMA BatchFailsInv ==
  ASSUME QueryInv, at \in Running, NEW f, Ready(f),
         f.limit = Top.limit, f.delegate = Top.delegate, f.total = Top.total,
         BatchEnds(f, TRUE), UNCHANGED subs
  PROVE  QueryInv'
<1>1. ASSUME NEW err \in BOOLEAN, err = TRUE, BatchEnds(f, err)
      PROVE  QueryInv'
  BY <1>1, BatchEndsInv
<1> QED BY <1>1, Zenon

\* The loop that executes a command.
LEMMA Executing ==
  ASSUME QueryInv, Loop("exec"), Top.batch # <<>>
  PROVE  /\ at \in Running /\ Top.pc = "exec"
         /\ Ready(Top) /\ SoundFrame(Top) /\ Recorded(Top) /\ Top \in Frame
         /\ Next1 \in Command /\ Tail(Top.batch) \in Seq(Command)
         /\ Top.ex \in Executor /\ Top.ex.sub \in Nat /\ Top.total \in Nat
         /\ Top.made \in Nat /\ Top.todo <= Top.chunks /\ Uncounted(Top) = 0
         /\ Top.made = Top.ex.sub - Top.sub0
<1>1. at \in Running /\ Top.pc = "exec"
  BY DEF Loop, Running
<1>2. Ready(Top) /\ SoundFrame(Top) /\ Recorded(Top) /\ Top \in Frame
  BY <1>1, TopReady
<1>3. /\ Top.batch \in Seq(Command) /\ Top.ex \in Executor /\ Top.ex.sub \in Nat
      /\ Top.total \in Nat /\ Top.made \in Nat
  BY <1>2, FrameTyped
<1>4. Next1 \in Command /\ Tail(Top.batch) \in Seq(Command)
  BY <1>3, HeadTailProperties DEF Next1
<1>5. Top.todo <= Top.chunks /\ Uncounted(Top) = 0
  BY <1>1, <1>2 DEF Uncounted, Ready
<1>6. Top.made = Top.ex.sub - Top.sub0
  BY <1>1, <1>2, <1>3, <1>5 DEF SoundFrame, Counted
<1> QED BY <1>1, <1>2, <1>3, <1>4, <1>5, <1>6

\* A command changes what its executor holds, not what it counted.
LEMMA ExecutorChanges ==
  ASSUME NEW f, Ready(f), SoundFrame(f), Recorded(f), f.pc = "exec",
         NEW ex \in Executor, ex.sub = f.ex.sub,
         NEW g, g = [f EXCEPT !.ex = ex]
  PROVE  /\ Ready(g) /\ SoundFrame(g) /\ Recorded(g) /\ g \in Frame /\ g.pc = "exec"
         /\ g.limit = f.limit /\ g.delegate = f.delegate /\ g.total = f.total
         /\ g.made = f.made /\ g.ex = ex /\ g.sub0 = f.sub0 /\ g.batch = f.batch
         /\ g.records = f.records /\ g.iter = f.iter /\ g.nested = f.nested
         /\ g.todo = f.todo /\ g.chunks = f.chunks
<1>1. f \in Frame
  BY DEF Ready
<1>2. /\ g \in Frame /\ g.pc = "exec"
      /\ g.limit = f.limit /\ g.delegate = f.delegate /\ g.total = f.total
      /\ g.made = f.made /\ g.ex = ex /\ g.sub0 = f.sub0 /\ g.batch = f.batch
      /\ g.records = f.records /\ g.iter = f.iter /\ g.nested = f.nested
      /\ g.todo = f.todo /\ g.chunks = f.chunks
  BY <1>1 DEF Frame
<1>3. Counted(g) /\ Bounded(g) /\ Recorded(g)
  BY <1>2 DEF SoundFrame, Counted, Uncounted, Bounded, Recorded
<1>4. SoundFrame(g)
  BY <1>2, <1>3 DEF SoundFrame
<1>5. Ready(g)
  BY <1>2, <1>3, <1>4, SoundIsReady
<1> QED BY <1>2, <1>3, <1>4, <1>5

\* A command that is done leaves the rest of its batch.
LEMMA DoneSound ==
  ASSUME NEW f, SoundFrame(f), Recorded(f), f.pc = "exec", f \in Frame,
         Tail(f.batch) \in Seq(Command),
         NEW g, g = Done(f)
  PROVE  /\ SoundFrame(g) /\ Recorded(g) /\ g.pc = "exec"
         /\ g.limit = f.limit /\ g.delegate = f.delegate /\ g.total = f.total
<1>1. g = [f EXCEPT !.pc = "exec", !.batch = Tail(f.batch)]
  BY DEF Done
<1>2. /\ g \in Frame /\ g.pc = "exec"
      /\ g.limit = f.limit /\ g.delegate = f.delegate /\ g.total = f.total
      /\ g.made = f.made /\ g.ex = f.ex /\ g.sub0 = f.sub0
      /\ g.records = f.records /\ g.iter = f.iter /\ g.nested = f.nested
      /\ g.todo = f.todo /\ g.chunks = f.chunks
  BY <1>1 DEF Frame
<1>3. Counted(g) /\ Bounded(g) /\ Recorded(g)
  BY <1>2 DEF SoundFrame, Counted, Uncounted, Bounded, Recorded
<1> QED BY <1>2, <1>3 DEF SoundFrame

LEMMA LocalCommandInv == ASSUME QueryInv, LocalCommand PROVE QueryInv'
<1>1. PICK op \in LocalOps :
        Executes(op) /\ \E o \in Outcomes(Top.ex, Next1) :
                          CommandEnds([Top EXCEPT !.ex = o.ex], o.kind)
  BY DEF LocalCommand
<1>2. PICK o \in Outcomes(Top.ex, Next1) : CommandEnds([Top EXCEPT !.ex = o.ex], o.kind)
  BY <1>1
<1> DEFINE f == Top
           h == [f EXCEPT !.ex = o.ex]
           events == Report(h) \o <<"command_complete", "iteration_complete",
                                    "final_answer", "complete">>
<1>3. Loop("exec") /\ Top.batch # <<>> /\ Next1.op \in LocalOps
  BY <1>1 DEF Executes
<1>4. /\ at \in Running /\ f.pc = "exec" /\ Ready(f) /\ SoundFrame(f) /\ Recorded(f)
      /\ f \in Frame /\ Next1 \in Command /\ Tail(f.batch) \in Seq(Command)
      /\ f.ex \in Executor /\ f.ex.sub \in Nat /\ f.made = f.ex.sub - f.sub0
      /\ f.made \in Nat /\ f.total \in Nat
  BY <1>3, Executing
<1>5. /\ o.ex \in Executor /\ o.ex.sub = f.ex.sub
      /\ o.kind \in {"continue", "error", "final", "panic"}
  BY <1>3, <1>4, LocalOutcomes
<1>6. /\ o.kind = "continue" => SetTop(Done(h)) /\ UNCHANGED <<at, config, result, phased, subs>>
      /\ o.kind = "error" => BatchEnds(h, TRUE) /\ UNCHANGED subs
      /\ o.kind = "final" => Answer(h, events, h.ex.sub - h.sub0)
      /\ o.kind = "panic" => Panic
  BY <1>2 DEF CommandEnds
<1> HIDE DEF f, events
<1>7. /\ Ready(h) /\ SoundFrame(h) /\ Recorded(h) /\ h \in Frame /\ h.pc = "exec"
      /\ h.limit = f.limit /\ h.delegate = f.delegate /\ h.total = f.total
      /\ h.made = f.made /\ h.ex = o.ex /\ h.sub0 = f.sub0 /\ h.batch = f.batch
      /\ h.records = f.records
  <2> HIDE DEF h
  <2> QED BY <1>4, <1>5, ExecutorChanges DEF h
<1> HIDE DEF h
<1>8. CASE o.kind = "continue"
  <2> DEFINE g == Done(h)
  <2>1. /\ SoundFrame(g) /\ Recorded(g) /\ g.pc = "exec"
        /\ g.limit = h.limit /\ g.delegate = h.delegate /\ g.total = h.total
    <3> HIDE DEF g
    <3> QED BY <1>4, <1>7, DoneSound DEF g
  <2>2. SetTop(g) /\ UNCHANGED <<at, config, result, phased, subs>>
    BY <1>6, <1>8
  <2> HIDE DEF g
  <2>3. IsRoot => RootFits(at', g.pc)
    BY <1>3, <1>4, <2>1, <2>2, RunningShape DEF RootFits, f
  <2>4. subs \in Nat
    BY DEF QueryInv, Work
  <2> QED BY <1>4, <1>7, <2>1, <2>2, <2>3, <2>4, TopGoesOn DEF f
<1>9. CASE o.kind = "error"
  BY <1>4, <1>6, <1>7, <1>9, BatchFailsInv DEF f
<1>10. CASE o.kind = "final"
  <2>1. Answer(h, events, h.ex.sub - h.sub0) /\ h.ex.sub - h.sub0 = h.made /\ h.made \in Nat
    BY <1>4, <1>5, <1>6, <1>7, <1>10
  <2> QED BY <1>4, <1>7, <2>1, AnswerInv DEF f
<1>11. CASE o.kind = "panic"
  BY <1>4, <1>6, <1>11, Fails DEF Panic, Running
<1> QED BY <1>5, <1>8, <1>9, <1>10, <1>11

LEMMA QueryRefusedInv == ASSUME QueryInv, QueryRefused PROVE QueryInv'
<1>1. Loop("exec") /\ Top.batch # <<>> /\ BatchEnds(Top, TRUE) /\ UNCHANGED subs
  BY DEF QueryRefused, Executes
<1>2. at \in Running /\ Ready(Top)
  BY <1>1, Executing
<1> QED BY <1>1, <1>2, BatchFailsInv

LEMMA DelegateRefusedInv == ASSUME QueryInv, DelegateRefused PROVE QueryInv'
<1>1. Loop("exec") /\ Top.batch # <<>> /\ BatchEnds(Top, TRUE) /\ UNCHANGED subs
  BY DEF DelegateRefused, Executes
<1>2. at \in Running /\ Ready(Top)
  BY <1>1, Executing
<1> QED BY <1>1, <1>2, BatchFailsInv

LEMMA QueryStepInv == ASSUME QueryInv, Query PROVE QueryInv'
<1> DEFINE f == Top
           ex == Asked(f.ex, Next1.store, 1)
           g == [Done(f) EXCEPT !.total = @ + 1, !.made = @ + 1,
                                !.ex = Asked(@, Next1.store, 1)]
<1>1. Loop("exec") /\ Top.batch # <<>> /\ f.total < MaxSubCalls
  BY DEF Query, Executes
<1>2. /\ at \in Running /\ f.pc = "exec" /\ Ready(f) /\ SoundFrame(f) /\ Recorded(f)
      /\ f \in Frame /\ Next1 \in Command /\ Tail(f.batch) \in Seq(Command)
      /\ f.ex \in Executor /\ f.ex.sub \in Nat /\ f.total \in Nat /\ f.made \in Nat
      /\ f.todo <= f.chunks /\ Uncounted(f) = 0
  BY <1>1, Executing
<1>3. CASE BatchEnds(Top, TRUE) /\ UNCHANGED subs
  BY <1>2, <1>3, BatchFailsInv
<1>4. CASE /\ SetTop(g) /\ subs' = subs + 1
           /\ UNCHANGED <<at, config, result, phased>>
  <2> HIDE DEF f
  <2>1. ex \in Executor /\ ex.sub = f.ex.sub + 1
    <3>1. Next1.store \in STRING
      BY <1>2 DEF Command
    <3> QED BY <1>2, <3>1, AskedTyped, ZenonT(30)
  <2>2. g = [f EXCEPT !.pc = "exec", !.batch = Tail(f.batch),
                      !.total = f.total + 1, !.made = f.made + 1, !.ex = ex]
    BY <1>2 DEF Done, Frame
  <2>3. f.total + 1 \in Nat /\ f.made + 1 \in Nat
    BY <1>2
  <2> HIDE DEF g, ex
  <2>4. /\ g \in Frame /\ g.pc = "exec" /\ g.total = f.total + 1 /\ g.made = f.made + 1
        /\ g.records = f.records /\ g.iter = f.iter /\ g.limit = f.limit
        /\ g.delegate = f.delegate /\ g.sub0 = f.sub0 /\ g.ex = ex
        /\ g.nested = f.nested /\ g.todo = f.todo /\ g.chunks = f.chunks
    BY <1>2, <2>1, <2>2, <2>3 DEF Frame
  <2>5. /\ g.ex.sub + Uncounted(g) = (f.ex.sub + Uncounted(f)) + 1
        /\ f.ex.sub <= g.ex.sub /\ g.total <= MaxSubCalls
    BY <1>1, <1>2, <2>1, <2>4, LimitsAssumption DEF Uncounted, f
  <2>6. SoundFrame(g) /\ Recorded(g)
    BY <1>2, <2>4, <2>5, Continued
  <2>7. /\ subs' \in Nat /\ subs' <= subs + (g.total - Top.total) /\ Top.total <= g.total
    <3>1. subs \in Nat /\ g.total - f.total = 1
      BY <1>2, <2>4 DEF QueryInv, Work
    <3> QED BY <1>2, <1>4, <2>4, <3>1 DEF f
  <2>8. g.limit = Top.limit /\ g.delegate = Top.delegate
    BY <2>4 DEF f
  <2>9. IsRoot => RootFits(at', g.pc)
    BY <1>2, <1>4, <2>4, RunningShape DEF RootFits, f
  <2> QED BY <1>2, <1>4, <2>4, <2>6, <2>7, <2>8, <2>9, TopGoesOn
<1>5. \/ /\ SetTop(g) /\ subs' = subs + 1
         /\ UNCHANGED <<at, config, result, phased>>
      \/ BatchEnds(Top, TRUE) /\ UNCHANGED subs
  BY DEF Query
<1> QED BY <1>3, <1>4, <1>5

LEMMA StartReduceInv == ASSUME QueryInv, StartReduce PROVE QueryInv'
<1> DEFINE f == Top
<1>1. PICK n \in ChunkCounts :
        /\ Loop("exec") /\ Top.batch # <<>>
        /\ \/ /\ SetTop([f EXCEPT !.pc = "reduce", !.todo = n, !.chunks = n])
              /\ UNCHANGED <<at, config, result, phased, subs>>
           \/ Panic
           \/ BatchEnds(f, TRUE) /\ UNCHANGED subs
  BY DEF StartReduce, Executes
<1> DEFINE g == [f EXCEPT !.pc = "reduce", !.todo = n, !.chunks = n]
<1>2. /\ at \in Running /\ f.pc = "exec" /\ Ready(f) /\ SoundFrame(f) /\ Recorded(f)
      /\ f \in Frame /\ f.ex \in Executor /\ f.ex.sub \in Nat
      /\ f.total \in Nat /\ f.made \in Nat /\ Uncounted(f) = 0 /\ f.batch # <<>>
  BY <1>1, Executing
<1>3. CASE BatchEnds(f, TRUE) /\ UNCHANGED subs
  BY <1>2, <1>3, BatchFailsInv
<1>4. CASE Panic
  BY <1>2, <1>4, Fails DEF Panic, Running
<1>5. CASE SetTop(g) /\ UNCHANGED <<at, config, result, phased, subs>>
  <2> HIDE DEF f
  <2>1. n \in Nat
    BY LimitsAssumption
  <2>2. /\ g \in Frame /\ g.pc = "reduce" /\ g.total = f.total /\ g.made = f.made
        /\ g.records = f.records /\ g.iter = f.iter /\ g.limit = f.limit
        /\ g.delegate = f.delegate /\ g.sub0 = f.sub0 /\ g.ex = f.ex
        /\ g.nested = f.nested /\ g.todo = n /\ g.chunks = n /\ g.batch = f.batch
    BY <1>2, <2>1 DEF Frame
  <2> HIDE DEF g
  <2>3. /\ g.ex.sub + Uncounted(g) = (f.ex.sub + Uncounted(f)) + 0
        /\ f.ex.sub <= g.ex.sub /\ g.todo <= g.chunks
        /\ g.total = f.total + 0 /\ g.made = f.made + 0
    BY <1>2, <2>1, <2>2 DEF Uncounted
  <2>4. g.total <= MaxSubCalls
    BY <1>2, <2>2 DEF Ready
  <2>5. SoundFrame(g) /\ Recorded(g)
    BY <1>2, <2>2, <2>3, <2>4, Continued
  <2>6. /\ subs' \in Nat /\ subs' <= subs + (g.total - Top.total) /\ Top.total <= g.total
    <3>1. subs \in Nat /\ g.total - f.total = 0
      BY <1>2, <2>2 DEF QueryInv, Work
    <3> QED BY <1>2, <1>5, <2>2, <3>1 DEF f
  <2>7. g.limit = Top.limit /\ g.delegate = Top.delegate
    BY <2>2 DEF f
  <2>8. IsRoot => RootFits(at', g.pc)
    BY <1>2, <1>5, <2>2, RunningShape DEF RootFits, f
  <2> QED BY <1>2, <1>5, <2>2, <2>5, <2>6, <2>7, <2>8, TopGoesOn
<1> QED BY <1>1, <1>3, <1>4, <1>5

LEMMA ReduceChunkInv == ASSUME QueryInv, ReduceChunk PROVE QueryInv'
<1> DEFINE f == Top
           g == [f EXCEPT !.todo = @ - 1, !.total = @ + 1, !.made = @ + 1]
<1>1. at \in Running /\ f.pc = "reduce" /\ f.todo > 0
  BY DEF ReduceChunk, Loop, Running
<1>2. /\ Ready(f) /\ SoundFrame(f) /\ Recorded(f) /\ f \in Frame
      /\ f.ex \in Executor /\ f.ex.sub \in Nat /\ f.total \in Nat /\ f.made \in Nat
      /\ f.todo \in Nat /\ f.chunks \in Nat /\ f.todo <= f.chunks /\ f.batch # <<>>
  BY <1>1, TopReady, FrameTyped DEF SoundFrame, Bounded, Counted
<1>3. \/ /\ f.total < MaxSubCalls /\ SetTop(g) /\ subs' = subs + 1
         /\ UNCHANGED <<at, config, result, phased>>
      \/ /\ SetTop(Record(f, TRUE, 0)) /\ Go("loop")
         /\ UNCHANGED <<config, result, phased, subs>>
  BY DEF ReduceChunk
<1>4. CASE /\ SetTop(Record(f, TRUE, 0)) /\ Go("loop")
           /\ UNCHANGED <<config, result, phased, subs>>
  BY <1>1, <1>2, <1>4, TopFails
<1>5. CASE /\ f.total < MaxSubCalls /\ SetTop(g) /\ subs' = subs + 1
           /\ UNCHANGED <<at, config, result, phased>>
  <2> HIDE DEF f
  <2>1. f.total + 1 \in Nat /\ f.made + 1 \in Nat /\ f.todo - 1 \in Nat
    BY <1>1, <1>2
  <2>2. /\ g \in Frame /\ g.pc = "reduce" /\ g.total = f.total + 1 /\ g.made = f.made + 1
        /\ g.records = f.records /\ g.iter = f.iter /\ g.limit = f.limit
        /\ g.delegate = f.delegate /\ g.sub0 = f.sub0 /\ g.ex = f.ex
        /\ g.nested = f.nested /\ g.todo = f.todo - 1 /\ g.chunks = f.chunks
        /\ g.batch = f.batch
    BY <1>1, <1>2, <2>1 DEF Frame
  <2> HIDE DEF g
  <2>3. g.ex.sub + Uncounted(g) = (f.ex.sub + Uncounted(f)) + 1
    <3>1. Uncounted(f) = f.chunks - f.todo /\ Uncounted(g) = f.chunks - (f.todo - 1)
      BY <1>1, <2>2 DEF Uncounted
    <3> QED BY <1>2, <2>2, <3>1
  <2>4. /\ f.ex.sub <= g.ex.sub /\ g.todo <= g.chunks /\ g.total <= MaxSubCalls
    BY <1>2, <1>5, <2>2, LimitsAssumption
  <2>5. SoundFrame(g) /\ Recorded(g)
    BY <1>1, <1>2, <2>2, <2>3, <2>4, Continued
  <2>6. /\ subs' \in Nat /\ subs' <= subs + (g.total - Top.total) /\ Top.total <= g.total
    <3>1. subs \in Nat /\ g.total - f.total = 1
      BY <1>2, <2>2 DEF QueryInv, Work
    <3> QED BY <1>2, <1>5, <2>2, <3>1 DEF f
  <2>7. g.limit = Top.limit /\ g.delegate = Top.delegate
    BY <2>2 DEF f
  <2>8. IsRoot => RootFits(at', g.pc)
    BY <1>1, <1>5, <2>2, RunningShape DEF RootFits, f
  <2> QED BY <1>1, <1>5, <2>2, <2>5, <2>6, <2>7, <2>8, TopGoesOn
<1> QED BY <1>3, <1>4, <1>5

LEMMA EndReduceInv == ASSUME QueryInv, EndReduce PROVE QueryInv'
<1> DEFINE f == Top
           ex == Asked(f.ex, Next1.store, f.chunks)
           g == [Done(f) EXCEPT !.ex = Asked(@, Next1.store, f.chunks)]
<1>1. /\ at \in Running /\ f.pc = "reduce" /\ f.todo = 0
      /\ SetTop(g) /\ UNCHANGED <<at, config, result, phased, subs>>
  BY DEF EndReduce, Loop, Running
<1>2. /\ Ready(f) /\ SoundFrame(f) /\ Recorded(f) /\ f \in Frame
      /\ f.ex \in Executor /\ f.ex.sub \in Nat /\ f.total \in Nat /\ f.made \in Nat
      /\ f.chunks \in Nat /\ f.batch # <<>> /\ f.batch \in Seq(Command)
  BY <1>1, TopReady, FrameTyped DEF SoundFrame, Bounded, Counted
<1>3. Next1.store \in STRING /\ Tail(f.batch) \in Seq(Command)
  <2>1. Next1 \in Command /\ Tail(f.batch) \in Seq(Command)
    BY <1>2, HeadTailProperties DEF Next1
  <2> QED BY <2>1 DEF Command
<1> HIDE DEF f
<1>4. ex \in Executor /\ ex.sub = f.ex.sub + f.chunks
  BY <1>2, <1>3, AskedTyped
<1>5. g = [f EXCEPT !.pc = "exec", !.batch = Tail(f.batch), !.ex = ex]
  BY <1>2 DEF Done, Frame
<1> HIDE DEF g, ex
<1>6. /\ g \in Frame /\ g.pc = "exec" /\ g.total = f.total /\ g.made = f.made
      /\ g.records = f.records /\ g.iter = f.iter /\ g.limit = f.limit
      /\ g.delegate = f.delegate /\ g.sub0 = f.sub0 /\ g.ex = ex
      /\ g.nested = f.nested /\ g.todo = f.todo /\ g.chunks = f.chunks
  BY <1>2, <1>3, <1>4, <1>5 DEF Frame
<1>7. g.ex.sub + Uncounted(g) = (f.ex.sub + Uncounted(f)) + 0
  <2>1. Uncounted(f) = f.chunks - 0 /\ Uncounted(g) = 0
    BY <1>1, <1>6 DEF Uncounted
  <2> QED BY <1>2, <1>4, <1>6, <2>1
<1>8. /\ f.ex.sub <= g.ex.sub /\ g.todo <= g.chunks /\ g.total <= MaxSubCalls
      /\ g.total = f.total + 0 /\ g.made = f.made + 0
  BY <1>1, <1>2, <1>4, <1>6 DEF Ready
<1>9. SoundFrame(g) /\ Recorded(g)
  BY <1>1, <1>2, <1>6, <1>7, <1>8, Continued
<1>10. /\ subs' \in Nat /\ subs' <= subs + (g.total - Top.total) /\ Top.total <= g.total
  <2>1. subs \in Nat /\ g.total - f.total = 0
    BY <1>2, <1>6 DEF QueryInv, Work
  <2> QED BY <1>1, <1>2, <1>6, <2>1 DEF f
<1>11. g.limit = Top.limit /\ g.delegate = Top.delegate
  BY <1>6 DEF f
<1>12. IsRoot => RootFits(at', g.pc)
  BY <1>1, <1>6, RunningShape DEF RootFits, f
<1> QED BY <1>1, <1>6, <1>9, <1>10, <1>11, <1>12, TopGoesOn

LEMMA ExhaustInv == ASSUME QueryInv, Exhaust PROVE QueryInv'
<1>1. at \in Running /\ Top.pc = "iterate"
  BY DEF Exhaust, Loop, Running
<1>2. CASE IsRoot
  <2>1. /\ at' = "return" /\ result' = RootResult("exhausted", Top)
        /\ UNCHANGED <<config, stack, phased, subs>>
    BY <1>2 DEF Exhaust
  <2>2. /\ SoundFrame(Top) /\ Recorded(Top) /\ Top \in Frame
    BY <1>1, RunningShape DEF SoundFrame
  <2>3. Len(Top.records) = Top.iter /\ Top.total = MadeIn(Top.records)
    <3>1. MadeIn(Top.records) \in Nat /\ Len(Top.records) \in Nat
      BY <2>2, FrameTyped DEF SoundFrame, Counted
    <3> QED BY <1>1, <2>2, <3>1 DEF SoundFrame, Counted, Recorded
  <2>4. result' \in Results /\ result'.kind = "exhausted" /\ Accounts(result', 0)
    BY <2>1, <2>2, <2>3, RootResultAccounts
  <2>5. Ending'
    BY <2>1, <2>4 DEF Ending
  <2>6. Config' /\ Phases' /\ Work'
    BY <2>1 DEF QueryInv, Config, Phases, Work
  <2>7. Shape'
    <3>1. stack # <<>> /\ Len(stack) = 1
      BY <1>1, <1>2, RunningShape DEF IsRoot
    <3> QED BY <2>1, <3>1 DEF QueryInv, Shape, Places, Early, Running
  <2>8. Frames'
    BY <1>1, <2>1 DEF QueryInv, Frames, Running
  <2> QED BY <2>5, <2>6, <2>7, <2>8 DEF QueryInv
<1>3. CASE ~IsRoot
  <2>1. NestedReturns(Top.records)
    BY <1>3 DEF Exhaust
  <2> QED BY <1>1, <1>3, <2>1, NestedRecords, NestedReturnsInv
<1> QED BY <1>2, <1>3

LEMMA ReturnInv == ASSUME QueryInv, Return PROVE QueryInv'
<1> DEFINE r == [result EXCEPT !.subCalls = @ + phased]
<1>1. /\ at = "return" /\ at' = "closed" /\ result' = r
      /\ UNCHANGED <<config, stack, phased, subs>>
  BY DEF Return, Close
<1>2. /\ result \in Results /\ result.kind \in {"answered", "exhausted"}
      /\ Accounts(result, 0) /\ phased \in Nat
  BY <1>1 DEF QueryInv, Ending, Phases
<1>3. /\ result.subCalls \in Nat /\ MadeIn(result.records) \in Nat
      /\ result.subCalls = MadeIn(result.records) + 0
  BY <1>2 DEF Results, Accounts
<1>4. /\ r \in Results /\ r.kind = result.kind /\ r.records = result.records
      /\ r.iterations = result.iterations /\ r.subCalls = result.subCalls + phased
  BY <1>2, <1>3 DEF Results
<1> HIDE DEF r
<1>5. Accounts(r, phased)
  BY <1>2, <1>3, <1>4 DEF Accounts
<1>6. Ending'
  BY <1>1, <1>2, <1>4, <1>5 DEF Ending
<1>7. Config' /\ Phases' /\ Work'
  BY <1>1 DEF QueryInv, Config, Phases, Work
<1>8. Shape'
  BY <1>1 DEF QueryInv, Shape, Places, Early, Running
<1>9. Frames'
  BY <1>1 DEF QueryInv, Frames
<1> QED BY <1>6, <1>7, <1>8, <1>9 DEF QueryInv

\* One more element makes a pair.
LEMMA Pair == \A a, b : Append(<<a>>, b) = <<a, b>>
<1> TAKE a, b
<1> DEFINE S == {a, b}
           s == Append(<<a>>, b)
           t == <<a, b>>
<1>1. <<a>> \in Seq(S) /\ t \in Seq(S) /\ Len(<<a>>) = 1 /\ Len(t) = 2
  OBVIOUS
<1>2. s \in Seq(S) /\ Len(s) = 2 /\ s[1] = a /\ s[2] = b
  BY <1>1, AppendProperties
<1>3. t[1] = a /\ t[2] = b
  OBVIOUS
<1> HIDE DEF s, t, S
<1>4. ASSUME NEW i \in 1..Len(s) PROVE s[i] = t[i]
  <2>1. i = 1 \/ i = 2
    BY <1>2
  <2> QED BY <2>1, <1>2, <1>3
<1>5. s = t
  BY <1>1, <1>2, <1>4, SeqEqual
<1> QED BY <1>5 DEF s, t

\* A delegation puts a loop above the root, the only one that may delegate.
LEMMA DelegateInv == ASSUME QueryInv, Delegate PROVE QueryInv'
<1> DEFINE f == Top
           w == [f EXCEPT !.pc = "wait"]
<1>1. PICK limit \in NestedLimits :
        /\ Loop("exec") /\ Top.batch # <<>>
        /\ f.delegate /\ f.total < MaxSubCalls
        /\ stack' = Append([stack EXCEPT ![Len(stack)].pc = "wait"],
                           NewFrame(f.depth + 1, limit, FALSE))
        /\ UNCHANGED <<at, config, result, phased, subs>>
  BY DEF Delegate, Executes, MayDelegate
<1> DEFINE g == NewFrame(f.depth + 1, limit, FALSE)
<1>2. /\ at \in Running /\ f.pc = "exec" /\ Ready(f) /\ SoundFrame(f) /\ Recorded(f)
      /\ f \in Frame /\ f.ex.sub \in Nat /\ f.total \in Nat /\ f.made \in Nat
      /\ f.todo <= f.chunks /\ Uncounted(f) = 0 /\ f.batch # <<>>
  BY <1>1, Executing
<1>3. IsRoot /\ stack \in Seq(Frame) /\ f = stack[1] /\ f.limit = MaxIterations /\ at = "exec"
  <2>1. IsRoot
    BY <1>1, <1>2, RunningShape DEF Nested
  <2> QED BY <1>2, <2>1, RunningShape DEF RootFits
<1>4. /\ SoundFrame(g) /\ Recorded(g) /\ g.pc = "iterate" /\ g.total = 0
      /\ g.limit = limit /\ g.delegate = FALSE
  <2>1. f.depth + 1 \in Nat /\ limit \in Nat
    BY <1>2, FrameTyped, LimitsAssumption
  <2>2. Config
    BY DEF QueryInv
  <2> HIDE DEF f
  <2> DEFINE Fine(h) == /\ SoundFrame(h) /\ Recorded(h) /\ h.pc = "iterate"
                        /\ h.total = 0 /\ h.limit = limit
  <2>3. ASSUME NEW delegate \in BOOLEAN
        PROVE  /\ Fine(NewFrame(f.depth + 1, limit, delegate))
               /\ NewFrame(f.depth + 1, limit, delegate).delegate = delegate
    BY <2>1, <2>2, NewFrameSound
  <2> HIDE DEF Fine
  <2>4. Fine(NewFrame(f.depth + 1, limit, FALSE))
        /\ NewFrame(f.depth + 1, limit, FALSE).delegate = FALSE
    BY <2>3, Zenon
  <2> QED BY <2>4 DEF Fine
<1> HIDE DEF g
<1>5. stack' = <<w, g>>
  <2>1. Len(stack) = 1
    BY <1>3 DEF IsRoot
  <2>2. stack' = Append([stack EXCEPT ![1].pc = "wait"], g)
    BY <1>1, <2>1 DEF g
  <2>3. [stack EXCEPT ![1].pc = "wait"] = <<w>>
    BY <1>3, <2>1
  <2> HIDE DEF w
  <2> QED BY <2>2, <2>3, Pair
<1> HIDE DEF f
<1>6. /\ w \in Frame /\ w.pc = "wait" /\ w.total = f.total /\ w.made = f.made
      /\ w.records = f.records /\ w.iter = f.iter /\ w.limit = f.limit
      /\ w.sub0 = f.sub0 /\ w.ex = f.ex /\ w.nested = f.nested
      /\ w.todo = f.todo /\ w.chunks = f.chunks /\ w.batch = f.batch
  BY <1>2 DEF Frame
<1> HIDE DEF w
<1>7. SoundFrame(w) /\ Recorded(w)
  <2>1. /\ w.total = f.total + 0 /\ w.made = f.made + 0 /\ f.ex.sub <= w.ex.sub
        /\ w.ex.sub + Uncounted(w) = (f.ex.sub + Uncounted(f)) + 0
    BY <1>2, <1>6 DEF Uncounted
  <2>2. w.total <= MaxSubCalls /\ w.total < MaxSubCalls
    BY <1>1, <1>2, <1>6, LimitsAssumption DEF f
  <2> QED BY <1>2, <1>6, <2>1, <2>2, Continued
<1>8. /\ stack' \in Seq(Frame) /\ Len(stack') = 2 /\ stack' # <<>>
      /\ DOMAIN stack' = {1, 2} /\ stack'[1] = w /\ stack'[2] = g
  <2>1. g \in Frame
    BY <1>4 DEF SoundFrame
  <2>2. <<w, g>> \in Seq(Frame) /\ <<w, g>> # <<>> /\ Len(<<w, g>>) = 2
    BY <1>6, <2>1
  <2> QED BY <1>5, <2>2
<1>9. Frames'
  <2>1. \A i \in DOMAIN stack' : SoundFrame(stack'[i]) /\ Recorded(stack'[i])
    BY <1>4, <1>7, <1>8
  <2> QED BY <1>8, <2>1 DEF Frames
<1>10. Shape'
  <2>1. Nested(g)
    BY <1>4 DEF Nested
  <2>2. at' = "exec" /\ f.limit = MaxIterations
    BY <1>1, <1>3
  <2>3. at' \in Places /\ at' \notin Early /\ Len(stack') <= 2
    BY <1>8, <2>2 DEF Places, Early
  <2>4. stack'[1].limit = MaxIterations /\ stack'[1].pc = "wait" /\ Nested(stack'[2])
    BY <1>6, <1>8, <2>1, <2>2 DEF Nested
  <2> QED BY <1>8, <2>2, <2>3, <2>4 DEF Shape, Nested
<1>11. Work'
  <2>1. /\ subs \in Nat /\ subs <= f.total * MaxSubCalls + 0
    <3>1. stack # <<>> /\ Len(stack) = 1
      BY <1>2, <1>3, RunningShape DEF IsRoot
    <3> QED BY <1>3, <3>1 DEF QueryInv, Work, f
  <2> QED BY <1>1, <1>4, <1>6, <1>8, <2>1 DEF Work
<1> QED BY <1>1, <1>2, <1>9, <1>10, <1>11, GoesOn

LEMMA NextInv == ASSUME QueryInv, [Next]_vars PROVE QueryInv'
<1>1. CASE Step
  BY <1>1, BypassInv, DirectInv, StartPhasesInv, AssessInv, IndexInv, SelectInv,
     StartLoopInv, StartIterationInv, OutOfCallsInv, RunBatchInv, FinalTextInv,
     NoCommandsInv, ModelFailsInv, LocalCommandInv, EndBatchInv, QueryRefusedInv,
     QueryStepInv, DelegateRefusedInv, DelegateInv, StartReduceInv, ReduceChunkInv,
     EndReduceInv, ExhaustInv, ReturnInv DEF Step
<1>2. CASE UNCHANGED vars
  BY <1>2 DEF vars, QueryInv, Config, Shape, Frames, Work, Phases, Ending, Nested
<1> QED BY <1>1, <1>2 DEF Next, Terminated

-----------------------------------------------------------------------------
(* The properties.                                                         *)

\* QueryInv always holds.
THEOREM QueryIsSound == Spec => []QueryInv
BY InitInv, NextInv, PTL DEF Spec

\* The variables have their types, and a result is there exactly when the query
\* is over or about to return.
THEOREM QueryTypes == Spec => []TypeOK
<1>1. QueryInv => TypeOK
  BY DEF QueryInv, Config, Frames, Work, Phases, Ending, TypeOK
<1> QED BY <1>1, QueryIsSound, PTL

\* At every level the executor's own count stays within the shared count, and
\* the shared count within max_sub_calls, whichever path made the calls
\* (commands/mod.rs, execute_one and the callbacks of orchestrator.rs).
THEOREM BudgetIsKept == Spec => []BudgetKept
<1>1. QueryInv => BudgetKept
  <2> SUFFICES ASSUME QueryInv, NEW i \in DOMAIN stack
               PROVE  stack[i].ex.sub <= stack[i].total /\ stack[i].total <= MaxSubCalls
    BY DEF BudgetKept
  <2>1. SoundFrame(stack[i])
    BY DEF QueryInv, Frames
  <2> DEFINE f == stack[i]
  <2>2. /\ f.ex.sub \in Nat /\ f.total \in Nat /\ f.todo <= f.chunks
        /\ f.ex.sub + Uncounted(f) <= f.total /\ f.total <= MaxSubCalls
        /\ f.todo \in Nat /\ f.chunks \in Nat
    BY <2>1, FrameTyped DEF SoundFrame, Counted
  <2> HIDE DEF f
  <2>3. Uncounted(f) \in Nat
    BY <2>2 DEF Uncounted
  <2>4. f.ex.sub <= f.total /\ f.total <= MaxSubCalls
    BY <2>2, <2>3
  <2> QED BY <2>4 DEF f
<1> QED BY <1>1, QueryIsSound, PTL

\* A whole query asks the sub-providers max_sub_calls times max_sub_calls at
\* most: every call of the root may be a nested query with a budget of its own.
THEOREM WorkIsBounded == Spec => []WorkBounded
<1>1. QueryInv => WorkBounded
  <2> SUFFICES ASSUME QueryInv PROVE subs <= MaxSubCalls * MaxSubCalls
    BY DEF WorkBounded
  <2> DEFINE M == MaxSubCalls
  <2>1. /\ M \in Nat /\ M * M \in Nat /\ subs \in Nat
    BY LimitsAssumption DEF QueryInv, Work
  <2> HIDE DEF M
  <2>2. CASE stack = <<>>
    BY <2>1, <2>2 DEF QueryInv, Work, M
  <2>3. CASE stack # <<>>
    <3>1. (Len(stack) = 1 \/ Len(stack) = 2) /\ stack \in Seq(Frame)
      BY <2>3, OneOrTwo DEF QueryInv, Shape, Frames
    <3>2. 1 \in DOMAIN stack /\ (Len(stack) = 2 => 2 \in DOMAIN stack)
      BY <3>1, LenProperties
    <3> DEFINE t == stack[1].total
    <3>3. t \in Nat /\ t <= M /\ SoundFrame(stack[1])
      BY <3>2, FrameTyped DEF QueryInv, Frames, SoundFrame, Counted, M
    <3>4. subs <= t * M + IF Len(stack) = 2 THEN stack[2].total ELSE 0
      BY <2>3 DEF QueryInv, Work, M
    <3>5. CASE Len(stack) = 1
      <4>1. t * M + (M - t) <= M * M
        BY <2>1, <3>3, Weighted
      <4>2. subs <= t * M + 0
        BY <3>4, <3>5
      <4>3. t * M \in Nat
        BY <2>1, <3>3
      <4> QED BY <2>1, <3>3, <4>1, <4>2, <4>3 DEF M
    <3>6. CASE Len(stack) = 2
      <4> DEFINE n == stack[2].total
      <4>1. SoundFrame(stack[2]) /\ stack[1].pc = "wait"
        BY <3>2, <3>6 DEF QueryInv, Frames, Shape
      <4>2. n \in Nat /\ n <= M /\ t < M
        BY <3>3, <4>1, FrameTyped DEF SoundFrame, Counted, M
      <4>3. subs <= t * M + n
        BY <3>4, <3>6
      <4> HIDE DEF t, n
      <4>4. (t + 1) * M + (M - (t + 1)) <= M * M /\ t + 1 \in Nat /\ t + 1 <= M
        <5>1. t + 1 \in Nat /\ t + 1 <= M
          BY <2>1, <3>3, <4>2
        <5> QED BY <2>1, <5>1, Weighted
      <4>5. (t + 1) * M = t * M + M /\ t * M \in Nat
        BY <2>1, <3>3
      <4> QED BY <2>1, <3>3, <4>2, <4>3, <4>4, <4>5 DEF M
    <3> QED BY <3>1, <3>5, <3>6
  <2> QED BY <2>2, <2>3
<1> QED BY <1>1, QueryIsSound, PTL

\* The result of a query that was answered or ran out of iterations accounts
\* for the run: one record per iteration, and every call in one of them.
THEOREM ResultIsAccounted == Spec => []ResultAccounts
<1>1. QueryInv => ResultAccounts
  BY DEF QueryInv, Ending, Accounts, FaithfulRecords, FaithfulRecord, ResultAccounts
<1> QED BY <1>1, QueryIsSound, PTL

-----------------------------------------------------------------------------
(* What the observer is told.                                              *)

ToolEvents ==
  {"cli_codegen_start", "wasm_compile_start", "delegate_start",
   "cli_codegen_complete", "cli_compile_start", "cli_compile_complete",
   "wasm_compile_complete", "cli_run_complete", "wasm_run_complete",
   "nested_iteration", "delegate_failed", "delegate_succeeded",
   "reduce_start", "reduce_chunk_start", "reduce_chunk_complete"}
QueryEvents ==
  {"phased_start", "phase_start", "phase_complete", "query_start",
   "iteration_start", "llm_start", "llm_complete", "commands",
   "command_complete", "iteration_complete", "final_answer", "complete"}
Events == ToolEvents \union QueryEvents

\* The events of the loop keep their kind, the others are tool events.
LEMMA KindOfEvents ==
  /\ \A event \in ToolEvents : Kind(event) = "tool"
  /\ \A event \in QueryEvents : Kind(event) = event
BY DEF Kind, ToolEvents, QueryEvents

\* The kinds of a few events in a row.
LEMMA KindsOfNone == Kinds(<<>>) = <<>>
BY DEF Kinds

LEMMA KindsOfOne == \A a : Kinds(<<a>>) = <<Kind(a)>>
<1> TAKE a
<1> DEFINE s == Kinds(<<a>>)
           t == <<Kind(a)>>
           S == {Kind(a)}
<1>1. s \in [1..1 -> S] /\ t \in Seq(S) /\ Len(t) = 1 /\ s[1] = t[1]
  BY DEF Kinds
<1>2. s \in Seq(S) /\ Len(s) = 1
  BY <1>1, FunctionIsSeq
<1> HIDE DEF s, t, S
<1>3. s = t
  BY <1>1, <1>2, SeqEqual
<1> QED BY <1>3 DEF s, t

LEMMA KindsOfTwo == \A a, b : Kinds(<<a, b>>) = <<Kind(a), Kind(b)>>
<1> TAKE a, b
<1> DEFINE s == Kinds(<<a, b>>)
           t == <<Kind(a), Kind(b)>>
           S == {Kind(a), Kind(b)}
<1>1. /\ s \in [1..2 -> S] /\ t \in Seq(S) /\ Len(t) = 2
      /\ s[1] = t[1] /\ s[2] = t[2]
  BY DEF Kinds
<1> HIDE DEF s, t, S
<1>2. s \in Seq(S) /\ Len(s) = 2
  <2>1. 2 \in Nat /\ s \in [1..2 -> S]
    BY <1>1
  <2> QED BY <2>1, FunctionIsSeq
<1>3. ASSUME NEW i \in 1..Len(s) PROVE s[i] = t[i]
  <2>1. i = 1 \/ i = 2
    BY <1>2
  <2> QED BY <1>1, <2>1
<1>4. s = t
  BY <1>1, <1>2, <1>3, SeqEqual
<1> QED BY <1>4 DEF s, t

\* The events of the loop itself are told as they are.
LEMMA KindsOfQuery == \A s \in Seq(QueryEvents) : Kinds(s) = s
<1> TAKE s \in Seq(QueryEvents)
<1>1. /\ DOMAIN s = 1..Len(s) /\ Len(s) \in Nat
      /\ \A i \in 1..Len(s) : s[i] \in QueryEvents
  BY LenProperties
<1>2. /\ Kinds(s) \in [1..Len(s) -> QueryEvents]
      /\ \A i \in 1..Len(s) : Kinds(s)[i] = s[i]
  BY <1>1, KindOfEvents DEF Kinds
<1>3. Kinds(s) \in Seq(QueryEvents) /\ Len(Kinds(s)) = Len(s)
  <2> HIDE DEF Kinds
  <2> QED BY <1>1, <1>2, FunctionIsSeq
<1> QED BY <1>2, <1>3, SeqEqual

\* The kinds of one burst after another.
LEMMA KindsOfBoth ==
  ASSUME NEW s \in Seq(Events), NEW t \in Seq(Events)
  PROVE  Kinds(s \o t) = Kinds(s) \o Kinds(t)
<1> DEFINE S == {Kind(event) : event \in Events}
           u == Kinds(s \o t)
           v == Kinds(s) \o Kinds(t)
<1>1. \A r \in Seq(Events) : /\ Kinds(r) \in Seq(S) /\ Len(Kinds(r)) = Len(r)
                             /\ \A i \in 1..Len(r) : Kinds(r)[i] = Kind(r[i])
  <2> TAKE r \in Seq(Events)
  <2>1. DOMAIN r = 1..Len(r) /\ Len(r) \in Nat /\ \A i \in 1..Len(r) : r[i] \in Events
    BY LenProperties
  <2>2. Kinds(r) \in [1..Len(r) -> S]
    BY <2>1 DEF Kinds
  <2>3. Kinds(r) \in Seq(S) /\ Len(Kinds(r)) = Len(r)
    <3> HIDE DEF S
    <3> QED BY <2>1, <2>2, FunctionIsSeq
  <2>4. \A i \in 1..Len(r) : Kinds(r)[i] = Kind(r[i])
    BY <2>1 DEF Kinds
  <2> QED BY <2>3, <2>4
<1> HIDE DEF S
<1>2. /\ s \o t \in Seq(Events) /\ Len(s \o t) = Len(s) + Len(t)
      /\ \A i \in 1..(Len(s) + Len(t)) :
           (s \o t)[i] = IF i <= Len(s) THEN s[i] ELSE t[i - Len(s)]
      /\ Len(s) \in Nat /\ Len(t) \in Nat
  BY ConcatProperties, LenProperties
<1>3. /\ v \in Seq(S) /\ Len(v) = Len(s) + Len(t)
      /\ \A i \in 1..(Len(s) + Len(t)) :
           v[i] = IF i <= Len(s) THEN Kinds(s)[i] ELSE Kinds(t)[i - Len(s)]
  <2> DEFINE a == Kinds(s)
             b == Kinds(t)
  <2>1. a \in Seq(S) /\ b \in Seq(S) /\ Len(a) = Len(s) /\ Len(b) = Len(t)
    BY <1>1
  <2> HIDE DEF a, b
  <2>2. /\ a \o b \in Seq(S) /\ Len(a \o b) = Len(a) + Len(b)
        /\ \A i \in 1..(Len(a) + Len(b)) :
             (a \o b)[i] = IF i <= Len(a) THEN a[i] ELSE b[i - Len(a)]
    BY <2>1, ConcatProperties
  <2>3. v = a \o b
    BY DEF a, b
  <2> HIDE DEF v
  <2>4. /\ v \in Seq(S) /\ Len(v) = Len(s) + Len(t)
        /\ \A i \in 1..(Len(s) + Len(t)) :
             v[i] = IF i <= Len(s) THEN a[i] ELSE b[i - Len(s)]
    BY <2>1, <2>2, <2>3
  <2> QED BY <2>4 DEF a, b
<1>4. /\ u \in Seq(S) /\ Len(u) = Len(s) + Len(t)
      /\ \A i \in 1..(Len(s) + Len(t)) : u[i] = Kind((s \o t)[i])
  BY <1>1, <1>2
<1>5. ASSUME NEW i \in 1..Len(u) PROVE u[i] = v[i]
  <2>1. i \in 1..(Len(s) + Len(t))
    BY <1>4
  <2>2. CASE i <= Len(s)
    <3>1. i \in 1..Len(s)
      BY <1>2, <2>1, <2>2
    <3> QED BY <1>1, <1>2, <1>3, <1>4, <2>1, <2>2, <3>1
  <2>3. CASE ~(i <= Len(s))
    <3>1. i - Len(s) \in 1..Len(t)
      BY <1>2, <2>1, <2>3
    <3> QED BY <1>1, <1>2, <1>3, <1>4, <2>1, <2>3, <3>1
  <2> QED BY <2>2, <2>3
<1> HIDE DEF u, v
<1>6. u = v
  BY <1>3, <1>4, <1>5, SeqEqual
<1> QED BY <1>6 DEF u, v

\* A burst of tool events.
LEMMA ToolBurst ==
  ASSUME NEW s \in Seq(ToolEvents), Len(s) <= MaxTools
  PROVE  Kinds(s) \in P!ToolBursts /\ s \in Seq(Events)
<1>1. Len(s) \in Nat /\ DOMAIN s = 1..Len(s) /\ s \in [1..Len(s) -> ToolEvents]
  BY LenProperties
<1>2. Len(s) \in 0..MaxTools
  BY <1>1, MaxToolsAssumption
<1>3. Kinds(s) \in [1..Len(s) -> {"tool"}]
  BY <1>1, KindOfEvents DEF Kinds
<1>4. s \in Seq(Events)
  <2>1. s \in [1..Len(s) -> Events]
    BY <1>1 DEF Events
  <2> QED BY <1>1, <2>1, FunctionIsSeq
<1> QED BY <1>2, <1>3, <1>4 DEF P!ToolBursts

\* At most n tool events.
UpTo(s, n) == s \in Seq(ToolEvents) /\ Len(s) <= n

LEMMA UpToBoth ==
  ASSUME NEW m \in Nat, NEW n \in Nat, NEW s, UpTo(s, m), NEW t, UpTo(t, n)
  PROVE  UpTo(s \o t, m + n)
<1>1. s \in Seq(ToolEvents) /\ t \in Seq(ToolEvents) /\ Len(s) <= m /\ Len(t) <= n
  BY DEF UpTo
<1>2. /\ s \o t \in Seq(ToolEvents) /\ Len(s \o t) = Len(s) + Len(t)
      /\ Len(s) \in Nat /\ Len(t) \in Nat
  BY <1>1, ConcatProperties, LenProperties
<1> QED BY <1>1, <1>2 DEF UpTo

LEMMA UpToIf ==
  ASSUME NEW n \in Nat, NEW s, UpTo(s, n), NEW p
  PROVE  UpTo(If(p, s), n) /\ (~p => UpTo(If(p, s), 0))
<1>1. UpTo(<<>>, 0) /\ UpTo(<<>>, n)
  BY EmptySeq DEF UpTo
<1> QED BY <1>1 DEF If

LEMMA UpToOne == \A event \in ToolEvents : UpTo(<<event>>, 1)
BY DEF UpTo

LEMMA UpToTwoEvents == \A a, b \in ToolEvents : UpTo(<<a, b>>, 2)
BY DEF UpTo

\* A batch reports five tool events at most.
LEMMA ToolReportShort ==
  ASSUME NEW ops, NEW timing
  PROVE  UpTo(ToolReport(ops, timing), 5)
<1> DEFINE cli == MentionsCli(ops)
           a == If(cli /\ timing["codegen"] > 0, <<"cli_codegen_complete">>)
           b == If(cli /\ timing["compile"] > 0,
                   <<"cli_compile_start", "cli_compile_complete">>)
           c == If(~cli /\ MentionsWasm(ops) /\ timing["compile"] > 0,
                   <<"wasm_compile_complete">>)
           d == If(timing["cli"] > 0, <<"cli_run_complete">>)
           e == If(timing["wasm"] > 0, <<"wasm_run_complete">>)
<1>1. /\ "cli_codegen_complete" \in ToolEvents /\ "cli_compile_start" \in ToolEvents
      /\ "cli_compile_complete" \in ToolEvents /\ "wasm_compile_complete" \in ToolEvents
      /\ "cli_run_complete" \in ToolEvents /\ "wasm_run_complete" \in ToolEvents
  BY DEF ToolEvents
<1>2. UpTo(a, 1) /\ (~cli => UpTo(a, 0))
  BY <1>1, UpToOne, UpToIf
<1>3. UpTo(b, 2) /\ (~cli => UpTo(b, 0))
  BY <1>1, UpToTwoEvents, UpToIf
<1>4. UpTo(c, 1) /\ (cli => UpTo(c, 0))
  BY <1>1, UpToOne, UpToIf
<1>5. UpTo(d, 1) /\ UpTo(e, 1)
  BY <1>1, UpToOne, UpToIf
<1>6. ToolReport(ops, timing) = (((a \o b) \o c) \o d) \o e
  BY DEF ToolReport
<1> HIDE DEF a, b, c, d, e, cli
<1>7. UpTo((a \o b) \o c, 3)
  <2>1. CASE cli
    <3>1. UpTo(a \o b, 3)
      BY <1>2, <1>3, UpToBoth
    <3>2. UpTo((a \o b) \o c, 3 + 0)
      BY <1>4, <2>1, <3>1, UpToBoth
    <3> QED BY <3>2
  <2>2. CASE ~cli
    <3>1. UpTo(a \o b, 0 + 0)
      BY <1>2, <1>3, <2>2, UpToBoth
    <3>2. UpTo((a \o b) \o c, 0 + 1)
      BY <1>4, <3>1, UpToBoth
    <3>3. (a \o b) \o c \in Seq(ToolEvents)
      BY <3>2 DEF UpTo
    <3> QED BY <3>2, <3>3, LenProperties DEF UpTo
  <2> QED BY <2>1, <2>2
<1>8. UpTo(((a \o b) \o c) \o d, 3 + 1)
  BY <1>5, <1>7, UpToBoth
<1>9. UpTo((((a \o b) \o c) \o d) \o e, 4 + 1)
  BY <1>5, <1>8, UpToBoth
<1> QED BY <1>6, <1>9

\* A delegation reports its iterations and its end.
LEMMA DelegationReportShort ==
  ASSUME NEW nested \in Seq(BOOLEAN)
  PROVE  /\ nested = <<>> => UpTo(DelegationReport(nested), 0)
         /\ UpTo(DelegationReport(nested), Len(nested) + 1)
<1> DEFINE s == [i \in DOMAIN nested |-> "nested_iteration"]
           last == IF nested # <<>> /\ nested[Len(nested)] THEN "delegate_failed"
                   ELSE "delegate_succeeded"
<1>1. /\ "nested_iteration" \in ToolEvents
      /\ "delegate_failed" \in ToolEvents /\ "delegate_succeeded" \in ToolEvents
  BY DEF ToolEvents
<1>2. Len(nested) \in Nat /\ DOMAIN nested = 1..Len(nested)
  BY LenProperties
<1>3. UpTo(s, Len(nested))
  <2>1. s \in [1..Len(nested) -> ToolEvents]
    BY <1>1, <1>2
  <2> HIDE DEF s
  <2>2. s \in Seq(ToolEvents) /\ Len(s) = Len(nested)
    BY <1>2, <2>1, FunctionIsSeq
  <2> QED BY <1>2, <2>2 DEF UpTo
<1>4. UpTo(<<last>>, 1)
  BY <1>1, UpToOne
<1>5. DelegationReport(nested) = If(nested # <<>>, s \o <<last>>)
  BY DEF DelegationReport
<1> HIDE DEF s, last
<1>6. UpTo(s \o <<last>>, Len(nested) + 1) /\ Len(nested) + 1 \in Nat
  BY <1>2, <1>3, <1>4, UpToBoth
<1> QED BY <1>5, <1>6, UpToIf

\* The report of a batch, and the chunk that failed before it, fit a burst.
LEMMA ReportShort ==
  ASSUME NEW f, Ready(f)
  PROVE  /\ UpTo(Report(f), MaxTools)
         /\ UpTo(<<"reduce_chunk_start">> \o Report(f), MaxTools)
<1> DEFINE a == ToolReport(f.ops, f.ex.timing)
           b == DelegationReport(f.nested)
           c == <<"reduce_chunk_start">>
<1>1. f.nested \in Seq(BOOLEAN) /\ Len(f.nested) \in Nat
  BY FrameTyped, LenProperties DEF Ready
<1>2. UpTo(a, 5) /\ UpTo(c, 1)
  <2>1. "reduce_chunk_start" \in ToolEvents
    BY DEF ToolEvents
  <2> QED BY <2>1, ToolReportShort, UpToOne
<1>3. PICK n \in Nat : UpTo(b, n) /\ n + 6 <= MaxTools
  <2>1. CASE f.nested = <<>>
    <3>1. UpTo(b, 0)
      BY <1>1, <2>1, DelegationReportShort
    <3>2. 0 \in Nat /\ 0 + 6 <= MaxTools
      BY MaxToolsAssumption
    <3> QED BY <3>1, <3>2
  <2>2. CASE f.nested # <<>>
    <3>1. Len(f.nested) + 7 <= MaxTools
      BY <2>2 DEF Ready
    <3>2. UpTo(b, Len(f.nested) + 1)
      BY <1>1, DelegationReportShort
    <3>3. Len(f.nested) + 1 \in Nat /\ (Len(f.nested) + 1) + 6 <= MaxTools
      BY <1>1, <3>1, MaxToolsAssumption
    <3> QED BY <3>2, <3>3
  <2> QED BY <2>1, <2>2
<1>4. Report(f) = a \o b
  BY DEF Report
<1> HIDE DEF a, b, c
<1>5. UpTo(a \o b, 5 + n)
  BY <1>2, <1>3, UpToBoth
<1>6. UpTo(c \o (a \o b), 1 + (5 + n))
  BY <1>2, <1>5, UpToBoth
<1>7. \A s, k : UpTo(s, k) /\ k \in Nat /\ k <= MaxTools => UpTo(s, MaxTools)
  BY LenProperties, MaxToolsAssumption DEF UpTo
<1>8. UpTo(a \o b, MaxTools)
  BY <1>3, <1>5, <1>7, MaxToolsAssumption
<1>9. UpTo(c \o (a \o b), MaxTools)
  BY <1>3, <1>6, <1>7, MaxToolsAssumption
<1> QED BY <1>4, <1>8, <1>9 DEF c

-----------------------------------------------------------------------------
(* Rlm implements Progress.                                                *)

\* The variables of Progress, in terms of the query's.
AbsStep == IF stack = <<>> THEN 0 ELSE stack[1].iter
AbsOutcome == IF result.kind = "bypassed" THEN "answered" ELSE result.kind
AbsBurst == Kinds(burst)

\* A burst with tool events before, or after, events of the loop.
LEMMA BurstOf ==
  ASSUME NEW s, UpTo(s, MaxTools), NEW q \in Seq(QueryEvents)
  PROVE  /\ Kinds(s) \in P!ToolBursts
         /\ Kinds(s \o q) = Kinds(s) \o q
         /\ Kinds(q \o s) = q \o Kinds(s)
<1>1. Kinds(s) \in P!ToolBursts /\ s \in Seq(Events)
  BY ToolBurst DEF UpTo
<1>2. Kinds(q) = q
  BY KindsOfQuery
<1>3. q \in Seq(Events)
  <2>1. q \in [1..Len(q) -> Events] /\ Len(q) \in Nat
    BY LenProperties DEF Events
  <2> QED BY <2>1, FunctionIsSeq
<1> QED BY <1>1, <1>2, <1>3, KindsOfBoth

\* No tool events are a burst of tool events.
LEMMA NoTools == Kinds(<<>>) = <<>> /\ <<>> \in P!ToolBursts
<1>1. <<>> \in Seq(ToolEvents) /\ Len(<<>>) = 0 /\ 0 <= MaxTools
  BY EmptySeq, MaxToolsAssumption
<1> QED BY <1>1, ToolBurst, KindsOfNone

\* The root's iteration, when the loop on top goes on.
LEMMA TopKeepsStep ==
  ASSUME QueryInv, at \in Running, NEW g, SetTop(g)
  PROVE  /\ ~IsRoot => AbsStep' = AbsStep
         /\ IsRoot => AbsStep' = g.iter /\ AbsStep = Top.iter
<1>1. stack \in Seq(Frame) /\ (Len(stack) = 1 \/ Len(stack) = 2) /\ stack # <<>>
  BY RunningShape
<1>2. DOMAIN stack = 1..Len(stack) /\ stack' = [stack EXCEPT ![Len(stack)] = g]
  BY <1>1, LenProperties DEF SetTop
<1>3. 1 \in DOMAIN stack' /\ stack' # <<>>
  BY <1>1, <1>2
<1>4. CASE Len(stack) = 1
  BY <1>1, <1>2, <1>3, <1>4 DEF AbsStep, IsRoot, Top
<1>5. CASE Len(stack) = 2
  BY <1>1, <1>2, <1>3, <1>5 DEF AbsStep, IsRoot, Top
<1> QED BY <1>1, <1>4, <1>5

LEMMA PopKeepsStep ==
  ASSUME QueryInv, at \in Running, ~IsRoot, NEW g, Pop(g), g.iter = Parent.iter
  PROVE  AbsStep' = AbsStep
<1>1. /\ stack \in Seq(Frame) /\ Len(stack) = 2 /\ stack # <<>>
      /\ Parent = stack[1]
  BY RunningShape DEF IsRoot
<1>2. stack' = <<g>>
  BY <1>1 DEF Pop
<1>3. stack' # <<>> /\ stack'[1] = g
  BY <1>2
<1> QED BY <1>1, <1>3 DEF AbsStep

\* The events of a step, as Progress sees them.
LEMMA Moves ==
  ASSUME NEW from, NEW to, at = from, at' = to
  PROVE  P!Move(from, to, Kinds(burst'))
BY DEF P!Move, Kinds

LEMMA Stays ==
  ASSUME AbsStep' = AbsStep, AbsOutcome' = AbsOutcome
  PROVE  P!Same
BY DEF P!Same, AbsStep, AbsOutcome

LEMMA SameResult ==
  ASSUME UNCHANGED result
  PROVE  AbsOutcome' = AbsOutcome
BY DEF AbsOutcome

\* Before the loop starts, a step of the query is the same step of Progress.
LEMMA BypassMaps == ASSUME QueryInv, Bypass PROVE P!Bypass
<1>1. /\ at = "start" /\ at' = "direct" /\ burst' = <<>>
      /\ AbsStep' = AbsStep /\ AbsOutcome' = AbsOutcome
  BY DEF Bypass, AbsStep, AbsOutcome
<1>2. Kinds(burst') = <<>>
  BY <1>1, KindsOfNone
<1> QED BY <1>1, <1>2, Moves, Stays DEF P!Bypass

\* A query that fails emits nothing.
LEMMA FailMaps ==
  ASSUME NEW kind \in {"error", "panic"}, NEW places, at \in places,
         Close(Failure(kind)), burst' = <<>>, UNCHANGED stack
  PROVE  P!Fail(kind, places)
<1>1. at' = "closed" /\ AbsOutcome' = kind /\ AbsStep' = AbsStep
  BY DEF Close, Failure, AbsOutcome, AbsStep
<1>2. Kinds(burst') = <<>>
  BY KindsOfNone
<1> QED BY <1>1, <1>2 DEF P!Fail, AbsOutcome, AbsStep, Kinds

LEMMA DirectMaps ==
  ASSUME QueryInv, Direct
  PROVE  P!DirectAnswer \/ P!Fail("error", {"direct", "phase1", "phase3", "llm"})
<1>1. at = "direct" /\ at' = "closed" /\ burst' = <<>> /\ UNCHANGED stack
  BY DEF Direct, Close
<1>2. CASE Close(Failure("error"))
  <2>1. at \in {"direct", "phase1", "phase3", "llm"}
    BY <1>1
  <2> QED BY <1>1, <1>2, <2>1, FailMaps
<1>3. CASE result'.kind = "bypassed"
  <2>1. AbsOutcome' = "answered" /\ AbsStep' = AbsStep
    BY <1>1, <1>3 DEF AbsOutcome, AbsStep
  <2>2. P!Move("direct", "closed", <<>>)
    <3>1. Kinds(burst') = <<>>
      BY <1>1, KindsOfNone
    <3> QED BY <1>1, <3>1, Moves
  <2> QED BY <2>1, <2>2 DEF P!DirectAnswer, AbsOutcome, AbsStep
<1> QED BY <1>2, <1>3 DEF Direct, Close

LEMMA StartPhasesMaps == ASSUME QueryInv, StartPhases PROVE P!StartPhases
<1>1. /\ at = "start" /\ at' = "phase1" /\ burst' = <<"phased_start", "phase_start">>
      /\ AbsStep' = AbsStep /\ AbsOutcome' = AbsOutcome
  BY DEF StartPhases, AbsStep, AbsOutcome
<1>2. Kinds(burst') = <<"phased_start", "phase_start">>
  <2>1. <<"phased_start", "phase_start">> \in Seq(QueryEvents)
    BY DEF QueryEvents
  <2> QED BY <1>1, <2>1, KindsOfQuery
<1> QED BY <1>1, <1>2, Moves, Stays DEF P!StartPhases

LEMMA NextPhaseMaps ==
  ASSUME NEW from, NEW to, NEW calls, NextPhase(from, to, calls)
  PROVE  P!NextPhase(from, to)
<1>1. /\ at = from /\ at' = to /\ burst' = <<"phase_complete", "phase_start">>
      /\ AbsStep' = AbsStep /\ AbsOutcome' = AbsOutcome
  BY DEF NextPhase, AbsStep, AbsOutcome
<1>2. Kinds(burst') = <<"phase_complete", "phase_start">>
  <2>1. <<"phase_complete", "phase_start">> \in Seq(QueryEvents)
    BY DEF QueryEvents
  <2> QED BY <1>1, <2>1, KindsOfQuery
<1> QED BY <1>1, <1>2, Moves, Stays DEF P!NextPhase

LEMMA PhaseFailsMaps ==
  ASSUME NEW place, NEW kind \in {"error", "panic"}, NEW places, place \in places,
         PhaseFails(place, kind)
  PROVE  P!Fail(kind, places)
BY FailMaps DEF PhaseFails

LEMMA PhasesMap ==
  ASSUME QueryInv, Assess \/ Index \/ Select
  PROVE  P!ProgressNext
<1> DEFINE asks == {"direct", "phase1", "phase3", "llm"}
           cuts == {"phase2", "phase3", "exec"}
<1>1. CASE NextPhase("phase1", "phase2", 1) \/ NextPhase("phase2", "phase3", 0)
             \/ NextPhase("phase3", "phase4", 1)
  BY <1>1, NextPhaseMaps DEF P!ProgressNext
<1>2. CASE PhaseFails("phase1", "error") \/ PhaseFails("phase3", "error")
  <2>1. P!Fail("error", asks)
    BY <1>2, PhaseFailsMaps
  <2> QED BY <2>1 DEF P!ProgressNext
<1>3. CASE PhaseFails("phase2", "panic") \/ PhaseFails("phase3", "panic")
  <2>1. P!Fail("panic", cuts)
    BY <1>3, PhaseFailsMaps
  <2> QED BY <2>1 DEF P!ProgressNext
<1> QED BY <1>1, <1>2, <1>3 DEF Assess, Index, Select

\* The loop starts with one frame that has started no iteration.
LEMMA StartLoopMaps == ASSUME QueryInv, StartLoop PROVE P!StartLoop
<1> DEFINE first == <<"query_start">>
           fifth == <<"phase_complete", "phase_start", "query_start">>
<1>1. /\ at \in {"start", "phase4"} /\ at' = "loop" /\ stack = <<>>
      /\ AbsOutcome' = AbsOutcome
      /\ burst' = IF at = "start" THEN first ELSE fifth
  BY DEF StartLoop, AbsOutcome, QueryInv, Shape, Early
<1>2. AbsStep' = AbsStep
  <2>1. /\ stack' = <<NewFrame(0, MaxIterations, Delegation)>>
        /\ NewFrame(0, MaxIterations, Delegation).iter = 0
    BY DEF StartLoop, NewFrame
  <2>2. stack' # <<>> /\ stack'[1].iter = 0
    BY <2>1
  <2> QED BY <1>1, <2>2 DEF AbsStep
<1>3. Kinds(first) = first /\ Kinds(fifth) = fifth
  <2>1. first \in Seq(QueryEvents) /\ fifth \in Seq(QueryEvents)
    BY DEF QueryEvents
  <2> QED BY <2>1, KindsOfQuery
<1>4. Kinds(burst') = IF at = "start" THEN first ELSE fifth
  BY <1>1, <1>3
<1>5. P!Move(at, "loop", Kinds(burst')) /\ P!Same
  BY <1>1, <1>2, Moves, Stays
<1> QED BY <1>1, <1>4, <1>5 DEF P!StartLoop

\* The kinds of step a running query makes, in terms of the loop on top.  While
\* a nested query runs, the root waits and its observer is told nothing.
LEMMA NestedStays ==
  ASSUME QueryInv, at \in Running, ~IsRoot, at' = at,
         AbsStep' = AbsStep, UNCHANGED result, burst' = <<>>
  PROVE  P!ProgressNext
<1>1. at = "exec" /\ at' = "exec"
  BY RunningShape
<1>2. Kinds(burst') = <<>> /\ <<>> \in P!ToolBursts
  BY NoTools
<1>3. P!Move("exec", "exec", <<>>) /\ P!Same
  BY <1>1, <1>2, Moves, Stays, SameResult
<1> QED BY <1>2, <1>3 DEF P!ProgressNext, P!RunTool

\* A step in the middle of a batch.
LEMMA ToolRuns ==
  ASSUME QueryInv, at = "exec", at' = "exec", UpTo(burst', MaxTools),
         AbsStep' = AbsStep, UNCHANGED result
  PROVE  P!ProgressNext
<1>1. Kinds(burst') \in P!ToolBursts
  BY ToolBurst DEF UpTo
<1>2. P!Move("exec", "exec", Kinds(burst')) /\ P!Same
  BY Moves, Stays, SameResult
<1> QED BY <1>1, <1>2 DEF P!ProgressNext, P!RunTool

LEMMA NothingFits == UpTo(<<>>, MaxTools)
BY EmptySeq, MaxToolsAssumption DEF UpTo

\* The root loop stands at the batch when it executes one.
LEMMA RootExecutes ==
  ASSUME QueryInv, at \in Running, Top.pc \in {"exec", "reduce", "wait"}
  PROVE  at = "exec"
BY RunningShape DEF RootFits

LEMMA RecordKeepsIter ==
  \A f \in Frame : \A err, sub : Record(f, err, sub).iter = f.iter
BY DEF Record, Frame

\* A batch that is over.
LEMMA IterationEnds ==
  ASSUME QueryInv, at = "exec", at' = "loop", NEW s, UpTo(s, MaxTools),
         burst' = s \o <<"command_complete", "iteration_complete">>,
         AbsStep' = AbsStep, UNCHANGED result
  PROVE  P!ProgressNext
<1> DEFINE q == <<"command_complete", "iteration_complete">>
<1>1. q \in Seq(QueryEvents)
  BY DEF QueryEvents
<1>2. Kinds(s) \in P!ToolBursts /\ Kinds(burst') = Kinds(s) \o q
  <2> HIDE DEF q
  <2> QED BY <1>1, BurstOf DEF q
<1>3. P!Move("exec", "loop", Kinds(s) \o q) /\ P!Same
  BY <1>2, Moves, Stays, SameResult
<1> QED BY <1>2, <1>3 DEF P!ProgressNext, P!EndIteration

\* The loop on top ends its iteration, whichever loop it is.
LEMMA TopEnds ==
  ASSUME QueryInv, at \in Running, Top.pc \in {"exec", "reduce"},
         NEW g, SetTop(g), g.iter = Top.iter, Go("loop"), UNCHANGED result,
         NEW s, UpTo(s, MaxTools),
         Emit(s \o <<"command_complete", "iteration_complete">>)
  PROVE  P!ProgressNext
<1>1. AbsStep' = AbsStep /\ at = "exec"
  BY TopKeepsStep, RootExecutes
<1>2. CASE IsRoot
  <2>1. at' = "loop" /\ burst' = s \o <<"command_complete", "iteration_complete">>
    BY <1>2 DEF Go, Emit, If
  <2> QED BY <1>1, <2>1, IterationEnds
<1>3. CASE ~IsRoot
  BY <1>1, <1>3, NestedStays DEF Go, Emit, If
<1> QED BY <1>2, <1>3

\* The batch of the loop on top ends, well or badly.
LEMMA BatchEndsMaps ==
  \A f, err : /\ QueryInv /\ at \in Running /\ Top.pc \in {"exec", "reduce"}
              /\ Ready(f) /\ f.iter = Top.iter /\ BatchEnds(f, err)
              => P!ProgressNext
<1> SUFFICES ASSUME NEW f, NEW err,
                    QueryInv, at \in Running, Top.pc \in {"exec", "reduce"},
                    Ready(f), f.iter = Top.iter, BatchEnds(f, err)
             PROVE  P!ProgressNext
  BY Zenon
<1> DEFINE g == Record(f, err, IF err THEN 0 ELSE f.ex.sub - f.sub0)
<1>1. /\ SetTop(g) /\ Go("loop") /\ UNCHANGED result
      /\ Emit(Report(f) \o <<"command_complete", "iteration_complete">>)
  BY Zenon DEF BatchEnds
<1>2. g.iter = Top.iter
  <2>1. f \in Frame
    BY DEF Ready
  <2> QED BY <2>1, RecordKeepsIter, Zenon
<1>3. UpTo(Report(f), MaxTools)
  BY ReportShort
<1> HIDE DEF g
<1> QED BY <1>1, <1>2, <1>3, TopEnds

\* A nested query returns: its events are only told when its batch ends.
LEMMA NestedReturnsMaps ==
  ASSUME QueryInv, at \in Running, ~IsRoot, NEW records, NestedReturns(records)
  PROVE  P!ProgressNext
<1> DEFINE f == Parent
           c == [f EXCEPT !.total = @ + 1, !.made = @ + 1]
           g == Resumed(c, records)
<1>1. Pop(g) /\ at' = at /\ burst' = <<>> /\ UNCHANGED result
  BY DEF NestedReturns
<1>2. SoundFrame(f) /\ Recorded(f) /\ f.pc = "wait"
  BY RunningShape
<1> HIDE DEF f
<1>3. c \in Frame /\ c.iter = f.iter
  BY <1>2, CountedIsReady DEF Ready
<1> HIDE DEF c
<1>4. g.iter = f.iter
  BY <1>3 DEF Resumed, Frame
<1> HIDE DEF g
<1>5. AbsStep' = AbsStep
  BY <1>1, <1>4, PopKeepsStep DEF f
<1> QED BY <1>1, <1>5, NestedStays

LEMMA StartIterationMaps == ASSUME QueryInv, StartIteration PROVE P!ProgressNext
<1> DEFINE f == Top
           g == [f EXCEPT !.pc = "llm", !.iter = @ + 1, !.made = 0]
           q == <<"iteration_start", "llm_start">>
<1>1. /\ at \in Running /\ f.pc = "iterate" /\ f.iter < f.limit
      /\ SetTop(g) /\ Go("llm") /\ Emit(q) /\ UNCHANGED result
  BY DEF StartIteration, Loop, Running
<1>2. f \in Frame
  BY <1>1, RunningShape DEF SoundFrame
<1>3. g.iter = f.iter + 1
  <2> HIDE DEF f
  <2> QED BY <1>2 DEF Frame
<1>4. /\ ~IsRoot => AbsStep' = AbsStep
      /\ IsRoot => AbsStep' = g.iter /\ AbsStep = f.iter
  <2> HIDE DEF g
  <2> QED BY <1>1, TopKeepsStep
<1>5. CASE IsRoot
  <2>1. at = "loop" /\ f.limit = MaxIterations
    BY <1>1, <1>5, RunningShape DEF RootFits
  <2>2. q \in Seq(QueryEvents)
    BY DEF QueryEvents
  <2>3. Kinds(burst') = q /\ at' = "llm"
    BY <1>1, <1>5, <2>2, KindsOfQuery DEF Emit, If, Go
  <2>4. P!Move("loop", "llm", q)
    BY <2>1, <2>3, Moves
  <2>5. AbsStep < MaxIterations /\ AbsStep' = AbsStep + 1 /\ AbsOutcome' = AbsOutcome
    BY <1>1, <1>3, <1>4, <1>5, <2>1, SameResult
  <2>6. P!StartIteration
    BY <2>4, <2>5 DEF P!StartIteration, P!Continue, AbsStep, AbsOutcome
  <2> QED BY <2>6 DEF P!ProgressNext
<1>6. CASE ~IsRoot
  BY <1>1, <1>4, <1>6, NestedStays DEF Go, Emit, If
<1> QED BY <1>5, <1>6

LEMMA OutOfCallsMaps == ASSUME QueryInv, OutOfCalls PROVE P!ProgressNext
<1> DEFINE f == Top
           g == [f EXCEPT !.iter = @ + 1]
           q == <<"iteration_start", "complete">>
<1>1. /\ at \in Running /\ f.pc = "iterate" /\ f.iter < f.limit /\ IsRoot
      /\ SetTop(g) /\ burst' = q /\ at' = "closed" /\ result' = Failure("error")
  BY DEF OutOfCalls, Loop, Running, Close
<1>2. f \in Frame /\ at = "loop" /\ f.limit = MaxIterations
  BY <1>1, RunningShape DEF SoundFrame, RootFits
<1>3. g.iter = f.iter + 1
  <2> HIDE DEF f
  <2> QED BY <1>2 DEF Frame
<1>4. AbsStep' = g.iter /\ AbsStep = f.iter
  <2> HIDE DEF g
  <2> QED BY <1>1, TopKeepsStep
<1>5. q \in Seq(QueryEvents)
  BY DEF QueryEvents
<1>6. P!Move("loop", "closed", q)
  BY <1>1, <1>2, <1>5, KindsOfQuery, Moves
<1>7. AbsOutcome' = "error"
  BY <1>1 DEF AbsOutcome, Failure
<1>8. AbsStep < MaxIterations /\ AbsStep' = AbsStep + 1
  BY <1>1, <1>2, <1>3, <1>4
<1>9. P!OutOfCalls
  BY <1>6, <1>7, <1>8 DEF P!OutOfCalls, AbsStep, AbsOutcome
<1> QED BY <1>9 DEF P!ProgressNext

LEMMA AnnouncementShort == \A ops : UpTo(Announcement(ops), MaxTools)
<1> TAKE ops
<1>1. /\ "cli_codegen_start" \in ToolEvents /\ "wasm_compile_start" \in ToolEvents
      /\ "delegate_start" \in ToolEvents
  BY DEF ToolEvents
<1>2. UpTo(Announcement(ops), 0) \/ UpTo(Announcement(ops), 1)
  <2>1. UpTo(<<>>, 0)
    BY EmptySeq DEF UpTo
  <2> QED BY <1>1, <2>1, UpToOne DEF Announcement
<1> QED BY <1>2, MaxToolsAssumption, LenProperties DEF UpTo

LEMMA RunBatchMaps == ASSUME QueryInv, RunBatch PROVE P!ProgressNext
<1> DEFINE f == Top
<1>0. PICK batch \in Batches : \E ops :
        /\ at \in Running /\ f.pc = "llm"
        /\ SetTop([f EXCEPT !.pc = "exec", !.batch = batch, !.ops = ops,
                            !.sub0 = f.ex.sub,
                            !.nested = IF IsRoot THEN <<>> ELSE @])
        /\ Emit(<<"llm_complete", "commands">> \o Announcement(ops))
        /\ Go("exec") /\ UNCHANGED result
  BY DEF RunBatch, Loop, Running
<1>1. PICK ops :
        /\ at \in Running /\ f.pc = "llm"
        /\ SetTop([f EXCEPT !.pc = "exec", !.batch = batch, !.ops = ops,
                            !.sub0 = f.ex.sub,
                            !.nested = IF IsRoot THEN <<>> ELSE @])
        /\ Emit(<<"llm_complete", "commands">> \o Announcement(ops))
        /\ Go("exec") /\ UNCHANGED result
  BY <1>0
<1> DEFINE g == [f EXCEPT !.pc = "exec", !.batch = batch, !.ops = ops,
                          !.sub0 = f.ex.sub,
                          !.nested = IF IsRoot THEN <<>> ELSE @]
           q == <<"llm_complete", "commands">>
           s == Announcement(ops)
<1>2. f \in Frame
  BY <1>1, RunningShape DEF SoundFrame
<1>3. g.iter = f.iter
  <2> HIDE DEF f
  <2> QED BY <1>2 DEF Frame
<1>4. AbsStep' = AbsStep
  <2>1. SetTop(g)
    BY <1>1
  <2> HIDE DEF g
  <2> QED BY <1>1, <1>3, <2>1, TopKeepsStep
<1>5. CASE IsRoot
  <2>1. at = "llm" /\ at' = "exec" /\ burst' = q \o s
    BY <1>1, <1>5, RunningShape DEF RootFits, Emit, If, Go
  <2>2. q \in Seq(QueryEvents)
    BY DEF QueryEvents
  <2>3. Kinds(s) \in P!ToolBursts /\ Kinds(burst') = q \o Kinds(s)
    <3> HIDE DEF q
    <3> QED BY <2>1, <2>2, AnnouncementShort, BurstOf
  <2>4. P!Move("llm", "exec", q \o Kinds(s)) /\ P!Same
    BY <1>1, <1>4, <2>1, <2>3, Moves, Stays, SameResult
  <2> QED BY <2>3, <2>4 DEF P!ProgressNext, P!RunCommands
<1>6. CASE ~IsRoot
  BY <1>1, <1>4, <1>6, NestedStays DEF Go, Emit, If
<1> QED BY <1>5, <1>6

LEMMA NoCommandsMaps == ASSUME QueryInv, NoCommands PROVE P!ProgressNext
<1> DEFINE f == Top
           g == Record(f, TRUE, 0)
           q == <<"llm_complete", "iteration_complete">>
<1>1. /\ at \in Running /\ f.pc = "llm" /\ SetTop(g) /\ Go("loop") /\ Emit(q)
      /\ UNCHANGED result
  BY Zenon DEF NoCommands, Loop, Running
<1>2. f \in Frame
  BY <1>1, RunningShape DEF SoundFrame
<1>3. g.iter = f.iter
  <2> HIDE DEF f
  <2> QED BY <1>2, RecordKeepsIter, Zenon
<1>4. AbsStep' = AbsStep
  <2> HIDE DEF g
  <2> QED BY <1>1, <1>3, TopKeepsStep
<1>5. CASE IsRoot
  <2>1. at = "llm" /\ at' = "loop" /\ burst' = q
    BY <1>1, <1>5, RunningShape DEF RootFits, Emit, If, Go
  <2>2. q \in Seq(QueryEvents)
    BY DEF QueryEvents
  <2>3. P!Move("llm", "loop", q) /\ P!Same
    BY <1>1, <1>4, <2>1, <2>2, KindsOfQuery, Moves, Stays, SameResult
  <2>4. P!EndIteration
    BY <2>3, NoTools DEF P!EndIteration
  <2> QED BY <2>4 DEF P!ProgressNext
<1>6. CASE ~IsRoot
  BY <1>1, <1>4, <1>6, NestedStays DEF Go, Emit, If
<1> QED BY <1>5, <1>6

\* The loop on top has its final answer.
LEMMA AnswerMaps ==
  \A f, events, sub :
    /\ QueryInv /\ at \in Running /\ f \in Frame /\ f.iter = Top.iter
    /\ Answer(f, events, sub)
    => \/ P!ProgressNext
       \/ /\ IsRoot /\ at' = "return" /\ burst' = events
          /\ AbsStep' = AbsStep /\ AbsOutcome' = "answered"
<1> SUFFICES ASSUME NEW f, NEW events, NEW sub,
                    QueryInv, at \in Running, f \in Frame, f.iter = Top.iter,
                    Answer(f, events, sub)
             PROVE  \/ P!ProgressNext
                    \/ /\ IsRoot /\ at' = "return" /\ burst' = events
                       /\ AbsStep' = AbsStep /\ AbsOutcome' = "answered"
  BY Zenon
<1>1. CASE IsRoot
  <2> DEFINE g == Record(f, FALSE, sub)
  <2>1. /\ SetTop(g) /\ at' = "return" /\ burst' = events
        /\ result' = RootResult("answered", g)
    BY <1>1, Zenon DEF Answer
  <2>2. g.iter = Top.iter
    BY RecordKeepsIter, Zenon
  <2> HIDE DEF g
  <2>3. AbsStep' = AbsStep
    BY <1>1, <2>1, <2>2, TopKeepsStep
  <2>4. AbsOutcome' = "answered"
    BY <2>1 DEF AbsOutcome, RootResult
  <2> QED BY <1>1, <2>1, <2>3, <2>4
<1>2. CASE ~IsRoot
  BY <1>2, NestedReturnsMaps DEF Answer
<1> QED BY <1>1, <1>2

LEMMA FinalTextMaps == ASSUME QueryInv, FinalText PROVE P!ProgressNext
<1> DEFINE q == <<"llm_complete", "final_answer", "iteration_complete", "complete">>
<1>1. at \in Running /\ Top.pc = "llm" /\ Answer(Top, q, 0)
  BY DEF FinalText, Loop, Running
<1>2. Top \in Frame
  BY <1>1, TopReady
<1> HIDE DEF q
<1>3. CASE /\ IsRoot /\ at' = "return" /\ burst' = q
           /\ AbsStep' = AbsStep /\ AbsOutcome' = "answered"
  <2>1. at = "llm"
    BY <1>1, <1>3, RunningShape DEF RootFits
  <2>2. q \in Seq(QueryEvents)
    BY DEF QueryEvents, q
  <2>3. P!Move("llm", "return", q)
    BY <1>3, <2>1, <2>2, KindsOfQuery, Moves
  <2>4. P!Answer
    BY <1>3, <2>3, NoTools DEF P!Answer, AbsStep, AbsOutcome, q
  <2> QED BY <2>4 DEF P!ProgressNext
<1> QED BY <1>1, <1>2, <1>3, AnswerMaps, Zenon

\* The nested query that fails takes the batch that asked for it with it.
LEMMA ModelFailsMaps == ASSUME QueryInv, ModelFails PROVE P!ProgressNext
<1>1. at \in Running /\ Top.pc = "llm"
  BY DEF ModelFails, Loop, Running
<1>2. CASE IsRoot
  <2>1. at = "llm" /\ Close(Failure("error")) /\ burst' = <<>> /\ UNCHANGED stack
    BY <1>1, <1>2, RunningShape DEF ModelFails, RootFits
  <2>2. at \in {"direct", "phase1", "phase3", "llm"}
    BY <2>1
  <2>3. P!Fail("error", {"direct", "phase1", "phase3", "llm"})
    BY <2>1, <2>2, FailMaps
  <2> QED BY <2>3 DEF P!ProgressNext
<1>3. CASE ~IsRoot
  <2> DEFINE f == Parent
             c == [f EXCEPT !.total = @ + 1, !.made = @ + 1]
             g == Record(c, TRUE, 0)
  <2>1. /\ Pop(g) /\ at' = "loop" /\ UNCHANGED result
        /\ burst' = Report(c) \o <<"command_complete", "iteration_complete">>
    BY <1>3, Zenon DEF ModelFails
  <2>2. SoundFrame(f) /\ Recorded(f) /\ f.pc = "wait" /\ at = "exec"
    BY <1>1, <1>3, RunningShape
  <2> HIDE DEF f
  <2>3. Ready(c) /\ c.iter = f.iter
    BY <2>2, CountedIsReady
  <2> HIDE DEF c
  <2>4. c \in Frame /\ g.iter = f.iter
    <3>1. c \in Frame
      BY <2>3 DEF Ready
    <3> QED BY <2>3, <3>1, RecordKeepsIter, Zenon
  <2> HIDE DEF g
  <2>5. AbsStep' = AbsStep
    BY <1>1, <1>3, <2>1, <2>4, PopKeepsStep DEF f
  <2>6. UpTo(Report(c), MaxTools)
    BY <2>3, ReportShort
  <2> QED BY <2>1, <2>2, <2>5, <2>6, IterationEnds
<1> QED BY <1>2, <1>3

LEMMA EndBatchMaps == ASSUME QueryInv, EndBatch PROVE P!ProgressNext
<1>1. at \in Running /\ Top.pc = "exec" /\ BatchEnds(Top, FALSE)
  BY DEF EndBatch, Loop, Running
<1>2. Ready(Top) /\ Top.pc \in {"exec", "reduce"}
  BY <1>1, TopReady
<1> QED BY <1>1, <1>2, BatchEndsMaps, Zenon

\* A command that cannot be executed ends the batch.
LEMMA RefusedMaps ==
  ASSUME QueryInv, QueryRefused \/ DelegateRefused
  PROVE  P!ProgressNext
<1>1. Loop("exec") /\ Top.batch # <<>> /\ BatchEnds(Top, TRUE)
  BY DEF QueryRefused, DelegateRefused, Executes
<1>2. at \in Running /\ Ready(Top) /\ Top.pc \in {"exec", "reduce"}
  BY <1>1, Executing
<1> QED BY <1>1, <1>2, BatchEndsMaps, Zenon

\* A command that is done tells nothing yet.
LEMMA CommandDone ==
  ASSUME QueryInv, at \in Running, Top.pc \in {"exec", "reduce"},
         NEW g, SetTop(g), g.iter = Top.iter,
         UNCHANGED <<at, result>>, burst' = <<>>
  PROVE  P!ProgressNext
<1>1. AbsStep' = AbsStep /\ at = "exec"
  BY TopKeepsStep, RootExecutes
<1> QED BY <1>1, ToolRuns, NothingFits

LEMMA LocalCommandMaps == ASSUME QueryInv, LocalCommand PROVE P!ProgressNext
<1> DEFINE f == Top
           q == <<"command_complete", "iteration_complete", "final_answer", "complete">>
<1>1. PICK op \in LocalOps :
        Executes(op) /\ \E o \in Outcomes(f.ex, Next1) :
                          CommandEnds([f EXCEPT !.ex = o.ex], o.kind)
  BY DEF LocalCommand
<1>2. PICK o \in Outcomes(f.ex, Next1) : CommandEnds([f EXCEPT !.ex = o.ex], o.kind)
  BY <1>1
<1> DEFINE h == [f EXCEPT !.ex = o.ex]
<1>3. Loop("exec") /\ f.batch # <<>> /\ Next1.op \in LocalOps
  BY <1>1 DEF Executes
<1>4. /\ at \in Running /\ f.pc = "exec" /\ Ready(f) /\ SoundFrame(f) /\ Recorded(f)
      /\ f.ex \in Executor /\ Next1 \in Command
  BY <1>3, Executing
<1>5. o.ex \in Executor /\ o.ex.sub = f.ex.sub
  BY <1>3, <1>4, LocalOutcomes
<1>6. \/ SetTop(Done(h)) /\ burst' = <<>> /\ UNCHANGED <<at, result>>
      \/ BatchEnds(h, TRUE)
      \/ Answer(h, Report(h) \o q, h.ex.sub - h.sub0)
      \/ Panic
  BY <1>2 DEF CommandEnds
<1>7. at = "exec" /\ f.pc \in {"exec", "reduce"}
  BY <1>4, RootExecutes
<1> HIDE DEF f
<1>8. Ready(h) /\ h \in Frame /\ h.iter = f.iter
  <2> HIDE DEF h
  <2> QED BY <1>4, <1>5, ExecutorChanges DEF h
<1> HIDE DEF h, q
<1>9. CASE SetTop(Done(h)) /\ burst' = <<>> /\ UNCHANGED <<at, result>>
  <2> DEFINE g == Done(h)
  <2>1. g.iter = f.iter
    BY <1>8 DEF Done, Frame
  <2> HIDE DEF g
  <2>2. SetTop(g)
    BY <1>9 DEF g
  <2> QED BY <1>4, <1>7, <1>9, <2>1, <2>2, CommandDone DEF f
<1>10. CASE BatchEnds(h, TRUE)
  BY <1>4, <1>7, <1>8, <1>10, BatchEndsMaps, Zenon DEF f
<1>11. CASE Answer(h, Report(h) \o q, h.ex.sub - h.sub0)
  <2>1. CASE /\ at' = "return" /\ burst' = Report(h) \o q
             /\ AbsStep' = AbsStep /\ AbsOutcome' = "answered"
    <3>1. q \in Seq(QueryEvents)
      BY DEF QueryEvents, q
    <3>2. UpTo(Report(h), MaxTools)
      BY <1>8, ReportShort
    <3>3. Kinds(Report(h)) \in P!ToolBursts /\ Kinds(burst') = Kinds(Report(h)) \o q
      BY <2>1, <3>1, <3>2, BurstOf
    <3>4. P!Move("exec", "return", Kinds(Report(h)) \o q)
      BY <1>7, <2>1, <3>3, Moves
    <3>5. P!Answer
      BY <2>1, <3>3, <3>4 DEF P!Answer, AbsStep, AbsOutcome, q
    <3> QED BY <3>5 DEF P!ProgressNext
  <2> QED BY <1>4, <1>8, <1>11, <2>1, AnswerMaps, Zenon DEF f
<1>12. CASE Panic
  <2>1. at \in {"phase2", "phase3", "exec"}
    BY <1>7
  <2>2. P!Fail("panic", {"phase2", "phase3", "exec"})
    BY <1>12, <2>1, FailMaps DEF Panic
  <2> QED BY <2>2 DEF P!ProgressNext
<1> QED BY <1>6, <1>9, <1>10, <1>11, <1>12

LEMMA QueryMaps == ASSUME QueryInv, Query PROVE P!ProgressNext
<1> DEFINE f == Top
           ex == Asked(f.ex, Next1.store, 1)
           g == [Done(f) EXCEPT !.total = @ + 1, !.made = @ + 1,
                                !.ex = Asked(@, Next1.store, 1)]
<1>1. /\ Loop("exec") /\ f.batch # <<>>
      /\ \/ SetTop(g) /\ burst' = <<>> /\ UNCHANGED <<at, result>>
         \/ BatchEnds(f, TRUE)
  BY DEF Query, Executes
<1>2. at \in Running /\ Ready(f) /\ f.pc \in {"exec", "reduce"} /\ f \in Frame
  BY <1>1, Executing
<1>3. g.iter = f.iter
  <2> HIDE DEF f
  <2> QED BY <1>2 DEF Done, Frame
<1> HIDE DEF g
<1>4. CASE SetTop(g) /\ burst' = <<>> /\ UNCHANGED <<at, result>>
  BY <1>2, <1>3, <1>4, CommandDone
<1>5. CASE BatchEnds(f, TRUE)
  BY <1>2, <1>5, BatchEndsMaps, Zenon
<1> QED BY <1>1, <1>4, <1>5

LEMMA DelegateMaps == ASSUME QueryInv, Delegate PROVE P!ProgressNext
<1> DEFINE f == Top
           w == [f EXCEPT !.pc = "wait"]
<1>1. PICK limit \in NestedLimits :
        /\ Loop("exec") /\ f.batch # <<>> /\ f.delegate
        /\ stack' = Append([stack EXCEPT ![Len(stack)].pc = "wait"],
                           NewFrame(f.depth + 1, limit, FALSE))
        /\ burst' = <<>> /\ UNCHANGED <<at, result>>
  BY DEF Delegate, Executes, MayDelegate
<1>2. at \in Running /\ f.pc = "exec" /\ f \in Frame
  BY <1>1, Executing
<1>3. IsRoot /\ at = "exec" /\ stack \in Seq(Frame) /\ Len(stack) = 1 /\ f = stack[1]
  BY <1>1, <1>2, RunningShape, RootExecutes DEF Nested, IsRoot
<1>4. stack' = <<w, NewFrame(f.depth + 1, limit, FALSE)>>
  <2> DEFINE g == NewFrame(f.depth + 1, limit, FALSE)
  <2> HIDE DEF g
  <2>1. stack' = Append([stack EXCEPT ![1].pc = "wait"], g)
    BY <1>1, <1>3 DEF g
  <2>2. [stack EXCEPT ![1].pc = "wait"] = <<w>>
    BY <1>3
  <2> HIDE DEF w
  <2>3. stack' = <<w, g>>
    BY <2>1, <2>2, Pair
  <2> QED BY <2>3 DEF g
<1>5. stack' # <<>> /\ stack'[1] = w /\ stack # <<>>
  <2>1. \A a, b : <<a, b>> # <<>> /\ <<a, b>>[1] = a
    OBVIOUS
  <2>2. stack # <<>>
    BY <1>3, EmptySeq
  <2> HIDE DEF w
  <2> QED BY <1>4, <2>1, <2>2
<1>6. w.iter = f.iter
  <2> HIDE DEF f
  <2> QED BY <1>2 DEF Frame
<1>7. AbsStep' = AbsStep
  BY <1>3, <1>5, <1>6 DEF AbsStep
<1> QED BY <1>1, <1>3, <1>7, ToolRuns, NothingFits

LEMMA StartReduceMaps == ASSUME QueryInv, StartReduce PROVE P!ProgressNext
<1> DEFINE f == Top
<1>1. PICK n \in ChunkCounts :
        /\ Loop("exec") /\ f.batch # <<>>
        /\ \/ /\ SetTop([f EXCEPT !.pc = "reduce", !.todo = n, !.chunks = n])
              /\ Emit(<<"reduce_start">>) /\ UNCHANGED <<at, result>>
           \/ Panic
           \/ BatchEnds(f, TRUE)
  BY DEF StartReduce, Executes
<1> DEFINE g == [f EXCEPT !.pc = "reduce", !.todo = n, !.chunks = n]
<1>2. at \in Running /\ f.pc \in {"exec", "reduce"} /\ f \in Frame /\ Ready(f)
  BY <1>1, Executing
<1>3. at = "exec"
  BY <1>2, RootExecutes
<1>4. CASE SetTop(g) /\ Emit(<<"reduce_start">>) /\ UNCHANGED <<at, result>>
  <2>1. g.iter = f.iter
    <3> HIDE DEF f
    <3> QED BY <1>2 DEF Frame
  <2> HIDE DEF g
  <2>2. AbsStep' = AbsStep
    BY <1>2, <1>4, <2>1, TopKeepsStep
  <2>3. UpTo(burst', MaxTools)
    <3>1. "reduce_start" \in ToolEvents
      BY DEF ToolEvents
    <3>2. UpTo(<<"reduce_start">>, 1)
      BY <3>1, UpToOne
    <3>3. UpTo(<<"reduce_start">>, MaxTools)
      BY <3>2, MaxToolsAssumption, LenProperties DEF UpTo
    <3> QED BY <1>4, <3>3, NothingFits DEF Emit, If
  <2> QED BY <1>3, <1>4, <2>2, <2>3, ToolRuns
<1>5. CASE Panic
  <2>1. at \in {"phase2", "phase3", "exec"}
    BY <1>3
  <2>2. P!Fail("panic", {"phase2", "phase3", "exec"})
    BY <1>5, <2>1, FailMaps DEF Panic
  <2> QED BY <2>2 DEF P!ProgressNext
<1>6. CASE BatchEnds(f, TRUE)
  BY <1>2, <1>6, BatchEndsMaps, Zenon
<1> QED BY <1>1, <1>4, <1>5, <1>6

LEMMA ReduceChunkMaps == ASSUME QueryInv, ReduceChunk PROVE P!ProgressNext
<1> DEFINE f == Top
           g == [f EXCEPT !.todo = @ - 1, !.total = @ + 1, !.made = @ + 1]
           r == Record(f, TRUE, 0)
           c == <<"reduce_chunk_start">>
           d == <<"reduce_chunk_start", "reduce_chunk_complete">>
           q == <<"command_complete", "iteration_complete">>
<1>1. /\ at \in Running /\ f.pc = "reduce"
      /\ \/ SetTop(g) /\ Emit(d) /\ UNCHANGED <<at, result>>
         \/ /\ SetTop(r) /\ Go("loop") /\ UNCHANGED result
            /\ Emit((c \o Report(f)) \o q)
  BY Zenon DEF ReduceChunk, Loop, Running
<1>2. f.pc \in {"exec", "reduce"} /\ f \in Frame /\ Ready(f)
  BY <1>1, TopReady
<1>3. at = "exec"
  BY <1>1, <1>2, RootExecutes
<1>4. g.iter = f.iter /\ r.iter = f.iter
  <2> HIDE DEF f
  <2>1. g.iter = f.iter
    BY <1>2 DEF Frame
  <2>2. r.iter = f.iter
    BY <1>2, RecordKeepsIter, Zenon
  <2> QED BY <2>1, <2>2
<1>5. CASE SetTop(g) /\ Emit(d) /\ UNCHANGED <<at, result>>
  <2> HIDE DEF g
  <2>1. AbsStep' = AbsStep
    BY <1>1, <1>4, <1>5, TopKeepsStep
  <2>2. UpTo(d, MaxTools)
    <3>1. "reduce_chunk_start" \in ToolEvents /\ "reduce_chunk_complete" \in ToolEvents
      BY DEF ToolEvents
    <3>2. UpTo(d, 2)
      BY <3>1, UpToTwoEvents
    <3> HIDE DEF d
    <3> QED BY <3>2, MaxToolsAssumption, LenProperties DEF UpTo
  <2>3. UpTo(burst', MaxTools)
    BY <1>5, <2>2, NothingFits DEF Emit, If
  <2> QED BY <1>3, <1>5, <2>1, <2>3, ToolRuns
<1>6. CASE /\ SetTop(r) /\ Go("loop") /\ UNCHANGED result
           /\ Emit((c \o Report(f)) \o q)
  <2>1. UpTo(c \o Report(f), MaxTools)
    BY <1>2, ReportShort
  <2> HIDE DEF r, c, f
  <2> QED BY <1>1, <1>2, <1>4, <1>6, <2>1, TopEnds DEF f
<1> QED BY <1>1, <1>5, <1>6

LEMMA EndReduceMaps == ASSUME QueryInv, EndReduce PROVE P!ProgressNext
<1> DEFINE f == Top
           g == [Done(f) EXCEPT !.ex = Asked(@, Next1.store, f.chunks)]
<1>1. /\ at \in Running /\ f.pc = "reduce" /\ SetTop(g) /\ burst' = <<>>
      /\ UNCHANGED <<at, result>>
  BY DEF EndReduce, Loop, Running
<1>2. f.pc \in {"exec", "reduce"} /\ f \in Frame
  BY <1>1, TopReady
<1>3. g.iter = f.iter
  <2> HIDE DEF f
  <2> QED BY <1>2 DEF Done, Frame
<1> HIDE DEF g
<1> QED BY <1>1, <1>2, <1>3, CommandDone

LEMMA ExhaustMaps == ASSUME QueryInv, Exhaust PROVE P!ProgressNext
<1>1. at \in Running /\ Top.pc = "iterate" /\ Top.iter = Top.limit
  BY DEF Exhaust, Loop, Running
<1>2. CASE IsRoot
  <2>1. /\ at' = "return" /\ result' = RootResult("exhausted", Top)
        /\ burst' = <<"complete">> /\ UNCHANGED stack
    BY <1>2 DEF Exhaust
  <2>2. at = "loop" /\ Top = stack[1] /\ Top.limit = MaxIterations /\ stack # <<>>
    BY <1>1, <1>2, RunningShape DEF RootFits
  <2>3. <<"complete">> \in Seq(QueryEvents)
    BY DEF QueryEvents
  <2>4. P!Move("loop", "return", <<"complete">>)
    BY <2>1, <2>2, <2>3, KindsOfQuery, Moves
  <2>5. AbsStep = MaxIterations /\ AbsStep' = AbsStep /\ AbsOutcome' = "exhausted"
    BY <1>1, <2>1, <2>2 DEF AbsStep, AbsOutcome, RootResult
  <2>6. P!Exhaust
    BY <2>4, <2>5 DEF P!Exhaust, AbsStep, AbsOutcome
  <2> QED BY <2>6 DEF P!ProgressNext
<1>3. CASE ~IsRoot
  BY <1>1, <1>3, NestedReturnsMaps DEF Exhaust
<1> QED BY <1>2, <1>3

LEMMA ReturnMaps == ASSUME QueryInv, Return PROVE P!ProgressNext
<1> DEFINE q == <<"phase_complete", "complete">>
<1>1. /\ at = "return" /\ at' = "closed" /\ UNCHANGED stack
      /\ result' = [result EXCEPT !.subCalls = @ + phased]
      /\ burst' = <<>> \/ burst' = q
  BY DEF Return, Close, If
<1>2. AbsStep' = AbsStep /\ AbsOutcome' = AbsOutcome
  <2>1. result'.kind = result.kind
    BY <1>1 DEF QueryInv, Ending, Results
  <2> QED BY <1>1, <2>1 DEF AbsStep, AbsOutcome
<1>3. Kinds(burst') \in {<<>>, q}
  <2>1. q \in Seq(QueryEvents) /\ <<>> \in Seq(QueryEvents)
    BY EmptySeq DEF QueryEvents
  <2> QED BY <1>1, <2>1, KindsOfQuery
<1>4. P!Move("return", "closed", Kinds(burst')) /\ P!Same
  BY <1>1, <1>2, Moves, Stays
<1>5. P!Return
  BY <1>3, <1>4 DEF P!Return
<1> QED BY <1>5 DEF P!ProgressNext

\* Every step of the query is a step of Progress, or changes nothing in it.
LEMMA NextMaps ==
  ASSUME QueryInv, [Next]_vars
  PROVE  [P!ProgressNext]_(P!progressVars)
<1>1. CASE Step
  <2>1. P!ProgressNext
    BY <1>1, BypassMaps, DirectMaps, StartPhasesMaps, PhasesMap, StartLoopMaps,
       StartIterationMaps, OutOfCallsMaps, RunBatchMaps, FinalTextMaps, NoCommandsMaps,
       ModelFailsMaps, LocalCommandMaps, EndBatchMaps, RefusedMaps, QueryMaps,
       DelegateMaps, StartReduceMaps, ReduceChunkMaps, EndReduceMaps, ExhaustMaps,
       ReturnMaps DEF Step, P!ProgressNext
  <2> QED BY <2>1
<1>2. CASE UNCHANGED vars
  BY <1>2 DEF vars, P!progressVars, Kinds
<1> QED BY <1>1, <1>2 DEF Next, Terminated

LEMMA InitMaps == ASSUME Init PROVE P!ProgressInit
<1>1. at = "start" /\ stack = <<>> /\ burst = <<>> /\ result.kind = "none"
  BY DEF Init, Failure
<1> QED BY <1>1, KindsOfNone DEF P!ProgressInit

\* What a query tells its observer is what Progress.tla allows: the events of
\* every step, in an order and number the observer can rely on, whatever the
\* model writes, the tools measure and the providers answer.
THEOREM ProgressIsRefined == Spec => RefinesProgress
BY InitMaps, NextMaps, QueryIsSound, PTL DEF Spec, RefinesProgress, P!ProgressSpec
=============================================================================
