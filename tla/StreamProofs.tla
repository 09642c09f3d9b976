---------------------------- MODULE StreamProofs ----------------------------
(***************************************************************************)
(* Proofs about a streamed query and the page that shows it (Stream.tla):   *)
(* its types, that a stream which ends has brought the result, and that the *)
(* history on the page is what the iterations sent.                         *)
(*                                                                          *)
(* All follow from one inductive invariant, StreamInv: how far the query    *)
(* is (QueryInv), what its task and the channel may hold then (TaskInv),    *)
(* what the page has been told (PageInv), which iterations are on the page  *)
(* and which are on their way (HistoryInv), and what is being fetched       *)
(* (SelectionInv).                                                          *)
(***************************************************************************)
EXTENDS Stream, SequenceTheorems, TLAPS

Early == {"start", "direct", "phase1", "phase2", "phase3", "phase4"}
Well == {"answered", "exhausted"}

DoneType == [kind : {"done"}, success : BOOLEAN, iterations : Nat]
ErrorType == [kind : {"error"}]
ChannelType == EventType \union DoneType \union ErrorType

PageType ==
  [running : BOOLEAN, timer : BOOLEAN,
   status : {"ready", "connecting", "processing", "waiting", "complete", "failed"},
   history : Seq(Nat),
   data : [run : Nat, success : BOOLEAN, iterations : Nat, history : Seq(Nat)],
   example : Examples \union {Nothing}, path : Examples \union {Nothing},
   text : Examples \union {Nothing}]

-----------------------------------------------------------------------------
(* The inductive invariant.                                                *)

QueryInv ==
  /\ at \in Places /\ step \in 0..MaxIterations /\ outcome \in Outcomes
  /\ at \in Early => step = 0
  /\ at \in {"llm", "exec"} => step >= 1
  /\ at \notin {"return", "closed"} => outcome = "none"
  /\ at = "return" => outcome \in Well

\* The event that ends a stream is the last one, and says how the query ended.
TaskInv ==
  /\ task \in {"idle", "connecting", "running", "last", "done"}
  /\ run \in 0..MaxRuns /\ open \in BOOLEAN /\ dropped \in BOOLEAN
  /\ emitting \in Seq(EventType)
  /\ channel \in Seq(ChannelType) /\ Len(channel) <= Capacity
  /\ task = "idle" <=> run = 0
  /\ task \in {"idle", "connecting"} => /\ at = "start"
                                        /\ emitting = <<>> /\ channel = <<>>
  /\ task = "running" => at # "closed"
  /\ task \in {"last", "done"} => at \in {"start", "closed"}
  /\ task = "done" => emitting = <<>>
  /\ task = "idle" => ~open
  /\ ~open => channel = <<>>
  /\ \A i \in DOMAIN channel :
       channel[i] \notin EventType =>
         i = Len(channel) /\ task = "done" /\ channel[i] = Terminal

\* The page has the result of this run, or the stream still holds it.
HasResult == page.data.run = run
EndsWell == task = "done" /\ outcome \in Well

PageInv ==
  /\ page \in PageType
  /\ open = page.running
  /\ page.data.run <= run
  /\ HasResult /\ run > 0 =>
       /\ EndsWell /\ channel = <<>>
       /\ page.data.success = (outcome = "answered")
       /\ page.data.iterations = IF step = 0 THEN 1 ELSE step
  /\ open /\ EndsWell =>
       HasResult \/ (channel # <<>> /\ channel[Len(channel)] = Terminal)
  /\ page.status = "complete" => ~open /\ (EndsWell => HasResult) /\ task = "done"

\* The iterations that are over.
Completed ==
  IF step > 0 /\ (at \in {"llm", "exec"} \/ (at = "closed" /\ outcome \in {"error", "panic"}))
  THEN step - 1 ELSE step

\* The iterations that a sequence of events says are over.
Ends(event) == event.kind = "iteration_complete"
Told(events) == {events[i].step : i \in {j \in DOMAIN events : Ends(events[j])}}
InOrder(events) == \A i, j \in DOMAIN events :
  i < j /\ Ends(events[i]) /\ Ends(events[j]) => events[i].step < events[j].step
Before(S, T) == \A s \in S, t \in T : s < t

Listed == {page.history[i] : i \in DOMAIN page.history}
InFlight == Told(channel) \union Told(emitting)

\* The history, the channel and the callback hold the iterations in order; none
\* is missing while the page reads and nothing was dropped.
HistoryInv ==
  /\ \A i, j \in DOMAIN page.history : i < j => page.history[i] < page.history[j]
  /\ Before(Listed, InFlight)
  /\ InOrder(channel) /\ InOrder(emitting) /\ Before(Told(channel), Told(emitting))
  /\ \A n \in Listed \union InFlight : n \in 1..Completed
  /\ open /\ ~dropped =>
       /\ page.history = [i \in 1..Len(page.history) |-> i]
       /\ (Len(page.history) + 1)..Completed \subseteq InFlight
  /\ HasResult /\ run > 0 /\ ~dropped /\ step > 0 =>
       page.data.history = [i \in 1..page.data.iterations |-> i]

SelectionInv == fetching \subseteq Examples

StreamInv == QueryInv /\ TaskInv /\ PageInv /\ HistoryInv /\ SelectionInv

-----------------------------------------------------------------------------
(* Sequences of events.                                                    *)

\* A function over 1..n is a sequence of length n.
LEMMA FunctionIsSeq ==
  ASSUME NEW S, NEW n \in Nat, NEW f \in [1..n -> S]
  PROVE  f \in Seq(S) /\ Len(f) = n
OBVIOUS

LEMMA ToldNothing == Told(<<>>) = {} /\ InOrder(<<>>)
BY DEF Told, InOrder

\* The events of a sequence are those of its head and of its tail.
LEMMA ToldTail ==
  ASSUME NEW S, NEW s \in Seq(S), s # <<>>
  PROVE  /\ Told(s) = Told(Tail(s)) \union (IF Ends(Head(s)) THEN {Head(s).step} ELSE {})
         /\ InOrder(s) => /\ InOrder(Tail(s))
                          /\ Ends(Head(s)) => Before({Head(s).step}, Told(Tail(s)))
<1> DEFINE t == Tail(s)
<1>1. /\ Head(s) = s[1] /\ t \in Seq(S) /\ Len(t) = Len(s) - 1
      /\ Len(s) \in Nat \ {0} /\ DOMAIN s = 1..Len(s) /\ DOMAIN t = 1..Len(t)
      /\ \A i \in 1..Len(t) : t[i] = s[i + 1]
  BY HeadTailProperties, LenProperties, EmptySeq
<1> HIDE DEF t
<1>2. /\ \A i \in DOMAIN s : i = 1 \/ (i - 1 \in DOMAIN t /\ t[i - 1] = s[i])
      /\ \A i \in DOMAIN t : i + 1 \in DOMAIN s /\ t[i] = s[i + 1]
      /\ 1 \in DOMAIN s
  BY <1>1
<1>3. Told(s) = Told(t) \union (IF Ends(s[1]) THEN {s[1].step} ELSE {})
  BY <1>2 DEF Told
<1>4. ASSUME InOrder(s) PROVE InOrder(t)
  <2> SUFFICES ASSUME NEW i \in DOMAIN t, NEW j \in DOMAIN t, i < j,
                      Ends(t[i]), Ends(t[j])
               PROVE  t[i].step < t[j].step
    BY DEF InOrder
  <2>1. /\ i + 1 \in DOMAIN s /\ j + 1 \in DOMAIN s /\ i + 1 < j + 1
        /\ t[i] = s[i + 1] /\ t[j] = s[j + 1]
    BY <1>1, <1>2
  <2> QED BY <1>4, <2>1 DEF InOrder
<1>5. ASSUME InOrder(s), Ends(s[1]) PROVE Before({s[1].step}, Told(t))
  <2> SUFFICES ASSUME NEW i \in DOMAIN t, Ends(t[i])
               PROVE  s[1].step < t[i].step
    BY DEF Before, Told
  <2>1. i + 1 \in DOMAIN s /\ 1 < i + 1 /\ t[i] = s[i + 1]
    BY <1>1, <1>2
  <2> QED BY <1>2, <1>5, <2>1 DEF InOrder
<1> QED BY <1>1, <1>3, <1>4, <1>5 DEF t

\* One more event.
LEMMA ToldAppend ==
  ASSUME NEW S, NEW s \in Seq(S), NEW e \in S
  PROVE  /\ Told(Append(s, e)) = Told(s) \union (IF Ends(e) THEN {e.step} ELSE {})
         /\ InOrder(s) /\ (Ends(e) => Before(Told(s), {e.step})) => InOrder(Append(s, e))
<1> DEFINE t == Append(s, e)
           n == Len(s)
<1>1. /\ t \in Seq(S) /\ Len(t) = n + 1 /\ n \in Nat
      /\ \A i \in 1..n : t[i] = s[i]
      /\ t[n + 1] = e /\ DOMAIN s = 1..n /\ DOMAIN t = 1..(n + 1)
  BY AppendProperties, LenProperties
<1> HIDE DEF t
<1>2. /\ \A i \in DOMAIN t : i = n + 1 \/ (i \in DOMAIN s /\ t[i] = s[i] /\ i < n + 1)
      /\ \A i \in DOMAIN s : i \in DOMAIN t /\ t[i] = s[i]
      /\ n + 1 \in DOMAIN t /\ t[n + 1] = e
  BY <1>1
<1>3. Told(t) = Told(s) \union (IF Ends(e) THEN {e.step} ELSE {})
  BY <1>2 DEF Told
<1>4. ASSUME InOrder(s), Ends(e) => Before(Told(s), {e.step})
      PROVE  InOrder(t)
  <2> SUFFICES ASSUME NEW i \in DOMAIN t, NEW j \in DOMAIN t, i < j,
                      Ends(t[i]), Ends(t[j])
               PROVE  t[i].step < t[j].step
    BY DEF InOrder
  <2>1. i \in DOMAIN s /\ t[i] = s[i]
    BY <1>1, <1>2
  <2>2. CASE j = n + 1
    <3>1. s[i].step \in Told(s)
      BY <2>1 DEF Told
    <3> QED BY <1>2, <1>4, <2>1, <2>2, <3>1 DEF Before
  <2>3. CASE j # n + 1
    BY <1>2, <1>4, <2>1, <2>3 DEF InOrder
  <2> QED BY <2>2, <2>3
<1> QED BY <1>3, <1>4 DEF t

-----------------------------------------------------------------------------
(* What the progress callback forwards.                                    *)

Fold == INSTANCE LeftFold WITH Op <- Forward, Base <- <<>>

\* A kind occurs in a burst; it occurs once at most.
Occurs(kind, kinds) == \E i \in DOMAIN kinds : kinds[i] = kind
Once(kind, kinds) == \A i, j \in DOMAIN kinds : kinds[i] = kind /\ kinds[j] = kind => i = j

Forwardable == EventKinds \ {"complete"}

\* The kinds forwarded are those of the burst, but for "complete".
Filtered(s, kinds) ==
  /\ kinds \in Seq(Forwardable)
  /\ \A kind \in Forwardable : /\ Occurs(kind, kinds) <=> Occurs(kind, s)
                               /\ Once(kind, s) => Once(kind, kinds)

LEMMA FilteredAppend ==
  ASSUME NEW s \in Seq(EventKinds), NEW kinds, Filtered(s, kinds),
         NEW e \in EventKinds
  PROVE  Filtered(Append(s, e), Forward(kinds, e))
<1> DEFINE t == Append(s, e)
           m == Len(s)
<1>1. /\ t \in Seq(EventKinds) /\ m \in Nat
      /\ \A i \in 1..m : t[i] = s[i]
      /\ t[m + 1] = e /\ DOMAIN s = 1..m /\ DOMAIN t = 1..(m + 1)
  BY AppendProperties, LenProperties
<1> HIDE DEF t
<1>2. /\ \A kind : Occurs(kind, t) <=> Occurs(kind, s) \/ kind = e
      /\ \A kind : Once(kind, t) => Once(kind, s)
      /\ Once(e, t) => ~Occurs(e, s)
  BY <1>1 DEF Occurs, Once
<1>3. CASE e = "complete"
  BY <1>2, <1>3 DEF Filtered, Forward, Forwardable, t
<1>4. CASE e # "complete"
  <2> DEFINE u == Append(kinds, e)
             k == Len(kinds)
  <2>1. e \in Forwardable /\ kinds \in Seq(Forwardable)
    BY <1>4 DEF Forwardable, Filtered
  <2>2. /\ u \in Seq(Forwardable) /\ k \in Nat
        /\ \A i \in 1..k : u[i] = kinds[i]
        /\ u[k + 1] = e /\ DOMAIN kinds = 1..k /\ DOMAIN u = 1..(k + 1)
    BY <2>1, AppendProperties, LenProperties
  <2> HIDE DEF u
  <2>3. /\ \A kind : Occurs(kind, u) <=> Occurs(kind, kinds) \/ kind = e
        /\ \A kind : Once(kind, kinds) /\ (kind = e => ~Occurs(e, kinds)) => Once(kind, u)
    BY <2>2 DEF Occurs, Once
  <2>4. Filtered(t, u)
    BY <1>2, <2>1, <2>2, <2>3 DEF Filtered
  <2> QED BY <1>4, <2>4 DEF Forward, t, u
<1> QED BY <1>3, <1>4

\* A sequence is its elements but the last, and the last.
LEMMA LastElement ==
  ASSUME NEW S, NEW n \in Nat, NEW s \in Seq(S), Len(s) = n + 1
  PROVE  \E r \in Seq(S), e \in S : Len(r) = n /\ s = Append(r, e)
<1> DEFINE r == [i \in 1..n |-> s[i]]
           t == Append(r, s[n + 1])
<1>1. s[n + 1] \in S /\ r \in [1..n -> S]
  BY LenProperties
<1>2. r \in Seq(S) /\ Len(r) = n /\ \A i \in 1..n : r[i] = s[i]
  <2>1. r \in Seq(S) /\ Len(r) = n
    <3> HIDE DEF r
    <3> QED BY <1>1, FunctionIsSeq
  <2> QED BY <2>1
<1> HIDE DEF r
<1>3. /\ t \in Seq(S) /\ Len(t) = n + 1 /\ t[n + 1] = s[n + 1]
      /\ \A i \in 1..n : t[i] = s[i]
  BY <1>1, <1>2, AppendProperties
<1> HIDE DEF t
<1>4. t = s
  <2>1. \A i \in 1..Len(t) : t[i] = s[i]
    BY <1>3
  <2> QED BY <1>3, <2>1, SeqEqual
<1> QED BY <1>1, <1>2, <1>4 DEF t

LEMMA FoldFilters ==
  \A s \in Seq(EventKinds) : Filtered(s, FoldLeft(Forward, <<>>, s))
<1>1. \A s : Fold!Folded(s) = FoldLeft(Forward, <<>>, s)
  BY Zenon DEF Fold!Folded, Fold!FoldLeft, Fold!MapThenFoldSet, Fold!Max,
               FoldLeft, MapThenFoldSet, Max
<1> DEFINE Fine(s) == Filtered(s, Fold!Folded(s))
           T == {n \in Nat : \A s \in Seq(EventKinds) : Len(s) = n => Fine(s)}
<1>2. 0 \in T
  <2>1. Filtered(<<>>, <<>>)
    BY EmptySeq DEF Filtered, Occurs, Once
  <2>2. Fold!Folded(<<>>) = <<>>
    BY Fold!FoldedEmpty, Zenon
  <2>3. Fine(<<>>)
    BY <2>1, <2>2
  <2>4. \A s \in Seq(EventKinds) : Len(s) = 0 => s = <<>>
    BY EmptySeq
  <2> HIDE DEF Fine
  <2> QED BY <2>3, <2>4
<1>3. ASSUME NEW n \in T PROVE n + 1 \in T
  <2> SUFFICES ASSUME NEW s \in Seq(EventKinds), Len(s) = n + 1 PROVE Fine(s)
    OBVIOUS
  <2>1. PICK r \in Seq(EventKinds), e \in EventKinds : Len(r) = n /\ s = Append(r, e)
    BY LastElement
  <2>2. Filtered(r, Fold!Folded(r))
    BY <1>3, <2>1
  <2>3. Fold!Folded(Append(r, e)) = Forward(Fold!Folded(r), e)
    BY Fold!FoldedAppend, Zenon
  <2>4. Filtered(Append(r, e), Forward(Fold!Folded(r), e))
    BY <2>2, FilteredAppend
  <2> QED BY <2>1, <2>3, <2>4
<1> HIDE DEF T
<1>4. T = Nat
  <2>1. T \in SUBSET Nat
    BY DEF T
  <2> QED BY <1>2, <1>3, <2>1, Fold!NatSetInduction, Zenon
<1>5. ASSUME NEW s \in Seq(EventKinds) PROVE Fine(s)
  <2>1. Len(s) \in T
    BY <1>4, LenProperties
  <2> HIDE DEF Fine
  <2> QED BY <2>1 DEF T
<1> QED BY <1>1, <1>5

-----------------------------------------------------------------------------
(* The bursts of the query.                                                *)

\* A burst in which no iteration ends, and one in which one does.
Plain(events) ==
  events \in Seq(EventKinds) /\ ~Occurs("iteration_complete", events)
Ending(events) ==
  /\ events \in Seq(EventKinds) /\ Occurs("iteration_complete", events)
  /\ Once("iteration_complete", events)

LEMMA ToolsArePlain == \A tools \in ToolBursts : Plain(tools)
<1> TAKE tools \in ToolBursts
<1>1. PICK n \in 0..MaxTools : tools \in [1..n -> {"tool"}]
  BY DEF ToolBursts
<1>2. n \in Nat
  BY MaxToolsAssumption
<1>3. tools \in [1..n -> EventKinds] /\ ~Occurs("iteration_complete", tools)
  BY <1>1 DEF EventKinds, Occurs
<1>4. tools \in Seq(EventKinds)
  BY <1>2, <1>3, FunctionIsSeq
<1> QED BY <1>3, <1>4 DEF Plain

\* Events before and after others.
LEMMA PlainBefore ==
  ASSUME NEW s, Plain(s), NEW t
  PROVE  /\ Plain(t) => Plain(s \o t)
         /\ Ending(t) => Ending(s \o t)
<1> SUFFICES ASSUME t \in Seq(EventKinds)
             PROVE  /\ Plain(t) => Plain(s \o t)
                    /\ Ending(t) => Ending(s \o t)
  BY DEF Plain, Ending
<1> DEFINE u == s \o t
           m == Len(s)
           n == Len(t)
<1>1. s \in Seq(EventKinds) /\ ~Occurs("iteration_complete", s)
  BY DEF Plain
<1>2. /\ m \in Nat /\ n \in Nat /\ DOMAIN s = 1..m /\ DOMAIN t = 1..n
      /\ u \in Seq(EventKinds) /\ Len(u) = m + n
      /\ \A i \in 1..(m + n) : u[i] = IF i <= m THEN s[i] ELSE t[i - m]
  BY <1>1, ConcatProperties, LenProperties
<1> HIDE DEF u
<1>3. DOMAIN u = 1..(m + n)
  BY <1>2, LenProperties
<1> HIDE DEF m, n
<1>4. /\ \A i \in DOMAIN u : \/ i \in DOMAIN s /\ u[i] = s[i]
                             \/ i - m \in DOMAIN t /\ u[i] = t[i - m]
      /\ \A i \in DOMAIN t : i + m \in DOMAIN u /\ u[i + m] = t[i]
  <2>1. ASSUME NEW i \in DOMAIN u
        PROVE  \/ i \in DOMAIN s /\ u[i] = s[i]
               \/ i - m \in DOMAIN t /\ u[i] = t[i - m]
    BY <1>2, <1>3
  <2>2. ASSUME NEW i \in DOMAIN t PROVE i + m \in DOMAIN u /\ u[i + m] = t[i]
    <3>1. i + m \in 1..(m + n) /\ ~(i + m <= m) /\ (i + m) - m = i
      BY <1>2
    <3> QED BY <1>2, <1>3, <3>1
  <2> QED BY <2>1, <2>2
<1>5. Occurs("iteration_complete", u) <=> Occurs("iteration_complete", t)
  BY <1>1, <1>4 DEF Occurs
<1>6. Once("iteration_complete", t) => Once("iteration_complete", u)
  <2> SUFFICES ASSUME Once("iteration_complete", t),
                      NEW i \in DOMAIN u, NEW j \in DOMAIN u,
                      u[i] = "iteration_complete", u[j] = "iteration_complete"
               PROVE  i = j
    BY DEF Once
  <2>1. /\ i - m \in DOMAIN t /\ t[i - m] = "iteration_complete"
        /\ j - m \in DOMAIN t /\ t[j - m] = "iteration_complete"
    BY <1>1, <1>4 DEF Occurs
  <2>2. i - m = j - m /\ i \in Int /\ j \in Int /\ m \in Int
    BY <1>2, <1>3, <2>1 DEF Once
  <2> QED BY <2>2
<1> QED BY <1>2, <1>5, <1>6 DEF Plain, Ending, u

LEMMA PlainLiterals ==
  /\ Plain(<<>>)
  /\ Plain(<<"phased_start", "phase_start">>)
  /\ Plain(<<"phase_complete", "phase_start">>)
  /\ Plain(<<"query_start">>)
  /\ Plain(<<"phase_complete", "phase_start", "query_start">>)
  /\ Plain(<<"iteration_start", "llm_start">>)
  /\ Plain(<<"iteration_start", "complete">>)
  /\ Plain(<<"llm_complete", "commands">>)
  /\ Plain(<<"complete">>)
  /\ Plain(<<"phase_complete", "complete">>)
BY DEF Plain, Occurs, EventKinds

LEMMA EndingLiterals ==
  /\ Ending(<<"command_complete", "iteration_complete">>)
  /\ Ending(<<"llm_complete", "iteration_complete">>)
  /\ Ending(<<"command_complete", "iteration_complete", "final_answer", "complete">>)
  /\ Ending(<<"llm_complete", "final_answer", "iteration_complete", "complete">>)
<1> DEFINE q1 == <<"command_complete", "iteration_complete">>
           q2 == <<"llm_complete", "iteration_complete">>
           q3 == <<"command_complete", "iteration_complete", "final_answer", "complete">>
           q4 == <<"llm_complete", "final_answer", "iteration_complete", "complete">>
<1>1. /\ q1 \in Seq(EventKinds) /\ q2 \in Seq(EventKinds)
      /\ q3 \in Seq(EventKinds) /\ q4 \in Seq(EventKinds)
  BY DEF EventKinds
<1>2. Occurs("iteration_complete", q1) /\ Once("iteration_complete", q1)
  BY DEF Occurs, Once
<1>3. Occurs("iteration_complete", q2) /\ Once("iteration_complete", q2)
  BY DEF Occurs, Once
<1>4. Occurs("iteration_complete", q3) /\ Once("iteration_complete", q3)
  BY DEF Occurs, Once
<1>5. Occurs("iteration_complete", q4) /\ Once("iteration_complete", q4)
  BY DEF Occurs, Once
<1> QED BY <1>1, <1>2, <1>3, <1>4, <1>5 DEF Ending

\* What a step of the query does to its place, its counts and its observer.
Advances ==
  /\ QueryInv' /\ at' # "start"
  /\ \/ Plain(burst') /\ Completed' = Completed
     \/ Ending(burst') /\ Completed' = Completed + 1 /\ step' = Completed + 1
  /\ outcome' = "panic" => burst' = <<>>

LEMMA EarlyAdvances ==
  ASSUME QueryInv,
         \/ Bypass \/ DirectAnswer \/ StartPhases \/ StartLoop
         \/ NextPhase("phase1", "phase2") \/ NextPhase("phase2", "phase3")
         \/ NextPhase("phase3", "phase4")
  PROVE  Advances
<1>1. /\ at \in Early /\ step' = step /\ step = 0 /\ at' \in Places \ {"start"}
      /\ at' \notin {"llm", "exec", "return"}
      /\ IF at' = "closed" THEN outcome' = "answered" ELSE outcome' = outcome
  BY DEF QueryInv, Early, Places, Bypass, DirectAnswer, StartPhases, StartLoop,
         NextPhase, Move, Same
<1>2. QueryInv'
  BY <1>1 DEF QueryInv, Early, Outcomes
<1>3. Plain(burst')
  BY PlainLiterals DEF Bypass, DirectAnswer, StartPhases, StartLoop, NextPhase, Move
<1>4. Completed' = Completed
  BY <1>1 DEF Completed
<1>5. outcome' # "panic" /\ at' # "start"
  BY <1>1 DEF QueryInv, Early
<1> QED BY <1>2, <1>3, <1>4, <1>5 DEF Advances

LEMMA FailAdvances ==
  ASSUME QueryInv,
         NEW kind \in {"error", "panic"}, NEW places,
         places \subseteq Places \ {"start", "loop", "return", "closed"},
         Fail(kind, places)
  PROVE  Advances
<1>1. /\ at \in places /\ at' = "closed" /\ burst' = <<>> /\ outcome' = kind
      /\ step' = step /\ at \in Early \union {"llm", "exec"}
  BY DEF Fail, Places, Early
<1>2. QueryInv'
  BY <1>1 DEF QueryInv, Places, Outcomes, Early
<1>3. Completed' = Completed
  BY <1>1 DEF QueryInv, Early, Completed
<1> QED BY <1>1, <1>2, <1>3, PlainLiterals DEF Advances

LEMMA LoopAdvances ==
  ASSUME QueryInv,
         StartIteration \/ OutOfCalls \/ RunCommands \/ RunTool \/ Exhaust \/ Return
  PROVE  Advances
<1>0. step \in Nat /\ MaxIterations \in Nat
  BY MaxIterationsAssumption DEF QueryInv
<1>1. CASE StartIteration
  <2>1. /\ at = "loop" /\ at' = "llm" /\ step' = step + 1 /\ step < MaxIterations
        /\ outcome' = outcome /\ outcome = "none"
        /\ burst' = <<"iteration_start", "llm_start">>
    BY <1>1 DEF QueryInv, StartIteration, Move, Continue
  <2>2. QueryInv' /\ Completed' = Completed
    BY <1>0, <2>1 DEF QueryInv, Places, Early, Completed
  <2> QED BY <2>1, <2>2, PlainLiterals DEF Advances
<1>2. CASE OutOfCalls
  <2>1. /\ at = "loop" /\ at' = "closed" /\ step' = step + 1 /\ step < MaxIterations
        /\ outcome' = "error" /\ burst' = <<"iteration_start", "complete">>
    BY <1>2 DEF QueryInv, OutOfCalls, Move
  <2>2. QueryInv' /\ Completed' = Completed
    BY <1>0, <2>1 DEF QueryInv, Places, Outcomes, Early, Completed
  <2> QED BY <2>1, <2>2, PlainLiterals DEF Advances
<1>3. CASE RunCommands \/ RunTool
  <2>1. /\ at \in {"llm", "exec"} /\ at' = "exec" /\ step' = step /\ outcome' = outcome
        /\ outcome = "none"
    BY <1>3 DEF QueryInv, RunCommands, RunTool, Move, Same
  <2>2. QueryInv' /\ Completed' = Completed
    BY <1>0, <2>1 DEF QueryInv, Places, Early, Completed
  <2>3. Plain(burst')
    <3>1. CASE RunTool
      BY <3>1, ToolsArePlain DEF RunTool, Move
    <3>2. CASE RunCommands
      <4>1. PICK tools \in ToolBursts : burst' = <<"llm_complete", "commands">> \o tools
        BY <3>2 DEF RunCommands, Move
      <4>2. Plain(<<"llm_complete", "commands">>) /\ Plain(tools)
        BY PlainLiterals, ToolsArePlain
      <4> QED BY <4>1, <4>2, PlainBefore
    <3> QED BY <1>3, <3>1, <3>2
  <2> QED BY <2>1, <2>2, <2>3 DEF Advances
<1>4. CASE Exhaust
  <2>1. /\ at = "loop" /\ at' = "return" /\ step' = step /\ outcome' = "exhausted"
        /\ burst' = <<"complete">>
    BY <1>4 DEF Exhaust, Move
  <2>2. QueryInv' /\ Completed' = Completed
    BY <1>0, <2>1 DEF QueryInv, Places, Outcomes, Early, Completed, Well
  <2> QED BY <2>1, <2>2, PlainLiterals DEF Advances
<1>5. CASE Return
  <2>1. /\ at = "return" /\ at' = "closed" /\ step' = step /\ outcome' = outcome
        /\ outcome \in Well
        /\ burst' = <<>> \/ burst' = <<"phase_complete", "complete">>
    BY <1>5 DEF QueryInv, Return, Move, Same
  <2>2. QueryInv' /\ Completed' = Completed
    BY <1>0, <2>1 DEF QueryInv, Places, Outcomes, Early, Completed, Well
  <2> QED BY <2>1, <2>2, PlainLiterals DEF Advances, Well
<1> QED BY <1>1, <1>2, <1>3, <1>4, <1>5

LEMMA IterationAdvances ==
  ASSUME QueryInv, EndIteration \/ Answer
  PROVE  Advances
<1>0. step \in Nat
  BY MaxIterationsAssumption DEF QueryInv
<1>1. /\ at \in {"llm", "exec"} /\ step' = step
      /\ \/ at' = "loop" /\ outcome' = outcome
         \/ at' = "return" /\ outcome' = "answered"
  BY DEF EndIteration, Answer, Move, Same
<1>2. QueryInv' /\ Completed' = Completed + 1 /\ step' = Completed + 1
  BY <1>0, <1>1 DEF QueryInv, Places, Outcomes, Early, Completed, Well
<1>3. outcome' # "panic"
  BY <1>1 DEF QueryInv
<1>4. Ending(burst')
  <2>1. PICK tools \in ToolBursts :
          \/ burst' = tools \o <<"command_complete", "iteration_complete">>
          \/ burst' = <<"llm_complete", "iteration_complete">>
          \/ burst' = tools \o <<"command_complete", "iteration_complete",
                                 "final_answer", "complete">>
          \/ burst' = <<"llm_complete", "final_answer", "iteration_complete", "complete">>
    BY DEF EndIteration, Answer, Move
  <2>2. Plain(tools)
    BY ToolsArePlain
  <2>3. \A t : Ending(t) => Ending(tools \o t)
    BY <2>2, PlainBefore
  <2> QED BY <2>1, <2>3, EndingLiterals
<1> QED BY <1>1, <1>2, <1>3, <1>4 DEF Advances

LEMMA QueryAdvances == ASSUME QueryInv, ProgressNext PROVE Advances
<1>1. CASE Fail("error", {"direct", "phase1", "phase3", "llm"})
  <2>1. {"direct", "phase1", "phase3", "llm"} \subseteq Places \ {"start", "loop", "return", "closed"}
    BY DEF Places
  <2> QED BY <1>1, <2>1, FailAdvances
<1>2. CASE Fail("panic", {"phase2", "phase3", "exec"})
  <2>1. {"phase2", "phase3", "exec"} \subseteq Places \ {"start", "loop", "return", "closed"}
    BY DEF Places
  <2> QED BY <1>2, <2>1, FailAdvances
<1> QED BY <1>1, <1>2, EarlyAdvances, LoopAdvances, IterationAdvances DEF ProgressNext

\* What the callback offers of a burst: no iteration's end, or the one of the
\* iteration that has just ended.
LEMMA ForwardedTold ==
  ASSUME Plain(burst') \/ Ending(burst'), step' \in Nat
  PROVE  /\ Forwarded(burst') \in Seq(EventType)
         /\ InOrder(Forwarded(burst'))
         /\ Told(Forwarded(burst')) = IF Plain(burst') THEN {} ELSE {step'}
         /\ burst' = <<>> => Forwarded(burst') = <<>>
<1> DEFINE kinds == FoldLeft(Forward, <<>>, burst')
           f == Forwarded(burst')
           ic == "iteration_complete"
<1>1. Filtered(burst', kinds)
  <2>1. burst' \in Seq(EventKinds)
    BY DEF Plain, Ending
  <2> QED BY <2>1, FoldFilters
<1>2. f = [i \in DOMAIN kinds |-> [kind |-> kinds[i], step |-> step']]
  BY DEF Forwarded
<1> HIDE DEF f, kinds
<1>3. /\ kinds \in Seq(Forwardable) /\ ic \in Forwardable
      /\ DOMAIN kinds = 1..Len(kinds) /\ Len(kinds) \in Nat
      /\ \A i \in 1..Len(kinds) : kinds[i] \in Forwardable
  BY <1>1, LenProperties DEF Filtered, Forwardable, EventKinds
<1>4. /\ f \in [1..Len(kinds) -> EventType] /\ DOMAIN f = 1..Len(kinds)
      /\ \A i \in DOMAIN f : f[i].kind = kinds[i] /\ f[i].step = step'
  BY <1>2, <1>3 DEF EventType, Forwardable
<1>5. f \in Seq(EventType)
  BY <1>3, <1>4, FunctionIsSeq
<1>6. Occurs(ic, kinds) <=> ~Plain(burst')
  BY <1>1, <1>3 DEF Filtered, Plain, Ending
<1>7. Told(f) = IF Plain(burst') THEN {} ELSE {step'}
  BY <1>3, <1>4, <1>6 DEF Told, Ends, Occurs
<1>8. InOrder(f)
  <2>1. Once(ic, kinds)
    <3>1. Once(ic, burst')
      BY DEF Plain, Ending, Occurs, Once
    <3> QED BY <1>1, <1>3, <3>1 DEF Filtered
  <2> QED BY <1>3, <1>4, <2>1 DEF InOrder, Ends, Once
<1>9. burst' = <<>> => f = <<>>
  <2> SUFFICES ASSUME burst' = <<>>, f # <<>> PROVE FALSE
    OBVIOUS
  <2>1. 1 \in DOMAIN f
    BY <1>5, EmptySeq, LenProperties
  <2>2. kinds[1] \in Forwardable /\ Occurs(kinds[1], kinds)
    BY <1>3, <1>4, <2>1 DEF Occurs
  <2>3. Occurs(kinds[1], burst')
    BY <1>1, <2>2 DEF Filtered
  <2> QED BY <2>3 DEF Occurs
<1> QED BY <1>5, <1>7, <1>8, <1>9 DEF f

-----------------------------------------------------------------------------
(* The invariant, action by action.                                        *)

LEMMA PageTyped ==
  ASSUME page \in PageType
  PROVE  /\ page.running \in BOOLEAN /\ page.timer \in BOOLEAN
         /\ page.history \in Seq(Nat) /\ page.data.run \in Nat
         /\ page.data \in [run : Nat, success : BOOLEAN, iterations : Nat, history : Seq(Nat)]
         /\ page.example \in Examples \union {Nothing}
         /\ page.path \in Examples \union {Nothing}
         /\ page.text \in Examples \union {Nothing}
BY DEF PageType

\* Steps that fetch nothing, and steps that leave the query alone.
LEMMA SelectionKept == ASSUME SelectionInv, UNCHANGED fetching PROVE SelectionInv'
BY DEF SelectionInv

LEMMA QueryKept == ASSUME QueryInv, UNCHANGED progressVars PROVE QueryInv'
BY DEF QueryInv, progressVars

LEMMA HistoryKept ==
  ASSUME HistoryInv, UNCHANGED <<progressVars, channel, emitting, open, dropped, run>>,
         page'.history = page.history, page'.data = page.data
  PROVE  HistoryInv'
BY DEF HistoryInv, progressVars, Listed, InFlight, Told, InOrder, Ends, Before,
       Completed, HasResult

LEMMA AcceptInv == ASSUME StreamInv, Accept PROVE StreamInv'
<1>1. /\ task = "connecting" /\ task' \in {"running", "last"}
      /\ UNCHANGED <<progressVars, emitting, channel, open, dropped, run, page, fetching>>
  BY DEF Accept
<1>2. QueryInv' /\ HistoryInv' /\ SelectionInv'
  BY <1>1, QueryKept, HistoryKept, SelectionKept DEF StreamInv
<1>3. TaskInv'
  BY <1>1 DEF StreamInv, TaskInv, progressVars
<1>4. PageInv'
  BY <1>1 DEF StreamInv, TaskInv, PageInv, HasResult, EndsWell, progressVars
<1> QED BY <1>2, <1>3, <1>4 DEF StreamInv

LEMMA ProduceInv == ASSUME StreamInv, Produce PROVE StreamInv'
<1> DEFINE f == Forwarded(burst')
<1>1. /\ task = "running" /\ emitting = <<>> /\ emitting' = f
      /\ task' = (CASE at' # "closed"     -> "running"
                    [] outcome' = "panic" -> "done"
                    [] OTHER              -> "last")
      /\ UNCHANGED <<channel, open, dropped, run, page, fetching>>
  BY DEF Produce
<1>2. Advances
  BY QueryAdvances DEF StreamInv, Produce
<1>3. QueryInv' /\ step' \in Nat /\ Completed \in Nat
  BY <1>2, MaxIterationsAssumption DEF Advances, QueryInv, StreamInv, Completed
<1>4. /\ f \in Seq(EventType) /\ InOrder(f)
      /\ burst' = <<>> => f = <<>>
      /\ \/ Told(f) = {} /\ Completed' = Completed
         \/ Told(f) = {Completed + 1} /\ Completed' = Completed + 1
  <2>1. Plain(burst') => ~Ending(burst')
    BY DEF Plain, Ending
  <2> QED BY <1>2, <1>3, <2>1, ForwardedTold DEF Advances
<1> HIDE DEF f
<1>5. /\ at' # "closed" => task' = "running"
      /\ at' = "closed" => task' = "last" \/ (task' = "done" /\ outcome' = "panic")
  <2>1. at' # "closed" => outcome' # "panic"
    BY <1>3 DEF QueryInv, Well
  <2>2. CASE at' # "closed"
    BY <1>1, <2>1, <2>2
  <2>3. CASE at' = "closed" /\ outcome' = "panic"
    BY <1>1, <2>3
  <2>4. CASE at' = "closed" /\ outcome' # "panic"
    BY <1>1, <2>4
  <2> QED BY <2>2, <2>3, <2>4
<1>6. /\ \A i \in DOMAIN channel : channel[i] \in EventType
      /\ run > 0 /\ run \in Nat
  <2>1. task # "done" /\ run # 0 /\ run \in Nat
    BY <1>1, MaxRunsAssumption DEF StreamInv, TaskInv
  <2> QED BY <1>1, <2>1 DEF StreamInv, TaskInv
<1>7. TaskInv'
  <2>1. task' = "done" => emitting' = <<>>
    BY <1>1, <1>2, <1>4, <1>5 DEF Advances
  <2> QED BY <1>1, <1>4, <1>5, <1>6, <2>1 DEF StreamInv, TaskInv
<1>8. PageInv'
  <2>1. ~HasResult /\ page.status # "complete"
    BY <1>1, <1>6 DEF StreamInv, PageInv, EndsWell
  <2>2. ~HasResult' /\ ~EndsWell'
    BY <1>1, <1>5, <2>1 DEF HasResult, EndsWell, Well
  <2> QED BY <1>1, <2>1, <2>2 DEF StreamInv, PageInv
<1>9. HistoryInv'
  <2>1. Told(emitting) = {} /\ InOrder(emitting)
    BY <1>1, ToldNothing
  <2>2. Listed' = Listed /\ Told(channel)' = Told(channel) /\ Told(emitting)' = Told(f)
    BY <1>1 DEF Listed, Told, Ends
  <2>3. InOrder(channel)' /\ InOrder(emitting)'
    BY <1>1, <1>4 DEF StreamInv, HistoryInv, InOrder, Ends
  <2>4. /\ Before(Listed, Told(channel))
        /\ \A n \in Listed \union Told(channel) : n \in 1..Completed
    <3>1. Told(channel) \subseteq InFlight
      BY DEF InFlight
    <3>2. Before(Listed, InFlight) /\ \A n \in Listed \union InFlight : n \in 1..Completed
      BY DEF StreamInv, HistoryInv
    <3> QED BY <3>1, <3>2 DEF Before
  <2>5. /\ Before(Listed, Told(channel) \union Told(f)) /\ Before(Told(channel), Told(f))
        /\ \A n \in Listed \union (Told(channel) \union Told(f)) : n \in 1..Completed'
    BY <1>3, <1>4, <2>4 DEF Before
  <2>6. ~HasResult'
    BY <1>1, <1>6 DEF StreamInv, PageInv, EndsWell, HasResult
  <2>7. open /\ ~dropped =>
          /\ page.history = [i \in 1..Len(page.history) |-> i]
          /\ (Len(page.history) + 1)..Completed' \subseteq Told(channel) \union Told(f)
    <3> SUFFICES ASSUME open, ~dropped
                 PROVE  /\ page.history = [i \in 1..Len(page.history) |-> i]
                        /\ (Len(page.history) + 1)..Completed' \subseteq Told(channel) \union Told(f)
      OBVIOUS
    <3>1. /\ page.history = [i \in 1..Len(page.history) |-> i]
          /\ (Len(page.history) + 1)..Completed \subseteq Told(channel)
      BY <2>1 DEF StreamInv, HistoryInv, InFlight
    <3>2. Len(page.history) \in Nat
      BY LenProperties DEF StreamInv, PageInv, PageType
    <3> QED BY <1>3, <1>4, <3>1, <3>2
  <2> QED BY <1>1, <2>2, <2>3, <2>5, <2>6, <2>7
          DEF StreamInv, HistoryInv, InFlight, Before
<1>10. SelectionInv'
  BY <1>1, SelectionKept DEF StreamInv
<1> QED BY <1>3, <1>7, <1>8, <1>9, <1>10 DEF StreamInv

\* While the task is not done, the page cannot have the result.
LEMMA Unfinished ==
  ASSUME StreamInv, task # "done"
  PROVE  /\ ~EndsWell /\ page.status # "complete"
         /\ run > 0 => ~HasResult
         /\ \A i \in DOMAIN channel : channel[i] \in EventType
BY DEF StreamInv, TaskInv, PageInv, EndsWell

LEMMA TrySendInv == ASSUME StreamInv, TrySend PROVE StreamInv'
<1> DEFINE e == Head(emitting)
           E == IF Ends(e) THEN {e.step} ELSE {}
<1>1. /\ emitting # <<>> /\ emitting' = Tail(emitting)
      /\ \/ open /\ Len(channel) < Capacity /\ channel' = Append(channel, e)
            /\ dropped' = dropped
         \/ dropped' = TRUE /\ channel' = channel
      /\ UNCHANGED <<progressVars, task, open, run, page, fetching>>
  BY DEF TrySend
<1>2. /\ emitting \in Seq(EventType) /\ channel \in Seq(ChannelType)
      /\ task \in {"running", "last"} /\ run > 0
  BY <1>1, MaxRunsAssumption DEF StreamInv, TaskInv
<1>3. /\ e \in EventType /\ e \in ChannelType /\ emitting' \in Seq(EventType)
      /\ Told(emitting) = Told(emitting)' \union E
      /\ InOrder(emitting)' /\ (Ends(e) => Before({e.step}, Told(emitting)'))
  <2>1. e \in EventType /\ Tail(emitting) \in Seq(EventType)
    BY <1>1, <1>2, HeadTailProperties
  <2>2. /\ Told(emitting) = Told(Tail(emitting)) \union E
        /\ InOrder(emitting) => /\ InOrder(Tail(emitting))
                                /\ Ends(e) => Before({e.step}, Told(Tail(emitting)))
    BY <1>1, <1>2, ToldTail
  <2>3. Told(emitting)' = Told(Tail(emitting)) /\ (InOrder(emitting)' <=> InOrder(Tail(emitting)))
    BY <1>1 DEF Told, InOrder, Ends
  <2> QED BY <1>1, <2>1, <2>2, <2>3 DEF ChannelType, StreamInv, HistoryInv
<1>4. /\ ~EndsWell /\ page.status # "complete" /\ ~HasResult
      /\ \A i \in DOMAIN channel : channel[i] \in EventType
  BY <1>2, Unfinished
<1> HIDE DEF e
<1>5. /\ channel' \in Seq(ChannelType) /\ Len(channel') <= Capacity
      /\ \A i \in DOMAIN channel' : channel'[i] \in EventType
      /\ ~open => channel' = <<>>
  <2>1. CASE channel' = channel
    BY <1>2, <1>4, <2>1 DEF StreamInv, TaskInv
  <2>2. CASE open /\ Len(channel) < Capacity /\ channel' = Append(channel, e)
    <3>1. /\ channel' \in Seq(ChannelType) /\ Len(channel') = Len(channel) + 1
          /\ \A i \in 1..Len(channel) : channel'[i] = channel[i]
          /\ channel'[Len(channel) + 1] = e /\ Len(channel) \in Nat
          /\ DOMAIN channel = 1..Len(channel) /\ DOMAIN channel' = 1..Len(channel')
      BY <1>2, <1>3, <2>2, AppendProperties, LenProperties
    <3> QED BY <1>3, <1>4, <2>2, <3>1, CapacityAssumption
  <2> QED BY <1>1, <2>1, <2>2
<1>6. TaskInv'
  BY <1>1, <1>2, <1>3, <1>5 DEF StreamInv, TaskInv, progressVars
<1>7. PageInv'
  <2>1. ~EndsWell' /\ ~HasResult'
    BY <1>1, <1>4 DEF EndsWell, HasResult, progressVars
  <2> QED BY <1>1, <1>4, <2>1 DEF StreamInv, PageInv
<1>8. HistoryInv'
  <2>1. Listed' = Listed /\ Completed' = Completed
    BY <1>1 DEF Listed, Completed, progressVars
  <2>2. /\ \A i, j \in DOMAIN page.history : i < j => page.history[i] < page.history[j]
        /\ Before(Listed, InFlight)
        /\ InOrder(channel) /\ Before(Told(channel), Told(emitting))
        /\ \A n \in Listed \union InFlight : n \in 1..Completed
    BY DEF StreamInv, HistoryInv
  <2>3. /\ InOrder(channel)' /\ Before(Told(channel)', Told(emitting)')
        /\ InFlight' \subseteq InFlight
        /\ ~dropped' => InFlight' = InFlight /\ ~dropped
    <3>1. CASE dropped' = TRUE /\ channel' = channel
      <4>1. Told(channel)' = Told(channel) /\ (InOrder(channel)' <=> InOrder(channel))
        BY <3>1 DEF Told, InOrder, Ends
      <4> QED BY <1>3, <2>2, <3>1, <4>1 DEF InFlight, Before
    <3>2. CASE channel' = Append(channel, e) /\ dropped' = dropped
      <4>1. /\ Told(Append(channel, e)) = Told(channel) \union E
            /\ InOrder(channel) /\ (Ends(e) => Before(Told(channel), {e.step}))
                 => InOrder(Append(channel, e))
        BY <1>2, <1>3, ToldAppend
      <4>2. Ends(e) => Before(Told(channel), {e.step})
        BY <1>3, <2>2 DEF Before
      <4>3. /\ Told(channel)' = Told(Append(channel, e))
            /\ InOrder(channel)' <=> InOrder(Append(channel, e))
        BY <3>2 DEF Told, InOrder, Ends
      <4>4. Told(channel)' = Told(channel) \union E /\ InOrder(channel)'
        BY <2>2, <4>1, <4>2, <4>3
      <4>5. Before(Told(channel)', Told(emitting)')
        BY <1>3, <2>2, <4>4 DEF Before
      <4>6. InFlight' = InFlight
        BY <1>3, <4>4 DEF InFlight
      <4> QED BY <3>2, <4>4, <4>5, <4>6
    <3> QED BY <1>1, <3>1, <3>2
  <2>4. Before(Listed', InFlight') /\ \A n \in Listed' \union InFlight' : n \in 1..Completed'
    BY <2>1, <2>2, <2>3 DEF Before
  <2>5. ~HasResult'
    BY <1>1, <1>4 DEF HasResult
  <2>6. open' /\ ~dropped' =>
          /\ page'.history = [i \in 1..Len(page'.history) |-> i]
          /\ (Len(page'.history) + 1)..Completed' \subseteq InFlight'
    BY <1>1, <2>1, <2>3 DEF StreamInv, HistoryInv
  <2> QED BY <1>1, <1>3, <2>2, <2>3, <2>4, <2>5, <2>6 DEF HistoryInv, Before
<1> QED BY <1>1, <1>6, <1>7, <1>8, QueryKept, SelectionKept DEF StreamInv

\* The event that ends the stream is none of the query's own.
LEMMA TerminalTyped ==
  ASSUME QueryInv
  PROVE  /\ Terminal \in ChannelType /\ Terminal \notin EventType /\ ~Ends(Terminal)
         /\ outcome \in Well =>
              /\ Terminal.kind = "done" /\ Terminal.success = (outcome = "answered")
              /\ Terminal.iterations = IF step = 0 THEN 1 ELSE step
              /\ Terminal \in DoneType
         /\ outcome \notin Well => Terminal.kind = "error"
<1>1. CASE outcome \in Well
  <2> DEFINE n == IF step = 0 THEN 1 ELSE step
             ok == outcome = "answered"
  <2>1. Terminal = [kind |-> "done", success |-> ok, iterations |-> n]
    BY <1>1 DEF Terminal, Well
  <2>2. n \in Nat /\ ok \in BOOLEAN
    BY MaxIterationsAssumption DEF QueryInv
  <2> HIDE DEF n, ok
  <2>3. Terminal \in DoneType /\ Terminal.kind = "done" /\ Terminal.iterations = n
    BY <2>1, <2>2 DEF DoneType
  <2>4. Terminal.success = ok
    BY <2>1, Zenon
  <2>5. Terminal \notin EventType /\ ~Ends(Terminal)
    BY <2>3 DEF EventType, EventKinds, Ends
  <2> QED BY <1>1, <2>3, <2>4, <2>5 DEF n, ok, ChannelType
<1>2. CASE outcome \notin Well
  <2>1. Terminal = [kind |-> "error"]
    BY <1>2 DEF Terminal, Well
  <2>2. Terminal \in ErrorType /\ Terminal.kind = "error"
    BY <2>1 DEF ErrorType
  <2>3. Terminal \notin EventType /\ ~Ends(Terminal)
    BY <2>2 DEF EventType, EventKinds, Ends
  <2> QED BY <1>2, <2>2, <2>3 DEF ChannelType
<1> QED BY <1>1, <1>2

LEMMA SendLastInv == ASSUME StreamInv, SendLast PROVE StreamInv'
<1> DEFINE t == Terminal
<1>1. /\ task = "last" /\ emitting = <<>> /\ task' = "done"
      /\ open => Len(channel) < Capacity
      /\ channel' = IF open THEN Append(channel, t) ELSE channel
      /\ UNCHANGED <<progressVars, emitting, open, dropped, run, page, fetching>>
  BY DEF SendLast
<1>2. t \in ChannelType /\ ~Ends(t) /\ t' = t
  BY <1>1, TerminalTyped DEF StreamInv, Terminal, progressVars
<1>3. /\ ~EndsWell /\ page.status # "complete" /\ ~HasResult
      /\ \A i \in DOMAIN channel : channel[i] \in EventType
  <2>1. run > 0
    BY <1>1, MaxRunsAssumption DEF StreamInv, TaskInv
  <2> QED BY <1>1, <2>1, Unfinished
<1> HIDE DEF t
<1>4. channel \in Seq(ChannelType) /\ Len(channel) \in Nat
  BY LenProperties DEF StreamInv, TaskInv
<1>5. /\ channel' \in Seq(ChannelType) /\ Len(channel') <= Capacity
      /\ \A i \in DOMAIN channel' : channel'[i] \notin EventType =>
           i = Len(channel') /\ channel'[i] = t
      /\ open => channel' # <<>> /\ channel'[Len(channel')] = t
      /\ ~open => channel' = <<>>
      /\ Told(channel') = Told(channel) /\ (InOrder(channel) => InOrder(channel'))
  <2>1. CASE ~open
    BY <1>1, <1>3, <2>1 DEF StreamInv, TaskInv
  <2>2. CASE open
    <3>1. /\ channel' = Append(channel, t) /\ channel' # <<>>
          /\ channel' \in Seq(ChannelType) /\ Len(channel') = Len(channel) + 1
          /\ \A i \in 1..Len(channel) : channel'[i] = channel[i]
          /\ channel'[Len(channel) + 1] = t
          /\ DOMAIN channel = 1..Len(channel) /\ DOMAIN channel' = 1..Len(channel')
      BY <1>1, <1>2, <1>4, <2>2, AppendProperties, LenProperties
    <3>2. /\ Told(channel') = Told(channel) /\ (InOrder(channel) => InOrder(channel'))
      BY <1>2, <1>4, <3>1, ToldAppend, ZenonT(30)
    <3>3. Len(channel') <= Capacity
      BY <1>1, <1>4, <2>2, <3>1, CapacityAssumption
    <3> QED BY <1>3, <1>4, <2>2, <3>1, <3>2, <3>3
  <2> QED BY <2>1, <2>2
<1>6. TaskInv'
  BY <1>1, <1>2, <1>5 DEF StreamInv, TaskInv, progressVars, t
<1>7. PageInv'
  <2>1. ~HasResult'
    BY <1>1, <1>3 DEF HasResult
  <2> QED BY <1>1, <1>2, <1>3, <1>5, <2>1 DEF StreamInv, PageInv, t
<1>8. HistoryInv'
  <2>1. /\ Listed' = Listed /\ Completed' = Completed /\ Told(emitting)' = Told(emitting)
        /\ InOrder(emitting)' <=> InOrder(emitting)
    BY <1>1 DEF Listed, Completed, progressVars, Told, InOrder, Ends
  <2>2. Told(channel)' = Told(channel') /\ (InOrder(channel)' <=> InOrder(channel'))
    BY DEF Told, InOrder, Ends
  <2>3. InFlight' = InFlight /\ Told(channel)' = Told(channel) /\ InOrder(channel)'
    BY <1>5, <2>1, <2>2 DEF InFlight, StreamInv, HistoryInv
  <2>4. ~HasResult'
    BY <1>1, <1>3 DEF HasResult
  <2> QED BY <1>1, <2>1, <2>3, <2>4 DEF StreamInv, HistoryInv, Before
<1> QED BY <1>1, <1>6, <1>7, <1>8, QueryKept, SelectionKept DEF StreamInv

LEMMA EmptyChannel ==
  /\ <<>> \in Seq(ChannelType) /\ <<>> \in Seq(EventType)
  /\ Len(<<>>) <= Capacity /\ DOMAIN <<>> = {}
BY CapacityAssumption, EmptySeq

LEMMA ClickInv == ASSUME StreamInv, Click PROVE StreamInv'
<1>1. /\ ~page.running /\ run < MaxRuns /\ run' = run + 1
      /\ page' = [page EXCEPT !.running = TRUE, !.timer = FALSE, !.status = "connecting",
                              !.history = <<>>, !.data = NoData]
      /\ at' = "start" /\ step' = 0 /\ burst' = <<>> /\ outcome' = "none"
      /\ task' = "connecting" /\ emitting' = <<>> /\ channel' = <<>>
      /\ open' = TRUE /\ dropped' = FALSE /\ fetching' = fetching
  BY DEF Click
<1>2. page \in PageType /\ run \in Nat /\ run' \in 1..MaxRuns
  BY <1>1, MaxRunsAssumption DEF StreamInv, TaskInv, PageInv
<1>3. /\ NoData \in [run : Nat, success : BOOLEAN, iterations : Nat, history : Seq(Nat)]
      /\ NoData.run = 0
  BY DEF NoData
<1>4. /\ page' \in PageType /\ page'.running = TRUE /\ page'.status = "connecting"
      /\ page'.history = <<>> /\ page'.data = NoData
  <2>1. <<>> \in Seq(Nat)
    OBVIOUS
  <2> HIDE DEF NoData
  <2> QED BY <1>1, <1>2, <1>3, <2>1 DEF PageType
<1>5. QueryInv'
  BY <1>1, MaxIterationsAssumption DEF QueryInv, Places, Outcomes, Early
<1>6. TaskInv'
  <2>1. task' = "connecting" /\ run' \in 0..MaxRuns /\ run' # 0
    BY <1>1, <1>2
  <2> QED BY <1>1, <2>1, EmptyChannel DEF TaskInv
<1>7. ~HasResult'
  BY <1>2, <1>3, <1>4 DEF HasResult
<1>8. PageInv'
  BY <1>1, <1>2, <1>3, <1>4, <1>7 DEF PageInv, EndsWell
<1>9. HistoryInv'
  <2>1. Listed' = {} /\ Told(channel)' = {} /\ Told(emitting)' = {} /\ Completed' = 0
    BY <1>1, <1>4 DEF Listed, Told, Completed
  <2>2. InOrder(channel)' /\ InOrder(emitting)'
    BY <1>1 DEF InOrder
  <2>3. Len(page'.history) = 0 /\ page'.history = [i \in 1..0 |-> i] /\ (0 + 1)..0 = {}
    <3>1. <<>> = [i \in 1..0 |-> i]
      OBVIOUS
    <3> QED BY <1>4, <3>1
  <2> QED BY <1>4, <1>7, <2>1, <2>2, <2>3 DEF HistoryInv, InFlight, Before
<1> QED BY <1>1, <1>4, <1>5, <1>6, <1>8, <1>9, SelectionKept DEF StreamInv

LEMMA StreamEndsInv == ASSUME StreamInv, StreamEnds PROVE StreamInv'
<1>1. /\ open /\ task = "done" /\ emitting = <<>> /\ channel = <<>> /\ open' = FALSE
      /\ page' = [page EXCEPT !.running = FALSE, !.status = "complete"]
      /\ UNCHANGED <<progressVars, task, emitting, channel, dropped, run, fetching>>
  BY DEF StreamEnds, Finished
<1>2. page \in PageType
  BY DEF StreamInv, PageInv
<1>3. /\ page' \in PageType /\ page'.running = FALSE /\ page'.status = "complete"
      /\ page'.history = page.history /\ page'.data = page.data
  BY <1>1, <1>2 DEF PageType
<1>4. TaskInv'
  <2>1. at' = at
    BY <1>1 DEF progressVars
  <2> QED BY <1>1, <2>1, EmptyChannel DEF StreamInv, TaskInv
<1>5. PageInv'
  BY <1>1, <1>3 DEF StreamInv, PageInv, HasResult, EndsWell, progressVars
<1>6. HistoryInv'
  BY <1>1, <1>3 DEF StreamInv, HistoryInv, Listed, InFlight, Told, InOrder, Ends, Before,
                    Completed, HasResult, progressVars
<1> QED BY <1>1, <1>3, <1>4, <1>5, <1>6, QueryKept, SelectionKept DEF StreamInv

LEMMA DisconnectInv == ASSUME StreamInv, Disconnect PROVE StreamInv'
<1>1. /\ open /\ open' = FALSE /\ channel' = <<>>
      /\ page' = [page EXCEPT !.running = FALSE, !.status = "failed"]
      /\ task' = IF task = "connecting" THEN "done" ELSE task
      /\ UNCHANGED <<progressVars, emitting, dropped, run, fetching>>
  BY DEF Disconnect, Finished
<1>2. page \in PageType
  BY DEF StreamInv, PageInv
<1>3. /\ page' \in PageType /\ page'.running = FALSE /\ page'.status = "failed"
      /\ page'.history = page.history /\ page'.data = page.data
  BY <1>1, <1>2 DEF PageType
<1>4. TaskInv'
  <2>1. at' = at
    BY <1>1 DEF progressVars
  <2> QED BY <1>1, <2>1, EmptyChannel DEF StreamInv, TaskInv
<1>5. PageInv'
  BY <1>1, <1>3 DEF StreamInv, PageInv, HasResult, EndsWell, progressVars
<1>6. HistoryInv'
  <2>1. /\ Told(channel)' = {} /\ InOrder(channel)' /\ Told(emitting)' = Told(emitting)
        /\ InOrder(emitting)' <=> InOrder(emitting)
        /\ Listed' = Listed /\ Completed' = Completed /\ (HasResult' <=> HasResult)
    BY <1>1, <1>3 DEF Told, InOrder, Ends, Listed, Completed, HasResult, progressVars
  <2>2. /\ InFlight' \subseteq InFlight
    BY <2>1 DEF InFlight
  <2> QED BY <1>1, <1>3, <2>1, <2>2 DEF StreamInv, HistoryInv, Before, progressVars
<1> QED BY <1>1, <1>3, <1>4, <1>5, <1>6, QueryKept, SelectionKept DEF StreamInv

\* The page changes in what it says of the wait, or in what it asks about next.
LEMMA PageOnly ==
  ASSUME StreamInv,
         UNCHANGED <<progressVars, task, emitting, channel, open, dropped, run>>,
         page' \in PageType, page'.running = page.running,
         page'.history = page.history, page'.data = page.data,
         page'.status = page.status \/ page'.status # "complete",
         SelectionInv'
  PROVE  StreamInv'
<1>1. TaskInv'
  <2>1. at' = at /\ Terminal' = Terminal
    BY DEF progressVars, Terminal
  <2> QED BY <2>1 DEF StreamInv, TaskInv
<1>2. PageInv'
  <2>1. outcome' = outcome /\ step' = step /\ Terminal' = Terminal
    BY DEF progressVars, Terminal
  <2> QED BY <2>1 DEF StreamInv, PageInv, HasResult, EndsWell
<1> QED BY <1>1, <1>2, QueryKept, HistoryKept DEF StreamInv

LEMMA TickInv == ASSUME StreamInv, Tick PROVE StreamInv'
<1>1. /\ page' = [page EXCEPT !.status = "waiting"]
      /\ UNCHANGED <<progressVars, task, emitting, channel, open, dropped, run, fetching>>
  BY DEF Tick
<1>2. page \in PageType
  BY DEF StreamInv, PageInv
<1>3. /\ page' \in PageType /\ page'.running = page.running /\ page'.status = "waiting"
      /\ page'.history = page.history /\ page'.data = page.data
  BY <1>1, <1>2 DEF PageType
<1>4. SelectionInv'
  BY <1>1, <1>3, SelectionKept DEF StreamInv
<1> QED BY <1>1, <1>3, <1>4, PageOnly

LEMMA SelectInv == ASSUME StreamInv, NEW e \in Examples, Select(e) PROVE StreamInv'
<1> DEFINE path == IF e.from = "file" THEN e ELSE Nothing
           text == IF e.from = "inline" THEN e ELSE Nothing
<1>1. /\ page' = [page EXCEPT !.example = e, !.path = path, !.text = text]
      /\ fetching' = IF e.from = "url" THEN fetching \union {e} ELSE fetching
      /\ UNCHANGED <<progressVars, task, emitting, channel, open, dropped, run>>
  BY DEF Select, Keep
<1>2. page \in PageType /\ path \in Examples \union {Nothing} /\ text \in Examples \union {Nothing}
  BY DEF StreamInv, PageInv
<1> HIDE DEF path, text
<1>3. /\ page' \in PageType /\ page'.running = page.running /\ page'.status = page.status
      /\ page'.history = page.history /\ page'.data = page.data
  BY <1>1, <1>2 DEF PageType
<1>4. SelectionInv'
  BY <1>1 DEF StreamInv, SelectionInv
<1> QED BY <1>1, <1>3, <1>4, PageOnly

LEMMA FetchedInv == ASSUME StreamInv, NEW e \in Examples, Fetched(e) PROVE StreamInv'
<1>1. PICK text \in {e, Nothing} :
        /\ e \in fetching /\ fetching' = fetching \ {e}
        /\ page' = [page EXCEPT !.text = text]
        /\ UNCHANGED <<progressVars, task, emitting, channel, open, dropped, run>>
  BY DEF Fetched, Keep
<1>2. page \in PageType /\ text \in Examples \union {Nothing}
  BY <1>1 DEF StreamInv, PageInv, SelectionInv
<1>3. /\ page' \in PageType /\ page'.running = page.running /\ page'.status = page.status
      /\ page'.history = page.history /\ page'.data = page.data
  BY <1>1, <1>2 DEF PageType
<1>4. SelectionInv'
  BY <1>1 DEF StreamInv, SelectionInv
<1> QED BY <1>1, <1>3, <1>4, PageOnly

\* What one event of the query does to the page, and what the answer does.
LEMMA EventShown ==
  ASSUME page \in PageType, NEW e \in EventType, NEW p, p = Shown(page, e)
  PROVE  /\ p \in PageType /\ p.running = page.running /\ p.data = page.data
         /\ p.history = IF Ends(e) THEN Append(page.history, e.step) ELSE page.history
         /\ p.status = page.status \/ p.status = "processing"
<1>1. e.kind # "done" /\ e.step \in Nat
  BY DEF EventType, EventKinds
<1>2. page.history \in Seq(Nat) /\ Append(page.history, e.step) \in Seq(Nat)
  BY <1>1, AppendProperties DEF PageType
<1>3. CASE e.kind = "llm_start"
  <2>1. p = [page EXCEPT !.timer = TRUE]
    BY <1>3 DEF Shown
  <2> QED BY <1>3, <2>1 DEF PageType, Ends
<1>4. CASE e.kind = "llm_complete"
  <2>1. p = [page EXCEPT !.timer = FALSE, !.status = "processing"]
    BY <1>4 DEF Shown
  <2> QED BY <1>4, <2>1 DEF PageType, Ends
<1>5. CASE e.kind = "iteration_complete"
  <2>1. p = [page EXCEPT !.history = Append(page.history, e.step)]
    BY <1>5 DEF Shown
  <2> QED BY <1>2, <1>5, <2>1 DEF PageType, Ends
<1>6. CASE e.kind \notin {"llm_start", "llm_complete", "iteration_complete"}
  <2>1. p = page
    BY <1>1, <1>6 DEF Shown
  <2> QED BY <1>6, <2>1 DEF Ends
<1> QED BY <1>3, <1>4, <1>5, <1>6

LEMMA AnswerShown ==
  ASSUME page \in PageType, run \in Nat, NEW e \in DoneType, NEW p, p = Shown(page, e)
  PROVE  /\ p \in PageType /\ p.running = page.running /\ p.history = page.history
         /\ p.status = page.status
         /\ p.data = [run |-> run, success |-> e.success, iterations |-> e.iterations,
                      history |-> page.history]
<1> DEFINE d == [run |-> run, success |-> e.success, iterations |-> e.iterations,
                 history |-> page.history]
<1>1. p = [page EXCEPT !.data = d]
  BY DEF Shown, DoneType
<1>2. d \in [run : Nat, success : BOOLEAN, iterations : Nat, history : Seq(Nat)]
  BY DEF PageType, DoneType
<1> HIDE DEF d
<1> QED BY <1>1, <1>2 DEF PageType, d

LEMMA ErrorShown ==
  ASSUME NEW e \in ErrorType
  PROVE  Shown(page, e) = page
<1>1. e.kind = "error"
  BY DEF ErrorType
<1> QED BY <1>1 DEF Shown

\* The channel without its head.
LEMMA ChannelTail ==
  ASSUME StreamInv, channel # <<>>, channel' = Tail(channel)
  PROVE  /\ channel \in Seq(ChannelType) /\ channel' \in Seq(ChannelType)
         /\ Len(channel) \in Nat \ {0} /\ Len(channel') = Len(channel) - 1
         /\ Head(channel) = channel[1] /\ 1 \in DOMAIN channel
         /\ DOMAIN channel' = 1..Len(channel')
         /\ \A i \in DOMAIN channel' : i + 1 \in DOMAIN channel /\ channel'[i] = channel[i + 1]
<1>1. channel \in Seq(ChannelType)
  BY DEF StreamInv, TaskInv
<1>2. /\ Len(channel) \in Nat \ {0} /\ DOMAIN channel = 1..Len(channel)
      /\ channel' \in Seq(ChannelType) /\ Len(channel') = Len(channel) - 1
      /\ \A i \in 1..Len(channel') : channel'[i] = channel[i + 1]
  BY <1>1, EmptySeq, LenProperties, HeadTailProperties
<1>3. DOMAIN channel' = 1..Len(channel')
  BY <1>2, LenProperties
<1> QED BY <1>1, <1>2, <1>3

LEMMA DeliverTask ==
  ASSUME StreamInv, Deliver
  PROVE  TaskInv'
<1>1. /\ channel # <<>> /\ channel' = Tail(channel) /\ open
      /\ UNCHANGED <<progressVars, task, emitting, open, dropped, run>>
  BY DEF Deliver
<1>2. at' = at /\ Terminal' = Terminal
  BY <1>1 DEF progressVars, Terminal
<1>3. /\ channel' \in Seq(ChannelType) /\ Len(channel') <= Capacity
      /\ \A i \in DOMAIN channel' :
           channel'[i] \notin EventType =>
             i = Len(channel') /\ task = "done" /\ channel'[i] = Terminal
  <2>1. /\ Len(channel) \in Nat /\ Len(channel) <= Capacity
        /\ \A i \in DOMAIN channel :
             channel[i] \notin EventType =>
               i = Len(channel) /\ task = "done" /\ channel[i] = Terminal
    BY <1>1, ChannelTail DEF StreamInv, TaskInv
  <2> QED BY <1>1, <2>1, ChannelTail, CapacityAssumption
<1> QED BY <1>1, <1>2, <1>3 DEF StreamInv, TaskInv

\* The next iteration on the page is the next one the query ended.
LEMMA DeliverHistory ==
  ASSUME StreamInv, channel # <<>>, channel' = Tail(channel), open,
         NEW e, e = Head(channel), e \in EventType,
         UNCHANGED <<progressVars, task, emitting, open, dropped, run>>,
         page'.data = page.data, ~HasResult,
         page'.history = IF Ends(e) THEN Append(page.history, e.step) ELSE page.history
  PROVE  HistoryInv'
<1> DEFINE E == IF Ends(e) THEN {e.step} ELSE {}
           h == Len(page.history)
           C == Completed
           F == Told(Tail(channel)) \union Told(emitting)
<1>1. /\ page.history \in Seq(Nat) /\ h \in Nat /\ C \in Nat /\ e.step \in Nat
      /\ DOMAIN page.history = 1..h /\ \A i \in 1..h : page.history[i] \in Nat
  BY LenProperties, MaxIterationsAssumption
     DEF StreamInv, PageInv, PageType, QueryInv, Completed, EventType
<1>2. /\ Told(channel) = Told(Tail(channel)) \union E
      /\ InOrder(channel) => /\ InOrder(Tail(channel))
                             /\ Ends(e) => Before({e.step}, Told(Tail(channel)))
  BY ChannelTail, ToldTail
<1>3. /\ Told(channel)' = Told(Tail(channel)) /\ (InOrder(channel)' <=> InOrder(Tail(channel)))
      /\ Told(emitting)' = Told(emitting) /\ (InOrder(emitting)' <=> InOrder(emitting))
      /\ Completed' = C
  BY DEF Told, InOrder, Ends, Completed, progressVars
<1>4. /\ InOrder(channel)' /\ InOrder(emitting)' /\ Before(Told(channel)', Told(emitting)')
      /\ Ends(e) => Before({e.step}, F)
      /\ InFlight = F \union E /\ InFlight' = F
  <2>1. InOrder(channel) /\ InOrder(emitting) /\ Before(Told(channel), Told(emitting))
    BY DEF StreamInv, HistoryInv
  <2> QED BY <1>2, <1>3, <2>1 DEF InFlight, Before
<1>5. /\ Before(Listed, InFlight) /\ \A n \in Listed \union InFlight : n \in 1..C
      /\ \A i, j \in 1..h : i < j => page.history[i] < page.history[j]
  BY <1>1 DEF StreamInv, HistoryInv
<1>6. ~HasResult' /\ run > 0
  BY MaxRunsAssumption DEF StreamInv, TaskInv, HasResult
<1>7. open /\ ~dropped =>
        /\ page.history = [i \in 1..h |-> i]
        /\ (h + 1)..C \subseteq InFlight
  BY DEF StreamInv, HistoryInv
<1> HIDE DEF h, C, F
<1>8. CASE ~Ends(e)
  <2>1. page'.history = page.history /\ Listed' = Listed /\ E = {}
    BY <1>8 DEF Listed
  <2> HIDE DEF E
  <2>2. Before(Listed', InFlight') /\ \A n \in Listed' \union InFlight' : n \in 1..C
    BY <1>4, <1>5, <2>1 DEF Before
  <2>3. \A i, j \in DOMAIN page'.history : i < j => page'.history[i] < page'.history[j]
    BY <1>1, <1>5, <2>1
  <2>4. open /\ ~dropped =>
          /\ page'.history = [i \in 1..Len(page'.history) |-> i]
          /\ (Len(page'.history) + 1)..C \subseteq InFlight'
    BY <1>4, <1>7, <2>1 DEF h
  <2> QED BY <1>3, <1>4, <1>6, <2>2, <2>3, <2>4 DEF HistoryInv, Before
<1>9. CASE Ends(e)
  <2> DEFINE g == page'.history
  <2>1. /\ g \in Seq(Nat) /\ Len(g) = h + 1 /\ DOMAIN g = 1..(h + 1)
        /\ \A i \in 1..h : g[i] = page.history[i]
        /\ g[h + 1] = e.step
    BY <1>1, <1>9, AppendProperties, LenProperties DEF h
  <2> HIDE DEF g
  <2>2. /\ \A i \in DOMAIN g : i \in 1..h \/ i = h + 1
        /\ \A i \in 1..h : page.history[i] \in Listed
        /\ \A n \in Listed : \E i \in 1..h : n = page.history[i]
    <3>1. \A i \in DOMAIN g : i \in 1..h \/ i = h + 1
      BY <1>1, <2>1
    <3>2. Listed = {page.history[i] : i \in 1..h}
      BY <1>1 DEF Listed
    <3> QED BY <3>1, <3>2
  <2>3. /\ \A n \in Listed : n < e.step
        /\ e.step \in 1..C /\ e.step \in InFlight
    BY <1>4, <1>5, <1>9 DEF Before
  <2>4. \A i, j \in DOMAIN g : i < j => g[i] < g[j]
    <3> SUFFICES ASSUME NEW i \in DOMAIN g, NEW j \in DOMAIN g, i < j PROVE g[i] < g[j]
      OBVIOUS
    <3>1. i \in 1..h
      BY <1>1, <2>1
    <3>2. CASE j = h + 1
      BY <2>1, <2>2, <2>3, <3>1, <3>2
    <3>3. CASE j \in 1..h
      BY <1>5, <2>1, <3>1, <3>3
    <3> QED BY <2>2, <3>2, <3>3
  <2>5. Listed' = Listed \union {e.step}
    <3>1. Listed' = {g[i] : i \in DOMAIN g}
      BY DEF Listed, g
    <3>2. ASSUME NEW n \in Listed' PROVE n \in Listed \union {e.step}
      BY <2>1, <2>2, <3>1, <3>2
    <3>3. ASSUME NEW n \in Listed PROVE n \in Listed'
      <4>1. PICK i \in 1..h : n = page.history[i]
        BY <2>2
      <4>2. i \in DOMAIN g /\ g[i] = n
        BY <1>1, <2>1, <4>1
      <4> QED BY <3>1, <4>2
    <3>4. e.step \in Listed'
      <4>1. h + 1 \in DOMAIN g
        BY <1>1, <2>1
      <4> QED BY <2>1, <3>1, <4>1
    <3> QED BY <3>2, <3>3, <3>4
  <2>6. Before(Listed', InFlight') /\ \A n \in Listed' \union InFlight' : n \in 1..C
    BY <1>4, <1>5, <1>9, <2>3, <2>5 DEF Before
  <2>7. open /\ ~dropped =>
          /\ g = [i \in 1..Len(g) |-> i]
          /\ (Len(g) + 1)..C \subseteq InFlight'
    <3> SUFFICES ASSUME open, ~dropped
                 PROVE  /\ g = [i \in 1..Len(g) |-> i]
                        /\ (Len(g) + 1)..C \subseteq InFlight'
      OBVIOUS
    <3>1. \A i \in 1..h : page.history[i] = i
      BY <1>7
    <3>2. e.step >= h + 1
      <4>1. CASE h = 0
        BY <2>3, <4>1
      <4>2. CASE h # 0
        <5>1. h \in 1..h
          BY <1>1, <4>2
        <5>2. h < e.step
          BY <2>2, <2>3, <3>1, <5>1
        <5> QED BY <1>1, <5>2
      <4> QED BY <4>1, <4>2
    <3>3. \A n \in F : e.step < n
      BY <1>4, <1>9 DEF Before
    <3>4. e.step = h + 1
      <4>1. h + 1 \in InFlight
        BY <1>1, <1>7, <2>3, <3>2
      <4>2. h + 1 \in F \/ h + 1 = e.step
        BY <1>4, <1>9, <4>1
      <4> QED BY <1>1, <3>2, <3>3, <4>2
    <3>5. g = [i \in 1..Len(g) |-> i]
      <4>1. \A i \in 1..Len(g) : g[i] = i
        BY <1>1, <2>1, <2>2, <3>1, <3>4
      <4>2. [i \in 1..Len(g) |-> i] \in Seq(Nat) /\ Len([i \in 1..Len(g) |-> i]) = Len(g)
        <5>1. [i \in 1..Len(g) |-> i] \in [1..Len(g) -> Nat] /\ Len(g) \in Nat
          BY <1>1, <2>1
        <5> QED BY <5>1, FunctionIsSeq
      <4> QED BY <2>1, <4>1, <4>2, SeqEqual
    <3>6. (h + 2)..C \subseteq F
      <4> SUFFICES ASSUME NEW n \in (h + 2)..C PROVE n \in F
        OBVIOUS
      <4>1. n \in (h + 1)..C /\ n # h + 1
        BY <1>1
      <4> QED BY <1>4, <1>7, <1>9, <3>4, <4>1
    <3> QED BY <1>1, <1>4, <2>1, <3>5, <3>6
  <2> QED BY <1>3, <1>4, <1>6, <2>4, <2>6, <2>7 DEF HistoryInv, Before, g
<1> QED BY <1>8, <1>9

\* An event of the query leaves the answer, if there is one, in the channel.
LEMMA DeliverEvent ==
  ASSUME StreamInv, Deliver, Head(channel) \in EventType
  PROVE  StreamInv'
<1> DEFINE e == Head(channel)
<1>1. /\ open /\ channel # <<>> /\ channel' = Tail(channel) /\ page' = Shown(page, e)
      /\ UNCHANGED <<progressVars, task, emitting, open, dropped, run, fetching>>
  BY DEF Deliver
<1>2. page \in PageType /\ e \in EventType
  BY DEF StreamInv, PageInv
<1>3. ~HasResult /\ run > 0
  BY <1>1, MaxRunsAssumption DEF StreamInv, TaskInv, PageInv, HasResult
<1>4. open => channel # <<>>
  BY <1>1
<1> HIDE DEF e
<1>5. /\ page' \in PageType /\ page'.running = page.running /\ page'.data = page.data
      /\ page'.history = IF Ends(e) THEN Append(page.history, e.step) ELSE page.history
      /\ page'.status = page.status \/ page'.status = "processing"
  BY <1>1, <1>2, EventShown
<1>6. Terminal' = Terminal /\ outcome' = outcome /\ step' = step
  BY <1>1 DEF Terminal, progressVars
<1>7. open /\ EndsWell => channel' # <<>> /\ channel'[Len(channel')] = Terminal
  <2> SUFFICES ASSUME open, EndsWell
               PROVE  channel' # <<>> /\ channel'[Len(channel')] = Terminal
    OBVIOUS
  <2>1. channel[Len(channel)] = Terminal
    BY <1>3 DEF StreamInv, PageInv
  <2>2. e = channel[1] /\ Terminal \notin EventType
    BY <1>1, ChannelTail, TerminalTyped DEF StreamInv, e
  <2>3. Len(channel) \in Nat \ {0} /\ Len(channel) # 1
    BY <1>1, <1>2, <2>1, <2>2, ChannelTail
  <2>4. /\ Len(channel') \in Nat /\ Len(channel') = Len(channel) - 1
        /\ Len(channel') \in DOMAIN channel'
    BY <1>1, <2>3, ChannelTail
  <2>5. channel'[Len(channel')] = channel[Len(channel') + 1]
    BY <1>1, <2>4, ChannelTail
  <2>6. Len(channel') + 1 = Len(channel)
    BY <2>3, <2>4
  <2> QED BY <2>1, <2>3, <2>4, <2>5, <2>6
<1>8. PageInv'
  <2>1. ~HasResult' /\ page'.status # "complete"
    BY <1>1, <1>3, <1>5 DEF StreamInv, PageInv, HasResult
  <2>2. EndsWell' <=> EndsWell
    BY <1>1, <1>6 DEF EndsWell
  <2> QED BY <1>1, <1>5, <1>6, <1>7, <2>1, <2>2 DEF StreamInv, PageInv
<1>9. HistoryInv'
  BY <1>1, <1>2, <1>3, <1>5, DeliverHistory DEF e
<1> QED BY <1>1, <1>5, <1>8, <1>9, DeliverTask, QueryKept, SelectionKept DEF StreamInv

\* The event that ends the stream: by then the page has been told everything
\* that was not dropped.
LEMMA DeliverEnd ==
  ASSUME StreamInv, Deliver, Head(channel) \notin EventType
  PROVE  StreamInv'
<1> DEFINE e == Head(channel)
<1>1. /\ open /\ channel # <<>> /\ channel' = Tail(channel) /\ page' = Shown(page, e)
      /\ UNCHANGED <<progressVars, task, emitting, open, dropped, run, fetching>>
  BY DEF Deliver
<1>2. page \in PageType
  BY DEF StreamInv, PageInv
<1>3. /\ e = Terminal /\ Len(channel) = 1 /\ task = "done"
  BY <1>1, ChannelTail DEF StreamInv, TaskInv
<1>4. /\ channel' = <<>> /\ emitting = <<>> /\ emitting' = <<>> /\ at \in {"start", "closed"}
      /\ ~HasResult /\ run > 0 /\ run \in Nat
  <2>1. channel' = <<>>
    BY <1>1, <1>3, ChannelTail, EmptySeq
  <2> QED BY <1>1, <1>3, <2>1, MaxRunsAssumption
          DEF StreamInv, TaskInv, PageInv, HasResult
<1>5. /\ outcome' = outcome /\ step' = step /\ at' = at /\ task' = "done"
      /\ Listed' = {page'.history[i] : i \in DOMAIN page'.history}
  BY <1>1, <1>3 DEF progressVars, Listed
<1>6. /\ Told(channel)' = {} /\ Told(emitting)' = {} /\ InFlight' = {}
      /\ InOrder(channel)' /\ InOrder(emitting)'
  BY <1>4 DEF Told, InOrder, InFlight
<1>7. InFlight = {}
  <2>1. Told(channel) = Told(Tail(channel)) /\ Told(Tail(channel)) = {}
    <3>1. ~Ends(e)
      BY <1>3, TerminalTyped DEF StreamInv
    <3>2. Tail(channel) = <<>>
      BY <1>1, <1>4
    <3> QED BY <1>1, <3>1, <3>2, ChannelTail, ToldTail, ToldNothing
  <2> QED BY <1>4, <2>1, ToldNothing DEF InFlight
<1> HIDE DEF e
<1>8. CASE outcome \in Well
  <2> DEFINE n == IF step = 0 THEN 1 ELSE step
  <2>1. e \in DoneType /\ e.success = (outcome = "answered") /\ e.iterations = n
    BY <1>3, <1>8, TerminalTyped DEF StreamInv
  <2>2. /\ page' \in PageType /\ page'.running = page.running /\ page'.history = page.history
        /\ page'.status = page.status
        /\ page'.data = [run |-> run, success |-> e.success, iterations |-> e.iterations,
                         history |-> page.history]
    BY <1>1, <1>2, <1>4, <2>1, AnswerShown
  <2>3. /\ page'.data.run = run /\ page'.data.success = (outcome = "answered")
        /\ page'.data.iterations = n /\ page'.data.history = page.history
    BY <2>1, <2>2
  <2> HIDE DEF n
  <2>4. PageInv'
    <3>1. /\ EndsWell' /\ HasResult' /\ run' = run /\ open' = open /\ page.status # "complete"
      BY <1>1, <1>5, <1>8, <2>3 DEF EndsWell, HasResult, StreamInv, PageInv
    <3>2. page'.data.iterations = IF step' = 0 THEN 1 ELSE step'
      BY <1>5, <2>3 DEF n
    <3>3. page'.data.run <= run' /\ page'.data.success = (outcome' = "answered")
      BY <1>4, <1>5, <2>3, <3>1
    <3>4. open' = page'.running /\ page'.status # "complete"
      BY <1>1, <2>2, <3>1 DEF StreamInv, PageInv
    <3> QED BY <1>4, <2>2, <3>1, <3>2, <3>3, <3>4 DEF PageInv
  <2>5. Listed' = Listed /\ Completed' = Completed
    BY <1>5, <2>2 DEF Listed, Completed
  <2>6. ~dropped /\ step > 0 => page.history = [i \in 1..n |-> i]
    <3> SUFFICES ASSUME ~dropped, step > 0 PROVE page.history = [i \in 1..n |-> i]
      OBVIOUS
    <3> DEFINE h == Len(page.history)
    <3>1. h \in Nat /\ step \in Nat /\ DOMAIN page.history = 1..h
      BY <1>2, MaxIterationsAssumption, LenProperties DEF PageType, StreamInv, QueryInv
    <3>2. page.history = [i \in 1..h |-> i] /\ (h + 1)..Completed \subseteq {}
      BY <1>1, <1>7 DEF StreamInv, HistoryInv
    <3>3. Completed = step
      BY <1>4, <1>8 DEF Completed, Well
    <3>4. \A x \in Listed : x \in 1..step
      BY <3>3 DEF StreamInv, HistoryInv
    <3> HIDE DEF h
    <3>5. h = 0 \/ h \in Listed
      <4> SUFFICES ASSUME h # 0 PROVE h \in Listed
        OBVIOUS
      <4>1. h \in DOMAIN page.history /\ page.history[h] = h
        BY <3>1, <3>2
      <4> QED BY <4>1 DEF Listed
    <3>6. h <= step
      BY <3>1, <3>4, <3>5
    <3>7. h >= step
      <4> SUFFICES ASSUME h < step PROVE FALSE
        BY <3>1
      <4>1. step \in (h + 1)..step
        BY <3>1
      <4> QED BY <3>2, <3>3, <4>1
    <3>8. h = n
      BY <3>1, <3>6, <3>7 DEF n
    <3> QED BY <3>2, <3>8
  <2>7. HistoryInv'
    <3>1. /\ \A i, j \in DOMAIN page'.history : i < j => page'.history[i] < page'.history[j]
          /\ \A x \in Listed : x \in 1..Completed
          /\ open /\ ~dropped =>
               /\ page'.history = [i \in 1..Len(page'.history) |-> i]
               /\ (Len(page'.history) + 1)..Completed \subseteq {}
      BY <1>7, <2>2 DEF StreamInv, HistoryInv
    <3>2. open' = open /\ dropped' = dropped
      BY <1>1
    <3> QED BY <1>5, <1>6, <2>3, <2>5, <2>6, <3>1, <3>2 DEF HistoryInv, Before
  <2> QED BY <1>1, <2>2, <2>4, <2>7, DeliverTask, QueryKept, SelectionKept DEF StreamInv
<1>9. CASE outcome \notin Well
  <2>1. page' = page
    <3>1. Terminal \in ChannelType /\ Terminal.kind = "error" /\ Terminal \notin EventType
      BY <1>9, TerminalTyped DEF StreamInv
    <3>2. Terminal \in ErrorType
      BY <3>1 DEF ChannelType, DoneType
    <3> QED BY <1>1, <1>3, <3>2, ErrorShown
  <2>2. ~EndsWell' /\ ~HasResult'
    BY <1>1, <1>4, <1>5, <1>9, <2>1 DEF EndsWell, HasResult
  <2>3. PageInv'
    BY <1>1, <1>3, <1>5, <2>1, <2>2 DEF StreamInv, PageInv
  <2>4. HistoryInv'
    <3>1. Listed' = Listed /\ Completed' = Completed /\ open' = open /\ dropped' = dropped
      BY <1>1, <1>5, <2>1 DEF Listed, Completed
    <3> QED BY <1>6, <1>7, <2>1, <2>2, <3>1 DEF StreamInv, HistoryInv, Before
  <2> QED BY <1>1, <2>1, <2>3, <2>4, DeliverTask, QueryKept, SelectionKept DEF StreamInv
<1> QED BY <1>8, <1>9

LEMMA DeliverInv == ASSUME StreamInv, Deliver PROVE StreamInv'
BY DeliverEvent, DeliverEnd

LEMMA InitInv == Init => StreamInv
<1> SUFFICES ASSUME Init PROVE StreamInv
  OBVIOUS
<1>1. /\ at = "start" /\ step = 0 /\ burst = <<>> /\ outcome = "none"
      /\ task = "idle" /\ emitting = <<>> /\ channel = <<>>
      /\ open = FALSE /\ dropped = FALSE /\ run = 0 /\ fetching = {}
  BY DEF Init, ProgressInit
<1>2. /\ <<>> \in Seq(Nat) /\ NoData.run = 0
      /\ NoData \in [run : Nat, success : BOOLEAN, iterations : Nat, history : Seq(Nat)]
  BY DEF NoData
<1> HIDE DEF NoData
<1>3. /\ page \in PageType /\ page.running = FALSE /\ page.status = "ready"
      /\ page.history = <<>> /\ page.data = NoData
      /\ page.example = Nothing /\ page.path = Nothing /\ page.text = Nothing
  BY <1>2 DEF Init, PageType
<1>4. QueryInv
  BY <1>1, MaxIterationsAssumption DEF QueryInv, Places, Outcomes, Early
<1>5. TaskInv
  <2>1. run \in 0..MaxRuns /\ (task = "idle" <=> run = 0)
    BY <1>1, MaxRunsAssumption
  <2> QED BY <1>1, <2>1, EmptyChannel DEF TaskInv
<1>6. PageInv
  <2>1. ~(run > 0) /\ page.data.run <= run /\ (open = page.running)
    <3>1. page.data.run = 0 /\ run = 0
      BY <1>1, <1>2, <1>3
    <3>2. open = page.running
      BY <1>1, <1>3, Zenon
    <3> QED BY <3>1, <3>2
  <2> QED BY <1>1, <1>3, <2>1 DEF PageInv
<1>7. HistoryInv
  <2>1. Listed = {} /\ Told(channel) = {} /\ Told(emitting) = {} /\ DOMAIN page.history = {}
    BY <1>1, <1>3 DEF Listed, Told
  <2>2. InOrder(channel) /\ InOrder(emitting)
    BY <1>1, ToldNothing
  <2> QED BY <1>1, <2>1, <2>2 DEF HistoryInv, InFlight, Before
<1>8. SelectionInv
  BY <1>1, <1>3 DEF SelectionInv
<1> QED BY <1>4, <1>5, <1>6, <1>7, <1>8 DEF StreamInv

LEMMA NextInv == StreamInv /\ [Next]_vars => StreamInv'
<1> SUFFICES ASSUME StreamInv, [Next]_vars PROVE StreamInv'
  OBVIOUS
<1>1. CASE UNCHANGED vars
  <2>1. /\ UNCHANGED <<progressVars, task, emitting, channel, open, dropped, run>>
        /\ page' = page /\ fetching' = fetching
    BY <1>1 DEF vars
  <2>2. SelectionInv'
    BY <2>1, SelectionKept DEF StreamInv
  <2>3. page' \in PageType
    BY <2>1 DEF StreamInv, PageInv
  <2> QED BY <2>1, <2>2, <2>3, PageOnly
<1>2. CASE Server
  BY <1>2, AcceptInv, ProduceInv, TrySendInv, SendLastInv DEF Server
<1>3. CASE Reader
  BY <1>3, DeliverInv, StreamEndsInv DEF Reader
<1>4. CASE User
  BY <1>4, ClickInv, SelectInv DEF User
<1>5. CASE Disconnect \/ Tick \/ \E e \in Examples : Fetched(e)
  BY <1>5, DisconnectInv, TickInv, FetchedInv
<1> QED BY <1>1, <1>2, <1>3, <1>4, <1>5 DEF Next

-----------------------------------------------------------------------------
(* The theorems.                                                           *)

\* The inductive invariant, over every capacity of the channel, every number of
\* iterations and runs and every set of examples.
THEOREM StreamIsSound == Spec => []StreamInv
BY InitInv, NextInv, PTL DEF Spec

\* The query, its task, the channel and the page have their types: the channel
\* of stream_query never holds more than its capacity, and the page shows the
\* run button just when it does not read a stream.
THEOREM StreamTypes == Spec => []TypeOK
<1>1. StreamInv => TypeOK
  BY DEF StreamInv, QueryInv, TaskInv, PageInv, SelectionInv, TypeOK
<1> QED BY <1>1, StreamIsSound, PTL

\* A stream that ends has brought the result of its run, however many events
\* try_send dropped: the "done" event of stream_query is sent with send().await,
\* after every other event, and runQuery keeps what it holds.
THEOREM ResultIsShown == Spec => []ResultShown
<1>1. StreamInv => ResultShown
  <2> SUFFICES ASSUME StreamInv, page.status = "complete", ~page.running,
                      outcome \in Well, run > 0
               PROVE  page.data.run = run /\ page.data.success = (outcome = "answered")
    BY DEF ResultShown, Well
  <2>1. HasResult
    BY DEF StreamInv, PageInv, EndsWell
  <2> QED BY <2>1 DEF StreamInv, PageInv, HasResult
<1> QED BY <1>1, StreamIsSound, PTL

\* The iterations on the page are in order, none twice; when no event was
\* dropped they are all the iterations the result counts (the progress callback
\* of stream_query and the "iteration_complete" case of handleStreamEvent).
THEOREM HistoryIsShown == Spec => []HistoryShown
<1>1. StreamInv => HistoryShown
  BY DEF StreamInv, HistoryInv, HistoryShown, HasResult
<1> QED BY <1>1, StreamIsSound, PTL

=============================================================================
