---------------------------- MODULE SwarmProofs ----------------------------
(***************************************************************************)
(* Proofs about the swarm engine for any agents, limits and nesting depth. *)
(* Every action replaces, pushes or pops the top call, so the invariant is *)
(* a predicate of one call (CallInv) and three lemmas about the stack.     *)
(***************************************************************************)
EXTENDS Swarm, SequenceTheorems, TLAPS

\* What holds of the i-th call when h transfers were counted in the session.
CallInv(c, i, h) ==
  /\ c \in Call
  /\ c.turn <= c.limit
  /\ c.pc = "tools" => c.todo > 0
  /\ c.swaps <= c.transfers
  /\ c.swaps <= TransferLimit(i)
  /\ h <= MaxGlobal /\ c.pc \in {"turn", "tools"} => c.seen \subseteq {c.agent}

StackInv(st, h) ==
  /\ st \in Seq(Call)
  /\ Len(st) <= MaxDepth + 1
  /\ \A i \in 1..Len(st) : /\ CallInv(st[i], i, h)
                           /\ i < Len(st) => st[i].pc = "tools"

IInv ==
  /\ StackInv(stack, handed)
  /\ handed \in Nat /\ budget \in Nat /\ spent \in Nat /\ handoffs \in Nat /\ dropped \in Nat
  /\ outcome \in {"none", "running", "returned", "raised"}
  /\ outcome = "none" <=> stack = << >>
  /\ handoffs <= handed /\ handoffs <= MaxGlobal
  /\ outcome = "none" => spent = 0
  /\ BudgetHolds

-----------------------------------------------------------------------------
(* Replacing, pushing and popping the top call.                            *)

LEMMA LimitType == ASSUME NEW i PROVE TransferLimit(i) \in Nat
  BY LimitsAssumption DEF TransferLimit

\* A call's invariant survives a growing transfer count.
LEMMA CallMonotone ==
  ASSUME NEW c, NEW i, NEW h \in Nat, NEW k \in Nat, h <= k, CallInv(c, i, h)
  PROVE  CallInv(c, i, k)
  BY LimitsAssumption DEF CallInv

LEMMA ReplaceTop ==
  ASSUME NEW st, NEW h \in Nat, NEW k \in Nat, h <= k, StackInv(st, h), st # << >>,
         NEW c, CallInv(c, Len(st), k)
  PROVE  StackInv([st EXCEPT ![Len(st)] = c], k) /\ [st EXCEPT ![Len(st)] = c] # << >>
<1> DEFINE t == [st EXCEPT ![Len(st)] = c]
<1>1. st \in Seq(Call) /\ c \in Call /\ Len(st) \in Nat \ {0}
  BY DEF StackInv, CallInv
<1>2. t \in Seq(Call) /\ Len(t) = Len(st)
  BY <1>1
<1>3. ASSUME NEW i \in 1..Len(t)
      PROVE  CallInv(t[i], i, k) /\ (i < Len(t) => t[i].pc = "tools")
  <2>1. CASE i = Len(st)
    <3>1. t[i] = c
      BY <1>1, <2>1
    <3> QED BY <3>1, <2>1, <1>2
  <2>2. CASE i # Len(st)
    <3>1. i \in 1..Len(st) /\ i \in DOMAIN st
      BY <1>1, <1>2
    <3>2. t[i] = st[i]
      BY <3>1, <2>2
    <3>3. CallInv(st[i], i, h) /\ (i < Len(st) => st[i].pc = "tools")
      BY <3>1 DEF StackInv
    <3> QED BY <3>2, <3>3, <1>2, CallMonotone
  <2> QED BY <2>1, <2>2
<1>4. Len(t) <= MaxDepth + 1
  BY <1>2 DEF StackInv
<1>5. t # << >>
  BY <1>1, <1>2, EmptySeq
<1> QED BY <1>2, <1>3, <1>4, <1>5 DEF StackInv

LEMMA PushCall ==
  ASSUME NEW st, NEW h \in Nat, StackInv(st, h), st # << >>,
         st[Len(st)].pc = "tools", Len(st) <= MaxDepth,
         NEW c, CallInv(c, Len(st) + 1, h)
  PROVE  StackInv(Append(st, c), h) /\ Append(st, c) # << >>
<1> DEFINE t == Append(st, c)
<1>1. st \in Seq(Call) /\ c \in Call /\ Len(st) \in Nat \ {0}
  BY DEF StackInv, CallInv
<1>2. t \in Seq(Call) /\ Len(t) = Len(st) + 1
  BY <1>1
<1>3. ASSUME NEW i \in 1..Len(t)
      PROVE  CallInv(t[i], i, h) /\ (i < Len(t) => t[i].pc = "tools")
  <2>1. CASE i = Len(st) + 1
    <3>1. t[i] = c
      BY <1>1, <2>1
    <3> QED BY <3>1, <2>1, <1>2
  <2>2. CASE i # Len(st) + 1
    <3>1. t[i] = st[i] /\ i \in 1..Len(st)
      BY <1>1, <1>2, <2>2
    <3>2. CallInv(st[i], i, h) /\ (i < Len(st) => st[i].pc = "tools")
      BY <3>1 DEF StackInv
    <3>3. i = Len(st) => st[i].pc = "tools"
      OBVIOUS
    <3> QED BY <3>1, <3>2, <3>3, <1>1
  <2> QED BY <2>1, <2>2
<1>4. Len(t) <= MaxDepth + 1
  BY <1>1, <1>2, LimitsAssumption
<1>5. t # << >>
  BY <1>1, <1>2, EmptySeq
<1> QED BY <1>2, <1>3, <1>4, <1>5 DEF StackInv

LEMMA PopCall ==
  ASSUME NEW st, NEW h \in Nat, StackInv(st, h), Len(st) > 1,
         NEW c, CallInv(c, Len(st) - 1, h)
  PROVE  /\ StackInv(Append(SubSeq(st, 1, Len(st) - 2), c), h)
         /\ Append(SubSeq(st, 1, Len(st) - 2), c) # << >>
<1> DEFINE r == SubSeq(st, 1, Len(st) - 2)
           t == Append(r, c)
<1>1. st \in Seq(Call) /\ c \in Call /\ Len(st) \in Nat \ {0, 1}
  BY DEF StackInv, CallInv
<1>2. /\ r \in Seq(Call) /\ Len(r) = Len(st) - 2
      /\ \A i \in 1..(Len(st) - 2) : r[i] = st[i]
  <2> DEFINE n == Len(st) - 2
  <2>1. n \in Nat /\ \A i \in 1..n : st[i] \in Call
    BY <1>1
  <2> HIDE DEF t, n
  <2>2. /\ SubSeq(st, 1, n) \in Seq(Call)
        /\ Len(SubSeq(st, 1, n)) = IF 1 <= n THEN n - 1 + 1 ELSE 0
        /\ \A i \in 1..(n - 1 + 1) : SubSeq(st, 1, n)[i] = st[1 + i - 1]
    <3>1. 1 \in Int /\ n \in Int
      BY <2>1
    <3> QED BY <2>1, <3>1, SubSeqProperties
  <2> DEFINE q == SubSeq(st, 1, n)
  <2>3. r = q
    BY DEF n
  <2> HIDE DEF q, r
  <2>4. Len(q) = n /\ q \in Seq(Call)
    BY <2>1, <2>2 DEF q
  <2>5. ASSUME NEW i \in 1..n PROVE q[i] = st[i]
    <3>1. q[i] = st[1 + i - 1]
      BY <2>1, <2>2 DEF q
    <3>2. 1 + i - 1 = i
      BY <2>1
    <3> QED BY <3>1, <3>2
  <2> QED BY <2>3, <2>4, <2>5 DEF n
<1>3. t \in Seq(Call) /\ Len(t) = Len(st) - 1
  BY <1>1, <1>2
<1>4. ASSUME NEW i \in 1..Len(t)
      PROVE  CallInv(t[i], i, h) /\ (i < Len(t) => t[i].pc = "tools")
  <2>1. CASE i = Len(st) - 1
    <3>1. t[i] = c
      BY <1>1, <1>2, <2>1
    <3> QED BY <3>1, <2>1, <1>3
  <2>2. CASE i # Len(st) - 1
    <3>1. t[i] = st[i] /\ i \in 1..Len(st) /\ i < Len(st)
      BY <1>1, <1>2, <1>3, <2>2
    <3> QED BY <3>1 DEF StackInv
  <2> QED BY <2>1, <2>2
<1>5. Len(t) <= MaxDepth + 1
  BY <1>1, <1>3, LimitsAssumption DEF StackInv
<1>6. t # << >>
  <2> HIDE DEF r, t
  <2>1. Len(t) # 0
    BY <1>1, <1>3
  <2> QED BY <2>1, EmptySeq
<1> QED BY <1>3, <1>4, <1>5, <1>6 DEF StackInv

\* The result of a tool call joins the history of its call.
LEMMA ToolDoneInv ==
  ASSUME NEW c, NEW i, NEW h \in Nat, CallInv(c, i, h), c.pc = "tools"
  PROVE  CallInv(ToolDone(c), i, h)
<1> DEFINE d == ToolDone(c)
<1>1. c \in Call /\ c.todo > 0 /\ c.todo \in Nat
  BY DEF CallInv, Call
<1>2. c.todo - 1 \in Nat /\ (c.todo # 1 => c.todo - 1 > 0)
  BY <1>1
<1>3. d \in Call
  BY <1>1, <1>2 DEF ToolDone, Call
<1>4. /\ d.turn = c.turn /\ d.limit = c.limit /\ d.swaps = c.swaps /\ d.transfers = c.transfers
      /\ d.seen = c.seen /\ d.agent = c.agent /\ d.todo = c.todo - 1
      /\ d.pc = IF c.todo = 1 THEN "turn" ELSE "tools"
  BY <1>1 DEF ToolDone, Call
<1> QED BY <1>2, <1>3, <1>4 DEF CallInv

-----------------------------------------------------------------------------
(* The invariant is inductive: one lemma per phase of a call.              *)

LEMMA TopInv ==
  ASSUME IInv, stack # << >>
  PROVE  /\ Len(stack) \in Nat \ {0}
         /\ Top \in Call
         /\ CallInv(Top, Len(stack), handed)
<1>1. Len(stack) \in Nat \ {0}
  BY EmptySeq DEF IInv, StackInv
<1> QED BY <1>1 DEF IInv, StackInv, Top, CallInv

\* A step that replaces the top call and counts no transfer.
LEMMA ReplaceKeeps ==
  ASSUME IInv, stack # << >>, NEW c, CallInv(c, Len(stack), handed), SetTop(c),
         UNCHANGED <<handed, budget, outcome, handoffs, dropped>>,
         spent' \in Nat, budget > 0 => spent' <= budget + MaxCost
  PROVE  IInv'
<1>1. StackInv(stack, handed) /\ handed \in Nat /\ handed <= handed
  BY DEF IInv
<1>2. StackInv([stack EXCEPT ![Len(stack)] = c], handed) /\ [stack EXCEPT ![Len(stack)] = c] # << >>
  BY <1>1, ReplaceTop
<1>3. StackInv(stack', handed') /\ stack' # << >>
  BY <1>2 DEF SetTop
<1> QED BY <1>3 DEF IInv, BudgetHolds

LEMMA InitIInv == Init => IInv
<1> SUFFICES ASSUME Init PROVE IInv
  OBVIOUS
<1>1. StackInv(stack, handed)
  BY EmptySeq, LimitsAssumption DEF Init, StackInv
<1> QED BY <1>1, LimitsAssumption DEF Init, IInv, BudgetHolds

LEMMA StartStep ==
  ASSUME IInv, NEW a \in Agents, NEW b \in Budgets, Start(a, b)
  PROVE  IInv'
<1> DEFINE c == NewCall(a, MaxTurns, TRUE)
<1>1. stack = << >> /\ handed \in Nat
  BY DEF IInv, Start
<1>2. CallInv(c, 1, handed)
  BY LimitsAssumption, LimitType DEF CallInv, NewCall, Call
<1>3. stack' = <<c>> /\ c \in Call
  BY <1>2 DEF Start, CallInv
<1> HIDE DEF c
<1>4. StackInv(stack', handed) /\ stack' # << >>
  <2>1. <<c>> \in Seq(Call) /\ Len(<<c>>) = 1 /\ <<c>>[1] = c /\ <<c>> # << >>
    BY <1>3
  <2>2. 1 <= MaxDepth + 1
    BY LimitsAssumption
  <2>3. \A i \in 1..Len(<<c>>) : i = 1
    BY <2>1
  <2> QED BY <1>2, <1>3, <2>1, <2>2, <2>3 DEF StackInv
<1>5. handed' = handed /\ spent' = spent /\ handoffs' = handoffs /\ dropped' = dropped
      /\ outcome' = "running" /\ budget' = b /\ b \in Nat
  BY LimitsAssumption DEF Start
<1>6. spent = 0
  BY DEF IInv, Start
<1> QED BY LimitsAssumption, <1>4, <1>5, <1>6 DEF IInv, BudgetHolds

\* A call of the LLM: the budget is overrun by what this call counts at most.
LEMMA RepliesInv ==
  ASSUME IInv, Replies
  PROVE  /\ stack # << >> /\ outcome # "none" /\ Top.pc = "turn"
         /\ spent' \in Nat
         /\ budget > 0 => spent' <= budget + MaxCost
         /\ CallInv(Replied, Len(stack), handed)
         /\ Replied.pc = "turn"
         /\ handed <= MaxGlobal => Replied.seen \subseteq {Replied.agent}
<1>1. stack # << >> /\ outcome # "none" /\ Top.pc = "turn" /\ Top.turn < Top.limit
  BY DEF Replies, AtTop, IInv
<1>2. CallInv(Top, Len(stack), handed) /\ Top \in Call
  BY <1>1, TopInv
<1>3. spent' \in Nat /\ (budget > 0 => spent' <= budget + MaxCost)
  BY LimitsAssumption DEF IInv, Replies, Counts, OverBudget
<1>4. Replied \in Call
  <2>1. Top.turn + 1 \in Nat /\ Top.seen \cup {Top.agent} \in SUBSET Agents
    BY <1>2 DEF Call
  <2> QED BY <1>2, <2>1 DEF Replied, Call
<1>5. /\ Replied.turn = Top.turn + 1 /\ Replied.limit = Top.limit
      /\ Replied.swaps = Top.swaps /\ Replied.transfers = Top.transfers
      /\ Replied.pc = Top.pc /\ Replied.agent = Top.agent
      /\ Replied.seen = Top.seen \cup {Top.agent}
  BY <1>2 DEF Replied, Call
<1>6. handed <= MaxGlobal => Replied.seen \subseteq {Replied.agent}
  BY <1>1, <1>2, <1>5 DEF CallInv
<1>7. Replied.turn <= Replied.limit
  <2>1. Top.turn \in Nat /\ Top.limit \in Nat
    BY <1>2 DEF Call
  <2> QED BY <1>1, <1>5, <2>1
<1>8. CallInv(Replied, Len(stack), handed)
  BY <1>1, <1>2, <1>4, <1>5, <1>6, <1>7 DEF CallInv
<1> QED BY <1>1, <1>3, <1>5, <1>6, <1>8

\* What a step that touches neither the turn nor the swaps of a call must keep.
LEMMA CallKept ==
  ASSUME NEW c, NEW d, NEW i, NEW h \in Nat, CallInv(c, i, h), d \in Call,
         d.turn = c.turn, d.limit = c.limit, d.swaps = c.swaps,
         d.transfers >= c.transfers,
         d.pc = "tools" => d.todo > 0,
         h <= MaxGlobal /\ d.pc \in {"turn", "tools"} => d.seen \subseteq {d.agent}
  PROVE  CallInv(d, i, h)
<1>1. c.swaps \in Nat /\ c.transfers \in Nat /\ d.transfers \in Nat
  BY DEF CallInv, Call
<1> QED BY <1>1 DEF CallInv

LEMMA TurnStep ==
  ASSUME IInv, Turn
  PROVE  IInv'
<1>1. ASSUME stack # << >>, ReturnTop, UNCHANGED <<handed, budget, spent, outcome, handoffs, dropped>>
      PROVE  IInv'
  <2> DEFINE c == [Top EXCEPT !.pc = "returned"]
  <2>1. Top \in Call /\ CallInv(Top, Len(stack), handed) /\ handed \in Nat
    BY <1>1, TopInv DEF IInv
  <2>2. /\ c \in Call /\ c.turn = Top.turn /\ c.limit = Top.limit /\ c.swaps = Top.swaps
        /\ c.transfers = Top.transfers /\ c.pc = "returned" /\ Top.transfers \in Nat
    BY <2>1 DEF Call
  <2> HIDE DEF c
  <2>3. CallInv(c, Len(stack), handed)
    BY <2>1, <2>2, CallKept
  <2>4. SetTop(c)
    BY <1>1 DEF ReturnTop, c
  <2>5. spent' \in Nat /\ (budget > 0 => spent' <= budget + MaxCost)
    BY <1>1 DEF IInv, BudgetHolds
  <2> QED BY <1>1, <2>3, <2>4, <2>5, ReplaceKeeps
<1>2. ASSUME TurnsExhausted PROVE IInv'
  BY <1>1, <1>2 DEF TurnsExhausted, AtTop
<1>3. ASSUME TurnRefused PROVE IInv'
  BY <1>1, <1>3 DEF TurnRefused, AtTop
<1>4. ASSUME Replies, NEW d \in Call, SetTop(d),
             UNCHANGED <<handed, budget, outcome, handoffs, dropped>>,
             d.turn = Replied.turn, d.limit = Replied.limit, d.swaps = Replied.swaps,
             d.transfers = Replied.transfers, d.seen = Replied.seen, d.agent = Replied.agent,
             d.pc = "tools" => d.todo > 0
      PROVE  IInv'
  <2>1. /\ stack # << >> /\ CallInv(Replied, Len(stack), handed) /\ handed \in Nat
        /\ spent' \in Nat /\ (budget > 0 => spent' <= budget + MaxCost)
        /\ handed <= MaxGlobal => d.seen \subseteq {d.agent}
    BY <1>4, RepliesInv DEF IInv
  <2>2. d.transfers >= Replied.transfers
    BY <1>4, <2>1 DEF CallInv, Call
  <2>3. CallInv(d, Len(stack), handed)
    BY <1>4, <2>1, <2>2, CallKept
  <2> QED BY <1>4, <2>1, <2>3, ReplaceKeeps
<1>5. Replies => Replied \in Call /\ Replied.pc = "turn" /\ Replied.fails \in Nat
  BY RepliesInv DEF CallInv, Call
<1>6. ASSUME Answers PROVE IInv'
  <2> DEFINE d == [Replied EXCEPT !.pc = "returned"]
  <2>1. Replies /\ SetTop(d) /\ UNCHANGED <<handed, budget, outcome, handoffs, dropped>>
    BY <1>6 DEF Answers
  <2>2. /\ d \in Call /\ d.turn = Replied.turn /\ d.limit = Replied.limit /\ d.swaps = Replied.swaps
        /\ d.transfers = Replied.transfers /\ d.seen = Replied.seen /\ d.agent = Replied.agent
        /\ d.pc = "returned"
    BY <1>5, <2>1 DEF Call
  <2> HIDE DEF d
  <2> QED BY <1>4, <2>1, <2>2
<1>7. ASSUME PlanRejected PROVE IInv'
  <2> DEFINE pc == IF Top.fails < MaxRetries THEN "turn" ELSE "returned"
             d == [Replied EXCEPT !.fails = @ + 1, !.pc = pc]
  <2>1. Replies /\ SetTop(d) /\ UNCHANGED <<handed, budget, outcome, handoffs, dropped>>
    BY <1>7 DEF PlanRejected
  <2>2. pc \in {"turn", "returned"} /\ Replied.fails + 1 \in Nat
    BY <1>5, <2>1
  <2> HIDE DEF pc
  <2>3. /\ d \in Call /\ d.turn = Replied.turn /\ d.limit = Replied.limit /\ d.swaps = Replied.swaps
        /\ d.transfers = Replied.transfers /\ d.seen = Replied.seen /\ d.agent = Replied.agent
        /\ d.pc = pc
    BY <1>5, <2>1, <2>2 DEF Call
  <2> HIDE DEF d
  <2> QED BY <1>4, <2>1, <2>2, <2>3
<1>8. ASSUME NEW n \in 1..MaxCalls, ProposesTools(n) PROVE IInv'
  <2> DEFINE d == [Replied EXCEPT !.pc = "tools", !.fails = 0, !.todo = n, !.bound = TRUE]
  <2>1. Replies /\ SetTop(d) /\ UNCHANGED <<handed, budget, outcome, handoffs, dropped>>
    BY <1>8 DEF ProposesTools
  <2>2. n \in Nat /\ n > 0
    BY LimitsAssumption
  <2>3. /\ d \in Call /\ d.turn = Replied.turn /\ d.limit = Replied.limit /\ d.swaps = Replied.swaps
        /\ d.transfers = Replied.transfers /\ d.seen = Replied.seen /\ d.agent = Replied.agent
        /\ d.todo = n
    BY <1>5, <2>1, <2>2 DEF Call
  <2> HIDE DEF d
  <2> QED BY <1>4, <2>1, <2>2, <2>3
<1> QED BY <1>2, <1>3, <1>6, <1>7, <1>8 DEF Turn

LEMMA ToolStep ==
  ASSUME IInv, AtTop("tools"),
         \/ ToolFails \/ ToolRejected \/ ToolSucceeds \/ TooDeep
         \/ \E a \in Agents : Transfer(a) \/ TransferRefused(a)
         \/ \E a \in Agents, back \in BOOLEAN : Delegate(a, back)
  PROVE  IInv'
<1>1. /\ stack # << >> /\ Top \in Call /\ Top.pc = "tools" /\ handed \in Nat
      /\ CallInv(Top, Len(stack), handed) /\ Len(stack) \in Nat \ {0}
  BY TopInv DEF AtTop, IInv
<1>2. /\ Top.fails \in Nat /\ Top.transfers \in Nat /\ Top.todo > 0
      /\ handed <= MaxGlobal => Top.seen \subseteq {Top.agent}
  BY <1>1 DEF CallInv, Call
<1>3. ASSUME NEW f \in Nat
      PROVE  /\ CallInv([Top EXCEPT !.fails = f], Len(stack), handed)
             /\ [Top EXCEPT !.fails = f].pc = "tools"
  <2> DEFINE d == [Top EXCEPT !.fails = f]
  <2>1. /\ d \in Call /\ d.turn = Top.turn /\ d.limit = Top.limit /\ d.swaps = Top.swaps
        /\ d.transfers = Top.transfers /\ d.seen = Top.seen /\ d.agent = Top.agent
        /\ d.pc = "tools" /\ d.todo = Top.todo
    BY <1>1 DEF Call
  <2> HIDE DEF d
  <2>2. d.transfers >= Top.transfers
    BY <1>2, <2>1
  <2>3. CallInv(d, Len(stack), handed)
    BY <1>1, <1>2, <2>1, <2>2, CallKept
  <2> QED BY <2>1, <2>3 DEF d
<1>4. ASSUME NEW c, CallInv(c, Len(stack), handed), c.pc = "tools", SetTop(ToolDone(c)),
             UNCHANGED <<handed, budget, spent, outcome, handoffs, dropped>>
      PROVE  IInv'
  <2>1. CallInv(ToolDone(c), Len(stack), handed)
    BY <1>1, <1>4, ToolDoneInv
  <2>2. spent' \in Nat /\ (budget > 0 => spent' <= budget + MaxCost)
    BY <1>4 DEF IInv, BudgetHolds
  <2> QED BY <1>1, <1>4, <2>1, <2>2, ReplaceKeeps
<1>5. CASE ToolFails
  BY <1>1, <1>4, <1>5 DEF ToolFails
<1>6. CASE ToolRejected
  <2> DEFINE f == IF Top.fails < MaxRetries THEN Top.fails + 1 ELSE 0
  <2>1. f \in Nat
    BY <1>2
  <2>2. SetTop(ToolDone([Top EXCEPT !.fails = f]))
    BY <1>6 DEF ToolRejected
  <2> HIDE DEF f
  <2> QED BY <1>3, <1>4, <1>6, <2>1, <2>2 DEF ToolRejected
<1>7. CASE ToolSucceeds
  BY <1>3, <1>4, <1>7 DEF ToolSucceeds
<1>8. CASE TooDeep
  BY <1>3, <1>4, <1>8 DEF TooDeep
<1>9. ASSUME NEW a \in Agents, Transfer(a) PROVE IInv'
  <2> DEFINE d == [Top EXCEPT !.agent = a, !.fails = 0, !.pc = "swapped"]
  <2>1. /\ d \in Call /\ d.turn = Top.turn /\ d.limit = Top.limit /\ d.swaps = Top.swaps
        /\ d.transfers = Top.transfers /\ d.pc = "swapped"
    BY <1>1 DEF Call
  <2>2. stack' = [stack EXCEPT ![Len(stack)] = d] /\ handed' = handed + 1 /\ handed' <= MaxGlobal
        /\ handoffs' = handoffs + 1 /\ UNCHANGED <<budget, spent, outcome, dropped>>
    BY <1>9 DEF Transfer, SetTop
  <2> HIDE DEF d
  <2>3. handed' \in Nat /\ handed <= handed'
    BY <1>1, <2>2
  <2>4. CallInv(Top, Len(stack), handed')
    BY <1>1, <2>3, CallMonotone
  <2>5. CallInv(d, Len(stack), handed')
    BY <1>2, <2>1, <2>3, <2>4, CallKept
  <2>6. StackInv(stack', handed') /\ stack' # << >>
    BY <1>1, <2>2, <2>3, <2>5, ReplaceTop DEF IInv
  <2>7. handoffs' \in Nat /\ handoffs' <= handed' /\ handoffs' <= MaxGlobal
    BY <2>2, LimitsAssumption DEF IInv
  <2>8. outcome # "none"
    BY <1>1 DEF IInv
  <2> QED BY <2>2, <2>3, <2>6, <2>7, <2>8 DEF IInv, BudgetHolds
<1>10. ASSUME NEW a \in Agents, TransferRefused(a) PROVE IInv'
  <2> DEFINE d == [Top EXCEPT !.agent = a, !.fails = 0]
  <2>1. /\ d \in Call /\ d.turn = Top.turn /\ d.limit = Top.limit /\ d.swaps = Top.swaps
        /\ d.transfers = Top.transfers /\ d.pc = "tools" /\ d.todo = Top.todo
    BY <1>1 DEF Call
  <2>2. stack' = [stack EXCEPT ![Len(stack)] = ToolDone(d)] /\ handed' = handed + 1
        /\ handed' > MaxGlobal /\ UNCHANGED <<budget, spent, outcome, handoffs, dropped>>
    BY <1>10 DEF TransferRefused, SetTop
  <2> HIDE DEF d
  <2>3. handed' \in Nat /\ handed <= handed' /\ ~(handed' <= MaxGlobal)
    BY <1>1, <2>2, LimitsAssumption
  <2>4. CallInv(Top, Len(stack), handed')
    BY <1>1, <2>3, CallMonotone
  <2>5. CallInv(d, Len(stack), handed')
    BY <1>2, <2>1, <2>3, <2>4, CallKept
  <2>6. CallInv(ToolDone(d), Len(stack), handed')
    BY <2>1, <2>3, <2>5, ToolDoneInv
  <2>7. StackInv(stack', handed') /\ stack' # << >>
    BY <1>1, <2>2, <2>3, <2>6, ReplaceTop DEF IInv
  <2> QED BY <1>1, <2>2, <2>3, <2>7 DEF IInv, BudgetHolds
<1>11. ASSUME NEW a \in Agents, NEW back \in BOOLEAN, Delegate(a, back) PROVE IInv'
  <2> DEFINE d == [Top EXCEPT !.fails = 0]
             st == [stack EXCEPT ![Len(stack)] = d]
             c == NewCall(a, SubTurns, back)
  <2>1. [stack EXCEPT ![Len(stack)].fails = 0] = st
    BY <1>1 DEF Top
  <2>2. stack' = Append(st, c) /\ UNCHANGED <<handed, budget, spent, outcome, handoffs, dropped>>
    BY <1>11, <2>1 DEF Delegate
  <2>3. CallInv(d, Len(stack), handed) /\ d.pc = "tools"
    BY <1>3
  <2>4. SubTurns \in Nat
    BY <1>1, LimitsAssumption DEF SubTurns, Call
  <2>5. CallInv(c, Len(stack) + 1, handed)
    BY <2>4, LimitType DEF CallInv, NewCall, Call
  <2> HIDE DEF d, c
  <2>6. StackInv(st, handed)
    BY <1>1, <2>3, ReplaceTop DEF IInv
  <2>7. st # << >> /\ Len(st) = Len(stack) /\ st[Len(st)] = d
    BY <1>1, EmptySeq DEF IInv, StackInv
  <2>8. Len(stack) <= MaxDepth
    BY <1>1, <1>11, LimitsAssumption DEF Delegate, Depth
  <2> HIDE DEF st
  <2>9. StackInv(stack', handed) /\ stack' # << >>
    BY <1>1, <2>2, <2>3, <2>5, <2>6, <2>7, <2>8, PushCall
  <2> QED BY <1>1, <2>2, <2>9 DEF IInv, BudgetHolds
<1> QED BY <1>5, <1>6, <1>7, <1>8, <1>9, <1>10, <1>11

LEMMA SwappedStep ==
  ASSUME IInv, Swapped
  PROVE  IInv'
<1> DEFINE c == [Top EXCEPT !.transfers = @ + 1, !.todo = 0]
           d == [c EXCEPT !.pc = "returned"]
           e == [c EXCEPT !.pc = "turn", !.swaps = @ + 1, !.seen = {}]
<1>1. /\ stack # << >> /\ Top \in Call /\ handed \in Nat
      /\ CallInv(Top, Len(stack), handed) /\ TransferLimit(Len(stack)) \in Nat
  BY TopInv, LimitType DEF Swapped, AtTop, IInv
<1>2. /\ Top.transfers \in Nat /\ Top.swaps \in Nat /\ Top.transfers + 1 \in Nat
      /\ Top.swaps + 1 \in Nat /\ Top.swaps <= Top.transfers
      /\ Top.transfers + 1 >= Top.transfers
  BY <1>1 DEF CallInv, Call
<1>3. /\ c \in Call /\ c.transfers = Top.transfers + 1 /\ c.turn = Top.turn
      /\ c.limit = Top.limit /\ c.swaps = Top.swaps
  BY <1>1, <1>2 DEF Call
<1>4. /\ UNCHANGED <<handed, budget, spent, outcome, handoffs, dropped>>
      /\ \/ SetTop(d)
         \/ ~(c.transfers > TransferLimit(Len(stack))) /\ SetTop(e)
  BY DEF Swapped
<1> HIDE DEF c
<1>5. /\ d \in Call /\ d.turn = Top.turn /\ d.limit = Top.limit /\ d.swaps = Top.swaps
      /\ d.transfers = Top.transfers + 1 /\ d.pc = "returned"
  BY <1>3 DEF Call
<1>6. /\ e \in Call /\ e.turn = Top.turn /\ e.limit = Top.limit /\ e.swaps = Top.swaps + 1
      /\ e.transfers = Top.transfers + 1 /\ e.pc = "turn" /\ e.seen = {}
  BY <1>2, <1>3 DEF Call
<1> HIDE DEF d, e
<1>7. CallInv(d, Len(stack), handed)
  BY <1>1, <1>2, <1>5, CallKept
<1>8. ~(c.transfers > TransferLimit(Len(stack))) => CallInv(e, Len(stack), handed)
  BY <1>1, <1>2, <1>3, <1>6 DEF CallInv
<1>9. spent' \in Nat /\ (budget > 0 => spent' <= budget + MaxCost)
  BY <1>4 DEF IInv, BudgetHolds
<1> QED BY <1>1, <1>4, <1>7, <1>8, <1>9, ReplaceKeeps

LEMMA EndStep ==
  ASSUME IInv, End
  PROVE  IInv'
<1>1. ASSUME stack # << >>, Len(stack) > 1
      PROVE  /\ Parent \in Call /\ Parent.pc = "tools"
             /\ CallInv(Parent, Len(stack) - 1, handed)
             /\ Parent.transfers \in Nat
             /\ handed <= MaxGlobal => Parent.seen \subseteq {Parent.agent}
  <2>1. Len(stack) - 1 \in 1..Len(stack) /\ Len(stack) - 1 < Len(stack)
    BY <1>1, TopInv
  <2> QED BY <2>1 DEF IInv, StackInv, Parent, CallInv, Call
<1>2. ASSUME Depth > 0, stack # << >>, NEW c, CallInv(c, Len(stack) - 1, handed), PopTo(c),
             UNCHANGED <<handed, budget, spent, outcome, handoffs>>, dropped' \in Nat
      PROVE  IInv'
  <2>1. Len(stack) > 1 /\ handed \in Nat /\ outcome # "none"
    BY <1>2, TopInv DEF Depth, IInv
  <2>2. StackInv(stack', handed) /\ stack' # << >>
    BY <1>2, <2>1, PopCall DEF PopTo, IInv
  <2> QED BY <1>2, <2>1, <2>2 DEF IInv, BudgetHolds
<1>3. Depth > 0 /\ stack # << >> => Len(stack) > 1
  BY TopInv DEF Depth
<1>4. stack # << >> => Top \in Call /\ Top.transfers \in Nat /\ Top.prompt \in Agents
  BY TopInv DEF Call
<1>5. CASE SubSwarmReturns
  <2> DEFINE p == [Parent EXCEPT !.transfers = @ + Top.transfers]
             q == [p EXCEPT !.agent = Top.prompt, !.pc = "swapped"]
  <2>1. /\ stack # << >> /\ Depth > 0 /\ Len(stack) > 1
        /\ Top \in Call /\ Top.transfers \in Nat /\ Top.prompt \in Agents
        /\ Parent \in Call /\ Parent.pc = "tools" /\ Parent.transfers \in Nat
        /\ CallInv(Parent, Len(stack) - 1, handed) /\ handed \in Nat
        /\ handed <= MaxGlobal => Parent.seen \subseteq {Parent.agent}
    BY <1>1, <1>3, <1>4, <1>5 DEF SubSwarmReturns, AtTop, IInv
  <2>2. /\ Parent.transfers + Top.transfers \in Nat
        /\ Parent.transfers + Top.transfers >= Parent.transfers
    BY <2>1
  <2>3. /\ p \in Call /\ p.turn = Parent.turn /\ p.limit = Parent.limit /\ p.swaps = Parent.swaps
        /\ p.transfers = Parent.transfers + Top.transfers /\ p.pc = "tools"
        /\ p.todo = Parent.todo /\ p.seen = Parent.seen /\ p.agent = Parent.agent
    BY <2>1, <2>2 DEF Call
  <2>4. PopTo(ToolDone(p)) \/ PopTo(q)
    BY <1>5 DEF SubSwarmReturns
  <2> HIDE DEF p
  <2>5. Parent.todo > 0
    BY <2>1 DEF CallInv
  <2>6. CallInv(p, Len(stack) - 1, handed)
    BY <2>1, <2>2, <2>3, <2>5, CallKept
  <2>7. CallInv(ToolDone(p), Len(stack) - 1, handed)
    BY <2>1, <2>3, <2>6, ToolDoneInv
  <2>8. /\ q \in Call /\ q.turn = Parent.turn /\ q.limit = Parent.limit /\ q.swaps = Parent.swaps
        /\ q.transfers = Parent.transfers + Top.transfers /\ q.pc = "swapped"
    BY <2>1, <2>3 DEF Call
  <2> HIDE DEF q
  <2>9. CallInv(q, Len(stack) - 1, handed)
    BY <2>1, <2>2, <2>8, CallKept
  <2>10. dropped' \in Nat /\ UNCHANGED <<handed, budget, spent, outcome, handoffs>>
    BY <1>5 DEF SubSwarmReturns, IInv
  <2> QED BY <1>2, <2>1, <2>4, <2>7, <2>9, <2>10
<1>6. CASE SubSwarmRaises
  <2>1. stack # << >> /\ Depth > 0 /\ PopTo(ToolDone(Parent)) /\ handed \in Nat
        /\ UNCHANGED <<handed, budget, spent, outcome, handoffs>>
    BY <1>6 DEF SubSwarmRaises, AtTop, IInv
  <2>2. CallInv(ToolDone(Parent), Len(stack) - 1, handed)
    BY <1>1, <1>3, <2>1, ToolDoneInv
  <2>3. dropped' \in Nat
    BY <1>4, <1>6, <2>1 DEF SubSwarmRaises, IInv
  <2> QED BY <1>2, <2>1, <2>2, <2>3
<1>7. CASE SessionEnds
  <2>1. /\ stack # << >> /\ outcome = "running" /\ outcome' \in {"returned", "raised"}
        /\ UNCHANGED <<handed, budget, spent, handoffs, dropped>>
        /\ stack' = stack \/ ReturnTop
    BY <1>7 DEF SessionEnds, IInv
  <2>2. StackInv(stack', handed) /\ stack' # << >>
    <3>1. CASE stack' = stack
      BY <2>1, <3>1 DEF IInv
    <3>2. CASE ReturnTop
      <4> DEFINE d == [Top EXCEPT !.pc = "returned"]
      <4>1. Top \in Call /\ CallInv(Top, Len(stack), handed) /\ handed \in Nat /\ Top.transfers \in Nat
        BY <1>4, <2>1, TopInv DEF IInv
      <4>2. /\ d \in Call /\ d.turn = Top.turn /\ d.limit = Top.limit /\ d.swaps = Top.swaps
            /\ d.transfers = Top.transfers /\ d.pc = "returned"
        BY <4>1 DEF Call
      <4>3. stack' = [stack EXCEPT ![Len(stack)] = d]
        BY <3>2 DEF ReturnTop, SetTop
      <4> HIDE DEF d
      <4>4. CallInv(d, Len(stack), handed)
        BY <4>1, <4>2, CallKept
      <4>5. handed <= handed /\ StackInv(stack, handed)
        BY <4>1 DEF IInv
      <4> QED BY <2>1, <4>1, <4>3, <4>4, <4>5, ReplaceTop
    <3> QED BY <2>1, <3>1, <3>2
  <2> QED BY <2>1, <2>2 DEF IInv, BudgetHolds
<1> QED BY <1>5, <1>6, <1>7 DEF End

LEMMA NextIInv == IInv /\ [Next]_vars => IInv'
<1> SUFFICES ASSUME IInv, [Next]_vars PROVE IInv'
  OBVIOUS
<1>1. CASE \E a \in Agents, b \in Budgets : Start(a, b)
  BY <1>1, StartStep
<1>2. CASE Turn
  BY <1>2, TurnStep
<1>3. CASE Tool
  <2>1. CASE Swapped
    BY <2>1, SwappedStep
  <2>2. CASE ~Swapped
    <3>1. \/ ToolFails \/ ToolRejected \/ ToolSucceeds \/ TooDeep
          \/ \E a \in Agents : Transfer(a) \/ TransferRefused(a)
          \/ \E a \in Agents, back \in BOOLEAN : Delegate(a, back)
      BY <1>3, <2>2 DEF Tool
    <3>2. AtTop("tools")
      BY <3>1 DEF ToolFails, ToolRejected, ToolSucceeds, TooDeep, Transfer, TransferRefused, Delegate
    <3> QED BY <3>1, <3>2, ToolStep
  <2> QED BY <2>1, <2>2
<1>4. CASE End
  BY <1>4, EndStep
<1>5. CASE UNCHANGED vars
  BY <1>5 DEF vars, IInv, BudgetHolds
<1> QED BY <1>1, <1>2, <1>3, <1>4, <1>5 DEF Next

-----------------------------------------------------------------------------
(* The transfers that the calls of a stack have counted.                   *)

Fold == INSTANCE LeftFold WITH Op <- AddTransfers, Base <- 0

LEMMA CountedIsFold ==
  /\ Counted(<< >>) = 0
  /\ \A st \in Seq(Call), c \in Call : Counted(Append(st, c)) = Counted(st) + c.transfers
<1>1. \A st : Fold!Folded(st) = Counted(st)
  BY Zenon DEF Fold!Folded, Fold!FoldLeft, Fold!MapThenFoldSet, Fold!Max,
               Counted, FoldLeft, MapThenFoldSet, Max
<1>2. ASSUME NEW st \in Seq(Call), NEW c \in Call
      PROVE  Counted(Append(st, c)) = Counted(st) + c.transfers
  <2>1. Fold!Folded(Append(st, c)) = AddTransfers(Fold!Folded(st), c)
    BY Fold!FoldedAppend, Zenon
  <2> QED BY <1>1, <2>1, Zenon DEF AddTransfers
<1> QED BY <1>1, <1>2, Fold!FoldedEmpty, Zenon

\* A stack is its calls but the last, and the last.
LEMMA TopApart ==
  ASSUME NEW st \in Seq(Call), st # << >>
  PROVE  /\ SubSeq(st, 1, Len(st) - 1) \in Seq(Call)
         /\ Len(SubSeq(st, 1, Len(st) - 1)) = Len(st) - 1
         /\ \A i \in 1..(Len(st) - 1) : SubSeq(st, 1, Len(st) - 1)[i] = st[i]
         /\ st[Len(st)] \in Call
         /\ st = Append(SubSeq(st, 1, Len(st) - 1), st[Len(st)])
<1> DEFINE n == Len(st) - 1
           r == SubSeq(st, 1, n)
<1>1. Len(st) \in Nat \ {0} /\ n \in Nat /\ n + 1 = Len(st) /\ st[Len(st)] \in Call
  BY EmptySeq
<1>2. \A i \in 1..n : st[i] \in Call
  BY <1>1
<1> HIDE DEF n
<1>3. /\ r \in Seq(Call)
      /\ Len(r) = IF 1 <= n THEN n - 1 + 1 ELSE 0
      /\ \A i \in 1..(n - 1 + 1) : r[i] = st[1 + i - 1]
  <2>1. 1 \in Int /\ n \in Int
    BY <1>1
  <2> QED BY <1>2, <2>1, SubSeqProperties
<1> HIDE DEF r
<1>4. Len(r) = n
  BY <1>1, <1>3
<1>5. ASSUME NEW i \in 1..n PROVE r[i] = st[i]
  <2>1. r[i] = st[1 + i - 1] /\ 1 + i - 1 = i
    BY <1>1, <1>3
  <2> QED BY <2>1
<1>6. st = Append(r, st[Len(st)])
  <2> DEFINE t == Append(r, st[Len(st)])
  <2>1. t \in Seq(Call) /\ Len(t) = n + 1 /\ t[n + 1] = st[Len(st)] /\ \A i \in 1..n : t[i] = r[i]
    BY <1>1, <1>3, <1>4, AppendProperties
  <2> HIDE DEF t
  <2>2. \A i \in 1..Len(st) : st[i] = t[i]
    BY <1>1, <1>5, <2>1
  <2>3. st = t
    BY <1>1, <2>1, <2>2, SeqEqual
  <2> QED BY <2>3 DEF t
<1> QED BY <1>1, <1>3, <1>4, <1>5, <1>6 DEF n, r

LEMMA CountedType == \A st \in Seq(Call) : Counted(st) \in Nat
<1> DEFINE T == {n \in Nat : \A st \in Seq(Call) : Len(st) = n => Counted(st) \in Nat}
<1>1. 0 \in T
  BY CountedIsFold, EmptySeq
<1>2. ASSUME NEW n \in T PROVE n + 1 \in T
  <2> SUFFICES ASSUME NEW st \in Seq(Call), Len(st) = n + 1 PROVE Counted(st) \in Nat
    OBVIOUS
  <2> DEFINE r == SubSeq(st, 1, Len(st) - 1)
             c == st[Len(st)]
  <2>1. st # << >> /\ Len(st) - 1 = n
    BY EmptySeq
  <2>2. r \in Seq(Call) /\ Len(r) = n /\ c \in Call /\ st = Append(r, c)
    BY <2>1, TopApart
  <2> HIDE DEF r, c
  <2>3. Counted(r) \in Nat /\ c.transfers \in Nat
    BY <2>2 DEF Call
  <2>4. Counted(st) = Counted(r) + c.transfers
    BY <2>2, CountedIsFold
  <2> QED BY <2>3, <2>4
<1> HIDE DEF T
<1>3. T = Nat
  <2>1. T \in SUBSET Nat
    BY DEF T
  <2> QED BY <1>1, <1>2, <2>1, Fold!NatSetInduction, Zenon
<1> QED BY <1>3 DEF T

\* Replacing the top call replaces what it counted.
LEMMA CountedReplace ==
  ASSUME NEW st \in Seq(Call), st # << >>, NEW c \in Call
  PROVE  /\ Counted([st EXCEPT ![Len(st)] = c]) + st[Len(st)].transfers
              = Counted(st) + c.transfers
         /\ Counted([st EXCEPT ![Len(st)] = c]) \in Nat /\ Counted(st) \in Nat
<1> DEFINE n == Len(st) - 1
           r == SubSeq(st, 1, n)
           t == [st EXCEPT ![Len(st)] = c]
           top == st[Len(st)]
<1>1. /\ r \in Seq(Call) /\ Len(r) = n /\ \A i \in 1..n : r[i] = st[i]
      /\ top \in Call /\ st = Append(r, top)
  BY TopApart
<1>2. Len(st) \in Nat \ {0} /\ n \in Nat /\ n + 1 = Len(st)
  BY EmptySeq
<1>3. t \in Seq(Call) /\ Len(t) = Len(st)
      /\ t[n + 1] = c /\ \A i \in 1..n : t[i] = st[i]
  <2>1. t \in Seq(Call) /\ Len(t) = Len(st)
    BY <1>2
  <2>2. DOMAIN st = 1..Len(st)
    OBVIOUS
  <2>3. t[Len(st)] = c /\ \A i \in 1..n : i \in 1..Len(st) /\ i # Len(st)
    <3>1. Len(st) \in DOMAIN st
      BY <1>2, <2>2
    <3>2. t[Len(st)] = c
      BY <3>1
    <3>3. \A i \in 1..n : i \in 1..Len(st) /\ i # Len(st)
      <4>1. \A k, m \in Nat : m + 1 = k => \A i \in 1..m : i \in 1..k /\ i # k
        OBVIOUS
      <4> HIDE DEF n, t
      <4> QED BY <1>2, <4>1
    <3> HIDE DEF t, n
    <3> QED BY <3>2, <3>3
  <2>4. \A i \in 1..n : t[i] = st[i]
    BY <2>2, <2>3
  <2> HIDE DEF n, t
  <2> QED BY <1>2, <2>1, <2>3, <2>4
<1> HIDE DEF n, r, t, top
<1>4. t = Append(r, c)
  <2> DEFINE u == Append(r, c)
  <2>1. u \in Seq(Call) /\ Len(u) = n + 1 /\ u[n + 1] = c /\ \A i \in 1..n : u[i] = r[i]
    BY <1>1, <1>2, AppendProperties
  <2> HIDE DEF u
  <2>2. \A i \in 1..Len(t) : t[i] = u[i]
    BY <1>1, <1>2, <1>3, <2>1
  <2>3. t = u
    BY <1>2, <1>3, <2>1, <2>2, SeqEqual
  <2> QED BY <2>3 DEF u
<1>5. /\ Counted(st) = Counted(r) + top.transfers /\ Counted(t) = Counted(r) + c.transfers
      /\ Counted(r) \in Nat /\ top.transfers \in Nat /\ c.transfers \in Nat
  BY <1>1, <1>4, CountedIsFold, CountedType DEF Call
<1> QED BY <1>5 DEF t, top

\* Popping a call drops what it counted.
LEMMA CountedPop ==
  ASSUME NEW st \in Seq(Call), Len(st) > 1, NEW c \in Call
  PROVE  /\ Counted(Append(SubSeq(st, 1, Len(st) - 2), c))
              + st[Len(st) - 1].transfers + st[Len(st)].transfers
              = Counted(st) + c.transfers
         /\ Counted(Append(SubSeq(st, 1, Len(st) - 2), c)) \in Nat /\ Counted(st) \in Nat
<1> DEFINE n == Len(st) - 1
           r == SubSeq(st, 1, n)
           q == SubSeq(st, 1, Len(st) - 2)
           top == st[Len(st)]
           parent == st[n]
<1>0. Len(st) \in Nat \ {0, 1} /\ st # << >> /\ n \in Nat \ {0} /\ Len(st) - 2 = n - 1
  <2>1. st # << >>
    BY EmptySeq
  <2>2. \A k \in Nat : k > 1 => k \in Nat \ {0, 1} /\ k - 1 \in Nat \ {0} /\ k - 2 = k - 1 - 1
    OBVIOUS
  <2>3. Len(st) \in Nat
    BY LenProperties
  <2> QED BY <2>1, <2>2, <2>3
<1>1. /\ r \in Seq(Call) /\ Len(r) = n /\ \A i \in 1..n : r[i] = st[i]
      /\ top \in Call /\ st = Append(r, top)
  BY <1>0, TopApart
<1>2. r # << >> /\ r[n] = parent
  <2> HIDE DEF n, r
  <2>1. n \in 1..n /\ Len(r) # 0
    BY <1>0, <1>1
  <2> QED BY <1>1, <2>1, EmptySeq
<1>3. /\ SubSeq(r, 1, n - 1) \in Seq(Call) /\ parent \in Call
      /\ Len(SubSeq(r, 1, n - 1)) = n - 1
      /\ \A i \in 1..(n - 1) : SubSeq(r, 1, n - 1)[i] = r[i]
      /\ r = Append(SubSeq(r, 1, n - 1), parent)
  <2> HIDE DEF r, n, parent
  <2> QED BY <1>1, <1>2, TopApart
<1>4. /\ q \in Seq(Call) /\ Len(q) = n - 1 /\ \A i \in 1..(n - 1) : q[i] = st[i]
  <2> DEFINE m == n - 1
  <2>1. m \in Nat /\ \A i \in 1..m : st[i] \in Call
    BY <1>0
  <2>2. q = SubSeq(st, 1, m)
    BY <1>0
  <2> HIDE DEF m, q, n
  <2>3. /\ SubSeq(st, 1, m) \in Seq(Call)
        /\ Len(SubSeq(st, 1, m)) = IF 1 <= m THEN m - 1 + 1 ELSE 0
        /\ \A i \in 1..(m - 1 + 1) : SubSeq(st, 1, m)[i] = st[1 + i - 1]
    <3>1. 1 \in Int /\ m \in Int
      BY <2>1
    <3> QED BY <2>1, <3>1, SubSeqProperties
  <2>4. Len(q) = m
    BY <2>1, <2>2, <2>3
  <2>5. ASSUME NEW i \in 1..m PROVE q[i] = st[i]
    <3>1. q[i] = st[1 + i - 1] /\ 1 + i - 1 = i
      BY <2>1, <2>2, <2>3
    <3> QED BY <3>1
  <2> QED BY <2>2, <2>3, <2>4, <2>5 DEF m
<1> HIDE DEF n, r, q, top, parent
<1>5. q = SubSeq(r, 1, n - 1)
  <2> DEFINE u == SubSeq(r, 1, n - 1)
  <2>1. u \in Seq(Call) /\ Len(u) = n - 1 /\ \A i \in 1..(n - 1) : u[i] = r[i]
    BY <1>3
  <2> HIDE DEF u
  <2>2. \A i \in 1..Len(q) : q[i] = u[i]
    BY <1>0, <1>1, <1>4, <2>1
  <2>3. q = u
    BY <1>4, <2>1, <2>2, SeqEqual
  <2> QED BY <2>3 DEF u
<1>6. /\ Counted(st) = Counted(r) + top.transfers
      /\ Counted(r) = Counted(q) + parent.transfers
      /\ Counted(Append(q, c)) = Counted(q) + c.transfers
      /\ Counted(q) \in Nat /\ top.transfers \in Nat /\ c.transfers \in Nat
      /\ parent.transfers \in Nat
  <2>1. Counted(st) = Counted(r) + top.transfers
    BY <1>1, CountedIsFold
  <2>2. Counted(r) = Counted(q) + parent.transfers
    BY <1>3, <1>4, <1>5, CountedIsFold
  <2>3. Counted(Append(q, c)) = Counted(q) + c.transfers
    BY <1>4, CountedIsFold
  <2>4. /\ Counted(q) \in Nat /\ top.transfers \in Nat /\ c.transfers \in Nat
        /\ parent.transfers \in Nat
    BY <1>1, <1>3, <1>4, CountedType DEF Call
  <2> QED BY <2>1, <2>2, <2>3, <2>4
<1>7. /\ Counted(Append(q, c)) + parent.transfers + top.transfers = Counted(st) + c.transfers
      /\ Counted(Append(q, c)) \in Nat /\ Counted(st) \in Nat
  BY <1>6, SMTT(30)
<1> QED BY <1>7, Zenon DEF n, q, top, parent

\* A handoff that its call has not counted yet.
Owed(c) == IF c.pc = "swapped" THEN 1 ELSE 0

\* What the handoffs are bounded by, as long as a call is under way.
LEMMA AccountedAtTop ==
  stack # << >> =>
    (TransfersAccounted <=> handoffs <= dropped + Counted(stack) + Owed(Top))
BY DEF TransfersAccounted, AtTop, Owed

\* A step that replaces the top call, and carries out k handoffs.
LEMMA ReplaceAccounts ==
  ASSUME IInv, TransfersAccounted, stack # << >>, NEW c \in Call, SetTop(c),
         NEW k \in {0, 1}, handoffs' = handoffs + k, dropped' = dropped,
         c.transfers + Owed(c) >= Top.transfers + Owed(Top) + k
  PROVE  TransfersAccounted'
<1>1. /\ stack \in Seq(Call) /\ Len(stack) \in Nat \ {0} /\ Top \in Call
      /\ handoffs \in Nat /\ dropped \in Nat
  BY TopInv DEF IInv, StackInv
<1>2. /\ Counted(stack') + Top.transfers = Counted(stack) + c.transfers
      /\ Counted(stack') \in Nat /\ Counted(stack) \in Nat
  BY <1>1, CountedReplace DEF SetTop, Top
<1>3. stack' # << >> /\ stack'[Len(stack')] = c
  <2>1. stack' \in Seq(Call) /\ Len(stack') = Len(stack) /\ stack'[Len(stack)] = c
    BY <1>1 DEF SetTop
  <2> QED BY <1>1, <2>1, EmptySeq
<1>4. handoffs <= dropped + Counted(stack) + Owed(Top)
  BY AccountedAtTop
<1>5. Owed(c) \in {0, 1} /\ Owed(Top) \in {0, 1} /\ c.transfers \in Nat /\ Top.transfers \in Nat
  BY <1>1 DEF Owed, Call
<1>6. handoffs' <= dropped' + Counted(stack') + Owed(c)
  <2>1. \A h, d, n, m, x, y, o, p, j \in Nat :
          /\ n + x = m + y /\ h <= d + m + o /\ y + p >= x + o + j
          => h + j <= d + n + p
    OBVIOUS
  <2>2. k \in Nat /\ Owed(c) \in Nat /\ Owed(Top) \in Nat
    BY <1>5
  <2>3. handoffs + k <= dropped + Counted(stack') + Owed(c)
    BY <1>1, <1>2, <1>4, <1>5, <2>1, <2>2
  <2> QED BY <2>3
<1>7. Counted(stack)' = Counted(stack') /\ (AtTop("swapped")' <=> c.pc = "swapped")
  BY <1>3 DEF Counted, AtTop, Top
<1> QED BY <1>6, <1>7 DEF TransfersAccounted, Owed

\* A step that ends a sub-swarm.
LEMMA PopAccounts ==
  ASSUME IInv, TransfersAccounted, stack # << >>, Depth > 0, Top.pc # "swapped",
         NEW c \in Call, PopTo(c), handoffs' = handoffs, dropped' \in Nat,
         dropped' + c.transfers >= dropped + Parent.transfers + Top.transfers
  PROVE  TransfersAccounted'
<1>1. /\ stack \in Seq(Call) /\ Len(stack) \in Nat /\ Len(stack) > 1 /\ Top \in Call
      /\ handoffs \in Nat /\ dropped \in Nat
  BY TopInv DEF IInv, StackInv, Depth
<1>2. Parent \in Call
  BY <1>1 DEF Parent
<1> DEFINE q == SubSeq(stack, 1, Len(stack) - 2)
<1>3. /\ Counted(stack') + Parent.transfers + Top.transfers = Counted(stack) + c.transfers
      /\ Counted(stack') \in Nat /\ Counted(stack) \in Nat
  <2>1. stack' = Append(q, c)
    BY DEF PopTo
  <2> HIDE DEF q
  <2>2. /\ Counted(Append(q, c)) + stack[Len(stack) - 1].transfers + stack[Len(stack)].transfers
             = Counted(stack) + c.transfers
        /\ Counted(Append(q, c)) \in Nat /\ Counted(stack) \in Nat
    BY <1>1, CountedPop, Zenon DEF q
  <2> QED BY <2>1, <2>2, Zenon DEF Parent, Top
<1>4. handoffs <= dropped + Counted(stack)
  BY <1>1, <1>3, AccountedAtTop DEF Owed
<1>5. c.transfers \in Nat /\ Top.transfers \in Nat /\ Parent.transfers \in Nat
  BY <1>1, <1>2 DEF Call
<1>6. handoffs' <= dropped' + Counted(stack')
  <2>1. \A h, d, e, n, m, x, y, z \in Nat :
          /\ n + x + y = m + z /\ h <= d + m /\ e + z >= d + x + y
          => h <= e + n
    OBVIOUS
  <2>2. handoffs <= dropped' + Counted(stack')
    BY <1>1, <1>3, <1>4, <1>5, <2>1
  <2> QED BY <2>2
<1>7. Counted(stack)' = Counted(stack')
  BY DEF Counted
<1> QED BY <1>1, <1>3, <1>6, <1>7 DEF TransfersAccounted

\* The turn loop counts no transfer and carries none out.
LEMMA TurnAccounts == ASSUME IInv, TransfersAccounted, Turn PROVE TransfersAccounted'
<1>1. stack # << >> /\ Top.pc = "turn" /\ Top \in Call /\ handoffs' = handoffs + 0
      /\ dropped' = dropped
  <2>1. AtTop("turn") /\ handoffs' = handoffs /\ dropped' = dropped
    BY DEF Turn, TurnsExhausted, TurnRefused, Answers, PlanRejected, ProposesTools, Replies
  <2>2. handoffs \in Nat
    BY DEF IInv
  <2>3. stack # << >> /\ Top.pc = "turn"
    BY <2>1 DEF AtTop
  <2> QED BY <2>1, <2>2, <2>3, TopInv
<1>2. ASSUME NEW d \in Call, SetTop(d), d.transfers = Top.transfers PROVE TransfersAccounted'
  <2>1. Owed(Top) = 0 /\ Owed(d) \in {0, 1} /\ Top.transfers \in Nat /\ 0 \in {0, 1}
    BY <1>1 DEF Owed, Call
  <2>2. d.transfers + Owed(d) >= Top.transfers + Owed(Top) + 0
    BY <1>2, <2>1
  <2> QED BY <1>1, <1>2, <2>1, <2>2, ReplaceAccounts
<1>3. ASSUME ReturnTop PROVE TransfersAccounted'
  <2> DEFINE d == [Top EXCEPT !.pc = "returned"]
  <2>1. d \in Call /\ d.transfers = Top.transfers /\ SetTop(d)
    BY <1>1, <1>3 DEF Call, ReturnTop
  <2> HIDE DEF d
  <2> QED BY <1>2, <2>1
<1>4. Replies => Replied \in Call /\ Replied.transfers = Top.transfers /\ Replied.fails \in Nat
  <2> SUFFICES ASSUME Replies
               PROVE  Replied \in Call /\ Replied.transfers = Top.transfers /\ Replied.fails \in Nat
    OBVIOUS
  <2>1. Replied \in Call
    BY RepliesInv DEF CallInv
  <2>2. Replied.transfers = Top.transfers
    BY <1>1 DEF Replied, Call
  <2> QED BY <2>1, <2>2 DEF Call
<1>5. ASSUME Answers PROVE TransfersAccounted'
  <2> DEFINE d == [Replied EXCEPT !.pc = "returned"]
  <2>1. d \in Call /\ d.transfers = Top.transfers /\ SetTop(d)
    BY <1>4, <1>5 DEF Call, Answers
  <2> HIDE DEF d
  <2> QED BY <1>2, <2>1
<1>6. ASSUME PlanRejected PROVE TransfersAccounted'
  <2> DEFINE pc == IF Top.fails < MaxRetries THEN "turn" ELSE "returned"
             d == [Replied EXCEPT !.fails = @ + 1, !.pc = pc]
  <2>1. Replies /\ SetTop(d) /\ pc \in {"turn", "returned"}
    BY <1>6 DEF PlanRejected
  <2> HIDE DEF pc
  <2>2. Replied.fails + 1 \in Nat
    BY <1>4, <2>1
  <2>3. d \in Call /\ d.transfers = Top.transfers
    BY <1>4, <2>1, <2>2 DEF Call
  <2> HIDE DEF d
  <2> QED BY <1>2, <2>1, <2>3
<1>7. ASSUME NEW n \in 1..MaxCalls, ProposesTools(n) PROVE TransfersAccounted'
  <2> DEFINE d == [Replied EXCEPT !.pc = "tools", !.fails = 0, !.todo = n, !.bound = TRUE]
  <2>1. Replies /\ SetTop(d) /\ n \in Nat
    BY <1>7, LimitsAssumption DEF ProposesTools
  <2>2. d \in Call /\ d.transfers = Top.transfers
    BY <1>4, <2>1 DEF Call
  <2> HIDE DEF d
  <2> QED BY <1>2, <2>1, <2>2
<1> QED BY <1>3, <1>5, <1>6, <1>7 DEF Turn, TurnsExhausted, TurnRefused

\* A tool call that is carried out leaves the counter of its call alone.
LEMMA ToolDoneCounts ==
  ASSUME NEW c \in Call, c.todo > 0
  PROVE  /\ ToolDone(c) \in Call /\ ToolDone(c).transfers = c.transfers
         /\ ToolDone(c).pc \in {"turn", "tools"}
<1>1. c.todo - 1 \in Nat
  BY DEF Call
<1> QED BY <1>1 DEF ToolDone, Call

LEMMA ToolAccounts ==
  ASSUME IInv, TransfersAccounted, AtTop("tools"),
         \/ ToolFails \/ ToolRejected \/ ToolSucceeds \/ TooDeep
         \/ \E a \in Agents : Transfer(a) \/ TransferRefused(a)
         \/ \E a \in Agents, back \in BOOLEAN : Delegate(a, back)
  PROVE  TransfersAccounted'
<1>1. /\ stack # << >> /\ Top \in Call /\ Top.pc = "tools" /\ Top.todo > 0
      /\ stack \in Seq(Call) /\ Len(stack) \in Nat \ {0} /\ handoffs \in Nat /\ dropped \in Nat
  BY TopInv DEF AtTop, CallInv, IInv, StackInv
<1>2. Owed(Top) = 0 /\ Top.transfers \in Nat /\ Top.fails \in Nat
  BY <1>1 DEF Owed, Call
<1>3. ASSUME NEW c \in Call, c.transfers = Top.transfers, c.todo = Top.todo,
             SetTop(ToolDone(c)), handoffs' = handoffs, dropped' = dropped
      PROVE  TransfersAccounted'
  <2> DEFINE d == ToolDone(c)
  <2>1. d \in Call /\ d.transfers = Top.transfers /\ Owed(d) = 0
    BY <1>1, <1>3, ToolDoneCounts DEF Owed
  <2> HIDE DEF d
  <2>2. d.transfers + Owed(d) >= Top.transfers + Owed(Top) + 0 /\ 0 \in {0, 1}
        /\ handoffs' = handoffs + 0
    BY <1>1, <1>2, <1>3, <2>1
  <2> QED BY <1>1, <1>3, <2>1, <2>2, ReplaceAccounts DEF d
<1>4. ASSUME NEW f \in Nat
      PROVE  LET d == [Top EXCEPT !.fails = f]
             IN  d \in Call /\ d.transfers = Top.transfers /\ d.todo = Top.todo
  BY <1>1 DEF Call
<1>5. CASE ToolFails
  BY <1>1, <1>3, <1>5 DEF ToolFails
<1>6. CASE ToolRejected
  <2> DEFINE f == IF Top.fails < MaxRetries THEN Top.fails + 1 ELSE 0
             d == [Top EXCEPT !.fails = f]
  <2>1. f \in Nat /\ SetTop(ToolDone(d)) /\ handoffs' = handoffs /\ dropped' = dropped
    BY <1>2, <1>6 DEF ToolRejected
  <2> HIDE DEF f
  <2>2. d \in Call /\ d.transfers = Top.transfers /\ d.todo = Top.todo
    BY <1>4, <2>1
  <2> HIDE DEF d
  <2> QED BY <1>3, <2>1, <2>2
<1>7. CASE ToolSucceeds \/ TooDeep
  <2> DEFINE d == [Top EXCEPT !.fails = 0]
  <2>1. SetTop(ToolDone(d)) /\ handoffs' = handoffs /\ dropped' = dropped
    BY <1>7 DEF ToolSucceeds, TooDeep
  <2>2. d \in Call /\ d.transfers = Top.transfers /\ d.todo = Top.todo
    BY <1>4
  <2> HIDE DEF d
  <2> QED BY <1>3, <2>1, <2>2
<1>8. ASSUME NEW a \in Agents, Transfer(a) PROVE TransfersAccounted'
  <2> DEFINE d == [Top EXCEPT !.agent = a, !.fails = 0, !.pc = "swapped"]
  <2>1. d \in Call /\ d.transfers = Top.transfers /\ d.pc = "swapped"
    BY <1>1 DEF Call
  <2>2. SetTop(d) /\ handoffs' = handoffs + 1 /\ dropped' = dropped
    BY <1>8 DEF Transfer
  <2> HIDE DEF d
  <2>3. Owed(d) = 1
    BY <2>1 DEF Owed
  <2>4. d.transfers + Owed(d) >= Top.transfers + Owed(Top) + 1 /\ 1 \in {0, 1}
    BY <1>2, <2>1, <2>3
  <2> QED BY <1>1, <2>1, <2>2, <2>4, ReplaceAccounts
<1>9. ASSUME NEW a \in Agents, TransferRefused(a) PROVE TransfersAccounted'
  <2> DEFINE d == [Top EXCEPT !.agent = a, !.fails = 0]
  <2>1. d \in Call /\ d.transfers = Top.transfers /\ d.todo = Top.todo
    BY <1>1 DEF Call
  <2>2. SetTop(ToolDone(d)) /\ handoffs' = handoffs /\ dropped' = dropped
    BY <1>9 DEF TransferRefused
  <2> HIDE DEF d
  <2> QED BY <1>3, <2>1, <2>2
<1>10. ASSUME NEW a \in Agents, NEW back \in BOOLEAN, Delegate(a, back)
       PROVE  TransfersAccounted'
  <2> DEFINE d == [Top EXCEPT !.fails = 0]
             st == [stack EXCEPT ![Len(stack)] = d]
             c == NewCall(a, SubTurns, back)
  <2>1. [stack EXCEPT ![Len(stack)].fails = 0] = st
    BY <1>1 DEF Top
  <2>2. stack' = Append(st, c) /\ handoffs' = handoffs /\ dropped' = dropped
    BY <1>10, <2>1 DEF Delegate
  <2>3. d \in Call /\ d.transfers = Top.transfers
    BY <1>4
  <2>4. SubTurns \in Nat
    <3>1. Top.limit \in Nat
      BY <1>1 DEF Call
    <3> QED BY <3>1, LimitsAssumption DEF SubTurns
  <2>5. c \in Call /\ c.transfers = 0
    BY <2>4 DEF NewCall, Call
  <2> HIDE DEF d, c
  <2>6. st \in Seq(Call)
    BY <1>1, <2>3
  <2>7. /\ Counted(st) + Top.transfers = Counted(stack) + d.transfers
        /\ Counted(st) \in Nat /\ Counted(stack) \in Nat
    BY <1>1, <2>3, CountedReplace DEF Top
  <2> HIDE DEF st
  <2>8. Counted(stack') = Counted(st) + c.transfers
    BY <2>2, <2>5, <2>6, CountedIsFold
  <2>9. Counted(stack') = Counted(stack)
    BY <1>2, <2>3, <2>5, <2>7, <2>8
  <2>10. handoffs <= dropped + Counted(stack)
    BY <1>1, <1>2, <2>7, AccountedAtTop
  <2>11. Counted(stack)' = Counted(stack')
    BY DEF Counted
  <2> QED BY <1>1, <2>2, <2>7, <2>9, <2>10, <2>11 DEF TransfersAccounted
<1> QED BY <1>5, <1>6, <1>7, <1>8, <1>9, <1>10

\* The handoff that was owed is counted.
LEMMA SwappedAccounts == ASSUME IInv, TransfersAccounted, Swapped PROVE TransfersAccounted'
<1> DEFINE c == [Top EXCEPT !.transfers = @ + 1, !.todo = 0]
           d == [c EXCEPT !.pc = "returned"]
           e == [c EXCEPT !.pc = "turn", !.swaps = @ + 1, !.seen = {}]
<1>1. /\ stack # << >> /\ Top \in Call /\ Top.pc = "swapped"
      /\ handoffs \in Nat /\ handoffs' = handoffs + 0 /\ dropped' = dropped
  BY TopInv DEF Swapped, AtTop, IInv
<1>2. /\ Top.transfers \in Nat /\ Top.transfers + 1 \in Nat /\ Top.swaps \in Nat
      /\ Top.swaps + 1 \in Nat /\ Owed(Top) = 1
  BY <1>1 DEF Call, Owed
<1>3. c \in Call /\ c.transfers = Top.transfers + 1 /\ c.swaps = Top.swaps
  BY <1>1, <1>2 DEF Call
<1>4. SetTop(d) \/ SetTop(e)
  BY DEF Swapped
<1> HIDE DEF c
<1>5. /\ d \in Call /\ d.transfers = Top.transfers + 1
      /\ e \in Call /\ e.transfers = Top.transfers + 1
  <2>1. d \in Call /\ d.transfers = Top.transfers + 1
    BY <1>2, <1>3 DEF Call
  <2>2. e \in Call /\ e.transfers = Top.transfers + 1
    BY <1>2, <1>3 DEF Call
  <2> QED BY <2>1, <2>2
<1>6. PICK x \in {d, e} : SetTop(x)
  BY <1>4
<1> HIDE DEF d, e
<1>7. x \in Call /\ x.transfers = Top.transfers + 1 /\ Owed(x) \in {0, 1}
  BY <1>5 DEF Owed
<1>8. x.transfers + Owed(x) >= Top.transfers + Owed(Top) + 0 /\ 0 \in {0, 1}
  BY <1>2, <1>7
<1> QED BY <1>1, <1>6, <1>7, <1>8, ReplaceAccounts

\* A sub-swarm that returns hands its count to its parent, one that raises to
\* the observer.
LEMMA EndAccounts == ASSUME IInv, TransfersAccounted, End PROVE TransfersAccounted'
<1>1. ASSUME stack # << >>, Depth > 0
      PROVE  /\ Parent \in Call /\ Parent.todo > 0 /\ Parent.transfers \in Nat
             /\ Top \in Call /\ Top.transfers \in Nat /\ Top.prompt \in Agents
             /\ dropped \in Nat
  <2>1. Len(stack) - 1 \in 1..Len(stack) /\ Len(stack) - 1 < Len(stack)
    BY <1>1, TopInv DEF Depth
  <2>2. CallInv(Parent, Len(stack) - 1, handed) /\ Parent.pc = "tools"
    BY <2>1 DEF IInv, StackInv, Parent
  <2> QED BY <1>1, <2>2, TopInv DEF CallInv, Call, IInv
<1>2. CASE SubSwarmReturns
  <2> DEFINE n == Parent.transfers + Top.transfers
             p == [Parent EXCEPT !.transfers = n]
             q == [p EXCEPT !.agent = Top.prompt, !.pc = "swapped"]
             c == IF Top.back THEN ToolDone(p) ELSE q
  <2>1. /\ stack # << >> /\ Depth > 0 /\ Top.pc = "returned"
        /\ UNCHANGED <<handoffs, dropped>> /\ PopTo(c)
    BY <1>2 DEF SubSwarmReturns, AtTop
  <2>2. n \in Nat
    BY <1>1, <2>1
  <2> HIDE DEF n
  <2>3. p \in Call /\ p.transfers = n /\ p.todo = Parent.todo
    BY <1>1, <2>1, <2>2 DEF Call
  <2> HIDE DEF p
  <2>4. ToolDone(p) \in Call /\ ToolDone(p).transfers = n
    BY <1>1, <2>1, <2>3, ToolDoneCounts
  <2>5. q \in Call /\ q.transfers = n
    BY <1>1, <2>1, <2>3 DEF Call
  <2> HIDE DEF q
  <2>6. c \in Call /\ c.transfers = n
    BY <2>4, <2>5
  <2> HIDE DEF c
  <2>7. dropped' \in Nat /\ dropped' + c.transfers >= dropped + Parent.transfers + Top.transfers
    BY <1>1, <2>1, <2>6 DEF n
  <2> QED BY <2>1, <2>6, <2>7, PopAccounts
<1>3. CASE SubSwarmRaises
  <2> DEFINE c == ToolDone(Parent)
  <2>1. /\ stack # << >> /\ Depth > 0 /\ Top.pc = "turn" /\ handoffs' = handoffs
        /\ dropped' = dropped + Top.transfers /\ PopTo(c)
    BY <1>3 DEF SubSwarmRaises, AtTop
  <2>2. c \in Call /\ c.transfers = Parent.transfers
    BY <1>1, <2>1, ToolDoneCounts
  <2> HIDE DEF c
  <2>3. dropped' \in Nat /\ dropped' + c.transfers >= dropped + Parent.transfers + Top.transfers
    BY <1>1, <2>1, <2>2
  <2> QED BY <2>1, <2>2, <2>3, PopAccounts
<1>4. CASE SessionEnds
  <2>1. /\ UNCHANGED <<handoffs, dropped>>
        /\ \/ AtTop("returned") /\ stack' = stack
           \/ AtTop("turn") /\ ReturnTop
    BY <1>4 DEF SessionEnds
  <2>2. CASE stack' = stack
    <3>1. TransfersAccounted' <=> TransfersAccounted
      BY <2>1, <2>2 DEF TransfersAccounted, AtTop, Top
    <3> QED BY <3>1
  <2>3. CASE AtTop("turn") /\ ReturnTop
    <3> DEFINE d == [Top EXCEPT !.pc = "returned"]
    <3>1. /\ stack # << >> /\ Top \in Call /\ Top.pc = "turn" /\ handoffs \in Nat /\ SetTop(d)
      BY <2>3, TopInv DEF AtTop, IInv, ReturnTop
    <3>2. d \in Call /\ d.transfers = Top.transfers /\ Top.transfers \in Nat /\ d.pc = "returned"
      BY <3>1 DEF Call
    <3> HIDE DEF d
    <3>3. Owed(d) = 0 /\ Owed(Top) = 0
      BY <3>1, <3>2 DEF Owed
    <3>4. /\ d.transfers + Owed(d) >= Top.transfers + Owed(Top) + 0 /\ 0 \in {0, 1}
          /\ handoffs' = handoffs + 0
      BY <2>1, <3>1, <3>2, <3>3
    <3> QED BY <2>1, <3>1, <3>2, <3>4, ReplaceAccounts
  <2> QED BY <2>1, <2>2, <2>3
<1> QED BY <1>2, <1>3, <1>4 DEF End

LEMMA NextAccounts == IInv /\ TransfersAccounted /\ [Next]_vars => TransfersAccounted'
<1> SUFFICES ASSUME IInv, TransfersAccounted, [Next]_vars PROVE TransfersAccounted'
  OBVIOUS
<1>1. ASSUME NEW a \in Agents, NEW b \in Budgets, Start(a, b) PROVE TransfersAccounted'
  <2> DEFINE c == NewCall(a, MaxTurns, TRUE)
  <2>1. stack = << >> /\ stack' = <<c>> /\ UNCHANGED <<handoffs, dropped>>
    BY <1>1 DEF Start, IInv
  <2>2. c \in Call /\ c.transfers = 0
    BY LimitsAssumption DEF NewCall, Call
  <2> HIDE DEF c
  <2>3. <<c>> = Append(stack, c) /\ << >> \in Seq(Call)
    BY <2>1, EmptySeq
  <2>4. Counted(stack') = 0 /\ Counted(stack) = 0
    <3>1. Counted(Append(<< >>, c)) = Counted(<< >>) + c.transfers
      BY <2>2, <2>3, CountedIsFold
    <3>2. Counted(Append(<< >>, c)) = 0
      BY <2>2, <3>1, CountedIsFold
    <3>3. stack' = Append(<< >>, c)
      BY <2>1, <2>3
    <3> QED BY <2>1, <3>2, <3>3, CountedIsFold, Zenon
  <2>5. ~AtTop("swapped") /\ handoffs \in Nat /\ dropped \in Nat
    BY <2>1 DEF AtTop, IInv
  <2>6. Counted(stack)' = Counted(stack')
    BY DEF Counted
  <2> QED BY <2>1, <2>4, <2>5, <2>6 DEF TransfersAccounted
<1>2. CASE Tool
  <2>1. CASE Swapped
    BY <2>1, SwappedAccounts
  <2>2. CASE ~Swapped
    <3>1. \/ ToolFails \/ ToolRejected \/ ToolSucceeds \/ TooDeep
          \/ \E a \in Agents : Transfer(a) \/ TransferRefused(a)
          \/ \E a \in Agents, back \in BOOLEAN : Delegate(a, back)
      BY <1>2, <2>2 DEF Tool
    <3>2. AtTop("tools")
      BY <3>1 DEF ToolFails, ToolRejected, ToolSucceeds, TooDeep, Transfer, TransferRefused, Delegate
    <3> QED BY <3>1, <3>2, ToolAccounts
  <2> QED BY <2>1, <2>2
<1>3. CASE UNCHANGED vars
  <2>1. TransfersAccounted' <=> TransfersAccounted
    BY <1>3 DEF vars, TransfersAccounted, AtTop, Top
  <2> QED BY <2>1
<1> QED BY <1>1, <1>2, <1>3, TurnAccounts, EndAccounts DEF Next

-----------------------------------------------------------------------------
(* The theorems.                                                           *)

\* The inductive invariant of SwarmEngine.execute.
THEOREM SwarmInvariant == Spec => []IInv
BY InitIInv, NextIInv, PTL DEF Spec

\* Nesting, turns and the shape of the stack of calls.
THEOREM SwarmTypeCorrect == Spec => []TypeOK
<1>1. IInv => TypeOK
  <2> SUFFICES ASSUME IInv PROVE TypeOK
    OBVIOUS
  <2>1. DOMAIN stack = 1..Len(stack)
    BY DEF IInv, StackInv
  <2> QED BY <2>1 DEF IInv, StackInv, CallInv, TypeOK
<1> QED BY <1>1, SwarmInvariant, PTL

\* All nested calls together carry out at most MAX_GLOBAL_TRANSFERS transfers.
THEOREM GlobalTransferLimit == Spec => []HandoffsBounded
<1>1. IInv => HandoffsBounded
  BY DEF IInv, HandoffsBounded
<1> QED BY <1>1, SwarmInvariant, PTL

\* The cost that the calls of a session count together overruns its budget by at
\* most what one call of the LLM counts: the one that crosses the budget is the
\* last.  This bounds what was counted and not what was spent.
THEOREM BudgetOverrun == Spec => []BudgetHolds
<1>1. IInv => BudgetHolds
  BY DEF IInv
<1> QED BY <1>1, SwarmInvariant, PTL

\* No call swaps its agent more often than its transfer limit.
THEOREM LoopsAreCut == Spec => []LoopProtection
<1>1. IInv => LoopProtection
  <2> SUFFICES ASSUME IInv PROVE LoopProtection
    OBVIOUS
  <2>1. DOMAIN stack = 1..Len(stack)
    BY DEF IInv, StackInv
  <2> QED BY <2>1 DEF IInv, StackInv, CallInv, LoopProtection
<1> QED BY <1>1, SwarmInvariant, PTL

\* Until a transfer is refused, no agent finds another one's raw messages.
THEOREM HistoriesDoNotMix == Spec => []NoBleed
<1>1. IInv => NoBleed
  <2> SUFFICES ASSUME IInv PROVE NoBleed
    OBVIOUS
  <2>1. DOMAIN stack = 1..Len(stack)
    BY DEF IInv, StackInv
  <2> QED BY <2>1 DEF IInv, StackInv, CallInv, NoBleed
<1> QED BY <1>1, SwarmInvariant, PTL

\* Every handoff is in the counter of a call under way, or was dropped with a
\* sub-swarm that raised: the transfer limit of a call sees what happened below it.
THEOREM HandoffsAreCounted == Spec => []TransfersAccounted
<1>1. Init => TransfersAccounted
  <2> SUFFICES ASSUME Init PROVE TransfersAccounted
    OBVIOUS
  <2>1. Counted(stack) = 0
    BY CountedIsFold DEF Init
  <2> QED BY <2>1 DEF Init, TransfersAccounted, AtTop
<1>2. IInv /\ TransfersAccounted /\ [Next]_vars => TransfersAccounted'
  BY NextAccounts
<1> QED BY <1>1, <1>2, SwarmInvariant, PTL DEF Spec
=============================================================================
