------------------------------- MODULE Swarm -------------------------------
(***************************************************************************)
(* SwarmEngine.execute: agents that answer, call tools, hand over to each  *)
(* other and delegate to sub-swarms, which are nested calls of execute on  *)
(* the same event loop.  `stack` holds the calls under way, the session's  *)
(* own call first; only the last one runs.  A history is abstracted to     *)
(* whose instructions head it and whose raw messages it holds.             *)
(***************************************************************************)
EXTENDS Integers, Sequences, FiniteSets, SequencesExt

CONSTANTS
  Agents,           \* the agents of the deployment
  HandsOverTo,      \* HandsOverTo[a]: agents a has a transfer skill to
  DelegatesTo,      \* DelegatesTo[a]: sub-swarm agents a can delegate to
  PlanCritics,      \* agents with plan_requirements
  HasCritic,        \* the session runs with a critic_engine
  MaxTurns,         \* max_turns of the session
  MinSubTurns,      \* least max_turns of a sub-swarm, 3 in the code
  MaxTransfers,     \* max_transfers of the session
  SubMaxTransfers,  \* max_transfers of a sub-swarm, the default 5 in the code
  MaxGlobal,        \* MAX_GLOBAL_TRANSFERS, 15 in the code
  MaxDepth,         \* MAX_SWARM_DEPTH, 3 in the code
  MaxRetries,       \* max_internal_retries
  Budgets,          \* limits on the cost of a session; 0: none
  MaxCost,          \* what one call of the LLM may add to the counted cost
  MaxCalls          \* bound: tool calls in one reply

ASSUME AgentsAssumption == /\ HandsOverTo \in [Agents -> SUBSET Agents]
                           /\ DelegatesTo \in [Agents -> SUBSET Agents]
ASSUME LimitsAssumption == /\ MaxTurns \in Nat /\ MinSubTurns \in Nat
                           /\ MaxTransfers \in Nat /\ SubMaxTransfers \in Nat
                           /\ MaxGlobal \in Nat /\ MaxDepth \in Nat
                           /\ MaxRetries \in Nat /\ Budgets \subseteq Nat
                           /\ MaxCost \in Nat
                           /\ MaxCalls \in Nat \ {0}
ASSUME CriticAssumption == HasCritic \in BOOLEAN

VARIABLES
  stack,     \* the calls of execute() under way
  handed,    \* _global_transfer_count[0], one cell shared by all calls
  budget,    \* max_budget_usd, or the limit of the BudgetGuard; handed down
  spent,     \* _current_cost_usd[0], or the total of the TokenLedger; shared
  outcome,   \* of the session: "none", "running", "returned" or "raised"
  handoffs,  \* observer: transfers to an agent that were not refused
  dropped    \* observer: transfers counted by calls that raised

vars == <<stack, handed, budget, spent, outcome, handoffs, dropped>>

(***************************************************************************)
(* A call: the agent in charge; `prompt`, whose instructions the system    *)
(* message holds; `seen`, whose raw messages follow it; turn_count and     *)
(* max_turns; transfer_count; consecutive_critic_failures; the tool calls  *)
(* of the reply not handled yet; whether last_summary is bound;            *)
(* return_to_parent_on_complete; and, as an observer, the changes of agent *)
(* it went through.                                                        *)
(***************************************************************************)
Call == [pc : {"turn", "tools", "swapped", "returned"},
         agent : Agents, prompt : Agents, seen : SUBSET Agents,
         turn : Nat, limit : Nat, transfers : Nat, fails : Nat, todo : Nat,
         bound : BOOLEAN, back : BOOLEAN, swaps : Nat]

NewCall(a, limit, back) ==
  [pc |-> "turn", agent |-> a, prompt |-> a, seen |-> {}, turn |-> 0, limit |-> limit,
   transfers |-> 0, fails |-> 0, todo |-> 0,
   bound |-> FALSE, back |-> back, swaps |-> 0]

Depth == Len(stack) - 1
Top == stack[Len(stack)]
SetTop(c) == stack' = [stack EXCEPT ![Len(stack)] = c]
AtTop(pc) == stack # << >> /\ Top.pc = pc

\* max_transfers: a sub-swarm is called without one and takes the default.
TransferLimit(i) == IF i = 1 THEN MaxTransfers ELSE SubMaxTransfers

-----------------------------------------------------------------------------
(* The turn loop                                                           *)

Start(a, b) ==
  /\ outcome = "none"
  /\ stack' = <<NewCall(a, MaxTurns, TRUE)>>
  /\ budget' = b
  /\ outcome' = "running"
  /\ UNCHANGED <<handed, spent, handoffs, dropped>>

ReturnTop == SetTop([Top EXCEPT !.pc = "returned"])

\* last_summary is bound by the first reply whose tool calls are carried out;
\* without one, returning it raises.
TurnsExhausted ==
  /\ AtTop("turn") /\ Top.turn >= Top.limit
  /\ Top.bound
  /\ ReturnTop
  /\ UNCHANGED <<handed, budget, spent, outcome, handoffs, dropped>>

OverBudget == budget > 0 /\ spent > budget

\* The turn ends the call with an error text: the budget is spent, the input is
\* blocked, the compliance check or the quota refuses, or the LLM fails.
TurnRefused ==
  /\ AtTop("turn") /\ Top.turn < Top.limit
  /\ ReturnTop
  /\ UNCHANGED <<handed, budget, spent, outcome, handoffs, dropped>>

\* The LLM answers: its message joins the history.
Replied == [Top EXCEPT !.turn = @ + 1, !.seen = @ \cup {Top.agent}]

\* completion_cost raises for a model it does not know, which is swallowed, and
\* is zero for a free one; the ledger needs a usage and knows free models too.
Counts == \E cost \in 0..MaxCost : spent' = spent + cost

\* Mutant: the budget is only looked at when a call starts.
Replies_LateBudget ==
  /\ AtTop("turn") /\ Top.turn < Top.limit
  /\ ~(OverBudget /\ Top.turn = 0)
  /\ Counts

Replies ==
  /\ AtTop("turn") /\ Top.turn < Top.limit
  /\ ~OverBudget
  /\ Counts

\* A reply without tool calls is the answer.  The output_spec branch is dead:
\* Agent has no such field, and pydantic drops one that is passed.
Answers ==
  /\ Replies
  /\ SetTop([Replied EXCEPT !.pc = "returned"])
  /\ UNCHANGED <<budget, handed, outcome, handoffs, dropped>>

\* Sub-swarms are called without the critic.
Criticised == HasCritic /\ Depth = 0

\* The critic rejects the proposed tool calls.
PlanRejected ==
  /\ Replies
  /\ Criticised /\ Top.agent \in PlanCritics
  /\ SetTop([Replied EXCEPT !.fails = @ + 1,
                            !.pc = IF Top.fails < MaxRetries THEN "turn" ELSE "returned"])
  /\ UNCHANGED <<budget, handed, outcome, handoffs, dropped>>

ProposesTools(n) ==
  /\ Replies
  /\ SetTop([Replied EXCEPT !.pc = "tools", !.fails = 0, !.todo = n, !.bound = TRUE])
  /\ UNCHANGED <<budget, handed, outcome, handoffs, dropped>>

-----------------------------------------------------------------------------
(* The tool calls of one reply                                             *)

\* The call's result joins the history; after the last one the loop turns.
ToolDone(c) == [c EXCEPT !.todo = @ - 1, !.pc = IF c.todo = 1 THEN "turn" ELSE "tools"]

\* The skill is missing, rejects its arguments or raises.
ToolFails ==
  /\ AtTop("tools")
  /\ SetTop(ToolDone(Top))
  /\ UNCHANGED <<handed, budget, spent, outcome, handoffs, dropped>>

\* The critic rejects the skill's result; past the limit it counts afresh.
ToolRejected ==
  /\ AtTop("tools") /\ Criticised
  /\ SetTop(ToolDone([Top EXCEPT !.fails = IF @ < MaxRetries THEN @ + 1 ELSE 0]))
  /\ UNCHANGED <<handed, budget, spent, outcome, handoffs, dropped>>

ToolSucceeds ==
  /\ AtTop("tools")
  /\ SetTop(ToolDone([Top EXCEPT !.fails = 0]))
  /\ UNCHANGED <<handed, budget, spent, outcome, handoffs, dropped>>

Transfer(a) ==
  /\ AtTop("tools") /\ a \in HandsOverTo[Top.agent]
  /\ handed' = handed + 1
  /\ handed' <= MaxGlobal
  /\ SetTop([Top EXCEPT !.agent = a, !.fails = 0, !.pc = "swapped"])
  /\ handoffs' = handoffs + 1
  /\ UNCHANGED <<budget, spent, outcome, dropped>>

\* The global limit: agent_swapped is taken back, current_agent is not.
TransferRefused(a) ==
  /\ AtTop("tools") /\ a \in HandsOverTo[Top.agent]
  /\ handed' = handed + 1
  /\ handed' > MaxGlobal
  /\ SetTop(ToolDone([Top EXCEPT !.agent = a, !.fails = 0]))
  /\ UNCHANGED <<budget, spent, outcome, handoffs, dropped>>

SubTurns == IF Top.limit \div 2 > MinSubTurns THEN Top.limit \div 2 ELSE MinSubTurns

\* Mutants: one level too deep; the shared count starts afresh.
Delegate_Deeper(a, back) ==
  /\ AtTop("tools") /\ a \in DelegatesTo[Top.agent]
  /\ Depth <= MaxDepth
  /\ stack' = Append([stack EXCEPT ![Len(stack)].fails = 0],
                     NewCall(a, SubTurns, back))
  /\ UNCHANGED <<handed, budget, spent, outcome, handoffs, dropped>>
Delegate_OwnCount(a, back) ==
  /\ AtTop("tools") /\ a \in DelegatesTo[Top.agent]
  /\ Depth < MaxDepth
  /\ stack' = Append([stack EXCEPT ![Len(stack)].fails = 0],
                     NewCall(a, SubTurns, back))
  /\ handed' = 0
  /\ UNCHANGED <<budget, spent, outcome, handoffs, dropped>>

Delegate(a, back) ==
  /\ AtTop("tools") /\ a \in DelegatesTo[Top.agent]
  /\ Depth < MaxDepth
  /\ stack' = Append([stack EXCEPT ![Len(stack)].fails = 0],
                     NewCall(a, SubTurns, back))
  /\ UNCHANGED <<handed, budget, spent, outcome, handoffs, dropped>>

TooDeep ==
  /\ AtTop("tools") /\ DelegatesTo[Top.agent] # {}
  /\ Depth >= MaxDepth
  /\ SetTop(ToolDone([Top EXCEPT !.fails = 0]))
  /\ UNCHANGED <<handed, budget, spent, outcome, handoffs, dropped>>

\* Mutant: the new agent goes on with the old history.
Swapped_KeepHistory ==
  /\ AtTop("swapped")
  /\ LET c == [Top EXCEPT !.transfers = @ + 1, !.todo = 0]
     IN IF c.transfers > TransferLimit(Len(stack))
        THEN SetTop([c EXCEPT !.pc = "returned"])
        ELSE SetTop([c EXCEPT !.pc = "turn", !.swaps = @ + 1])
  /\ UNCHANGED <<handed, budget, spent, outcome, handoffs, dropped>>

\* The agent was swapped: count it, and start the new agent on a summary.  The
\* system message stays that of the agent the call started with.
Swapped ==
  /\ AtTop("swapped")
  /\ LET c == [Top EXCEPT !.transfers = @ + 1, !.todo = 0]
     IN IF c.transfers > TransferLimit(Len(stack))
        THEN SetTop([c EXCEPT !.pc = "returned"])
        ELSE SetTop([c EXCEPT !.pc = "turn", !.swaps = @ + 1, !.seen = {}])
  /\ UNCHANGED <<handed, budget, spent, outcome, handoffs, dropped>>

-----------------------------------------------------------------------------
(* The end of a call                                                       *)

Parent == stack[Len(stack) - 1]
PopTo(c) == stack' = Append(SubSeq(stack, 1, Len(stack) - 2), c)

\* Mutant: the parent's counter is left alone.
SubSwarmReturns_Uncounted ==
  /\ AtTop("returned") /\ Depth > 0
  /\ PopTo(IF Top.back THEN ToolDone(Parent)
           ELSE [Parent EXCEPT !.agent = Top.prompt, !.pc = "swapped"])
  /\ UNCHANGED <<handed, budget, spent, outcome, handoffs, dropped>>

\* The sub-swarm's transfers are added to its parent's; the parent goes on, or
\* its agent is replaced by the one the sub-swarm started with.
SubSwarmReturns ==
  /\ AtTop("returned") /\ Depth > 0
  /\ LET p == [Parent EXCEPT !.transfers = @ + Top.transfers]
     IN PopTo(IF Top.back THEN ToolDone(p)
              ELSE [p EXCEPT !.agent = Top.prompt, !.pc = "swapped"])
  /\ UNCHANGED <<handed, budget, spent, outcome, handoffs, dropped>>

\* Mutant: the parent tries the delegation again.
SubSwarmRaises_Retry ==
  /\ AtTop("turn") /\ Depth > 0
  /\ PopTo(Parent)
  /\ dropped' = dropped + Top.transfers
  /\ UNCHANGED <<handed, budget, spent, outcome, handoffs>>

\* An exception that execute() does not catch is a failed tool call of its
\* parent, and the sub-swarm's transfers are not added.
SubSwarmRaises ==
  /\ AtTop("turn") /\ Depth > 0
  /\ PopTo(ToolDone(Parent))
  /\ dropped' = dropped + Top.transfers
  /\ UNCHANGED <<handed, budget, spent, outcome, handoffs>>

SessionEnds ==
  /\ Depth = 0
  /\ \/ AtTop("returned") /\ outcome' = "returned" /\ UNCHANGED stack
     \/ AtTop("turn") /\ outcome' = "raised" /\ ReturnTop
  /\ outcome = "running"
  /\ UNCHANGED <<handed, budget, spent, handoffs, dropped>>

-----------------------------------------------------------------------------
Init ==
  /\ stack = << >>
  /\ handed = 0
  /\ budget = 0
  /\ spent = 0
  /\ outcome = "none"
  /\ handoffs = 0
  /\ dropped = 0

Turn == TurnsExhausted \/ TurnRefused \/ Answers \/ PlanRejected
        \/ \E n \in 1..MaxCalls : ProposesTools(n)

Tool == \/ ToolFails \/ ToolRejected \/ ToolSucceeds \/ TooDeep \/ Swapped
        \/ \E a \in Agents : Transfer(a) \/ TransferRefused(a)
        \/ \E a \in Agents, back \in BOOLEAN : Delegate(a, back)

End == SubSwarmReturns \/ SubSwarmRaises \/ SessionEnds

Next == (\E a \in Agents, b \in Budgets : Start(a, b)) \/ Turn \/ Tool \/ End

Spec == Init /\ [][Next]_vars

\* The loop runs on until it returns; an LLM call fails after its timeout.
FairSpec == Spec /\ WF_vars(Turn \/ Tool \/ End)

-----------------------------------------------------------------------------
(* Properties                                                              *)

\* Types and limits: the nesting and the turns of every call are bounded, and
\* only the last call is not waiting for a tool call.
TypeOK ==
  /\ stack \in Seq(Call)
  /\ Len(stack) <= MaxDepth + 1
  /\ handed \in Nat /\ budget \in Nat /\ spent \in Nat /\ handoffs \in Nat /\ dropped \in Nat
  /\ outcome \in {"none", "running", "returned", "raised"}
  /\ outcome = "none" <=> stack = << >>
  /\ \A i \in DOMAIN stack :
       /\ stack[i].turn <= stack[i].limit
       /\ i < Len(stack) => stack[i].pc = "tools"
       /\ stack[i].pc = "tools" => stack[i].todo > 0

\* All calls of a session together never carry out more than
\* MAX_GLOBAL_TRANSFERS transfers ("max horizontal explosions across ALL
\* sub-swarms in one session call").
HandoffsBounded == handoffs <= MaxGlobal

\* However deep the sub-swarms, the cost that a session counts overruns its
\* budget by at most the one call of the LLM that crosses it (the cell is shared,
\* and looked at before every call).  Calls whose cost is not known count for
\* nothing, so the budget does not bound their number.
BudgetHolds == budget > 0 => spent <= budget + MaxCost

\* A call in which agents keep replacing each other is cut at its transfer
\* limit, whatever its sub-swarms add to the counter.
LoopProtection ==
  \A i \in DOMAIN stack : stack[i].swaps <= TransferLimit(i)

\* The transfers counted by the calls of a stack.
AddTransfers(n, c) == n + c.transfers
Counted(calls) == FoldLeft(AddTransfers, 0, calls)

\* Every handoff of the session stays in the counter of a call that is still
\* under way, unless its sub-swarm raised: that is what makes the transfer limit
\* of a call see what happened below it (transfer_count += sub_transfers).
TransfersAccounted ==
  handoffs <= dropped + Counted(stack) + (IF AtTop("swapped") THEN 1 ELSE 0)

\* A session ends: its calls of the LLM are bounded by the turns of every level.
SessionTerminates == outcome = "running" ~> outcome \in {"returned", "raised"}

\* While no transfer was refused, an agent never finds the raw messages of
\* another one in its history ("Context Sanitization (Bleed Protection)").
NoBleed ==
  \A i \in DOMAIN stack :
    handed <= MaxGlobal /\ stack[i].pc = "turn" => stack[i].seen \subseteq {stack[i].agent}
=============================================================================
