-------------------------------- MODULE Pool --------------------------------
(***************************************************************************)
(* The pool of model providers (pool/mod.rs) that all queries of a server   *)
(* share: which provider a call goes to, what is counted of it, and the     *)
(* background task that asks one provider after another for its health.     *)
(* Rlm.tla sees of all this only that a call is answered or fails.          *)
(***************************************************************************)
EXTENDS Naturals, Sequences, FiniteSets

CONSTANTS
  Pooled,      \* the providers in the order they were added: [name, role, weight]
  Callers,     \* tasks that may have a call under way
  Strategies,  \* load-balancing strategies
  Latencies,   \* what a health check may measure, in ms
  Wrap,        \* the turn counter wraps here (2^64 in the code)
  MaxCalls     \* bound: calls

Roles == {"root", "sub", "both"}
Kinds == {"root", "sub"}

\* A server without providers does not start.
ASSUME PooledAssumption ==
  /\ Pooled \in Seq([name : STRING, role : Roles, weight : Nat])
  /\ Pooled # <<>>
ASSUME CallersAssumption == IsFiniteSet(Callers)
ASSUME BoundsAssumption ==
  /\ Wrap \in Nat \ {0} /\ MaxCalls \in Nat
  /\ Latencies \subseteq Nat /\ Latencies # {}
  /\ Strategies \subseteq {"round_robin", "weighted", "least_latency"}

Providers == DOMAIN Pooled
Names == {Pooled[p].name : p \in Providers}

VARIABLES
  strategy,
  turn,     \* round_robin_idx
  healthy,  \* of each provider, as the last health check found it
  latency,  \* health_latency_ms of each provider
  counts,   \* stats_map: one record for all providers of a name
  call,     \* the call each task has under way
  sweep,    \* the health check under way: the provider, and what it answered
  up,       \* environment: the provider answers health checks well
  lost,     \* history: calls that were dropped while under way
  served    \* history: the last call of each kind, and its candidates

vars == <<strategy, turn, healthy, latency, counts, call, sweep, up, lost, served>>

Free == [pc |-> "free", kind |-> "root", at |-> 1]
NoAnswer == [pc |-> "asked", well |-> FALSE, ms |-> 0]

Init ==
  /\ strategy \in Strategies
  /\ turn = 0
  /\ healthy = [p \in Providers |-> TRUE]
  /\ latency = [p \in Providers |-> 0]
  /\ counts = [n \in Names |-> [requests |-> 0, successes |-> 0, failures |-> 0]]
  /\ call = [c \in Callers |-> Free]
  /\ sweep = [at |-> 1, answer |-> NoAnswer]
  /\ up \in [Providers -> BOOLEAN]
  /\ lost = [n \in Names |-> 0]
  /\ served = [k \in Kinds |-> [calls |-> 0, by |-> 1, among |-> {}]]

-----------------------------------------------------------------------------
(* Selection.                                                               *)

Serves(p, kind) == Pooled[p].role \in {kind, "both"}

\* The healthy providers for a kind of call.
Eligible(kind) == {p \in Providers : Serves(p, kind) /\ healthy[p]}

\* With none healthy the first one is asked all the same.
Fallback(kind) ==
  {p \in Providers : Serves(p, kind) /\ \A q \in Providers : Serves(q, kind) => p <= q}

\* The first of the least health latency; a provider never measured has none.
LeastLatency(among) ==
  {p \in among : \A q \in among :
     latency[p] < latency[q] \/ (latency[p] = latency[q] /\ p <= q)}

\* A number below the sum of the weights picks a provider by its weight.
Weighted(among) == {p \in among : Pooled[p].weight > 0}

\* The turn's place among them.
InTurn(among) ==
  {p \in among : Cardinality({q \in among : q < p}) = turn % Cardinality(among)}

\* get_provider_for_role: the providers the call may go to.
Choices(kind) ==
  LET among == Eligible(kind) IN
  IF among = {} THEN Fallback(kind)
  ELSE CASE strategy = "round_robin"   -> InTurn(among)
         [] strategy = "weighted"      -> Weighted(among)
         [] OTHER                      -> LeastLatency(among)

-----------------------------------------------------------------------------
(* complete: select, count, ask, count.                                     *)

May(c) == call[c].pc # "waiting"

Select(c, kind) == \E p \in Choices(kind) :
  /\ May(c) /\ served["root"].calls + served["sub"].calls < MaxCalls
  /\ call' = [call EXCEPT ![c] = [pc |-> "waiting", kind |-> kind, at |-> p]]
  /\ counts' = [counts EXCEPT ![Pooled[p].name].requests = @ + 1]
  /\ turn' = IF strategy = "round_robin" /\ Eligible(kind) # {}
             THEN (turn + 1) % Wrap ELSE turn
  /\ served' = [served EXCEPT ![kind] = [calls |-> @.calls + 1, by |-> p,
                                         among |-> Eligible(kind)]]
  /\ UNCHANGED <<strategy, healthy, latency, sweep, up, lost>>

\* No provider has the role: an error.  Weights that are all zero: the number
\* is taken modulo zero and the task dies.
SelectFails(c, kind) ==
  /\ May(c) /\ Choices(kind) = {}
  /\ call' = [call EXCEPT ![c].pc =
                IF Eligible(kind) = {} THEN "refused" ELSE "panicked"]
  /\ UNCHANGED <<strategy, turn, healthy, latency, counts, sweep, up, lost, served>>

Waits(c) == call[c].pc = "waiting"
NameOf(c) == Pooled[call[c].at].name
Release(c) == call' = [call EXCEPT ![c] = Free]

\* Mutant: a failure is not counted.
Answers_FailureUncounted(c) ==
  /\ Waits(c)
  /\ Release(c)
  /\ \/ counts' = [counts EXCEPT ![NameOf(c)].successes = @ + 1]
     \/ UNCHANGED counts
  /\ UNCHANGED <<strategy, turn, healthy, latency, sweep, up, lost, served>>

Answers(c) ==
  /\ Waits(c)
  /\ Release(c)
  /\ \/ counts' = [counts EXCEPT ![NameOf(c)].successes = @ + 1]
     \/ counts' = [counts EXCEPT ![NameOf(c)].failures = @ + 1]
  /\ UNCHANGED <<strategy, turn, healthy, latency, sweep, up, lost, served>>

\* The client of a plain query leaves and its future is dropped.  (A sub-call
\* blocks its thread and cannot be dropped.)
Dropped(c) ==
  /\ Waits(c) /\ call[c].kind = "root"
  /\ Release(c)
  /\ lost' = [lost EXCEPT ![NameOf(c)] = @ + 1]
  /\ UNCHANGED <<strategy, turn, healthy, latency, counts, sweep, up, served>>

-----------------------------------------------------------------------------
(* health_check_all, over and over.                                         *)

After(p) == IF p = Len(Pooled) THEN 1 ELSE p + 1

\* Mutant: a provider that was found ill is not asked again.
Probe_SkipsIll ==
  /\ sweep.answer.pc = "asked"
  /\ IF healthy[sweep.at]
     THEN \E ms \in Latencies :
            sweep' = [sweep EXCEPT !.answer = [pc |-> "answered", well |-> up[sweep.at],
                                               ms |-> ms]]
     ELSE sweep' = [at |-> After(sweep.at), answer |-> NoAnswer]
  /\ UNCHANGED <<strategy, turn, healthy, latency, counts, call, up, lost, served>>

\* health_check of the provider.  Without a latency (no connection) the old one
\* stays.
Probe ==
  /\ sweep.answer.pc = "asked"
  /\ \E ms \in Latencies \union (IF up[sweep.at] THEN {} ELSE {latency[sweep.at]}) :
       sweep' = [sweep EXCEPT !.answer = [pc |-> "answered", well |-> up[sweep.at],
                                          ms |-> ms]]
  /\ UNCHANGED <<strategy, turn, healthy, latency, counts, call, up, lost, served>>

Store ==
  /\ sweep.answer.pc = "answered"
  /\ healthy' = [healthy EXCEPT ![sweep.at] = sweep.answer.well]
  /\ latency' = [latency EXCEPT ![sweep.at] = sweep.answer.ms]
  /\ sweep' = [at |-> After(sweep.at), answer |-> NoAnswer]
  /\ UNCHANGED <<strategy, turn, counts, call, up, lost, served>>

\* A provider goes down or comes back.
Turns(p) ==
  /\ up' = [up EXCEPT ![p] = ~@]
  /\ UNCHANGED <<strategy, turn, healthy, latency, counts, call, sweep, lost, served>>

-----------------------------------------------------------------------------

Next ==
  \/ \E c \in Callers : \/ \E kind \in Kinds : Select(c, kind) \/ SelectFails(c, kind)
                        \/ Answers(c) \/ Dropped(c)
  \/ Probe \/ Store
  \/ \E p \in Providers : Turns(p)

\* The health-check task is never stopped, and every health check ends, because
\* the HTTP clients have a timeout; one that hangs holds up the others until then.
Spec == Init /\ [][Next]_vars /\ WF_vars(Probe \/ Store)

-----------------------------------------------------------------------------
(* Properties.                                                              *)

Count == [requests : Nat, successes : Nat, failures : Nat]

\* The variables have their types.
TypeOK ==
  /\ strategy \in Strategies
  /\ turn \in 0..Wrap - 1
  /\ healthy \in [Providers -> BOOLEAN]
  /\ latency \in [Providers -> Nat]
  /\ counts \in [Names -> Count]
  /\ call \in [Callers -> [pc : {"free", "waiting", "refused", "panicked"},
                           kind : Kinds, at : Providers]]
  /\ sweep \in [at : Providers,
                answer : [pc : {"asked", "answered"}, well : BOOLEAN, ms : Nat]]
  /\ up \in [Providers -> BOOLEAN]
  /\ lost \in [Names -> Nat]
  /\ served \in [Kinds -> [calls : Nat, by : Providers, among : SUBSET Providers]]

UnderWay(n) == {c \in Callers : Waits(c) /\ NameOf(c) = n}

\* What is counted of the providers of a name adds up: every request has
\* succeeded, failed, is under way, or was dropped with its query.
CallsAccounted == \A n \in Names :
  counts[n].requests =
    counts[n].successes + counts[n].failures + lost[n] + Cardinality(UnderWay(n))

\* A provider that works again, for good, is again among those that get calls.
Rejoins == \A p \in Providers : <>[]up[p] => <>[]healthy[p]

\* What the repository says, and the code does not do.
\* pool/mod.rs, LoadBalanceStrategy: "Round-robin across healthy providers".
\* The turn is shared by root calls and sub-calls.
TakesTurns == [][\A kind \in Kinds :
  (/\ strategy = "round_robin"
   /\ served'[kind].calls > served[kind].calls
   /\ served[kind].calls > 0
   /\ served'[kind].among = served[kind].among /\ Cardinality(served[kind].among) > 1)
  => served'[kind].by # served[kind].by]_vars

=============================================================================
