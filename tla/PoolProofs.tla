----------------------------- MODULE PoolProofs -----------------------------
(***************************************************************************)
(* Proofs about the provider pool for any providers, callers, strategies    *)
(* and bounds.                                                              *)
(***************************************************************************)
EXTENDS Pool, FiniteSetTheorems, TLAPS

\* The calls that are under way at a provider of the name n.
At(calls, n) == {c \in Callers : calls[c].pc = "waiting" /\ Pooled[calls[c].at].name = n}

IInv == TypeOK /\ CallsAccounted

-----------------------------------------------------------------------------
(* Selection and the calls under way.                                       *)

LEMMA FirstProvider == 1 \in Providers /\ Len(Pooled) \in Providers
                       /\ \A p \in Providers : Pooled[p].name \in Names
  BY PooledAssumption DEF Providers, Names

LEMMA ProvidersAreNumbers == Providers = 1..Len(Pooled) /\ Len(Pooled) \in Nat \ {0}
  BY PooledAssumption DEF Providers

\* A call goes to a provider of the pool that has its role.
LEMMA ChoicesServe ==
  ASSUME NEW kind, NEW p \in Choices(kind)
  PROVE  p \in Providers /\ Serves(p, kind)
<1>1. CASE Eligible(kind) = {}
  BY <1>1 DEF Choices, Fallback
<1>2. CASE Eligible(kind) # {}
  <2>1. p \in Eligible(kind)
    <3>1. CASE strategy = "round_robin"
      BY <1>2, <3>1 DEF Choices, InTurn
    <3>2. CASE strategy = "weighted"
      BY <1>2, <3>2 DEF Choices, Weighted
    <3>3. CASE strategy # "round_robin" /\ strategy # "weighted"
      BY <1>2, <3>3 DEF Choices, LeastLatency
    <3> QED BY <3>1, <3>2, <3>3
  <2> QED BY <2>1 DEF Eligible
<1> QED BY <1>1, <1>2

LEMMA Remainder ==
  ASSUME NEW a \in Nat, NEW b \in Nat \ {0} PROVE a % b \in 0..b - 1
  OBVIOUS

LEMMA UnderWayIs == \A n : UnderWay(n) = At(call, n)
  BY DEF UnderWay, At, Waits, NameOf

\* A caller that starts to wait is one more at the name of its provider.
LEMMA OneMore ==
  ASSUME NEW calls, NEW after, NEW c \in Callers, NEW n,
         calls[c].pc # "waiting", after[c].pc = "waiting",
         \A x \in Callers \ {c} : after[x] = calls[x]
  PROVE  /\ Cardinality(At(calls, n)) \in Nat
         /\ Cardinality(At(after, n)) =
              IF Pooled[after[c].at].name = n THEN Cardinality(At(calls, n)) + 1
              ELSE Cardinality(At(calls, n))
<1>1. IsFiniteSet(At(calls, n))
  BY CallersAssumption, FS_Subset DEF At
<1>2. c \notin At(calls, n)
  BY DEF At
<1>3. At(after, n) = IF Pooled[after[c].at].name = n THEN At(calls, n) \cup {c}
                     ELSE At(calls, n)
  BY DEF At
<1>4. Cardinality(At(calls, n) \cup {c}) = Cardinality(At(calls, n)) + 1
  BY <1>1, <1>2, FS_AddElement
<1> QED BY <1>1, <1>3, <1>4, FS_CardinalityType

-----------------------------------------------------------------------------
(* Types.                                                                   *)

LEMMA InitType == Init => TypeOK
<1> SUFFICES ASSUME Init PROVE TypeOK
  OBVIOUS
<1> USE FirstProvider DEF Init
<1>1. strategy \in Strategies /\ turn \in 0..Wrap - 1
  BY BoundsAssumption
<1>2. healthy \in [Providers -> BOOLEAN] /\ latency \in [Providers -> Nat]
      /\ up \in [Providers -> BOOLEAN]
  OBVIOUS
<1>3. counts \in [Names -> Count] /\ lost \in [Names -> Nat]
  BY DEF Count
<1>4. call \in [Callers -> [pc : {"free", "waiting", "refused", "panicked"},
                            kind : Kinds, at : Providers]]
  BY DEF Free, Kinds
<1>5. sweep \in [at : Providers,
                 answer : [pc : {"asked", "answered"}, well : BOOLEAN, ms : Nat]]
  BY DEF NoAnswer
<1>6. served \in [Kinds -> [calls : Nat, by : Providers, among : SUBSET Providers]]
  OBVIOUS
<1> QED BY <1>1, <1>2, <1>3, <1>4, <1>5, <1>6 DEF TypeOK

LEMMA NextType == TypeOK /\ [Next]_vars => TypeOK'
<1> SUFFICES ASSUME TypeOK, [Next]_vars PROVE TypeOK'
  OBVIOUS
<1>1. ASSUME NEW c \in Callers, NEW kind \in Kinds, Select(c, kind) PROVE TypeOK'
  <2>1. PICK p \in Choices(kind) :
          /\ call' = [call EXCEPT ![c] = [pc |-> "waiting", kind |-> kind, at |-> p]]
          /\ counts' = [counts EXCEPT ![Pooled[p].name].requests = @ + 1]
          /\ turn' = IF strategy = "round_robin" /\ Eligible(kind) # {}
                     THEN (turn + 1) % Wrap ELSE turn
          /\ served' = [served EXCEPT ![kind] = [calls |-> @.calls + 1, by |-> p,
                                                 among |-> Eligible(kind)]]
          /\ UNCHANGED <<strategy, healthy, latency, sweep, up, lost>>
    BY <1>1 DEF Select
  <2>2. p \in Providers
    BY ChoicesServe
  <2>3. turn' \in 0..Wrap - 1
    <3>1. turn \in 0..Wrap - 1 /\ turn + 1 \in Nat /\ Wrap \in Nat \ {0}
      BY BoundsAssumption DEF TypeOK
    <3>2. (turn + 1) % Wrap \in 0..Wrap - 1
      BY <3>1, Remainder
    <3> QED BY <2>1, <3>1, <3>2
  <2>4. counts' \in [Names -> Count]
    <3>1. Pooled[p].name \in Names /\ counts \in [Names -> Count]
      BY <2>2, FirstProvider DEF TypeOK
    <3>2. [counts[Pooled[p].name] EXCEPT !.requests = @ + 1] \in Count
      BY <3>1 DEF Count
    <3>3. counts' = [counts EXCEPT ![Pooled[p].name] =
                       [counts[Pooled[p].name] EXCEPT !.requests = @ + 1]]
      BY <2>1, <3>1
    <3> QED BY <3>1, <3>2, <3>3
  <2>5. served' \in [Kinds -> [calls : Nat, by : Providers, among : SUBSET Providers]]
    BY <2>1, <2>2 DEF TypeOK, Eligible
  <2> QED BY <2>1, <2>2, <2>3, <2>4, <2>5 DEF TypeOK
<1>2. ASSUME NEW c \in Callers, NEW kind \in Kinds, SelectFails(c, kind) PROVE TypeOK'
  BY <1>2 DEF TypeOK, SelectFails
<1>3. ASSUME NEW c \in Callers, Answers(c) PROVE TypeOK'
  <2>1. call' \in [Callers -> [pc : {"free", "waiting", "refused", "panicked"},
                               kind : Kinds, at : Providers]]
    BY <1>3, FirstProvider DEF TypeOK, Answers, Release, Free, Kinds
  <2>2. NameOf(c) \in Names
    BY FirstProvider DEF TypeOK, NameOf
  <2>3. counts \in [Names -> Count] /\ counts[NameOf(c)] \in Count
    BY <2>2 DEF TypeOK
  <2>4. /\ [counts[NameOf(c)] EXCEPT !.successes = @ + 1] \in Count
        /\ [counts[NameOf(c)] EXCEPT !.failures = @ + 1] \in Count
    BY <2>3 DEF Count
  <2>5. \/ counts' = [counts EXCEPT ![NameOf(c)] =
                        [counts[NameOf(c)] EXCEPT !.successes = @ + 1]]
        \/ counts' = [counts EXCEPT ![NameOf(c)] =
                        [counts[NameOf(c)] EXCEPT !.failures = @ + 1]]
    BY <1>3, <2>2, <2>3 DEF Answers
  <2>6. counts' \in [Names -> Count]
    BY <2>2, <2>3, <2>4, <2>5
  <2> QED BY <1>3, <2>1, <2>6 DEF TypeOK, Answers
<1>4. ASSUME NEW c \in Callers, Dropped(c) PROVE TypeOK'
  <2>1. call' \in [Callers -> [pc : {"free", "waiting", "refused", "panicked"},
                               kind : Kinds, at : Providers]]
    BY <1>4, FirstProvider DEF TypeOK, Dropped, Release, Free, Kinds
  <2>2. lost \in [Names -> Nat] /\ NameOf(c) \in Names
        /\ lost' = [lost EXCEPT ![NameOf(c)] = @ + 1]
    BY <1>4, FirstProvider DEF TypeOK, Dropped, NameOf
  <2>3. lost' \in [Names -> Nat]
    BY <2>2
  <2> QED BY <1>4, <2>1, <2>3 DEF TypeOK, Dropped
<1>5. ASSUME Probe PROVE TypeOK'
  <2>1. PICK ms \in Latencies \union (IF up[sweep.at] THEN {} ELSE {latency[sweep.at]}) :
          sweep' = [sweep EXCEPT !.answer = [pc |-> "answered", well |-> up[sweep.at],
                                             ms |-> ms]]
    BY <1>5 DEF Probe
  <2>2. ms \in Nat /\ up[sweep.at] \in BOOLEAN
    BY BoundsAssumption DEF TypeOK
  <2> QED BY <1>5, <2>1, <2>2 DEF TypeOK, Probe
<1>6. ASSUME Store PROVE TypeOK'
  <2>1. After(sweep.at) \in Providers
    BY ProvidersAreNumbers DEF TypeOK, After
  <2> QED BY <1>6, <2>1 DEF TypeOK, Store, NoAnswer
<1>7. ASSUME NEW p \in Providers, Turns(p) PROVE TypeOK'
  BY <1>7 DEF TypeOK, Turns
<1>8. CASE UNCHANGED vars
  BY <1>8 DEF TypeOK, vars
<1> QED BY <1>1, <1>2, <1>3, <1>4, <1>5, <1>6, <1>7, <1>8 DEF Next

-----------------------------------------------------------------------------
(* Statistics.                                                              *)

LEMMA InitAccounts == Init => CallsAccounted
<1> SUFFICES ASSUME Init, NEW n \in Names PROVE Cardinality(UnderWay(n)) = 0
  BY DEF Init, CallsAccounted
<1>1. UnderWay(n) = {}
  BY DEF Init, UnderWay, Waits, Free
<1> QED BY <1>1, FS_EmptySet

LEMMA NextAccounts == IInv /\ [Next]_vars => CallsAccounted'
<1> SUFFICES ASSUME IInv, [Next]_vars, NEW n \in Names
             PROVE  counts'[n].requests = counts'[n].successes + counts'[n].failures
                                          + lost'[n] + Cardinality(At(call', n))
  <2>1. \A m : UnderWay(m)' = At(call', m)
    BY DEF UnderWay, At, Waits, NameOf
  <2> QED BY <2>1 DEF CallsAccounted
<1>1. /\ counts \in [Names -> Count] /\ lost[n] \in Nat
      /\ counts[n].requests \in Nat /\ counts[n].successes \in Nat
      /\ counts[n].failures \in Nat
  BY DEF IInv, TypeOK, Count
<1>2. counts[n].requests = counts[n].successes + counts[n].failures
                           + lost[n] + Cardinality(At(call, n))
  BY UnderWayIs DEF IInv, CallsAccounted
<1>3. ASSUME NEW c \in Callers, NEW kind \in Kinds, Select(c, kind)
      PROVE  counts'[n].requests = counts'[n].successes + counts'[n].failures
                                   + lost'[n] + Cardinality(At(call', n))
  <2>1. PICK p \in Choices(kind) :
          /\ call' = [call EXCEPT ![c] = [pc |-> "waiting", kind |-> kind, at |-> p]]
          /\ counts' = [counts EXCEPT ![Pooled[p].name].requests = @ + 1]
          /\ lost' = lost
    BY <1>3 DEF Select
  <2>2. call[c].pc # "waiting" /\ call'[c].pc = "waiting" /\ call'[c].at = p
        /\ \A x \in Callers \ {c} : call'[x] = call[x]
    BY <1>3, <2>1 DEF Select, May, IInv, TypeOK
  <2>3. counts'[n] = IF Pooled[p].name = n
                     THEN [counts[n] EXCEPT !.requests = @ + 1] ELSE counts[n]
    BY <1>1, <2>1
  <2>4. /\ Cardinality(At(call, n)) \in Nat
        /\ Cardinality(At(call', n)) =
             IF Pooled[p].name = n THEN Cardinality(At(call, n)) + 1
             ELSE Cardinality(At(call, n))
    BY <2>2, OneMore
  <2>5. CASE Pooled[p].name = n
    <3>1. /\ counts'[n].requests = counts[n].requests + 1
          /\ counts'[n].successes = counts[n].successes
          /\ counts'[n].failures = counts[n].failures
      BY <1>1, <2>3, <2>5 DEF Count
    <3> QED BY <1>1, <1>2, <2>1, <2>4, <2>5, <3>1
  <2>6. CASE Pooled[p].name # n
    BY <1>2, <2>1, <2>3, <2>4, <2>6
  <2> QED BY <2>5, <2>6
\* A caller is released: it was one of those under way.
<1>4. ASSUME NEW c \in Callers, Waits(c), Release(c)
      PROVE  /\ Cardinality(At(call', n)) \in Nat
             /\ Cardinality(At(call, n)) =
                  IF NameOf(c) = n THEN Cardinality(At(call', n)) + 1
                  ELSE Cardinality(At(call', n))
  <2>1. call[c].pc = "waiting" /\ call'[c].pc # "waiting"
        /\ \A x \in Callers \ {c} : call'[x] = call[x]
    BY <1>4 DEF Waits, Release, Free, IInv, TypeOK
  <2> QED BY <2>1, OneMore DEF NameOf
<1>5. ASSUME NEW c \in Callers, Answers(c)
      PROVE  counts'[n].requests = counts'[n].successes + counts'[n].failures
                                   + lost'[n] + Cardinality(At(call', n))
  <2>1. Waits(c) /\ Release(c) /\ lost' = lost
    BY <1>5 DEF Answers
  <2>2. CASE NameOf(c) # n
    <3>1. counts'[n] = counts[n]
      BY <1>1, <1>5, <2>2 DEF Answers
    <3> QED BY <1>2, <1>4, <2>1, <2>2, <3>1
  <2>3. CASE NameOf(c) = n
    <3>1. /\ counts'[n].requests = counts[n].requests
          /\ \/ /\ counts'[n].successes = counts[n].successes + 1
                /\ counts'[n].failures = counts[n].failures
             \/ /\ counts'[n].successes = counts[n].successes
                /\ counts'[n].failures = counts[n].failures + 1
      BY <1>1, <1>5, <2>3 DEF Answers, Count
    <3> QED BY <1>1, <1>2, <1>4, <2>1, <2>3, <3>1
  <2> QED BY <2>2, <2>3
<1>6. ASSUME NEW c \in Callers, Dropped(c)
      PROVE  counts'[n].requests = counts'[n].successes + counts'[n].failures
                                   + lost'[n] + Cardinality(At(call', n))
  <2>1. Waits(c) /\ Release(c) /\ counts' = counts
    BY <1>6 DEF Dropped
  <2>2. lost'[n] = IF NameOf(c) = n THEN lost[n] + 1 ELSE lost[n]
    BY <1>6 DEF Dropped, IInv, TypeOK
  <2> QED BY <1>1, <1>2, <1>4, <2>1, <2>2
\* The other steps change no counter and nobody's waiting.
<1>7. ASSUME counts' = counts, lost' = lost, At(call', n) = At(call, n)
      PROVE  counts'[n].requests = counts'[n].successes + counts'[n].failures
                                   + lost'[n] + Cardinality(At(call', n))
  BY <1>2, <1>7
<1>8. ASSUME NEW c \in Callers, NEW kind \in Kinds, SelectFails(c, kind)
      PROVE  counts' = counts /\ lost' = lost /\ At(call', n) = At(call, n)
  <2>1. call[c].pc # "waiting" /\ call'[c].pc # "waiting"
        /\ \A x \in Callers \ {c} : call'[x] = call[x]
    BY <1>8 DEF SelectFails, May, IInv, TypeOK
  <2> QED BY <1>8, <2>1 DEF SelectFails, At
<1>9. ASSUME Probe \/ Store \/ (\E p \in Providers : Turns(p)) \/ UNCHANGED vars
      PROVE  counts' = counts /\ lost' = lost /\ At(call', n) = At(call, n)
  BY <1>9 DEF Probe, Store, Turns, vars, At
<1> QED BY <1>3, <1>5, <1>6, <1>7, <1>8, <1>9 DEF Next

-----------------------------------------------------------------------------

\* The types of the pool's state, and the accounts, are an inductive invariant.
THEOREM PoolInvariant == Spec => []IInv
<1>1. Init => IInv
  BY InitType, InitAccounts DEF IInv
<1>2. IInv /\ [Next]_vars => IInv'
  BY NextType, NextAccounts DEF IInv
<1> QED BY <1>1, <1>2, PTL DEF Spec

\* Every variable keeps its type: providers that are chosen, asked or recorded
\* are providers of the pool.
THEOREM PoolTypeCorrect == Spec => []TypeOK
<1>1. IInv => TypeOK
  BY DEF IInv
<1> QED BY <1>1, PoolInvariant, PTL

\* What LlmPool counts adds up for any providers and any number of tasks.
THEOREM EveryCallIsAccounted == Spec => []CallsAccounted
<1>1. IInv => CallsAccounted
  BY DEF IInv
<1> QED BY <1>1, PoolInvariant, PTL
=============================================================================
