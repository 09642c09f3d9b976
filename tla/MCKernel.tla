------------------------------ MODULE MCKernel ------------------------------
EXTENDS Kernel, TLC

CONSTANTS a, b, c

\* c joins a and b; b may be retried.
ForkJoin == [steps |-> {a, b, c},
             pos   |-> (a :> 1) @@ (b :> 2) @@ (c :> 3),
             deps  |-> (a :> {}) @@ (b :> {}) @@ (c :> {a, b}),
             max   |-> (a :> 1) @@ (b :> 2) @@ (c :> 1),
             direct |-> FALSE]

\* b and c wait for each other; a is free and may be retried.
Cyclic == [ForkJoin EXCEPT !.deps = (a :> {}) @@ (b :> {c}) @@ (c :> {b}),
                           !.max = (a :> 2) @@ (b :> 1) @@ (c :> 1)]

\* b depends on a step the plan does not have.
Dangling == [ForkJoin EXCEPT !.steps = {a, b},
                             !.deps = (a :> {}) @@ (b :> {c}) @@ (c :> {})]

\* a then b, each with two attempts.
Chain == [steps |-> {a, b},
          pos   |-> (a :> 1) @@ (b :> 2) @@ (c :> 3),
          deps  |-> (a :> {}) @@ (b :> {a}) @@ (c :> {}),
          max   |-> (a :> 2) @@ (b :> 2) @@ (c :> 1),
          direct |-> FALSE]

\* The planner answers without a step.
Direct == [ForkJoin EXCEPT !.steps = {}, !.direct = TRUE]

\* a and b use up their only attempt in one wave: two results may escalate.
Twins == [ForkJoin EXCEPT !.max = [s \in StepIds |-> 1]]

AllPlans == {ForkJoin, Cyclic, Dangling, Chain, Direct}
JustChain == {Chain}
EscalatingPlans == {ForkJoin, Chain, Twins}
=============================================================================
