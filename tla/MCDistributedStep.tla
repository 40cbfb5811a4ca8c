------------------------- MODULE MCDistributedStep -------------------------
EXTENDS DistributedStep

CONSTANTS ps, wk, s1, s2

MCWorkers == {ps, wk}

MCSteps == {s1, s2}

\* A parameter server feeds a worker, from which the client fetches.
MCEdges == {<<ps, wk>>}

MCFed == {ps}

MCFetching == {wk}

\* One step on both workers, or two steps at a time on one of them.
MCSetups == {[parts |-> {ps, wk}, steps |-> {s1}, faults |-> 1],
             [parts |-> {wk}, steps |-> {s1, s2}, faults |-> 1]}

\* One step on both workers.
MCTwoWorkers == {[parts |-> {ps, wk}, steps |-> {s1}, faults |-> 1]}

=============================================================================
