-------------------------- MODULE MCExecutorBarrier --------------------------
(* ExecutorBarrier for TLC. *)
EXTENDS ExecutorBarrier

CONSTANTS cpu, gpu0, gpu1, worker

\* The GPUs wait for the CPU, and the other worker for one of them.
Chain == [e \in Executors |-> CASE e = cpu -> {}
                                [] e \in {gpu0, gpu1} -> {cpu}
                                [] OTHER -> {gpu0}]
=============================================================================
