# A TLA+ verification of TensorFlow's runtime

These modules model the concurrent core of the TensorFlow runtime in
`Official source file/tensorflow/` (paths below are relative to it): the code
that decides in which order kernels run, that lets them wait for each other,
for messages, for queue elements, for memory and for cancellation, and that has
to end a step exactly once, whatever fails in the meantime.  TLC checks the
models on small instances; for all of the components but the executor the TLA+
proof system proves safety properties for every instance, and for the queue that it
implements its abstract specification.

Contents: [Inventory](#inventory), [Plan](#plan),
[Modules and code](#modules-and-code), [Runs](#runs), [Bounds](#bounds),
[Fairness](#fairness), [Proofs](#proofs),
[What is only model-checked](#what-is-only-model-checked),
[What is not modelled](#what-is-not-modelled),
[Disagreements found](#disagreements-found).

## Inventory

The repository holds TensorFlow (C++ runtime, kernels, Python client, Go and C
interfaces, TensorBoard, contributed packages) and a few course exercises.  A
client builds a graph and runs *steps* of it.  A step goes through these parts:

```
   client --Run--> DirectSession  (or MasterSession -> workers' GraphMgr)
                       |  one Executor per device, one Rendezvous per step,
                       |  one CancellationManager per session or step
                       v
                ExecutorBarrier <--WhenDone-- Executor (one per device)
                       |                         |  Process, PropagateOutputs
              StartAbort on error                |  on the threads of a pool
                       v                         v
                  Rendezvous <--Send/RecvAsync-- kernels --Try*--> Queues
                                                            |
                        CancellationManager <--Register/Deregister
```

| Part | State it keeps | Operations | What is hard |
|---|---|---|---|
| Cancellation manager (`core/framework/cancellation.*`) | two flags, the next token, the table of callbacks, a notification | `StartCancel`, `get_cancellation_token`, `RegisterCallback`, `DeregisterCallback`, `IsCancelled` | callbacks run without the lock while their owners complete and are freed; `DeregisterCallback` blocks |
| Queues (`core/kernels/queue_base.*`, `fifo_queue.cc`) | elements, `closed_`, two lists of attempts | `TryEnqueue(Many)`, `TryDequeue(Many)`, `Close`, `Cancel`, `FlushUnlocked` | any thread completes the attempts of all others; partial batches; closing; cancellation callbacks that flush; capacity |
| Rendezvous (`core/framework/rendezvous.*`) | a table of items (message or waiter), a status | `Send`, `RecvAsync`, `StartAbort` | the two sides come in any order, are duplicated, race with the abort; reference counts of device contexts |
| Executor (`core/common_runtime/executor.cc`, `pending_counts.h`) | frames, iterations in circular buffers, counts per node, `num_outstanding_ops_`, status | `RunAsync`, `Process`, `NodeDone`, `PropagateOutputs`, `ScheduleReady`, `Finish` | loops that run several iterations at once, dead branches, garbage collection of iterations that are read without the lock, a counter that is updated outside of it, kernels that fail |
| Executor barrier (`core/common_runtime/executor.h`) | `pending_`, first error, the step's callback | `WhenDone` | deletes itself; aborts the rendezvous outside of the lock, which its owner may free |
| Direct session (`direct_session.cc`) | executors by signature, partial runs, session-wide cancellation manager | `Run`, `PRunSetup`, `PRun`, `Close`, `Extend` | timeouts that cancel other steps, failures before the executors start, steps that outlive the call, closing and destroying under running steps |
| Barrier (`barrier_ops.cc`) | incomplete keys, a ready queue, two kinds of closed | `TryInsertMany`, `TryTakeMany`, `Close` | closing while keys are incomplete; two locks, and callbacks that run under one of them |
| Other queues (`priority_queue.cc`, `random_shuffle_queue_op.cc`, `padding_fifo_queue.cc`) | heap, shuffle buffer, padding | as the FIFO queue | `min_after_dequeue` against closing |
| BFC allocator and allocator retry (`bfc_allocator.*`, `allocator_retry.*`) | chunks, bins, regions; waiting threads | `AllocateRaw`, `DeallocateRaw`, merging, retry with a deadline | fragmentation, growth that the device refuses, a deadline that races with a release |
| Resource manager | containers of counted resources | `Lookup`, `LookupOrCreate`, `Delete`, `Cleanup` | use after clean-up |
| Distributed runtime (`core/distributed_runtime/`) | remote rendezvous per step, graph registrations, master sessions with step counts | `RunStep`, `CloseSession`, `RegisterGraph`, `RunGraph`, `RecvTensor`, `CleanupGraph`, `DeregisterGraph` | workers that crash and come back, calls that are lost or late, cancellations that arrive before or after what they are to cancel, receives before the worker knows the step |
| Placement, partitioning, optimization, functions | one graph | transformations | sequential |
| GPU runtime, stream executor | events, pools, streams | polling, callbacks | needs the driver's semantics |
| Kernels | tensors | `Compute` | numerical |
| Python training loop (`python/training`) | threads, stop flag, exceptions, checkpoints | `request_stop`, `join`, `run`, `save` | threads that fail while others wait |
| Python client, C/C++/Go interfaces, TensorBoard, `contrib`, examples, `HW3` | | | conversions, user programs |

What makes each modelled part correct:

* *Cancellation manager*: no callback runs for an operation whose
  `DeregisterCallback` has returned, whose result tells truthfully whether
  the callback was run; every callback that was registered when the
  cancellation starts is run once; nobody blocks forever.
* *Queue*: elements leave in the order in which they entered, none is lost,
  duplicated or put back in the wrong place; each operation's callback is
  called once; no operation waits for something that is already there; closing
  is final and ends everything; cancelling ends what uses that manager.
* *Rendezvous*: a receive gets the message of its key and nothing else, once;
  each callback is called once; neither side is left waiting beside the other;
  references balance.
* *Executor*: whatever the interleaving, the step executes the instances of
  the nodes that the graph calls for, live or dead as the graph says, each once
  and with its inputs; its bookkeeping is alive while it is used, bounded, and
  deleted exactly when nobody will use it; the step ends.
* *Executor barrier*: the first error is reported, once, after all executors;
  the rendezvous is aborted once; nothing is used after it is freed.
* *Direct session*: no step uses the session or its own `RunState` after it has
  been freed; a result of OK means that the step's outputs are all there and
  nothing failed; a partial run's books say what has been fed and fetched;
  closing the session, or the timeout, ends every call that would otherwise
  wait.
* *Barrier*: every inserted component is in one place, or the call that lost it
  says so; a take delivers whole tuples, as many as it promises, oldest first; a
  close that cancels answers everybody.
* *Allocator*: the chunks tile the regions, no two clients own the same bytes,
  free neighbours are merged and findable; an attempt fails only when nothing
  fits and the limit or the device leaves no more; an allocation that waits returns when its deadline is over.
* *Distributed runtime*: `RunStep` reports a success only if every partition has
  ended well; nothing is freed while a callback needs it; whatever crashes or is
  lost, calls return; a step that succeeded leaves nothing on the workers, and
  one that is cancelled ends there.

`PROJECT.json` lists all components, and under `hazards` the places of the code
that are hard to test, with the properties that would notice a mistake there.

## Plan

1. *Done.* `Cancellation`, `CancellationManager` with proofs; `FIFOQueue` over
   it, with `AbstractQueue` as what it implements; `LocalRendezvous` with
   proofs; `DataflowGraph` and `Executor`; `ExecutorBarrier` with proofs.
2. *Done.* `DirectSession`: `Run`, `PRunSetup`, `PRun`, `Close`, the destructor.
3. *Barrier and the other queues*: `Barrier` over the `PriorityQueue` that it
   uses is done.  Left: `RandomShuffleQueue` with `min_after_dequeue`; tuples of
   several components, one of which cannot be allocated.
4. *Allocators and resources*: `BFCAllocator` with `AllocatorRetry` is done.
   Left: `ResourceMgr`.
5. *Done.* *Distributed runtime*: `DistributedStep`, the master, `GraphMgr` and
   the rendezvous of a step on its workers, with crashes, lost calls and
   cancellation.  Left: several graphs per session and `ExtendSession`.
6. *Python*: `Coordinator` and `QueueRunner`; rotation of checkpoints.
7. *Theorems*: done for the cancellation manager, the rendezvous, the executor
   barrier, the queue with its refinement, the session, the barrier of tensors
   (`TakesWhole`, `ValuesKept`), the allocator (`MemorySound`,
   `FailsOnlyWhenFull`, the limit) and the distributed runtime (`TruthfulStep`,
   `StateOutlived`).  Left: for the executor the part of `OutstandingExact` that
   does not depend on what the folds over the frames compute.

## Modules and code

Each thread that may be inside a function is a process with a program counter.
A section of code under a lock is one step (or, in the queue's flush, one step
per attempt, with the lock as a variable); what happens after the lock is
released is a later step.  Definitions keep the names of the functions and
members they stand for, without the trailing underscore.  Comments that begin
with *Mutant* mark definitions that state a plausible mistake: they are not part
of any specification and serve to test that the properties would notice it.

### Cancellation, CancellationManager

`Cancellation` has the manager's members as a record and each method's effect
on it, so that the queue can use it too.  In `CancellationManager` several
threads call `StartCancel` and each operation takes a token, registers,
runs and deregisters.  `StartCancel` is five kinds of steps: the critical
section that swaps the table out (`StartCancel`), `CallbackBegins` and
`CallbackReturns` for each callback, the second critical section
(`CallbacksDone`), and `Notify`.  `DeregisterCallback` is one step if it need
not wait and otherwise two (`Deregister`, `WaitForNotification`).

### FIFOQueue, AbstractQueue

`FIFOQueue` has `queues_`, `closed_` and the two lists of attempts, the
attempts themselves with the status of their contexts, and one cancellation
manager per session.  `Emplace` is the part of `TryEnqueue(Many)` and
`TryDequeue(Many)` before the flush; `Lock` to `DequeuePhaseEnds` are the runs
of the attempts inside `FlushUnlocked`, one step each (`PushElements`,
`TakeElements`, `TakeRemaining`, `InsufficientElements`, `RunClose`,
`SkipCancelled...`); `CleanUp`, `WaitForNotification` and `Finish` are what
follows the release of the lock.  `StartCancel`, `Cancel`, `CallCancelled`,
`CallbacksDone` and `Notify` are the thread that cancels a manager.  The
components of a tuple move together, so the sub-queues are one sequence; an
element is named by the operation and its index in the batch.

`AbstractQueue` is a sequence that grows at one end while it is open and
shrinks at the other.  `FIFOQueue` implements it with the elements that a
waiting `DequeueMany` has collected counted as still inside: that is what
makes giving them back invisible.

### LocalRendezvous

The table maps hashes to items.  `SendStores`, `SendToWaiter`, `SendDuplicated`
and `SendAborted` are the ways through `Send`'s critical section, `NotifyWaiter`
the callback after it; likewise `RecvStored`, `RecvWaits`, `RecvDuplicated`,
`RecvAborted` and `RecvDelivers`; `StartAbort` swaps the table out and
`AbortItem` calls back the waiters one by one.  Every call brings a device
context, and `refs` counts the references to it.

### DataflowGraph, Executor

`DataflowGraph` has the graph (kinds of nodes and edges, as
`ExecutorImpl::Initialize` and the partitioner leave them) and, apart from the
executor, the equations that say which instances of nodes a step should execute
and which are dead: an instance is due, live or dead, because of what arrives
through its edges.  `Executor` has `ExecutorState`: frames and iterations with
the counts of `PendingCounts`, threads inside `Process` with their inline
queues, the closures given to the runner and the running asynchronous kernels.
`ActivateNode`, `IncrementIteration`, `AddLoopInv`, `CleanupFramesIterations`
and `PropagateNext`/`Exit`/`Enter` are operators on the frames, applied in one
step by `Propagate`, as the code does under `mu_`.  `NodeDone`, which updates
`num_outstanding_ops_` without the lock, is a step of its own, and so is the
abort of the rendezvous.  Values are reduced to whether they are there; a
`Switch` takes the branch, and a loop does the number of trips, that the step's
`feed` says.

### ExecutorBarrier

`Account` is `WhenDone` under its lock; `StartAbort`, `Unref` and `Finish` are
the rest.  `Succeeds` and `Fails` are the executors as the barrier sees them:
one may need the tensors of others, and then ends only after them or when the
rendezvous is aborted.  `Release` is the session's, which frees the rendezvous
once the callback has been called.

### DirectSession

The threads are those inside `Run`, the client of each partial run, a thread
that closes the session and the one that destroys it.  Several `Run`s may be
concurrent (`session.h:76`); a partial run's handle has one client thread,
because the interface promises nothing else for `PRun`.  `Close` concurrent with
`Run` comes from `DirectSessionFactory::Reset`; `session.h:79` forbids it to
users.  A call is a sequence of steps between the sections under
`executor_lock_` and `graph_def_lock_`: `Enter`, `FindExecutors`,
`CreateExecutors`, `InsertExecutors`, then `StartRun` or `StartPartialRun`,
`WaitForNotification` or `TimeOut` and `TimeOutCancels`, `Collect`, `CountStep`,
`AbortStep`, `EndCall`.  `PRun` is `BeginPRun`, `LookUpRun`, `CheckFetch`,
`SendInputs`, `Receive`, `FinishPRun`.  `run_state` is the `RunState` of the
step together with what the session sees of its rendezvous.  The executors are
the steps `SendOutput`, `StepFails` and `StepEnds`, followed by the callback
that the session gave them (`UpdateStatus`, `Notify`).  Steps of some
signatures wait for a queue, which steps of others fill, so that a timeout or a
cancellation can be the only way out.

### Barrier

Two locks, `mu` and `queue_mu`; the calls are processes.  `TryInsertMany`,
`TryTakeMany` and `Close` are the sections under `mu`.  The first takes the lock
and then each of its keys is a step (`InsertOneLocked`, or `InsertFails` for the
first that is refused) until `InsertEnds` lets go of it; `EmplaceEnqueue`, `EmplaceDequeue` and
`EmplaceClose` add to the lists of the ready queue; `Flush`, `RunEnqueue`,
`RunDequeue` and `FlushEnds` are the flush, which any thread runs for all;
`Finish` calls a callback that the flush has completed, on the flushing thread,
and `Return` ends the call.  The callback of an insert locks `mu`.  An element
of the ready queue is a key with its index, and the value of each component is
the insert that brought it with the position of the key in its arguments, so
that a key named twice by one call brings two values.  What a call holds when it
fails stays in its `tuples` or `got`, which the code frees with the call, and
`dropped` is a history of what a `Close` that cancels has thrown away: so each
loss can be laid to the call that caused it.

### BFCAllocator

The members behind `lock_` are one record, and each private method is an
operator on it (`SplitChunk`, `Merge`, `FreeAndMaybeCoalesce`, `FindChunkPtr`,
`TakeChunk`, ...).  `DeallocateRaw` is one step, as it is under the lock, and so
is an attempt of `AllocateRawInternal` (`Attempt`) as far as the two loops of
`Extend`: a round of the loop that doubles the size of the next region
(`DoubleRegion`), or of the one that asks the device for less (`AskForLess`), is a
step, with `lock_` held (`Locked`) and the locals in `loop`.  `bfc.deleted` is a
history, the chunk records given back in their order, which the list threaded
through the array has to hold.  Sizes are the code's bytes: chunks
of multiples of 256, 21 bins, a first region of 1 MiB.  The device is external:
it gives memory until it has none left.  `AllocatorRetry` is the stages of a
client: the attempt before the loop, the first in the loop, the wait (with a
deadline that may expire at any moment), the retries, and the last attempt with
verbose failure.  `NotifyDealloc` wakes all who wait at that moment.

### DistributedStep

One session of a master and the steps that clients run in it.  `session` is the
`MasterSession` with its entry in `Master::sessions_`, `rcg` the
`ReffedClientGraph` with its reference count and its registration at each
worker, `worker` a worker's incarnation and its `GraphMgr`, and `step` what the
master and the workers have of each step: the `RunGraph` and `RecvTensor` calls,
the executors, and the rendezvous objects that `BaseRendezvousMgr` has made.

The master's side is `RunStep` (finds the session under `mu_`), `Run` with
`StartStep`, `RegisterGraph` and `RegisterPartitions`, `UseInitResult`, one
`RunGraphAsync` per partition, `RegisterCancel`, `WhenDone`, `RunPartitions`;
then `CleanupGraph` and, when the last reference goes, `DeregisterGraph`.
`CancelRunStep` is a client that gives up, `CloseSession`, `CloseCancels` and
`Close` the end of the session (`Reset` and the master's `GC` take the same
path).  The cancellation manager of the session is what `CancellationManager`
shows it to be: `StartCancel` reaches the steps that are registered, and
`RegisterCallback` refuses later ones.

The workers' side is `DoRunGraph` with `ExecuteAsync`, `RecvAsync`, `StartCall`,
`RecvDone` at the destination of a tensor, `DoRecvTensorRaw` at its source,
`Compute` and `Send` for the kernels, `RunAllDone` and `UnrefAll`, and
`RunGraphCancelled`, `RecvTensorCancelled`, `AbortLater` for cancellation.
`Create`, `FindOrCreate`, `StartAbort`, `AbortStep`, `Cleanup` are operators on
the state of a step, with the names of the methods.  The local rendezvous inside
(see `LocalRendezvous`) is the set of tensors sent and the requests that wait.

A call has a caller and a server.  The caller may see it end with the answer, or
with an error because it was cancelled, because the server crashed, or for no
reason that it can see; a server that has not answered learns of that later
(`RequestCancelled`), too early (before the callback is set: then it does
nothing), or never gets the request (`RequestLost`).  `Restart` is a crash: the
worker comes back at once with a new incarnation and no state.  A graph's handle
is the number that its `GraphMgr` has counted, which starts again after a
restart; a session has one graph, so it is the first number or none.  `RecvDone`
hands the tensor over and gives up the reference in one step; in the code
`RunAllDone` may come between the two, which changes none of the counts.

## Runs

| Run | Instance | Shows |
|---|---|---|
| `cancellation` | two `StartCancel`s, three operations | `NoCallbackOnFreedOp`, `DeregisterContract`, `CallbackRunsOnce`, `CancelCarriedThrough` |
| `fifo_queue_safety` | three operations of any kind, capacity one, one manager | `FIFOOrder` (with the bounds of the queue), `CallbackOnce`, `NoLostWakeup`, `WholeBatches`, refinement of `AbstractQueue` |
| `fifo_queue_liveness` | two sessions, cancelled independently, with and without component shapes | `BlockedCallsEnd` |
| `queue_cancel_reentry` | three operations of one session | *violated*: `CallbackLeavesManagerAlone` |
| `rendezvous` | two sends, three receives, two aborts, two keys | `DeliveredIntact`, `OneToOne`, `AnsweredOnce`, `SentReachesWaiter`, `RefsBalanced`, `WaiterAnswered` |
| `executor` | one of three graphs: a conditional, with a `Merge` that has a control input and a message that may be dead or never come; a loop with two variables and a loop invariant that may enter late; a loop in a loop in a branch that may not be taken. Kernels may fail | `OutstandingExact`, `InputsPresent`, `IterationsAlive` (and never more than `parallel_iterations`), `ExecutesGraph` (each instance once, live or dead as the graph says), `StepFinishes` |
| `executor_control_trigger` | a loop in a conditional, followed by a `ControlTrigger` | *violated*: `TriggersLive` |
| `executor_barrier` | four executors, three of which wait for another | `AbortedOnce`, `ReportsFirstError`, `NoUseAfterFree`, `StepEnds` |
| `direct_session` | `Run`s and a partial run of one session, with or without a timeout, a `Reset` and the owner's destructor | `StepOutlived`, `TruthfulRun`, `PartialRunBooks`, `CallsEnd` |
| `barrier` | inserts of two components of two keys, takes, closes of both kinds | `ValuesKept`, `TakesWhole`, `CancelAnswersAll` |
| `bfc_allocator` | three clients, a fixed pool or one that grows | `MemorySound`, `FailsOnlyWhenFull`, `AllocationReturns` |
| `distributed_step` | a step over a parameter server and a worker, or two steps at a time on one worker; one crash, failing call or failing kernel | `TruthfulStep`, `StateOutlived`, `CallsReturn`, `CleanedUp`, `CancelEndsWork` |

Most modules also define their type invariant `TypeOK`; the runs spend their time
on the others; it is a theorem (`TypeCorrect`) for all modules with proofs except
`DistributedStep`.

Each property is defined, with a sentence on the code it is about, at the end of
its module; `PROJECT.json` names for each one of a passing run a changed
definition that makes it fail.

Like the two runs marked *violated*, eight more configurations state what a
comment or a document says and the code does not do.  They are kept apart from the
runs, as a record of what the runs' properties make an exception for, and end with
a counterexample within a minute or so;
[Disagreements found](#disagreements-found) says what each shows.

| Configuration | Module | Property that TLC refutes |
|---|---|---|
| `BarrierCloseDoc.cfg` | `MCBarrier` | `ClosedBarrierAnswers` |
| `BarrierSmallBatchDoc.cfg` | `MCBarrier` | `SmallBatchDelivered` |
| `BarrierReadyQueueDoc.cfg` | `MCBarrier` | `ReadyQueueCloses` |
| `BFCExtendDoc.cfg` | `MCBFCAllocator` | `ExtendSatisfies` |
| `BFCScratchDoc.cfg` | `MCBFCAllocator` | `ScratchReturns` |
| `DistributedCloseDoc.cfg` | `MCDistributedStep` | `CloseReturns` |
| `DistributedAbortDoc.cfg` | `MCDistributedStep` | `AbortedRecvsEnd` |
| `DistributedCancelDoc.cfg` | `MCDistributedStep` | `CancelledWorkEnds` |

## Bounds

* *Calls*: every operation, sender, receiver and canceller calls once, so the
  cardinalities of the constants bound the behaviours.  Two cancellers and two
  aborters are enough for the race to be first, since only the first does
  anything.  Three queue operations allow one that waits, one that supplies it
  and one that closes or cancels; three receives on two keys allow a waiter, a
  duplicate and an unrelated call.
* *Queue*: capacity one, batches of up to two in and three out, so that an
  `EnqueueMany` does not fit, a `DequeueMany` collects in several pieces, and
  what it gives back exceeds the capacity.
* *Rendezvous*: `Tolerate` is FALSE, which is what every caller in the
  repository passes (`rpc_rendezvous_mgr.cc:43` among them); the proofs hold for
  both values.
* *Executor*: a loop of four iterations, two at a time, in a circular buffer of
  three slots, so slots are reused and iterations are deferred.  Two nested
  frames, of which the inner one exists for two outer iterations at once.
  `MaxDepth` and `Iterations` bound the instances that `Complete` looks at, and
  they exceed what any of the graphs reaches.
* *Barrier*: four executors: two that need the first one's tensors and one that
  needs those of one of them, so that an abort has to reach a chain.
* *Session*: `MCDirectSession` has three situations: a `Run` and a partial run
  that waits for elements the `Run` enqueues, without a timeout; the same with
  both waiting for elements that nobody enqueues, with a timeout; two `Run`s of
  one signature, which race to create its executors.  The partial run has two
  feeds and two fetches, so that it can be continued, overfed, or asked for what
  cannot be computed yet.
* *Barrier of tensors*: two keys of two components let a key be complete while
  the other is not, which is what decides between the two kinds of closing; two
  takes compete for them; two closes, the second of which cancels (293,432
  states).  A key named twice, and components that come one by one while a small
  batch waits, are situations of their own.
* *Allocator*: four situations: a pool of 1600 bytes and three sizes (200, 512
  and 700) that leave holes, where nobody retries; one of 1000 bytes with clients
  that all wait for each other; a limit of 4 MiB on a device of 2.5 MiB, where
  `Extend` has to double its region and to back off, with sizes (500000, 1200000
  and 1450000 bytes) that fit before a round of backing off and not after it, or
  both; a device of 2000 bytes, where it cannot back off far enough (181,911 states
  in all).  A client holds one block at a
  time; three blocks are what it takes to free one between two neighbours.
* *Distributed runtime*: two workers with a tensor from one to the other are
  what it takes for a worker to wait for another that fails, and for a crash on
  either end of a call; two steps on one worker share a registration, race to
  make it, and use the graph while it is dropped.  `faults` is one in both
  situations: one crash, one failing call or one failing kernel, at any moment,
  beside a client that may cancel and a session that may be closed, which are not
  counted.

## Fairness

Only threads that are inside a call are fair: a thread that can take its next
step eventually does (weak fairness), because the operating system schedules it
and its locks are held for bounded sections.  Nothing has to be called: no
operation has to arrive, nobody has to cancel, abort, close or fail.  For the
cancellation manager this includes that callbacks return: `cancellation.h`
forbids them to call the manager, and its callers to hold the locks they need.
In the executor, kernels return and messages that are sent
arrive; a message may also never be sent, and then only a failure ends the step,
as `StepFinishes` says.  In the session, executors and the timer run on;
kernels need not fail and the queue need not be filled.  In the barrier a call
that has begun goes on if its locks are free.  In the allocator threads go on
and time passes, but nobody has to free a block; the weak fairness of a thread is
written with `Ready` in place of `ENABLED`, which says the same (compared by TLC on
a small instance) and is cheaper to evaluate.  `lock_` is held over several steps
only in the loops of `Extend`, which a thread reaches finitely often, so weak
fairness is enough.  In the distributed runtime one condition covers all that threads,
completion queues and the network do by themselves (`Progress`) without spending
a fault: every behaviour is finite, so it says that they go on as long as they
can, and nothing that waits is ended by a failure which need not happen.  In particular every
call of gRPC ends for its caller when it is answered, when it is cancelled or
when its server is gone; nobody has to cancel, close, crash or fail.  For the executor, fairness is stated of the whole step
(something happens as long as something can); since a step is a finite
computation this is what the fairness of its threads amounts to.

Deadlock is checked in the executor and in the executor barrier, where `Rest`
is enabled only when the step is over or waits for a message that nobody sends.
In the other models all calls may have been made, so they may stop.

## Proofs

Proved with TLAPS for all finite or infinite sets of threads, operations, keys
and messages (the barrier: for every finite set of executors):

* `CancellationManagerProofs`: `TypeCorrect`, `FreedOpIsSafe`,
  `DeregisterIsTruthful`, `CallbacksRunOnce`, `CancelledMeansDone`.  None of
  the properties is inductive.  The invariant adds that at most one `StartCancel` is between its
  two critical sections and what the flags say about it (`FlagsInv`), that
  tokens are handed out once and known tokens are below the next one
  (`TokenInv`), and where the token of an operation can be at each point of the
  operation's life (`StageInv`): in the table, with the thread that cancels, or
  among those invoked.  The case that matters is the waiting `Deregister`: its
  token is pending or executing, and the notification comes after both.
* `LocalRendezvousProofs`: `TypeCorrect`, `MessagesIntact`, `PairsAreUnique`,
  `NoMissedMessage`, for either value of `tolerate_dup_recv`.  The invariant
  says what an item in the table means (`ItemInv`: the message of an accepted
  Send of this hash, or a receive that is waiting), what calls in progress hold
  (`CallInv`), that a waiting receive is in exactly one place - the table, a
  Send that is about to call it, or the abort's copy of the table (`WaitInv`) -
  and that without duplicates at most one receive of a key has or will get the
  message (`ClaimInv`).  On top of it a second invariant counts, for
  `CalledBackOnce` and `ContextsBalanced`: a callback has been called once when
  its receive is done and an abort forgets no waiting receive (`AnswerInv`),
  which contexts an item and a receive can have (`ContextInv`), and each
  context's references are the sizes of four sets, which every action changes
  by one element or moves to another owner (`CountInv`; that the sets are finite
  is part of it, not an assumption).  Assumption: no two keys of a step have the
  same hash, as the code takes for granted.
* `ExecutorBarrierProofs`: `TypeCorrect`, `AbortsOnce`, `FirstErrorReported`,
  `NothingUsedAfterFree`.  The invariant counts the outstanding calls
  (`CountInv`), says that one thread at most holds the callback and what it
  will pass on (`HolderInv`), that the status is OK as long as every finished
  executor was (`StatusInv`), that one thread at most is to abort (`AbortInv`),
  and that the references to the rendezvous are the session's and the aborting
  thread's (`RefInv`).

* `FIFOQueueProofs`: `TypeCorrect`, `ElementsInOrder`, `CalledOnce`,
  `NobodyForgotten`, `BatchesWhole`, `IsAQueue`, for any capacity, requests,
  operations and managers.  The invariant follows the callback of each operation
  from its list of attempts to the thread that has taken it and to its call, of
  which there is one (`CallbackInv`), says how much of its batch an attempt has
  and that a completed one has all of it or a closed queue (`AttemptInv`), that
  the lists are without repetition and only the front dequeue has begun to take
  elements (`ListInv`), who has the lock (`LockInv`), and what a thread has
  found out while it kept the lock (`FlusherInv`: a thread that runs the
  dequeues has left the enqueues stuck unless it will look again).  The last
  part is why no wakeup is lost: it takes the whole loop of `FlushUnlocked` into
  account, not one of its passes.  `IsAQueue` is the refinement of
  `AbstractQueue`, whose contents are the elements that a partial `DequeueMany`
  has taken followed by `queues_`.  Each action is shown to extend the two
  histories (`entered`, `consumed`) by what it puts in and takes out, and since
  `FIFOOrder` says that what entered is what was consumed followed by what is
  inside, the abstract action follows by cancelling a common prefix.
  Assumptions: the capacity is positive and a plain `Dequeue` asks for one
  element, as the constructor and the kernel have it.
* `DirectSessionProofs`: `TypeCorrect`, `StepSafe`, `RunTruthful`,
  `PartialRunsKept`, for any number of threads, signatures, feeds and fetches.
  The invariant says which places of the code the threads of each kind reach
  (`PlaceInv`) and, for each thread, how long its `RunState` and what the
  executors use of it live (`LifeInv`), what an error leaves behind
  (`ErrorInv`), what the result will be (`OutcomeInv`), and how the books of a
  partial run relate to the feeds sent and the fetches asked for (`BooksInv`).
  It is stated thread by thread, so an action is shown to keep the parts of its
  own thread and to leave the others untouched (`Untouched`).
* `DistributedStepProofs`: `StepTruthful`, for any workers, edges, graphs,
  steps and faults.  What RunStep returns rests on a chain of three processes:
  a partition ends well only with every tensor received, the worker answers OK
  only then, and the master counts only such answers.  The invariant (`Good`)
  says each link for each worker and tensor, in a form that survives crashes,
  lost calls and late answers.  All operations that can only lose something
  (aborts, cancellations, clean-up, restarts, references) satisfy one relation
  between the step's state before and after (`Kept`), which is transitive and
  keeps the invariant; the five that add to it have a proof of their own.
  `StateOutlives` is the count: the references of every rendezvous are what is
  `Owed` - one for the table, one for the execution that uses it, one for each
  abort under way, each request that waits at it and each call it has in flight
  - and while an operation is in the middle of its work, that and a few more
  (`Counts`, `Held`).  Every operation on a rendezvous is a lemma about this
  difference, and they add up to the actions.  The rest of `RefInv` is the same
  for the executions of a worker (`WorkerInv`), the steps of the session
  (`SessionInv`) and the registered graph (`GraphInv`).  Assumptions
  (`ConstantsAssumption`): edges lead from one worker to another, as receives
  within a worker are not modelled; there are finitely many; a graph has a
  partition on some worker.
* `BarrierProofs`: `TypeCorrect`, `TakesAreWhole`, `NoValueLost`, for any calls,
  keys and components.  The invariant says how far each call is and that its
  status is set once (`CallInv`, `InsertInv`), that a take still needs what it has
  not got, unless it may be small and the barrier is closed (`TakeInv`), that the
  lists are without repetition (`QueueInv`), that the values in a tuple were
  inserted for its key and component (`SourceInv`), that no two tuples share one,
  wherever they are (`ApartInv`), and that each value inserted is in some tuple,
  be it one that a failed call or a `Close` has lost (`KeptInv`).  `ApartInv` is what makes `KeptInv`
  inductive: when a tuple moves, nothing else can have held its values.
  Assumption: a barrier has a component, as its operation's definition requires.
* `BFCAllocatorProofs`: `AllocatorSound`, `RefusalsJustified`, `LimitRespected`,
  for every limit, device, number of clients and sizes.  The methods of the
  allocator pass through states in which the books are not in order: a chunk is
  out of its bin, or split, or merged away and its record not yet on the free
  list.  `Books(s, X)` says what holds then, with X the chunks in hand: what the
  handles find, that the live chunks lie apart in what the device gave and are
  linked with their neighbours, that each free chunk but those of X is in the bin of its
  size, that the free list holds the other records, and that the sums are right,
  counted in units of 256 bytes, of which each belongs to one chunk.  One lemma
  for each method says how X changes; an action begins and ends with none.
  `BFCInv` adds what a thread in a loop of `Extend` knows (`LoopsSound`), that the
  size of the next region is a whole number of units (`RegionSized`), and that the
  chunks in use are those of the clients that hold one (`OwnedBy`).
  `RefusalsJustified` needs that the search through the bins from that of the
  size upwards misses no chunk that would do (`NoCandidates`), that this is
  still so when a loop of `Extend` gives up, and that the device has then refused
  at most a round more than it is at (`LoopFull`).  A refusal is thus laid to the
  limit or to the device in this same attempt; what the device has refused earlier
  (`started_backpedal_`) counts only in so far as `Extend` does not back off again.  `LimitRespected`, that
  the regions never exceed `memory_limit_`, has no run: it is why the
  unsigned `available_bytes` (`bfc_allocator.cc`) does not wrap.

Each proof has one lemma per action, with a step per conjunct of the invariant
where an action disturbs several.  A remark for whoever changes the models:
`tlapm` 1.4.5 expands an `@` inside `[@ EXCEPT ...]` once too often, so the
modules with proofs name the record instead.

## What is only model-checked

Liveness under fairness (`BlockedCallsEnd`, `CallsReturn`, `AllocationReturns` and
their like): the proof system does not support it.  The executor: its bookkeeping
is written with folds over edges, iterations and frames, and what a fold computes
needs induction over data, which the proof system's back ends cannot do.

## What is not modelled

The parts in the inventory that the plan has not reached yet, and: tensors and
their copies, memory tracing, statistics and logging, reference edges and
reference-typed tensors in the executor, allocation failures in the middle of a
queue operation (`fifo_queue.cc:133` leaves the components of a tuple uneven),
in the distributed runtime receives within one worker, `CreateSession`,
`ExtendSession`, when `GC` closes a session, the workers' shutdown, statistics,
and errors that do not depend on other actors (`BuildGraph`, `CreateWorker`,
parsing of keys), `Create` and `Extend` of the direct session, its factory's list and its tracing, the
overflow of the barrier's `input_index_` and the cancellation of its attempts
by the session (the latter is modelled in `FIFOQueue`), the allocator's
visitors, statistics and destructor, the destruction of objects other than the
ones named above, the C++ memory model (atomics and locks are sequentially
consistent).  Kernels, placement, partitioning and graph optimization are
sequential or numerical; the GPU runtime needs the driver's semantics; file
formats and transports are I/O.

Of the code of the modelled components' files, `PROJECT.json` maps some 38 % to
definitions; the rest is mostly logging, validation, statistics and the
construction of executors and operations.  Of the main files of all the
components that it lists, modelled or not, that is about an eighth, and of the whole
repository about one percent: most of it is kernels, operation definitions and
wrappers of drivers, which have no control that a model could check.

## Disagreements found

* `queue_cancel_reentry`.  `cancellation.h` forbids callbacks to call their
  manager.  `QueueBase::Cancel`, which is such a callback, flushes the queue;
  the flush cleans up other operations that it has completed, and their clean-up
  calls `DeregisterCallback`.  If one of them uses the same manager, as all
  steps of a direct session do, the thread waits for its own notification.
* `executor_control_trigger`.  A `ControlTrigger` is meant to be live however
  dead its inputs are.  The code that propagates the dead exits of a finished
  loop is a copy of `ActivateNode` without that exception.

Refuted by TLC with a configuration of their own:

* `BarrierCloseDoc.cfg`.  `data_flow_ops.cc:1089` (`core/ops`) says that after
  `BarrierClose` takes succeed or fail at once.  `Barrier::Close` without
  cancelling closes the ready queue with `mu_` held (`barrier_ops.cc:414`).  The
  flush this causes can complete the insert of another thread, which has emplaced
  its attempt and not yet flushed it; the insert's callback (`:184`) then locks
  `mu_` on the thread that already holds it, and no call of the barrier ever ends.
  `CancelAnswersAll` is about closes that cancel, whose callbacks do not lock.
* `BarrierReadyQueueDoc.cfg`.  `barrier_ops.cc:186` tests that the queue *is*
  closed where its comment (`:174`) wants that it is not: the insert that completes
  the last key of a closed barrier leaves the ready queue open, and a take that
  waits for more is left waiting.
* `BarrierSmallBatchDoc.cfg`.  `priority_queue.cc:296` says that a small batch of
  a closed queue gets as many elements as possible.  One whose attempt waits when
  the queue is closed takes those that are left, is run again by the flush, finds
  the queue empty and ends with OutOfRange (`:303`): the elements are gone.
  `ValuesKept` accepts this loss of this take and no other.
* `BFCExtendDoc.cfg`.  `bfc_allocator.h:302` says that a region that `Extend` adds
  satisfies the request.  The region is recorded with one round of backing off less
  than was granted (`bfc_allocator.cc:120`): of 1529088 bytes given for a request
  of 1450240, 1376256.  `Extend` returns true and the allocation fails.
* `BFCScratchDoc.cfg`.  `allocator.h:33` (`core/framework`) says that an
  allocation without retry returns immediately.  When the device refuses 2304
  bytes, nine units of 256, and less is asked for, the loop of the same line never
  ends: rounding up undoes the tenth it takes off.  `AllocationReturns` makes this
  exception, and shows that it needs a device that cannot give nine units.
* `DistributedCloseDoc.cfg`.  `master_service.proto:65` lets `CloseSession` reclaim
  the session's resources.  The first failure of a step cancels the calls that have
  been issued (`master_session.cc:612`); a `RunGraph` call issued after it, by the
  loop at line 697, is not cancelled, and its worker may wait for a tensor of the
  failed one.  Since the status is no longer OK, a later cancellation by the client
  or by `Close` does nothing either: `RunStep` and `Close` may never return.  This
  is the exception in `CallsReturn`.
* `DistributedAbortDoc.cfg`.  `rendezvous.h:109` says that an abort ends all
  pending receives, and `rpc_rendezvous_mgr.cc:120` that the start of a
  `RecvTensor` call checks for one.  It does not: a call that is aborted between
  `RegisterCall` and `Start` is sent all the same, and nothing can cancel it,
  because it is no longer in `active_`.  This is the exception in
  `CancelEndsWork`.
* `DistributedCancelDoc.cfg`.  `grpc_call.h:176` says that the callback is called
  if and when the call is cancelled, `grpc_worker_service.cc:412` that any
  cancellation while a request waits aborts its rendezvous.  A cancellation that is
  delivered before the handler has set its callback (`grpc_call.h:170`) is lost,
  and the worker waits for a call that nobody waits for.

Observed while modelling:

* After the ready queue of a barrier has been closed, a `Close` that cancels never
  runs its callback (`barrier_ops.cc:413`).

* With `tolerate_dup_recv` a duplicate `RecvAsync` that arrives while the first
  still waits succeeds at once, with an empty tensor.  No caller sets it.
* `IsCancelled` becomes true at the end of `StartCancel`
  (`cancellation.cc:49`), not at its beginning as `cancellation.h:55` says.
* `pending_counts.h:87` asserts that a starting node has nothing pending; a dead
  `Merge` starts earlier.  It matters with verbose logging only.
* `executor.cc:969` returns without deleting the state of the step.
  The status
  declared at `executor.cc:1068` is not reset between the nodes of one
  `Process`: after a failure, a dead node reports its predecessor's error again.
* `PRun` receives its outputs without a timeout, although `config.proto` calls
  `operation_timeout_in_ms` a deadline for all blocking operations; and a
  partial run whose step then times out reports OK, with the error in the log.
* The timeout of one step cancels the manager of the whole session, so all other
  steps, and every later one, are cancelled too.  `Reset` keeps plain pointers
  to the sessions after it has released the lock of their list.
* `allocator_retry.cc`: a release between a failed attempt and the wait wakes
  nobody; the waiter then retries only at the next release or its deadline,
  although `allocator_retry.h:32` promises to retry on every release.
* `master.cc:306`: nothing holds the session between `RunStep` and the start of
  `Run`; `Close` may delete it in between (`RunOnDeleted`).
* `master_session.cc:1212`: a step that failed is not cleaned up on the workers,
  although `worker.proto:187` wants it cleaned up once all responses are in; its
  rendezvous stay in the tables.  `AbortStep` makes a new one if there is none.
* `master_session.cc:411`: a failed registration is kept as the result for every
  later step of that graph.  When a worker cannot be created the proxies are
  deleted (`:506`) and used again by the destructor (`:928`).
* `graph_mgr.cc:227`: handles are numbers that start again after a restart, so an
  old handle may name another graph.  With the one graph per session of the model
  there is no other to name.
