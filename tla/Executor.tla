------------------------------ MODULE Executor -------------------------------
(***************************************************************************)
(* ExecutorState (core/common_runtime/executor.cc): one step over a graph. *)
(*                                                                         *)
(* A node instance is a tagged node <frame, iteration, node>, made ready   *)
(* once its inputs have arrived, live or dead.  Ready nodes are queued on  *)
(* the thread that made them ready (inline_ready) or given to the runner.  *)
(* PropagateOutputs holds mu_ for all its bookkeeping: the counts of the   *)
(* nodes, the frames and their iterations, which live in a circular buffer *)
(* per frame.  Kernels run without it, and num_outstanding_ops_ is an      *)
(* atomic counter; whoever takes it to 0 deletes the state and calls the   *)
(* step's callback.                                                        *)
(*                                                                         *)
(* Of a tensor the model keeps whether it is there (Entry::has_value).     *)
(***************************************************************************)
EXTENDS DataflowGraph

CONSTANTS ParallelIterations, \* the attribute parallel_iterations, per frame
          Expensive,          \* the nodes with an expensive kernel
          Async,              \* the nodes with an asynchronous kernel
          CanFail,            \* the nodes whose kernel may fail
          Null                \* no iteration, in a slot of the buffer

ASSUME ExecutorAssumption ==
    /\ \A g \in Feeds : RootNodes(g) # {}
    /\ \A n \in DOMAIN FrameName : ParallelIterations[FrameName[n]] \in Nat \ {0}
    /\ \A n \in Nodes : Kind[n] = "Recv" => n \in Async

VARIABLES feed,      \* the step's predicates and messages
          frames,    \* outstanding_frames_
          num_outstanding_ops,
          status,    \* status_
          rendezvous,
          pool,      \* tagged nodes given to the runner
          procs,     \* activations of Process, or of an asynchronous done
          launched,  \* tagged nodes whose asynchronous kernel is running
          deleted,   \* the ExecutorState has been deleted
          done,      \* the statuses that the step's callback was called with
          ran        \* history: the tagged nodes processed so far

state == <<frames, num_outstanding_ops, status>>
vars  == <<feed, state, rendezvous, pool, procs, launched, deleted, done, ran>>

-----------------------------------------------------------------------------
(* Frames and iterations.  Their operators work on st = [frames, ready]:   *)
(* the outstanding frames and the tagged nodes found to be ready.          *)

InitialPending ==
    [n \in Pruned(feed) |-> IF Kind[n] = "Merge"
                            THEN 1 + 2 * NumControlEdges[n]
                            ELSE Cardinality(InEdges[n])]

NewIteration(i) ==
    [iter                    |-> i,   \* ghost: which iteration it is
     pending                 |-> InitialPending,
     dead_count              |-> [n \in Pruned(feed) |-> 0],
     input                   |-> {},  \* the inputs that have a value
     outstanding_ops         |-> 0,
     outstanding_frame_count |-> 0]

NewFrame(max, slots, inputs) ==
    [max_parallel_iterations    |-> max,
     iteration_count            |-> 0,
     num_pending_inputs         |-> inputs,
     num_outstanding_iterations |-> 1,
     iterations                 |-> [s \in 0 .. slots - 1 |->
                                        IF s = 0 THEN NewIteration(0)
                                                 ELSE Null],
     next_iter_roots            |-> <<>>,
     inv_values                 |-> <<>>,
     dead_exits                 |-> <<>>]

Slot(frame, i)         == i % Cardinality(DOMAIN frame.iterations)
GetIteration(frame, i) == frame.iterations[Slot(frame, i)]

SetIteration(st, f, i, it) ==
    [st EXCEPT !.frames[f].iterations[Slot(st.frames[f], i)] = it]

\* The effect of an edge on its destination: the new counts, whether the
\* node is ready, whether it is dead, and whether it takes this input.
Effect(pending, dead_count, ready, dead, input) ==
    [pending |-> pending, dead_count |-> dead_count, ready |-> ready,
     dead |-> dead, input |-> input]

\* increment_dead_count does nothing once the node is ready.
PlusDead(it, n) == IF it.pending[n] > 0 THEN it.dead_count[n] + 1
                                        ELSE it.dead_count[n]

MergeControlEffect(it, n) ==
    LET count == it.pending[n] - 2
        dead  == it.dead_count[n] = NumInputs[n]
    IN Effect(count, it.dead_count[n], count = 0 \/ (count = 1 /\ dead),
              dead, FALSE)

\* Mutant: the input is kept only if the node can start with it.
MergeLiveEffectDrops(it, n) ==
    LET count == it.pending[n]
    IN Effect(count - (count % 2), it.dead_count[n], count = 1, FALSE,
              count = 1)

\* The low bit of pending says that no live input has arrived yet.
MergeLiveEffect(it, n) ==
    LET count == it.pending[n]
    IN Effect(count - (count % 2), it.dead_count[n], count = 1, FALSE,
              count % 2 = 1)

MergeDeadEffect(it, n, fromEnter) ==
    LET count == PlusDead(it, n)
        dead  == count = NumInputs[n] \/ fromEnter
    IN Effect(it.pending[n], count, it.pending[n] = 1 /\ dead, dead, FALSE)

PlainEffect(it, n, dead, input) ==
    LET count == IF dead THEN PlusDead(it, n) ELSE it.dead_count[n]
    IN Effect(it.pending[n] - 1, count, it.pending[n] - 1 = 0, count > 0,
              input)

\* Applies the effect of edge e, whose value is present or not, to its
\* destination, which is never dead if it is revived.
Deliver(st, f, i, e, eff, hasValue, revived) ==
    LET it == [GetIteration(st.frames[f], i) EXCEPT
                 !.pending[e.dst] = eff.pending,
                 !.dead_count[e.dst] = eff.dead_count,
                 !.input = IF eff.input /\ hasValue
                           THEN @ \cup {<<e.dst, e.input>>}
                           ELSE @,
                 !.outstanding_ops = IF eff.ready THEN @ + 1 ELSE @]
    IN [SetIteration(st, f, i, it) EXCEPT
           !.ready = IF eff.ready
                     THEN Append(@, TaggedNode(e.dst, f, i,
                                               eff.dead /\ ~revived))
                     ELSE @]

\* What the edge e from node n does to its destination; live: it has a value.
EdgeEffect(it, n, is_dead, e, live) ==
    CASE Kind[e.dst] = "Merge" /\ IsControlEdge(e) ->
            MergeControlEffect(it, e.dst)
      [] Kind[e.dst] = "Merge" /\ live ->
            MergeLiveEffect(it, e.dst)
      [] Kind[e.dst] = "Merge" /\ ~IsControlEdge(e) /\ ~live ->
            MergeDeadEffect(it, e.dst, Kind[n] = "Enter")
      [] Kind[e.dst] # "Merge" ->
            PlainEffect(it, e.dst, is_dead \/ (~IsControlEdge(e) /\ ~live),
                        ~IsControlEdge(e))

\* Activates the successors of a node; outs are the outputs with a value.
ActivateNode(st, n, is_dead, f, i, outs) ==
    FoldLeft(LAMBDA s, e :
                Deliver(s, f, i, e,
                        EdgeEffect(GetIteration(s.frames[f], i), n, is_dead, e,
                                   e.output \in outs),
                        e.output \in outs, Kind[e.dst] = "ControlTrigger"),
             st, OutEdges[n])

\* ActivateNexts and ActivateLoopInvs: values = <<node, live>>.
ActivateAll(st, f, i, values) ==
    FoldLeft(LAMBDA s, v : ActivateNode(s, v[1], ~v[2], f, i,
                                        IF v[2] THEN {0} ELSE {}),
             st, values)

\* The deferred values, and then the loop invariants, enter iteration i.
ActivateIteration(st, f, i) ==
    ActivateAll([ActivateAll(st, f, i, st.frames[f].next_iter_roots)
                    EXCEPT !.frames[f].next_iter_roots = <<>>],
                f, i, st.frames[f].inv_values)

IncrementIteration(st, f) ==
    LET next == st.frames[f].iteration_count + 1
    IN ActivateIteration(
          SetIteration(
             [st EXCEPT !.frames[f].iteration_count = next,
                        !.frames[f].num_outstanding_iterations = @ + 1,
                        !.frames[f].dead_exits = <<>>],
             f, next, NewIteration(next)),
          f, next)

AddLoopInv(st, f, n, live) ==
    FoldLeft(LAMBDA s, i : ActivateAll(s, f, i, <<<<n, live>>>>),
             [st EXCEPT !.frames[f].inv_values = Append(@, <<n, live>>)],
             [i \in 1 .. st.frames[f].iteration_count |-> i])

FindOrCreateChildFrame(st, f, i, n) ==
    LET child == Append(f, <<i, FrameName[n]>>)
        count == Cardinality({m \in Nodes : Kind[m] = "Enter" /\
                                            FrameName[m] = FrameName[n]})
        it    == GetIteration(st.frames[f], i)
    IN IF child \in DOMAIN st.frames
       THEN st
       ELSE LET st1 == SetIteration(st, f, i,
                          [it EXCEPT !.outstanding_frame_count = @ + 1])
                max == ParallelIterations[FrameName[n]]
            IN [st1 EXCEPT !.frames = (child :> NewFrame(max, max + 1, count)) @@ @]

IsFrameDone(frame) ==
    frame.num_pending_inputs = 0 /\ frame.num_outstanding_iterations = 0

\* Mutant: an iteration does not wait for the frames entered from it.
IsIterationDoneChildless(frame, i) ==
    /\ GetIteration(frame, i).outstanding_ops = 0
    /\ IF i = 0 THEN frame.num_pending_inputs = 0
                ELSE GetIteration(frame, i - 1) = Null

IsIterationDone(frame, i) ==
    /\ GetIteration(frame, i).outstanding_ops = 0
    /\ GetIteration(frame, i).outstanding_frame_count = 0
    /\ IF i = 0 THEN frame.num_pending_inputs = 0
                ELSE GetIteration(frame, i - 1) = Null

\* A deferred iteration starts in the place of one that has ended.
StartDeferred(st, f) ==
    IF st.frames[f].next_iter_roots # <<>> THEN IncrementIteration(st, f)
                                           ELSE st

DeleteIteration(st, f, i) ==
    IF i <= st.frames[f].iteration_count /\ IsIterationDone(st.frames[f], i)
    THEN StartDeferred(
            [SetIteration(st, f, i, Null)
                EXCEPT !.frames[f].num_outstanding_iterations = @ - 1], f)
    ELSE st

\* The while loop: an iteration that is not done keeps the later ones from
\* being done, and there is at most one deferred iteration.
DeleteIterations(st, f, i) ==
    FoldLeft(LAMBDA s, k : DeleteIteration(s, f, i + k - 1),
             st, [k \in 1 .. st.frames[f].iteration_count + 2 - i |-> k])

\* The dead exits of a frame that is done reach its parent.
DeadEdgeEffect(it, e) ==
    CASE Kind[e.dst] = "Merge" /\ IsControlEdge(e) ->
            MergeControlEffect(it, e.dst)
      [] Kind[e.dst] = "Merge" /\ ~IsControlEdge(e) ->
            MergeDeadEffect(it, e.dst, FALSE)
      [] OTHER -> PlainEffect(it, e.dst, TRUE, FALSE)

PropagateDeadExits(st, f, parent, i) ==
    FoldLeft(LAMBDA s, e :
                Deliver(s, parent, i, e,
                        DeadEdgeEffect(GetIteration(s.frames[parent], i), e),
                        FALSE, FALSE),
             st,
             FlattenSeq([x \in DOMAIN st.frames[f].dead_exits |->
                            OutEdges[st.frames[f].dead_exits[x]]]))

\* Deletes frame f, which was entered from iteration i of parent.
DeleteFrame(st, f) ==
    [st EXCEPT !.frames = [g \in DOMAIN @ \ {f} |-> @[g]]]

LeaveFrame(st, parent, i) ==
    SetIteration(st, parent, i, [GetIteration(st.frames[parent], i)
                                   EXCEPT !.outstanding_frame_count = @ - 1])

\* One call of CleanupFramesIterations.  c.up says whether it is made, and
\* then whether the parent is to be cleaned up too.
CleanupFrame(c, f) ==
    CASE ~c.up \/ ~IsFrameDone(c.st.frames[f]) -> [c EXCEPT !.up = FALSE]
      [] c.up /\ f = <<>> /\ IsFrameDone(c.st.frames[f]) ->
            [st |-> DeleteFrame(c.st, f), up |-> FALSE]
      [] c.up /\ f # <<>> /\ IsFrameDone(c.st.frames[f]) ->
            [st |-> LeaveFrame(DeleteFrame(
                       PropagateDeadExits(c.st, f, Front(f), Last(f)[1]), f),
                       Front(f), Last(f)[1]),
             up |-> TRUE]

\* It goes up from iteration i of f as long as frames are done.
CleanupFramesIterations(st, f, i) ==
    LET path == Append(f, <<i>>)
    IN FoldLeft(LAMBDA c, d :
                   CleanupFrame(
                      IF c.up
                      THEN [c EXCEPT !.st = DeleteIterations(
                               @, SubSeq(f, 1, d), path[d + 1][1])]
                      ELSE c,
                      SubSeq(f, 1, d)),
                [st |-> st, up |-> TRUE],
                [k \in 1 .. Len(path) |-> Len(path) - k]).st

\* FindOrCreateOutputFrameIter, and the activation of the successors there.
\* A NextIteration opens the next iteration, or is deferred if that would be
\* one too many.
PropagateNext(st, t, outs) ==
    LET frame  == st.frames[t.frame]
        newest == t.iter = frame.iteration_count
    IN IF /\ newest
          /\ frame.num_outstanding_iterations = frame.max_parallel_iterations
       THEN [st EXCEPT !.frames[t.frame].next_iter_roots =
                Append(@, <<t.node, 0 \in outs>>)]
       ELSE ActivateNode(IF newest THEN IncrementIteration(st, t.frame)
                                   ELSE st,
                         t.node, FALSE, t.frame, t.iter + 1, outs)

PropagateExit(st, t, outs) ==
    IF t.is_dead
    THEN IF t.iter = st.frames[t.frame].iteration_count
         THEN [st EXCEPT !.frames[t.frame].dead_exits = Append(@, t.node)]
         ELSE st
    ELSE ActivateNode(st, t.node, FALSE, Front(t.frame), Last(t.frame)[1],
                      outs)

\* Mutant: a loop invariant that enters late misses the running iterations.
PropagateEnterLate(st, t, outs) ==
    LET child == Append(t.frame, <<t.iter, FrameName[t.node]>>)
        st1   == FindOrCreateChildFrame(st, t.frame, t.iter, t.node)
        st2   == IF t.node \in IsConstant
                 THEN [st1 EXCEPT !.frames[child].inv_values =
                          Append(@, <<t.node, 0 \in outs>>)]
                 ELSE st1
        st3   == [st2 EXCEPT !.frames[child].num_pending_inputs = @ - 1]
    IN ActivateNode(st3, t.node, t.is_dead, child, 0, outs)

PropagateEnter(st, t, outs) ==
    LET child == Append(t.frame, <<t.iter, FrameName[t.node]>>)
        st1   == FindOrCreateChildFrame(st, t.frame, t.iter, t.node)
        st2   == IF t.node \in IsConstant
                 THEN AddLoopInv(st1, child, t.node, 0 \in outs)
                 ELSE st1
        st3   == [st2 EXCEPT !.frames[child].num_pending_inputs = @ - 1]
    IN ActivateNode(st3, t.node, t.is_dead, child, 0, outs)

PropagateOnly(st, t, outs) ==
    CASE Kind[t.node] = "NextIteration" ->
            IF t.is_dead THEN st ELSE PropagateNext(st, t, outs)
      [] Kind[t.node] = "Exit"  -> PropagateExit(st, t, outs)
      [] Kind[t.node] = "Enter" -> PropagateEnter(st, t, outs)
      [] OTHER -> ActivateNode(st, t.node, t.is_dead, t.frame, t.iter, outs)

\* The node is no longer outstanding in its iteration.
DecrementOutstandingOps(st, f, i) ==
    SetIteration(st, f, i, [GetIteration(st.frames[f], i)
                              EXCEPT !.outstanding_ops = @ - 1])

\* The node may have been the last one of its iteration, and an Enter the
\* last input of its child frame.
PropagateOutputs(st, t, outs) ==
    FoldLeft(LAMBDA s, c : CleanupFramesIterations(s, c.frame, c.iter),
             DecrementOutstandingOps(PropagateOnly(st, t, outs),
                                     t.frame, t.iter),
             <<t>> \o IF Kind[t.node] = "Enter"
                      THEN <<[frame |-> Append(t.frame,
                                               <<t.iter, FrameName[t.node]>>),
                              iter  |-> 0]>>
                      ELSE <<>>)

-----------------------------------------------------------------------------
(* The threads *)

\* An activation of Process begins with its queue; s is the status of the
\* last node, which a dead node leaves as it was.
NewProcess(t) ==
    [pc |-> "process", tagged |-> t, inline |-> <<t>>, s |-> "OK",
     outs |-> {}, ready |-> <<>>, completed |-> FALSE, async |-> FALSE]

\* The done callback of an asynchronous kernel.
AsyncDone(t, s, outs) ==
    [pc |-> "propagate", tagged |-> t, inline |-> <<>>, s |-> s,
     outs |-> outs, ready |-> <<>>, completed |-> FALSE, async |-> TRUE]

Replace(p, q) == procs' = (procs \ {p}) \cup {q}

\* The activation p goes on with q, or ends if it has nothing left to do.
Continue(p, q) ==
    CASE q.inline # <<>> ->
            Replace(p, [q EXCEPT !.pc = "process", !.outs = {},
                                 !.ready = <<>>])
      [] q.inline = <<>> /\ q.completed ->
            Replace(p, [q EXCEPT !.pc = "finish", !.outs = {},
                                 !.ready = <<>>])
      [] q.inline = <<>> /\ ~q.completed -> procs' = procs \ {p}

Init ==
    /\ feed \in Feeds
    /\ frames = (<<>> :> NewFrame(1, 1, 0))
    /\ num_outstanding_ops = 0
    /\ status = "OK"
    /\ rendezvous = "OK"
    /\ pool = {}
    /\ procs = {}
    /\ launched = {}
    /\ deleted = FALSE
    /\ done = <<>>
    /\ ran = {}

NotStarted == num_outstanding_ops = 0 /\ done = <<>> /\ procs = {} /\ ran = {}

RunAsync ==
    /\ NotStarted
    /\ num_outstanding_ops' = Cardinality(RootNodes(feed))
    /\ frames' = [frames EXCEPT ![<<>>].iterations[0].outstanding_ops =
                     Cardinality(RootNodes(feed))]
    /\ pool' = {TaggedNode(n, <<>>, 0, FALSE) : n \in RootNodes(feed)}
    /\ UNCHANGED <<feed, status, rendezvous, procs, launched, deleted, done,
                   ran>>

\* The device cannot fill in the device contexts.
RunAsyncFails ==
    /\ NotStarted
    /\ done' = <<"error">>
    /\ UNCHANGED <<feed, state, rendezvous, pool, procs, launched, deleted,
                   ran>>

\* The runner starts an activation of Process.
StartProcess(t) ==
    /\ pool' = pool \ {t}
    /\ procs' = procs \cup {NewProcess(t)}
    /\ UNCHANGED <<feed, state, rendezvous, launched, deleted, done, ran>>

\* A dead node is not executed, unless it is a transfer.
ProcessDead(p) ==
    /\ p.pc = "process"
    /\ LET t == Head(p.inline)
       IN /\ t.is_dead /\ ~IsTransferNode(t.node)
          /\ ran' = ran \cup {t}
          /\ Replace(p, [p EXCEPT !.pc = "propagate", !.tagged = t,
                                  !.inline = Tail(@), !.outs = {}])
    /\ UNCHANGED <<feed, state, rendezvous, pool, launched, deleted, done>>

\* The kernel of a live node, which may fail; or its inputs cannot be
\* prepared.
ProcessSync(p) ==
    /\ p.pc = "process"
    /\ LET t == Head(p.inline)
       IN /\ ~t.is_dead /\ t.node \notin Async
          /\ ran' = ran \cup {t}
          /\ \E s \in {"OK"} \cup {"error" : n \in CanFail \cap {t.node}} :
                Replace(p, [p EXCEPT
                    !.pc = "propagate", !.tagged = t, !.inline = Tail(@),
                    !.s = s,
                    !.outs = IF s = "OK"
                             THEN LiveOutputs(feed, t.node, t.iter)
                             ELSE {}])
    /\ UNCHANGED <<feed, state, rendezvous, pool, launched, deleted, done>>

ProcessAsync(p) ==
    /\ p.pc = "process"
    /\ LET t == Head(p.inline)
       IN /\ t.node \in Async
          /\ ~t.is_dead \/ IsTransferNode(t.node)
          /\ ran' = ran \cup {t}
          /\ launched' = launched \cup {t}
          /\ Continue(p, [p EXCEPT !.inline = Tail(@), !.s = "OK"])
    /\ UNCHANGED <<feed, state, rendezvous, pool, deleted, done>>

\* An asynchronous kernel succeeds or fails.
KernelDone(t) ==
    /\ Kind[t.node] = "Recv" => feed[t.node] <= 1 /\ rendezvous = "OK"
    /\ \E s \in {"OK"} \cup {"error" : n \in CanFail \cap {t.node}} :
          procs' = procs \cup
              {AsyncDone(t, s, IF s = "OK"
                               THEN LiveOutputs(feed, t.node, t.iter)
                               ELSE {})}
    /\ launched' = launched \ {t}
    /\ UNCHANGED <<feed, state, rendezvous, pool, deleted, done, ran>>

\* A Recv is called back by the abort of the rendezvous.
RecvAborted(t) ==
    /\ Kind[t.node] = "Recv"
    /\ rendezvous = "aborted"
    /\ procs' = procs \cup {AsyncDone(t, "error", {})}
    /\ launched' = launched \ {t}
    /\ UNCHANGED <<feed, state, rendezvous, pool, deleted, done, ran>>

Propagate(p) ==
    /\ p.pc = "propagate"
    /\ p.s = "OK"
    /\ LET st == PropagateOutputs([frames |-> frames, ready |-> <<>>],
                                  p.tagged, p.outs)
       IN /\ frames' = st.frames
          /\ Replace(p, [p EXCEPT !.pc = "account", !.ready = st.ready])
    /\ UNCHANGED <<feed, num_outstanding_ops, status, rendezvous, pool,
                   launched, deleted, done, ran>>

\* Mutant: the rendezvous is left alone.
RecordErrorOnly(p) ==
    /\ p.pc = "propagate"
    /\ p.s # "OK"
    /\ status' = "error"
    /\ Replace(p, [p EXCEPT !.pc = "account"])
    /\ UNCHANGED <<feed, frames, num_outstanding_ops, rendezvous, pool,
                   launched, deleted, done, ran>>

\* NodeDone with an error: the first one becomes the status of the step.
RecordError(p) ==
    /\ p.pc = "propagate"
    /\ p.s # "OK"
    /\ status' = "error"
    /\ Replace(p, [p EXCEPT !.pc = IF status = "OK" THEN "abort"
                                                    ELSE "account"])
    /\ UNCHANGED <<feed, frames, num_outstanding_ops, rendezvous, pool,
                   launched, deleted, done, ran>>

AbortRendezvous(p) ==
    /\ p.pc = "abort"
    /\ rendezvous' = "aborted"
    /\ Replace(p, [p EXCEPT !.pc = "account"])
    /\ UNCHANGED <<feed, state, pool, launched, deleted, done, ran>>

\* ScheduleReady: what stays on this thread, and what the runner gets.
Inexpensive(t) == t.is_dead \/ t.node \notin Expensive

ScheduleReady(p) ==
    LET cheap  == SelectSeq(p.ready, Inexpensive)
        costly == SelectSeq(p.ready, LAMBDA t : ~Inexpensive(t))
        inline == p.inline \o cheap
    IN CASE p.async -> [inline |-> <<>>, runner |-> ToSet(p.ready)]
         [] ~p.async /\ inline = <<>> /\ costly # <<>> ->
               [inline |-> <<Last(costly)>>, runner |-> ToSet(Front(costly))]
         [] ~p.async /\ (inline # <<>> \/ costly = <<>>) ->
               [inline |-> inline, runner |-> ToSet(costly)]

\* Mutant: of several ready successors one is not counted.
NodeDoneMiscounts(p) ==
    /\ p.pc = "account"
    /\ LET ends  == p.ready = <<>> \/ p.s # "OK"
           sched == IF p.s = "OK" THEN ScheduleReady(p)
                                  ELSE [inline |-> p.inline, runner |-> {}]
       IN /\ num_outstanding_ops' =
                IF ends THEN num_outstanding_ops - 1 ELSE num_outstanding_ops
          /\ pool' = pool \cup sched.runner
          /\ Continue(p, [p EXCEPT
                 !.inline = sched.inline,
                 !.completed = ends /\ num_outstanding_ops = 1])
    /\ UNCHANGED <<feed, frames, status, rendezvous, launched, deleted, done,
                   ran>>

\* NodeDone counts the node as finished and its ready successors as
\* outstanding, then schedules them.
NodeDone(p) ==
    /\ p.pc = "account"
    /\ LET ends  == p.ready = <<>> \/ p.s # "OK"
           sched == IF p.s = "OK" THEN ScheduleReady(p)
                                  ELSE [inline |-> p.inline, runner |-> {}]
       IN /\ num_outstanding_ops' =
                IF ends THEN num_outstanding_ops - 1
                        ELSE num_outstanding_ops + Len(p.ready) - 1
          /\ pool' = pool \cup sched.runner
          /\ Continue(p, [p EXCEPT
                 !.inline = sched.inline,
                 !.completed = ends /\ num_outstanding_ops = 1])
    /\ UNCHANGED <<feed, frames, status, rendezvous, launched, deleted, done,
                   ran>>

\* Deletes the state; its remaining frames go with it.
Finish(p) ==
    /\ p.pc = "finish"
    /\ procs' = procs \ {p}
    /\ done' = Append(done, status)
    /\ deleted' = TRUE
    /\ frames' = <<>>
    /\ UNCHANGED <<feed, num_outstanding_ops, status, rendezvous, pool,
                   launched, ran>>

Step(p) == \/ ProcessDead(p)
           \/ ProcessSync(p)
           \/ ProcessAsync(p)
           \/ Propagate(p)
           \/ RecordError(p)
           \/ AbortRendezvous(p)
           \/ NodeDone(p)
           \/ Finish(p)

\* Something can happen: a thread has work or a kernel can return.
CanMove == \/ NotStarted
           \/ pool # {}
           \/ procs # {}
           \/ \E t \in launched : \/ Kind[t.node] # "Recv"
                                  \/ feed[t.node] <= 1
                                  \/ rendezvous = "aborted"

\* The step is over, or waits for a message that is never sent.
Rest == ~CanMove /\ UNCHANGED vars

Next == \/ RunAsync
        \/ RunAsyncFails
        \/ \E t \in pool : StartProcess(t)
        \/ \E t \in launched : KernelDone(t) \/ RecvAborted(t)
        \/ \E p \in procs : Step(p)
        \/ Rest

Spec == Init /\ [][Next]_vars

\* Weak fairness of the whole step: threads are scheduled, kernels return,
\* messages that are sent arrive.  CanMove stands for the enabling condition
\* (no state is a deadlock).
FairSpec == Spec /\ ([]<>(~CanMove) \/ []<><<TRUE>>_vars)

-----------------------------------------------------------------------------
(* Properties *)

IterationType(frame) ==
    \A s \in DOMAIN frame.iterations : frame.iterations[s] # Null =>
        LET it == frame.iterations[s]
        IN /\ \A n \in Pruned(feed) : it.pending[n] \in Nat
           /\ \A n \in Pruned(feed) :
                 it.dead_count[n] \in 0 .. NumInputs[n] + NumControlEdges[n]
           /\ it.outstanding_ops \in Nat
           /\ it.outstanding_frame_count \in Nat

\* The counters of PendingCounts are unsigned: none is taken below zero.
TypeOK ==
    /\ feed \in Feeds
    /\ \A f \in DOMAIN frames : /\ IterationType(frames[f])
                                /\ frames[f].num_pending_inputs \in Nat
    /\ num_outstanding_ops \in Nat
    /\ status \in {"OK", "error"}
    /\ rendezvous \in {"OK", "aborted"}
    /\ deleted \in BOOLEAN
    /\ done \in Seq({"OK", "error"})

\* The tagged nodes that are ready and not processed yet, thread by thread.
Queued(p) == p.inline \o p.ready
QueuedSet == pool \cup UNION {ToSet(Queued(p)) : p \in procs}

\* Those that have to come back to their iteration.
InFlight == QueuedSet \cup launched
               \cup {p.tagged : p \in {q \in procs : q.pc = "propagate"}}

Count(S, Op(_)) == MapThenSumSet(Op, S)

(***************************************************************************)
(* num_outstanding_ops_ is the number of nodes that are queued, running or *)
(* not yet counted as finished, although several threads update it after   *)
(* leaving mu_.  So the state is deleted, and the callback called, once,   *)
(* when no thread and no kernel is left that will use it.                  *)
(***************************************************************************)
OutstandingExact ==
    /\ num_outstanding_ops =
          Cardinality(pool) + Cardinality(launched)
          + Count(procs, LAMBDA p : Len(p.inline))
          + Cardinality({p \in procs :
                p.pc \in {"propagate", "abort", "account"}})
    /\ Len(done) <= 1
    /\ deleted => pool = {} /\ procs = {} /\ launched = {}

(***************************************************************************)
(* Each instance of a node is made ready once: by the last of its inputs,  *)
(* or the first live one of a Merge.                                       *)
(***************************************************************************)
RunsOnce ==
    LET Key(t) == <<t.frame, t.iter, t.node>>
    IN Cardinality({Key(t) : t \in QueuedSet \cup ran}) =
           Cardinality(ran) + Cardinality(pool)
           + Count(procs, LAMBDA p : Len(Queued(p)))

(***************************************************************************)
(* GetInputTensors reads an iteration without mu_, "because the iteration  *)
(* is still alive": the iteration of a node that is queued or running is   *)
(* in its slot of the circular buffer, and no other one is.  So is the     *)
(* iteration that a frame was entered from, which parent_frame and         *)
(* parent_iter lead to.  The buffer never holds more than                  *)
(* parallel_iterations, and num_outstanding_iterations is what it holds.   *)
(***************************************************************************)
Alive(f, i) ==
    /\ f \in DOMAIN frames
    /\ GetIteration(frames[f], i) # Null
    /\ GetIteration(frames[f], i).iter = i

IterationsAlive ==
    /\ \A t \in InFlight : Alive(t.frame, t.iter)
    /\ \A f \in DOMAIN frames \ {<<>>} : Alive(Front(f), Last(f)[1])
    /\ \A f \in DOMAIN frames : LET fr == frames[f] IN
          /\ fr.num_outstanding_iterations =
                Cardinality({i \in DOMAIN fr.iterations : fr.iterations[i] # Null})
          /\ fr.num_outstanding_iterations <= fr.max_parallel_iterations

(***************************************************************************)
(* A live node has the inputs its kernel will look for: all of them, or    *)
(* exactly one if it is a Merge.                                           *)
(***************************************************************************)
InputsPresent ==
    \A t \in QueuedSet : ~t.is_dead =>
        LET it   == GetIteration(frames[t.frame], t.iter)
            have == Cardinality({i \in it.input : i[1] = t.node})
        IN have = IF Kind[t.node] = "Merge" THEN 1 ELSE NumInputs[t.node]

(***************************************************************************)
(* However the threads interleave, a step executes only instances that are *)
(* due, each once and with the right deadness, and a successful step has   *)
(* executed all of them and given up its frames.                           *)
(***************************************************************************)
ExecutesGraph ==
    /\ RunsOnce
    /\ Sound(ran, feed)
    /\ done = <<"OK">> => Complete(ran, feed)
    /\ status = "OK" /\ (\E p \in procs : p.pc = "finish") => frames = <<>>

(***************************************************************************)
(* What core/kernels/control_flow_ops.h says of ControlTrigger: it takes   *)
(* all its control inputs as live, so that it can be enabled by dead nodes.*)
(* A dead exit of a frame that is done makes it dead all the same.         *)
(***************************************************************************)
TriggersLive ==
    \A t \in ran : Kind[t.node] = "ControlTrigger" => ~t.is_dead

(***************************************************************************)
(* A step finishes if every message it waits for is sent.  If one of its   *)
(* nodes fails it finishes anyhow: the abort of the rendezvous releases    *)
(* the kernels that wait for a message that never comes.                   *)
(***************************************************************************)
AllSent == \A n \in DOMAIN feed : Kind[n] = "Recv" => feed[n] <= 1

StepFinishes == (AllSent \/ status # "OK") ~> done # <<>>
=============================================================================
