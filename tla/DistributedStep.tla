-------------------------- MODULE DistributedStep --------------------------
(***************************************************************************)
(* The steps of one distributed session (core/distributed_runtime): the    *)
(* master (Master, MasterSession) registers one partition of the graph at  *)
(* each worker and runs it there by RunGraph calls; the partitions receive *)
(* tensors from each other by RecvTensor calls, through the rendezvous     *)
(* that each worker keeps per step (BaseRendezvousMgr).                    *)
(*                                                                         *)
(* Calls are gRPC calls: the caller may cancel one or lose the connection, *)
(* and is then told of a failure while the server is still at work and     *)
(* learns of it later (RequestCancelled), or has not even got the request. *)
(* Workers crash and come back with a new incarnation and no state.        *)
(***************************************************************************)
EXTENDS Integers, Sequences, FiniteSets

CONSTANTS
    Steps,      \* the calls of RunStep; each draws a step_id of its own
    Workers,    \* the workers the master knows
    Edges,      \* pairs <<source, destination>>: the tensors that may cross
    Fed,        \* the workers whose partition the client feeds
    Fetching,   \* the workers whose partition the client fetches from
    Setups      \* the graphs: the workers they have parts on, the steps that are
                \* run, and a bound on crashes, failing calls and failing kernels

\* A graph has finitely many edges, and a part somewhere: RewriteGraphForExecution
\* refuses a step that neither fetches nor runs anything.
ASSUME ConstantsAssumption ==
    /\ Edges \subseteq {e \in Workers \X Workers : e[1] # e[2]}
    /\ IsFiniteSet(Edges)
    /\ Fed \subseteq Workers /\ Fetching \subseteq Workers
    /\ Setups \subseteq [parts : (SUBSET Workers) \ {{}}, steps : SUBSET Steps, faults : Nat]

VARIABLES
    setup,      \* the setup, which never changes
    session,    \* the MasterSession and its entry in Master::sessions_
    rcg,        \* the ReffedClientGraph of the session
    worker,     \* of each worker, its incarnation and its GraphMgr
    step,       \* of each step, the master's and the workers' state of it
    faults

vars == <<setup, session, rcg, worker, step, faults>>

\* partitions_ of the graph: one part on each of these workers.
Parts == setup.parts

In(w) == {e \in Edges : e[2] = w /\ e[1] \in Parts}

Out(w) == {e \in Edges : e[1] = w /\ e[2] \in Parts}

(***************************************************************************)
(* A call: how far its caller and its server are, the server's answer,     *)
(* whether the server will find the call cancelled, and has been told so.  *)
(* A RecvTensor call also has its status_, the rendezvous it waits in, and *)
(* what its caller got.                                                    *)
(***************************************************************************)
NewCall == [client |-> "none", server |-> "none", reply |-> "none",
            cancelled |-> FALSE, told |-> FALSE]

NewRecv == [client |-> "none", server |-> "none", reply |-> "none",
            cancelled |-> FALSE, told |-> FALSE,
            aborted |-> FALSE, at |-> 0, got |-> "none"]

NoExec == [pc |-> "none", ok |-> TRUE, rendez |-> 0, cm |-> FALSE, out |-> {}]

NewStep ==
    [pc |-> "idle", status |-> "ok", success |-> TRUE, result |-> "none",
     run |-> [w \in Workers |-> NewCall],
     recv |-> [e \in Edges |-> NewRecv],
     exec |-> [w \in Workers |-> NoExec],
     rendez |-> [w \in Workers |-> <<>>],
     table |-> [w \in Workers |-> 0],
     cleanup |-> [w \in Workers |-> "none"],
     completed |-> {}]

\* The incarnations the master reads when the session is created.
FirstIncarnation == 0

\* Handles are numbers that each GraphMgr counts from 1, after a restart again.
FirstHandle == 1

NoHandle == 0

Init ==
    /\ setup \in Setups
    /\ session = [known |-> TRUE, alive |-> TRUE, cancelled |-> FALSE,
                  closer |-> "none", num_running |-> 0]
    /\ rcg = [refs |-> 0, init |-> "none",
              register |-> [w \in Workers |-> "none"],
              handle |-> [w \in Workers |-> NoHandle],
              deregister |-> [w \in Workers |-> "none"]]
    /\ worker = [w \in Workers |->
                    [incarnation |-> FirstIncarnation, table |-> FALSE, refs |-> 0]]
    /\ step = [s \in Steps |-> NewStep]
    /\ faults = 0

Fault == faults < setup.faults /\ faults' = faults + 1

(***************************************************************************)
(* The rendezvous of step S at worker w: S.rendez[w] are the objects made  *)
(* so far, S.table[w] is the one in the manager's table (0: none). These   *)
(* operators give the step's state after an operation of the code.         *)
(***************************************************************************)
NewRendezvous == [refs |-> 1, bad |-> FALSE, sent |-> {}, active |-> {}, aborts |-> 0]

Create(S, w) ==
    IF S.table[w] # 0 THEN S
    ELSE [S EXCEPT !.rendez[w] = Append(@, NewRendezvous),
                   !.table[w] = Len(S.rendez[w]) + 1]

\* The table keeps one reference, the caller gets another.
FindOrCreate(S, w) ==
    LET T == Create(S, w) IN [T EXCEPT !.rendez[w][T.table[w]].refs = @ + 1]

Unref(S, w, g) == [S EXCEPT !.rendez[w][g].refs = @ - 1]

\* An answered call has no cancel callback any more; a caller that has left gets nothing.
Answer(c, r) == [c EXCEPT !.server = "replied", !.reply = r, !.told = FALSE,
                          !.cancelled = @ /\ c.client = "flying"]

\* StartAbort of an active call: its status, and TryCancel if it is under way.
AbortCall(c) == [c EXCEPT !.aborted = TRUE, !.cancelled = @ \/ c.client = "flying"]

WaitingIn(S, w, g) == {e \in Out(w) : S.recv[e].server = "working" /\ S.recv[e].at = g}

(***************************************************************************)
(* BaseRemoteRendezvous::StartAbort: the RecvTensor requests that wait in  *)
(* the local rendezvous are answered, each gives up its reference, what    *)
(* was sent is dropped, and the calls to other workers are aborted.        *)
(***************************************************************************)
StartAbort(S, w, g) ==
    LET waiting == WaitingIn(S, w, g)
        r == S.rendez[w][g]
    IN
    [S EXCEPT !.rendez[w][g] = [r EXCEPT !.bad = TRUE, !.sent = {}, !.active = {},
                                         !.refs = @ - Cardinality(waiting)],
              !.recv = [e \in Edges |->
                  CASE e \in waiting -> Answer(S.recv[e], "bad")
                    [] e \in r.active -> AbortCall(S.recv[e])
                    [] OTHER -> S.recv[e]]]

\* AbortStep: the abort comes later and holds a reference until then.
AbortStep(S, w) ==
    LET T == FindOrCreate(S, w) IN [T EXCEPT !.rendez[w][T.table[w]].aborts = @ + 1]

\* NodeDone with an error: the executor keeps the first and aborts the step here.
NodeFails(S, w) ==
    IF ~S.exec[w].ok THEN S
    ELSE StartAbort([S EXCEPT !.exec[w].ok = FALSE], w, S.exec[w].rendez)

\* Mutant: the calls are cancelled and the error is forgotten.
CancelsOnly(S) ==
    [S EXCEPT !.run = [w \in Workers |->
        [S.run[w] EXCEPT !.cancelled = @ \/ S.run[w].client = "flying"]]]

\* UpdateStatusLocked: the first error cancels the calls that have been issued.
UpdateStatusLocked(S) ==
    IF S.status # "ok" THEN S
    ELSE [S EXCEPT !.status = "bad",
                   !.run = [w \in Workers |->
                       [S.run[w] EXCEPT !.cancelled = @ \/ S.run[w].client = "flying"]]]

(***************************************************************************)
(* The end of a call for its caller: with the answer, or without one       *)
(* because it is cancelled, its server has crashed, or the call fails.     *)
(***************************************************************************)
EndsWith(c, r) ==
    /\ c.client = "flying"
    /\ \/ c.server = "replied" /\ r = c.reply /\ UNCHANGED faults
       \/ (c.cancelled \/ c.server = "gone") /\ r = "bad" /\ UNCHANGED faults
       \/ Fault /\ r = "bad"

\* A server that has not answered will find the connection closed.
Ended(c) == [c EXCEPT !.client = "done", !.cancelled = c.server \in {"sent", "working"}]

-----------------------------------------------------------------------------
(* The master *)

Counted(s) == step[s].pc \in {"registering", "wait_init", "issuing", "waiting"}

\* Master::RunStep finds the session under mu_ and schedules Run.
RunStep(s) ==
    /\ s \in setup.steps
    /\ step[s].pc = "idle"
    /\ step' = IF session.known
               THEN [step EXCEPT ![s].pc = "scheduled"]
               ELSE [step EXCEPT ![s].pc = "returned", ![s].result = "bad"]
    /\ UNCHANGED <<setup, session, rcg, worker, faults>>

\* Run counts itself; StartStep makes or finds the graph; the first registers it.
Run(s) ==
    LET first == rcg.init = "none" IN
    /\ step[s].pc = "scheduled"
    /\ session.alive
    /\ session' = [session EXCEPT !.num_running = @ + 1]
    /\ rcg' = [rcg EXCEPT !.refs = IF first THEN 2 ELSE @ + 1,
                          !.init = IF first THEN "started" ELSE @,
                          !.register = IF first THEN [w \in Workers |-> IF w \in Parts THEN "sent" ELSE "none"] ELSE @]
    /\ step' = [step EXCEPT ![s].pc = IF first THEN "registering" ELSE "wait_init"]
    /\ UNCHANGED <<setup, worker, faults>>

\* Nothing holds the session between RunStep and Run: Close may have deleted it.
RunOnDeleted(s) ==
    /\ step[s].pc = "scheduled"
    /\ ~session.alive
    /\ step' = [step EXCEPT ![s].pc = "undefined"]
    /\ UNCHANGED <<setup, session, rcg, worker, faults>>

\* The RegisterGraph call to w: done and answered, or failing on one of the ways.
RegisterGraph(w) ==
    /\ rcg.register[w] = "sent"
    /\ \E done, ok \in BOOLEAN :
          /\ ok => done
          /\ IF ok THEN UNCHANGED faults ELSE Fault
          /\ worker' = IF done THEN [worker EXCEPT ![w].table = TRUE, ![w].refs = 1]
                               ELSE worker
          /\ rcg' = [rcg EXCEPT !.register[w] = IF ok THEN "ok" ELSE "failed",
                                !.handle[w] = IF ok THEN FirstHandle ELSE @]
    /\ UNCHANGED <<setup, session, step>>

\* The registering thread has all answers: init_done_ is notified.
RegisterPartitions(s) ==
    /\ step[s].pc = "registering"
    /\ rcg.init = "started"
    /\ \A w \in Parts : rcg.register[w] \in {"ok", "failed"}
    /\ rcg' = [rcg EXCEPT !.init = IF \E w \in Parts : rcg.register[w] = "failed"
                                   THEN "bad" ELSE "ok"]
    /\ UNCHANGED <<setup, session, worker, step, faults>>

\* The reference of the graph goes; its destructor calls DeregisterPartitions.
UnrefGraph(r) ==
    [r EXCEPT !.refs = @ - 1,
              !.deregister = IF r.refs = 1 THEN [w \in Workers |-> IF w \in Parts THEN "sent" ELSE "none"] ELSE @]

\* Every thread that needs the graph goes on with, or returns, init_result_.
UseInitResult(s) ==
    /\ step[s].pc \in {"registering", "wait_init"}
    /\ \/ /\ rcg.init = "ok"
          /\ step' = [step EXCEPT ![s].pc = "issuing"]
          /\ UNCHANGED <<setup, session, rcg>>
       \/ /\ rcg.init = "bad"
          /\ step' = [step EXCEPT ![s].pc = "returned", ![s].result = "bad"]
          /\ session' = [session EXCEPT !.num_running = @ - 1]
          /\ rcg' = UnrefGraph(rcg)
    /\ UNCHANGED <<setup, worker, faults>>

RunGraphAsync(s, w) ==
    /\ step[s].pc = "issuing"
    /\ w \in Parts
    /\ step[s].run[w].client = "none"
    /\ step' = [step EXCEPT ![s].run[w] = [@ EXCEPT !.client = "flying", !.server = "sent"]]
    /\ UNCHANGED <<setup, session, rcg, worker, faults>>

\* Only now can the step be cancelled; a session that is cancelled cancels it at once.
RegisterCancel(s) ==
    /\ step[s].pc = "issuing"
    /\ \A w \in Parts : step[s].run[w].client # "none"
    /\ LET S == [step[s] EXCEPT !.pc = "waiting", !.success = ~session.cancelled]
       IN  step' = [step EXCEPT ![s] = IF S.success THEN S ELSE UpdateStatusLocked(S)]
    /\ UNCHANGED <<setup, session, rcg, worker, faults>>

\* The RunGraph call of w ends for the master, whether or not it is waiting yet.
WhenDone(s, w) ==
    \E r \in {"ok", "bad"} :
       LET S == [step[s] EXCEPT !.run[w] = Ended(@)] IN
       /\ EndsWith(step[s].run[w], r)
       /\ step' = [step EXCEPT ![s] = IF r = "ok" THEN S ELSE UpdateStatusLocked(S)]
       /\ UNCHANGED <<setup, session, rcg, worker>>

\* After a success, and only then, the workers are told to clean up; rcg is held meanwhile.
RunPartitions(s) ==
    LET good == step[s].success /\ step[s].status = "ok" IN
    /\ step[s].pc = "waiting"
    /\ \A w \in Parts : step[s].run[w].client = "done"
    /\ step' = [step EXCEPT
          ![s] = [step[s] EXCEPT
              !.pc = "returned",
              !.result = IF good THEN "ok" ELSE "bad",
              !.cleanup = IF good THEN [w \in Workers |-> IF w \in Parts THEN "sent" ELSE "none"] ELSE @]]
    /\ session' = [session EXCEPT !.num_running = @ - 1]
    /\ rcg' = IF good THEN rcg ELSE UnrefGraph(rcg)
    /\ UNCHANGED <<setup, worker, faults>>

\* The client cancels its RunStep call; before RegisterCancel that does nothing.
CancelRunStep(s) ==
    /\ step[s].pc = "waiting"
    /\ step[s].status = "ok"
    /\ step' = [step EXCEPT ![s] = UpdateStatusLocked(@)]
    /\ UNCHANGED <<setup, session, rcg, worker, faults>>

\* Master::CloseSession, Reset or GC takes the session out of sessions_.
CloseSession ==
    /\ session.known
    /\ session' = [session EXCEPT !.known = FALSE, !.closer = "scheduled"]
    /\ UNCHANGED <<setup, rcg, worker, step, faults>>

\* StartCancel of the session's manager runs the callbacks of the waiting steps.
CloseCancels ==
    /\ session.closer = "scheduled"
    /\ session' = [session EXCEPT !.cancelled = TRUE, !.closer = "waiting"]
    /\ step' = [s \in Steps |-> IF step[s].pc = "waiting" /\ step[s].success
                                THEN UpdateStatusLocked(step[s]) ELSE step[s]]
    /\ UNCHANGED <<setup, rcg, worker, faults>>

\* ... and then waits for the steps that are counted, drops the graph and deletes this.
Close ==
    /\ session.closer = "waiting"
    /\ session.num_running = 0
    /\ session' = [session EXCEPT !.alive = FALSE, !.closer = "closed"]
    /\ rcg' = IF rcg.init = "none" THEN rcg ELSE UnrefGraph(rcg)
    /\ UNCHANGED <<setup, worker, step, faults>>

\* The worker's table has the graph under this handle.
Found(w) == worker[w].table /\ rcg.handle[w] = FirstHandle

\* The DeregisterGraph call to w, which may fail: nobody looks at its result.
DeregisterGraph(w) ==
    /\ rcg.deregister[w] = "sent"
    /\ rcg' = [rcg EXCEPT !.deregister[w] = "done"]
    /\ \/ /\ worker' = IF Found(w)
                        THEN [worker EXCEPT ![w].table = FALSE, ![w].refs = @ - 1]
                        ELSE worker
          /\ UNCHANGED faults
       \/ Fault /\ UNCHANGED worker
    /\ UNCHANGED <<setup, session, step>>

-----------------------------------------------------------------------------
(* A worker *)

\* RequestCancelled may have come before the cancel callback was set: then it did nothing.
MissedCancels(c) == IF c.cancelled THEN BOOLEAN ELSE {FALSE}

\* DoRunGraph with ExecuteAsync, up to the start of the executors.
DoRunGraph(s, w) ==
    LET S == step[s]
        found == Found(w)
        T == FindOrCreate(S, w)
        g == T.table[w]
        fedBad == w \in Fed /\ T.rendez[w][g].bad
    IN
    /\ S.run[w].server = "sent"
    /\ \E early \in MissedCancels(S.run[w]) : step' = [step EXCEPT ![s] =
          CASE ~found -> [S EXCEPT !.run[w] = Answer(@, "bad")]
            [] found /\ fedBad -> [Unref(T, w, g) EXCEPT !.run[w] = Answer(@, "bad")]
            [] OTHER -> [T EXCEPT !.run[w] = [@ EXCEPT !.server = "working", !.told = early],
                                  !.exec[w] = [NoExec EXCEPT !.pc = "run", !.rendez = g]]]
    /\ worker' = IF found /\ ~fedBad THEN [worker EXCEPT ![w].refs = @ + 1] ELSE worker
    /\ UNCHANGED <<setup, session, rcg, faults>>

\* Mutant: the callback cancels the kernels and does not abort the step.
CancelsKernels(s, w) ==
    LET c == step[s].run[w] IN
    /\ c.cancelled /\ ~c.told /\ c.server = "working"
    /\ step' = [step EXCEPT ![s].run[w].told = TRUE, ![s].exec[w].cm = TRUE]
    /\ UNCHANGED <<setup, session, rcg, worker, faults>>

\* The server learns that a RunGraph call is cancelled and runs its cancel callback.
RunGraphCancelled(s, w) ==
    LET c == step[s].run[w]
        S == [step[s] EXCEPT !.run[w].told = TRUE]
    IN
    /\ c.cancelled /\ ~c.told /\ c.server = "working"
    /\ step' = [step EXCEPT ![s] = AbortStep([S EXCEPT !.exec[w].cm = TRUE], w)]
    /\ UNCHANGED <<setup, session, rcg, worker, faults>>

\* The delayed closure of AbortStep.
AbortLater(s, w) ==
    \E g \in DOMAIN step[s].rendez[w] :
       /\ step[s].rendez[w][g].aborts > 0
       /\ LET S == [step[s] EXCEPT !.rendez[w][g].aborts = @ - 1]
          IN  step' = [step EXCEPT ![s] = Unref(StartAbort(S, w, g), w, g)]
       /\ UNCHANGED <<setup, session, rcg, worker, faults>>

\* A _Recv starts: an aborted rendezvous refuses it, another registers the call.
RecvAsync(s, e) ==
    LET S == step[s]
        w == e[2]
        g == S.exec[w].rendez
    IN
    /\ S.exec[w].pc = "run" /\ e \in In(w)
    /\ S.recv[e].client = "none"
    /\ step' = [step EXCEPT ![s] =
          IF S.rendez[w][g].bad
          THEN NodeFails([S EXCEPT !.recv[e].client = "done", !.recv[e].got = "bad"], w)
          ELSE [S EXCEPT !.recv[e].client = "registered",
                         !.rendez[w][g].active = @ \cup {e}]]
    /\ UNCHANGED <<setup, session, rcg, worker, faults>>

\* Mutant: the call holds no reference on the rendezvous.
StartCallUnheld(s, e) ==
    /\ step[s].recv[e].client = "registered"
    /\ step' = [step EXCEPT ![s].recv[e] = [@ EXCEPT !.client = "flying", !.server = "sent"]]
    /\ UNCHANGED <<setup, session, rcg, worker, faults>>

\* The registered call is sent, even if it has been aborted since.
StartCall(s, e) ==
    LET w == e[2] IN
    /\ step[s].recv[e].client = "registered"
    /\ step' = [step EXCEPT
          ![s].recv[e] = [@ EXCEPT !.client = "flying", !.server = "sent"],
          ![s].rendez[w][step[s].exec[w].rendez].refs = @ + 1]
    /\ UNCHANGED <<setup, session, rcg, worker, faults>>

\* Mutant: the incarnation is not looked at.
AnyIncarnation(e) == TRUE

\* PrepareRecvTensor: the key names the incarnation the master knew.
Prepared(e) == worker[e[1]].incarnation = FirstIncarnation

\* DoRecvTensorRaw at the source: refused, answered at once, or left waiting.
DoRecvTensorRaw(s, e) ==
    LET S == step[s]
        w == e[1]
        T == FindOrCreate(S, w)
        g == T.table[w]
        r == T.rendez[w][g]
    IN
    /\ S.recv[e].server = "sent"
    /\ \E early \in MissedCancels(S.recv[e]) : step' = [step EXCEPT ![s] =
          CASE ~Prepared(e) -> [S EXCEPT !.recv[e] = Answer(@, "bad")]
            [] Prepared(e) /\ r.bad -> [Unref(T, w, g) EXCEPT !.recv[e] = Answer(@, "bad")]
            [] Prepared(e) /\ ~r.bad /\ e \in r.sent ->
                 [Unref(T, w, g) EXCEPT !.recv[e] = Answer(@, "ok"),
                                        !.rendez[w][g].sent = @ \ {e}]
            [] OTHER -> [T EXCEPT !.recv[e] = [@ EXCEPT !.server = "working", !.at = g,
                                                       !.told = early]]]
    /\ UNCHANGED <<setup, session, rcg, worker, faults>>

\* The source learns that a RecvTensor call is cancelled.
RecvTensorCancelled(s, e) ==
    LET c == step[s].recv[e]
        S == [step[s] EXCEPT !.recv[e].told = TRUE]
    IN
    /\ c.cancelled /\ ~c.told /\ c.server = "working"
    /\ step' = [step EXCEPT ![s] = AbortStep(S, e[1])]
    /\ UNCHANGED <<setup, session, rcg, worker, faults>>

\* The call ends at the destination: deregistered, handed to the _Recv, released.
\* RunAllDone could come before the release: the counts would be the same.
RecvDone(s, e) ==
    LET w == e[2]
        g == step[s].exec[w].rendez
    IN
    \E r \in {"ok", "bad"} :
       LET good == r = "ok" /\ ~step[s].recv[e].aborted
           S == [step[s] EXCEPT !.recv[e] = [Ended(@) EXCEPT !.got = IF good THEN "ok" ELSE "bad",
                                                             !.aborted = FALSE],
                                !.rendez[w][g].active = @ \ {e}]
       IN
       /\ EndsWith(step[s].recv[e], r)
       /\ step' = [step EXCEPT ![s] = Unref(IF good THEN S ELSE NodeFails(S, w), w, g)]
       /\ UNCHANGED <<setup, session, rcg, worker>>

\* A request whose caller has given up may never arrive.
RequestLost(s) ==
    /\ \/ \E w \in Workers :
             /\ step[s].run[w].client = "done" /\ step[s].run[w].server = "sent"
             /\ step' = [step EXCEPT ![s].run[w].server = "gone"]
       \/ \E e \in Edges :
             /\ step[s].recv[e].client = "done" /\ step[s].recv[e].server = "sent"
             /\ step' = [step EXCEPT ![s].recv[e].server = "gone"]
    /\ UNCHANGED <<setup, session, rcg, worker, faults>>

\* With its inputs the partition computes; a kernel may fail, and does when cancelled.
Compute(s, w) ==
    LET S == step[s] IN
    /\ S.exec[w].pc = "run" /\ S.exec[w].ok
    /\ \A e \in In(w) : S.recv[e].got = "ok"
    /\ \/ step' = [step EXCEPT ![s].exec[w].pc = "send"] /\ UNCHANGED faults
       \/ /\ IF S.exec[w].cm THEN UNCHANGED faults ELSE Fault
          /\ step' = [step EXCEPT ![s] = NodeFails(S, w)]
    /\ UNCHANGED <<setup, session, rcg, worker>>

\* A _Send: refused after an abort, given to the request that waits, or buffered.
Send(s, e) ==
    LET S == [step[s] EXCEPT !.exec[e[1]].out = @ \cup {e}]
        w == e[1]
        g == S.exec[w].rendez
    IN
    /\ S.exec[w].pc = "send" /\ S.exec[w].ok
    /\ e \in Out(w) \ step[s].exec[w].out
    /\ step' = [step EXCEPT ![s] =
          CASE S.rendez[w][g].bad -> NodeFails(S, w)
            [] ~S.rendez[w][g].bad /\ e \in WaitingIn(S, w, g) ->
                 [Unref(S, w, g) EXCEPT !.recv[e] = Answer(@, "ok")]
            [] OTHER -> [S EXCEPT !.rendez[w][g].sent = @ \cup {e}]]
    /\ UNCHANGED <<setup, session, rcg, worker, faults>>

\* RunAllDone: the executors have ended; what is fetched comes from the rendezvous.
RunAllDone(s, w) ==
    LET S == step[s]
        x == S.exec[w]
        good == x.ok /\ (w \in Fetching => ~S.rendez[w][x.rendez].bad)
    IN
    /\ \/ x.pc = "send" /\ x.ok /\ x.out = Out(w)
       \/ x.pc \in {"run", "send"} /\ ~x.ok /\ \A e \in In(w) : S.recv[e].client = "done"
    /\ step' = [step EXCEPT
          ![s] = [S EXCEPT !.run[w] = Answer(@, IF good THEN "ok" ELSE "bad"),
                           !.exec[w].pc = "replied",
                           !.completed = IF good THEN @ \cup {w} ELSE @]]
    /\ UNCHANGED <<setup, session, rcg, worker, faults>>

\* ... and only after the answer has gone are the two references given up.
UnrefAll(s, w) ==
    /\ step[s].exec[w].pc = "replied"
    /\ step' = [step EXCEPT ![s] =
                  [Unref(@, w, step[s].exec[w].rendez) EXCEPT !.exec[w] = NoExec]]
    /\ worker' = [worker EXCEPT ![w].refs = @ - 1]
    /\ UNCHANGED <<setup, session, rcg, faults>>

\* Mutant: aborted, and left in the table.
CleanupAborts(S, w) ==
    IF S.table[w] = 0 THEN S ELSE StartAbort(S, w, S.table[w])

\* BaseRendezvousMgr::Cleanup: out of the table, aborted, released.
Cleanup(S, w) ==
    IF S.table[w] = 0 THEN S
    ELSE LET g == S.table[w] IN [Unref(StartAbort(S, w, g), w, g) EXCEPT !.table[w] = 0]

\* The CleanupGraph call to w, which may fail; the last to end drops the graph.
CleanupGraph(s, w) ==
    LET S == step[s]
        last == \A v \in Parts \ {w} : S.cleanup[v] # "sent"
    IN
    /\ S.cleanup[w] = "sent"
    /\ \/ step' = [step EXCEPT ![s] = [Cleanup(S, w) EXCEPT !.cleanup[w] = "done"]]
          /\ UNCHANGED faults
       \/ step' = [step EXCEPT ![s].cleanup[w] = "failed"] /\ Fault
    /\ rcg' = IF last THEN UnrefGraph(rcg) ELSE rcg
    /\ UNCHANGED <<setup, session, worker>>

(***************************************************************************)
(* A worker crashes and restarts: its graphs, rendezvous and executors are *)
(* gone, and so are its calls and the ones it was working on.              *)
(***************************************************************************)
Restart(w) ==
    LET crash(S) ==
            [S EXCEPT
               !.rendez[w] = <<>>, !.table[w] = 0, !.exec[w] = NoExec,
               !.run[w].server = IF @ = "working" THEN "gone" ELSE @,
               !.recv = [e \in Edges |->
                   CASE e \in Out(w) /\ S.recv[e].server = "working" ->
                          [S.recv[e] EXCEPT !.server = "gone"]
                     [] e \in In(w) /\ S.recv[e].client \in {"registered", "flying"} ->
                          [Ended(S.recv[e]) EXCEPT !.got = "bad"]
                     [] OTHER -> S.recv[e]]]
    IN
    /\ Fault
    /\ worker' = [worker EXCEPT ![w] = [incarnation |-> @.incarnation + 1,
                                        table |-> FALSE, refs |-> 0]]
    /\ step' = [s \in Steps |-> crash(step[s])]
    /\ UNCHANGED <<setup, session, rcg>>

-----------------------------------------------------------------------------
\* What threads, executors and delivered messages do by themselves.
Progress ==
    \/ \E s \in Steps :
          \/ Run(s) \/ RunOnDeleted(s) \/ RegisterPartitions(s) \/ UseInitResult(s)
          \/ RegisterCancel(s) \/ RunPartitions(s) \/ RequestLost(s)
          \/ \E w \in Workers :
                \/ RunGraphAsync(s, w) \/ WhenDone(s, w) \/ DoRunGraph(s, w)
                \/ RunGraphCancelled(s, w) \/ AbortLater(s, w) \/ Compute(s, w)
                \/ RunAllDone(s, w) \/ UnrefAll(s, w) \/ CleanupGraph(s, w)
          \/ \E e \in Edges :
                \/ RecvAsync(s, e) \/ StartCall(s, e) \/ DoRecvTensorRaw(s, e)
                \/ RecvTensorCancelled(s, e) \/ RecvDone(s, e) \/ Send(s, e)
    \/ \E w \in Workers : RegisterGraph(w) \/ DeregisterGraph(w)
    \/ CloseCancels \/ Close

Next ==
    \/ Progress
    \/ \E s \in Steps : RunStep(s) \/ CancelRunStep(s)
    \/ CloseSession
    \/ \E w \in Parts : Restart(w)

(***************************************************************************)
(* The thread pools and the completion queues go on while there is work,   *)
(* and gRPC ends every call that is answered, cancelled or has lost its    *)
(* server. Nobody has to fail: a step that spends a fault is never forced. *)
(***************************************************************************)
Spec == Init /\ [][Next]_vars /\ WF_vars(Progress /\ UNCHANGED faults)

-----------------------------------------------------------------------------
(* Properties *)

(***************************************************************************)
(* RunStep says OK only if every partition ran to its end, with every      *)
(* tensor it was to receive.                                               *)
(***************************************************************************)
TruthfulStep ==
    \A s \in Steps : step[s].result = "ok" =>
       /\ step[s].completed = Parts
       /\ \A w \in Parts : \A e \in In(w) : step[s].recv[e].got = "ok"

Holds(b) == IF b THEN 1 ELSE 0

(***************************************************************************)
(* Everything the callbacks touch outlives them, and no longer: each       *)
(* rendezvous has one reference for the table, the executors, each request *)
(* that waits in it, each call under way and each abort to come, its       *)
(* active_ names only calls that have not ended; a graph on a worker is    *)
(* held by the table and the executors, the client graph by the session,   *)
(* the steps and their cleanups, and the session by the steps it counts.   *)
(***************************************************************************)
StateOutlived ==
    /\ \A s \in Steps, w \in Workers : \A g \in DOMAIN step[s].rendez[w] :
          LET S == step[s]
              r == S.rendez[w][g]
              here == S.exec[w].pc # "none" /\ S.exec[w].rendez = g
              flying == {e \in In(w) : S.recv[e].client = "flying"}
          IN  /\ r.refs = Holds(S.table[w] = g) + Holds(here) + r.aborts
                          + Cardinality(WaitingIn(S, w, g))
                          + (IF here THEN Cardinality(flying) ELSE 0)
              /\ \A e \in r.active : here /\ S.recv[e].client \in {"registered", "flying"}
    /\ \A s \in Steps, e \in Edges :
          step[s].recv[e].client \in {"registered", "flying"} => step[s].exec[e[2]].pc = "run"
    /\ \A w \in Workers : worker[w].refs =
          Holds(worker[w].table) + Cardinality({s \in Steps : step[s].exec[w].pc # "none"})
    /\ rcg.refs = Holds(rcg.init # "none" /\ session.alive)
                  + Cardinality({s \in Steps : Counted(s)})
                  + Cardinality({s \in Steps : \E w \in Workers : step[s].cleanup[w] = "sent"})
    /\ session.num_running = Cardinality({s \in Steps : Counted(s)})
    /\ \A s \in Steps : Counted(s) => session.alive

\* A RunGraph call that was issued after the first failure is not cancelled.
LateCall(s) == \E w \in Workers : /\ step[s].run[w].client = "flying"
                                  /\ step[s].status = "bad"
                                  /\ ~step[s].run[w].cancelled

(***************************************************************************)
(* RunStep and CloseSession return, whatever crashes, fails or is lost and *)
(* whoever waits for a tensor of whom; except for a step that has issued a *)
(* call after its first failure, which nothing cancels any more, and for a *)
(* Run that was scheduled before Close and started after it (undefined).   *)
(***************************************************************************)
CallsReturn ==
    <>[](\/ \E s \in Steps : LateCall(s)
         \/ /\ \A s \in Steps : step[s].pc \in {"idle", "returned", "undefined"}
            /\ session.closer \in {"none", "closed"})

(***************************************************************************)
(* A step that succeeds leaves no rendezvous and no buffered tensor on a   *)
(* worker that its CleanupGraph call has reached, and none is made again   *)
(* by a request or an abort that comes late.                               *)
(***************************************************************************)
CleanedUp ==
    <>[](\A s \in Steps, w \in Workers :
            step[s].result = "ok" /\ step[s].cleanup[w] # "failed" =>
               /\ step[s].table[w] = 0
               /\ \A g \in DOMAIN step[s].rendez[w] : step[s].rendez[w][g].refs = 0)

\* A RecvTensor call that was aborted between RegisterCall and Start is not cancelled.
LateRecv(s, e) == /\ step[s].recv[e].client = "flying"
                  /\ step[s].recv[e].aborted
                  /\ ~step[s].recv[e].cancelled

(***************************************************************************)
(* A worker that is told of the cancellation of its RunGraph call ends the *)
(* execution and gives up what it holds, also when the tensor it waits for *)
(* will never be sent; except while a call waits that was aborted before   *)
(* it was started.                                                         *)
(***************************************************************************)
CancelEndsWork ==
    <>[](\A s \in Steps, w \in Workers :
            step[s].exec[w].cm => \E e \in In(w) : LateRecv(s, e))

(***************************************************************************)
(* CloseSession returns and the master gets back what the session holds,   *)
(* as master_service.proto says of it: Close cancels the steps, waits for  *)
(* the ones that are counted and deletes the session. Here without the     *)
(* exception that CallsReturn makes for a late call.                       *)
(***************************************************************************)
CloseReturns == session.closer # "none" ~> session.closer = "closed"

(***************************************************************************)
(* StartAbort ends all pending receives, as rendezvous.h says of it: also  *)
(* the call that is registered and not started yet, for which StartRTCall  *)
(* is to check for an asynchronous abort.                                  *)
(***************************************************************************)
AbortedRecvsEnd ==
    \A s \in Steps, e \in Edges : step[s].recv[e].aborted ~> step[s].recv[e].client = "done"

(***************************************************************************)
(* Whenever the caller cancels, the callback that the handler has set is   *)
(* called, as grpc_call.h and DoRecvTensorRaw say, and so the worker does  *)
(* not go on waiting for a call that is cancelled.                         *)
(***************************************************************************)
CancelledWorkEnds ==
    /\ \A s \in Steps, w \in Workers :
          step[s].run[w].cancelled /\ step[s].run[w].server = "working"
             ~> step[s].run[w].server # "working"
    /\ \A s \in Steps, e \in Edges :
          step[s].recv[e].cancelled /\ step[s].recv[e].server = "working"
             ~> step[s].recv[e].server # "working"

=============================================================================
