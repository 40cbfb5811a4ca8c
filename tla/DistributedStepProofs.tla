----------------------- MODULE DistributedStepProofs -----------------------
(***************************************************************************)
(* Truth of what RunStep returns, and the references on everything the     *)
(* callbacks touch, for any number of workers, steps, edges and faults.    *)
(*                                                                         *)
(* Truth: a partition that has ended well is in completed for ever, and    *)
(* what it received stays received.  The answer of RunGraph and the end of *)
(* the call at the master only pass that on: the inductive invariant says  *)
(* so of each worker and of each tensor.  Most operations of the code (the *)
(* aborts, the references, the cancellations, a crash) cannot add to what  *)
(* the invariant speaks of: they are shown to keep it by one relation.     *)
(*                                                                         *)
(* References: the inductive invariant is StateOutlived with the links     *)
(* between the calls, the executions and the rendezvous they name.  The    *)
(* operations of the code are followed one by one through states in which  *)
(* one rendezvous has k references more, or less, than are owed, and an    *)
(* action is right when k is 0 at its end.                                 *)
(***************************************************************************)
EXTENDS DistributedStep, FiniteSetTheorems, TLAPS

\* The fields of the records, which is all the proof needs of the types.
Shape(S) ==
    /\ DOMAIN S = {"pc", "status", "success", "result", "run", "recv", "exec",
                   "rendez", "table", "cleanup", "completed"}
    /\ DOMAIN S.run = Workers
    /\ \A w \in Workers : DOMAIN S.run[w] =
          {"client", "server", "reply", "cancelled", "told"}
    /\ DOMAIN S.recv = Edges
    /\ \A e \in Edges : DOMAIN S.recv[e] =
          {"client", "server", "reply", "cancelled", "told", "aborted", "at",
           "got"}
    /\ DOMAIN S.exec = Workers
    /\ \A w \in Workers : DOMAIN S.exec[w] =
          {"pc", "ok", "rendez", "cm", "out"}

\* The partition has been asked for, or runs, at w.
Started(S, w) == S.run[w].server # "none" \/ S.exec[w].pc # "none"

RepliedOK(S, w) == S.run[w].server = "replied" /\ S.run[w].reply = "ok"

\* The tensor has been handed to its _Recv.
Got(S, e) == S.recv[e].got = "ok" /\ S.recv[e].client = "done"

\* ... while its call goes on, which never happens.
GotEarly(S, e) == S.recv[e].got = "ok" /\ S.recv[e].client # "done"

\* A step of a graph with parts on the workers P.
Good(P, S) ==
    /\ Shape(S)
    /\ S.completed \subseteq P
    /\ S.result = "ok" => S.completed = P
    /\ \A e \in Edges : ~GotEarly(S, e)
    /\ \A w \in Workers :
          /\ Started(S, w) => w \in P
          /\ RepliedOK(S, w) => w \in S.completed
          /\ S.run[w].client = "done" /\ S.status = "ok" => w \in S.completed
    /\ \A w \in Workers : S.exec[w].pc = "send" \/ w \in S.completed =>
          \A e \in Edges : e[2] = w /\ e[1] \in P => Got(S, e)

IInv == /\ setup \in Setups
        /\ DOMAIN step = Steps
        /\ \A s \in Steps : Good(Parts, step[s])

\* T has nothing that S does not have, and has all that S received.
Kept(S, T) ==
    /\ Shape(T)
    /\ T.completed = S.completed
    /\ T.result = "ok" => S.result = "ok"
    /\ T.status = "ok" => S.status = "ok"
    /\ \A w \in Workers :
          /\ Started(T, w) => Started(S, w)
          /\ RepliedOK(T, w) => RepliedOK(S, w)
          /\ T.run[w].client = "done" => S.run[w].client = "done"
          /\ T.exec[w].pc = "send" => S.exec[w].pc = "send"
    /\ \A e \in Edges :
          /\ Got(S, e) => Got(T, e)
          /\ GotEarly(T, e) => GotEarly(S, e)

-----------------------------------------------------------------------------
(***************************************************************************)
(* The references of the rendezvous of a step.  The operations of the code *)
(* take a reference in one place and hand it over in another, so they are  *)
(* followed through states in which one rendezvous has k references more   *)
(* than are owed.                                                          *)
(***************************************************************************)
RendezvousType == [refs : Int, bad : BOOLEAN, sent : SUBSET Edges,
                   active : SUBSET Edges, aborts : Nat]

\* The types that the counts depend on.
Typed(S) ==
    /\ Shape(S)
    /\ S.rendez \in [Workers -> Seq(RendezvousType)]
    /\ S.table \in [Workers -> Nat]
    /\ \A w \in Workers : S.table[w] <= Len(S.rendez[w])

Underway(S, e) == S.recv[e].client \in {"registered", "flying"}

\* The execution at w uses the rendezvous g.
Here(S, w, g) == S.exec[w].pc # "none" /\ S.exec[w].rendez = g

\* WaitingIn, for a graph with parts on the workers P.
Waits(P, S, w, g) ==
    {e \in Edges : /\ e[1] = w /\ e[2] \in P
                   /\ S.recv[e].server = "working" /\ S.recv[e].at = g}

Flying(P, S, w) ==
    {e \in Edges : e[2] = w /\ e[1] \in P /\ S.recv[e].client = "flying"}

\* The call of e goes between two parts, and waits in a rendezvous that exists.
RecvLinks(P, S, e) ==
    /\ S.recv[e].client \in {"none", "registered"} => S.recv[e].server = "none"
    /\ S.recv[e].client # "none" => e[1] \in P /\ e[2] \in P
    /\ S.recv[e].server = "working" => S.recv[e].at \in DOMAIN S.rendez[e[1]]
    /\ Underway(S, e) => S.exec[e[2]].pc = "run"

\* The execution at w is that of its call, and its rendezvous exists.
ExecLinks(S, w) ==
    /\ S.run[w].client = "none" => S.run[w].server = "none"
    /\ S.exec[w].pc # "none" =>
          S.run[w].server \in {"working", "replied"} /\ S.exec[w].rendez \in DOMAIN S.rendez[w]
    /\ S.exec[w].pc = "run" => S.run[w].server = "working"

\* Only the calls of the execution that uses it are in active_.
ActiveLinks(S, w, g) ==
    \A e \in S.rendez[w][g].active : e[2] = w /\ Here(S, w, g) /\ Underway(S, e)

Owed(P, S, w, g) ==
    Holds(S.table[w] = g) + Holds(Here(S, w, g)) + S.rendez[w][g].aborts
    + Cardinality(Waits(P, S, w, g))
    + (IF Here(S, w, g) THEN Cardinality(Flying(P, S, w)) ELSE 0)

\* Every rendezvous has what is owed, and h at v has k more.
Counts(P, S, v, h, k) ==
    \A w \in Workers : \A g \in DOMAIN S.rendez[w] :
       S.rendez[w][g].refs = Owed(P, S, w, g) + (IF w = v /\ g = h THEN k ELSE 0)

Linked(P, S) ==
    /\ \A e \in Edges : RecvLinks(P, S, e)
    /\ \A w \in Workers : ExecLinks(S, w)
    /\ \A w \in Workers : \A g \in DOMAIN S.rendez[w] : ActiveLinks(S, w, g)

Held(P, S, v, h, k) == Typed(S) /\ Linked(P, S) /\ Counts(P, S, v, h, k)

(***************************************************************************)
(* The references of the graphs and the session.                           *)
(***************************************************************************)
Running(w) == {s \in Steps : step[s].exec[w].pc # "none"}

CountedSteps == {s \in Steps : Counted(s)}

CleanedSteps == {s \in Steps : \E w \in Workers : step[s].cleanup[w] = "sent"}

\* A worker's graph; it is made once, by the RegisterGraph call.
WorkerInv ==
    /\ worker \in [Workers -> [incarnation : Int, table : BOOLEAN, refs : Int]]
    /\ \A w \in Workers :
          /\ IsFiniteSet(Running(w))
          /\ worker[w].refs = Holds(worker[w].table) + Cardinality(Running(w))
          /\ rcg.register[w] \notin {"ok", "failed"} =>
                worker[w].table = FALSE /\ Running(w) = {}

SessionInv ==
    /\ session \in [known : BOOLEAN, alive : BOOLEAN, cancelled : BOOLEAN,
                    closer : {"none", "scheduled", "waiting", "closed"},
                    num_running : Int]
    /\ session.known => session.closer = "none"
    /\ session.closer # "closed" => session.alive
    /\ IsFiniteSet(CountedSteps)
    /\ session.num_running = Cardinality(CountedSteps)
    /\ CountedSteps # {} => session.alive

\* The client graph, which the first Run makes.
GraphInv ==
    /\ rcg \in [refs : Int, init : {"none", "started", "ok", "bad"},
                register : [Workers -> {"none", "sent", "ok", "failed"}],
                handle : [Workers -> Int],
                deregister : [Workers -> {"none", "sent", "done"}]]
    /\ IsFiniteSet(CleanedSteps)
    /\ rcg.refs = Holds(rcg.init # "none" /\ session.alive)
                  + Cardinality(CountedSteps) + Cardinality(CleanedSteps)
    /\ rcg.init = "none" =>
          /\ rcg.register = [w \in Workers |-> "none"]
          /\ CountedSteps = {} /\ CleanedSteps = {}

\* Only a step that has returned has its cleanups under way, on the parts.
CleanupLinks(P, S) ==
    /\ S.cleanup \in [Workers -> {"none", "sent", "done", "failed"}]
    /\ S.pc # "returned" => S.cleanup = [w \in Workers |-> "none"]
    /\ \A w \in Workers : S.cleanup[w] = "sent" => w \in P

HeldSteps ==
    \A s \in Steps : Held(Parts, step[s], 0, 0, 0) /\ CleanupLinks(Parts, step[s])

RefInv == IInv /\ HeldSteps /\ WorkerInv /\ SessionInv /\ GraphInv

-----------------------------------------------------------------------------
USE ConstantsAssumption

\* A step that keeps what another has is as good.
LEMMA KeptGood ==
    ASSUME NEW P, NEW S, NEW T, Good(P, S), Kept(S, T)
    PROVE  Good(P, T)
  BY DEF Good, Kept

\* Keeping composes.
LEMMA KeptTransitive ==
    ASSUME NEW S, NEW T, NEW U, Kept(S, T), Kept(T, U)
    PROVE  Kept(S, U)
  BY DEF Kept

\* A step keeps what it has.
LEMMA KeptReflexive ==
    ASSUME NEW S, Shape(S)
    PROVE  Kept(S, S)
  BY DEF Kept

\* A step of which one member changes.
LEMMA StepIInv ==
    ASSUME IInv, NEW s \in Steps, NEW T, Good(Parts, T),
           setup' = setup, step' = [step EXCEPT ![s] = T]
    PROVE  IInv'
  BY DEF IInv, Parts

\* A step of which one member changes and keeps what it has.
LEMMA StepKeptIInv ==
    ASSUME IInv, NEW s \in Steps, NEW T, Kept(step[s], T),
           setup' = setup, step' = [step EXCEPT ![s] = T]
    PROVE  IInv'
  BY StepIInv, KeptGood DEF IInv

-----------------------------------------------------------------------------
(* The operations on the rendezvous and on the status of a step *)

\* Create only adds a rendezvous.
LEMMA CreateKept ==
    ASSUME NEW S, Shape(S), NEW w PROVE Kept(S, Create(S, w))
  BY DEF Create, Kept, Shape, Started, RepliedOK, Got, GotEarly

\* Unref only counts.
LEMMA UnrefKept ==
    ASSUME NEW S, Shape(S), NEW w, NEW g PROVE Kept(S, Unref(S, w, g))
  BY DEF Unref, Kept, Shape, Started, RepliedOK, Got, GotEarly

\* FindOrCreate only adds a rendezvous and counts.
LEMMA FindOrCreateKept ==
    ASSUME NEW S, Shape(S), NEW w PROVE Kept(S, FindOrCreate(S, w))
  <1> DEFINE T == Create(S, w)
  <1>1. Kept(S, T) /\ Shape(T)
    BY CreateKept DEF Kept
  <1> HIDE DEF T
  <1>2. Kept(T, [T EXCEPT !.rendez[w][T.table[w]].refs = @ + 1])
    BY <1>1 DEF Kept, Shape, Started, RepliedOK, Got, GotEarly
  <1>3. QED BY <1>1, <1>2, KeptTransitive DEF FindOrCreate, T

\* AbortStep only schedules an abort.
LEMMA AbortStepKept ==
    ASSUME NEW S, Shape(S), NEW w PROVE Kept(S, AbortStep(S, w))
  <1> DEFINE T == FindOrCreate(S, w)
  <1>1. Kept(S, T) /\ Shape(T)
    BY FindOrCreateKept DEF Kept
  <1> HIDE DEF T
  <1>2. Kept(T, [T EXCEPT !.rendez[w][T.table[w]].aborts = @ + 1])
    BY <1>1 DEF Kept, Shape, Started, RepliedOK, Got, GotEarly
  <1>3. QED BY <1>1, <1>2, KeptTransitive DEF AbortStep, T

\* StartAbort answers with an error and takes back no tensor.
LEMMA StartAbortKept ==
    ASSUME NEW S, Shape(S), NEW w, NEW g PROVE Kept(S, StartAbort(S, w, g))
  <1> DEFINE T == StartAbort(S, w, g)
             W == WaitingIn(S, w, g)
             A == S.rendez[w][g].active
  <1>1. /\ DOMAIN T = DOMAIN S
        /\ T.run = S.run /\ T.exec = S.exec /\ T.completed = S.completed
        /\ T.result = S.result /\ T.status = S.status
    BY DEF StartAbort, Shape
  <1>2. T.recv = [e \in Edges |-> CASE e \in W -> Answer(S.recv[e], "bad")
                                    [] e \in A -> AbortCall(S.recv[e])
                                    [] OTHER -> S.recv[e]]
    BY DEF StartAbort, Shape
  <1> HIDE DEF T, W, A
  <1>3. \A e \in Edges : /\ DOMAIN T.recv[e] = DOMAIN S.recv[e]
                         /\ T.recv[e].client = S.recv[e].client
                         /\ T.recv[e].got = S.recv[e].got
    <2> SUFFICES ASSUME NEW e \in Edges
                 PROVE  /\ DOMAIN T.recv[e] = DOMAIN S.recv[e]
                        /\ T.recv[e].client = S.recv[e].client
                        /\ T.recv[e].got = S.recv[e].got
      OBVIOUS
    <2>1. \/ T.recv[e] = Answer(S.recv[e], "bad")
          \/ T.recv[e] = AbortCall(S.recv[e])
          \/ T.recv[e] = S.recv[e]
      BY <1>2
    <2>2. QED BY <2>1 DEF Answer, AbortCall, Shape
  <1>4. DOMAIN T.recv = Edges
    BY <1>2
  <1>5. Kept(S, T)
    BY <1>1, <1>3, <1>4 DEF Kept, Shape, Started, RepliedOK, Got, GotEarly
  <1>6. QED BY <1>5 DEF T

\* NodeDone with an error takes back no tensor.
LEMMA NodeFailsKept ==
    ASSUME NEW S, Shape(S), NEW w PROVE Kept(S, NodeFails(S, w))
  <1> DEFINE T == [S EXCEPT !.exec[w].ok = FALSE]
  <1>1. Kept(S, T) /\ Shape(T)
    BY DEF Kept, Shape, Started, RepliedOK, Got, GotEarly
  <1> HIDE DEF T
  <1>2. \A g : Kept(S, StartAbort(T, w, g))
    BY <1>1, StartAbortKept, KeptTransitive
  <1>3. QED BY <1>2, KeptReflexive DEF NodeFails, T

\* UpdateStatusLocked ends no call and never clears an error.
LEMMA UpdateStatusKept ==
    ASSUME NEW S, Shape(S) PROVE Kept(S, UpdateStatusLocked(S))
  BY DEF UpdateStatusLocked, Kept, Shape, Started, RepliedOK, Got, GotEarly

\* BaseRendezvousMgr::Cleanup takes back no tensor.
LEMMA CleanupKept ==
    ASSUME NEW S, Shape(S), NEW w PROVE Kept(S, Cleanup(S, w))
  <1> DEFINE g == S.table[w]
             T == StartAbort(S, w, g)
             U == Unref(T, w, g)
  <1>1. Kept(S, T) /\ Shape(T)
    BY StartAbortKept DEF Kept
  <1>2. Kept(T, U) /\ Shape(U)
    BY <1>1, UnrefKept DEF Kept
  <1> HIDE DEF T, U
  <1>3. Kept(U, [U EXCEPT !.table[w] = 0])
    BY <1>2 DEF Kept, Shape, Started, RepliedOK, Got, GotEarly
  <1>4. Kept(S, [U EXCEPT !.table[w] = 0])
    BY <1>1, <1>2, <1>3, KeptTransitive
  <1>5. QED BY <1>4, KeptReflexive DEF Cleanup, T, U

-----------------------------------------------------------------------------
(* The actions *)

\* The initial states satisfy the inductive invariant.
LEMMA InitIInv == Init => IInv
  <1>1. /\ DOMAIN NewStep = {"pc", "status", "success", "result", "run", "recv",
                             "exec", "rendez", "table", "cleanup", "completed"}
        /\ NewStep.result = "none" /\ NewStep.completed = {}
        /\ NewStep.run = [w \in Workers |-> NewCall]
        /\ NewStep.recv = [e \in Edges |-> NewRecv]
        /\ NewStep.exec = [w \in Workers |-> NoExec]
    BY DEF NewStep
  <1>2. Shape(NewStep)
    BY <1>1 DEF Shape, NewCall, NewRecv, NoExec
  <1>3. ASSUME NEW P PROVE Good(P, NewStep)
    BY <1>1, <1>2 DEF Good, Started, RepliedOK, Got, GotEarly, NewCall,
           NewRecv, NoExec
  <1>4. QED BY <1>3 DEF Init, IInv

\* Every step of the master before it issues calls.
LEMMA MasterIInv ==
    ASSUME IInv, NEW s \in Steps,
           RunStep(s) \/ Run(s) \/ RunOnDeleted(s) \/ UseInitResult(s)
    PROVE  IInv'
  <1>0. Shape(step[s]) /\ setup' = setup
    BY DEF IInv, Good, RunStep, Run, RunOnDeleted, UseInitResult
  <1>1. \E p : \/ step' = [step EXCEPT ![s] = [step[s] EXCEPT !.pc = p]]
               \/ step' = [step EXCEPT ![s] =
                     [step[s] EXCEPT !.pc = p, !.result = "bad"]]
    BY DEF IInv, RunStep, Run, RunOnDeleted, UseInitResult
  <1>2. ASSUME NEW p
        PROVE  /\ Kept(step[s], [step[s] EXCEPT !.pc = p])
               /\ Kept(step[s], [step[s] EXCEPT !.pc = p, !.result = "bad"])
    BY <1>0 DEF Kept, Shape, Started, RepliedOK, Got, GotEarly
  <1>3. QED BY <1>0, <1>1, <1>2, StepKeptIInv

\* RunGraphAsync asks a worker that has a part.
LEMMA RunGraphAsyncIInv ==
    ASSUME IInv, NEW s \in Steps, NEW w \in Workers, RunGraphAsync(s, w)
    PROVE  IInv'
  <1> DEFINE S == step[s]
             T == [S EXCEPT !.run[w] = [@ EXCEPT !.client = "flying",
                                                 !.server = "sent"]]
  <1>1. w \in Parts /\ setup' = setup /\ step' = [step EXCEPT ![s] = T]
    BY DEF IInv, RunGraphAsync
  <1>2. Good(Parts, S)
    BY DEF IInv
  <1>3. /\ Shape(T) /\ T.completed = S.completed /\ T.result = S.result
        /\ T.status = S.status /\ T.recv = S.recv /\ T.exec = S.exec
        /\ T.run[w].client = "flying" /\ T.run[w].server = "sent"
        /\ \A v \in Workers : v # w => T.run[v] = S.run[v]
    BY <1>2 DEF Good, Shape
  <1> HIDE DEF S, T
  <1>4. Good(Parts, T)
    BY <1>1, <1>2, <1>3 DEF Good, Started, RepliedOK, Got, GotEarly
  <1>5. QED BY <1>1, <1>4, StepIInv

\* RegisterCancel and the cancellations of the client and of the session.
LEMMA CancelIInv ==
    ASSUME IInv, NEW s \in Steps, RegisterCancel(s) \/ CancelRunStep(s)
    PROVE  IInv'
  <1> DEFINE S == step[s]
             T == [S EXCEPT !.pc = "waiting", !.success = ~session.cancelled]
  <1>0. Shape(S) /\ setup' = setup
    BY DEF IInv, Good, RegisterCancel, CancelRunStep
  <1>1. \/ step' = [step EXCEPT ![s] = T]
        \/ step' = [step EXCEPT ![s] = UpdateStatusLocked(T)]
        \/ step' = [step EXCEPT ![s] = UpdateStatusLocked(S)]
    BY DEF RegisterCancel, CancelRunStep
  <1>2. Kept(S, T) /\ Shape(T)
    BY <1>0 DEF Kept, Shape, Started, RepliedOK, Got, GotEarly
  <1> HIDE DEF T
  <1>3. Kept(S, UpdateStatusLocked(T)) /\ Kept(S, UpdateStatusLocked(S))
    BY <1>0, <1>2, UpdateStatusKept, KeptTransitive
  <1>4. QED BY <1>0, <1>1, <1>2, <1>3, StepKeptIInv

\* CloseCancels: the callbacks of the steps that wait.
LEMMA CloseCancelsIInv ==
    ASSUME IInv, CloseCancels PROVE IInv'
  <1>1. ASSUME NEW s \in Steps PROVE Good(Parts, step'[s])
    <2>1. step'[s] \in {step[s], UpdateStatusLocked(step[s])}
      BY <1>1 DEF CloseCancels
    <2>2. Good(Parts, step[s])
      BY <1>1 DEF IInv
    <2>3. Good(Parts, UpdateStatusLocked(step[s]))
      BY <2>2, UpdateStatusKept, KeptGood DEF Good
    <2>4. QED BY <2>1, <2>2, <2>3
  <1>2. QED BY <1>1 DEF IInv, CloseCancels, Parts

\* WhenDone: a call that ends well has the answer of a completed partition.
LEMMA WhenDoneIInv ==
    ASSUME IInv, NEW s \in Steps, NEW w \in Workers, WhenDone(s, w)
    PROVE  IInv'
  <1> DEFINE S == step[s]
             T == [S EXCEPT !.run[w] = Ended(@)]
  <1>0. Good(Parts, S) /\ Shape(S) /\ setup' = setup
    BY DEF IInv, Good, WhenDone
  <1>1. PICK r \in {"ok", "bad"} :
           /\ EndsWith(S.run[w], r)
           /\ step' = [step EXCEPT ![s] = IF r = "ok" THEN T
                                          ELSE UpdateStatusLocked(T)]
    BY DEF WhenDone
  <1>2. /\ Shape(T) /\ T.completed = S.completed /\ T.result = S.result
        /\ T.status = S.status /\ T.recv = S.recv /\ T.exec = S.exec
        /\ T.run[w].client = "done" /\ T.run[w].server = S.run[w].server
        /\ T.run[w].reply = S.run[w].reply
        /\ \A v \in Workers : v # w => T.run[v] = S.run[v]
    BY <1>0 DEF Shape, Ended
  <1>3. S.run[w].client = "flying" /\ (r = "ok" => RepliedOK(S, w))
    BY <1>1 DEF EndsWith, RepliedOK
  <1> HIDE DEF S, T
  <1>4. CASE r = "ok"
    <2>1. Good(Parts, T)
      BY <1>0, <1>2, <1>3, <1>4 DEF Good, Started, RepliedOK, Got, GotEarly
    <2>2. QED BY <1>0, <1>1, <1>4, <2>1, StepIInv
  <1>5. CASE r = "bad"
    <2> DEFINE U == UpdateStatusLocked(T)
    <2>1. Kept(T, U) /\ U.status # "ok"
      <3>1. U.status # "ok"
        BY <1>2 DEF UpdateStatusLocked, Shape
      <3>2. QED BY <1>2, <3>1, UpdateStatusKept
    <2> HIDE DEF U
    <2>2. Good(Parts, U)
      BY <1>0, <1>2, <2>1 DEF Good, Kept, Started, RepliedOK, Got, GotEarly
    <2>3. QED BY <1>0, <1>1, <1>5, <2>2, StepIInv DEF U
  <1>6. QED BY <1>4, <1>5

\* RunPartitions says OK when every call has ended and none of them badly.
LEMMA RunPartitionsIInv ==
    ASSUME IInv, NEW s \in Steps, RunPartitions(s)
    PROVE  IInv'
  <1> DEFINE S == step[s]
             T == step'[s]
  <1>0. /\ Good(Parts, S) /\ Shape(S) /\ setup' = setup
        /\ Parts \subseteq Workers
    BY DEF IInv, Good, RunPartitions, Parts
  <1>1. /\ Shape(T) /\ T.completed = S.completed
        /\ T.result = "ok" => S.status = "ok"
        /\ T.status = S.status /\ T.recv = S.recv /\ T.exec = S.exec
        /\ T.run = S.run
    BY <1>0 DEF IInv, RunPartitions, Shape
  <1>2. \A w \in Parts : S.run[w].client = "done"
    BY DEF RunPartitions
  <1>3. step' = [step EXCEPT ![s] = T]
    BY DEF IInv, RunPartitions
  <1> HIDE DEF S, T
  <1>4. T.result = "ok" => T.completed = Parts
    BY <1>0, <1>1, <1>2 DEF Good
  <1>5. Good(Parts, T)
    BY <1>0, <1>1, <1>4 DEF Good, Started, RepliedOK, Got, GotEarly
  <1>6. QED BY <1>0, <1>3, <1>5, StepIInv

\* DoRunGraph refuses, or starts a partition that was asked for.
LEMMA DoRunGraphIInv ==
    ASSUME IInv, NEW s \in Steps, NEW w \in Workers, DoRunGraph(s, w)
    PROVE  IInv'
  <1> DEFINE S == step[s]
             T == FindOrCreate(S, w)
             U == Unref(T, w, T.table[w])
             Refused(R) == [R EXCEPT !.run[w] = Answer(@, "bad")]
             Begun(c) == [T EXCEPT
                            !.run[w] = [@ EXCEPT !.server = "working", !.told = c],
                            !.exec[w] = [NoExec EXCEPT !.pc = "run",
                                                       !.rendez = T.table[w]]]
  <1>0. Shape(S) /\ S.run[w].server = "sent" /\ setup' = setup
    BY DEF IInv, Good, DoRunGraph
  <1>1. \E c : \/ step' = [step EXCEPT ![s] = Refused(S)]
               \/ step' = [step EXCEPT ![s] = Refused(U)]
               \/ step' = [step EXCEPT ![s] = Begun(c)]
    BY DEF DoRunGraph
  <1>2. Kept(S, T) /\ Shape(T)
    BY <1>0, FindOrCreateKept DEF Kept
  <1>3. Kept(S, U) /\ Shape(U)
    BY <1>2, UnrefKept, KeptTransitive DEF Kept
  <1> HIDE DEF S, T, U
  <1>4. ASSUME NEW R, Shape(R), Kept(S, R) PROVE Kept(S, Refused(R))
    BY <1>0, <1>4 DEF Kept, Shape, Started, RepliedOK, Got, GotEarly, Answer
  <1>5. ASSUME NEW c PROVE Kept(S, Begun(c))
    BY <1>0, <1>2 DEF Kept, Shape, Started, RepliedOK, Got, GotEarly, NoExec
  <1>6. Kept(S, Refused(S)) /\ Kept(S, Refused(U))
    BY <1>0, <1>3, <1>4, KeptReflexive
  <1> HIDE DEF Refused, Begun
  <1>7. QED BY <1>0, <1>1, <1>5, <1>6, StepKeptIInv DEF S

\* RunGraphCancelled aborts the step at w, later.
LEMMA RunGraphCancelledIInv ==
    ASSUME IInv, NEW s \in Steps, NEW w \in Workers, RunGraphCancelled(s, w)
    PROVE  IInv'
  <1> DEFINE S == step[s]
             T == [[S EXCEPT !.run[w].told = TRUE] EXCEPT !.exec[w].cm = TRUE]
  <1>0. Shape(S) /\ setup' = setup
        /\ step' = [step EXCEPT ![s] = AbortStep(T, w)]
    BY DEF IInv, Good, RunGraphCancelled
  <1>1. Kept(S, T) /\ Shape(T)
    BY <1>0 DEF Kept, Shape, Started, RepliedOK, Got, GotEarly
  <1> HIDE DEF T
  <1>2. Kept(S, AbortStep(T, w))
    BY <1>1, AbortStepKept, KeptTransitive
  <1>3. QED BY <1>0, <1>2, StepKeptIInv

\* The delayed closure of AbortStep.
LEMMA AbortLaterIInv ==
    ASSUME IInv, NEW s \in Steps, NEW w \in Workers, AbortLater(s, w)
    PROVE  IInv'
  <1> DEFINE S == step[s]
             T(g) == [S EXCEPT !.rendez[w][g].aborts = @ - 1]
  <1>0. Shape(S) /\ setup' = setup
    BY DEF IInv, Good, AbortLater
  <1>1. PICK g : step' = [step EXCEPT ![s] = Unref(StartAbort(T(g), w, g), w, g)]
    BY DEF AbortLater
  <1>2. Kept(S, T(g)) /\ Shape(T(g))
    BY <1>0 DEF Kept, Shape, Started, RepliedOK, Got, GotEarly
  <1> HIDE DEF T
  <1>3. Kept(S, StartAbort(T(g), w, g)) /\ Shape(StartAbort(T(g), w, g))
    BY <1>2, StartAbortKept, KeptTransitive DEF Kept
  <1>4. Kept(S, Unref(StartAbort(T(g), w, g), w, g))
    BY <1>3, UnrefKept, KeptTransitive
  <1>5. QED BY <1>0, <1>1, <1>4, StepKeptIInv

\* RecvAsync: a _Recv that starts has nothing yet.
LEMMA RecvAsyncIInv ==
    ASSUME IInv, NEW s \in Steps, NEW e \in Edges, RecvAsync(s, e)
    PROVE  IInv'
  <1> DEFINE S == step[s]
             w == e[2]
             g == S.exec[w].rendez
             T == [S EXCEPT !.recv[e].client = "done", !.recv[e].got = "bad"]
             U == [S EXCEPT !.recv[e].client = "registered",
                            !.rendez[w][g].active = @ \cup {e}]
  <1>0. Good(Parts, S) /\ Shape(S) /\ setup' = setup
        /\ S.recv[e].client = "none"
    BY DEF IInv, Good, RecvAsync
  <1>1. step' \in {[step EXCEPT ![s] = NodeFails(T, w)], [step EXCEPT ![s] = U]}
    BY DEF RecvAsync
  <1>2. Kept(S, T) /\ Shape(T)
    BY <1>0 DEF Kept, Shape, Started, RepliedOK, Got, GotEarly
  <1>3. Kept(S, U)
    BY <1>0 DEF Kept, Good, Shape, Started, RepliedOK, Got, GotEarly
  <1> HIDE DEF T, U
  <1>4. Kept(S, NodeFails(T, w))
    BY <1>2, NodeFailsKept, KeptTransitive
  <1>5. QED BY <1>0, <1>1, <1>3, <1>4, StepKeptIInv

\* StartCall sends the registered call.
LEMMA StartCallIInv ==
    ASSUME IInv, NEW s \in Steps, NEW e \in Edges, StartCall(s, e)
    PROVE  IInv'
  <1> DEFINE S == step[s]
             w == e[2]
             T == [S EXCEPT !.recv[e] = [@ EXCEPT !.client = "flying",
                                                  !.server = "sent"],
                            !.rendez[w][S.exec[w].rendez].refs = @ + 1]
  <1>0. Good(Parts, S) /\ Shape(S) /\ setup' = setup
        /\ S.recv[e].client = "registered"
    BY DEF IInv, Good, StartCall
  <1>1. step' = [step EXCEPT ![s] = T]
    BY DEF IInv, StartCall
  <1>2. Kept(S, T)
    BY <1>0 DEF Kept, Good, Shape, Started, RepliedOK, Got, GotEarly
  <1>3. QED BY <1>0, <1>1, <1>2, StepKeptIInv

\* DoRecvTensorRaw answers, or waits at the source.
LEMMA DoRecvTensorRawIInv ==
    ASSUME IInv, NEW s \in Steps, NEW e \in Edges, DoRecvTensorRaw(s, e)
    PROVE  IInv'
  <1> DEFINE S == step[s]
             w == e[1]
             T == FindOrCreate(S, w)
             g == T.table[w]
             U == Unref(T, w, g)
             Answered(R, r) == [R EXCEPT !.recv[e] = Answer(@, r)]
             Taken == [U EXCEPT !.recv[e] = Answer(@, "ok"),
                                !.rendez[w][g].sent = @ \ {e}]
             Waiting(c) == [T EXCEPT !.recv[e] =
                              [@ EXCEPT !.server = "working", !.at = g, !.told = c]]
  <1>0. Shape(S) /\ setup' = setup
    BY DEF IInv, Good, DoRecvTensorRaw
  <1>1. \E c : step' \in {[step EXCEPT ![s] = Answered(S, "bad")],
                          [step EXCEPT ![s] = Answered(U, "bad")],
                          [step EXCEPT ![s] = Taken],
                          [step EXCEPT ![s] = Waiting(c)]}
    BY DEF DoRecvTensorRaw
  <1>2. Kept(S, T) /\ Shape(T)
    BY <1>0, FindOrCreateKept DEF Kept
  <1>3. Kept(S, U) /\ Shape(U)
    BY <1>2, UnrefKept, KeptTransitive DEF Kept
  <1> HIDE DEF S, T, U, g
  <1>4. ASSUME NEW R, Shape(R), NEW r PROVE Kept(R, Answered(R, r))
    BY <1>4 DEF Kept, Shape, Started, RepliedOK, Got, GotEarly, Answer
  <1>5. Kept(U, Taken)
    BY <1>3 DEF Kept, Shape, Started, RepliedOK, Got, GotEarly, Answer
  <1>6. ASSUME NEW c PROVE Kept(T, Waiting(c))
    BY <1>2 DEF Kept, Shape, Started, RepliedOK, Got, GotEarly
  <1> HIDE DEF Answered, Taken, Waiting
  <1>7. /\ Kept(S, Answered(S, "bad")) /\ Kept(S, Answered(U, "bad"))
        /\ Kept(S, Taken) /\ \A c : Kept(S, Waiting(c))
    BY <1>0, <1>2, <1>3, <1>4, <1>5, <1>6, KeptTransitive
  <1>8. QED BY <1>0, <1>1, <1>7, StepKeptIInv DEF S

\* RecvTensorCancelled aborts the step at the source, later.
LEMMA RecvTensorCancelledIInv ==
    ASSUME IInv, NEW s \in Steps, NEW e \in Edges, RecvTensorCancelled(s, e)
    PROVE  IInv'
  <1> DEFINE S == step[s]
             T == [S EXCEPT !.recv[e].told = TRUE]
  <1>0. Shape(S) /\ setup' = setup
        /\ step' = [step EXCEPT ![s] = AbortStep(T, e[1])]
    BY DEF IInv, Good, RecvTensorCancelled
  <1>1. Kept(S, T) /\ Shape(T)
    BY <1>0 DEF Kept, Shape, Started, RepliedOK, Got, GotEarly
  <1> HIDE DEF T
  <1>2. Kept(S, AbortStep(T, e[1]))
    BY <1>1, AbortStepKept, KeptTransitive
  <1>3. QED BY <1>0, <1>2, StepKeptIInv

\* RecvDone: the _Recv gets the tensor or an error, and the call is over.
LEMMA RecvDoneIInv ==
    ASSUME IInv, NEW s \in Steps, NEW e \in Edges, RecvDone(s, e)
    PROVE  IInv'
  <1> DEFINE S == step[s]
             w == e[2]
             g == S.exec[w].rendez
             T(x) == [S EXCEPT !.recv[e] = [Ended(@) EXCEPT !.got = x,
                                                            !.aborted = FALSE],
                               !.rendez[w][g].active = @ \ {e}]
  <1>0. Good(Parts, S) /\ Shape(S) /\ setup' = setup
        /\ S.recv[e].client = "flying"
    BY DEF IInv, Good, RecvDone, EndsWith
  <1>1. \E x \in {"ok", "bad"} :
           \/ step' = [step EXCEPT ![s] = Unref(T(x), w, g)]
           \/ step' = [step EXCEPT ![s] = Unref(NodeFails(T(x), w), w, g)]
    BY DEF RecvDone
  <1>2. ASSUME NEW x \in {"ok", "bad"} PROVE Kept(S, T(x)) /\ Shape(T(x))
    BY <1>0 DEF Kept, Good, Shape, Started, RepliedOK, Got, GotEarly, Ended
  <1> HIDE DEF S, T, g
  <1>3. ASSUME NEW x \in {"ok", "bad"}
        PROVE  /\ Kept(S, Unref(T(x), w, g))
               /\ Kept(S, Unref(NodeFails(T(x), w), w, g))
    <2>1. Kept(S, NodeFails(T(x), w)) /\ Shape(NodeFails(T(x), w))
      BY <1>2, NodeFailsKept, KeptTransitive DEF Kept
    <2>2. QED BY <1>2, <2>1, UnrefKept, KeptTransitive
  <1>4. QED BY <1>0, <1>1, <1>3, StepKeptIInv DEF S

\* A request that never arrives is never answered.
LEMMA RequestLostIInv ==
    ASSUME IInv, NEW s \in Steps, RequestLost(s)
    PROVE  IInv'
  <1>0. Good(Parts, step[s]) /\ Shape(step[s]) /\ setup' = setup
    BY DEF IInv, Good, RequestLost
  <1>1. CASE \E w \in Workers :
                /\ step[s].run[w].server = "sent"
                /\ step' = [step EXCEPT ![s].run[w].server = "gone"]
    <2>1. PICK w \in Workers :
             /\ step[s].run[w].server = "sent"
             /\ step' = [step EXCEPT ![s] =
                   [step[s] EXCEPT !.run[w].server = "gone"]]
      BY <1>1 DEF IInv
    <2>2. Kept(step[s], [step[s] EXCEPT !.run[w].server = "gone"])
      BY <1>0, <2>1 DEF Kept, Shape, Started, RepliedOK, Got, GotEarly
    <2>3. QED BY <1>0, <2>1, <2>2, StepKeptIInv
  <1>2. CASE \E e \in Edges :
                step' = [step EXCEPT ![s].recv[e].server = "gone"]
    <2>1. PICK e \in Edges : step' = [step EXCEPT ![s] =
                                [step[s] EXCEPT !.recv[e].server = "gone"]]
      BY <1>2 DEF IInv
    <2>2. Kept(step[s], [step[s] EXCEPT !.recv[e].server = "gone"])
      BY <1>0 DEF Kept, Shape, Started, RepliedOK, Got, GotEarly
    <2>3. QED BY <1>0, <2>1, <2>2, StepKeptIInv
  <1>3. QED BY <1>1, <1>2 DEF RequestLost

\* Compute goes on to the sends only with every input.
LEMMA ComputeIInv ==
    ASSUME IInv, NEW s \in Steps, NEW w \in Workers, Compute(s, w)
    PROVE  IInv'
  <1> DEFINE S == step[s]
             T == [S EXCEPT !.exec[w].pc = "send"]
  <1>0. /\ Good(Parts, S) /\ Shape(S) /\ setup' = setup
        /\ S.exec[w].pc = "run"
        /\ \A e \in In(w) : S.recv[e].got = "ok"
    BY DEF IInv, Good, Compute
  <1>1. \/ step' = [step EXCEPT ![s] = T]
        \/ step' = [step EXCEPT ![s] = NodeFails(S, w)]
    BY DEF IInv, Compute
  <1>2. CASE step' = [step EXCEPT ![s] = T]
    <2>1. /\ Shape(T) /\ T.completed = S.completed /\ T.result = S.result
          /\ T.status = S.status /\ T.recv = S.recv /\ T.run = S.run
          /\ \A v \in Workers : v # w => T.exec[v] = S.exec[v]
      BY <1>0 DEF Shape
    <2>2. \A e \in Edges : e[2] = w /\ e[1] \in Parts => Got(T, e)
      BY <1>0, <2>1 DEF Good, In, Got, GotEarly
    <2> HIDE DEF S, T
    <2>3. Good(Parts, T)
      BY <1>0, <2>1, <2>2 DEF Good, Started, RepliedOK, Got, GotEarly
    <2>4. QED BY <1>0, <1>2, <2>3, StepIInv
  <1>3. CASE step' = [step EXCEPT ![s] = NodeFails(S, w)]
    BY <1>0, <1>3, NodeFailsKept, StepKeptIInv
  <1>4. QED BY <1>1, <1>2, <1>3

\* Send fails, answers the request that waits, or buffers the tensor.
LEMMA SendIInv ==
    ASSUME IInv, NEW s \in Steps, NEW e \in Edges, Send(s, e)
    PROVE  IInv'
  <1> DEFINE R == step[s]
             w == e[1]
             S == [R EXCEPT !.exec[w].out = @ \cup {e}]
             g == S.exec[w].rendez
             T == [Unref(S, w, g) EXCEPT !.recv[e] = Answer(@, "ok")]
             U == [S EXCEPT !.rendez[w][g].sent = @ \cup {e}]
  <1>0. Shape(R) /\ setup' = setup
    BY DEF IInv, Good, Send
  <1>1. step' \in {[step EXCEPT ![s] = NodeFails(S, w)],
                   [step EXCEPT ![s] = T], [step EXCEPT ![s] = U]}
    BY DEF Send
  <1>2. Kept(R, S) /\ Shape(S)
    BY <1>0 DEF Kept, Shape, Started, RepliedOK, Got, GotEarly
  <1> HIDE DEF R, S, g
  <1>3. Kept(R, NodeFails(S, w))
    BY <1>2, NodeFailsKept, KeptTransitive
  <1>4. Kept(R, T)
    <2> DEFINE V == Unref(S, w, g)
    <2>1. Kept(R, V) /\ Shape(V)
      BY <1>2, UnrefKept, KeptTransitive DEF Kept
    <2> HIDE DEF V
    <2>2. Kept(V, [V EXCEPT !.recv[e] = Answer(@, "ok")])
      BY <2>1 DEF Kept, Shape, Started, RepliedOK, Got, GotEarly, Answer
    <2>3. QED BY <2>1, <2>2, KeptTransitive DEF V
  <1>5. Kept(R, U)
    <2>1. Kept(S, U)
      BY <1>2 DEF Kept, Shape, Started, RepliedOK, Got, GotEarly
    <2>2. QED BY <1>2, <2>1, KeptTransitive
  <1> HIDE DEF T, U
  <1>6. QED BY <1>0, <1>1, <1>3, <1>4, <1>5, StepKeptIInv DEF R

\* RunAllDone answers OK, and completes, after a partition that has sent all.
LEMMA RunAllDoneIInv ==
    ASSUME IInv, NEW s \in Steps, NEW w \in Workers, RunAllDone(s, w)
    PROVE  IInv'
  <1> DEFINE S == step[s]
             x == S.exec[w]
             good == x.ok /\ (w \in Fetching => ~S.rendez[w][x.rendez].bad)
             reply == IF good THEN "ok" ELSE "bad"
             done == IF good THEN S.completed \cup {w} ELSE S.completed
             T == [S EXCEPT !.run[w] = Answer(@, IF good THEN "ok" ELSE "bad"),
                            !.exec[w].pc = "replied",
                            !.completed = IF good THEN @ \cup {w} ELSE @]
  <1>0. Good(Parts, S) /\ Shape(S) /\ setup' = setup
    BY DEF IInv, Good, RunAllDone
  <1>a. S.exec[w].pc \in {"run", "send"}
    BY DEF RunAllDone
  <1>b. \/ done = S.completed /\ reply = "bad"
        \/ done = S.completed \cup {w} /\ S.exec[w].pc = "send"
    BY DEF RunAllDone
  <1>3. step' = [step EXCEPT ![s] = T]
    BY Zenon DEF RunAllDone
  <1> HIDE DEF x, good
  <1>1. /\ Shape(T) /\ T.result = S.result /\ T.status = S.status
        /\ T.recv = S.recv /\ T.exec[w].pc = "replied"
        /\ T.run[w].client = S.run[w].client
        /\ T.run[w].reply = reply /\ T.completed = done
        /\ \A v \in Workers : v # w =>
              T.exec[v] = S.exec[v] /\ T.run[v] = S.run[v]
    <2>1. /\ DOMAIN T = DOMAIN S /\ T.completed = done
          /\ T.result = S.result /\ T.status = S.status /\ T.recv = S.recv
          /\ T.exec = [S.exec EXCEPT ![w].pc = "replied"]
          /\ T.run = [S.run EXCEPT ![w] = Answer(@, reply)]
      BY <1>0 DEF Shape
    <2> HIDE DEF S, T, reply, done
    <2>2. QED BY <1>0, <2>1 DEF Shape, Answer
  <1> HIDE DEF reply, done
  <1>2. \/ T.completed = S.completed /\ T.run[w].reply = "bad"
        \/ T.completed = S.completed \cup {w} /\ S.exec[w].pc = "send"
    BY <1>1, <1>b
  <1> HIDE DEF S, T
  <1>4. w \in Parts
    BY <1>0, <1>a DEF Good, Started
  <1>5. CASE T.completed = S.completed /\ T.run[w].reply = "bad"
    <2>1. Kept(S, T)
      BY <1>1, <1>a, <1>5 DEF Kept, Started, RepliedOK, Got, GotEarly
    <2>2. QED BY <1>0, <1>3, <2>1, KeptGood, StepIInv
  <1>6. CASE T.completed = S.completed \cup {w} /\ S.exec[w].pc = "send"
    <2>1. T.completed \subseteq Parts /\ (T.result = "ok" => T.completed = Parts)
      BY <1>0, <1>1, <1>4, <1>6 DEF Good
    <2>2. Good(Parts, T)
      BY <1>0, <1>1, <1>4, <1>6, <2>1
         DEF Good, Started, RepliedOK, Got, GotEarly
    <2>3. QED BY <1>0, <1>3, <2>2, StepIInv
  <1>7. QED BY <1>2, <1>5, <1>6

\* UnrefAll gives up what the execution held.
LEMMA UnrefAllIInv ==
    ASSUME IInv, NEW s \in Steps, NEW w \in Workers, UnrefAll(s, w)
    PROVE  IInv'
  <1> DEFINE S == step[s]
             T == Unref(S, w, S.exec[w].rendez)
             U == [T EXCEPT !.exec[w] = NoExec]
  <1>0. Shape(S) /\ setup' = setup /\ step' = [step EXCEPT ![s] = U]
    BY DEF IInv, Good, UnrefAll
  <1>1. Kept(S, T) /\ Shape(T)
    BY <1>0, UnrefKept DEF Kept
  <1> HIDE DEF T
  <1>2. Kept(T, U)
    BY <1>1 DEF Kept, Shape, Started, RepliedOK, Got, GotEarly, NoExec
  <1>3. QED BY <1>0, <1>1, <1>2, KeptTransitive, StepKeptIInv

\* CleanupGraph drops the rendezvous of the step, or fails.
LEMMA CleanupGraphIInv ==
    ASSUME IInv, NEW s \in Steps, NEW w \in Workers, CleanupGraph(s, w)
    PROVE  IInv'
  <1> DEFINE S == step[s]
             T == Cleanup(S, w)
  <1>0. Shape(S) /\ setup' = setup
    BY DEF IInv, Good, CleanupGraph
  <1>1. \/ step' = [step EXCEPT ![s] = [T EXCEPT !.cleanup[w] = "done"]]
        \/ step' = [step EXCEPT ![s] = [S EXCEPT !.cleanup[w] = "failed"]]
    BY DEF IInv, CleanupGraph
  <1>2. Kept(S, T) /\ Shape(T)
    BY <1>0, CleanupKept DEF Kept
  <1> HIDE DEF T
  <1>3. /\ Kept(T, [T EXCEPT !.cleanup[w] = "done"])
        /\ Kept(S, [S EXCEPT !.cleanup[w] = "failed"])
    BY <1>0, <1>2 DEF Kept, Shape, Started, RepliedOK, Got, GotEarly
  <1>4. QED BY <1>0, <1>1, <1>2, <1>3, KeptTransitive, StepKeptIInv

\* A crash takes back no tensor that was received and completes nothing.
LEMMA RestartIInv ==
    ASSUME IInv, NEW w \in Workers, Restart(w)
    PROVE  IInv'
  <1>1. ASSUME NEW s \in Steps PROVE Good(Parts, step'[s])
    <2> DEFINE S == step[s]
               T == step'[s]
               c(e) == S.recv[e]
    <2>0. Good(Parts, S) /\ Shape(S)
      BY <1>1 DEF IInv, Good
    <2>1. /\ DOMAIN T = DOMAIN S /\ T.completed = S.completed
          /\ T.result = S.result /\ T.status = S.status
          /\ T.exec = [S.exec EXCEPT ![w] = NoExec]
          /\ T.run = [S.run EXCEPT ![w].server =
                         IF @ = "working" THEN "gone" ELSE @]
          /\ T.recv = [e \in Edges |->
                CASE e \in Out(w) /\ c(e).server = "working" ->
                       [c(e) EXCEPT !.server = "gone"]
                  [] e \in In(w) /\ c(e).client \in {"registered", "flying"} ->
                       [Ended(c(e)) EXCEPT !.got = "bad"]
                  [] OTHER -> c(e)]
      BY <1>1, <2>0 DEF Restart, Shape
    <2> HIDE DEF S, T
    <2>2. ASSUME NEW e \in Edges
          PROVE  /\ DOMAIN T.recv[e] = DOMAIN S.recv[e]
                 /\ Got(S, e) => Got(T, e)
                 /\ GotEarly(T, e) => GotEarly(S, e)
      <3>1. \/ T.recv[e] = [c(e) EXCEPT !.server = "gone"]
            \/ /\ c(e).client \in {"registered", "flying"}
               /\ T.recv[e] = [Ended(c(e)) EXCEPT !.got = "bad"]
            \/ T.recv[e] = c(e)
        BY <2>1
      <3>2. QED BY <2>0, <3>1 DEF Shape, Got, GotEarly, Ended
    <2>3. DOMAIN T.recv = Edges
      BY <2>1
    <2>4. /\ DOMAIN T.run = Workers /\ DOMAIN T.exec = Workers
          /\ \A v \in Workers :
                /\ DOMAIN T.run[v] = DOMAIN S.run[v]
                /\ DOMAIN T.exec[v] = DOMAIN S.exec[v]
                /\ Started(T, v) => Started(S, v)
                /\ RepliedOK(T, v) => RepliedOK(S, v)
                /\ T.run[v].client = S.run[v].client
                /\ T.exec[v].pc = "send" => S.exec[v].pc = "send"
      <3>1. /\ DOMAIN T.run = Workers /\ DOMAIN T.exec = Workers
            /\ T.exec[w] = NoExec
            /\ T.run[w] = [S.run[w] EXCEPT !.server =
                              IF @ = "working" THEN "gone" ELSE @]
            /\ \A v \in Workers : v # w =>
                  T.exec[v] = S.exec[v] /\ T.run[v] = S.run[v]
        BY <2>0, <2>1 DEF Shape
      <3>2. /\ DOMAIN T.run[w] = DOMAIN S.run[w]
            /\ T.run[w].client = S.run[w].client
            /\ T.run[w].reply = S.run[w].reply
            /\ T.run[w].server # S.run[w].server =>
                  S.run[w].server = "working" /\ T.run[w].server = "gone"
        BY <2>0, <3>1 DEF Shape
      <3>3. DOMAIN T.exec[w] = DOMAIN S.exec[w] /\ T.exec[w].pc = "none"
        BY <2>0, <3>1 DEF Shape, NoExec
      <3>4. QED BY <3>1, <3>2, <3>3 DEF Started, RepliedOK
    <2>5. Shape(T)
      BY <2>0, <2>1, <2>2, <2>3, <2>4 DEF Shape
    <2>6. Kept(S, T)
      BY <2>1, <2>2, <2>4, <2>5 DEF Kept
    <2>7. QED BY <2>0, <2>6, KeptGood DEF T
  <1>2. QED BY <1>1 DEF IInv, Restart, Parts

-----------------------------------------------------------------------------
\* Every step preserves the inductive invariant.
LEMMA NextIInv == IInv /\ [Next]_vars => IInv'
  <1> SUFFICES ASSUME IInv, [Next]_vars PROVE IInv'
    OBVIOUS
  <1>1. CASE UNCHANGED <<setup, step>>
    BY <1>1 DEF IInv, Parts
  <1>2. ASSUME NEW s \in Steps,
               \/ Run(s) \/ RunOnDeleted(s) \/ RegisterPartitions(s)
               \/ UseInitResult(s) \/ RegisterCancel(s) \/ RunPartitions(s)
               \/ RequestLost(s) \/ RunStep(s) \/ CancelRunStep(s)
        PROVE  IInv'
    BY <1>1, <1>2, MasterIInv, CancelIInv, RunPartitionsIInv, RequestLostIInv
       DEF RegisterPartitions
  <1>3. ASSUME NEW s \in Steps, NEW w \in Workers,
               \/ RunGraphAsync(s, w) \/ WhenDone(s, w) \/ DoRunGraph(s, w)
               \/ RunGraphCancelled(s, w) \/ AbortLater(s, w) \/ Compute(s, w)
               \/ RunAllDone(s, w) \/ UnrefAll(s, w) \/ CleanupGraph(s, w)
        PROVE  IInv'
    BY <1>3, RunGraphAsyncIInv, WhenDoneIInv, DoRunGraphIInv,
       RunGraphCancelledIInv, AbortLaterIInv, ComputeIInv, RunAllDoneIInv,
       UnrefAllIInv, CleanupGraphIInv
  <1>4. ASSUME NEW s \in Steps, NEW e \in Edges,
               \/ RecvAsync(s, e) \/ StartCall(s, e) \/ DoRecvTensorRaw(s, e)
               \/ RecvTensorCancelled(s, e) \/ RecvDone(s, e) \/ Send(s, e)
        PROVE  IInv'
    BY <1>4, RecvAsyncIInv, StartCallIInv, DoRecvTensorRawIInv,
       RecvTensorCancelledIInv, RecvDoneIInv, SendIInv
  <1>5. ASSUME NEW w \in Workers, RegisterGraph(w) \/ DeregisterGraph(w)
        PROVE  IInv'
    BY <1>1, <1>5 DEF RegisterGraph, DeregisterGraph
  <1>6. CASE CloseCancels \/ Close \/ CloseSession
    BY <1>1, <1>6, CloseCancelsIInv DEF Close, CloseSession
  <1>7. ASSUME NEW w \in Parts, Restart(w) PROVE IInv'
    BY <1>7, RestartIInv DEF IInv, Parts
  <1>8. CASE UNCHANGED vars
    BY <1>1, <1>8 DEF vars
  <1>9. QED
    BY <1>2, <1>3, <1>4, <1>5, <1>6, <1>7, <1>8 DEF Next, Progress

\* The inductive invariant holds of every reachable state.
LEMMA SpecIInv == Spec => []IInv
  BY InitIInv, NextIInv, PTL DEF Spec

(***************************************************************************)
(* MasterSession::Run returns OK only if every partition ran to its end    *)
(* with every tensor it was to receive: no lost, cancelled or late call,   *)
(* no abort and no crash of a worker makes a step succeed.                 *)
(***************************************************************************)
THEOREM StepTruthful == Spec => []TruthfulStep
  <1>1. ASSUME IInv PROVE TruthfulStep
    <2> SUFFICES ASSUME NEW s \in Steps, step[s].result = "ok"
                 PROVE  /\ step[s].completed = Parts
                        /\ \A w \in Parts : \A e \in In(w) :
                              step[s].recv[e].got = "ok"
      BY DEF TruthfulStep
    <2>1. Good(Parts, step[s]) /\ Parts \subseteq Workers
      BY <1>1 DEF IInv, Parts
    <2>2. step[s].completed = Parts
      BY <2>1 DEF Good
    <2>3. QED BY <2>1, <2>2 DEF Good, Got, In
  <1>2. QED BY <1>1, SpecIInv, PTL

-----------------------------------------------------------------------------
(* References of the rendezvous *)

\* Without a reference too many it does not matter where it would be.
LEMMA HeldAnywhere ==
    ASSUME NEW P, NEW S, NEW v, NEW h, NEW w, NEW g, Held(P, S, v, h, 0)
    PROVE  Held(P, S, w, g, 0)
  BY DEF Held, Counts

\* The calls are finitely many.
LEMMA CallsFinite ==
    ASSUME NEW P, NEW S, NEW w, NEW g
    PROVE  /\ IsFiniteSet(Waits(P, S, w, g)) /\ Cardinality(Waits(P, S, w, g)) \in Nat
           /\ IsFiniteSet(Flying(P, S, w)) /\ Cardinality(Flying(P, S, w)) \in Nat
  <1>1. Waits(P, S, w, g) \subseteq Edges /\ Flying(P, S, w) \subseteq Edges
    BY DEF Waits, Flying
  <1>2. QED BY <1>1, FS_Subset, FS_CardinalityType

\* What is owed to a rendezvous is a number.
LEMMA OwedInt ==
    ASSUME NEW P, NEW S, Typed(S), NEW w \in Workers, NEW g \in DOMAIN S.rendez[w]
    PROVE  Owed(P, S, w, g) \in Int
  <1>1. S.rendez[w] \in Seq(RendezvousType)
    BY DEF Typed
  <1>2. S.rendez[w][g].aborts \in Nat
    <2>1. S.rendez[w][g] \in RendezvousType
      BY <1>1
    <2>2. QED BY <2>1 DEF RendezvousType
  <1>3. QED BY <1>2, CallsFinite DEF Owed, Holds

\* One rendezvous object is replaced by another.
Put(R, v, h, r) == [R EXCEPT ![v][h] = r]

\* ... and nothing else changes.
Replaces(R, v, h, r, Q) ==
    /\ Q \in [Workers -> Seq(RendezvousType)] /\ Q[v][h] = r
    /\ \A w \in Workers : Len(Q[w]) = Len(R[w]) /\ DOMAIN Q[w] = DOMAIN R[w]
    /\ \A w \in Workers : \A g \in DOMAIN R[w] : w # v \/ g # h => Q[w][g] = R[w][g]

\* What a replacement leaves alone.
LEMMA Replaced ==
    ASSUME NEW R \in [Workers -> Seq(RendezvousType)], NEW v \in Workers,
           NEW h \in DOMAIN R[v], NEW r \in RendezvousType
    PROVE  Replaces(R, v, h, r, Put(R, v, h, r))
  <1> DEFINE q == [R[v] EXCEPT ![h] = r]
  <1>1. R[v] \in Seq(RendezvousType) /\ h \in 1..Len(R[v])
    OBVIOUS
  <1>2. /\ q \in Seq(RendezvousType) /\ Len(q) = Len(R[v]) /\ q[h] = r
        /\ DOMAIN q = DOMAIN R[v]
        /\ \A g \in DOMAIN R[v] : g # h => q[g] = R[v][g]
    BY <1>1
  <1>3. Put(R, v, h, r) = [R EXCEPT ![v] = q]
    BY DEF Put
  <1> HIDE DEF q
  <1>4. QED BY <1>1, <1>2, <1>3 DEF Replaces

\* Calls that may be in active_ of the rendezvous h.
MayBeActive(S, v, h, A) ==
    \A e \in A : \/ e \in S.rendez[v][h].active
                 \/ e[2] = v /\ Here(S, v, h) /\ Underway(S, e)

\* The same for the step: the references it lacks or has too many change with it.
LEMMA HeldReplaced ==
    ASSUME NEW P, NEW S, NEW v \in Workers, NEW h, NEW k \in Int, Held(P, S, v, h, k),
           h \in DOMAIN S.rendez[v], NEW r \in RendezvousType,
           MayBeActive(S, v, h, r.active),
           NEW T, Shape(T), T.rendez = Put(S.rendez, v, h, r),
           T.table = S.table, T.recv = S.recv, T.exec = S.exec, T.run = S.run
    PROVE  Held(P, T, v, h, k + (r.refs - S.rendez[v][h].refs)
                              - (r.aborts - S.rendez[v][h].aborts))
  <1> DEFINE o == S.rendez[v][h]
             j == k + (r.refs - o.refs) - (r.aborts - o.aborts)
  <1>0. Typed(S) /\ Linked(P, S) /\ Counts(P, S, v, h, k)
    BY DEF Held
  <1>a. Replaces(S.rendez, v, h, r, T.rendez)
    BY <1>0, Replaced DEF Typed
  <1>1. /\ T.rendez \in [Workers -> Seq(RendezvousType)] /\ T.rendez[v][h] = r
        /\ \A w \in Workers : Len(T.rendez[w]) = Len(S.rendez[w])
        /\ \A w \in Workers : DOMAIN T.rendez[w] = DOMAIN S.rendez[w]
        /\ \A w \in Workers : \A g \in DOMAIN S.rendez[w] :
              w # v \/ g # h => T.rendez[w][g] = S.rendez[w][g]
    BY <1>a DEF Replaces
  <1>2. Typed(T)
    BY <1>0, <1>1 DEF Typed
  <1>3. Linked(P, T)
    <2>1. \A e \in Edges : RecvLinks(P, T, e)
      BY <1>0, <1>1 DEF Linked, RecvLinks, Underway
    <2>2. \A w \in Workers : ExecLinks(T, w)
      BY <1>0, <1>1 DEF Linked, ExecLinks
    <2>3. ASSUME NEW w \in Workers, NEW g \in DOMAIN T.rendez[w] PROVE ActiveLinks(T, w, g)
      <3>1. ActiveLinks(S, w, g) /\ g \in DOMAIN S.rendez[w]
        BY <1>0, <1>1, <2>3 DEF Linked
      <3>2. \A e : Underway(T, e) = Underway(S, e)
        BY DEF Underway
      <3>3. Here(T, w, g) = Here(S, w, g)
        BY DEF Here
      <3>4. CASE w = v /\ g = h
        BY <1>1, <3>1, <3>2, <3>3, <3>4 DEF ActiveLinks, MayBeActive
      <3>5. CASE w # v \/ g # h
        BY <1>1, <3>1, <3>2, <3>3, <3>5 DEF ActiveLinks
      <3>6. QED BY <3>4, <3>5
    <2>4. QED BY <2>1, <2>2, <2>3 DEF Linked
  <1>4. ASSUME NEW w \in Workers, NEW g \in DOMAIN T.rendez[w]
        PROVE  T.rendez[w][g].refs = Owed(P, T, w, g) + (IF w = v /\ g = h THEN j ELSE 0)
    <2>1. /\ g \in DOMAIN S.rendez[w]
          /\ S.rendez[w][g].refs = Owed(P, S, w, g) + (IF w = v /\ g = h THEN k ELSE 0)
      BY <1>0, <1>1, <1>4 DEF Counts
    <2>2. /\ Waits(P, T, w, g) = Waits(P, S, w, g) /\ Flying(P, T, w) = Flying(P, S, w)
          /\ Here(T, w, g) = Here(S, w, g)
      BY DEF Waits, Flying, Here
    <2>3. CASE w = v /\ g = h
      <3>1. o \in RendezvousType /\ T.rendez[w][g] = r /\ S.rendez[w][g] = o
        BY <1>0, <1>1, <2>1, <2>3 DEF Typed
      <3>2. o.refs \in Int /\ o.aborts \in Nat /\ r.refs \in Int /\ r.aborts \in Nat
        BY <3>1 DEF RendezvousType
      <3>3. Owed(P, T, w, g) = Owed(P, S, w, g) + (r.aborts - o.aborts)
        BY <2>2, <3>1, <3>2, CallsFinite DEF Owed, Holds
      <3>4. Owed(P, S, w, g) \in Int
        BY <1>0, <2>1, OwedInt
      <3> HIDE DEF o
      <3>5. QED BY <2>1, <2>3, <3>1, <3>2, <3>3, <3>4
    <2>4. CASE w # v \/ g # h
      <3>1. T.rendez[w][g] = S.rendez[w][g]
        BY <1>1, <2>1, <2>4
      <3>2. Owed(P, T, w, g) = Owed(P, S, w, g)
        BY <2>2, <3>1 DEF Owed
      <3>3. QED BY <2>1, <2>4, <3>1, <3>2
    <2>5. QED BY <2>3, <2>4
  <1>5. Counts(P, T, v, h, j)
    BY <1>4 DEF Counts
  <1>6. QED BY <1>2, <1>3, <1>5 DEF Held

\* What a Held step has of one of its rendezvous.
LEMMA HeldObject ==
    ASSUME NEW P, NEW S, NEW x, NEW y, NEW k, Held(P, S, x, y, k),
           NEW v \in Workers, NEW h \in DOMAIN S.rendez[v]
    PROVE  /\ S.rendez[v][h] \in RendezvousType
           /\ S.rendez[v][h].refs \in Int /\ S.rendez[v][h].aborts \in Nat
           /\ Shape(S)
  <1>1. S.rendez[v] \in Seq(RendezvousType) /\ Shape(S)
    BY DEF Held, Typed
  <1>2. S.rendez[v][h] \in RendezvousType
    BY <1>1
  <1>3. QED BY <1>1, <1>2 DEF RendezvousType

\* A reference is taken.
LEMMA HeldRef ==
    ASSUME NEW P, NEW S, NEW v \in Workers, NEW h, NEW k \in Int, Held(P, S, v, h, k),
           h \in DOMAIN S.rendez[v]
    PROVE  Held(P, [S EXCEPT !.rendez[v][h].refs = @ + 1], v, h, k + 1)
  <1> DEFINE o == S.rendez[v][h]
             r == [o EXCEPT !.refs = @ + 1]
             T == [S EXCEPT !.rendez[v][h].refs = @ + 1]
  <1>1. o \in RendezvousType /\ o.refs \in Int /\ Shape(S)
    BY HeldObject
  <1>2. /\ r \in RendezvousType /\ r.active = o.active
        /\ r.refs = o.refs + 1 /\ r.aborts = o.aborts
    BY <1>1 DEF RendezvousType
  <1>3. /\ T.rendez = Put(S.rendez, v, h, r) /\ T.table = S.table
        /\ T.recv = S.recv /\ T.exec = S.exec /\ T.run = S.run
        /\ DOMAIN T = DOMAIN S
    BY <1>1 DEF Put, Shape
  <1>4. Shape(T)
    BY <1>1, <1>3 DEF Shape
  <1>5. o.aborts \in Nat
    BY <1>1 DEF RendezvousType
  <1> HIDE DEF r, T
  <1>b. MayBeActive(S, v, h, r.active)
    BY <1>2 DEF MayBeActive
  <1>6. Held(P, T, v, h, k + (r.refs - o.refs) - (r.aborts - o.aborts))
    BY <1>2, <1>3, <1>4, <1>b, HeldReplaced
  <1>7. k + (r.refs - o.refs) - (r.aborts - o.aborts) = k + 1
    BY <1>1, <1>2, <1>5
  <1>8. QED BY <1>6, <1>7 DEF T

\* A reference is given up.
LEMMA HeldUnref ==
    ASSUME NEW P, NEW S, NEW v \in Workers, NEW h, NEW k \in Int, Held(P, S, v, h, k),
           h \in DOMAIN S.rendez[v]
    PROVE  /\ Held(P, Unref(S, v, h), v, h, k - 1)
           /\ \A w \in Workers : DOMAIN Unref(S, v, h).rendez[w] = DOMAIN S.rendez[w]
  <1> DEFINE o == S.rendez[v][h]
             r == [o EXCEPT !.refs = @ - 1]
             T == Unref(S, v, h)
  <1>1. o \in RendezvousType /\ o.refs \in Int /\ Shape(S)
    BY HeldObject
  <1>2. /\ r \in RendezvousType /\ r.active = o.active
        /\ r.refs = o.refs - 1 /\ r.aborts = o.aborts
    BY <1>1 DEF RendezvousType
  <1>3. /\ T.rendez = Put(S.rendez, v, h, r) /\ T.table = S.table
        /\ T.recv = S.recv /\ T.exec = S.exec /\ T.run = S.run
        /\ DOMAIN T = DOMAIN S
    BY <1>1 DEF Put, Shape, Unref
  <1>4. Shape(T)
    BY <1>1, <1>3 DEF Shape
  <1>5. o.aborts \in Nat
    BY <1>1 DEF RendezvousType
  <1> HIDE DEF r, T
  <1>b. MayBeActive(S, v, h, r.active)
    BY <1>2 DEF MayBeActive
  <1>6. Held(P, T, v, h, k + (r.refs - o.refs) - (r.aborts - o.aborts))
    BY <1>2, <1>3, <1>4, <1>b, HeldReplaced
  <1>7. k + (r.refs - o.refs) - (r.aborts - o.aborts) = k - 1
    BY <1>1, <1>2, <1>5
  <1>a. S.rendez \in [Workers -> Seq(RendezvousType)]
    BY DEF Held, Typed
  <1>8. Replaces(S.rendez, v, h, r, T.rendez)
    BY <1>2, <1>3, <1>a, Replaced
  <1>9. QED BY <1>6, <1>7, <1>8 DEF T, Replaces

\* AbortStep schedules an abort, or the abort begins: d is 1 or -1.
AddAborts(S, v, h, d) == [S EXCEPT !.rendez[v][h].aborts = @ + d]

\* An abort that is scheduled is owed one reference.
LEMMA HeldAborts ==
    ASSUME NEW P, NEW S, NEW v \in Workers, NEW h, NEW k \in Int, Held(P, S, v, h, k),
           h \in DOMAIN S.rendez[v],
           NEW d \in Int, S.rendez[v][h].aborts + d \in Nat,
           NEW T, T = AddAborts(S, v, h, d)
    PROVE  /\ Held(P, T, v, h, k - d)
           /\ \A w \in Workers : DOMAIN T.rendez[w] = DOMAIN S.rendez[w]
  <1> DEFINE o == S.rendez[v][h]
             r == [o EXCEPT !.aborts = @ + d]
  <1>1. o \in RendezvousType /\ o.aborts \in Nat /\ Shape(S)
    BY HeldObject
  <1>2. /\ r \in RendezvousType /\ r.active = o.active
        /\ r.refs = o.refs /\ r.aborts = o.aborts + d
    BY <1>1 DEF RendezvousType
  <1>3. /\ T.rendez = Put(S.rendez, v, h, r) /\ T.table = S.table
        /\ T.recv = S.recv /\ T.exec = S.exec /\ T.run = S.run
        /\ DOMAIN T = DOMAIN S
    BY <1>1 DEF Put, Shape, AddAborts
  <1>4. Shape(T)
    BY <1>1, <1>3 DEF Shape
  <1>5. o.refs \in Int
    BY <1>1 DEF RendezvousType
  <1> HIDE DEF r
  <1>b. MayBeActive(S, v, h, r.active)
    BY <1>2 DEF MayBeActive
  <1>6. Held(P, T, v, h, k + (r.refs - o.refs) - (r.aborts - o.aborts))
    BY <1>2, <1>3, <1>4, <1>b, HeldReplaced
  <1>7. k + (r.refs - o.refs) - (r.aborts - o.aborts) = k - d
    BY <1>1, <1>2, <1>5
  <1>a. S.rendez \in [Workers -> Seq(RendezvousType)]
    BY DEF Held, Typed
  <1>8. Replaces(S.rendez, v, h, r, T.rendez)
    BY <1>2, <1>3, <1>a, Replaced
  <1>9. QED BY <1>6, <1>7, <1>8 DEF Replaces

\* All but the rendezvous is as it was.
SameRest(S, T) ==
    /\ T.recv = S.recv /\ T.exec = S.exec /\ T.run = S.run
    /\ T.pc = S.pc /\ T.cleanup = S.cleanup

\* A rendezvous that is made has the reference of the table.
LEMMA CreateHeld ==
    ASSUME NEW P, NEW S, NEW w \in Workers, Held(P, S, 0, 0, 0)
    PROVE  LET T == Create(S, w)
           IN  /\ Held(P, T, 0, 0, 0) /\ SameRest(S, T)
               /\ T.table[w] \in DOMAIN T.rendez[w]
  <1> DEFINE T == Create(S, w)
             n == Len(S.rendez[w]) + 1
  <1>0. Typed(S) /\ Linked(P, S) /\ Counts(P, S, 0, 0, 0)
    BY DEF Held
  <1>1. /\ S.rendez \in [Workers -> Seq(RendezvousType)]
        /\ S.rendez[w] \in Seq(RendezvousType) /\ S.table[w] \in Nat
        /\ S.table[w] <= Len(S.rendez[w])
        /\ DOMAIN S.rendez[w] = 1..Len(S.rendez[w]) /\ Len(S.rendez[w]) \in Nat
    BY <1>0 DEF Typed
  <1>2. CASE S.table[w] # 0
    <2>1. T = S
      BY <1>2 DEF Create
    <2>2. S.table[w] \in DOMAIN S.rendez[w]
      BY <1>1, <1>2
    <2>3. QED BY <2>1, <2>2 DEF SameRest
  <1>3. CASE S.table[w] = 0
    <2>1. /\ T.rendez = [S.rendez EXCEPT ![w] = Append(S.rendez[w], NewRendezvous)]
          /\ T.table = [S.table EXCEPT ![w] = n]
          /\ SameRest(S, T)
      BY <1>0, <1>3 DEF Create, Typed, Shape, SameRest
    <2>2. Shape(T)
      BY <1>0, CreateKept DEF Typed, Kept
    <2> HIDE DEF T
    <2>3. NewRendezvous \in RendezvousType /\ NewRendezvous.active = {}
          /\ NewRendezvous.refs = 1 /\ NewRendezvous.aborts = 0
      BY DEF NewRendezvous, RendezvousType
    <2> DEFINE q == Append(S.rendez[w], NewRendezvous)
    <2>4. /\ q \in Seq(RendezvousType) /\ Len(q) = n /\ DOMAIN q = 1..n
          /\ q[n] = NewRendezvous
          /\ \A g \in DOMAIN S.rendez[w] : g \in DOMAIN q /\ q[g] = S.rendez[w][g]
          /\ \A g \in DOMAIN q : g \in DOMAIN S.rendez[w] \/ g = n
          /\ n \notin DOMAIN S.rendez[w]
      BY <1>1, <2>3
    <2> HIDE DEF n, q
    <2>5. /\ T.rendez \in [Workers -> Seq(RendezvousType)] /\ T.rendez[w] = q
          /\ \A v \in Workers : v # w => T.rendez[v] = S.rendez[v]
          /\ T.table[w] = n
          /\ \A v \in Workers : v # w => T.table[v] = S.table[v]
      BY <1>0, <1>1, <2>1, <2>4 DEF q, Typed
    <2>6. Typed(T)
      <3>1. T.table \in [Workers -> Nat]
        BY <1>0, <1>1, <2>1 DEF Typed, n
      <3>2. \A v \in Workers : T.table[v] <= Len(T.rendez[v])
        <4> SUFFICES ASSUME NEW v \in Workers PROVE T.table[v] <= Len(T.rendez[v])
          OBVIOUS
        <4>1. CASE v = w
          BY <1>1, <2>4, <2>5, <4>1 DEF n
        <4>2. CASE v # w
          BY <1>0, <2>5, <4>2 DEF Typed
        <4>3. QED BY <4>1, <4>2
      <3>3. QED BY <2>2, <2>5, <3>1, <3>2 DEF Typed
    <2>7. Linked(P, T)
      <3>1. \A v \in Workers : \A g \in DOMAIN S.rendez[v] : g \in DOMAIN T.rendez[v]
        BY <2>4, <2>5
      <3>2. \A e \in Edges : e[1] \in Workers
        OBVIOUS
      <3>3. \A e \in Edges : RecvLinks(P, T, e)
        BY <1>0, <2>1, <3>1, <3>2 DEF Linked, RecvLinks, Underway, SameRest
      <3>4. \A v \in Workers : ExecLinks(T, v)
        BY <1>0, <2>1, <3>1 DEF Linked, ExecLinks, SameRest
      <3>5. ASSUME NEW v \in Workers, NEW g \in DOMAIN T.rendez[v]
            PROVE  ActiveLinks(T, v, g)
        <4>1. CASE v = w /\ g = n
          BY <2>3, <2>4, <2>5, <4>1 DEF ActiveLinks
        <4>2. CASE ~(v = w /\ g = n)
          <5>1. g \in DOMAIN S.rendez[v] /\ T.rendez[v][g] = S.rendez[v][g]
            BY <2>4, <2>5, <3>5, <4>2
          <5>2. QED BY <1>0, <2>1, <5>1 DEF Linked, ActiveLinks, Here, Underway, SameRest
        <4>3. QED BY <4>1, <4>2
      <3>6. QED BY <3>3, <3>4, <3>5 DEF Linked
    <2>8. ASSUME NEW v \in Workers, NEW g \in DOMAIN T.rendez[v]
          PROVE  T.rendez[v][g].refs = Owed(P, T, v, g)
      <3>1. CASE v = w /\ g = n
        <4>1. ~Here(T, v, g)
          BY <1>0, <2>1, <2>4, <3>1 DEF Here, Linked, ExecLinks, SameRest
        <4>2. Waits(P, T, v, g) = {}
          BY <1>0, <2>1, <2>4, <3>1 DEF Waits, Linked, RecvLinks, SameRest
        <4>3. T.table[v] = g /\ T.rendez[v][g] = NewRendezvous
          BY <2>4, <2>5, <3>1
        <4>4. Cardinality(Waits(P, T, v, g)) = 0
          BY <4>2, FS_EmptySet
        <4>5. QED BY <2>3, <4>1, <4>3, <4>4 DEF Owed, Holds
      <3>2. CASE ~(v = w /\ g = n)
        <4>1. g \in DOMAIN S.rendez[v] /\ T.rendez[v][g] = S.rendez[v][g]
          BY <2>4, <2>5, <2>8, <3>2
        <4>2. S.rendez[v][g].refs = Owed(P, S, v, g)
          <5>1. S.rendez[v][g].refs = Owed(P, S, v, g) + 0
            BY <1>0, <4>1 DEF Counts
          <5>2. QED BY <1>0, <4>1, <5>1, OwedInt
        <4>3. Holds(T.table[v] = g) = Holds(S.table[v] = g)
          BY <1>1, <1>3, <2>4, <2>5, <3>2, <4>1 DEF Holds
        <4>4. /\ Waits(P, T, v, g) = Waits(P, S, v, g) /\ Flying(P, T, v) = Flying(P, S, v)
              /\ Here(T, v, g) = Here(S, v, g)
          BY <2>1 DEF Waits, Flying, Here, SameRest
        <4>5. QED BY <4>1, <4>2, <4>3, <4>4 DEF Owed
      <3>3. QED BY <3>1, <3>2
    <2>9. Counts(P, T, 0, 0, 0)
      <3> SUFFICES ASSUME NEW v \in Workers, NEW g \in DOMAIN T.rendez[v]
                   PROVE  T.rendez[v][g].refs = Owed(P, T, v, g) + 0
        BY DEF Counts
      <3>1. QED BY <2>6, <2>8, OwedInt
    <2>10. T.table[w] \in DOMAIN T.rendez[w]
      BY <1>1, <2>4, <2>5 DEF n
    <2>11. QED BY <2>1, <2>6, <2>7, <2>9, <2>10 DEF Held, T
  <1>4. QED BY <1>2, <1>3, <1>1

\* FindOrCreate takes a reference for its caller.
LEMMA FindOrCreateHeld ==
    ASSUME NEW P, NEW S, NEW w \in Workers, Held(P, S, 0, 0, 0)
    PROVE  LET T == FindOrCreate(S, w)
           IN  /\ Held(P, T, w, T.table[w], 1) /\ SameRest(S, T)
               /\ T.table[w] \in DOMAIN T.rendez[w]
  <1> DEFINE C == Create(S, w)
             h == C.table[w]
             T == [C EXCEPT !.rendez[w][h].refs = @ + 1]
  <1>1. Held(P, C, 0, 0, 0) /\ SameRest(S, C) /\ h \in DOMAIN C.rendez[w]
    BY CreateHeld
  <1>2. T = FindOrCreate(S, w)
    BY DEF FindOrCreate
  <1> HIDE DEF C
  <1>3. Held(P, C, w, h, 0)
    BY <1>1, HeldAnywhere
  <1>4. Held(P, T, w, h, 0 + 1)
    BY <1>1, <1>3, HeldRef
  <1>5. Shape(C) /\ C.rendez \in [Workers -> Seq(RendezvousType)]
    BY <1>1 DEF Held, Typed
  <1>6. T.table = C.table /\ SameRest(S, T) /\ h \in DOMAIN T.rendez[w]
    BY <1>1, <1>5 DEF Shape, SameRest
  <1> HIDE DEF T
  <1>7. QED BY <1>2, <1>4, <1>6

\* AbortStep hands its reference to the abort that comes later.
LEMMA AbortStepHeld ==
    ASSUME NEW P, NEW S, NEW w \in Workers, Held(P, S, 0, 0, 0)
    PROVE  Held(P, AbortStep(S, w), 0, 0, 0) /\ SameRest(S, AbortStep(S, w))
  <1> DEFINE F == FindOrCreate(S, w)
             h == F.table[w]
             T == [F EXCEPT !.rendez[w][h].aborts = @ + 1]
  <1>1. Held(P, F, w, h, 1) /\ SameRest(S, F) /\ h \in DOMAIN F.rendez[w]
    BY FindOrCreateHeld
  <1>2. T = AbortStep(S, w)
    BY DEF AbortStep
  <1> HIDE DEF F
  <1>3. Shape(F) /\ F.rendez[w][h].aborts \in Nat
    BY <1>1, HeldObject
  <1>4. T = AddAborts(F, w, h, 1) /\ F.rendez[w][h].aborts + 1 \in Nat
    BY <1>3 DEF AddAborts
  <1>5. SameRest(S, T)
    BY <1>1, <1>3 DEF Shape, SameRest
  <1> HIDE DEF T, h
  <1>b. 1 \in Int /\ 1 - 1 = 0
    OBVIOUS
  <1>c. Held(P, T, w, h, 1 - 1)
    BY <1>1, <1>4, <1>b, HeldAborts, Zenon
  <1>7. Held(P, T, w, h, 0)
    BY <1>b, <1>c, Zenon
  <1>6. QED BY <1>2, <1>5, <1>7, HeldAnywhere

\* active_ holds calls.
LEMMA ActiveEdges ==
    ASSUME NEW S, Typed(S), NEW w \in Workers, NEW g \in DOMAIN S.rendez[w]
    PROVE  S.rendez[w][g].active \subseteq Edges
  <1>1. S.rendez[w] \in Seq(RendezvousType)
    BY DEF Typed
  <1>2. S.rendez[w][g] \in RendezvousType
    BY <1>1
  <1>3. QED BY <1>2 DEF RendezvousType

\* A rendezvous after StartAbort has answered n requests.
LEMMA AbortedObject ==
    ASSUME NEW o \in RendezvousType, NEW n \in Nat, NEW r,
           r = [o EXCEPT !.bad = TRUE, !.sent = {}, !.active = {}, !.refs = @ - n]
    PROVE  /\ r \in RendezvousType /\ r.active = {} /\ r.refs = o.refs - n
           /\ r.aborts = o.aborts
  <1>1. /\ DOMAIN o = {"refs", "bad", "sent", "active", "aborts"}
        /\ o.refs \in Int /\ o.aborts \in Nat
    BY DEF RendezvousType
  <1>2. r = [refs |-> o.refs - n, bad |-> TRUE, sent |-> {}, active |-> {},
             aborts |-> o.aborts]
    BY <1>1
  <1>3. {} \in SUBSET Edges /\ o.refs - n \in Int
    BY <1>1
  <1>4. r \in RendezvousType
    BY <1>1, <1>2, <1>3 DEF RendezvousType
  <1>5. QED BY <1>2, <1>4

\* A change that no count and no active call depends on.
Framed(P, S, T) ==
    /\ T.rendez = S.rendez /\ T.table = S.table
    /\ \A e \in Edges : /\ T.recv[e].client = "flying" <=> S.recv[e].client = "flying"
                        /\ Underway(S, e) => Underway(T, e)
                        /\ T.recv[e].server = "working" <=> S.recv[e].server = "working"
                        /\ T.recv[e].at = S.recv[e].at
    /\ \A w \in Workers : /\ T.exec[w].pc = "none" <=> S.exec[w].pc = "none"
                          /\ T.exec[w].rendez = S.exec[w].rendez
    /\ \A e \in Edges : RecvLinks(P, T, e)
    /\ \A w \in Workers : ExecLinks(T, w)

\* What is owed depends on nothing but the frame.
LEMMA HeldFrame ==
    ASSUME NEW P, NEW S, NEW T, NEW v, NEW h, NEW k, Held(P, S, v, h, k), Shape(T),
           Framed(P, S, T)
    PROVE  Held(P, T, v, h, k)
  <1>0. Typed(S) /\ Linked(P, S) /\ Counts(P, S, v, h, k)
    BY DEF Held
  <1>1. Typed(T)
    BY <1>0 DEF Typed, Framed
  <1>2. \A w \in Workers : \A g :
           /\ Waits(P, T, w, g) = Waits(P, S, w, g) /\ Flying(P, T, w) = Flying(P, S, w)
           /\ Here(T, w, g) = Here(S, w, g)
    BY DEF Waits, Flying, Here, Framed
  <1>3. \A w \in Workers : \A g \in DOMAIN T.rendez[w] : ActiveLinks(T, w, g)
    <2>1. \A w \in Workers : \A g \in DOMAIN T.rendez[w] : ActiveLinks(S, w, g)
      BY <1>0 DEF Linked, Framed
    <2>2. \A w \in Workers : \A g \in DOMAIN S.rendez[w] : S.rendez[w][g].active \subseteq Edges
      BY <1>0, ActiveEdges
    <2>3. QED BY <1>2, <2>1, <2>2 DEF ActiveLinks, Framed
  <1>4. Counts(P, T, v, h, k)
    BY <1>0, <1>2 DEF Counts, Owed, Framed
  <1>5. QED BY <1>1, <1>3, <1>4 DEF Held, Linked, Framed

\* A change of nothing that the invariant speaks of.
LEMMA HeldSame ==
    ASSUME NEW P, NEW S, NEW T, NEW v, NEW h, NEW k, Held(P, S, v, h, k), Shape(T),
           T.rendez = S.rendez, T.table = S.table,
           \A e \in Edges : /\ T.recv[e].client = S.recv[e].client
                            /\ T.recv[e].server = S.recv[e].server
                            /\ T.recv[e].at = S.recv[e].at,
           \A w \in Workers : /\ T.exec[w].pc = S.exec[w].pc
                              /\ T.exec[w].rendez = S.exec[w].rendez
                              /\ T.run[w].client = S.run[w].client
                              /\ T.run[w].server = S.run[w].server
    PROVE  Held(P, T, v, h, k)
  <1>0. Linked(P, S)
    BY DEF Held
  <1>1. \A e \in Edges : RecvLinks(P, T, e)
    <2>1. \A e \in Edges : e[2] \in Workers
      OBVIOUS
    <2>2. QED BY <1>0, <2>1 DEF Linked, RecvLinks, Underway
  <1>2. \A w \in Workers : ExecLinks(T, w)
    BY <1>0 DEF Linked, ExecLinks
  <1>3. \A e \in Edges : Underway(S, e) => Underway(T, e)
    BY DEF Underway
  <1>4. Framed(P, S, T)
    BY <1>1, <1>2, <1>3 DEF Framed
  <1>5. QED BY <1>4, HeldFrame

\* What an abort leaves alone.
Quiet(S, T) ==
    /\ T.table = S.table /\ T.pc = S.pc /\ T.cleanup = S.cleanup
    /\ \A w \in Workers : /\ T.exec[w].pc = S.exec[w].pc
                          /\ DOMAIN T.rendez[w] = DOMAIN S.rendez[w]

\* StartAbort gives up the references of the requests it answers.
LEMMA StartAbortHeld ==
    ASSUME NEW S, NEW w \in Workers, NEW g, NEW k \in Int, Held(Parts, S, w, g, k),
           g \in DOMAIN S.rendez[w]
    PROVE  /\ Held(Parts, StartAbort(S, w, g), w, g, k)
           /\ Quiet(S, StartAbort(S, w, g))
           /\ StartAbort(S, w, g).exec = S.exec
  <1> DEFINE T == StartAbort(S, w, g)
             W == Waits(Parts, S, w, g)
             n == Cardinality(W)
             o == S.rendez[w][g]
             r == [o EXCEPT !.bad = TRUE, !.sent = {}, !.active = {}, !.refs = @ - n]
             U == [S EXCEPT !.recv = T.recv]
  <1>0. Typed(S) /\ Linked(Parts, S) /\ Counts(Parts, S, w, g, k)
    BY DEF Held
  <1>1. W = WaitingIn(S, w, g)
    BY DEF Waits, WaitingIn, Out
  <1>2. /\ o \in RendezvousType /\ o.refs \in Int /\ o.aborts \in Nat /\ n \in Nat
        /\ IsFiniteSet(W) /\ Shape(S)
    BY HeldObject, CallsFinite
  <1>3. /\ T.rendez = Put(S.rendez, w, g, r) /\ T.table = S.table /\ T.pc = S.pc
        /\ T.cleanup = S.cleanup /\ T.exec = S.exec /\ T.run = S.run
        /\ T.recv = [e \in Edges |-> CASE e \in W -> Answer(S.recv[e], "bad")
                                       [] e \in o.active -> AbortCall(S.recv[e])
                                       [] OTHER -> S.recv[e]]
    BY <1>1, <1>2 DEF StartAbort, Shape, Put
  <1>4. Shape(T)
    BY <1>2, StartAbortKept DEF Kept
  <1>5. /\ r \in RendezvousType /\ r.active = {} /\ r.refs = o.refs - n
        /\ r.aborts = o.aborts
    <2> HIDE DEF o, n
    <2>1. r = [o EXCEPT !.bad = TRUE, !.sent = {}, !.active = {}, !.refs = @ - n]
      OBVIOUS
    <2> HIDE DEF r
    <2>2. QED BY <1>2, <2>1, AbortedObject
  <1> HIDE DEF T, r
  <1>6. /\ U.recv = T.recv /\ U.rendez = S.rendez /\ U.table = S.table
        /\ U.exec = S.exec /\ U.run = S.run /\ DOMAIN U = DOMAIN S
    BY <1>2 DEF Shape
  <1>7. Shape(U)
    BY <1>2, <1>4, <1>6 DEF Shape
  <1> HIDE DEF U
  <1>8. ASSUME NEW e \in Edges
        PROVE  /\ U.recv[e].client = S.recv[e].client /\ U.recv[e].at = S.recv[e].at
               /\ e \in W => U.recv[e].server = "replied"
               /\ e \notin W => U.recv[e].server = S.recv[e].server
    <2>1. DOMAIN S.recv[e] = {"client", "server", "reply", "cancelled", "told",
                              "aborted", "at", "got"}
      BY <1>2 DEF Shape
    <2>2. CASE e \in W
      <3>0. e \notin o.active
        <4>1. e[1] = w /\ e[2] # w
          BY <2>2 DEF Waits
        <4>2. QED BY <1>0, <4>1 DEF Linked, ActiveLinks
      <3> HIDE DEF W, o
      <3>1. U.recv[e] = Answer(S.recv[e], "bad")
        BY <1>3, <1>6, <2>2, <3>0
      <3>2. QED BY <2>1, <2>2, <3>1 DEF Answer
    <2>3. CASE e \notin W
      <3>1. U.recv[e] = AbortCall(S.recv[e]) \/ U.recv[e] = S.recv[e]
        BY <1>3, <1>6, <2>3
      <3>2. QED BY <2>1, <2>3, <3>1 DEF AbortCall
    <2>4. QED BY <2>2, <2>3
  <1> HIDE DEF W
  <1>9. Linked(Parts, U)
    <2>1. \A e \in W : e \in Edges /\ S.recv[e].server = "working"
      BY DEF W, Waits
    <2>2. \A e \in Edges : RecvLinks(Parts, U, e)
      BY <1>0, <1>6, <1>8, <2>1 DEF Linked, RecvLinks, Underway
    <2>3. \A v \in Workers : ExecLinks(U, v)
      BY <1>0, <1>6 DEF Linked, ExecLinks
    <2>4. \A v \in Workers : \A i \in DOMAIN S.rendez[v] : S.rendez[v][i].active \subseteq Edges
      BY <1>0, ActiveEdges
    <2>5. \A v \in Workers : \A i \in DOMAIN U.rendez[v] : ActiveLinks(U, v, i)
      BY <1>0, <1>6, <1>8, <2>4 DEF Linked, ActiveLinks, Here, Underway
    <2>6. QED BY <2>2, <2>3, <2>5 DEF Linked
  <1>10. ASSUME NEW v \in Workers, NEW i \in DOMAIN U.rendez[v]
         PROVE  U.rendez[v][i].refs = Owed(Parts, U, v, i)
                                      + (IF v = w /\ i = g THEN k + n ELSE 0)
    <2>1. /\ i \in DOMAIN S.rendez[v] /\ U.rendez[v][i] = S.rendez[v][i]
          /\ S.rendez[v][i].refs = Owed(Parts, S, v, i) + (IF v = w /\ i = g THEN k ELSE 0)
      BY <1>0, <1>6, <1>10 DEF Counts
    <2>2. Flying(Parts, U, v) = Flying(Parts, S, v) /\ Here(U, v, i) = Here(S, v, i)
      BY <1>6, <1>8 DEF Flying, Here
    <2>3. Owed(Parts, S, v, i) \in Int
      BY <1>0, <2>1, OwedInt
    <2>4. CASE v = w /\ i = g
      <3>1. Waits(Parts, U, v, i) = {}
        BY <1>8, <2>4 DEF Waits, W
      <3>2. Cardinality(Waits(Parts, U, v, i)) = 0
        BY <3>1, FS_EmptySet
      <3>3. Waits(Parts, S, v, i) = W
        BY <2>4 DEF W
      <3>4. Owed(Parts, U, v, i) = Owed(Parts, S, v, i) - n
        BY <1>2, <1>6, <2>1, <2>2, <2>4, <3>2, <3>3, CallsFinite DEF Owed, Holds
      <3>5. QED BY <1>2, <2>1, <2>3, <2>4, <3>4
    <2>5. CASE ~(v = w /\ i = g)
      <3>1. Waits(Parts, U, v, i) = Waits(Parts, S, v, i)
        BY <1>8, <2>5 DEF Waits, W
      <3>2. Owed(Parts, U, v, i) = Owed(Parts, S, v, i)
        BY <1>6, <2>1, <2>2, <3>1 DEF Owed
      <3>3. QED BY <2>1, <2>5, <3>2
    <2>6. QED BY <2>4, <2>5
  <1>11. Held(Parts, U, w, g, k + n)
    BY <1>0, <1>6, <1>7, <1>9, <1>10 DEF Held, Typed, Counts
  <1>12. Held(Parts, T, w, g, (k + n) + (r.refs - o.refs) - (r.aborts - o.aborts))
    <2>1. /\ T.rendez = Put(U.rendez, w, g, r) /\ T.table = U.table /\ T.recv = U.recv
          /\ T.exec = U.exec /\ T.run = U.run /\ U.rendez[w][g] = o
          /\ g \in DOMAIN U.rendez[w] /\ k + n \in Int
      BY <1>2, <1>3, <1>6
    <2>2. MayBeActive(U, w, g, r.active)
      BY <1>5 DEF MayBeActive
    <2> HIDE DEF o, n
    <2>3. Held(Parts, T, w, g, (k + n) + (r.refs - U.rendez[w][g].refs)
                               - (r.aborts - U.rendez[w][g].aborts))
      BY <1>4, <1>5, <1>11, <2>1, <2>2, HeldReplaced
    <2>4. QED BY <2>1, <2>3
  <1>13. (k + n) + (r.refs - o.refs) - (r.aborts - o.aborts) = k
    BY <1>2, <1>5
  <1>14. Replaces(S.rendez, w, g, r, T.rendez)
    <2>1. S.rendez \in [Workers -> Seq(RendezvousType)]
      BY <1>0 DEF Typed
    <2>2. QED BY <1>3, <1>5, <2>1, Replaced
  <1>15. Quiet(S, T)
    BY <1>3, <1>14 DEF Quiet, Replaces
  <1>16. QED BY <1>3, <1>12, <1>13, <1>15 DEF T

\* NodeDone with an error keeps the references.
LEMMA NodeFailsHeld ==
    ASSUME NEW S, NEW w \in Workers, NEW g, NEW k \in Int, Held(Parts, S, w, g, k),
           g = S.exec[w].rendez, g \in DOMAIN S.rendez[w]
    PROVE  Held(Parts, NodeFails(S, w), w, g, k) /\ Quiet(S, NodeFails(S, w))
  <1> DEFINE T == [S EXCEPT !.exec[w].ok = FALSE]
  <1>0. Shape(S)
    BY DEF Held, Typed
  <1>1. /\ T.rendez = S.rendez /\ T.table = S.table /\ T.recv = S.recv /\ T.run = S.run
        /\ T.pc = S.pc /\ T.cleanup = S.cleanup /\ Shape(T)
        /\ \A v \in Workers : T.exec[v].pc = S.exec[v].pc /\ T.exec[v].rendez = S.exec[v].rendez
    BY <1>0 DEF Shape
  <1>2. NodeFails(S, w) = S \/ NodeFails(S, w) = StartAbort(T, w, g)
    BY DEF NodeFails
  <1> HIDE DEF T
  <1>3. Held(Parts, T, w, g, k)
    BY <1>1, HeldSame
  <1>4. Held(Parts, StartAbort(T, w, g), w, g, k) /\ Quiet(T, StartAbort(T, w, g))
    BY <1>1, <1>3, StartAbortHeld
  <1>5. Quiet(S, StartAbort(T, w, g)) /\ Quiet(S, S)
    BY <1>1, <1>4 DEF Quiet
  <1>6. QED BY <1>2, <1>4, <1>5

\* UpdateStatusLocked only cancels.
LEMMA UpdateStatusHeld ==
    ASSUME NEW P, NEW S, NEW v, NEW h, NEW k, Held(P, S, v, h, k)
    PROVE  Held(P, UpdateStatusLocked(S), v, h, k) /\ Quiet(S, UpdateStatusLocked(S))
  <1> DEFINE T == UpdateStatusLocked(S)
  <1>0. Shape(S) /\ Shape(T)
    BY UpdateStatusKept DEF Held, Typed, Kept
  <1>1. /\ T.rendez = S.rendez /\ T.table = S.table /\ T.recv = S.recv /\ T.exec = S.exec
        /\ T.pc = S.pc /\ T.cleanup = S.cleanup
        /\ \A w \in Workers : T.run[w].client = S.run[w].client /\ T.run[w].server = S.run[w].server
    BY <1>0 DEF Shape, UpdateStatusLocked
  <1> HIDE DEF T
  <1>2. Held(P, T, v, h, k)
    BY <1>0, <1>1, HeldSame
  <1>3. QED BY <1>1, <1>2 DEF Quiet, T

\* The table's reference has been given up.
LEMMA TableCleared ==
    ASSUME NEW P, NEW S, NEW w \in Workers, NEW g \in DOMAIN S.rendez[w],
           Held(P, S, w, g, -1), S.table[w] = g
    PROVE  LET T == [S EXCEPT !.table[w] = 0]
           IN  Held(P, T, 0, 0, 0) /\ SameRest(S, T)
  <1> DEFINE T == [S EXCEPT !.table[w] = 0]
  <1>0. Typed(S) /\ Linked(P, S) /\ Counts(P, S, w, g, -1) /\ Shape(S)
    BY DEF Held, Typed
  <1>1. /\ T.rendez = S.rendez /\ T.table = [S.table EXCEPT ![w] = 0] /\ SameRest(S, T)
        /\ DOMAIN T = DOMAIN S
    BY <1>0 DEF Shape, SameRest
  <1> HIDE DEF T
  <1>2. Typed(T)
    <2>1. Shape(T)
      BY <1>0, <1>1 DEF Shape, SameRest
    <2>2. T.table \in [Workers -> Nat] /\ T.rendez \in [Workers -> Seq(RendezvousType)]
      BY <1>0, <1>1 DEF Typed
    <2>3. \A v \in Workers : T.table[v] <= Len(T.rendez[v])
      BY <1>0, <1>1 DEF Typed
    <2>4. QED BY <2>1, <2>2, <2>3 DEF Typed
  <1>3. Linked(P, T)
    BY <1>0, <1>1 DEF Linked, RecvLinks, ExecLinks, ActiveLinks, Here, Underway, SameRest
  <1>4. ASSUME NEW v \in Workers, NEW i \in DOMAIN T.rendez[v]
        PROVE  T.rendez[v][i].refs = Owed(P, T, v, i) + 0
    <2>1. /\ i \in DOMAIN S.rendez[v] /\ T.rendez[v][i] = S.rendez[v][i]
          /\ S.rendez[v][i].refs = Owed(P, S, v, i) + (IF v = w /\ i = g THEN -1 ELSE 0)
      BY <1>0, <1>1, <1>4 DEF Counts
    <2>2. /\ Waits(P, T, v, i) = Waits(P, S, v, i) /\ Flying(P, T, v) = Flying(P, S, v)
          /\ Here(T, v, i) = Here(S, v, i)
      BY <1>1 DEF Waits, Flying, Here, SameRest
    <2>3. Holds(T.table[v] = i) = Holds(S.table[v] = i) + (IF v = w /\ i = g THEN -1 ELSE 0)
      <3>1. S.rendez[v] \in Seq(RendezvousType) /\ S.table \in [Workers -> Nat]
        BY <1>0 DEF Typed
      <3>2. i # 0
        BY <2>1, <3>1
      <3>3. QED BY <1>1, <3>1, <3>2 DEF Holds
    <2>4. S.rendez[v][i].aborts \in Nat
      BY <2>1, HeldObject
    <2>5. Owed(P, T, v, i) = Owed(P, S, v, i) + (IF v = w /\ i = g THEN -1 ELSE 0)
      BY <2>1, <2>2, <2>3, <2>4, CallsFinite DEF Owed, Holds
    <2>6. Owed(P, S, v, i) \in Int
      BY <1>0, <2>1, OwedInt
    <2>7. QED BY <2>1, <2>5, <2>6
  <1>5. QED BY <1>1, <1>2, <1>3, <1>4 DEF Held, Counts, T

\* BaseRendezvousMgr::Cleanup gives up the reference of the table.
LEMMA CleanupHeld ==
    ASSUME NEW S, NEW w \in Workers, Held(Parts, S, 0, 0, 0)
    PROVE  LET T == Cleanup(S, w)
           IN  /\ Held(Parts, T, 0, 0, 0) /\ T.pc = S.pc /\ T.cleanup = S.cleanup
               /\ \A v \in Workers : T.exec[v].pc = S.exec[v].pc
  <1> DEFINE g == S.table[w]
             A == StartAbort(S, w, g)
             U == Unref(A, w, g)
             T == [U EXCEPT !.table[w] = 0]
  <1>1. CASE g = 0
    BY <1>1 DEF Cleanup
  <1>2. CASE g # 0
    <2>1. g \in DOMAIN S.rendez[w]
      <3>1. S.rendez[w] \in Seq(RendezvousType) /\ g \in Nat /\ g <= Len(S.rendez[w])
        BY DEF Held, Typed
      <3>2. QED BY <1>2, <3>1
    <2>2. Cleanup(S, w) = T
      BY <1>2 DEF Cleanup
    <2> HIDE DEF g
    <2>3. Held(Parts, S, w, g, 0) /\ 0 \in Int
      BY HeldAnywhere
    <2>4. Held(Parts, A, w, g, 0) /\ Quiet(S, A)
      BY <2>1, <2>3, StartAbortHeld
    <2> HIDE DEF A
    <2>5. g \in DOMAIN A.rendez[w] /\ Shape(A)
      BY <2>1, <2>4 DEF Quiet, Held, Typed
    <2>6. Held(Parts, U, w, g, 0 - 1) /\ DOMAIN U.rendez[w] = DOMAIN A.rendez[w]
      BY <2>3, <2>4, <2>5, HeldUnref
    <2>7. U.table = A.table /\ SameRest(A, U)
      BY <2>5 DEF Unref, Shape, SameRest
    <2> HIDE DEF U
    <2>8. Held(Parts, T, 0, 0, 0) /\ SameRest(U, T)
      <3>1. Held(Parts, U, w, g, -1) /\ U.table[w] = g /\ g \in DOMAIN U.rendez[w]
        BY <2>4, <2>5, <2>6, <2>7 DEF Quiet, g
      <3>2. QED BY <3>1, TableCleared
    <2> HIDE DEF T
    <2>9. QED BY <2>2, <2>4, <2>7, <2>8 DEF Quiet, SameRest
  <1>3. QED BY <1>1, <1>2

-----------------------------------------------------------------------------
(* References that are handed over: d is 1 or -1 *)

\* What is owed for calls and executions changes by d at h, and nowhere else.
Moved(P, S, T, v, h, d) ==
    \A w \in Workers : \A g \in DOMAIN S.rendez[w] :
       Cardinality(Waits(P, T, w, g)) + Holds(Here(T, w, g))
          + (IF Here(T, w, g) THEN Cardinality(Flying(P, T, w)) ELSE 0)
       = Cardinality(Waits(P, S, w, g)) + Holds(Here(S, w, g))
            + (IF Here(S, w, g) THEN Cardinality(Flying(P, S, w)) ELSE 0)
            + (IF w = v /\ g = h THEN d ELSE 0)

\* Nothing but the calls of RecvTensor or the execution at v changes.
LEMMA HeldMoved ==
    ASSUME NEW P, NEW S, NEW T, NEW v \in Workers, NEW h, NEW k \in Int, NEW d \in Int,
           Held(P, S, v, h, k), Shape(T), T.rendez = S.rendez, T.table = S.table,
           Linked(P, T), Moved(P, S, T, v, h, d)
    PROVE  Held(P, T, v, h, k - d)
  <1>0. Typed(S) /\ Counts(P, S, v, h, k)
    BY DEF Held
  <1>1. Typed(T)
    BY <1>0 DEF Typed
  <1>2. ASSUME NEW w \in Workers, NEW g \in DOMAIN T.rendez[w]
        PROVE  T.rendez[w][g].refs = Owed(P, T, w, g) + (IF w = v /\ g = h THEN k - d ELSE 0)
    <2>1. S.rendez[w][g].refs = Owed(P, S, w, g) + (IF w = v /\ g = h THEN k ELSE 0)
      BY <1>0, <1>2 DEF Counts
    <2>2. S.rendez[w][g].aborts \in Nat /\ Owed(P, S, w, g) \in Int
      BY <1>0, <1>2, HeldObject, OwedInt
    <2>3. Owed(P, T, w, g) = Owed(P, S, w, g) + (IF w = v /\ g = h THEN d ELSE 0)
      BY <1>2, <2>2, CallsFinite DEF Owed, Holds, Moved
    <2>4. QED BY <2>1, <2>2, <2>3
  <1>3. QED BY <1>1, <1>2 DEF Held, Counts

\* Only the call of e changes.
OnlyCall(S, T, e) ==
    /\ Shape(T) /\ T.rendez = S.rendez /\ T.table = S.table
    /\ T.exec = S.exec /\ T.run = S.run
    /\ \A f \in Edges : f # e => T.recv[f] = S.recv[f]

\* A request begins to wait in the rendezvous h of its source, or is answered.
WaitMoves(S, T, e, h, d) ==
    /\ T.recv[e].client = S.recv[e].client
    /\ d = 1 => /\ S.recv[e].server # "working"
                /\ T.recv[e].server = "working" /\ T.recv[e].at = h
    /\ d = -1 => /\ S.recv[e].server = "working" /\ S.recv[e].at = h
                 /\ T.recv[e].server # "working"

\* A request that begins to wait is owed one reference.
LEMMA WaitsMoved ==
    ASSUME NEW P, NEW S, NEW T, NEW e \in Edges, NEW h, NEW k \in Int, NEW d \in {1, -1},
           Held(P, S, e[1], h, k), OnlyCall(S, T, e), RecvLinks(P, T, e), e[2] \in P,
           WaitMoves(S, T, e, h, d)
    PROVE  Held(P, T, e[1], h, k - d)
  <1>0. Typed(S) /\ Linked(P, S) /\ e[1] \in Workers /\ e[2] \in Workers
    BY DEF Held
  <1> USE DEF OnlyCall, WaitMoves
  <1>1. Linked(P, T)
    <2>1. \A f \in Edges : RecvLinks(P, T, f)
      BY <1>0 DEF Linked, RecvLinks, Underway
    <2>2. \A w \in Workers : ExecLinks(T, w)
      BY <1>0 DEF Linked, ExecLinks
    <2>3. \A w \in Workers : \A g \in DOMAIN T.rendez[w] : ActiveLinks(T, w, g)
      BY <1>0, ActiveEdges DEF Linked, ActiveLinks, Here, Underway
    <2>4. QED BY <2>1, <2>2, <2>3 DEF Linked
  <1>2. \A w \in Workers : \A g : /\ Flying(P, T, w) = Flying(P, S, w)
                                  /\ Here(T, w, g) = Here(S, w, g)
    BY DEF Flying, Here
  <1>3. \A w \in Workers : \A g : w # e[1] \/ g # h => Waits(P, T, w, g) = Waits(P, S, w, g)
    BY DEF Waits
  <1>4. Cardinality(Waits(P, T, e[1], h)) = Cardinality(Waits(P, S, e[1], h)) + d
    <2>1. CASE d = 1
      <3>1. /\ Waits(P, T, e[1], h) = Waits(P, S, e[1], h) \cup {e}
            /\ e \notin Waits(P, S, e[1], h)
        BY <2>1 DEF Waits
      <3>2. QED BY <2>1, <3>1, CallsFinite, FS_AddElement
    <2>2. CASE d = -1
      <3>1. /\ Waits(P, S, e[1], h) = Waits(P, T, e[1], h) \cup {e}
            /\ e \notin Waits(P, T, e[1], h)
        BY <2>2 DEF Waits
      <3>2. Cardinality(Waits(P, S, e[1], h)) = Cardinality(Waits(P, T, e[1], h)) + 1
        BY <3>1, CallsFinite, FS_AddElement
      <3>3. QED BY <2>2, <3>2, CallsFinite
    <2>3. QED BY <2>1, <2>2
  <1>5. Moved(P, S, T, e[1], h, d)
    <2> SUFFICES ASSUME NEW w \in Workers, NEW g \in DOMAIN S.rendez[w]
                 PROVE  Cardinality(Waits(P, T, w, g)) + Holds(Here(T, w, g))
                          + (IF Here(T, w, g) THEN Cardinality(Flying(P, T, w)) ELSE 0)
                       = Cardinality(Waits(P, S, w, g)) + Holds(Here(S, w, g))
                          + (IF Here(S, w, g) THEN Cardinality(Flying(P, S, w)) ELSE 0)
                          + (IF w = e[1] /\ g = h THEN d ELSE 0)
      BY DEF Moved
    <2>1. QED BY <1>2, <1>3, <1>4, CallsFinite DEF Holds
  <1>6. QED BY <1>0, <1>1, <1>5, HeldMoved

\* A call of the execution that uses h begins, or has ended.
FlightMoves(S, T, e, h, d) ==
    /\ T.recv[e].server = "working" <=> S.recv[e].server = "working"
    /\ T.recv[e].at = S.recv[e].at
    /\ Here(S, e[2], h) /\ Underway(S, e)
    /\ d = 1 => S.recv[e].client # "flying" /\ T.recv[e].client = "flying"
    /\ d = -1 => /\ S.recv[e].client = "flying" /\ T.recv[e].client # "flying"
                 /\ e \notin S.rendez[e[2]][h].active

\* A call under way is owed one reference.
LEMMA FlyingMoved ==
    ASSUME NEW P, NEW S, NEW T, NEW e \in Edges, NEW h, NEW k \in Int, NEW d \in {1, -1},
           Held(P, S, e[2], h, k), OnlyCall(S, T, e), RecvLinks(P, T, e), e[1] \in P,
           FlightMoves(S, T, e, h, d)
    PROVE  Held(P, T, e[2], h, k - d)
  <1>0. Typed(S) /\ Linked(P, S) /\ e[1] \in Workers /\ e[2] \in Workers
    BY DEF Held
  <1> USE DEF OnlyCall, FlightMoves
  <1>1. Linked(P, T)
    <2>1. \A f \in Edges : RecvLinks(P, T, f)
      BY <1>0 DEF Linked, RecvLinks, Underway
    <2>2. \A w \in Workers : ExecLinks(T, w)
      BY <1>0 DEF Linked, ExecLinks
    <2>3. ASSUME NEW w \in Workers, NEW g \in DOMAIN T.rendez[w] PROVE ActiveLinks(T, w, g)
      <3>1. ActiveLinks(S, w, g) /\ S.rendez[w][g].active \subseteq Edges
        BY <1>0, <2>3, ActiveEdges DEF Linked
      <3>2. d = -1 => e \notin S.rendez[w][g].active
        BY <3>1 DEF ActiveLinks, Here
      <3>3. QED BY <3>1, <3>2 DEF ActiveLinks, Here, Underway
    <2>4. QED BY <2>1, <2>2, <2>3 DEF Linked
  <1>2. \A w \in Workers : \A g : /\ Waits(P, T, w, g) = Waits(P, S, w, g)
                                  /\ Here(T, w, g) = Here(S, w, g)
    BY DEF Waits, Here
  <1>3. \A w \in Workers : w # e[2] => Flying(P, T, w) = Flying(P, S, w)
    BY DEF Flying
  <1>4. Cardinality(Flying(P, T, e[2])) = Cardinality(Flying(P, S, e[2])) + d
    <2>1. CASE d = 1
      <3>1. /\ Flying(P, T, e[2]) = Flying(P, S, e[2]) \cup {e}
            /\ e \notin Flying(P, S, e[2])
        BY <2>1 DEF Flying
      <3>2. QED BY <2>1, <3>1, CallsFinite, FS_AddElement
    <2>2. CASE d = -1
      <3>1. /\ Flying(P, S, e[2]) = Flying(P, T, e[2]) \cup {e}
            /\ e \notin Flying(P, T, e[2])
        BY <2>2 DEF Flying
      <3>2. Cardinality(Flying(P, S, e[2])) = Cardinality(Flying(P, T, e[2])) + 1
        BY <3>1, CallsFinite, FS_AddElement
      <3>3. QED BY <2>2, <3>2, CallsFinite
    <2>3. QED BY <2>1, <2>2
  <1>a. \A g : g # h => ~Here(S, e[2], g)
    BY DEF Here
  <1>5. Moved(P, S, T, e[2], h, d)
    <2> SUFFICES ASSUME NEW w \in Workers, NEW g \in DOMAIN S.rendez[w]
                 PROVE  Cardinality(Waits(P, T, w, g)) + Holds(Here(T, w, g))
                          + (IF Here(T, w, g) THEN Cardinality(Flying(P, T, w)) ELSE 0)
                       = Cardinality(Waits(P, S, w, g)) + Holds(Here(S, w, g))
                          + (IF Here(S, w, g) THEN Cardinality(Flying(P, S, w)) ELSE 0)
                          + (IF w = e[2] /\ g = h THEN d ELSE 0)
      BY DEF Moved
    <2>1. QED BY <1>2, <1>3, <1>4, <1>a, CallsFinite DEF Holds
  <1>6. QED BY <1>0, <1>1, <1>5, HeldMoved

\* An execution begins to use h, or ends, while it has no calls.
ExecMoves(S, T, w, h, d) ==
    /\ Shape(T) /\ T.rendez = S.rendez /\ T.table = S.table /\ T.recv = S.recv
    /\ \A v \in Workers : v # w => T.exec[v] = S.exec[v]
    /\ \A v \in Workers : ExecLinks(T, v)
    /\ \A e \in Edges : e[2] = w => ~Underway(S, e)
    /\ d = 1 => S.exec[w].pc = "none" /\ Here(T, w, h)
    /\ d = -1 => Here(S, w, h) /\ T.exec[w].pc = "none"

\* An execution is owed one reference.
LEMMA ExecMoved ==
    ASSUME NEW P, NEW S, NEW T, NEW w \in Workers, NEW h, NEW k \in Int, NEW d \in {1, -1},
           Held(P, S, w, h, k), ExecMoves(S, T, w, h, d)
    PROVE  Held(P, T, w, h, k - d)
  <1>0. Typed(S) /\ Linked(P, S)
    BY DEF Held
  <1> USE DEF ExecMoves
  <1>1. Linked(P, T)
    <2>1. \A f \in Edges : RecvLinks(P, T, f)
      BY <1>0 DEF Linked, RecvLinks, Underway
    <2>3. ASSUME NEW v \in Workers, NEW g \in DOMAIN T.rendez[v] PROVE ActiveLinks(T, v, g)
      <3>1. ActiveLinks(S, v, g) /\ S.rendez[v][g].active \subseteq Edges
        BY <1>0, <2>3, ActiveEdges DEF Linked
      <3>2. CASE v = w
        BY <3>1, <3>2 DEF ActiveLinks
      <3>3. CASE v # w
        BY <3>1, <3>3 DEF ActiveLinks, Here, Underway
      <3>4. QED BY <3>2, <3>3
    <2>4. QED BY <2>1, <2>3 DEF Linked
  <1>2. \A v \in Workers : \A g : /\ Waits(P, T, v, g) = Waits(P, S, v, g)
                                  /\ Flying(P, T, v) = Flying(P, S, v)
    BY DEF Waits, Flying
  <1>3. \A v \in Workers : \A g : v # w => Here(T, v, g) = Here(S, v, g)
    BY DEF Here
  <1>4. Flying(P, S, w) = {}
    BY DEF Flying, Underway
  <1>5. Cardinality(Flying(P, S, w)) = 0
    BY <1>4, FS_EmptySet
  <1>6. \A g : Holds(Here(T, w, g)) = Holds(Here(S, w, g)) + (IF g = h THEN d ELSE 0)
    BY DEF Here, Holds
  <1>7. Moved(P, S, T, w, h, d)
    <2> SUFFICES ASSUME NEW v \in Workers, NEW g \in DOMAIN S.rendez[v]
                 PROVE  Cardinality(Waits(P, T, v, g)) + Holds(Here(T, v, g))
                          + (IF Here(T, v, g) THEN Cardinality(Flying(P, T, v)) ELSE 0)
                       = Cardinality(Waits(P, S, v, g)) + Holds(Here(S, v, g))
                          + (IF Here(S, v, g) THEN Cardinality(Flying(P, S, v)) ELSE 0)
                          + (IF v = w /\ g = h THEN d ELSE 0)
      BY DEF Moved
    <2>1. CASE v = w
      BY <1>2, <1>5, <1>6, <2>1, CallsFinite DEF Holds
    <2>2. CASE v # w
      BY <1>2, <1>3, <2>2, CallsFinite DEF Holds
    <2>3. QED BY <2>1, <2>2
  <1>8. QED BY <1>1, <1>7, HeldMoved

-----------------------------------------------------------------------------
(* The actions: the steps of one step that the counts of the graphs do not see *)

\* One step changes to T.
LEMMA HeldStepsOne ==
    ASSUME IInv, HeldSteps, NEW s \in Steps, NEW T, Held(Parts, T, 0, 0, 0),
           CleanupLinks(Parts, T), setup' = setup, step' = [step EXCEPT ![s] = T]
    PROVE  HeldSteps'
  BY DEF IInv, HeldSteps, Parts

\* The workers' graphs, when nothing of them changes.
LEMMA WorkerSame ==
    ASSUME WorkerInv, worker' = worker, rcg'.register = rcg.register,
           \A w \in Workers : Running(w)' = Running(w)
    PROVE  WorkerInv'
  BY DEF WorkerInv

\* The session, when nothing of it changes.
LEMMA SessionSame ==
    ASSUME SessionInv, session' = session, CountedSteps' = CountedSteps
    PROVE  SessionInv'
  BY DEF SessionInv

\* The client graph, when nothing of it changes.
LEMMA GraphSame ==
    ASSUME GraphInv, rcg' = rcg, session'.alive = session.alive,
           CountedSteps' = CountedSteps, CleanedSteps' = CleanedSteps
    PROVE  GraphInv'
  BY DEF GraphInv

\* A change of one step that the master's and the workers' counts do not see.
Unseen(S, T) ==
    /\ T.cleanup = S.cleanup /\ T.pc = S.pc
    /\ \A w \in Workers : T.exec[w].pc = "none" <=> S.exec[w].pc = "none"

\* Such a change keeps the invariant.
LEMMA QuietStep ==
    ASSUME RefInv, IInv', NEW s \in Steps, NEW T, Held(Parts, T, 0, 0, 0),
           Unseen(step[s], T),
           setup' = setup, step' = [step EXCEPT ![s] = T],
           session' = session, rcg' = rcg, worker' = worker
    PROVE  RefInv'
  <1>0. step'[s] = T /\ \A t \in Steps : t # s => step'[t] = step[t]
    BY DEF RefInv, IInv
  <1>1. CountedSteps' = CountedSteps /\ CleanedSteps' = CleanedSteps
    BY <1>0 DEF CountedSteps, CleanedSteps, Counted, Unseen
  <1>2. \A w \in Workers : Running(w)' = Running(w)
    BY <1>0 DEF Running, Unseen
  <1>3. CleanupLinks(Parts, T)
    BY DEF RefInv, HeldSteps, CleanupLinks, Unseen
  <1>4. HeldSteps'
    BY <1>3, HeldStepsOne DEF RefInv
  <1>5. QED BY <1>1, <1>2, <1>4, WorkerSame, SessionSame, GraphSame DEF RefInv

\* What RefInv says of one step.
LEMMA RefInvStep ==
    ASSUME RefInv, NEW s \in Steps
    PROVE  /\ Held(Parts, step[s], 0, 0, 0) /\ Linked(Parts, step[s]) /\ Shape(step[s])
           /\ Typed(step[s])
           /\ CleanupLinks(Parts, step[s]) /\ Good(Parts, step[s])
           /\ \A e \in Edges : RecvLinks(Parts, step[s], e)
           /\ \A w \in Workers : ExecLinks(step[s], w)
           /\ \A w \in Workers : \A g : Held(Parts, step[s], w, g, 0)
           /\ Parts \subseteq Workers
  <1>1. Held(Parts, step[s], 0, 0, 0) /\ CleanupLinks(Parts, step[s])
    BY DEF RefInv, HeldSteps
  <1>2. \A w \in Workers : \A g : Held(Parts, step[s], w, g, 0)
    BY <1>1, HeldAnywhere
  <1>3. Good(Parts, step[s]) /\ Parts \subseteq Workers
    BY DEF RefInv, IInv, Parts
  <1>4. Linked(Parts, step[s]) /\ Shape(step[s]) /\ Typed(step[s])
    BY <1>1 DEF Held, Typed
  <1>5. QED BY <1>1, <1>2, <1>3, <1>4 DEF Linked

\* RunGraphAsync and WhenDone change the master's side of a call.
LEMMA RunGraphAsyncRef ==
    ASSUME RefInv, IInv', NEW s \in Steps, NEW w \in Workers, RunGraphAsync(s, w)
    PROVE  RefInv'
  <1> DEFINE S == step[s]
             T == [S EXCEPT !.run[w] = [@ EXCEPT !.client = "flying", !.server = "sent"]]
  <1>0. /\ S.run[w].client = "none" /\ step' = [step EXCEPT ![s] = T]
        /\ setup' = setup /\ session' = session /\ rcg' = rcg /\ worker' = worker
    BY DEF RefInv, IInv, RunGraphAsync
  <1>1. Held(Parts, S, 0, 0, 0) /\ Shape(S) /\ \A v \in Workers : ExecLinks(S, v)
    BY RefInvStep
  <1>2. /\ T.rendez = S.rendez /\ T.table = S.table /\ T.recv = S.recv /\ T.exec = S.exec
        /\ T.pc = S.pc /\ T.cleanup = S.cleanup /\ Shape(T)
        /\ T.run[w].client = "flying" /\ T.run[w].server = "sent"
        /\ \A v \in Workers : v # w => T.run[v] = S.run[v]
    BY <1>1 DEF Shape
  <1>a. \A e \in Edges : RecvLinks(Parts, S, e)
    BY RefInvStep
  <1> HIDE DEF S, T
  <1>3. \A v \in Workers : ExecLinks(T, v)
    BY <1>0, <1>1, <1>2 DEF ExecLinks
  <1>4. \A e \in Edges : RecvLinks(Parts, T, e) /\ (Underway(S, e) => Underway(T, e))
    BY <1>2, <1>a DEF RecvLinks, Underway
  <1>5. Held(Parts, T, 0, 0, 0)
    <2>1. Framed(Parts, S, T)
      BY <1>2, <1>3, <1>4 DEF Framed
    <2>2. QED BY <1>1, <1>2, <2>1, HeldFrame
  <1>6. Unseen(S, T)
    BY <1>2 DEF Unseen
  <1>7. QED BY <1>0, <1>5, <1>6, QuietStep DEF S

\* The RunGraph call of w ends for the master.
LEMMA WhenDoneRef ==
    ASSUME RefInv, IInv', NEW s \in Steps, NEW w \in Workers, WhenDone(s, w)
    PROVE  RefInv'
  <1> DEFINE S == step[s]
             T == [S EXCEPT !.run[w] = Ended(@)]
  <1>0. /\ S.run[w].client = "flying"
        /\ step' = [step EXCEPT ![s] = T] \/ step' = [step EXCEPT ![s] = UpdateStatusLocked(T)]
        /\ setup' = setup /\ session' = session /\ rcg' = rcg /\ worker' = worker
    BY DEF WhenDone, EndsWith
  <1>1. /\ Held(Parts, S, 0, 0, 0) /\ Shape(S) /\ \A v \in Workers : ExecLinks(S, v)
        /\ \A e \in Edges : RecvLinks(Parts, S, e)
    BY RefInvStep
  <1>2. /\ T.rendez = S.rendez /\ T.table = S.table /\ T.recv = S.recv /\ T.exec = S.exec
        /\ T.pc = S.pc /\ T.cleanup = S.cleanup /\ Shape(T)
        /\ T.run[w].client = "done" /\ T.run[w].server = S.run[w].server
        /\ \A v \in Workers : v # w => T.run[v] = S.run[v]
    BY <1>1 DEF Shape, Ended
  <1> HIDE DEF S, T
  <1>3. \A v \in Workers : ExecLinks(T, v)
    BY <1>0, <1>1, <1>2 DEF ExecLinks
  <1>4. \A e \in Edges : RecvLinks(Parts, T, e) /\ (Underway(S, e) => Underway(T, e))
    BY <1>1, <1>2 DEF RecvLinks, Underway
  <1>5. Held(Parts, T, 0, 0, 0)
    <2>1. Framed(Parts, S, T)
      BY <1>2, <1>3, <1>4 DEF Framed
    <2>2. QED BY <1>1, <1>2, <2>1, HeldFrame
  <1>6. Held(Parts, UpdateStatusLocked(T), 0, 0, 0) /\ Quiet(T, UpdateStatusLocked(T))
    BY <1>5, UpdateStatusHeld
  <1> DEFINE U == UpdateStatusLocked(T)
  <1> HIDE DEF U
  <1>7. CASE step' = [step EXCEPT ![s] = T]
    <2>1. Unseen(S, T)
      BY <1>2 DEF Unseen
    <2>2. QED BY <1>0, <1>5, <1>7, <2>1, QuietStep DEF S
  <1>8. CASE step' = [step EXCEPT ![s] = U]
    <2>1. Unseen(S, U)
      BY <1>2, <1>6 DEF Quiet, U, Unseen
    <2>2. Held(Parts, U, 0, 0, 0)
      BY <1>6 DEF U
    <2>3. QED BY <1>0, <1>8, <2>1, <2>2, QuietStep DEF S
  <1>9. QED BY <1>0, <1>7, <1>8 DEF U

\* RunGraphCancelled schedules an abort.
LEMMA RunGraphCancelledRef ==
    ASSUME RefInv, IInv', NEW s \in Steps, NEW w \in Workers, RunGraphCancelled(s, w)
    PROVE  RefInv'
  <1> DEFINE S == step[s]
             T == [[S EXCEPT !.run[w].told = TRUE] EXCEPT !.exec[w].cm = TRUE]
             U == AbortStep(T, w)
  <1>0. /\ step' = [step EXCEPT ![s] = U]
        /\ setup' = setup /\ session' = session /\ rcg' = rcg /\ worker' = worker
    BY DEF RunGraphCancelled
  <1>1. Held(Parts, S, 0, 0, 0) /\ Shape(S)
    BY RefInvStep
  <1>2. /\ T.rendez = S.rendez /\ T.table = S.table /\ T.recv = S.recv
        /\ T.pc = S.pc /\ T.cleanup = S.cleanup /\ Shape(T)
        /\ \A v \in Workers : /\ T.exec[v].pc = S.exec[v].pc
                              /\ T.exec[v].rendez = S.exec[v].rendez
                              /\ T.run[v].client = S.run[v].client
                              /\ T.run[v].server = S.run[v].server
    BY <1>1 DEF Shape
  <1> HIDE DEF S, T
  <1>3. Held(Parts, T, 0, 0, 0)
    BY <1>1, <1>2, HeldSame
  <1>4. Held(Parts, U, 0, 0, 0) /\ SameRest(T, U)
    BY <1>3, AbortStepHeld
  <1> HIDE DEF U
  <1>5. Unseen(S, U)
    BY <1>2, <1>4 DEF SameRest, Unseen
  <1>6. QED BY <1>0, <1>4, <1>5, QuietStep DEF S

\* RecvTensorCancelled schedules an abort.
LEMMA RecvTensorCancelledRef ==
    ASSUME RefInv, IInv', NEW s \in Steps, NEW e \in Edges, RecvTensorCancelled(s, e)
    PROVE  RefInv'
  <1> DEFINE S == step[s]
             w == e[1]
             T == [S EXCEPT !.recv[e].told = TRUE]
             U == AbortStep(T, w)
  <1>0. /\ step' = [step EXCEPT ![s] = U] /\ w \in Workers
        /\ setup' = setup /\ session' = session /\ rcg' = rcg /\ worker' = worker
    BY DEF RecvTensorCancelled
  <1>1. Held(Parts, S, 0, 0, 0) /\ Shape(S)
    BY RefInvStep
  <1>2. /\ T.rendez = S.rendez /\ T.table = S.table /\ T.exec = S.exec /\ T.run = S.run
        /\ T.pc = S.pc /\ T.cleanup = S.cleanup /\ Shape(T)
        /\ \A f \in Edges : /\ T.recv[f].client = S.recv[f].client
                            /\ T.recv[f].server = S.recv[f].server
                            /\ T.recv[f].at = S.recv[f].at
    BY <1>1 DEF Shape
  <1> HIDE DEF S, T, w
  <1>3. Held(Parts, T, 0, 0, 0)
    BY <1>1, <1>2, HeldSame
  <1>4. Held(Parts, U, 0, 0, 0) /\ SameRest(T, U)
    BY <1>0, <1>3, AbortStepHeld
  <1> HIDE DEF U
  <1>5. Unseen(S, U)
    BY <1>2, <1>4 DEF SameRest, Unseen
  <1>6. QED BY <1>0, <1>4, <1>5, QuietStep DEF S

\* The delayed closure of AbortStep gives its reference up.
LEMMA AbortLaterRef ==
    ASSUME RefInv, IInv', NEW s \in Steps, NEW w \in Workers, AbortLater(s, w)
    PROVE  RefInv'
  <1> DEFINE S == step[s]
             T(g) == [S EXCEPT !.rendez[w][g].aborts = @ - 1]
  <1>0. setup' = setup /\ session' = session /\ rcg' = rcg /\ worker' = worker
    BY DEF AbortLater
  <1>1. PICK g \in DOMAIN S.rendez[w] :
           /\ S.rendez[w][g].aborts > 0
           /\ step' = [step EXCEPT ![s] = Unref(StartAbort(T(g), w, g), w, g)]
    BY DEF AbortLater
  <1> DEFINE A == T(g)
             B == StartAbort(A, w, g)
             C == Unref(B, w, g)
  <1>2. Held(Parts, S, w, g, 0) /\ Shape(S) /\ 0 \in Int /\ 1 \in Int /\ -1 \in Int
    BY RefInvStep
  <1>3. S.rendez[w][g].aborts \in Nat
    BY <1>2, HeldObject
  <1> DEFINE m == -1
  <1>4. /\ A = AddAborts(S, w, g, m) /\ S.rendez[w][g].aborts + m \in Nat
        /\ m \in Int /\ 0 - m = 1 /\ 1 - 1 = 0
    BY <1>1, <1>3 DEF AddAborts
  <1>5. A.pc = S.pc /\ A.cleanup = S.cleanup /\ A.exec = S.exec
    BY <1>2 DEF Shape
  <1>6. DOMAIN A.rendez[w] = DOMAIN S.rendez[w]
    <2>1. S.rendez \in [Workers -> Seq(RendezvousType)]
      BY <1>2 DEF Held, Typed
    <2>2. QED BY <1>2, <2>1 DEF Shape
  <1>a. step' = [step EXCEPT ![s] = C]
    BY <1>1
  <1> HIDE DEF S, A, m
  <1>b. Held(Parts, A, w, g, 0 - m)
    BY <1>2, <1>4, HeldAborts
  <1>8. Held(Parts, A, w, g, 1) /\ g \in DOMAIN A.rendez[w]
    BY <1>1, <1>4, <1>b, <1>6
  <1>9. Held(Parts, B, w, g, 1) /\ Quiet(A, B)
    BY <1>2, <1>8, StartAbortHeld
  <1>10. B.exec = A.exec
    BY <1>2, <1>8, StartAbortHeld
  <1> HIDE DEF B
  <1>11. g \in DOMAIN B.rendez[w] /\ Shape(B)
    BY <1>8, <1>9 DEF Quiet, Held, Typed
  <1>12. Held(Parts, C, w, g, 1 - 1)
    BY <1>2, <1>9, <1>11, HeldUnref
  <1>13. Unseen(S, C)
    BY <1>5, <1>9, <1>10, <1>11 DEF Unref, Shape, Quiet, Unseen
  <1> HIDE DEF C
  <1>14. Held(Parts, C, 0, 0, 0)
    BY <1>4, <1>12, HeldAnywhere
  <1>15. QED BY <1>0, <1>a, <1>13, <1>14, QuietStep DEF S

\* The execution that a call belongs to uses a rendezvous that exists.
LEMMA ExecHere ==
    ASSUME RefInv, NEW s \in Steps, NEW w \in Workers, step[s].exec[w].pc # "none"
    PROVE  /\ step[s].exec[w].rendez \in DOMAIN step[s].rendez[w]
           /\ Here(step[s], w, step[s].exec[w].rendez)
  BY RefInvStep DEF ExecLinks, Here

\* RecvAsync is refused, or registers the call with the rendezvous.
LEMMA RecvAsyncRef ==
    ASSUME RefInv, IInv', NEW s \in Steps, NEW e \in Edges, RecvAsync(s, e)
    PROVE  RefInv'
  <1> DEFINE S == step[s]
             w == e[2]
             g == S.exec[w].rendez
             T == [S EXCEPT !.recv[e].client = "done", !.recv[e].got = "bad"]
             A == [S EXCEPT !.recv[e].client = "registered"]
             o == S.rendez[w][g]
             r == [o EXCEPT !.active = @ \cup {e}]
             U == [S EXCEPT !.recv[e].client = "registered",
                            !.rendez[w][g].active = @ \cup {e}]
  <1>0. /\ setup' = setup /\ session' = session /\ rcg' = rcg /\ worker' = worker
        /\ S.exec[w].pc = "run" /\ S.recv[e].client = "none"
        /\ e[1] \in Parts /\ e[2] \in Workers
    BY DEF RecvAsync, In
  <1>1. \/ step' = [step EXCEPT ![s] = NodeFails(T, w)]
        \/ step' = [step EXCEPT ![s] = U]
    BY DEF RecvAsync
  <1>2. /\ Held(Parts, S, w, g, 0) /\ Shape(S) /\ g \in DOMAIN S.rendez[w]
        /\ Here(S, w, g) /\ 0 \in Int
    BY <1>0, RefInvStep, ExecHere
  <1>3. /\ \A f \in Edges : RecvLinks(Parts, S, f)
        /\ \A v \in Workers : ExecLinks(S, v)
        /\ e[2] \in Parts
    <2>1. Good(Parts, S)
      BY RefInvStep
    <2>2. e[2] \in Parts
      BY <1>0, <2>1 DEF Good, Started
    <2>3. QED BY <2>2, RefInvStep
  <1>4. /\ T.rendez = S.rendez /\ T.table = S.table /\ T.exec = S.exec /\ T.run = S.run
        /\ T.pc = S.pc /\ T.cleanup = S.cleanup /\ Shape(T)
        /\ \A f \in Edges : f # e => T.recv[f] = S.recv[f]
        /\ T.recv[e].client = "done" /\ T.recv[e].server = S.recv[e].server
        /\ T.recv[e].at = S.recv[e].at
    BY <1>2 DEF Shape
  <1>5. /\ A.rendez = S.rendez /\ A.table = S.table /\ A.exec = S.exec /\ A.run = S.run
        /\ A.pc = S.pc /\ A.cleanup = S.cleanup /\ Shape(A)
        /\ \A f \in Edges : f # e => A.recv[f] = S.recv[f]
        /\ A.recv[e].client = "registered" /\ A.recv[e].server = S.recv[e].server
        /\ A.recv[e].at = S.recv[e].at
    BY <1>2 DEF Shape
  <1>6. CASE step' = [step EXCEPT ![s] = NodeFails(T, w)]
    <2> HIDE DEF S, T, w, g
    <2>1. \A f \in Edges : RecvLinks(Parts, T, f) /\ (Underway(S, f) => Underway(T, f))
      BY <1>0, <1>3, <1>4 DEF RecvLinks, Underway
    <2>2. \A v \in Workers : ExecLinks(T, v)
      BY <1>3, <1>4 DEF ExecLinks
    <2>a. \A f \in Edges : /\ T.recv[f].client = "flying" <=> S.recv[f].client = "flying"
                           /\ Underway(S, f) => Underway(T, f)
                           /\ T.recv[f].server = "working" <=> S.recv[f].server = "working"
                           /\ T.recv[f].at = S.recv[f].at
      BY <1>0, <1>4, <2>1
    <2>3. Held(Parts, T, w, g, 0)
      <3>1. Framed(Parts, S, T)
        BY <1>4, <2>1, <2>2, <2>a DEF Framed
      <3>2. QED BY <1>2, <1>4, <3>1, HeldFrame
    <2>4. g = T.exec[w].rendez /\ g \in DOMAIN T.rendez[w] /\ w \in Workers
      BY <1>0, <1>2, <1>4 DEF g, w
    <2>5. Held(Parts, NodeFails(T, w), w, g, 0) /\ Quiet(T, NodeFails(T, w))
      BY <1>2, <2>3, <2>4, NodeFailsHeld
    <2> DEFINE V == NodeFails(T, w)
    <2> HIDE DEF V
    <2>6. Unseen(S, V) /\ Held(Parts, V, 0, 0, 0)
      BY <1>4, <2>5, HeldAnywhere DEF Unseen, Quiet, V
    <2>7. step' = [step EXCEPT ![s] = V]
      BY <1>6 DEF V
    <2>8. QED BY <1>0, <2>6, <2>7, QuietStep DEF S
  <1>7. CASE step' = [step EXCEPT ![s] = U]
    <2>1. /\ U.table = A.table /\ U.exec = A.exec /\ U.run = A.run /\ U.recv = A.recv
          /\ U.pc = A.pc /\ U.cleanup = A.cleanup /\ U.rendez = Put(A.rendez, w, g, r)
          /\ DOMAIN U = DOMAIN S
      BY <1>2 DEF Shape, Put
    <2>2. Shape(U)
      BY <1>2, <1>5, <2>1 DEF Shape
    <2>3. o \in RendezvousType /\ o.refs \in Int /\ o.aborts \in Nat
      BY <1>0, <1>2, HeldObject
    <2> HIDE DEF o
    <2>4. /\ r \in RendezvousType /\ r.active = o.active \cup {e} /\ r.refs = o.refs
          /\ r.aborts = o.aborts
      BY <2>3 DEF RendezvousType
    <2> HIDE DEF S, A, U, w, g, r
    <2>5. \A f \in Edges : RecvLinks(Parts, A, f) /\ (Underway(S, f) => Underway(A, f))
      BY <1>0, <1>3, <1>5 DEF RecvLinks, Underway, w
    <2>6. \A v \in Workers : ExecLinks(A, v)
      BY <1>3, <1>5 DEF ExecLinks
    <2>a. \A f \in Edges : /\ A.recv[f].client = "flying" <=> S.recv[f].client = "flying"
                           /\ Underway(S, f) => Underway(A, f)
                           /\ A.recv[f].server = "working" <=> S.recv[f].server = "working"
                           /\ A.recv[f].at = S.recv[f].at
      BY <1>0, <1>5, <2>5
    <2>7. Held(Parts, A, w, g, 0)
      <3>1. Framed(Parts, S, A)
        BY <1>5, <2>5, <2>6, <2>a DEF Framed
      <3>2. QED BY <1>2, <1>5, <3>1, HeldFrame
    <2>8. A.rendez[w][g] = o /\ g \in DOMAIN A.rendez[w] /\ w \in Workers
      BY <1>0, <1>2, <1>5 DEF o, w
    <2>9. MayBeActive(A, w, g, r.active)
      BY <1>2, <1>5, <2>4, <2>8 DEF MayBeActive, Here, Underway, w
    <2>10. Held(Parts, U, w, g, 0 + (r.refs - A.rendez[w][g].refs)
                                - (r.aborts - A.rendez[w][g].aborts))
      BY <1>2, <2>1, <2>2, <2>4, <2>7, <2>8, <2>9, HeldReplaced
    <2>11. 0 + (r.refs - A.rendez[w][g].refs) - (r.aborts - A.rendez[w][g].aborts) = 0
      BY <2>3, <2>4, <2>8
    <2>12. Held(Parts, U, 0, 0, 0)
      BY <2>10, <2>11, HeldAnywhere
    <2>13. Unseen(S, U)
      BY <1>5, <2>1 DEF Unseen
    <2>14. QED BY <1>0, <1>7, <2>12, <2>13, QuietStep DEF S
  <1>8. QED BY <1>1, <1>6, <1>7

\* StartCall: the call holds a reference on the rendezvous of its execution.
LEMMA StartCallRef ==
    ASSUME RefInv, IInv', NEW s \in Steps, NEW e \in Edges, StartCall(s, e)
    PROVE  RefInv'
  <1> DEFINE S == step[s]
             w == e[2]
             g == S.exec[w].rendez
             A == [S EXCEPT !.rendez[w][g].refs = @ + 1]
             T == [S EXCEPT !.recv[e] = [@ EXCEPT !.client = "flying", !.server = "sent"],
                            !.rendez[w][g].refs = @ + 1]
  <1>0. /\ setup' = setup /\ session' = session /\ rcg' = rcg /\ worker' = worker
        /\ S.recv[e].client = "registered" /\ w \in Workers
    BY DEF StartCall
  <1>a. step' = [step EXCEPT ![s] = T]
    BY DEF RefInv, IInv, StartCall
  <1>1. /\ Shape(S) /\ RecvLinks(Parts, S, e)
        /\ S.recv[e].server = "none" /\ S.exec[w].pc = "run" /\ e[1] \in Parts /\ e[2] \in Parts
        /\ Underway(S, e)
    <2>1. Shape(S) /\ RecvLinks(Parts, S, e)
      BY RefInvStep
    <2> QED BY <1>0, <2>1 DEF RecvLinks, Underway
  <1>2. /\ Held(Parts, S, w, g, 0) /\ g \in DOMAIN S.rendez[w]
        /\ Here(S, w, g) /\ 0 \in Int /\ 1 \in Int
    BY <1>0, <1>1, RefInvStep, ExecHere, SMTT(30)
  <1>3. /\ A.table = S.table /\ A.exec = S.exec /\ A.run = S.run /\ A.recv = S.recv
        /\ T.table = A.table /\ T.exec = A.exec /\ T.run = A.run /\ T.rendez = A.rendez
        /\ T.pc = S.pc /\ T.cleanup = S.cleanup
        /\ T.recv = [S.recv EXCEPT ![e] = [@ EXCEPT !.client = "flying", !.server = "sent"]]
        /\ DOMAIN T = DOMAIN S
    BY <1>1 DEF Shape
  <1>4. Held(Parts, A, w, g, 0 + 1)
    BY <1>0, <1>2, HeldRef
  <1> HIDE DEF S, A, T, w, g
  <1>5. /\ \A f \in Edges : f # e => T.recv[f] = A.recv[f]
        /\ T.recv[e].client = "flying" /\ T.recv[e].server = "sent"
        /\ T.recv[e].at = A.recv[e].at /\ Shape(T)
    BY <1>1, <1>3 DEF Shape
  <1>6. RecvLinks(Parts, T, e) /\ Here(A, w, g) /\ Underway(A, e)
    BY <1>1, <1>2, <1>3, <1>5 DEF RecvLinks, Underway, Here, w
  <1>7. Held(Parts, A, e[2], g, 1) /\ Here(A, e[2], g)
    BY <1>4, <1>6 DEF w
  <1>8. Held(Parts, T, e[2], g, 1 - 1)
    <2> DEFINE d == 1
    <2>1. OnlyCall(A, T, e) /\ d \in {1, -1} /\ d # -1
      BY <1>3, <1>5 DEF OnlyCall
    <2>2. FlightMoves(A, T, e, g, d)
      BY <1>0, <1>1, <1>3, <1>5, <1>6, <1>7 DEF FlightMoves
    <2> HIDE DEF d
    <2>3. Held(Parts, T, e[2], g, 1 - d)
      BY <1>1, <1>2, <1>6, <1>7, <2>1, <2>2, FlyingMoved
    <2>4. QED BY <2>3 DEF d
  <1>9. Held(Parts, T, 0, 0, 0) /\ Unseen(S, T)
    BY <1>3, <1>8, HeldAnywhere DEF Unseen
  <1>10. QED BY <1>0, <1>a, <1>9, QuietStep DEF S

\* A RecvTensor call at the source is answered without having waited.
LEMMA AnsweredHeld ==
    ASSUME NEW P, NEW S, NEW T, NEW e \in Edges, NEW v, NEW h, NEW k, Held(P, S, v, h, k),
           S.recv[e].server = "sent", NEW r, Shape(T), T.rendez = S.rendez,
           T.table = S.table, T.exec = S.exec, T.run = S.run,
           T.recv = [S.recv EXCEPT ![e] = Answer(@, r)]
    PROVE  Held(P, T, v, h, k)
  <1>0. /\ Shape(S) /\ \A f \in Edges : RecvLinks(P, S, f)
        /\ \A w \in Workers : ExecLinks(S, w)
    BY DEF Held, Typed, Linked
  <1>1. /\ \A f \in Edges : f # e => T.recv[f] = S.recv[f]
        /\ T.recv[e].client = S.recv[e].client /\ T.recv[e].server = "replied"
        /\ T.recv[e].at = S.recv[e].at
    BY <1>0 DEF Shape, Answer
  <1>2. \A f \in Edges : RecvLinks(P, T, f)
    BY <1>0, <1>1 DEF RecvLinks, Underway
  <1>3. \A w \in Workers : ExecLinks(T, w)
    BY <1>0 DEF ExecLinks
  <1>4. \A f \in Edges : /\ T.recv[f].client = "flying" <=> S.recv[f].client = "flying"
                         /\ Underway(S, f) => Underway(T, f)
                         /\ T.recv[f].server = "working" <=> S.recv[f].server = "working"
                         /\ T.recv[f].at = S.recv[f].at
    BY <1>1 DEF Underway
  <1>5. Framed(P, S, T)
    BY <1>2, <1>3, <1>4 DEF Framed
  <1>6. QED BY <1>5, HeldFrame

\* What was sent is taken from the rendezvous, or is put into it.
LEMMA SentHeld ==
    ASSUME NEW P, NEW S, NEW T, NEW w \in Workers, NEW g, NEW k \in Int, Held(P, S, w, g, k),
           g \in DOMAIN S.rendez[w], NEW A \in SUBSET Edges,
           T = [S EXCEPT !.rendez[w][g].sent = A]
    PROVE  Held(P, T, w, g, k) /\ SameRest(S, T)
  <1> DEFINE o == S.rendez[w][g]
             r == [o EXCEPT !.sent = A]
  <1>1. o \in RendezvousType /\ o.refs \in Int /\ o.aborts \in Nat /\ Shape(S)
    BY HeldObject
  <1>2. /\ T.rendez = Put(S.rendez, w, g, r) /\ T.table = S.table /\ SameRest(S, T)
        /\ DOMAIN T = DOMAIN S
    BY <1>1 DEF Put, Shape, SameRest
  <1> HIDE DEF o
  <1>3. /\ r \in RendezvousType /\ r.active = o.active /\ r.refs = o.refs
        /\ r.aborts = o.aborts
    BY <1>1 DEF RendezvousType
  <1> HIDE DEF r
  <1>4. Shape(T)
    BY <1>1, <1>2 DEF Shape, SameRest
  <1>5. MayBeActive(S, w, g, r.active)
    BY <1>3 DEF MayBeActive, o
  <1>6. Held(P, T, w, g, k + (r.refs - o.refs) - (r.aborts - o.aborts))
    BY <1>2, <1>3, <1>4, <1>5, HeldReplaced DEF SameRest, o
  <1>7. k + (r.refs - o.refs) - (r.aborts - o.aborts) = k
    BY <1>1, <1>3
  <1>8. QED BY <1>2, <1>6, <1>7

\* DoRecvTensorRaw: a request that waits holds a reference, another does not.
LEMMA DoRecvTensorRawRef ==
    ASSUME RefInv, IInv', NEW s \in Steps, NEW e \in Edges, DoRecvTensorRaw(s, e)
    PROVE  RefInv'
  <1> DEFINE S == step[s]
             w == e[1]
             F == FindOrCreate(S, w)
             g == F.table[w]
             U == Unref(F, w, g)
             V == [U EXCEPT !.rendez[w][g].sent = @ \ {e}]
             Answered(R, r) == [R EXCEPT !.recv[e] = Answer(@, r)]
             Waiting(c) == [F EXCEPT !.recv[e] =
                              [@ EXCEPT !.server = "working", !.at = g, !.told = c]]
  <1>0. /\ setup' = setup /\ session' = session /\ rcg' = rcg /\ worker' = worker
        /\ S.recv[e].server = "sent" /\ w \in Workers
    BY DEF DoRecvTensorRaw
  <1>1. /\ Shape(S) /\ Held(Parts, S, 0, 0, 0) /\ RecvLinks(Parts, S, e)
    BY RefInvStep
  <1>2. Held(Parts, F, w, g, 1) /\ SameRest(S, F) /\ g \in DOMAIN F.rendez[w] /\ Shape(F)
    BY <1>0, <1>1, FindOrCreateHeld DEF Held, Typed
  <1>3. \E c : step' \in {[step EXCEPT ![s] = Answered(S, "bad")],
                          [step EXCEPT ![s] = Answered(U, "bad")],
                          [step EXCEPT ![s] = [U EXCEPT !.recv[e] = Answer(@, "ok"),
                                                        !.rendez[w][g].sent = @ \ {e}]],
                          [step EXCEPT ![s] = Waiting(c)]}
    BY DEF DoRecvTensorRaw
  <1> HIDE DEF F, g
  <1>a. 0 \in Int /\ 1 \in Int
    OBVIOUS
  <1>b. Held(Parts, U, w, g, 1 - 1) /\ DOMAIN U.rendez[w] = DOMAIN F.rendez[w]
    <2> HIDE DEF w
    <2>1. Held(Parts, U, w, g, 1 - 1)
      BY <1>0, <1>2, <1>a, HeldUnref
    <2>2. F.rendez \in [Workers -> Seq(RendezvousType)]
      BY <1>2 DEF Held, Typed
    <2>3. QED BY <1>2, <2>1, <2>2 DEF Unref, Shape
  <1>4. Held(Parts, U, w, g, 1 - 1) /\ g \in DOMAIN U.rendez[w] /\ 0 \in Int /\ 1 \in Int
    BY <1>2, <1>a, <1>b
  <1>5. SameRest(S, U) /\ Shape(U) /\ Held(Parts, U, w, g, 0)
    BY <1>2, <1>4 DEF SameRest, Unref, Held, Typed, Shape
  <1> HIDE DEF U
  <1>6. [U EXCEPT !.recv[e] = Answer(@, "ok"), !.rendez[w][g].sent = @ \ {e}] = Answered(V, "ok")
    BY <1>5 DEF Shape
  <1>7. Held(Parts, V, w, g, 0) /\ SameRest(U, V)
    <2> DEFINE A == U.rendez[w][g].sent \ {e}
    <2>1. A \in SUBSET Edges
      <3>1. U.rendez[w][g] \in RendezvousType
        BY <1>0, <1>4, <1>5, HeldObject
      <3>2. QED BY <3>1 DEF RendezvousType
    <2>2. V = [U EXCEPT !.rendez[w][g].sent = A]
      OBVIOUS
    <2> HIDE DEF A, V
    <2>3. QED BY <1>0, <1>4, <1>5, <2>1, <2>2, SentHeld
  <1> HIDE DEF S, V, w
  <1>8. ASSUME NEW R, NEW r, Held(Parts, R, w, g, 0), SameRest(S, R),
               step' = [step EXCEPT ![s] = Answered(R, r)]
        PROVE  RefInv'
    <2> DEFINE T == Answered(R, r)
    <2>1. Shape(R) /\ R.recv[e].server = "sent"
      BY <1>0, <1>8 DEF Held, Typed, SameRest
    <2>2. /\ T.rendez = R.rendez /\ T.table = R.table /\ T.exec = R.exec /\ T.run = R.run
          /\ T.pc = R.pc /\ T.cleanup = R.cleanup
          /\ T.recv = [R.recv EXCEPT ![e] = Answer(@, r)] /\ DOMAIN T = DOMAIN R
      BY <2>1 DEF Shape
    <2>3. step' = [step EXCEPT ![s] = T]
      BY <1>8
    <2> HIDE DEF T
    <2>4. Shape(T)
      BY <2>1, <2>2 DEF Shape, Answer
    <2>5. Held(Parts, T, w, g, 0)
      BY <1>8, <2>1, <2>2, <2>4, AnsweredHeld
    <2>6. Held(Parts, T, 0, 0, 0) /\ Unseen(S, T)
      BY <1>8, <2>2, <2>5, HeldAnywhere DEF Unseen, SameRest
    <2>7. QED BY <1>0, <2>3, <2>6, QuietStep DEF S
  <1>9. ASSUME NEW c, step' = [step EXCEPT ![s] = Waiting(c)]
        PROVE  RefInv'
    <2> DEFINE T == Waiting(c)
               d == 1
    <2>1. /\ T.rendez = F.rendez /\ T.table = F.table /\ T.exec = F.exec /\ T.run = F.run
          /\ T.pc = F.pc /\ T.cleanup = F.cleanup /\ DOMAIN T = DOMAIN F
          /\ T.recv = [F.recv EXCEPT ![e] = [@ EXCEPT !.server = "working", !.at = g, !.told = c]]
      BY <1>2 DEF Shape
    <2>2. step' = [step EXCEPT ![s] = T]
      BY <1>9
    <2> HIDE DEF T
    <2>3. /\ \A f \in Edges : f # e => T.recv[f] = F.recv[f]
          /\ T.recv[e].client = F.recv[e].client /\ T.recv[e].server = "working"
          /\ T.recv[e].at = g
      BY <1>2, <2>1 DEF Shape
    <2>4. Shape(T)
      BY <1>2, <2>1 DEF Shape
    <2>5. OnlyCall(F, T, e) /\ d \in {1, -1} /\ d # -1
      BY <2>1, <2>3, <2>4 DEF OnlyCall
    <2>6. F.recv = S.recv /\ F.exec = S.exec /\ F.pc = S.pc /\ F.cleanup = S.cleanup
      BY <1>2 DEF SameRest
    <2>7. /\ e[2] \in Parts /\ RecvLinks(Parts, T, e)
      BY <1>0, <1>1, <1>2, <2>1, <2>3, <2>6 DEF RecvLinks, Underway, w
    <2>8. WaitMoves(F, T, e, g, d)
      BY <1>0, <2>3, <2>5, <2>6 DEF WaitMoves
    <2> HIDE DEF d
    <2>9. Held(Parts, T, e[1], g, 1 - d)
      BY <1>2, <1>4, <2>5, <2>7, <2>8, WaitsMoved DEF w
    <2>10. Held(Parts, T, 0, 0, 0) /\ Unseen(S, T)
      BY <2>1, <2>6, <2>9, HeldAnywhere DEF Unseen, d
    <2>11. QED BY <1>0, <2>2, <2>10, QuietStep DEF S
  <1>10. Held(Parts, S, w, g, 0) /\ SameRest(S, S) /\ SameRest(S, V)
    BY <1>1, <1>5, <1>7, HeldAnywhere DEF SameRest
  <1> HIDE DEF Answered, Waiting
  <1>11. QED BY <1>3, <1>5, <1>6, <1>7, <1>8, <1>9, <1>10

\* RecvDone: the call has ended and gives its reference up.
LEMMA RecvDoneRef ==
    ASSUME RefInv, IInv', NEW s \in Steps, NEW e \in Edges, RecvDone(s, e)
    PROVE  RefInv'
  <1> DEFINE S == step[s]
             w == e[2]
             g == S.exec[w].rendez
             o == S.rendez[w][g]
             r == [o EXCEPT !.active = @ \ {e}]
             A == [S EXCEPT !.rendez[w][g].active = @ \ {e}]
             T(x) == [S EXCEPT !.recv[e] = [Ended(@) EXCEPT !.got = x, !.aborted = FALSE],
                               !.rendez[w][g].active = @ \ {e}]
  <1>0. /\ setup' = setup /\ session' = session /\ rcg' = rcg /\ worker' = worker
        /\ S.recv[e].client = "flying" /\ w \in Workers
    BY DEF RecvDone, EndsWith
  <1>1. \E x \in {"ok", "bad"} :
           \/ step' = [step EXCEPT ![s] = Unref(T(x), w, g)]
           \/ step' = [step EXCEPT ![s] = Unref(NodeFails(T(x), w), w, g)]
    BY DEF RecvDone
  <1>2. /\ Shape(S) /\ RecvLinks(Parts, S, e) /\ S.exec[w].pc = "run"
        /\ e[1] \in Parts /\ e[2] \in Parts /\ Underway(S, e)
    BY <1>0, RefInvStep DEF RecvLinks, Underway
  <1>3. /\ Held(Parts, S, w, g, 0) /\ g \in DOMAIN S.rendez[w]
        /\ Here(S, w, g) /\ 0 \in Int /\ 1 \in Int
    BY <1>0, <1>2, RefInvStep, ExecHere
  <1>4. /\ A.rendez = Put(S.rendez, w, g, r) /\ A.table = S.table /\ A.recv = S.recv
        /\ A.exec = S.exec /\ A.run = S.run /\ A.pc = S.pc /\ A.cleanup = S.cleanup
        /\ DOMAIN A = DOMAIN S
    BY <1>2 DEF Put, Shape
  <1>5. \A x : /\ T(x).rendez = A.rendez /\ T(x).table = A.table /\ T(x).exec = A.exec
               /\ T(x).run = A.run /\ T(x).pc = A.pc /\ T(x).cleanup = A.cleanup
               /\ DOMAIN T(x) = DOMAIN S
               /\ T(x).recv = [S.recv EXCEPT ![e] =
                                 [Ended(@) EXCEPT !.got = x, !.aborted = FALSE]]
    BY <1>2 DEF Shape
  <1>6. o \in RendezvousType /\ o.refs \in Int /\ o.aborts \in Nat
    BY <1>0, <1>3, HeldObject
  <1> HIDE DEF S, A, T, w, g, o
  <1>7. /\ r \in RendezvousType /\ r.active = o.active \ {e} /\ r.refs = o.refs
        /\ r.aborts = o.aborts
    BY <1>6 DEF RendezvousType
  <1> HIDE DEF r
  <1>8. Held(Parts, A, w, g, 0) /\ A.rendez[w][g] = r /\ g \in DOMAIN A.rendez[w]
    <2>1. Shape(A)
      BY <1>2, <1>4 DEF Shape
    <2>2. MayBeActive(S, w, g, r.active)
      BY <1>7 DEF MayBeActive, o
    <2>3. Held(Parts, A, w, g, 0 + (r.refs - S.rendez[w][g].refs)
                               - (r.aborts - S.rendez[w][g].aborts))
      BY <1>0, <1>3, <1>4, <1>7, <2>1, <2>2, HeldReplaced
    <2>4. 0 + (r.refs - S.rendez[w][g].refs) - (r.aborts - S.rendez[w][g].aborts) = 0
      BY <1>6, <1>7 DEF o
    <2>5. S.rendez \in [Workers -> Seq(RendezvousType)]
      BY <1>3 DEF Held, Typed
    <2>6. Replaces(S.rendez, w, g, r, A.rendez)
      <3>1. A.rendez = Put(S.rendez, w, g, r) /\ w \in Workers /\ g \in DOMAIN S.rendez[w]
        BY <1>0, <1>3, <1>4
      <3>2. r \in RendezvousType
        BY <1>7
      <3>3. QED BY <2>5, <3>1, <3>2, Replaced, Zenon
    <2>7. QED BY <1>0, <1>3, <2>3, <2>4, <2>6 DEF Replaces
  <1>9. ASSUME NEW x \in {"ok", "bad"}
        PROVE  /\ Held(Parts, T(x), w, g, 1) /\ T(x).exec[w].rendez = g
               /\ g \in DOMAIN T(x).rendez[w] /\ Unseen(S, T(x))
    <2> DEFINE U == T(x)
               d == -1
    <2>0. /\ U.rendez = A.rendez /\ U.table = A.table /\ U.exec = A.exec
          /\ U.run = A.run /\ U.pc = A.pc /\ U.cleanup = A.cleanup /\ DOMAIN U = DOMAIN S
          /\ U.recv = [S.recv EXCEPT ![e] = [Ended(@) EXCEPT !.got = x, !.aborted = FALSE]]
      BY <1>5
    <2> HIDE DEF U
    <2>1. /\ \A f \in Edges : f # e => U.recv[f] = A.recv[f]
          /\ U.recv[e].client = "done" /\ U.recv[e].server = A.recv[e].server
          /\ U.recv[e].at = A.recv[e].at
      BY <1>2, <1>4, <2>0 DEF Shape, Ended
    <2>2. Shape(U)
      BY <1>2, <1>4, <2>0 DEF Shape, Ended
    <2>3. OnlyCall(A, U, e) /\ d \in {1, -1} /\ d # 1
      BY <2>0, <2>1, <2>2 DEF OnlyCall
    <2>a. A.rendez[e[1]] = S.rendez[e[1]]
      BY <1>4 DEF Put, w
    <2>4. RecvLinks(Parts, U, e)
      BY <1>2, <1>4, <2>0, <2>1, <2>a DEF RecvLinks, Underway
    <2>5. FlightMoves(A, U, e, g, d)
      BY <1>0, <1>2, <1>3, <1>4, <1>7, <1>8, <2>1, <2>3 DEF FlightMoves, Here, Underway, w
    <2>b. 0 - d = 1
      OBVIOUS
    <2> HIDE DEF d
    <2>6. Held(Parts, U, e[2], g, 0 - d)
      BY <1>2, <1>3, <1>8, <2>3, <2>4, <2>5, FlyingMoved DEF w
    <2>7. Held(Parts, U, w, g, 1)
      BY <2>6, <2>b DEF w
    <2>8. QED BY <1>4, <1>8, <2>0, <2>7 DEF U, Unseen, g
  <1>10. ASSUME NEW R, Held(Parts, R, w, g, 1), g \in DOMAIN R.rendez[w], Unseen(S, R),
                step' = [step EXCEPT ![s] = Unref(R, w, g)]
         PROVE  RefInv'
    <2> DEFINE U == Unref(R, w, g)
    <2>1. Held(Parts, U, w, g, 1 - 1)
      BY <1>0, <1>3, <1>10, HeldUnref
    <2>2. Shape(R)
      BY <1>10 DEF Held, Typed
    <2>3. Unseen(S, U)
      BY <1>10, <2>2 DEF Unseen, Unref, Shape
    <2>a. step' = [step EXCEPT ![s] = U]
      BY <1>10
    <2> HIDE DEF U
    <2>4. Held(Parts, U, 0, 0, 0)
      BY <2>1, HeldAnywhere
    <2>5. QED BY <1>0, <2>3, <2>4, <2>a, QuietStep DEF S
  <1>11. ASSUME NEW x \in {"ok", "bad"}
         PROVE  /\ Held(Parts, NodeFails(T(x), w), w, g, 1)
                /\ g \in DOMAIN NodeFails(T(x), w).rendez[w]
                /\ Unseen(S, NodeFails(T(x), w))
    <2>1. Held(Parts, NodeFails(T(x), w), w, g, 1) /\ Quiet(T(x), NodeFails(T(x), w))
      BY <1>0, <1>3, <1>9, NodeFailsHeld
    <2>2. QED BY <1>0, <1>9, <2>1 DEF Quiet, Unseen
  <1>12. QED BY <1>1, <1>9, <1>10, <1>11

\* A lost request holds nothing.
LEMMA RequestLostRef ==
    ASSUME RefInv, IInv', NEW s \in Steps, RequestLost(s)
    PROVE  RefInv'
  <1> DEFINE S == step[s]
  <1>0. setup' = setup /\ session' = session /\ rcg' = rcg /\ worker' = worker
    BY DEF RequestLost
  <1>1. /\ Held(Parts, S, 0, 0, 0) /\ Shape(S) /\ \A v \in Workers : ExecLinks(S, v)
        /\ \A e \in Edges : RecvLinks(Parts, S, e)
    BY RefInvStep
  <1>2. CASE \E w \in Workers :
                /\ S.run[w].client = "done" /\ S.run[w].server = "sent"
                /\ step' = [step EXCEPT ![s].run[w].server = "gone"]
    <2>1. PICK w \in Workers :
             /\ S.run[w].client = "done" /\ S.run[w].server = "sent"
             /\ step' = [step EXCEPT ![s] = [S EXCEPT !.run[w].server = "gone"]]
      BY <1>2 DEF RefInv, IInv
    <2> DEFINE T == [S EXCEPT !.run[w].server = "gone"]
    <2>2. /\ T.rendez = S.rendez /\ T.table = S.table /\ T.recv = S.recv /\ T.exec = S.exec
          /\ T.pc = S.pc /\ T.cleanup = S.cleanup /\ Shape(T)
          /\ T.run[w].client = "done" /\ T.run[w].server = "gone"
          /\ \A v \in Workers : v # w => T.run[v] = S.run[v]
      BY <1>1, <2>1 DEF Shape
    <2>a. step' = [step EXCEPT ![s] = T]
      BY <2>1
    <2> HIDE DEF S, T
    <2>3. Framed(Parts, S, T)
      <3>1. \A v \in Workers : ExecLinks(T, v)
        BY <1>1, <2>1, <2>2 DEF ExecLinks
      <3>2. \A e \in Edges : RecvLinks(Parts, T, e) /\ (Underway(S, e) => Underway(T, e))
        BY <1>1, <2>2 DEF RecvLinks, Underway
      <3>3. QED BY <2>2, <3>1, <3>2 DEF Framed
    <2>4. Held(Parts, T, 0, 0, 0) /\ Unseen(S, T)
      BY <1>1, <2>2, <2>3, HeldFrame DEF Unseen
    <2>5. QED BY <1>0, <2>a, <2>4, QuietStep DEF S
  <1>3. CASE \E e \in Edges :
                /\ S.recv[e].client = "done" /\ S.recv[e].server = "sent"
                /\ step' = [step EXCEPT ![s].recv[e].server = "gone"]
    <2>1. PICK e \in Edges :
             /\ S.recv[e].client = "done" /\ S.recv[e].server = "sent"
             /\ step' = [step EXCEPT ![s] = [S EXCEPT !.recv[e].server = "gone"]]
      BY <1>3 DEF RefInv, IInv
    <2> DEFINE T == [S EXCEPT !.recv[e].server = "gone"]
    <2>2. /\ T.rendez = S.rendez /\ T.table = S.table /\ T.run = S.run /\ T.exec = S.exec
          /\ T.pc = S.pc /\ T.cleanup = S.cleanup /\ Shape(T)
          /\ T.recv[e].client = "done" /\ T.recv[e].server = "gone"
          /\ T.recv[e].at = S.recv[e].at
          /\ \A f \in Edges : f # e => T.recv[f] = S.recv[f]
      BY <1>1, <2>1 DEF Shape
    <2>a. step' = [step EXCEPT ![s] = T]
      BY <2>1
    <2> HIDE DEF S, T
    <2>3. Framed(Parts, S, T)
      <3>1. \A v \in Workers : ExecLinks(T, v)
        BY <1>1, <2>2 DEF ExecLinks
      <3>2. \A f \in Edges : RecvLinks(Parts, T, f) /\ (Underway(S, f) => Underway(T, f))
        BY <1>1, <2>1, <2>2 DEF RecvLinks, Underway
      <3>3. \A f \in Edges : /\ T.recv[f].client = "flying" <=> S.recv[f].client = "flying"
                             /\ T.recv[f].server = "working" <=> S.recv[f].server = "working"
                             /\ T.recv[f].at = S.recv[f].at
        BY <2>1, <2>2
      <3>4. QED BY <2>2, <3>1, <3>2, <3>3 DEF Framed
    <2>4. Held(Parts, T, 0, 0, 0) /\ Unseen(S, T)
      BY <1>1, <2>2, <2>3, HeldFrame DEF Unseen
    <2>5. QED BY <1>0, <2>a, <2>4, QuietStep DEF S
  <1>4. QED BY <1>2, <1>3 DEF RequestLost

\* An execution that has no call under way goes on.
LEMMA ExecGoesOn ==
    ASSUME RefInv, IInv', NEW s \in Steps, NEW w \in Workers, NEW T, Shape(T),
           step[s].exec[w].pc # "none", T.exec[w].pc \in {"send", "replied"},
           T.run[w].server \in {"working", "replied"}, T.run[w].client = step[s].run[w].client,
           \A e \in Edges : e[2] = w => ~Underway(step[s], e),
           T.exec[w].rendez = step[s].exec[w].rendez,
           \A v \in Workers : v # w => T.exec[v] = step[s].exec[v] /\ T.run[v] = step[s].run[v],
           T.rendez = step[s].rendez, T.table = step[s].table, T.recv = step[s].recv,
           T.pc = step[s].pc, T.cleanup = step[s].cleanup,
           setup' = setup, step' = [step EXCEPT ![s] = T],
           session' = session, rcg' = rcg, worker' = worker
    PROVE  RefInv'
  <1> DEFINE S == step[s]
  <1>1. /\ Held(Parts, S, 0, 0, 0) /\ \A v \in Workers : ExecLinks(S, v)
        /\ \A e \in Edges : RecvLinks(Parts, S, e)
    BY RefInvStep
  <1>2. \A v \in Workers : ExecLinks(T, v)
    BY <1>1 DEF ExecLinks
  <1>3. \A e \in Edges : RecvLinks(Parts, T, e) /\ (Underway(S, e) => Underway(T, e))
    <2>1. \A e \in Edges : Underway(T, e) = Underway(S, e) /\ e[2] \in Workers
      BY DEF Underway
    <2>2. QED BY <1>1, <2>1 DEF RecvLinks
  <1>4. Framed(Parts, S, T)
    BY <1>2, <1>3 DEF Framed
  <1>5. Held(Parts, T, 0, 0, 0)
    BY <1>1, <1>4, HeldFrame
  <1>6. Unseen(S, T)
    BY DEF Unseen
  <1>7. QED BY <1>5, <1>6, QuietStep

\* Compute goes on to the sends when every tensor has come, or fails.
LEMMA ComputeRef ==
    ASSUME RefInv, IInv', NEW s \in Steps, NEW w \in Workers, Compute(s, w)
    PROVE  RefInv'
  <1> DEFINE S == step[s]
             T == [S EXCEPT !.exec[w].pc = "send"]
  <1>0. /\ setup' = setup /\ session' = session /\ rcg' = rcg /\ worker' = worker
        /\ S.exec[w].pc = "run" /\ \A e \in In(w) : S.recv[e].got = "ok"
    BY DEF Compute
  <1>1. step' = [step EXCEPT ![s] = T] \/ step' = [step EXCEPT ![s] = NodeFails(S, w)]
    BY DEF RefInv, IInv, Compute
  <1>2. /\ Held(Parts, S, 0, 0, 0) /\ Shape(S) /\ Good(Parts, S) /\ ExecLinks(S, w)
        /\ \A e \in Edges : RecvLinks(Parts, S, e)
    BY RefInvStep
  <1>3. CASE step' = [step EXCEPT ![s] = T]
    <2>1. \A e \in Edges : e[2] = w => ~Underway(S, e)
      BY <1>0, <1>2 DEF Good, GotEarly, RecvLinks, Underway, In
    <2>2. /\ T.rendez = S.rendez /\ T.table = S.table /\ T.recv = S.recv /\ T.run = S.run
          /\ T.pc = S.pc /\ T.cleanup = S.cleanup /\ Shape(T)
          /\ T.exec[w].pc = "send" /\ T.exec[w].rendez = S.exec[w].rendez
          /\ \A v \in Workers : v # w => T.exec[v] = S.exec[v]
      BY <1>2 DEF Shape
    <2>3. S.run[w].server = "working" /\ S.exec[w].pc # "none"
      BY <1>0, <1>2 DEF ExecLinks
    <2> HIDE DEF T
    <2>4. QED BY <1>0, <1>3, <2>1, <2>2, <2>3, ExecGoesOn
  <1>4. CASE step' = [step EXCEPT ![s] = NodeFails(S, w)]
    <2> DEFINE g == S.exec[w].rendez
               U == NodeFails(S, w)
    <2>1. Held(Parts, S, w, g, 0) /\ g \in DOMAIN S.rendez[w] /\ 0 \in Int
      BY <1>0, RefInvStep, ExecHere
    <2>2. Held(Parts, U, w, g, 0) /\ Quiet(S, U)
      BY <2>1, NodeFailsHeld
    <2>3. step' = [step EXCEPT ![s] = U]
      BY <1>4
    <2> HIDE DEF U
    <2>4. Held(Parts, U, 0, 0, 0) /\ Unseen(S, U)
      BY <2>2, HeldAnywhere DEF Unseen, Quiet
    <2>5. QED BY <1>0, <2>3, <2>4, QuietStep
  <1>5. QED BY <1>1, <1>3, <1>4

\* RunAllDone answers; the references are given up later.
LEMMA RunAllDoneRef ==
    ASSUME RefInv, IInv', NEW s \in Steps, NEW w \in Workers, RunAllDone(s, w)
    PROVE  RefInv'
  <1> DEFINE S == step[s]
             x == S.exec[w]
             good == x.ok /\ (w \in Fetching => ~S.rendez[w][x.rendez].bad)
             T == [S EXCEPT !.run[w] = Answer(@, IF good THEN "ok" ELSE "bad"),
                            !.exec[w].pc = "replied",
                            !.completed = IF good THEN @ \cup {w} ELSE @]
  <1>0. /\ setup' = setup /\ session' = session /\ rcg' = rcg /\ worker' = worker
        /\ S.exec[w].pc # "none"
    BY DEF RunAllDone
  <1>1. /\ Shape(S) /\ \A e \in Edges : RecvLinks(Parts, S, e)
    BY RefInvStep
  <1>2. \A e \in Edges : e[2] = w => ~Underway(S, e)
    <2>1. S.exec[w].pc = "send" \/ \A e \in In(w) : S.recv[e].client = "done"
      BY DEF RunAllDone
    <2>2. QED BY <1>1, <2>1 DEF RecvLinks, Underway, In
  <1>3. step' = [step EXCEPT ![s] = T]
    BY Zenon DEF RunAllDone
  <1> HIDE DEF x, good
  <1>4. /\ T.rendez = S.rendez /\ T.table = S.table /\ T.recv = S.recv
        /\ T.pc = S.pc /\ T.cleanup = S.cleanup /\ DOMAIN T = DOMAIN S
        /\ T.exec = [S.exec EXCEPT ![w].pc = "replied"]
        /\ T.run = [S.run EXCEPT ![w] = Answer(@, IF good THEN "ok" ELSE "bad")]
    BY <1>1 DEF Shape
  <1> HIDE DEF S, T
  <1>5. /\ Shape(T) /\ T.exec[w].pc = "replied" /\ T.exec[w].rendez = S.exec[w].rendez
        /\ T.run[w].server = "replied" /\ T.run[w].client = S.run[w].client
        /\ \A v \in Workers : v # w => T.exec[v] = S.exec[v] /\ T.run[v] = S.run[v]
    BY <1>1, <1>4 DEF Shape, Answer
  <1>6. QED BY <1>0, <1>2, <1>3, <1>4, <1>5, ExecGoesOn DEF S

\* Send fails, answers the request that waits, or buffers the tensor.
LEMMA SendRef ==
    ASSUME RefInv, IInv', NEW s \in Steps, NEW e \in Edges, Send(s, e)
    PROVE  RefInv'
  <1> DEFINE R == step[s]
             w == e[1]
             S == [R EXCEPT !.exec[w].out = @ \cup {e}]
             g == S.exec[w].rendez
             U == Unref(S, w, g)
             T == [U EXCEPT !.recv[e] = Answer(@, "ok")]
             B == [S EXCEPT !.rendez[w][g].sent = @ \cup {e}]
  <1>0. /\ setup' = setup /\ session' = session /\ rcg' = rcg /\ worker' = worker
        /\ S.exec[w].pc = "send" /\ w \in Workers /\ e[2] \in Parts
    BY DEF Send, Out
  <1>1. \/ step' = [step EXCEPT ![s] = NodeFails(S, w)]
        \/ e \in WaitingIn(S, w, g) /\ step' = [step EXCEPT ![s] = T]
        \/ step' = [step EXCEPT ![s] = B]
    BY DEF Send
  <1>2. Held(Parts, R, 0, 0, 0) /\ Shape(R)
    BY RefInvStep
  <1>3. /\ S.rendez = R.rendez /\ S.table = R.table /\ S.recv = R.recv /\ S.run = R.run
        /\ S.pc = R.pc /\ S.cleanup = R.cleanup /\ Shape(S)
        /\ \A v \in Workers : S.exec[v].pc = R.exec[v].pc /\ S.exec[v].rendez = R.exec[v].rendez
    BY <1>2 DEF Shape
  <1>4. g \in DOMAIN S.rendez[w] /\ 0 \in Int
    BY <1>0, <1>3, ExecHere
  <1> HIDE DEF R, S, g
  <1>5. Held(Parts, S, 0, 0, 0) /\ Unseen(R, S)
    BY <1>2, <1>3, HeldSame DEF Unseen
  <1>6. Held(Parts, S, w, g, 0) /\ \A f \in Edges : RecvLinks(Parts, S, f)
    BY <1>5, HeldAnywhere DEF Held, Linked
  <1>7. CASE step' = [step EXCEPT ![s] = NodeFails(S, w)]
    <2> DEFINE V == NodeFails(S, w)
    <2>1. Held(Parts, V, w, g, 0) /\ Quiet(S, V)
      BY <1>0, <1>4, <1>6, NodeFailsHeld DEF g
    <2>2. step' = [step EXCEPT ![s] = V]
      BY <1>7
    <2> HIDE DEF V
    <2>3. Held(Parts, V, 0, 0, 0) /\ Unseen(R, V)
      BY <1>5, <2>1, HeldAnywhere DEF Unseen, Quiet
    <2>4. QED BY <1>0, <2>2, <2>3, QuietStep DEF R
  <1>8. CASE e \in WaitingIn(S, w, g) /\ step' = [step EXCEPT ![s] = T]
    <2> DEFINE d == -1
               k == -1
    <2>0. d \in {1, -1} /\ d # 1 /\ k \in Int /\ 0 - 1 = k /\ k - d = 0
      OBVIOUS
    <2>1. Held(Parts, U, w, g, 0 - 1)
      BY <1>0, <1>4, <1>6, HeldUnref
    <2>2. U.recv = S.recv /\ U.exec = S.exec /\ U.pc = S.pc /\ U.cleanup = S.cleanup /\ Shape(U)
      BY <1>3, <2>1 DEF Unref, Shape, Held, Typed
    <2>3. S.recv[e].server = "working" /\ S.recv[e].at = g
      BY <1>8 DEF WaitingIn
    <2> HIDE DEF U
    <2>4. /\ T.rendez = U.rendez /\ T.table = U.table /\ T.exec = U.exec /\ T.run = U.run
          /\ T.pc = U.pc /\ T.cleanup = U.cleanup
          /\ T.recv = [U.recv EXCEPT ![e] = Answer(@, "ok")] /\ DOMAIN T = DOMAIN U
      BY <2>2 DEF Shape
    <2> HIDE DEF T, d, k
    <2>5. /\ Shape(T) /\ \A f \in Edges : f # e => T.recv[f] = U.recv[f]
          /\ T.recv[e].client = U.recv[e].client /\ T.recv[e].server = "replied"
          /\ T.recv[e].at = U.recv[e].at
      BY <2>2, <2>4 DEF Shape, Answer
    <2>6. OnlyCall(U, T, e) /\ WaitMoves(U, T, e, g, d)
      BY <2>0, <2>2, <2>3, <2>4, <2>5 DEF OnlyCall, WaitMoves
    <2>7. RecvLinks(Parts, T, e)
      BY <1>6, <2>2, <2>3, <2>4, <2>5 DEF RecvLinks, Underway
    <2>8. Held(Parts, U, e[1], g, k)
      BY <2>0, <2>1
    <2>9. Held(Parts, T, e[1], g, k - d)
      BY <1>0, <2>0, <2>6, <2>7, <2>8, WaitsMoved
    <2>10. Held(Parts, T, 0, 0, 0) /\ Unseen(R, T)
      BY <1>5, <2>0, <2>2, <2>4, <2>9, HeldAnywhere DEF Unseen
    <2>11. QED BY <1>0, <1>8, <2>10, QuietStep DEF R
  <1>9. CASE step' = [step EXCEPT ![s] = B]
    <2> DEFINE A == S.rendez[w][g].sent \cup {e}
    <2>1. A \in SUBSET Edges
      <3>1. S.rendez[w][g] \in RendezvousType
        BY <1>0, <1>4, <1>6, HeldObject
      <3>2. QED BY <3>1 DEF RendezvousType
    <2>2. B = [S EXCEPT !.rendez[w][g].sent = A]
      OBVIOUS
    <2> HIDE DEF A, B
    <2>3. Held(Parts, B, w, g, 0) /\ SameRest(S, B)
      BY <1>0, <1>4, <1>6, <2>1, <2>2, SentHeld
    <2>4. Held(Parts, B, 0, 0, 0) /\ Unseen(R, B)
      BY <1>5, <2>3, HeldAnywhere DEF Unseen, SameRest
    <2>5. QED BY <1>0, <1>9, <2>4, QuietStep DEF R
  <1>10. QED BY <1>1, <1>7, <1>8, <1>9

-----------------------------------------------------------------------------
(* The actions that the workers' graphs see *)

\* The graph of one worker changes to u, and nothing else that the counts see.
GraphOf(w, u) ==
    /\ u \in [incarnation : Int, table : BOOLEAN, refs : Int]
    /\ worker' = [worker EXCEPT ![w] = u]
    /\ \A v \in Workers : v # w => /\ Running(v)' = Running(v)
                                   /\ rcg'.register[v] = rcg.register[v]
    /\ IsFiniteSet(Running(w)') /\ u.refs = Holds(u.table) + Cardinality(Running(w)')
    /\ rcg'.register[w] \notin {"ok", "failed"} => u.table = FALSE /\ Running(w)' = {}

\* Such a change keeps the invariant of the workers.
LEMMA WorkerOne ==
    ASSUME WorkerInv, NEW w \in Workers, NEW u, GraphOf(w, u)
    PROVE  WorkerInv'
  <1>1. worker' \in [Workers -> [incarnation : Int, table : BOOLEAN, refs : Int]]
    BY DEF WorkerInv, GraphOf
  <1>2. worker'[w] = u /\ \A v \in Workers : v # w => worker'[v] = worker[v]
    BY DEF WorkerInv, GraphOf
  <1>3. ASSUME NEW v \in Workers
        PROVE  /\ IsFiniteSet(Running(v)')
               /\ worker'[v].refs = Holds(worker'[v].table) + Cardinality(Running(v)')
               /\ rcg'.register[v] \notin {"ok", "failed"} =>
                     worker'[v].table = FALSE /\ Running(v)' = {}
    <2>1. CASE v = w
      BY <1>2, <2>1 DEF GraphOf
    <2>2. CASE v # w
      BY <1>2, <1>3, <2>2 DEF WorkerInv, GraphOf
    <2>3. QED BY <2>1, <2>2
  <1>4. QED BY <1>1, <1>3 DEF WorkerInv

\* One step changes what it runs on w.
RunsElsewhere(S, T, w) ==
    /\ T.cleanup = S.cleanup /\ T.pc = S.pc
    /\ \A v \in Workers : v # w => T.exec[v] = S.exec[v]

\* Such a change keeps the invariant, if it does that of the workers.
LEMMA StepOnWorker ==
    ASSUME RefInv, IInv', NEW s \in Steps, NEW w \in Workers, NEW T,
           Held(Parts, T, 0, 0, 0), RunsElsewhere(step[s], T, w),
           setup' = setup, step' = [step EXCEPT ![s] = T],
           session' = session, rcg' = rcg, WorkerInv'
    PROVE  RefInv'
  <1>0. step'[s] = T /\ \A t \in Steps : t # s => step'[t] = step[t]
    BY DEF RefInv, IInv
  <1>1. CountedSteps' = CountedSteps /\ CleanedSteps' = CleanedSteps
    BY <1>0 DEF CountedSteps, CleanedSteps, Counted, RunsElsewhere
  <1>2. CleanupLinks(Parts, T)
    BY DEF RefInv, HeldSteps, CleanupLinks, RunsElsewhere
  <1>3. HeldSteps'
    BY <1>2, HeldStepsOne DEF RefInv
  <1>4. QED BY <1>1, <1>3, SessionSame, GraphSame DEF RefInv

\* DoRunGraph refuses, or holds the graph and the rendezvous for the execution.
LEMMA DoRunGraphRef ==
    ASSUME RefInv, IInv', NEW s \in Steps, NEW w \in Workers, DoRunGraph(s, w)
    PROVE  RefInv'
  <1> DEFINE S == step[s]
             F == FindOrCreate(S, w)
             g == F.table[w]
             U == Unref(F, w, g)
             Refused(R) == [R EXCEPT !.run[w] = Answer(@, "bad")]
             Begun(c) == [F EXCEPT !.run[w] = [@ EXCEPT !.server = "working", !.told = c],
                                   !.exec[w] = [NoExec EXCEPT !.pc = "run", !.rendez = g]]
             found == Found(w)
             fedBad == w \in Fed /\ F.rendez[w][g].bad
  <1>0. /\ setup' = setup /\ session' = session /\ rcg' = rcg
        /\ S.run[w].server = "sent"
    BY DEF DoRunGraph
  <1>1. \E c : \/ worker' = worker /\ step' = [step EXCEPT ![s] = Refused(S)]
               \/ worker' = worker /\ step' = [step EXCEPT ![s] = Refused(U)]
               \/ /\ worker[w].table /\ worker' = [worker EXCEPT ![w].refs = @ + 1]
                  /\ step' = [step EXCEPT ![s] = Begun(c)]
    <2>1. PICK c : /\ step' = [step EXCEPT ![s] =
                        CASE ~found -> Refused(S)
                          [] found /\ fedBad -> Refused(U)
                          [] OTHER -> Begun(c)]
                   /\ worker' = IF found /\ ~fedBad THEN [worker EXCEPT ![w].refs = @ + 1]
                                ELSE worker
      BY DEF DoRunGraph
    <2>a. found => worker[w].table
      BY DEF Found
    <2> HIDE DEF Refused, Begun, S, F, g, U, fedBad, found
    <2>2. CASE ~found
      BY <2>1, <2>2
    <2>3. CASE found /\ fedBad
      BY <2>1, <2>3
    <2>4. CASE found /\ ~fedBad
      BY <2>1, <2>4, <2>a
    <2>5. QED BY <2>2, <2>3, <2>4
  <1>2. /\ Shape(S) /\ Held(Parts, S, 0, 0, 0) /\ \A v \in Workers : ExecLinks(S, v)
        /\ \A e \in Edges : RecvLinks(Parts, S, e)
    BY RefInvStep
  <1>3. Held(Parts, F, w, g, 1) /\ SameRest(S, F) /\ g \in DOMAIN F.rendez[w] /\ Shape(F)
    BY <1>2, FindOrCreateHeld DEF Held, Typed
  <1>4. /\ S.exec[w].pc = "none" /\ S.run[w].client # "none"
        /\ \A e \in Edges : e[2] = w => ~Underway(S, e)
    BY <1>0, <1>2 DEF ExecLinks, RecvLinks
  <1> HIDE DEF S, F, g
  <1>a. 0 \in Int /\ 1 \in Int
    OBVIOUS
  <1>5. Held(Parts, U, 0, 0, 0) /\ SameRest(S, U)
    <2>1. Held(Parts, U, w, g, 1 - 1)
      BY <1>3, <1>a, HeldUnref
    <2>2. SameRest(S, U)
      BY <1>3 DEF Unref, Shape, SameRest
    <2> HIDE DEF U
    <2>3. QED BY <2>1, <2>2, HeldAnywhere
  <1> HIDE DEF U
  <1>6. ASSUME NEW R, Held(Parts, R, 0, 0, 0), SameRest(S, R), worker' = worker,
               step' = [step EXCEPT ![s] = Refused(R)]
        PROVE  RefInv'
    <2> DEFINE T == Refused(R)
    <2>1. /\ Shape(R) /\ \A v \in Workers : ExecLinks(R, v)
          /\ \A e \in Edges : RecvLinks(Parts, R, e)
      BY <1>6 DEF Held, Typed, Linked
    <2>2. /\ T.rendez = R.rendez /\ T.table = R.table /\ T.recv = R.recv /\ T.exec = R.exec
          /\ T.pc = R.pc /\ T.cleanup = R.cleanup
          /\ T.run = [R.run EXCEPT ![w] = Answer(@, "bad")] /\ DOMAIN T = DOMAIN R
      BY <2>1 DEF Shape
    <2>a. step' = [step EXCEPT ![s] = T]
      BY <1>6
    <2> HIDE DEF T
    <2>3. /\ Shape(T) /\ \A v \in Workers : v # w => T.run[v] = R.run[v]
          /\ T.run[w].client = R.run[w].client /\ T.run[w].server = "replied"
      BY <2>1, <2>2 DEF Shape, Answer
    <2>4. Framed(Parts, R, T)
      <3>1. \A v \in Workers : ExecLinks(T, v)
        BY <1>4, <1>6, <2>1, <2>2, <2>3 DEF ExecLinks, SameRest
      <3>2. \A e \in Edges : RecvLinks(Parts, T, e) /\ (Underway(R, e) => Underway(T, e))
        BY <2>1, <2>2 DEF RecvLinks, Underway
      <3>3. QED BY <2>2, <3>1, <3>2 DEF Framed
    <2>5. Held(Parts, T, 0, 0, 0) /\ Unseen(S, T)
      BY <1>6, <2>2, <2>3, <2>4, HeldFrame DEF Unseen, SameRest
    <2>6. QED BY <1>0, <1>6, <2>a, <2>5, QuietStep DEF S
  <1>7. ASSUME NEW c, worker[w].table, worker' = [worker EXCEPT ![w].refs = @ + 1],
               step' = [step EXCEPT ![s] = Begun(c)]
        PROVE  RefInv'
    <2> DEFINE T == Begun(c)
               d == 1
               u == [worker[w] EXCEPT !.refs = @ + 1]
    <2>1. /\ T.rendez = F.rendez /\ T.table = F.table /\ T.recv = F.recv
          /\ T.exec = [F.exec EXCEPT ![w] = [NoExec EXCEPT !.pc = "run", !.rendez = g]]
          /\ T.pc = F.pc /\ T.cleanup = F.cleanup /\ DOMAIN T = DOMAIN F
          /\ T.run = [F.run EXCEPT ![w] = [@ EXCEPT !.server = "working", !.told = c]]
      BY <1>3 DEF Shape
    <2>a. step' = [step EXCEPT ![s] = T]
      BY <1>7
    <2>b. F.recv = S.recv /\ F.exec = S.exec /\ F.run = S.run /\ F.pc = S.pc
          /\ F.cleanup = S.cleanup
      BY <1>3 DEF SameRest
    <2> HIDE DEF T
    <2>2. /\ T.exec[w].pc = "run" /\ T.exec[w].rendez = g
          /\ T.run[w].server = "working" /\ T.run[w].client = F.run[w].client
          /\ \A v \in Workers : v # w => T.exec[v] = F.exec[v] /\ T.run[v] = F.run[v]
          /\ Shape(T)
      BY <1>3, <2>1 DEF Shape, NoExec
    <2>3. \A v \in Workers : ExecLinks(T, v)
      <3>1. \A v \in Workers : ExecLinks(F, v)
        BY <1>3 DEF Held, Linked
      <3>2. QED BY <1>3, <1>4, <2>1, <2>2, <2>b, <3>1 DEF ExecLinks
    <2>4. \A e \in Edges : e[2] = w => ~Underway(F, e)
      BY <1>4, <2>b DEF Underway
    <2>5. ExecMoves(F, T, w, g, d) /\ d \in {1, -1}
      BY <1>4, <2>1, <2>2, <2>3, <2>4, <2>b DEF ExecMoves, Here
    <2> HIDE DEF d
    <2>6. Held(Parts, T, w, g, 1 - d)
      BY <1>3, <1>a, <2>5, ExecMoved
    <2>7. Held(Parts, T, 0, 0, 0)
      BY <2>6, HeldAnywhere DEF d
    <2>8. step'[s] = T /\ \A t \in Steps : t # s => step'[t] = step[t]
      BY <2>a DEF RefInv, IInv
    <2>9. Running(w)' = Running(w) \cup {s} /\ s \notin Running(w)
          /\ \A v \in Workers : v # w => Running(v)' = Running(v)
      BY <1>4, <2>2, <2>8, <2>b DEF Running, S
    <2>10. /\ worker[w] \in [incarnation : Int, table : BOOLEAN, refs : Int]
           /\ IsFiniteSet(Running(w))
           /\ worker[w].refs = Holds(worker[w].table) + Cardinality(Running(w))
           /\ rcg.register[w] \in {"ok", "failed"}
      BY <1>7 DEF RefInv, WorkerInv
    <2>11. /\ u \in [incarnation : Int, table : BOOLEAN, refs : Int]
           /\ u.refs = worker[w].refs + 1 /\ u.table = worker[w].table
      BY <2>10
    <2>c. worker' = [worker EXCEPT ![w] = u]
      BY <1>7
    <2> HIDE DEF u
    <2>12. /\ IsFiniteSet(Running(w)')
           /\ Cardinality(Running(w)') = Cardinality(Running(w)) + 1
           /\ Cardinality(Running(w)) \in Nat
      BY <2>9, <2>10, FS_AddElement, FS_CardinalityType
    <2>13. u.refs = Holds(u.table) + Cardinality(Running(w)')
      BY <2>10, <2>11, <2>12 DEF Holds
    <2>d. GraphOf(w, u)
      BY <1>0, <2>9, <2>10, <2>11, <2>12, <2>13, <2>c DEF GraphOf
    <2>14. WorkerInv'
      BY <2>d, WorkerOne DEF RefInv
    <2>15. RunsElsewhere(step[s], T, w)
      BY <2>1, <2>2, <2>b DEF RunsElsewhere, S
    <2>16. QED BY <1>0, <2>7, <2>14, <2>15, <2>a, StepOnWorker
  <1>8. SameRest(S, S)
    BY DEF SameRest
  <1> HIDE DEF Refused, Begun
  <1>9. QED BY <1>1, <1>2, <1>5, <1>6, <1>7, <1>8

\* UnrefAll gives up both references of the execution.
LEMMA UnrefAllRef ==
    ASSUME RefInv, IInv', NEW s \in Steps, NEW w \in Workers, UnrefAll(s, w)
    PROVE  RefInv'
  <1> DEFINE S == step[s]
             g == S.exec[w].rendez
             U == Unref(S, w, g)
             T == [U EXCEPT !.exec[w] = NoExec]
             u == [worker[w] EXCEPT !.refs = @ - 1]
             d == -1
             k == -1
  <1>0. /\ setup' = setup /\ session' = session /\ rcg' = rcg
        /\ S.exec[w].pc = "replied" /\ step' = [step EXCEPT ![s] = T]
        /\ worker' = [worker EXCEPT ![w].refs = @ - 1]
    BY DEF RefInv, IInv, UnrefAll
  <1>1. /\ Shape(S) /\ Held(Parts, S, w, g, 0) /\ \A v \in Workers : ExecLinks(S, v)
        /\ \A e \in Edges : RecvLinks(Parts, S, e)
    BY RefInvStep
  <1>2. g \in DOMAIN S.rendez[w] /\ Here(S, w, g) /\ 0 \in Int
    BY <1>0, ExecHere
  <1>3. d \in {1, -1} /\ d # 1 /\ k \in Int /\ 0 - 1 = k /\ k - d = 0
    OBVIOUS
  <1>4. \A e \in Edges : e[2] = w => ~Underway(S, e)
    BY <1>0, <1>1 DEF RecvLinks
  <1> HIDE DEF S, g, d, k
  <1>5. Held(Parts, U, w, g, 0 - 1)
    BY <1>1, <1>2, HeldUnref
  <1>6. SameRest(S, U) /\ Shape(U)
    BY <1>1, <1>5 DEF Unref, Shape, SameRest, Held, Typed
  <1> HIDE DEF U
  <1>7. /\ T.rendez = U.rendez /\ T.table = U.table /\ T.recv = U.recv /\ T.run = U.run
        /\ T.exec = [U.exec EXCEPT ![w] = NoExec]
        /\ T.pc = U.pc /\ T.cleanup = U.cleanup /\ DOMAIN T = DOMAIN U
    BY <1>6 DEF Shape
  <1> HIDE DEF T
  <1>8. /\ Shape(T) /\ T.exec[w].pc = "none"
        /\ \A v \in Workers : v # w => T.exec[v] = U.exec[v]
    BY <1>6, <1>7 DEF Shape, NoExec
  <1>9. U.recv = S.recv /\ U.exec = S.exec /\ U.run = S.run /\ U.pc = S.pc
        /\ U.cleanup = S.cleanup
    BY <1>6 DEF SameRest
  <1>10. ExecMoves(U, T, w, g, d)
    <2>1. \A v \in Workers : ExecLinks(U, v)
      BY <1>5 DEF Held, Linked
    <2>2. \A v \in Workers : ExecLinks(T, v)
      BY <1>7, <1>8, <2>1 DEF ExecLinks
    <2>3. \A e \in Edges : e[2] = w => ~Underway(U, e)
      BY <1>4, <1>9 DEF Underway
    <2>4. Here(U, w, g)
      BY <1>2, <1>9 DEF Here
    <2>5. QED BY <1>3, <1>7, <1>8, <2>2, <2>3, <2>4 DEF ExecMoves
  <1>11. Held(Parts, U, w, g, k)
    BY <1>3, <1>5
  <1>12. Held(Parts, T, w, g, k - d)
    BY <1>3, <1>10, <1>11, ExecMoved
  <1>13. Held(Parts, T, 0, 0, 0)
    BY <1>3, <1>12, HeldAnywhere
  <1>14. step'[s] = T /\ \A t \in Steps : t # s => step'[t] = step[t]
    BY <1>0 DEF RefInv, IInv
  <1>15. Running(w) = Running(w)' \cup {s} /\ s \notin Running(w)' /\ s \in Running(w)
         /\ Running(w)' \subseteq Running(w)
         /\ \A v \in Workers : v # w => Running(v)' = Running(v)
    BY <1>0, <1>8, <1>9, <1>14 DEF Running, S
  <1>16. /\ worker[w] \in [incarnation : Int, table : BOOLEAN, refs : Int]
         /\ IsFiniteSet(Running(w))
         /\ worker[w].refs = Holds(worker[w].table) + Cardinality(Running(w))
         /\ rcg.register[w] \in {"ok", "failed"}
    BY <1>15 DEF RefInv, WorkerInv
  <1>17. /\ u \in [incarnation : Int, table : BOOLEAN, refs : Int]
         /\ u.refs = worker[w].refs - 1 /\ u.table = worker[w].table
    BY <1>16
  <1>a. worker' = [worker EXCEPT ![w] = u]
    BY <1>0
  <1> HIDE DEF u
  <1>18. IsFiniteSet(Running(w)')
    BY <1>15, <1>16, FS_Subset
  <1>19. /\ Cardinality(Running(w)) = Cardinality(Running(w)') + 1
         /\ Cardinality(Running(w)') \in Nat
    BY <1>15, <1>18, FS_AddElement, FS_CardinalityType
  <1>20. u.refs = Holds(u.table) + Cardinality(Running(w)')
    BY <1>16, <1>17, <1>19 DEF Holds
  <1>b. GraphOf(w, u)
    BY <1>0, <1>15, <1>16, <1>17, <1>18, <1>20, <1>a DEF GraphOf
  <1>21. WorkerInv'
    BY <1>b, WorkerOne DEF RefInv
  <1>22. RunsElsewhere(step[s], T, w)
    BY <1>7, <1>8, <1>9 DEF RunsElsewhere, S
  <1>23. QED BY <1>0, <1>13, <1>21, <1>22, StepOnWorker

\* A crash leaves the rendezvous of the other workers, and what holds them.
LEMMA RestartHeld ==
    ASSUME RefInv, NEW w \in Workers, Restart(w), NEW s \in Steps
    PROVE  /\ Held(Parts, step'[s], 0, 0, 0)
           /\ step'[s].pc = step[s].pc /\ step'[s].cleanup = step[s].cleanup
           /\ step'[s].exec[w].pc = "none"
           /\ \A v \in Workers : v # w => step'[s].exec[v] = step[s].exec[v]
  <1> DEFINE S == step[s]
             T == step'[s]
             c(e) == S.recv[e]
  <1>0. /\ Shape(S) /\ Typed(S) /\ Linked(Parts, S) /\ Counts(Parts, S, 0, 0, 0)
        /\ \A e \in Edges : RecvLinks(Parts, S, e)
        /\ \A v \in Workers : ExecLinks(S, v)
    BY RefInvStep DEF Held
  <1>1. /\ DOMAIN T = DOMAIN S /\ T.pc = S.pc /\ T.cleanup = S.cleanup
        /\ T.rendez = [S.rendez EXCEPT ![w] = <<>>]
        /\ T.table = [S.table EXCEPT ![w] = 0]
        /\ T.exec = [S.exec EXCEPT ![w] = NoExec]
        /\ T.run = [S.run EXCEPT ![w].server = IF @ = "working" THEN "gone" ELSE @]
        /\ T.recv = [e \in Edges |->
              CASE e \in Out(w) /\ c(e).server = "working" ->
                     [c(e) EXCEPT !.server = "gone"]
                [] e \in In(w) /\ c(e).client \in {"registered", "flying"} ->
                     [Ended(c(e)) EXCEPT !.got = "bad"]
                [] OTHER -> c(e)]
    BY <1>0 DEF Restart, Shape
  <1> HIDE DEF S, T
  <1>2. ASSUME NEW e \in Edges
        PROVE  /\ T.recv[e].at = c(e).at /\ DOMAIN T.recv[e] = DOMAIN c(e)
               /\ e[1] # w => T.recv[e].server = c(e).server
               /\ e[2] # w => T.recv[e].client = c(e).client
               /\ e[1] = w => T.recv[e].server # "working"
               /\ e[2] = w => ~Underway(T, e)
               /\ T.recv[e].client = "none" => c(e).client = "none"
               /\ c(e).client = "none" => T.recv[e].client = "none"
               /\ c(e).server = "none" => T.recv[e].server = "none"
    <2>1. /\ DOMAIN c(e) = {"client", "server", "reply", "cancelled", "told", "aborted",
                            "at", "got"}
          /\ RecvLinks(Parts, S, e) /\ e[1] # e[2]
      BY <1>0 DEF Shape
    <2>2. CASE e[1] = w /\ c(e).server = "working"
      <3>1. e \in Out(w) /\ e \notin In(w)
        BY <2>1, <2>2 DEF Out, In, RecvLinks
      <3>2. T.recv[e] = [c(e) EXCEPT !.server = "gone"]
        BY <1>1, <2>2, <3>1
      <3>3. QED BY <2>1, <2>2, <3>2
    <2>3. CASE e[2] = w /\ Underway(S, e)
      <3>1. e \in In(w) /\ e \notin Out(w)
        BY <2>1, <2>3 DEF Out, In, RecvLinks, Underway
      <3>2. T.recv[e] = [Ended(c(e)) EXCEPT !.got = "bad"]
        BY <1>1, <2>3, <3>1 DEF Underway
      <3>3. QED BY <2>1, <2>3, <3>2 DEF Ended, Underway
    <2>4. CASE ~(e[1] = w /\ c(e).server = "working") /\ ~(e[2] = w /\ Underway(S, e))
      <3>1. T.recv[e] = c(e)
        BY <1>1, <2>4 DEF Out, In, Underway
      <3>2. QED BY <2>4, <3>1 DEF Underway
    <2>5. QED BY <2>2, <2>3, <2>4
  <1>3. /\ T.exec[w] = NoExec /\ DOMAIN T.exec = Workers /\ DOMAIN T.run = Workers
        /\ T.run[w] = [S.run[w] EXCEPT !.server = IF @ = "working" THEN "gone" ELSE @]
        /\ DOMAIN T.recv = Edges
        /\ \A v \in Workers : v # w =>
              /\ T.exec[v] = S.exec[v] /\ T.run[v] = S.run[v]
              /\ T.rendez[v] = S.rendez[v] /\ T.table[v] = S.table[v]
        /\ T.rendez[w] = <<>> /\ T.table[w] = 0
    BY <1>0, <1>1 DEF Shape, Typed
  <1>4. /\ T.run[w].client = S.run[w].client /\ DOMAIN T.run[w] = DOMAIN S.run[w]
        /\ S.run[w].server = "none" => T.run[w].server = "none"
        /\ T.exec[w].pc = "none" /\ DOMAIN T.exec[w] = {"pc", "ok", "rendez", "cm", "out"}
    BY <1>0, <1>3 DEF Shape, NoExec
  <1>5. Shape(T)
    BY <1>0, <1>1, <1>2, <1>3, <1>4 DEF Shape
  <1>6. Typed(T)
    <2>1. <<>> \in Seq(RendezvousType) /\ Len(<<>>) = 0
      OBVIOUS
    <2>2. T.rendez \in [Workers -> Seq(RendezvousType)] /\ T.table \in [Workers -> Nat]
      BY <1>0, <1>1, <2>1 DEF Typed
    <2>3. \A v \in Workers : T.table[v] <= Len(T.rendez[v])
      BY <1>0, <1>3, <2>1 DEF Typed
    <2>4. QED BY <1>5, <2>2, <2>3 DEF Typed
  <1>7. \A e \in Edges : RecvLinks(Parts, T, e)
    <2> SUFFICES ASSUME NEW e \in Edges PROVE RecvLinks(Parts, T, e)
      OBVIOUS
    <2>1. RecvLinks(Parts, S, e) /\ e[1] \in Workers /\ e[2] \in Workers
      BY <1>0
    <2>2. T.recv[e].client \in {"none", "registered"} =>
             c(e).client \in {"none", "registered"}
      BY <1>2 DEF Underway
    <2>3. T.recv[e].server = "working" => T.recv[e].at \in DOMAIN T.rendez[e[1]]
      BY <1>2, <1>3, <2>1 DEF RecvLinks
    <2>4. Underway(T, e) => T.exec[e[2]].pc = "run"
      BY <1>2, <1>3, <2>1 DEF RecvLinks, Underway
    <2>5. QED BY <1>2, <2>1, <2>2, <2>3, <2>4 DEF RecvLinks
  <1>8. \A v \in Workers : ExecLinks(T, v)
    <2>1. ExecLinks(T, w)
      BY <1>0, <1>4 DEF ExecLinks
    <2>2. ASSUME NEW v \in Workers, v # w PROVE ExecLinks(T, v)
      BY <1>0, <1>3, <2>2 DEF ExecLinks
    <2>3. QED BY <2>1, <2>2
  <1>9. \A v \in Workers : \A g : v # w =>
           /\ Waits(Parts, T, v, g) = Waits(Parts, S, v, g)
           /\ Flying(Parts, T, v) = Flying(Parts, S, v)
           /\ Here(T, v, g) = Here(S, v, g)
    BY <1>2, <1>3 DEF Waits, Flying, Here
  <1>10. DOMAIN T.rendez[w] = {}
    BY <1>3
  <1>11. \A v \in Workers : \A g \in DOMAIN T.rendez[v] : ActiveLinks(T, v, g)
    <2> SUFFICES ASSUME NEW v \in Workers, NEW g \in DOMAIN T.rendez[v]
                 PROVE  ActiveLinks(T, v, g)
      OBVIOUS
    <2>1. v # w /\ g \in DOMAIN S.rendez[v] /\ T.rendez[v] = S.rendez[v]
      BY <1>3, <1>10
    <2>2. S.rendez[v][g].active \subseteq Edges
      BY <1>0, <2>1, ActiveEdges
    <2>3. ActiveLinks(S, v, g)
      BY <1>0, <2>1 DEF Linked
    <2>4. QED BY <1>2, <1>9, <2>1, <2>2, <2>3 DEF ActiveLinks, Underway
  <1>12. Counts(Parts, T, 0, 0, 0)
    BY <1>0, <1>3, <1>9, <1>10 DEF Counts, Owed
  <1>13. Held(Parts, T, 0, 0, 0)
    BY <1>6, <1>7, <1>8, <1>11, <1>12 DEF Held, Linked
  <1>14. QED BY <1>1, <1>3, <1>4, <1>13 DEF S, T

\* A crash.
LEMMA RestartRef ==
    ASSUME RefInv, IInv', NEW w \in Workers, Restart(w)
    PROVE  RefInv'
  <1> DEFINE u == [incarnation |-> worker[w].incarnation + 1, table |-> FALSE, refs |-> 0]
  <1>0. /\ setup' = setup /\ session' = session /\ rcg' = rcg
        /\ worker' = [worker EXCEPT ![w] = u]
    BY DEF Restart
  <1>1. ASSUME NEW s \in Steps
        PROVE  /\ Held(Parts, step'[s], 0, 0, 0)
               /\ step'[s].pc = step[s].pc /\ step'[s].cleanup = step[s].cleanup
               /\ step'[s].exec[w].pc = "none"
               /\ \A v \in Workers : v # w => step'[s].exec[v] = step[s].exec[v]
    BY <1>1, RestartHeld
  <1>2. HeldSteps'
    <2>1. Parts' = Parts
      BY <1>0 DEF Parts
    <2>2. ASSUME NEW s \in Steps PROVE CleanupLinks(Parts, step'[s])
      BY <1>1, <2>2 DEF RefInv, HeldSteps, CleanupLinks
    <2>3. QED BY <1>1, <2>1, <2>2 DEF HeldSteps
  <1>3. CountedSteps' = CountedSteps /\ CleanedSteps' = CleanedSteps
    BY <1>1 DEF CountedSteps, CleanedSteps, Counted
  <1>4. Running(w)' = {} /\ \A v \in Workers : v # w => Running(v)' = Running(v)
    BY <1>1 DEF Running
  <1>5. /\ u \in [incarnation : Int, table : BOOLEAN, refs : Int]
        /\ u.table = FALSE /\ u.refs = 0
    BY DEF RefInv, WorkerInv
  <1> HIDE DEF u
  <1>6. IsFiniteSet(Running(w)') /\ u.refs = Holds(u.table) + Cardinality(Running(w)')
    BY <1>4, <1>5, FS_EmptySet DEF Holds
  <1>7. GraphOf(w, u)
    BY <1>0, <1>4, <1>5, <1>6 DEF GraphOf
  <1>8. WorkerInv'
    BY <1>7, WorkerOne DEF RefInv
  <1>9. QED BY <1>0, <1>2, <1>3, <1>8, SessionSame, GraphSame DEF RefInv

-----------------------------------------------------------------------------
(* The actions that the client graph and the session see *)

\* A reference of the client graph is given up by the one that held it.
LEMMA GraphDrops ==
    ASSUME GraphInv, rcg' = UnrefGraph(rcg), rcg.init # "none",
           IsFiniteSet(CleanedSteps'),
           rcg.refs - 1 = Holds(rcg.init # "none" /\ session'.alive)
                          + Cardinality(CountedSteps') + Cardinality(CleanedSteps')
    PROVE  GraphInv' /\ rcg'.register = rcg.register
  <1>1. /\ rcg'.refs = rcg.refs - 1 /\ rcg'.init = rcg.init
        /\ rcg'.register = rcg.register /\ rcg'.handle = rcg.handle
        /\ rcg'.deregister \in [Workers -> {"none", "sent", "done"}]
        /\ DOMAIN rcg' = DOMAIN rcg
    BY DEF GraphInv, UnrefGraph
  <1>2. rcg' \in [refs : Int, init : {"none", "started", "ok", "bad"},
                  register : [Workers -> {"none", "sent", "ok", "failed"}],
                  handle : [Workers -> Int],
                  deregister : [Workers -> {"none", "sent", "done"}]]
    <2>1. rcg' = [refs |-> rcg'.refs, init |-> rcg'.init, register |-> rcg'.register,
                  handle |-> rcg'.handle, deregister |-> rcg'.deregister]
      BY DEF GraphInv, UnrefGraph
    <2>2. rcg'.refs \in Int
      BY <1>1 DEF GraphInv
    <2>3. QED BY <1>1, <2>1, <2>2 DEF GraphInv
  <1>3. rcg'.refs = Holds(rcg'.init # "none" /\ session'.alive)
                    + Cardinality(CountedSteps') + Cardinality(CleanedSteps')
    BY <1>1
  <1>4. QED BY <1>1, <1>2, <1>3 DEF GraphInv

\* The CleanupGraph call to w has ended, and step s is now T.
CleanupEnded(S, T, w) ==
    /\ T.pc = S.pc /\ T.cleanup \in {[S.cleanup EXCEPT ![w] = "done"],
                                     [S.cleanup EXCEPT ![w] = "failed"]}
    /\ \A v \in Workers : T.exec[v].pc = S.exec[v].pc

\* The last call to end gives up the graph.
LEMMA CleanupEndedRef ==
    ASSUME RefInv, IInv', NEW s \in Steps, NEW w \in Workers, NEW T,
           step[s].cleanup[w] = "sent", Held(Parts, T, 0, 0, 0),
           CleanupEnded(step[s], T, w),
           setup' = setup, session' = session, worker' = worker,
           step' = [step EXCEPT ![s] = T],
           rcg' = IF \A v \in Parts \ {w} : step[s].cleanup[v] # "sent"
                  THEN UnrefGraph(rcg) ELSE rcg
    PROVE  RefInv'
  <1> DEFINE S == step[s]
  <1>0. step'[s] = T /\ \A t \in Steps : t # s => step'[t] = step[t]
    BY DEF RefInv, IInv
  <1>1. CleanupLinks(Parts, S) /\ w \in Parts /\ Parts \subseteq Workers
    BY RefInvStep DEF CleanupLinks
  <1>2. T.cleanup \in [Workers -> {"none", "sent", "done", "failed"}]
        /\ T.cleanup[w] # "sent" /\ \A v \in Workers : v # w => T.cleanup[v] = S.cleanup[v]
    BY <1>1 DEF CleanupLinks, CleanupEnded
  <1>3. S.pc = "returned" /\ T.pc = S.pc
    BY <1>1 DEF CleanupLinks, CleanupEnded
  <1>4. CleanupLinks(Parts, T)
    BY <1>1, <1>2, <1>3 DEF CleanupLinks
  <1>5. HeldSteps'
    BY <1>4, HeldStepsOne DEF RefInv
  <1>6. CountedSteps' = CountedSteps
    BY <1>0, <1>3 DEF CountedSteps, Counted
  <1>7. \A v \in Workers : Running(v)' = Running(v)
    BY <1>0 DEF Running, CleanupEnded
  <1>8. s \in CleanedSteps /\ rcg.init # "none" /\ IsFiniteSet(CleanedSteps)
    BY DEF CleanedSteps, RefInv, GraphInv
  <1>9. GraphInv' /\ rcg'.register = rcg.register
    <2>1. CASE \A v \in Parts \ {w} : S.cleanup[v] # "sent"
      <3>1. \A v \in Workers : T.cleanup[v] # "sent"
        BY <1>1, <1>2, <2>1 DEF CleanupLinks
      <3>2. CleanedSteps' = CleanedSteps \ {s}
        BY <1>0, <3>1 DEF CleanedSteps
      <3>3. /\ IsFiniteSet(CleanedSteps')
            /\ Cardinality(CleanedSteps') = Cardinality(CleanedSteps) - 1
            /\ Cardinality(CleanedSteps) \in Nat /\ Cardinality(CountedSteps) \in Nat
        <4>1. IsFiniteSet(CountedSteps)
          BY DEF RefInv, SessionInv
        <4>2. QED BY <1>8, <3>2, <4>1, FS_RemoveElement, FS_CardinalityType
      <3>4. rcg' = UnrefGraph(rcg)
        BY <2>1
      <3>5. rcg.refs - 1 = Holds(rcg.init # "none" /\ session'.alive)
                           + Cardinality(CountedSteps') + Cardinality(CleanedSteps')
        BY <1>6, <3>3 DEF RefInv, GraphInv, Holds
      <3>6. QED BY <1>8, <3>3, <3>4, <3>5, GraphDrops DEF RefInv
    <2>2. CASE \E v \in Parts \ {w} : S.cleanup[v] = "sent"
      <3>1. \E v \in Workers : T.cleanup[v] = "sent"
        BY <1>1, <1>2, <2>2
      <3>2. CleanedSteps' = CleanedSteps
        BY <1>0, <1>8, <3>1 DEF CleanedSteps
      <3>3. rcg' = rcg
        BY <2>2
      <3>4. QED BY <1>6, <3>2, <3>3, GraphSame DEF RefInv
    <2>3. QED BY <2>1, <2>2
  <1>10. QED BY <1>5, <1>6, <1>7, <1>9, WorkerSame, SessionSame DEF RefInv

\* A CleanupGraph call ends, well or not.
LEMMA CleanupGraphRef ==
    ASSUME RefInv, IInv', NEW s \in Steps, NEW w \in Workers, CleanupGraph(s, w)
    PROVE  RefInv'
  <1> DEFINE S == step[s]
             C == Cleanup(S, w)
             A == [C EXCEPT !.cleanup[w] = "done"]
             B == [S EXCEPT !.cleanup[w] = "failed"]
  <1>1. /\ S.cleanup[w] = "sent"
        /\ setup' = setup /\ session' = session /\ worker' = worker
        /\ rcg' = IF \A v \in Parts \ {w} : step[s].cleanup[v] # "sent"
                  THEN UnrefGraph(rcg) ELSE rcg
    BY DEF CleanupGraph
  <1>2. step' = [step EXCEPT ![s] = A] \/ step' = [step EXCEPT ![s] = B]
    BY DEF CleanupGraph
  <1>3. Held(Parts, S, 0, 0, 0) /\ Shape(S)
    BY RefInvStep
  <1>4. /\ Held(Parts, C, 0, 0, 0) /\ Shape(C) /\ C.pc = S.pc /\ C.cleanup = S.cleanup
        /\ \A v \in Workers : C.exec[v].pc = S.exec[v].pc
    BY <1>3, CleanupHeld DEF Held, Typed
  <1> HIDE DEF C
  <1>5. Held(Parts, A, 0, 0, 0) /\ CleanupEnded(S, A, w)
    <2>1. Shape(A) /\ A.rendez = C.rendez /\ A.table = C.table /\ A.recv = C.recv
          /\ A.exec = C.exec /\ A.run = C.run /\ A.pc = C.pc
          /\ A.cleanup = [C.cleanup EXCEPT ![w] = "done"]
      BY <1>4 DEF Shape
    <2> HIDE DEF A
    <2>2. Held(Parts, A, 0, 0, 0)
      BY <1>4, <2>1, HeldSame
    <2>3. QED BY <1>4, <2>1, <2>2 DEF CleanupEnded
  <1>6. Held(Parts, B, 0, 0, 0) /\ CleanupEnded(S, B, w)
    <2>1. Shape(B) /\ B.rendez = S.rendez /\ B.table = S.table /\ B.recv = S.recv
          /\ B.exec = S.exec /\ B.run = S.run /\ B.pc = S.pc
          /\ B.cleanup = [S.cleanup EXCEPT ![w] = "failed"]
      BY <1>3 DEF Shape
    <2> HIDE DEF B, S
    <2>2. Held(Parts, B, 0, 0, 0)
      BY <1>3, <2>1, HeldSame
    <2>3. QED BY <2>1, <2>2 DEF CleanupEnded
  <1> HIDE DEF A, B
  <1>7. QED BY <1>1, <1>2, <1>5, <1>6, CleanupEndedRef

\* A change of the master's view of a step, which no rendezvous sees.
MasterOnly(S, T) ==
    /\ Shape(T) /\ T.rendez = S.rendez /\ T.table = S.table
    /\ T.recv = S.recv /\ T.exec = S.exec
    /\ \A w \in Workers : /\ T.run[w].client = S.run[w].client
                          /\ T.run[w].server = S.run[w].server

\* No rendezvous sees such a change.
LEMMA MasterHeld ==
    ASSUME NEW P, NEW S, NEW T, Held(P, S, 0, 0, 0), MasterOnly(S, T)
    PROVE  Held(P, T, 0, 0, 0)
  BY HeldSame DEF MasterOnly

\* ... nor does another step or a worker.
LEMMA MasterStep ==
    ASSUME RefInv, NEW s \in Steps, NEW T, MasterOnly(step[s], T), CleanupLinks(Parts, T),
           setup' = setup, step' = [step EXCEPT ![s] = T]
    PROVE  /\ HeldSteps' /\ \A w \in Workers : Running(w)' = Running(w)
           /\ step'[s] = T /\ \A t \in Steps : t # s => step'[t] = step[t]
  <1>1. step'[s] = T /\ \A t \in Steps : t # s => step'[t] = step[t]
    BY DEF RefInv, IInv
  <1>2. Held(Parts, T, 0, 0, 0)
    BY RefInvStep, MasterHeld
  <1>3. HeldSteps'
    BY <1>2, HeldStepsOne DEF RefInv
  <1>4. \A w \in Workers : Running(w)' = Running(w)
    BY <1>1 DEF Running, MasterOnly
  <1>5. QED BY <1>1, <1>3, <1>4

\* RunStep and a late Run: the step is not counted before or after.
LEMMA UncountedRef ==
    ASSUME RefInv, IInv', NEW s \in Steps, RunStep(s) \/ RunOnDeleted(s)
    PROVE  RefInv'
  <1> DEFINE S == step[s]
  <1>1. /\ S.pc \in {"idle", "scheduled"}
        /\ setup' = setup /\ session' = session /\ rcg' = rcg /\ worker' = worker
    BY DEF RunStep, RunOnDeleted
  <1>2. PICK T \in {[S EXCEPT !.pc = "scheduled"], [S EXCEPT !.pc = "undefined"],
                    [S EXCEPT !.pc = "returned", !.result = "bad"]} :
               step' = [step EXCEPT ![s] = T]
    BY DEF RunStep, RunOnDeleted, RefInv, IInv
  <1>3. Shape(S) /\ CleanupLinks(Parts, S)
    BY RefInvStep
  <1> HIDE DEF S
  <1>4. /\ MasterOnly(S, T) /\ T.pc \in {"scheduled", "undefined", "returned"}
        /\ T.cleanup = S.cleanup
    BY <1>3 DEF Shape, MasterOnly
  <1>5. CleanupLinks(Parts, T)
    BY <1>1, <1>3, <1>4 DEF CleanupLinks
  <1>6. /\ HeldSteps' /\ \A w \in Workers : Running(w)' = Running(w)
        /\ step'[s] = T /\ \A t \in Steps : t # s => step'[t] = step[t]
    BY <1>1, <1>2, <1>4, <1>5, MasterStep DEF S
  <1>7. CountedSteps' = CountedSteps /\ CleanedSteps' = CleanedSteps
    BY <1>1, <1>4, <1>6 DEF CountedSteps, CleanedSteps, Counted, S
  <1>8. QED BY <1>1, <1>6, <1>7, WorkerSame, SessionSame, GraphSame DEF RefInv

\* RegisterCancel and UseInitResult with a good result: the step goes on.
LEMMA GoesOnRef ==
    ASSUME RefInv, IInv', NEW s \in Steps, NEW T, MasterOnly(step[s], T),
           T.cleanup = step[s].cleanup, T.pc \in {"issuing", "waiting"},
           step[s].pc \in {"registering", "wait_init", "issuing", "waiting"},
           setup' = setup, session' = session, rcg' = rcg, worker' = worker,
           step' = [step EXCEPT ![s] = T]
    PROVE  RefInv'
  <1>1. CleanupLinks(Parts, T)
    BY RefInvStep DEF CleanupLinks
  <1>2. /\ HeldSteps' /\ \A w \in Workers : Running(w)' = Running(w)
        /\ step'[s] = T /\ \A t \in Steps : t # s => step'[t] = step[t]
    BY <1>1, MasterStep
  <1>3. CountedSteps' = CountedSteps /\ CleanedSteps' = CleanedSteps
    BY <1>2 DEF CountedSteps, CleanedSteps, Counted
  <1>4. QED BY <1>2, <1>3, WorkerSame, SessionSame, GraphSame DEF RefInv

\* UpdateStatusLocked is the master's.
LEMMA UpdateStatusMaster ==
    ASSUME NEW S, Shape(S)
    PROVE  LET T == UpdateStatusLocked(S)
           IN  MasterOnly(S, T) /\ T.cleanup = S.cleanup /\ T.pc = S.pc
  <1> DEFINE T == UpdateStatusLocked(S)
  <1>1. /\ Shape(T)
        /\ T.rendez = S.rendez /\ T.table = S.table /\ T.recv = S.recv /\ T.exec = S.exec
        /\ T.cleanup = S.cleanup /\ T.pc = S.pc
        /\ \/ T.run = S.run
           \/ T.run = [w \in Workers |->
                [S.run[w] EXCEPT !.cancelled = @ \/ S.run[w].client = "flying"]]
    BY UpdateStatusKept DEF UpdateStatusLocked, Shape, Kept
  <1> HIDE DEF T
  <1>2. \A w \in Workers : /\ T.run[w].client = S.run[w].client
                           /\ T.run[w].server = S.run[w].server
    BY <1>1 DEF Shape
  <1>3. MasterOnly(S, T)
    BY <1>1, <1>2 DEF MasterOnly
  <1>4. QED BY <1>1, <1>3 DEF T

\* The step begins to wait.
LEMMA RegisterCancelRef ==
    ASSUME RefInv, IInv', NEW s \in Steps, RegisterCancel(s)
    PROVE  RefInv'
  <1> DEFINE S == step[s]
             T == [S EXCEPT !.pc = "waiting", !.success = ~session.cancelled]
             U == UpdateStatusLocked(T)
  <1>1. /\ S.pc = "issuing"
        /\ setup' = setup /\ session' = session /\ rcg' = rcg /\ worker' = worker
        /\ step' = [step EXCEPT ![s] = IF T.success THEN T ELSE U]
    BY DEF RegisterCancel
  <1>2. Shape(S)
    BY RefInvStep
  <1> HIDE DEF S
  <1>3. MasterOnly(S, T) /\ T.pc = "waiting" /\ T.cleanup = S.cleanup /\ Shape(T)
    BY <1>2 DEF Shape, MasterOnly
  <1> HIDE DEF T
  <1>4. MasterOnly(T, U) /\ U.pc = "waiting" /\ U.cleanup = S.cleanup
    BY <1>3, UpdateStatusMaster
  <1> HIDE DEF U
  <1>5. MasterOnly(S, U)
    BY <1>3, <1>4 DEF MasterOnly
  <1>6. CASE step' = [step EXCEPT ![s] = T]
    BY <1>1, <1>3, <1>6, GoesOnRef DEF S
  <1>7. CASE step' = [step EXCEPT ![s] = U]
    BY <1>1, <1>4, <1>5, <1>7, GoesOnRef DEF S
  <1>8. QED BY <1>1, <1>6, <1>7

\* The client cancels.
LEMMA CancelRunStepRef ==
    ASSUME RefInv, IInv', NEW s \in Steps, CancelRunStep(s)
    PROVE  RefInv'
  <1> DEFINE T == UpdateStatusLocked(step[s])
  <1>1. /\ step[s].pc = "waiting" /\ step' = [step EXCEPT ![s] = T]
        /\ setup' = setup /\ session' = session /\ rcg' = rcg /\ worker' = worker
    BY DEF CancelRunStep
  <1>2. MasterOnly(step[s], T) /\ T.cleanup = step[s].cleanup /\ T.pc = step[s].pc
    BY RefInvStep, UpdateStatusMaster
  <1> HIDE DEF T
  <1>3. QED BY <1>1, <1>2, GoesOnRef

\* The session counts one step more or less.
SessionOf(n) == session' = [session EXCEPT !.num_running = n]

\* The session is as good with the new count.
LEMMA SessionCounts ==
    ASSUME SessionInv, NEW n \in Int, SessionOf(n), IsFiniteSet(CountedSteps'),
           n = Cardinality(CountedSteps'), CountedSteps' # {} => session.alive
    PROVE  SessionInv' /\ session'.alive = session.alive
  <1>1. /\ session' \in [known : BOOLEAN, alive : BOOLEAN, cancelled : BOOLEAN,
                         closer : {"none", "scheduled", "waiting", "closed"},
                         num_running : Int]
        /\ session'.known = session.known /\ session'.alive = session.alive
        /\ session'.closer = session.closer /\ session'.num_running = n
    BY DEF SessionInv, SessionOf
  <1>2. QED BY <1>1 DEF SessionInv

\* Run counts the step in the session and in the graph.
LEMMA RunRef ==
    ASSUME RefInv, IInv', NEW s \in Steps, Run(s)
    PROVE  RefInv'
  <1> DEFINE S == step[s]
             first == rcg.init = "none"
             T == [S EXCEPT !.pc = IF first THEN "registering" ELSE "wait_init"]
             reg == [w \in Workers |-> IF w \in Parts THEN "sent" ELSE "none"]
             n == session.num_running + 1
  <1>1. /\ S.pc = "scheduled" /\ session.alive /\ SessionOf(n)
        /\ setup' = setup /\ worker' = worker
        /\ step' = [step EXCEPT ![s] = T]
        /\ rcg' = [rcg EXCEPT !.refs = IF first THEN 2 ELSE @ + 1,
                              !.init = IF first THEN "started" ELSE @,
                              !.register = IF first THEN reg ELSE @]
    BY DEF Run, SessionOf, RefInv, IInv
  <1>2. Shape(S) /\ CleanupLinks(Parts, S) /\ S.cleanup = [w \in Workers |-> "none"]
    BY <1>1, RefInvStep DEF CleanupLinks
  <1> HIDE DEF S
  <1>3. /\ MasterOnly(S, T) /\ T.pc \in {"registering", "wait_init"}
        /\ T.cleanup = S.cleanup
    BY <1>2 DEF Shape, MasterOnly
  <1>4. CleanupLinks(Parts, T)
    BY <1>1, <1>2, <1>3 DEF CleanupLinks
  <1> HIDE DEF T
  <1>5. /\ HeldSteps' /\ \A w \in Workers : Running(w)' = Running(w)
        /\ step'[s] = T /\ \A t \in Steps : t # s => step'[t] = step[t]
    BY <1>1, <1>3, <1>4, MasterStep DEF S
  <1>6. /\ CountedSteps' = CountedSteps \cup {s} /\ s \notin CountedSteps
        /\ CleanedSteps' = CleanedSteps
    BY <1>1, <1>3, <1>5 DEF CountedSteps, CleanedSteps, Counted, S
  <1>7. /\ IsFiniteSet(CountedSteps) /\ session.num_running = Cardinality(CountedSteps)
        /\ IsFiniteSet(CleanedSteps)
        /\ rcg.refs = Holds(rcg.init # "none" /\ session.alive)
                      + Cardinality(CountedSteps) + Cardinality(CleanedSteps)
        /\ first => rcg.register = [w \in Workers |-> "none"] /\ CountedSteps = {}
                    /\ CleanedSteps = {}
    BY DEF RefInv, SessionInv, GraphInv
  <1>8. /\ IsFiniteSet(CountedSteps')
        /\ Cardinality(CountedSteps') = Cardinality(CountedSteps) + 1
        /\ Cardinality(CountedSteps) \in Nat /\ Cardinality(CleanedSteps) \in Nat
    BY <1>6, <1>7, FS_AddElement, FS_CardinalityType
  <1>9. n \in Int /\ n = Cardinality(CountedSteps')
    BY <1>7, <1>8
  <1> HIDE DEF n
  <1>10. SessionInv' /\ session'.alive = session.alive
    BY <1>1, <1>8, <1>9, SessionCounts DEF RefInv
  <1>11. /\ rcg'.refs = (IF first THEN 2 ELSE rcg.refs + 1)
         /\ rcg'.init = (IF first THEN "started" ELSE rcg.init)
         /\ rcg'.register = (IF first THEN reg ELSE rcg.register)
         /\ rcg' = [refs |-> rcg'.refs, init |-> rcg'.init, register |-> rcg'.register,
                    handle |-> rcg.handle, deregister |-> rcg.deregister]
    BY <1>1 DEF RefInv, GraphInv
  <1>12. GraphInv'
    <2>1. rcg'.init # "none" /\ rcg'.init \in {"none", "started", "ok", "bad"}
      BY <1>11 DEF RefInv, GraphInv
    <2>2. rcg'.register \in [Workers -> {"none", "sent", "ok", "failed"}]
      BY <1>11 DEF RefInv, GraphInv
    <2>3. first => Cardinality(CountedSteps) = 0 /\ Cardinality(CleanedSteps) = 0
      BY <1>7, FS_EmptySet
    <2>4. rcg'.refs \in Int /\ rcg'.refs = 1 + Cardinality(CountedSteps')
                                           + Cardinality(CleanedSteps')
      BY <1>1, <1>6, <1>7, <1>8, <1>11, <2>3 DEF Holds
    <2>5. Holds(rcg'.init # "none" /\ session'.alive) = 1
      BY <1>1, <1>10, <2>1 DEF Holds
    <2>6. rcg' \in [refs : Int, init : {"none", "started", "ok", "bad"},
                    register : [Workers -> {"none", "sent", "ok", "failed"}],
                    handle : [Workers -> Int],
                    deregister : [Workers -> {"none", "sent", "done"}]]
      BY <1>11, <2>1, <2>2, <2>4 DEF RefInv, GraphInv
    <2>7. QED BY <1>6, <1>7, <2>1, <2>4, <2>5, <2>6 DEF GraphInv
  <1>13. WorkerInv'
    <2>1. CASE first
      <3>1. \A w \in Workers : rcg.register[w] \notin {"ok", "failed"}
        BY <1>7, <2>1
      <3>2. QED BY <1>1, <1>5, <3>1 DEF RefInv, WorkerInv
    <2>2. CASE ~first
      BY <1>1, <1>5, <1>11, <2>2, WorkerSame DEF RefInv
    <2>3. QED BY <2>1, <2>2
  <1>14. QED BY <1>5, <1>10, <1>12, <1>13 DEF RefInv

\* A RegisterGraph call makes the worker's graph, which nobody runs yet.
LEMMA RegisterGraphRef ==
    ASSUME RefInv, IInv', NEW w \in Workers, RegisterGraph(w)
    PROVE  RefInv'
  <1>0. /\ rcg.register[w] = "sent"
        /\ setup' = setup /\ session' = session /\ step' = step
    BY DEF RegisterGraph
  <1>1. PICK done \in BOOLEAN, ok \in BOOLEAN :
          /\ worker' = IF done THEN [worker EXCEPT ![w].table = TRUE, ![w].refs = 1]
                               ELSE worker
          /\ rcg' = [rcg EXCEPT !.register[w] = IF ok THEN "ok" ELSE "failed",
                                !.handle[w] = IF ok THEN FirstHandle ELSE @]
    BY DEF RegisterGraph
  <1> DEFINE u == IF done THEN [worker[w] EXCEPT !.table = TRUE, !.refs = 1] ELSE worker[w]
  <1>2. /\ CountedSteps' = CountedSteps /\ CleanedSteps' = CleanedSteps
        /\ \A v \in Workers : Running(v)' = Running(v)
    BY <1>0 DEF CountedSteps, CleanedSteps, Counted, Running
  <1>3. /\ worker[w] \in [incarnation : Int, table : BOOLEAN, refs : Int]
        /\ worker[w].table = FALSE /\ Running(w) = {} /\ worker[w].refs = 0
    BY <1>0, FS_EmptySet DEF RefInv, WorkerInv, Holds
  <1>4. /\ rcg'.refs = rcg.refs /\ rcg'.init = rcg.init
        /\ rcg'.register = [rcg.register EXCEPT ![w] = IF ok THEN "ok" ELSE "failed"]
        /\ rcg'.handle = [rcg.handle EXCEPT ![w] = IF ok THEN FirstHandle ELSE @]
        /\ rcg' = [refs |-> rcg.refs, init |-> rcg.init, register |-> rcg'.register,
                   handle |-> rcg'.handle, deregister |-> rcg.deregister]
    BY <1>1 DEF RefInv, GraphInv
  <1>5. /\ rcg'.register \in [Workers -> {"none", "sent", "ok", "failed"}]
        /\ rcg'.register[w] \in {"ok", "failed"}
        /\ \A v \in Workers : v # w => rcg'.register[v] = rcg.register[v]
        /\ rcg'.handle \in [Workers -> Int]
    BY <1>3, <1>4 DEF RefInv, GraphInv, FirstHandle
  <1>6. /\ u \in [incarnation : Int, table : BOOLEAN, refs : Int]
        /\ u.refs = Holds(u.table)
    <2>1. CASE done
      <3>1. u = [worker[w] EXCEPT !.table = TRUE, !.refs = 1]
        BY <2>1
      <3> HIDE DEF u
      <3>2. u = [incarnation |-> worker[w].incarnation, table |-> TRUE, refs |-> 1]
        BY <1>3, <3>1
      <3>3. QED BY <1>3, <3>2 DEF Holds
    <2>2. CASE ~done
      BY <1>3, <2>2 DEF Holds
    <2>3. QED BY <2>1, <2>2
  <1>7. worker' = [worker EXCEPT ![w] = u]
    BY <1>1 DEF RefInv, WorkerInv
  <1> HIDE DEF u
  <1>8. /\ IsFiniteSet(Running(w)') /\ Cardinality(Running(w)') = 0
        /\ u.refs = Holds(u.table) + Cardinality(Running(w)')
    <2>1. IsFiniteSet(Running(w)') /\ Cardinality(Running(w)') = 0
      BY <1>2, <1>3, FS_EmptySet
    <2>2. QED BY <1>6, <2>1 DEF Holds
  <1>9. GraphOf(w, u)
    BY <1>2, <1>5, <1>6, <1>7, <1>8 DEF GraphOf
  <1>10. WorkerInv'
    BY <1>9, WorkerOne DEF RefInv
  <1>11. GraphInv'
    <2>1. rcg' \in [refs : Int, init : {"none", "started", "ok", "bad"},
                    register : [Workers -> {"none", "sent", "ok", "failed"}],
                    handle : [Workers -> Int],
                    deregister : [Workers -> {"none", "sent", "done"}]]
      BY <1>4, <1>5 DEF RefInv, GraphInv
    <2>2. rcg.init # "none"
      BY <1>0 DEF RefInv, GraphInv
    <2>3. QED BY <1>0, <1>2, <1>4, <2>1, <2>2 DEF RefInv, GraphInv
  <1>12. HeldSteps'
    BY <1>0 DEF RefInv, HeldSteps, Parts
  <1>13. QED BY <1>0, <1>2, <1>10, <1>11, <1>12, SessionSame DEF RefInv

\* The answers of all workers are there.
LEMMA RegisterPartitionsRef ==
    ASSUME RefInv, IInv', NEW s \in Steps, RegisterPartitions(s)
    PROVE  RefInv'
  <1>1. /\ setup' = setup /\ session' = session /\ step' = step /\ worker' = worker
        /\ rcg.init = "started"
        /\ \E i \in {"bad", "ok"} : rcg' = [rcg EXCEPT !.init = i]
    BY DEF RegisterPartitions
  <1>2. /\ CountedSteps' = CountedSteps /\ CleanedSteps' = CleanedSteps
        /\ \A v \in Workers : Running(v)' = Running(v)
    BY <1>1 DEF CountedSteps, CleanedSteps, Counted, Running
  <1>3. /\ rcg'.refs = rcg.refs /\ rcg'.register = rcg.register /\ rcg'.init \in {"bad", "ok"}
        /\ rcg' \in [refs : Int, init : {"none", "started", "ok", "bad"},
                     register : [Workers -> {"none", "sent", "ok", "failed"}],
                     handle : [Workers -> Int],
                     deregister : [Workers -> {"none", "sent", "done"}]]
    BY <1>1 DEF RefInv, GraphInv
  <1>4. GraphInv'
    BY <1>1, <1>2, <1>3 DEF RefInv, GraphInv
  <1>5. WorkerInv'
    BY <1>1, <1>2, <1>3, WorkerSame DEF RefInv
  <1>6. HeldSteps'
    BY <1>1 DEF RefInv, HeldSteps, Parts
  <1>7. QED BY <1>1, <1>2, <1>4, <1>5, <1>6, SessionSame DEF RefInv

(***************************************************************************)
(* A step returns: it is no longer counted, and either its cleanups hold   *)
(* the graph from now on or it gives the graph up.                         *)
(***************************************************************************)
Returns(T, s) ==
    /\ MasterOnly(step[s], T) /\ CleanupLinks(Parts, T) /\ T.pc = "returned"
    /\ setup' = setup /\ worker' = worker /\ step' = [step EXCEPT ![s] = T]
    /\ Counted(s) /\ SessionOf(session.num_running - 1)
    /\ \/ T.cleanup = step[s].cleanup /\ rcg' = UnrefGraph(rcg)
       \/ (\E w \in Workers : T.cleanup[w] = "sent") /\ rcg' = rcg

\* The graph has one user less, or its cleanups instead of the step.
LEMMA ReturnsRef ==
    ASSUME RefInv, IInv', NEW s \in Steps, NEW T, Returns(T, s)
    PROVE  RefInv'
  <1> DEFINE n == session.num_running - 1
  <1>0. /\ MasterOnly(step[s], T) /\ CleanupLinks(Parts, T) /\ T.pc = "returned"
        /\ setup' = setup /\ worker' = worker /\ step' = [step EXCEPT ![s] = T]
        /\ Counted(s) /\ SessionOf(n)
    BY DEF Returns
  <1>1. /\ HeldSteps' /\ \A w \in Workers : Running(w)' = Running(w)
        /\ step'[s] = T /\ \A t \in Steps : t # s => step'[t] = step[t]
    BY <1>0, MasterStep
  <1>2. step[s].cleanup = [w \in Workers |-> "none"]
    BY <1>0, RefInvStep DEF CleanupLinks, Counted
  <1>3. /\ CountedSteps' = CountedSteps \ {s} /\ s \in CountedSteps /\ s \notin CleanedSteps
    BY <1>0, <1>1, <1>2 DEF CountedSteps, CleanedSteps, Counted
  <1>4. /\ IsFiniteSet(CountedSteps) /\ session.num_running = Cardinality(CountedSteps)
        /\ IsFiniteSet(CleanedSteps) /\ rcg.init # "none" /\ session.alive
        /\ rcg.refs = Holds(rcg.init # "none" /\ session.alive)
                      + Cardinality(CountedSteps) + Cardinality(CleanedSteps)
    BY <1>3 DEF RefInv, SessionInv, GraphInv
  <1>5. /\ IsFiniteSet(CountedSteps')
        /\ Cardinality(CountedSteps') = Cardinality(CountedSteps) - 1
        /\ Cardinality(CountedSteps) \in Nat /\ Cardinality(CleanedSteps) \in Nat
    BY <1>3, <1>4, FS_RemoveElement, FS_CardinalityType
  <1>6. n \in Int /\ n = Cardinality(CountedSteps')
    BY <1>4, <1>5
  <1> HIDE DEF n
  <1>7. SessionInv' /\ session'.alive = session.alive
    BY <1>0, <1>4, <1>5, <1>6, SessionCounts DEF RefInv
  <1>8. GraphInv' /\ rcg'.register = rcg.register
    <2>1. CASE T.cleanup = step[s].cleanup /\ rcg' = UnrefGraph(rcg)
      <3>1. CleanedSteps' = CleanedSteps
        BY <1>1, <2>1 DEF CleanedSteps
      <3>2. rcg.refs - 1 = Holds(rcg.init # "none" /\ session'.alive)
                           + Cardinality(CountedSteps') + Cardinality(CleanedSteps')
        BY <1>4, <1>5, <1>7, <3>1 DEF Holds
      <3>3. QED BY <1>4, <2>1, <3>1, <3>2, GraphDrops DEF RefInv
    <2>2. CASE (\E w \in Workers : T.cleanup[w] = "sent") /\ rcg' = rcg
      <3>1. CleanedSteps' = CleanedSteps \cup {s}
        BY <1>1, <2>2 DEF CleanedSteps
      <3>2. /\ IsFiniteSet(CleanedSteps')
            /\ Cardinality(CleanedSteps') = Cardinality(CleanedSteps) + 1
        BY <1>3, <1>4, <3>1, FS_AddElement
      <3>3. rcg.refs = Holds(rcg.init # "none" /\ session'.alive)
                       + Cardinality(CountedSteps') + Cardinality(CleanedSteps')
        BY <1>4, <1>5, <1>7, <3>2 DEF Holds
      <3>4. QED BY <1>4, <2>2, <3>2, <3>3 DEF RefInv, GraphInv
    <2>3. QED BY <2>1, <2>2 DEF Returns
  <1>9. QED BY <1>0, <1>1, <1>7, <1>8, WorkerSame DEF RefInv

\* The step goes on with the graph, or returns.
LEMMA UseInitResultRef ==
    ASSUME RefInv, IInv', NEW s \in Steps, UseInitResult(s)
    PROVE  RefInv'
  <1> DEFINE S == step[s]
             A == [S EXCEPT !.pc = "issuing"]
             B == [S EXCEPT !.pc = "returned", !.result = "bad"]
  <1>1. /\ S.pc \in {"registering", "wait_init"} /\ setup' = setup /\ worker' = worker
        /\ \/ step' = [step EXCEPT ![s] = A] /\ session' = session /\ rcg' = rcg
           \/ /\ step' = [step EXCEPT ![s] = B] /\ SessionOf(session.num_running - 1)
              /\ rcg' = UnrefGraph(rcg)
    BY DEF UseInitResult, RefInv, IInv, SessionOf
  <1>2. Shape(S) /\ CleanupLinks(Parts, S)
    BY RefInvStep
  <1> HIDE DEF S
  <1>3. MasterOnly(S, A) /\ A.pc = "issuing" /\ A.cleanup = S.cleanup
    BY <1>2 DEF Shape, MasterOnly
  <1>4. MasterOnly(S, B) /\ B.pc = "returned" /\ B.cleanup = S.cleanup
    BY <1>2 DEF Shape, MasterOnly
  <1> HIDE DEF A, B
  <1>5. CASE step' = [step EXCEPT ![s] = A] /\ session' = session /\ rcg' = rcg
    BY <1>1, <1>3, <1>5, GoesOnRef DEF S
  <1>6. CASE /\ step' = [step EXCEPT ![s] = B] /\ SessionOf(session.num_running - 1)
             /\ rcg' = UnrefGraph(rcg)
    <2>1. CleanupLinks(Parts, B)
      BY <1>2, <1>4 DEF CleanupLinks
    <2>2. Returns(B, s)
      BY <1>1, <1>4, <1>6, <2>1 DEF Returns, Counted, S
    <2>3. QED BY <2>2, ReturnsRef
  <1>7. QED BY <1>1, <1>5, <1>6

\* The step returns, and its cleanups begin if it has succeeded.
LEMMA RunPartitionsRef ==
    ASSUME RefInv, IInv', NEW s \in Steps, RunPartitions(s)
    PROVE  RefInv'
  <1> DEFINE S == step[s]
             good == S.success /\ S.status = "ok"
             sent == [w \in Workers |-> IF w \in Parts THEN "sent" ELSE "none"]
             T == [S EXCEPT !.pc = "returned",
                            !.result = IF good THEN "ok" ELSE "bad",
                            !.cleanup = IF good THEN sent ELSE @]
  <1>1. /\ S.pc = "waiting" /\ setup' = setup /\ worker' = worker
        /\ step' = [step EXCEPT ![s] = T] /\ SessionOf(session.num_running - 1)
        /\ rcg' = IF good THEN rcg ELSE UnrefGraph(rcg)
    BY DEF RunPartitions, SessionOf
  <1>2. Shape(S) /\ CleanupLinks(Parts, S)
    BY RefInvStep
  <1>3. Parts \subseteq Workers /\ Parts # {}
    BY DEF RefInv, IInv, Parts
  <1> HIDE DEF S
  <1>4. /\ MasterOnly(S, T) /\ T.pc = "returned"
        /\ T.cleanup = IF good THEN sent ELSE S.cleanup
    BY <1>2 DEF Shape, MasterOnly
  <1> HIDE DEF T
  <1>5. CleanupLinks(Parts, T)
    BY <1>2, <1>3, <1>4 DEF CleanupLinks
  <1>6. good => \E w \in Workers : T.cleanup[w] = "sent"
    BY <1>3, <1>4
  <1>7. \/ T.cleanup = S.cleanup /\ rcg' = UnrefGraph(rcg)
        \/ (\E w \in Workers : T.cleanup[w] = "sent") /\ rcg' = rcg
    BY <1>1, <1>4, <1>6
  <1>8. Returns(T, s)
    BY <1>1, <1>4, <1>5, <1>7 DEF Returns, Counted, S
  <1>9. QED BY <1>8, ReturnsRef

\* The session is taken out of sessions_.
LEMMA CloseSessionRef ==
    ASSUME RefInv, IInv', CloseSession
    PROVE  RefInv'
  <1>1. /\ setup' = setup /\ step' = step /\ rcg' = rcg /\ worker' = worker /\ session.known
        /\ session' = [session EXCEPT !.known = FALSE, !.closer = "scheduled"]
    BY DEF CloseSession
  <1>2. /\ CountedSteps' = CountedSteps /\ CleanedSteps' = CleanedSteps
        /\ \A v \in Workers : Running(v)' = Running(v)
    BY <1>1 DEF CountedSteps, CleanedSteps, Counted, Running
  <1>3. /\ session'.alive = session.alive /\ session'.num_running = session.num_running
        /\ session'.known = FALSE /\ session.alive
        /\ session' \in [known : BOOLEAN, alive : BOOLEAN, cancelled : BOOLEAN,
                         closer : {"none", "scheduled", "waiting", "closed"},
                         num_running : Int]
    BY <1>1 DEF RefInv, SessionInv
  <1>4. SessionInv'
    BY <1>2, <1>3 DEF RefInv, SessionInv
  <1>5. HeldSteps'
    BY <1>1 DEF RefInv, HeldSteps, Parts
  <1>6. QED BY <1>1, <1>2, <1>3, <1>4, <1>5, WorkerSame, GraphSame DEF RefInv

\* The waiting steps are cancelled.
LEMMA CloseCancelsRef ==
    ASSUME RefInv, IInv', CloseCancels
    PROVE  RefInv'
  <1>1. /\ setup' = setup /\ rcg' = rcg /\ worker' = worker /\ session.closer = "scheduled"
        /\ session' = [session EXCEPT !.cancelled = TRUE, !.closer = "waiting"]
        /\ Parts' = Parts
    BY DEF CloseCancels, Parts
  <1>2. ASSUME NEW s \in Steps
        PROVE  /\ MasterOnly(step[s], step'[s]) /\ step'[s].pc = step[s].pc
               /\ step'[s].cleanup = step[s].cleanup
    <2>1. step'[s] = UpdateStatusLocked(step[s]) \/ step'[s] = step[s]
      BY <1>2 DEF CloseCancels
    <2>2. Shape(step[s])
      BY <1>2, RefInvStep
    <2>3. MasterOnly(step[s], step[s])
      BY <2>2 DEF MasterOnly
    <2>4. QED BY <2>1, <2>2, <2>3, UpdateStatusMaster
  <1>3. HeldSteps'
    <2>1. ASSUME NEW s \in Steps PROVE Held(Parts, step'[s], 0, 0, 0)
      BY <1>2, <2>1, RefInvStep, MasterHeld
    <2>2. ASSUME NEW s \in Steps PROVE CleanupLinks(Parts, step'[s])
      BY <1>2, <2>2, RefInvStep DEF CleanupLinks
    <2>3. QED BY <1>1, <2>1, <2>2 DEF HeldSteps
  <1>4. /\ CountedSteps' = CountedSteps /\ CleanedSteps' = CleanedSteps
        /\ \A v \in Workers : Running(v)' = Running(v)
    BY <1>2 DEF CountedSteps, CleanedSteps, Counted, Running, MasterOnly
  <1>5. /\ session'.alive = session.alive /\ session'.num_running = session.num_running
        /\ session'.known = session.known /\ session.alive /\ session.known = FALSE
        /\ session' \in [known : BOOLEAN, alive : BOOLEAN, cancelled : BOOLEAN,
                         closer : {"none", "scheduled", "waiting", "closed"},
                         num_running : Int]
    BY <1>1 DEF RefInv, SessionInv
  <1>6. SessionInv'
    BY <1>4, <1>5 DEF RefInv, SessionInv
  <1>7. QED BY <1>1, <1>3, <1>4, <1>5, <1>6, WorkerSame, GraphSame DEF RefInv

\* Close waits until no step is counted: the graph it drops was the session's.
LEMMA CloseRef ==
    ASSUME RefInv, IInv', Close
    PROVE  RefInv'
  <1>1. /\ setup' = setup /\ step' = step /\ worker' = worker
        /\ session.closer = "waiting" /\ session.num_running = 0
        /\ session' = [session EXCEPT !.alive = FALSE, !.closer = "closed"]
        /\ rcg' = IF rcg.init = "none" THEN rcg ELSE UnrefGraph(rcg)
    BY DEF Close
  <1>2. /\ CountedSteps' = CountedSteps /\ CleanedSteps' = CleanedSteps
        /\ \A v \in Workers : Running(v)' = Running(v)
    BY <1>1 DEF CountedSteps, CleanedSteps, Counted, Running
  <1>3. /\ IsFiniteSet(CountedSteps) /\ Cardinality(CountedSteps) = 0
        /\ session.alive = TRUE /\ session.known = FALSE
    BY <1>1 DEF RefInv, SessionInv
  <1>4. CountedSteps = {}
    BY <1>3, FS_EmptySet
  <1>5. /\ session'.alive = FALSE /\ session'.num_running = session.num_running
        /\ session'.known = FALSE /\ session'.closer = "closed"
        /\ session' \in [known : BOOLEAN, alive : BOOLEAN, cancelled : BOOLEAN,
                         closer : {"none", "scheduled", "waiting", "closed"},
                         num_running : Int]
    BY <1>1, <1>3 DEF RefInv, SessionInv
  <1>6. SessionInv'
    BY <1>2, <1>4, <1>5 DEF RefInv, SessionInv
  <1>7. /\ IsFiniteSet(CleanedSteps) /\ Cardinality(CleanedSteps) \in Nat
        /\ rcg.refs = Holds(rcg.init # "none" /\ session.alive)
                      + Cardinality(CountedSteps) + Cardinality(CleanedSteps)
    BY FS_CardinalityType DEF RefInv, GraphInv
  <1>8. GraphInv' /\ rcg'.register = rcg.register
    <2>1. CASE rcg.init = "none"
      BY <1>1, <1>2, <2>1 DEF RefInv, GraphInv, Holds
    <2>2. CASE rcg.init # "none"
      <3>1. rcg.refs - 1 = Holds(rcg.init # "none" /\ session'.alive)
                           + Cardinality(CountedSteps') + Cardinality(CleanedSteps')
        BY <1>2, <1>3, <1>5, <1>7, <2>2 DEF Holds
      <3>2. QED BY <1>1, <1>2, <1>7, <2>2, <3>1, GraphDrops DEF RefInv
    <2>3. QED BY <2>1, <2>2
  <1>9. HeldSteps'
    BY <1>1 DEF RefInv, HeldSteps, Parts
  <1>10. QED BY <1>1, <1>2, <1>6, <1>8, <1>9, WorkerSame DEF RefInv

\* DeregisterGraph takes a worker's graph out of its table.
LEMMA DeregisterGraphRef ==
    ASSUME RefInv, IInv', NEW w \in Workers, DeregisterGraph(w)
    PROVE  RefInv'
  <1> DEFINE n == worker[w].refs - 1
             a == [worker[w] EXCEPT !.table = FALSE, !.refs = n]
  <1>1. /\ setup' = setup /\ session' = session /\ step' = step
        /\ rcg' = [rcg EXCEPT !.deregister[w] = "done"]
        /\ \/ worker[w].table /\ worker' = [worker EXCEPT ![w] = a]
           \/ worker' = worker
    BY DEF DeregisterGraph, Found, RefInv, WorkerInv
  <1>2. /\ CountedSteps' = CountedSteps /\ CleanedSteps' = CleanedSteps
        /\ \A v \in Workers : Running(v)' = Running(v)
    BY <1>1 DEF CountedSteps, CleanedSteps, Counted, Running
  <1>3. /\ rcg'.refs = rcg.refs /\ rcg'.init = rcg.init /\ rcg'.register = rcg.register
        /\ rcg' \in [refs : Int, init : {"none", "started", "ok", "bad"},
                     register : [Workers -> {"none", "sent", "ok", "failed"}],
                     handle : [Workers -> Int],
                     deregister : [Workers -> {"none", "sent", "done"}]]
    BY <1>1 DEF RefInv, GraphInv
  <1>4. GraphInv'
    BY <1>1, <1>2, <1>3 DEF RefInv, GraphInv
  <1>5. WorkerInv'
    <2>1. CASE worker' = worker
      BY <1>2, <1>3, <2>1, WorkerSame DEF RefInv
    <2>2. CASE worker[w].table /\ worker' = [worker EXCEPT ![w] = a]
      <3>1. /\ worker[w] \in [incarnation : Int, table : BOOLEAN, refs : Int]
            /\ IsFiniteSet(Running(w)) /\ worker[w].table = TRUE
            /\ worker[w].refs = Holds(worker[w].table) + Cardinality(Running(w))
            /\ rcg.register[w] \in {"ok", "failed"}
        BY <2>2 DEF RefInv, WorkerInv
      <3>2. /\ a \in [incarnation : Int, table : BOOLEAN, refs : Int]
            /\ a.refs = worker[w].refs - 1 /\ a.table = FALSE
        <4>1. n \in Int /\ worker[w] \in [incarnation : Int, table : BOOLEAN, refs : Int]
          BY <3>1
        <4> HIDE DEF n
        <4>2. \A r \in [incarnation : Int, table : BOOLEAN, refs : Int], m \in Int :
                 LET b == [r EXCEPT !.table = FALSE, !.refs = m]
                 IN  /\ b \in [incarnation : Int, table : BOOLEAN, refs : Int]
                     /\ b.refs = m /\ b.table = FALSE
          OBVIOUS
        <4>3. QED BY <4>1, <4>2 DEF n
      <3> HIDE DEF a
      <3>3. Cardinality(Running(w)) \in Nat
        BY <3>1, FS_CardinalityType
      <3>4. IsFiniteSet(Running(w)') /\ a.refs = Holds(a.table) + Cardinality(Running(w)')
        BY <1>2, <3>1, <3>2, <3>3 DEF Holds
      <3>5. GraphOf(w, a)
        BY <1>2, <1>3, <2>2, <3>1, <3>2, <3>4 DEF GraphOf
      <3>6. QED BY <3>5, WorkerOne DEF RefInv
    <2>3. QED BY <1>1, <2>1, <2>2
  <1>6. HeldSteps'
    BY <1>1 DEF RefInv, HeldSteps, Parts
  <1>7. QED BY <1>1, <1>2, <1>4, <1>5, <1>6, SessionSame DEF RefInv

-----------------------------------------------------------------------------
\* A step that has not begun holds nothing.
LEMMA NewStepHeld ==
    ASSUME NEW P
    PROVE  Held(P, NewStep, 0, 0, 0) /\ CleanupLinks(P, NewStep)
  <1> DEFINE S == NewStep
  <1>1. /\ Shape(S) /\ S.pc = "idle" /\ S.cleanup = [w \in Workers |-> "none"]
        /\ S.rendez = [w \in Workers |-> <<>>] /\ S.table = [w \in Workers |-> 0]
        /\ S.run = [w \in Workers |-> NewCall] /\ S.recv = [e \in Edges |-> NewRecv]
        /\ S.exec = [w \in Workers |-> NoExec]
    BY DEF NewStep, Shape, NewCall, NewRecv, NoExec
  <1> HIDE DEF S
  <1>2. <<>> \in Seq(RendezvousType) /\ Len(<<>>) = 0 /\ DOMAIN <<>> = {}
    OBVIOUS
  <1>3. Typed(S) /\ \A w \in Workers : DOMAIN S.rendez[w] = {}
    BY <1>1, <1>2 DEF Typed
  <1>4. \A e \in Edges : RecvLinks(P, S, e)
    BY <1>1 DEF RecvLinks, Underway, NewRecv
  <1>5. \A w \in Workers : ExecLinks(S, w)
    BY <1>1 DEF ExecLinks, NewCall, NoExec
  <1>6. Held(P, S, 0, 0, 0)
    BY <1>3, <1>4, <1>5 DEF Held, Linked, Counts
  <1>7. CleanupLinks(P, S)
    BY <1>1 DEF CleanupLinks
  <1>8. QED BY <1>6, <1>7 DEF S

\* In the initial states nothing is held.
LEMMA InitRef == Init => RefInv
  <1> SUFFICES ASSUME Init PROVE RefInv
    OBVIOUS
  <1>1. step = [s \in Steps |-> NewStep]
    BY DEF Init
  <1>2. HeldSteps
    BY <1>1, NewStepHeld DEF HeldSteps
  <1>3. /\ NewStep.pc = "idle" /\ NewStep.cleanup = [w \in Workers |-> "none"]
        /\ \A w \in Workers : NewStep.exec[w].pc = "none"
    BY DEF NewStep, NoExec
  <1>4. /\ CountedSteps = {} /\ CleanedSteps = {}
        /\ \A w \in Workers : Running(w) = {}
    BY <1>1, <1>3 DEF CountedSteps, CleanedSteps, Counted, Running
  <1>5. WorkerInv
    <2>1. worker \in [Workers -> [incarnation : Int, table : BOOLEAN, refs : Int]]
      BY DEF Init, FirstIncarnation
    <2>2. \A w \in Workers : worker[w].refs = 0 /\ worker[w].table = FALSE
      BY DEF Init
    <2>3. IsFiniteSet({}) /\ Cardinality({}) = 0
      BY FS_EmptySet
    <2>4. ASSUME NEW w \in Workers
          PROVE  worker[w].refs = Holds(worker[w].table) + Cardinality(Running(w))
      <3>1. Cardinality(Running(w)) = 0
        BY <1>4, <2>3
      <3>2. QED BY <2>2, <3>1 DEF Holds
    <2>5. QED BY <1>4, <2>1, <2>2, <2>3, <2>4 DEF WorkerInv
  <1>6. SessionInv
    BY <1>4, FS_EmptySet DEF Init, SessionInv
  <1>7. GraphInv
    <2>1. rcg \in [refs : Int, init : {"none", "started", "ok", "bad"},
                   register : [Workers -> {"none", "sent", "ok", "failed"}],
                   handle : [Workers -> Int],
                   deregister : [Workers -> {"none", "sent", "done"}]]
      BY DEF Init, NoHandle
    <2>2. /\ rcg.refs = 0 /\ rcg.init = "none"
          /\ rcg.register = [w \in Workers |-> "none"]
      BY DEF Init
    <2>3. QED BY <1>4, <2>1, <2>2, FS_EmptySet DEF GraphInv, Holds
  <1>8. QED BY <1>2, <1>5, <1>6, <1>7, InitIInv DEF RefInv

\* Every step of the system preserves the counts.
LEMMA NextRef == RefInv /\ [Next]_vars => RefInv'
  <1> SUFFICES ASSUME RefInv, [Next]_vars PROVE RefInv'
    OBVIOUS
  <1>0. IInv'
    BY NextIInv DEF RefInv
  <1>1. ASSUME NEW s \in Steps,
               \/ Run(s) \/ RunOnDeleted(s) \/ RegisterPartitions(s)
               \/ UseInitResult(s) \/ RegisterCancel(s) \/ RunPartitions(s)
               \/ RequestLost(s) \/ RunStep(s) \/ CancelRunStep(s)
        PROVE  RefInv'
    BY <1>0, <1>1, RunRef, UncountedRef, RegisterPartitionsRef, UseInitResultRef,
       RegisterCancelRef, RunPartitionsRef, RequestLostRef, CancelRunStepRef
  <1>2. ASSUME NEW s \in Steps, NEW w \in Workers,
               \/ RunGraphAsync(s, w) \/ WhenDone(s, w) \/ DoRunGraph(s, w)
               \/ RunGraphCancelled(s, w) \/ AbortLater(s, w) \/ Compute(s, w)
               \/ RunAllDone(s, w) \/ UnrefAll(s, w) \/ CleanupGraph(s, w)
        PROVE  RefInv'
    BY <1>0, <1>2, RunGraphAsyncRef, WhenDoneRef, DoRunGraphRef, RunGraphCancelledRef,
       AbortLaterRef, ComputeRef, RunAllDoneRef, UnrefAllRef, CleanupGraphRef
  <1>3. ASSUME NEW s \in Steps, NEW e \in Edges,
               \/ RecvAsync(s, e) \/ StartCall(s, e) \/ DoRecvTensorRaw(s, e)
               \/ RecvTensorCancelled(s, e) \/ RecvDone(s, e) \/ Send(s, e)
        PROVE  RefInv'
    BY <1>0, <1>3, RecvAsyncRef, StartCallRef, DoRecvTensorRawRef,
       RecvTensorCancelledRef, RecvDoneRef, SendRef
  <1>4. ASSUME NEW w \in Workers, RegisterGraph(w) \/ DeregisterGraph(w)
        PROVE  RefInv'
    BY <1>0, <1>4, RegisterGraphRef, DeregisterGraphRef
  <1>5. CASE CloseCancels \/ Close \/ CloseSession
    BY <1>0, <1>5, CloseCancelsRef, CloseRef, CloseSessionRef
  <1>6. ASSUME NEW w \in Parts, Restart(w) PROVE RefInv'
    <2>1. w \in Workers
      BY <1>6 DEF RefInv, IInv, Parts
    <2>2. QED BY <1>0, <1>6, <2>1, RestartRef
  <1>7. CASE UNCHANGED vars
    <2>1. /\ CountedSteps' = CountedSteps /\ CleanedSteps' = CleanedSteps
          /\ \A v \in Workers : Running(v)' = Running(v)
      BY <1>7 DEF vars, CountedSteps, CleanedSteps, Counted, Running
    <2>2. HeldSteps'
      BY <1>7 DEF vars, RefInv, HeldSteps, Parts
    <2>3. QED BY <1>0, <1>7, <2>1, <2>2, WorkerSame, SessionSame, GraphSame
              DEF vars, RefInv
  <1>8. QED
    BY <1>1, <1>2, <1>3, <1>4, <1>5, <1>6, <1>7 DEF Next, Progress

\* The counts are right in every reachable state.
LEMMA SpecRef == Spec => []RefInv
  BY InitRef, NextRef, PTL DEF Spec

\* What is counted is all that touches: the invariant says what StateOutlived says.
LEMMA RefInvOutlived == RefInv => StateOutlived
  <1> SUFFICES ASSUME RefInv PROVE StateOutlived
    OBVIOUS
  <1>1. ASSUME NEW s \in Steps, NEW w \in Workers, NEW g \in DOMAIN step[s].rendez[w]
        PROVE  LET S == step[s]
                   r == S.rendez[w][g]
                   here == S.exec[w].pc # "none" /\ S.exec[w].rendez = g
                   flying == {e \in In(w) : S.recv[e].client = "flying"}
               IN  /\ r.refs = Holds(S.table[w] = g) + Holds(here) + r.aborts
                               + Cardinality(WaitingIn(S, w, g))
                               + (IF here THEN Cardinality(flying) ELSE 0)
                   /\ \A e \in r.active :
                         here /\ S.recv[e].client \in {"registered", "flying"}
    <2> DEFINE S == step[s]
    <2>1. Held(Parts, S, 0, 0, 0) /\ Held(Parts, S, w, g, 0)
      BY <1>1, RefInvStep
    <2>2. /\ WaitingIn(S, w, g) = Waits(Parts, S, w, g)
          /\ {e \in In(w) : S.recv[e].client = "flying"} = Flying(Parts, S, w)
      BY DEF WaitingIn, Waits, Flying, In, Out
    <2>3. ActiveLinks(S, w, g)
      BY <1>1, <2>1 DEF Held, Linked
    <2>4. Owed(Parts, S, w, g) \in Int
      BY <1>1, <2>1, OwedInt DEF Held
    <2>5. S.rendez[w][g].refs = Owed(Parts, S, w, g)
      BY <1>1, <2>1, <2>4 DEF Held, Counts
    <2>6. QED BY <2>2, <2>3, <2>5 DEF Owed, ActiveLinks, Here, Underway
  <1>2. \A s \in Steps, e \in Edges :
           step[s].recv[e].client \in {"registered", "flying"} =>
              step[s].exec[e[2]].pc = "run"
    BY RefInvStep DEF RecvLinks, Underway
  <1>3. \A w \in Workers : worker[w].refs =
           Holds(worker[w].table) + Cardinality({s \in Steps : step[s].exec[w].pc # "none"})
    BY DEF RefInv, WorkerInv, Running
  <1>4. /\ session.num_running = Cardinality({s \in Steps : Counted(s)})
        /\ rcg.refs = Holds(rcg.init # "none" /\ session.alive)
                      + Cardinality({s \in Steps : Counted(s)})
                      + Cardinality({s \in Steps : \E w \in Workers :
                                                      step[s].cleanup[w] = "sent"})
    BY DEF RefInv, SessionInv, GraphInv, CountedSteps, CleanedSteps
  <1>5. \A s \in Steps : Counted(s) => session.alive
    BY DEF RefInv, SessionInv, CountedSteps
  <1>6. QED BY <1>1, <1>2, <1>3, <1>4, <1>5 DEF StateOutlived

(***************************************************************************)
(* What the callbacks touch outlives them: in every reachable state every  *)
(* rendezvous, every worker's graph, the client graph and the session have *)
(* exactly the references of those who will still use them, for any number *)
(* of workers, edges and steps, and whatever crashes, fails or is late.    *)
(***************************************************************************)
THEOREM StateOutlives == Spec => []StateOutlived
  BY SpecRef, RefInvOutlived, PTL

=============================================================================
