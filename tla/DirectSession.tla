---------------------------- MODULE DirectSession ----------------------------
(***************************************************************************)
(* DirectSession (core/common_runtime/direct_session.{h,cc}): client       *)
(* threads call Run, or set up a partial run and feed and fetch it in      *)
(* several PRun calls, while another thread closes the session (the        *)
(* factory's Reset) or a step exceeds the operation timeout; in the end    *)
(* the owner destroys the session.                                         *)
(*                                                                         *)
(* A step is what its executors do between RunAsync and the callback of    *)
(* the ExecutorBarrier (module ExecutorBarrier: the callback comes once,   *)
(* last and with the first error, which has aborted the rendezvous).  A    *)
(* kernel may wait for a queue that another step fills; only an element or *)
(* the session's cancellation manager ends that wait.                      *)
(*                                                                         *)
(* One action is one section of executor_lock_, or one step between two    *)
(* places where a thread may block.  executor_lock_ is kept over several   *)
(* steps only by a PRun that waits for the end of its step.                *)
(***************************************************************************)
EXTENDS Integers, FiniteSets

CONSTANTS Runs,       \* the threads that call Run
          Partials,   \* the threads that set up and make a partial run
          Closers,    \* the threads that call Close through Reset
          Owner,      \* the thread that destroys the session
          Nobody,
          Signatures, \* the keys of executors_
          Signature,  \* Signature[t]: the key of the calls of thread t
          Feeds,      \* Feeds[k], Fetches[k]: what key k feeds and fetches
          Fetches,
          Needs,      \* Needs[f]: the feeds fetch f is computed from
          MayBeDead,  \* the fetches that an untaken branch may leave dead
          Calls,      \* the feeds and fetches a PRun may be called with
          Options     \* the sessions considered (see options)

Clients == Runs \cup Partials

Threads == Clients \cup Closers \cup {Owner}

ASSUME SessionAssumption ==
    /\ Runs \cap Partials = {}
    /\ Clients \cap Closers = {}
    /\ Owner \notin Clients \cup Closers
    /\ Nobody \notin Threads
    /\ Signature \in [Clients -> Signatures]
    /\ \A r \in Runs, p \in Partials : Signature[r] # Signature[p]
    /\ DOMAIN Feeds = Signatures /\ DOMAIN Fetches = Signatures
    /\ \A k \in Signatures : \A f \in Fetches[k] : Needs[f] \subseteq Feeds[k]
    /\ Calls \subseteq [feeds : SUBSET UNION {Feeds[k] : k \in Signatures},
                        fetches : SUBSET UNION {Fetches[k] : k \in Signatures}]
    /\ Options \subseteq [callers : SUBSET Threads,
                          operation_timeout : BOOLEAN,
                          waits : SUBSET Signatures,
                          fills : SUBSET Signatures]

\* The outcomes told apart: no error, a kernel's own error, a rejected
\* request, a cancelled kernel or closed session, a step that ran too long.
Status == {"OK", "Internal", "InvalidArgument", "Cancelled", "Deadline"}

\* The feeds and fetches of the step of thread t.
FeedsOf(t)   == Feeds[Signature[t]]
FetchesOf(t) == Fetches[Signature[t]]

AllFeeds   == UNION {Feeds[k] : k \in Signatures}
AllFetches == UNION {Fetches[k] : k \in Signatures}

VARIABLES closed,       \* closed_
          cancelled,    \* cancellation_manager_ has been cancelled
          lock,         \* who keeps executor_lock_, or Nobody
          executors,    \* executors_: key -> the object, named after the
                        \* thread that built it, or Nobody
          partial_runs, \* partial_runs_: the handles, named after the thread
          run_state,    \* the RunState of each thread's step
          ek,           \* the executors_and_keys each thread has
          args,         \* the feeds and fetches of the PRun in progress
          pc,
          result,       \* the status of each thread's call, when it got as
                        \* far as a step
          filled,       \* the queue has the elements its readers need
          options,      \* who calls the session, its timeout, the keys whose
                        \* graphs wait for the queue and those that fill it
          destroyed     \* ~DirectSession has freed executors_ and the manager

shared == <<closed, cancelled, lock, executors, partial_runs>>
vars == <<shared, run_state, ek, args, pc, result, filled, options, destroyed>>

RunStateType ==
    [alive : BOOLEAN,
     status : Status,
     rendez : Status,                     \* OK, or what it was aborted with
     pending_inputs : SUBSET AllFeeds,
     pending_outputs : SUBSET AllFetches,
     executors_done : BOOLEAN,            \* the notification
     \* The step: where it is, what it was fed, what it has sent, which of it
     \* is dead and was received, and the first error of its executors.
     step : {"none", "running", "update", "notify", "ended"},
     fed : SUBSET AllFeeds,
     sent : SUBSET AllFetches,
     dead : SUBSET AllFetches,
     received : SUBSET AllFetches,
     error : Status]

NoRunState ==
    [alive |-> FALSE, status |-> "OK", rendez |-> "OK",
     pending_inputs |-> {}, pending_outputs |-> {}, executors_done |-> FALSE,
     step |-> "none", fed |-> {}, sent |-> {}, dead |-> {}, received |-> {},
     error |-> "OK"]

\* A new RunState whose executors have been started with RunAsync.
Started(t, feeds) ==
    [NoRunState EXCEPT !.alive = TRUE, !.step = "running", !.fed = feeds,
                       !.pending_inputs = FeedsOf(t),
                       !.pending_outputs = FetchesOf(t)]

NoCall == [feeds |-> {}, fetches |-> {}]

Init ==
    /\ closed = FALSE
    /\ cancelled = FALSE
    /\ lock = Nobody
    /\ executors = [k \in Signatures |-> Nobody]
    /\ partial_runs = {}
    /\ run_state = [t \in Clients |-> NoRunState]
    /\ ek = [t \in Clients |-> Nobody]
    /\ args = [t \in Partials |-> NoCall]
    /\ pc = [t \in Threads |-> "idle"]
    /\ result = [t \in Clients |-> "OK"]
    /\ filled = FALSE
    /\ options \in Options
    /\ destroyed = FALSE

\* Where a thread is not inside a call of the session.
Outside == {"idle", "ready", "done"}

\* Status::Update and StartAbort keep the first error.
First(old, new) == IF old = "OK" THEN new ELSE old

Goto(t, l) == pc' = [pc EXCEPT ![t] = l]
Unlocked == lock = Nobody

\* A call returns status s; a partial run's thread may go on after it.
Return(t, s, l) == /\ Goto(t, l)
                   /\ result' = [result EXCEPT ![t] = s]

Waits(t) == Signature[t] \in options.waits

-----------------------------------------------------------------------------
(* Finding or building the executors, for Run and PRunSetup. *)

\* CheckNotClosed; the session is not used any more once the owner destroys it.
Enter(t) ==
    /\ pc[t] = "idle"
    /\ t \in options.callers
    /\ pc[Owner] = "idle"
    /\ IF closed THEN Return(t, "Cancelled", "done")
                 ELSE Goto(t, "find") /\ UNCHANGED result
    /\ UNCHANGED <<shared, run_state, ek, args, filled, options, destroyed>>

FindExecutors(t) ==
    /\ pc[t] = "find"
    /\ Unlocked
    /\ ek' = [ek EXCEPT ![t] = executors[Signature[t]]]
    /\ Goto(t, IF ek'[t] = Nobody THEN "create" ELSE "start")
    /\ UNCHANGED <<shared, run_state, args, result, filled, options, destroyed>>

\* executor_lock_ is released while the graphs and executors are created.
CreateExecutors(t) ==
    /\ pc[t] = "create"
    /\ \/ Goto(t, "insert") /\ UNCHANGED result
       \/ Return(t, "InvalidArgument", "done")
    /\ UNCHANGED <<shared, run_state, ek, args, filled, options, destroyed>>

\* Mutant: the new executors replace those another thread has inserted.
InsertReplaces(t) ==
    /\ pc[t] = "insert"
    /\ Unlocked
    /\ executors' = [executors EXCEPT ![Signature[t]] = t]
    /\ ek' = [ek EXCEPT ![t] = t]
    /\ Goto(t, "start")
    /\ UNCHANGED <<closed, cancelled, lock, partial_runs, run_state, args,
                   result, filled, options, destroyed>>

\* emplace: the executors another thread has inserted meanwhile are reused.
InsertExecutors(t) ==
    /\ pc[t] = "insert"
    /\ Unlocked
    /\ executors' = [executors EXCEPT ![Signature[t]] = IF @ = Nobody THEN t
                                                                      ELSE @]
    /\ ek' = [ek EXCEPT ![t] = executors'[Signature[t]]]
    /\ Goto(t, "start")
    /\ UNCHANGED <<closed, cancelled, lock, partial_runs, run_state, args,
                   result, filled, options, destroyed>>

\* Run: the rendezvous is new, so that sending the feeds cannot fail.
StartRun(t) ==
    /\ t \in Runs
    /\ pc[t] = "start"
    /\ run_state' = [run_state EXCEPT ![t] = Started(t, FeedsOf(t))]
    /\ Goto(t, "wait")
    /\ UNCHANGED <<shared, ek, args, result, filled, options, destroyed>>

\* PRunSetup: the handle holds a unique counter, so that emplace cannot fail,
\* and nobody knows it before the call returns.
StartPartialRun(t) ==
    /\ t \in Partials
    /\ pc[t] = "start"
    /\ Unlocked
    /\ partial_runs' = partial_runs \cup {t}
    /\ run_state' = [run_state EXCEPT ![t] = Started(t, {})]
    /\ Return(t, "OK", "ready")
    /\ UNCHANGED <<closed, cancelled, lock, executors, ek, args, filled, options,
                   destroyed>>

-----------------------------------------------------------------------------
(* The step of thread t, as the session sees it. *)

Update(t, r) == /\ run_state' = [run_state EXCEPT ![t] = r]
                /\ UNCHANGED <<shared, ek, args, pc, result, options, destroyed>>

\* The kernels of the step are not held up by the queue.
NotStarved(t) == Waits(t) => filled

\* A fetch is computed and sent to the rendezvous, dead or not.
SendOutput(t, f) ==
    LET r == run_state[t] IN
    /\ r.step = "running" /\ r.rendez = "OK"
    /\ f \notin r.sent
    /\ Needs[f] \subseteq r.fed
    /\ NotStarved(t)
    /\ \E dead \in {{}, {f} \cap MayBeDead} :
          Update(t, [r EXCEPT !.sent = @ \cup {f}, !.dead = @ \cup dead])
    /\ UNCHANGED filled

\* An executor meets its first error: a kernel fails, a wait for the queue is
\* cancelled, or the rendezvous has been aborted by the client.
StepFails(t, e) ==
    LET r == run_state[t] IN
    /\ r.step = "running" /\ r.error = "OK"
    /\ \/ e = "Internal"
       \/ e = "Cancelled" /\ Waits(t) /\ cancelled
       \/ e = r.rendez /\ e # "OK" /\ r.sent # FetchesOf(t)
    /\ Update(t, [r EXCEPT !.error = e, !.rendez = First(@, e)])
    /\ UNCHANGED filled

\* The last executor ends; a kernel that waits for the queue does not end for
\* an abort of the rendezvous.
StepEnds(t) ==
    LET r == run_state[t] IN
    /\ r.step = "running"
    /\ r.error # "OK" \/ r.sent = FetchesOf(t)
    /\ NotStarved(t) \/ cancelled
    /\ Update(t, [r EXCEPT !.step = "update"])
    /\ filled' = (\/ filled
                  \/ r.error = "OK" /\ Signature[t] \in options.fills)

\* The barrier's callback: the status, then the notification.
UpdateStatus(t) ==
    LET r == run_state[t] IN
    /\ r.step = "update"
    /\ Update(t, [r EXCEPT !.step = "notify", !.status = First(@, r.error)])
    /\ UNCHANGED filled

Notify(t) ==
    LET r == run_state[t] IN
    /\ r.step = "notify"
    /\ Update(t, [r EXCEPT !.step = "ended", !.executors_done = TRUE])
    /\ UNCHANGED filled

-----------------------------------------------------------------------------
(* Waiting for a step, and the end of its RunState. *)

\* Where the thread of a Run, and of a PRun, goes on after the wait.
AfterWait(t) == IF t \in Runs THEN "collect" ELSE "free"

WaitForNotification(t) ==
    /\ pc[t] = "wait"
    /\ run_state[t].executors_done
    /\ Goto(t, AfterWait(t))
    /\ UNCHANGED <<shared, run_state, ek, args, result, filled, options,
                   destroyed>>

\* The timeout is recorded in the status of the step before the cancellation.
TimeOut(t) ==
    /\ pc[t] = "wait"
    /\ options.operation_timeout
    /\ ~run_state[t].executors_done
    /\ run_state' = [run_state EXCEPT ![t].status = First(@, "Deadline")]
    /\ Goto(t, "cancel")
    /\ UNCHANGED <<shared, ek, args, result, filled, options, destroyed>>

TimeOutCancels(t) ==
    /\ pc[t] = "cancel"
    /\ cancelled' = TRUE
    /\ Goto(t, AfterWait(t))
    /\ UNCHANGED <<closed, lock, executors, partial_runs, run_state, ek, args,
                   result, filled, options, destroyed>>

\* What RecvOutputs makes of the fetches fs: it waits for all of them, fails
\* on the first dead one, and on any once the rendezvous is aborted.
Received(r, fs, s) ==
    \/ s = r.rendez /\ s # "OK" /\ fs # {}
    \/ s = "InvalidArgument" /\ r.rendez = "OK" /\ fs \cap r.dead # {}
    \/ /\ s = "OK"
       /\ r.rendez = "OK" \/ fs = {}
       /\ fs \subseteq (r.sent \ r.received) \ r.dead

\* A failed RecvOutputs aborts the rendezvous.
RecvOutputs(t, fs, s) ==
    /\ Received(run_state[t], fs, s)
    /\ run_state' = [run_state EXCEPT
           ![t].rendez = First(@, s),
           ![t].received = IF s = "OK" THEN @ \cup fs ELSE @]

\* Mutant: Run fetches whatever the step has sent so far.
CollectAnyway(t, s) ==
    /\ pc[t] = "collect"
    /\ RecvOutputs(t, run_state[t].sent, s)
    /\ Return(t, s, "free")
    /\ UNCHANGED <<shared, ek, args, filled, options, destroyed>>

\* Run: the step's error, or the outputs.
Collect(t, s) ==
    /\ pc[t] = "collect"
    /\ \/ s = run_state[t].status /\ s # "OK" /\ UNCHANGED run_state
       \/ run_state[t].status = "OK" /\ RecvOutputs(t, FetchesOf(t), s)
    /\ Return(t, s, IF s = "OK" THEN "count" ELSE "free")
    /\ UNCHANGED <<shared, ek, args, filled, options, destroyed>>

\* Run: step_count, under executor_lock_.
CountStep(t) ==
    /\ pc[t] = "count"
    /\ Unlocked
    /\ Goto(t, "free")
    /\ UNCHANGED <<shared, run_state, ek, args, result, filled, options,
                   destroyed>>

\* ~RunState: the executors are stopped and waited for.
AbortRun(t) ==
    /\ ~run_state[t].executors_done
    /\ run_state' = [run_state EXCEPT ![t].rendez = First(@, "Cancelled")]

FreeRunState(t) ==
    /\ run_state[t].executors_done
    /\ run_state' = [run_state EXCEPT ![t] = NoRunState]

AbortStep(t) ==
    /\ pc[t] = "free"
    /\ AbortRun(t)
    /\ Goto(t, "join")
    /\ UNCHANGED <<shared, ek, args, result, filled, options, destroyed>>

\* The last of a call; a PRun erases its handle and releases executor_lock_.
EndCall(t) ==
    /\ pc[t] \in {"free", "join"}
    /\ FreeRunState(t)
    /\ Goto(t, "done")
    /\ partial_runs' = partial_runs \ {t}
    /\ lock' = IF lock = t THEN Nobody ELSE lock
    /\ UNCHANGED <<closed, cancelled, executors, ek, args, result, filled,
                   options, destroyed>>

-----------------------------------------------------------------------------
(* PRun. *)

\* On a closed session the call is refused and nothing changes.
BeginPRun(t, c) ==
    /\ pc[t] = "ready"
    /\ pc[Owner] = "idle"
    /\ ~closed
    /\ Goto(t, "lookup")
    /\ args' = [args EXCEPT ![t] = c]
    /\ UNCHANGED <<shared, run_state, ek, result, filled, options, destroyed>>

\* A request is rejected (InvalidArgument) and leaves the run as it was.
Reject(t) == /\ Goto(t, "ready")
             /\ args' = [args EXCEPT ![t] = NoCall]
             /\ UNCHANGED result

\* The feeds and fetches must all be pending.
LookUpRun(t) ==
    /\ pc[t] = "lookup"
    /\ Unlocked
    /\ IF /\ args[t].feeds \subseteq run_state[t].pending_inputs
          /\ args[t].fetches \subseteq run_state[t].pending_outputs
       THEN Goto(t, "check") /\ UNCHANGED <<args, result>>
       ELSE Reject(t)
    /\ UNCHANGED <<shared, run_state, ek, filled, options, destroyed>>

\* Mutant: the fetches are only looked at when something is fed.
CheckFetchIfFed(t) ==
    /\ pc[t] = "check"
    /\ Unlocked
    /\ LET missing == run_state[t].pending_inputs \ args[t].feeds
       IN  IF args[t].feeds = {}
              \/ \A f \in args[t].fetches : Needs[f] \cap missing = {}
           THEN Goto(t, "send") /\ UNCHANGED <<args, result>>
           ELSE Reject(t)
    /\ UNCHANGED <<shared, run_state, ek, filled, options, destroyed>>

\* No fetch may depend on a feed that is still missing.
CheckFetch(t) ==
    /\ pc[t] = "check"
    /\ Unlocked
    /\ LET missing == run_state[t].pending_inputs \ args[t].feeds
       IN  IF \A f \in args[t].fetches : Needs[f] \cap missing = {}
           THEN Goto(t, "send") /\ UNCHANGED <<args, result>>
           ELSE Reject(t)
    /\ UNCHANGED <<shared, run_state, ek, filled, options, destroyed>>

\* The rendezvous refuses the first feed once it is aborted.
SendInputs(t) ==
    /\ pc[t] = "send"
    /\ IF run_state[t].rendez # "OK" /\ args[t].feeds # {}
       THEN Return(t, run_state[t].rendez, "finish") /\ UNCHANGED run_state
       ELSE /\ Return(t, "OK", "receive")
            /\ run_state' = [run_state EXCEPT ![t].fed = @ \cup args[t].feeds]
    /\ UNCHANGED <<shared, ek, args, filled, options, destroyed>>

\* RecvOutputs waits without a timeout, and without executor_lock_.
Receive(t, s) ==
    /\ pc[t] = "receive"
    /\ RecvOutputs(t, args[t].fetches, s)
    /\ Return(t, s, "finish")
    /\ UNCHANGED <<shared, ek, args, filled, options, destroyed>>

\* What is left pending after a successful call; the run is done when that is
\* nothing, or after an error.
LeftInputs(t)  == run_state[t].pending_inputs \ args[t].feeds
LeftOutputs(t) == run_state[t].pending_outputs \ args[t].fetches

MayContinue(t) == /\ result[t] = "OK"
                  /\ LeftInputs(t) # {} \/ LeftOutputs(t) # {}

\* The last part of PRun; executor_lock_ is kept if the run is done.
FinishPRun(t) ==
    /\ pc[t] = "finish"
    /\ Unlocked
    /\ run_state' = [run_state EXCEPT
           ![t].pending_inputs = IF result[t] = "OK" THEN LeftInputs(t) ELSE @,
           ![t].pending_outputs = IF result[t] = "OK" THEN LeftOutputs(t) ELSE @]
    /\ lock' = IF MayContinue(t) THEN Nobody ELSE t
    /\ Goto(t, IF MayContinue(t) THEN "ready" ELSE "wait")
    /\ args' = [args EXCEPT ![t] = NoCall]
    /\ UNCHANGED <<closed, cancelled, executors, partial_runs, ek, result,
                   filled, options, destroyed>>

-----------------------------------------------------------------------------
(* Close and the destructor. *)

\* Mutant: the running steps are not cancelled.
CloseSilently(c) ==
    /\ pc[c] = "idle"
    /\ c \in options.callers
    /\ c = Owner => \A t \in Clients \cup Closers : pc[t] \in Outside
    /\ Goto(c, "mark")
    /\ UNCHANGED <<shared, run_state, ek, args, result, filled, options,
                   destroyed>>

\* Close cancels first.  The owner destroys the session when no other thread
\* is inside a call (and calls Close only on a session not yet closed).
CloseCancels(c) ==
    /\ pc[c] = "idle"
    /\ c \in options.callers
    /\ c = Owner => \A t \in Clients \cup Closers : pc[t] \in Outside
    /\ c # Owner => pc[Owner] = "idle"
    /\ cancelled' = (cancelled \/ c # Owner \/ ~closed)
    /\ Goto(c, "mark")
    /\ UNCHANGED <<closed, lock, executors, partial_runs, run_state, ek, args,
                   result, filled, options, destroyed>>

MarkClosed(c) ==
    /\ pc[c] = "mark"
    /\ closed' = TRUE
    /\ Goto(c, IF c = Owner THEN "destroy" ELSE "done")
    /\ UNCHANGED <<cancelled, lock, executors, partial_runs, run_state, ek, args,
                   result, filled, options, destroyed>>

\* The destructor ends the partial runs left over, one by one ...
DestroyPartialRun(t) ==
    /\ pc[Owner] = "destroy"
    /\ t \in partial_runs
    /\ \/ AbortRun(t) /\ run_state[t].rendez = "OK" /\ UNCHANGED partial_runs
       \/ FreeRunState(t) /\ partial_runs' = partial_runs \ {t}
    /\ UNCHANGED <<closed, cancelled, lock, executors, ek, args, pc, result,
                   filled, options, destroyed>>

\* ... and then frees the executors and the cancellation manager.
DestroySession ==
    /\ pc[Owner] = "destroy"
    /\ partial_runs = {}
    /\ executors' = [k \in Signatures |-> Nobody]
    /\ destroyed' = TRUE
    /\ Goto(Owner, "done")
    /\ UNCHANGED <<closed, cancelled, lock, partial_runs, run_state, ek, args,
                   result, filled, options>>

-----------------------------------------------------------------------------
StepOf(t) == \/ \E f \in FetchesOf(t) : SendOutput(t, f)
             \/ StepEnds(t) \/ UpdateStatus(t) \/ Notify(t)
             \/ \E e \in {"Cancelled", "InvalidArgument"} : StepFails(t, e)

\* What a client's thread does inside a call.
CallOf(t) ==
    \/ FindExecutors(t) \/ CreateExecutors(t) \/ InsertExecutors(t)
    \/ StartRun(t) \/ StartPartialRun(t)
    \/ WaitForNotification(t) \/ TimeOut(t) \/ TimeOutCancels(t)
    \/ \E s \in Status : Collect(t, s)
    \/ CountStep(t) \/ AbortStep(t) \/ EndCall(t)

PRunOf(t) ==
    \/ LookUpRun(t) \/ CheckFetch(t) \/ SendInputs(t)
    \/ \E s \in Status : Receive(t, s)
    \/ FinishPRun(t)

Destructor == DestroySession \/ \E t \in Partials : DestroyPartialRun(t)

Next ==
    \/ \E t \in Clients : \/ Enter(t) \/ CallOf(t) \/ StepOf(t)
                          \/ StepFails(t, "Internal")
    \/ \E t \in Partials : PRunOf(t) \/ \E c \in Calls : BeginPRun(t, c)
    \/ \E c \in Closers \cup {Owner} : CloseCancels(c) \/ MarkClosed(c)
    \/ Destructor

Spec == Init /\ [][Next]_vars

\* The threads of the clients and of the executors run, a timer goes off, and
\* a destructor that has begun goes on.  Nobody has to make a call, a kernel
\* does not have to fail, and the queue does not have to be filled.
FairSpec ==
    /\ Spec
    /\ \A t \in Clients : WF_vars(CallOf(t)) /\ WF_vars(StepOf(t))
    /\ \A t \in Partials : WF_vars(PRunOf(t))
    /\ \A c \in Closers \cup {Owner} : WF_vars(MarkClosed(c))
    /\ WF_vars(Destructor)

-----------------------------------------------------------------------------
TypeOK ==
    /\ closed \in BOOLEAN /\ cancelled \in BOOLEAN /\ filled \in BOOLEAN
    /\ destroyed \in BOOLEAN
    /\ lock \in Partials \cup {Nobody}
    /\ executors \in [Signatures -> Clients \cup {Nobody}]
    /\ partial_runs \subseteq Partials
    /\ run_state \in [Clients -> RunStateType]
    /\ ek \in [Clients -> Clients \cup {Nobody}]
    /\ args \in [Partials -> Calls \cup {NoCall}]
    /\ pc \in [Threads -> Outside \cup
           {"find", "create", "insert", "start", "wait", "cancel", "collect",
            "count", "free", "join", "lookup", "check", "send", "receive",
            "finish", "mark", "destroy"}]
    /\ result \in [Clients -> Status]
    /\ options \in Options

(***************************************************************************)
(* What the executors of a step use outlives them: the RunState the        *)
(* barrier's callback writes to (on the stack of Run, or in partial_runs_),*)
(* the executors themselves, which no other thread may replace in          *)
(* executors_, and the session's cancellation manager.  A PRun's run_state *)
(* stays alive until the call has returned.                                *)
(***************************************************************************)
StepOutlived ==
    \A t \in Clients :
        /\ run_state[t].step \in {"running", "update", "notify"} =>
              /\ run_state[t].alive
              /\ ~destroyed
              /\ ek[t] # Nobody /\ executors[Signature[t]] = ek[t]
        /\ pc[t] \in {"lookup", "check", "send", "receive", "finish", "wait",
                      "cancel", "collect", "free", "join"} =>
              run_state[t].alive

(***************************************************************************)
(* Run's status is the truth about its step: OK only if every executor     *)
(* succeeded, in time, and every fetch was received alive; a kernel's      *)
(* error only if one of its kernels failed; Cancelled only if the session  *)
(* was closed or a step of it timed out.                                   *)
(***************************************************************************)
TruthfulRun ==
    \A t \in Runs :
        LET r == run_state[t] IN
        pc[t] \in {"count", "free", "join"} =>
            /\ result[t] = "OK" =>
                  /\ r.step = "ended" /\ r.error = "OK" /\ r.status = "OK"
                  /\ r.received = FetchesOf(t) /\ r.dead = {}
            /\ result[t] = "Internal" => r.error = "Internal"
            /\ result[t] = "Cancelled" => cancelled

(***************************************************************************)
(* The books of a partial run agree with its step.  Between two calls,     *)
(* pending_inputs are exactly the feeds the step has not been sent and     *)
(* pending_outputs the fetches nobody has received, and something is left  *)
(* of what the run was set up with; a PRun that waits for its outputs      *)
(* waits for ones that its feeds determine and that have not been handed   *)
(* out, so that it can only be held up by the graph itself.                *)
(***************************************************************************)
PartialRunBooks ==
    \A t \in Partials :
        LET r == run_state[t] IN
        /\ pc[t] = "ready" /\ r.alive =>
              /\ r.pending_inputs = FeedsOf(t) \ r.fed
              /\ r.pending_outputs = FetchesOf(t) \ r.received
              /\ t \in partial_runs
              /\ FeedsOf(t) \cup FetchesOf(t) # {} =>
                    r.pending_inputs \cup r.pending_outputs # {}
        /\ pc[t] = "receive" /\ r.rendez = "OK" =>
              \A f \in args[t].fetches :
                  Needs[f] \subseteq r.fed /\ f \notin r.received

(***************************************************************************)
(* What blocks can be ended.  Closing the session ends every call: steps   *)
(* that wait for the queue, a PRun that waits for outputs, a PRun that     *)
(* waits for its step with executor_lock_ held, and the calls that wait    *)
(* for that lock; the destructor then gets through the partial runs that   *)
(* are left.  With an operation timeout every Run returns, whatever its    *)
(* graph waits for and whoever holds executor_lock_.                       *)
(***************************************************************************)
CallsEnd ==
    /\ closed ~> \A t \in Clients : pc[t] \in Outside
    /\ pc[Owner] # "idle" ~> destroyed
    /\ options.operation_timeout =>
          \A t \in Runs : pc[t] = "find" ~> pc[t] = "done"
=============================================================================
