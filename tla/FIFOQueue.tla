------------------------------ MODULE FIFOQueue ------------------------------
(***************************************************************************)
(* FIFOQueue (core/kernels/fifo_queue.cc) on top of QueueBase              *)
(* (core/kernels/queue_base.{h,cc}), with the CancellationManagers its     *)
(* operations register with.                                               *)
(*                                                                         *)
(* An operation puts an Attempt at the end of enqueue_attempts_ or         *)
(* dequeue_attempts_ and flushes: under mu_ the attempts at the two fronts *)
(* run until neither makes progress, and the completed ones are cleaned up *)
(* after mu_ is released: DeregisterCallback, then the done callback.      *)
(* Whichever thread flushes completes the attempts of all the others.      *)
(*                                                                         *)
(* A thread is an operation (the executor thread that called Try* or       *)
(* Close) or a manager (the thread inside its StartCancel).  Each run of   *)
(* an attempt inside a flush is a step; mu names the thread that holds     *)
(* mu_.  The components of a tuple move together, so queues_ is one        *)
(* sequence, and the i-th element of operation o's batch is <<o, i>>.      *)
(***************************************************************************)
EXTENDS Cancellation, Sequences, FiniteSets

CONSTANTS Ops,             \* operations on the queue, each performed once
          Managers,        \* CancellationManagers
          ManagerOf,       \* ctx->cancellation_manager() of each operation
          Capacity,        \* capacity_
          ShapeChoices,    \* the values that specified_shapes() may have
          Requests         \* what operations may ask for: see RequestType

RequestType == [kind : {"none", "enqueue", "dequeue", "dequeue_many",
                        "dequeue_up_to", "close", "close_cancel"},
                n    : Nat]

ASSUME QueueAssumption ==
    /\ ManagerOf \in [Ops -> Managers]
    /\ Ops \cap Managers = {}
    /\ Capacity \in Nat \ {0}
    /\ ShapeChoices \subseteq BOOLEAN
    /\ Requests \subseteq RequestType
    /\ \A r \in Requests : r.kind = "dequeue" => r.n = 1

Threads == Ops \cup Managers

VARIABLES
    queue,              \* queues_
    closed,             \* closed_
    enqueue_attempts,   \* enqueue_attempts_, as the operations' names
    dequeue_attempts,   \* dequeue_attempts_
    attempt,            \* the Attempt and the op's context, per operation
    cm,                 \* the managers
    mu,                 \* the set of the thread holding mu_, {} when free
    thread,             \* the local state of each thread
    entered,            \* history: the elements in the order of push_back
    consumed,           \* history: the elements gone from the queue for good
    specified_shapes    \* specified_shapes(), fixed by the constructor

queueVars == <<queue, closed, enqueue_attempts, dequeue_attempts, mu>>
rest      == <<entered, consumed, specified_shapes>>
vars      == <<queueVars, attempt, cm, thread, rest>>

Element == Ops \X Nat

AttemptType ==
    [request            : RequestType,
     token              : Nat \cup {kInvalidToken},
     elements_requested : Nat,
     tuple              : Seq(Element),   \* the filled part of attempt->tuple
     is_cancelled       : BOOLEAN,
     status             : {"OK", "Cancelled", "OutOfRange", "InvalidArgument"},
     calls              : Nat,            \* how often done_callback was called
     result             : Seq(Element)]   \* the tuple it was called with

ThreadType ==
    [pc        : {"start", "callbacks", "flush", "enqueue",
                  "dequeue", "clean_up", "wait", "done", "loop", "notify"},
     changed   : BOOLEAN,
     callbacks : SUBSET Ops,              \* callbacks of (Close and)Cancel
     clean_up  : Seq(Ops),
     todo      : SUBSET Nat]              \* callbacks_to_run of a manager

TypeOK == /\ queue \in Seq(Element)
          /\ closed \in BOOLEAN
          /\ enqueue_attempts \in Seq(Ops)
          /\ dequeue_attempts \in Seq(Ops)
          /\ attempt \in [Ops -> AttemptType]
          /\ cm \in [Managers -> ManagerType]
          /\ mu \subseteq Threads
          /\ thread \in [Threads -> ThreadType]
          /\ entered \in Seq(Element)
          /\ consumed \in Seq(Element)
          /\ specified_shapes \in BOOLEAN

Init ==
    /\ queue = <<>>
    /\ closed = FALSE
    /\ enqueue_attempts = <<>>
    /\ dequeue_attempts = <<>>
    /\ attempt = [o \in Ops |-> [request            |-> [kind |-> "none", n |-> 0],
                                 token              |-> kInvalidToken,
                                 elements_requested |-> 0,
                                 tuple              |-> <<>>,
                                 is_cancelled       |-> FALSE,
                                 status             |-> "OK",
                                 calls              |-> 0,
                                 result             |-> <<>>]]
    /\ cm = [m \in Managers |-> NewManager]
    /\ mu = {}
    /\ thread = [x \in Threads |-> [pc        |-> "start",
                                    changed   |-> FALSE,
                                    callbacks |-> {},
                                    clean_up  |-> <<>>,
                                    todo      |-> {}]]
    /\ entered = <<>>
    /\ consumed = <<>>
    /\ specified_shapes \in ShapeChoices

-----------------------------------------------------------------------------
(* Helpers *)

LesserOf(a, b) == IF a < b THEN a ELSE b

Kind(o) == attempt[o].request.kind

\* The operations that have an attempt in a list.
Pending(attempts) == {attempts[i] : i \in DOMAIN attempts}

\* OpKernelContext::SetStatus keeps the first error.
SetStatus(o, s) == IF attempt[o].status = "OK" THEN s ELSE attempt[o].status

\* The elements l to h of the batch of an enqueue.
BatchSlice(o, l, h) == [i \in 1..(h - l + 1) |-> <<o, l + i - 1>>]

Goto(x, pc) == thread' = [thread EXCEPT ![x].pc = pc]

\* The attempt that is run to completion joins the clean-up list.
Completed(x, o, pc) ==
    thread' = [thread EXCEPT ![x].pc = pc,
                             ![x].changed = TRUE,
                             ![x].clean_up = Append(@, o)]

-----------------------------------------------------------------------------
(* The calls *)

\* TryDequeueMany needs component shapes.
DequeueManyWithoutShapes(o, r) ==
    /\ thread[o].pc = "start"
    /\ r.kind \in {"dequeue_many", "dequeue_up_to"}
    /\ ~specified_shapes
    /\ attempt' = [attempt EXCEPT ![o].request = r,
                                  ![o].status = "InvalidArgument",
                                  ![o].calls = @ + 1]
    /\ Goto(o, "done")
    /\ UNCHANGED <<queueVars, cm, rest>>

\* TryEnqueueMany and TryDequeueMany answer an empty batch at once, before
\* they look at the queue.
EmptyBatch(o, r) ==
    /\ thread[o].pc = "start"
    /\ r.kind \in {"enqueue", "dequeue_many", "dequeue_up_to"}
    /\ r.kind = "enqueue" \/ specified_shapes
    /\ r.n = 0
    /\ attempt' = [attempt EXCEPT ![o].request = r, ![o].calls = @ + 1]
    /\ Goto(o, "done")
    /\ UNCHANGED <<queueVars, cm, rest>>

\* The calls that take a token and register, in the manager of o's step.
Cancellable(o, r) ==
    /\ thread[o].pc = "start"
    /\ r.kind \in {"enqueue", "dequeue", "dequeue_many", "dequeue_up_to"}
    /\ r.kind \in {"enqueue", "dequeue"} \/ specified_shapes
    /\ r.n > 0
    /\ mu = {}

\* TryEnqueue, TryEnqueueMany, TryDequeue, TryDequeueMany.  The callback is
\* registered and the attempt emplaced in one section of mu_, which Cancel
\* needs too: a callback finds its attempt.  (The token is taken just before
\* mu_, but nobody else sees it until it is registered.)
Emplace(o, r) ==
    /\ Cancellable(o, r)
    /\ LET m == cm[ManagerOf[o]]
           token == m.next_cancellation_token
       IN /\ ShouldRegister(m)
          /\ cm' = [cm EXCEPT ![ManagerOf[o]] =
                        RegisterCallback(TakeToken(m), token)]
          /\ attempt' = [attempt EXCEPT ![o].request = r,
                                        ![o].elements_requested = r.n,
                                        ![o].token = token]
    /\ IF r.kind = "enqueue"
       THEN /\ enqueue_attempts' = Append(enqueue_attempts, o)
            /\ UNCHANGED dequeue_attempts
       ELSE /\ dequeue_attempts' = Append(dequeue_attempts, o)
            /\ UNCHANGED enqueue_attempts
    /\ Goto(o, "flush")
    /\ UNCHANGED <<queue, closed, mu, rest>>

\* The manager is cancelling: the call fails without an attempt.
AlreadyCancelled(o, r) ==
    /\ Cancellable(o, r)
    /\ ~ShouldRegister(cm[ManagerOf[o]])
    /\ cm' = [cm EXCEPT ![ManagerOf[o]] = TakeToken(@)]
    /\ attempt' = [attempt EXCEPT ![o].request = r,
                                  ![o].status = "Cancelled",
                                  ![o].calls = @ + 1]
    /\ Goto(o, "done")
    /\ UNCHANGED <<queueVars, rest>>

\* Close(cancel_pending_enqueues = false) waits its turn among the enqueues
\* and cannot be cancelled.
Close(o, r) ==
    /\ thread[o].pc = "start"
    /\ r.kind = "close"
    /\ mu = {}
    /\ enqueue_attempts' = Append(enqueue_attempts, o)
    /\ attempt' = [attempt EXCEPT ![o].request = r]
    /\ Goto(o, "flush")
    /\ UNCHANGED <<queue, closed, dequeue_attempts, cm, mu, rest>>

\* Mutant: attempts that Cancel has already cancelled are cancelled again.
CloseAndCancelTwice(o, r) ==
    /\ thread[o].pc = "start"
    /\ r.kind = "close_cancel"
    /\ mu = {}
    /\ closed' = TRUE
    /\ attempt' = [attempt EXCEPT ![o].request = r]
    /\ thread' = [thread EXCEPT ![o].pc = "callbacks",
                                ![o].callbacks = Pending(enqueue_attempts)]
    /\ UNCHANGED <<queue, enqueue_attempts, dequeue_attempts, cm, mu, rest>>

\* Close(cancel_pending_enqueues = true): CloseAndCancel closes at once and
\* takes the callback of every pending enqueue (and pending Close).
CloseAndCancel(o, r) ==
    /\ thread[o].pc = "start"
    /\ r.kind = "close_cancel"
    /\ mu = {}
    /\ closed' = TRUE
    /\ LET live == {p \in Pending(enqueue_attempts) : ~attempt[p].is_cancelled}
       IN /\ attempt' = [p \in Ops |->
                 IF p = o THEN [attempt[o] EXCEPT !.request = r]
                 ELSE IF p \in live
                      THEN [attempt[p] EXCEPT !.is_cancelled = TRUE,
                                              !.status = SetStatus(p, "Cancelled")]
                      ELSE attempt[p]]
          /\ thread' = [thread EXCEPT ![o].pc = "callbacks",
                                      ![o].callbacks = live]
    /\ UNCHANGED <<queue, enqueue_attempts, dequeue_attempts, cm, mu, rest>>

-----------------------------------------------------------------------------
(* StartCancel of manager m, whose callbacks are QueueBase::Cancel *)

StartCancel(m) ==
    /\ thread[m].pc = "start"
    /\ MayStartCancel(cm[m])
    /\ cm' = [cm EXCEPT ![m] = BeginCancel(@)]
    /\ thread' = [thread EXCEPT ![m].pc = "loop", ![m].todo = cm[m].callbacks]
    /\ UNCHANGED <<queueVars, attempt, rest>>

\* Mutant: Cancel looks at the front attempts only.
MatchingFront(m, token) ==
    {o \in Ops : /\ \/ enqueue_attempts # <<>> /\ Head(enqueue_attempts) = o
                    \/ dequeue_attempts # <<>> /\ Head(dequeue_attempts) = o
                 /\ ManagerOf[o] = m
                 /\ attempt[o].token = token}

\* The attempts that Cancel(action, m, token) looks for.
Matching(m, token) ==
    {o \in Pending(enqueue_attempts) \cup Pending(dequeue_attempts) :
        ManagerOf[o] = m /\ attempt[o].token = token}

\* Cancel marks the attempt and takes its callback; the attempt stays in its
\* list until a flush finds it at the front.
Cancel(m) ==
    /\ thread[m].pc = "loop"
    /\ mu = {}
    /\ \E token \in thread[m].todo :
          \/ \E o \in Matching(m, token) :
                /\ ~attempt[o].is_cancelled
                /\ attempt' = [attempt EXCEPT
                       ![o].is_cancelled = TRUE,
                       ![o].status = SetStatus(o, "Cancelled")]
                /\ thread' = [thread EXCEPT ![m].pc = "callbacks",
                                            ![m].todo = @ \ {token},
                                            ![m].callbacks = {o}]
          \/ /\ \A o \in Matching(m, token) : attempt[o].is_cancelled
             /\ thread' = [thread EXCEPT ![m].todo = @ \ {token}]
             /\ UNCHANGED attempt
    /\ UNCHANGED <<queueVars, cm, rest>>

CallbacksDone(m) ==
    /\ thread[m].pc = "loop"
    /\ thread[m].todo = {}
    /\ cm' = [cm EXCEPT ![m] = EndCancel(@)]
    /\ Goto(m, "notify")
    /\ UNCHANGED <<queueVars, attempt, rest>>

Notify(m) ==
    /\ thread[m].pc = "notify"
    /\ cm' = [cm EXCEPT ![m] = NotifyCancelled(@)]
    /\ Goto(m, "done")
    /\ UNCHANGED <<queueVars, attempt, rest>>

\* Cancel and CloseAndCancel call what they took before they flush.
CallCancelled(x) ==
    /\ thread[x].pc = "callbacks"
    /\ attempt' = [o \in Ops |->
           IF o \in thread[x].callbacks
           THEN [attempt[o] EXCEPT !.calls = @ + 1]
           ELSE attempt[o]]
    /\ thread' = [thread EXCEPT ![x].pc = "flush", ![x].callbacks = {}]
    /\ UNCHANGED <<queueVars, cm, rest>>

-----------------------------------------------------------------------------
(* FlushUnlocked: do { enqueue phase; dequeue phase } while (changed) *)

Lock(x) ==
    /\ thread[x].pc = "flush"
    /\ mu = {}
    /\ mu' = {x}
    /\ thread' = [thread EXCEPT ![x].pc = "enqueue", ![x].changed = FALSE]
    /\ UNCHANGED <<queue, closed, enqueue_attempts, dequeue_attempts, attempt,
                   cm, rest>>

\* TryAttemptLocked drops a cancelled attempt; what a cancelled DequeueMany
\* had already taken is dropped with it.
SkipCancelledEnqueue(x) ==
    /\ thread[x].pc = "enqueue"
    /\ enqueue_attempts # <<>>
    /\ attempt[Head(enqueue_attempts)].is_cancelled
    /\ enqueue_attempts' = Tail(enqueue_attempts)
    /\ UNCHANGED <<queue, closed, dequeue_attempts, attempt, cm, mu, thread,
                   rest>>

SkipCancelledDequeue(x) ==
    /\ thread[x].pc = "dequeue"
    /\ dequeue_attempts # <<>>
    /\ attempt[Head(dequeue_attempts)].is_cancelled
    /\ dequeue_attempts' = Tail(dequeue_attempts)
    /\ consumed' = consumed \o attempt[Head(dequeue_attempts)].tuple
    /\ UNCHANGED <<queue, closed, enqueue_attempts, attempt, cm, mu, thread,
                   entered, specified_shapes>>

\* The front enqueue attempt, when it is live and may be run by x.
RunsEnqueue(x, o) == /\ thread[x].pc = "enqueue"
                     /\ enqueue_attempts # <<>>
                     /\ o = Head(enqueue_attempts)
                     /\ ~attempt[o].is_cancelled

\* The attempt of a Close: only the first one closes.
RunClose(x, o) ==
    /\ RunsEnqueue(x, o)
    /\ Kind(o) = "close"
    /\ closed' = TRUE
    /\ attempt' = [attempt EXCEPT
           ![o].status = IF closed THEN SetStatus(o, "Cancelled") ELSE @]
    /\ enqueue_attempts' = Tail(enqueue_attempts)
    /\ Completed(x, o, "enqueue")
    /\ UNCHANGED <<queue, dequeue_attempts, cm, mu, rest>>

EnqueueOnClosed(x, o) ==
    /\ RunsEnqueue(x, o)
    /\ Kind(o) = "enqueue"
    /\ closed
    /\ attempt' = [attempt EXCEPT ![o].status = SetStatus(o, "Cancelled")]
    /\ enqueue_attempts' = Tail(enqueue_attempts)
    /\ Completed(x, o, "enqueue")
    /\ UNCHANGED <<queue, closed, dequeue_attempts, cm, mu, rest>>

\* As many elements as fit; the attempt stays in front until all are in.
PushElements(x, o) ==
    /\ RunsEnqueue(x, o)
    /\ Kind(o) = "enqueue"
    /\ ~closed
    /\ Len(queue) < Capacity
    /\ LET left   == attempt[o].elements_requested
           pushed == LesserOf(left, Capacity - Len(queue))
           index  == attempt[o].request.n - left
           slice  == BatchSlice(o, index + 1, index + pushed)
       IN /\ queue' = queue \o slice
          /\ entered' = entered \o slice
          /\ attempt' = [attempt EXCEPT ![o].elements_requested = left - pushed]
          /\ IF pushed = left
             THEN /\ enqueue_attempts' = Tail(enqueue_attempts)
                  /\ Completed(x, o, "enqueue")
             ELSE /\ thread' = [thread EXCEPT ![x].pc = "dequeue",
                                              ![x].changed = TRUE]
                  /\ UNCHANGED enqueue_attempts
    /\ UNCHANGED <<closed, dequeue_attempts, cm, mu, consumed,
                   specified_shapes>>

\* No attempt, or a live one that finds the queue full.
EnqueuePhaseEnds(x) ==
    /\ thread[x].pc = "enqueue"
    /\ enqueue_attempts # <<>> =>
          /\ ~attempt[Head(enqueue_attempts)].is_cancelled
          /\ Kind(Head(enqueue_attempts)) = "enqueue"
          /\ ~closed
          /\ Len(queue) >= Capacity
    /\ Goto(x, "dequeue")
    /\ UNCHANGED <<queueVars, attempt, cm, rest>>

-----------------------------------------------------------------------------
RunsDequeue(x, o) == /\ thread[x].pc = "dequeue"
                     /\ dequeue_attempts # <<>>
                     /\ o = Head(dequeue_attempts)
                     /\ ~attempt[o].is_cancelled

\* while (changed): back to the enqueue phase.
FlushAgain(x) ==
    thread' = [thread EXCEPT ![x].pc = "enqueue", ![x].changed = FALSE]

Starved(o) == closed /\ Len(queue) < attempt[o].elements_requested

\* What the queue holds once the attempt has put back what it took.
Restored(o) == attempt[o].tuple \o queue

\* The attempt has all the elements it asked for (or all that are left).
Deliver(x, o, elements) ==
    /\ attempt' = [attempt EXCEPT ![o].elements_requested = 0,
                                  ![o].tuple = <<>>,
                                  ![o].result = elements]
    /\ consumed' = consumed \o elements
    /\ dequeue_attempts' = Tail(dequeue_attempts)
    /\ Completed(x, o, "dequeue")

\* Mutant: the newest element is taken.
TakeFromBack(x, o) ==
    /\ RunsDequeue(x, o)
    /\ ~Starved(o)
    /\ queue # <<>>
    /\ attempt[o].elements_requested = 1
    /\ queue' = SubSeq(queue, 1, Len(queue) - 1)
    /\ Deliver(x, o, <<queue[Len(queue)]>>)
    /\ UNCHANGED <<closed, enqueue_attempts, cm, mu, entered,
                   specified_shapes>>


TakeElements(x, o) ==
    /\ RunsDequeue(x, o)
    /\ ~Starved(o)
    /\ queue # <<>>
    /\ LET left  == attempt[o].elements_requested
           taken == LesserOf(left, Len(queue))
           tuple == attempt[o].tuple \o SubSeq(queue, 1, taken)
       IN /\ queue' = SubSeq(queue, taken + 1, Len(queue))
          /\ IF taken = left
             THEN Deliver(x, o, tuple)
             ELSE /\ attempt' = [attempt EXCEPT
                         ![o].elements_requested = left - taken,
                         ![o].tuple = tuple]
                  /\ FlushAgain(x)
                  /\ UNCHANGED <<dequeue_attempts, consumed>>
    /\ UNCHANGED <<closed, enqueue_attempts, cm, mu, entered,
                   specified_shapes>>

\* Mutant: DequeueMany, too, is content with what is left.
TakeRemainingAlways(x, o) ==
    /\ RunsDequeue(x, o)
    /\ Starved(o)
    /\ Restored(o) # <<>>
    /\ queue' = <<>>
    /\ Deliver(x, o, Restored(o))
    /\ UNCHANGED <<closed, enqueue_attempts, cm, mu, entered,
                   specified_shapes>>

\* DequeueUpTo of a closed queue takes everything that is left.
TakeRemaining(x, o) ==
    /\ RunsDequeue(x, o)
    /\ Starved(o)
    /\ Kind(o) = "dequeue_up_to"
    /\ Restored(o) # <<>>
    /\ queue' = <<>>
    /\ Deliver(x, o, Restored(o))
    /\ UNCHANGED <<closed, enqueue_attempts, cm, mu, entered,
                   specified_shapes>>

\* Mutant: the unfinished batch goes back to the end of the queue.
RestoreAtBack(x, o) ==
    /\ RunsDequeue(x, o)
    /\ Starved(o)
    /\ \/ Kind(o) # "dequeue_up_to"
       \/ Restored(o) = <<>> /\ enqueue_attempts = <<>>
    /\ queue' = queue \o attempt[o].tuple
    /\ attempt' = [attempt EXCEPT ![o].status = SetStatus(o, "OutOfRange"),
                                  ![o].tuple = <<>>]
    /\ dequeue_attempts' = Tail(dequeue_attempts)
    /\ Completed(x, o, "dequeue")
    /\ UNCHANGED <<closed, enqueue_attempts, cm, mu, rest>>

\* The elements of an unfinished batch go back to the front of the queue.
\* (A DequeueUpTo would yield to pending enqueues first, but there are none:
\* see NoLostWakeup.)
InsufficientElements(x, o) ==
    /\ RunsDequeue(x, o)
    /\ Starved(o)
    /\ \/ Kind(o) # "dequeue_up_to"
       \/ Restored(o) = <<>> /\ enqueue_attempts = <<>>
    /\ queue' = Restored(o)
    /\ attempt' = [attempt EXCEPT ![o].status = SetStatus(o, "OutOfRange"),
                                  ![o].tuple = <<>>]
    /\ dequeue_attempts' = Tail(dequeue_attempts)
    /\ Completed(x, o, "dequeue")
    /\ UNCHANGED <<closed, enqueue_attempts, cm, mu, rest>>

\* Mutant: one round is enough.
DequeuePhaseEndsFlush(x) ==
    /\ thread[x].pc = "dequeue"
    /\ dequeue_attempts # <<>> =>
          /\ ~attempt[Head(dequeue_attempts)].is_cancelled
          /\ ~Starved(Head(dequeue_attempts))
          /\ queue = <<>>
    /\ mu' = {}
    /\ Goto(x, "clean_up")
    /\ UNCHANGED <<queue, closed, enqueue_attempts, dequeue_attempts, attempt,
                   cm, rest>>


DequeuePhaseEnds(x) ==
    /\ thread[x].pc = "dequeue"
    /\ dequeue_attempts # <<>> =>
          /\ ~attempt[Head(dequeue_attempts)].is_cancelled
          /\ ~Starved(Head(dequeue_attempts))
          /\ queue = <<>>
    /\ IF thread[x].changed
       THEN FlushAgain(x) /\ UNCHANGED mu
       ELSE mu' = {} /\ Goto(x, "clean_up")
    /\ UNCHANGED <<queue, closed, enqueue_attempts, dequeue_attempts, attempt,
                   cm, rest>>

-----------------------------------------------------------------------------
(* The clean-up after the flush, without mu_ *)

\* finished() of the attempt in front of x's list.
Finish(x) ==
    /\ attempt' = [attempt EXCEPT ![Head(thread[x].clean_up)].calls = @ + 1]
    /\ thread' = [thread EXCEPT ![x].pc = "clean_up", ![x].clean_up = Tail(@)]

\* The attempt of a Close has no token to deregister.
CleanUp(x) ==
    /\ thread[x].pc = "clean_up"
    /\ thread[x].clean_up # <<>>
    /\ LET o == Head(thread[x].clean_up)
           m == ManagerOf[o]
       IN \/ /\ attempt[o].token = kInvalidToken
             /\ Finish(x)
             /\ UNCHANGED cm
          \/ /\ attempt[o].token # kInvalidToken
             /\ ~DeregisterMustWait(cm[m])
             /\ cm' = [cm EXCEPT ![m] = DeregisterCallback(@, attempt[o].token)]
             /\ Finish(x)
          \/ /\ attempt[o].token # kInvalidToken
             /\ DeregisterMustWait(cm[m])
             /\ Goto(x, "wait")
             /\ UNCHANGED <<attempt, cm>>
    /\ UNCHANGED <<queueVars, rest>>

WaitForNotification(x) ==
    /\ thread[x].pc = "wait"
    /\ cm[ManagerOf[Head(thread[x].clean_up)]].notified
    /\ Finish(x)
    /\ UNCHANGED <<queueVars, cm, rest>>

\* Close(cancel_pending_enqueues = true) calls its own callback last; Cancel
\* returns to StartCancel's loop.
ReturnOp(o) ==
    /\ thread[o].pc = "clean_up"
    /\ thread[o].clean_up = <<>>
    /\ attempt' = [attempt EXCEPT
           ![o].calls = IF Kind(o) = "close_cancel" THEN @ + 1 ELSE @]
    /\ Goto(o, "done")
    /\ UNCHANGED <<queueVars, cm, rest>>

ReturnCancel(m) ==
    /\ thread[m].pc = "clean_up"
    /\ thread[m].clean_up = <<>>
    /\ Goto(m, "loop")
    /\ UNCHANGED <<queueVars, attempt, cm, rest>>

-----------------------------------------------------------------------------
Call(o) == \E r \in Requests : \/ DequeueManyWithoutShapes(o, r)
                               \/ EmptyBatch(o, r)
                               \/ Emplace(o, r)
                               \/ AlreadyCancelled(o, r)
                               \/ Close(o, r)
                               \/ CloseAndCancel(o, r)

RunAttempt(x) == \E o \in Ops : \/ RunClose(x, o)
                                \/ EnqueueOnClosed(x, o)
                                \/ PushElements(x, o)
                                \/ TakeElements(x, o)
                                \/ TakeRemaining(x, o)
                                \/ InsufficientElements(x, o)

FlushUnlocked(x) == \/ CallCancelled(x)
                    \/ Lock(x)
                    \/ SkipCancelledEnqueue(x)
                    \/ SkipCancelledDequeue(x)
                    \/ RunAttempt(x)
                    \/ EnqueuePhaseEnds(x)
                    \/ DequeuePhaseEnds(x)
                    \/ CleanUp(x)
                    \/ WaitForNotification(x)

OpStep(o) == \/ FlushUnlocked(o)
             \/ ReturnOp(o)

CancelStep(m) == \/ Cancel(m)
                 \/ CallbacksDone(m)
                 \/ Notify(m)
                 \/ FlushUnlocked(m)
                 \/ ReturnCancel(m)

Next == \/ \E o \in Ops : Call(o) \/ OpStep(o)
        \/ \E m \in Managers : StartCancel(m) \/ CancelStep(m)

Spec == Init /\ [][Next]_vars

(***************************************************************************)
(* A thread inside a queue operation or inside StartCancel is scheduled.   *)
(* Nobody has to call anything, and nobody has to cancel.                  *)
(***************************************************************************)
Fairness == /\ \A o \in Ops : WF_vars(OpStep(o))
            /\ \A m \in Managers : WF_vars(CancelStep(m))

FairSpec == Spec /\ Fairness

-----------------------------------------------------------------------------
(* Properties *)

Occurrences(s, o) == Cardinality({i \in DOMAIN s : s[i] = o})

PartialTuple == IF dequeue_attempts = <<>> THEN <<>>
                ELSE attempt[Head(dequeue_attempts)].tuple

(***************************************************************************)
(* Elements leave in the order in which they came, whoever flushes: what   *)
(* has come is what has gone, then what the front DequeueMany has taken so *)
(* far, then the queue.  In particular putting a batch back on Close never *)
(* loses, duplicates or reorders an element.  capacity_ bounds an open     *)
(* queue; a closed one may exceed it, by what a failed DequeueMany puts    *)
(* back and by no more.                                                    *)
(***************************************************************************)
FIFOOrder ==
    /\ entered = consumed \o PartialTuple \o queue
    /\ ~closed => Len(queue) <= Capacity
    /\ Len(queue) > Capacity =>
          \E r \in Requests : Len(queue) <= Capacity + r.n

(***************************************************************************)
(* The queue with its attempts, threads and cancellations is a queue: each *)
(* step is a step of AbstractQueue, or changes nothing there.  What the    *)
(* front DequeueMany has taken so far still counts as inside, because      *)
(* closing the queue may bring it back.                                    *)
(***************************************************************************)
Abs == INSTANCE AbstractQueue WITH contents <- PartialTuple \o queue,
                                   removed  <- consumed

ImplementsQueue == Abs!Spec

(***************************************************************************)
(* "The mutex mu_ ensures that the cleanup action only executes once"      *)
(* (FlushUnlocked): the callback of an emplaced attempt is at one place,   *)
(* in a list of live attempts, taken by Cancel or CloseAndCancel, in a     *)
(* clean-up list, or called once.                                          *)
(***************************************************************************)
CallbackOnce ==
    \A o \in Ops :
        LET live == IF attempt[o].is_cancelled THEN 0
                    ELSE Occurrences(enqueue_attempts, o) +
                         Occurrences(dequeue_attempts, o)
            Taken == {x \in Threads : o \in thread[x].callbacks}
            InCleanUp == {x \in Threads :
                            Occurrences(thread[x].clean_up, o) = 1}
        IN /\ \A x \in Threads : Occurrences(thread[x].clean_up, o) <= 1
           /\ live + Cardinality(Taken) + Cardinality(InCleanUp)
                   + attempt[o].calls =
                 IF \/ Kind(o) = "none"
                    \/ Kind(o) = "close_cancel" /\ thread[o].pc # "done"
                 THEN 0 ELSE 1

(***************************************************************************)
(* No attempt waits for something that has already happened: when nobody   *)
(* is about to flush, an enqueue waits only for room in an open queue and  *)
(* a dequeue only for elements of an open, empty queue.  And none is left  *)
(* behind: when the dequeues of a closed queue run, every enqueue has been *)
(* refused, so TryDequeueMany's "There may be some other attempts          *)
(* containing values" cannot be the case and OutOfRange is never early.    *)
(***************************************************************************)
NoLostWakeup ==
    /\ (\A x \in Threads : thread[x].pc \notin
            {"callbacks", "flush", "enqueue", "dequeue"}) =>
        /\ enqueue_attempts # <<>> =>
              /\ ~attempt[Head(enqueue_attempts)].is_cancelled
              /\ ~closed
              /\ Len(queue) >= Capacity
        /\ dequeue_attempts # <<>> =>
              /\ ~attempt[Head(dequeue_attempts)].is_cancelled
              /\ ~closed
              /\ queue = <<>>
    /\ \A x \in Threads :
        thread[x].pc = "dequeue" /\ closed => enqueue_attempts = <<>>

(***************************************************************************)
(* A dequeue that succeeds has its whole batch; only DequeueUpTo of a      *)
(* closed queue may get less, and never nothing.                           *)
(***************************************************************************)
WholeBatches ==
    \A o \in Ops :
        attempt[o].calls = 1 /\ attempt[o].status = "OK" =>
            CASE Kind(o) \in {"dequeue", "dequeue_many"} ->
                    Len(attempt[o].result) = attempt[o].request.n
              [] Kind(o) = "dequeue_up_to" ->
                    /\ Len(attempt[o].result) <= attempt[o].request.n
                    /\ Len(attempt[o].result) < attempt[o].request.n =>
                          closed /\ attempt[o].result # <<>>
              [] OTHER -> attempt[o].result = <<>>

(***************************************************************************)
(* No call blocks for ever once it is told to stop: closing the queue ends *)
(* every call, for nothing can block then, and cancelling a manager ends   *)
(* every pending call that has registered with it.                         *)
(***************************************************************************)
BlockedCallsEnd ==
    \A o \in Ops :
        \/ closed /\ Kind(o) # "none"
        \/ cm[ManagerOf[o]].is_cancelling /\ attempt[o].token # kInvalidToken
        ~> attempt[o].calls = 1

(***************************************************************************)
(* "(iii) `callback` does not invoke any method on this cancellation       *)
(* manager" (RegisterCallback in cancellation.h).  The queue's callback,   *)
(* Cancel, flushes, and the clean-up of an attempt it completes calls      *)
(* DeregisterCallback: of the manager that is running the callback, when   *)
(* the two attempts share it.  That call waits for StartCancel to return,  *)
(* which is the thread that waits: this does NOT hold.                     *)
(***************************************************************************)
CallbackLeavesManagerAlone ==
    \A m \in Managers :
        thread[m].pc = "wait" => ManagerOf[Head(thread[m].clean_up)] # m
=============================================================================
