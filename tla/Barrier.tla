------------------------------- MODULE Barrier -------------------------------
(***************************************************************************)
(* The Barrier of core/kernels/barrier_ops.cc: calls insert components of  *)
(* keyed tuples, a tuple that is complete moves to a PriorityQueue of      *)
(* unlimited capacity, from which TakeMany takes the oldest ones.          *)
(*                                                                         *)
(* Two locks are involved: mu_ of the barrier, and the lock of the ready   *)
(* queue (core/kernels/queue_base.cc, priority_queue.cc).  A call adds its *)
(* attempt to the ready queue and then flushes it; a flush runs whatever   *)
(* attempts it finds, those of other calls too, and calls their callbacks  *)
(* when it has released the queue.  Close flushes with mu_ held.           *)
(*                                                                         *)
(* A value is named after the call that inserts it and its position there. *)
(* The cancellation of attempts by the session is the subject of module    *)
(* FIFOQueue.                                                              *)
(***************************************************************************)
EXTENDS Integers, FiniteSets, Sequences, SequencesExt

CONSTANTS Keys, Components,
          Inserts, Takes, Closes, \* the calls
          None,
          Requests                \* the assignments of arguments considered

Calls == Inserts \cup Takes \cup Closes

ASSUME BarrierAssumption ==
    /\ Components # {}
    /\ None \notin Calls /\ None \notin Inserts \X Nat
    /\ Inserts \cap Takes = {} /\ Inserts \cap Closes = {} /\ Takes \cap Closes = {}
    /\ \A r \in Requests :
          /\ DOMAIN r \subseteq Calls
          /\ \A c \in Inserts \cap DOMAIN r : /\ r[c].keys \in Seq(Keys)
                                             /\ r[c].component \in Components
          /\ \A c \in Takes \cap DOMAIN r : /\ r[c].n \in Nat \ {0}
                                           /\ r[c].small \in BOOLEAN
          /\ \A c \in Closes \cap DOMAIN r : r[c].cancel \in BOOLEAN

VARIABLES request,                 \* the calls that are made -> their arguments
          mu,                      \* who keeps mu_ over several steps, or None
          closed, cancel_pending_enqueues, queue_closed, queue_cancelled,
          incomplete,              \* incomplete_
          dropped,                 \* (history) the tuples that Close has dropped
          input_index,             \* input_index_, counted from 0
          queue_mu,                \* who flushes the ready queue, or None
          rq_closed,               \* closed_ of the ready queue
          ready,                   \* its elements
          enqueue_attempts,        \* its attempts, of inserts and closes
          dequeue_attempts,
          pc,
          inserted,                \* how many keys an insert has inserted
          new_elements,            \* whether one of them was a new key
          tuples,                  \* the complete tuples an insert enqueues
          need,                    \* elements_requested of a take
          got,                     \* the elements a take's attempt has taken
          clean_up,                \* the calls a flush is to call back
          status,                  \* the status of each call's context
          answered                 \* the calls whose callback has been called

barrier == <<mu, closed, cancel_pending_enqueues, queue_closed,
             queue_cancelled, incomplete, dropped, input_index>>
queue == <<queue_mu, rq_closed, ready, enqueue_attempts, dequeue_attempts>>
local == <<inserted, new_elements, tuples, need, got>>
outcome == <<status, answered>>
vars == <<request, barrier, queue, pc, local, clean_up, outcome>>

\* An incomplete tuple; a key that incomplete_ does not hold has no value.
NoTuple == [index |-> 0, value |-> [j \in Components |-> None]]
Incomplete == {k \in Keys : incomplete[k] # NoTuple}

\* What a complete tuple is in the ready queue.
Element(k, t) == [key |-> k, index |-> t.index, value |-> t.value]

Init ==
    /\ request \in Requests
    /\ mu = None
    /\ closed = FALSE /\ cancel_pending_enqueues = FALSE
    /\ queue_closed = FALSE /\ queue_cancelled = FALSE
    /\ incomplete = [k \in Keys |-> NoTuple]
    /\ dropped = {}
    /\ input_index = 0
    /\ queue_mu = None
    /\ rq_closed = FALSE
    /\ ready = {}
    /\ enqueue_attempts = <<>>
    /\ dequeue_attempts = <<>>
    /\ pc = [c \in Calls |-> "idle"]
    /\ inserted = [c \in Inserts |-> 0]
    /\ new_elements = [c \in Inserts |-> FALSE]
    /\ tuples = [c \in Inserts |-> {}]
    /\ need = [c \in Takes |-> 0]
    /\ got = [c \in Takes |-> {}]
    /\ clean_up = [c \in Calls |-> <<>>]
    /\ status = [c \in Calls |-> "none"]
    /\ answered = {}

Goto(x, l) == pc' = [pc EXCEPT ![x] = l]

\* The callback of call c runs with status s, and its thread is through.
Answer(c, s) == /\ status' = [status EXCEPT ![c] = s]
                /\ answered' = answered \cup {c}
                /\ Goto(c, "done")

-----------------------------------------------------------------------------
(* TryInsertMany. *)

Refused(c) == /\ closed
              /\ \/ cancel_pending_enqueues
                 \/ request[c].keys # <<>> /\ Incomplete = {}

\* The call is refused, or enters the section of mu_ that inserts its keys.
TryInsertMany(c) ==
    /\ pc[c] = "idle" /\ mu = None
    /\ IF Refused(c) THEN Answer(c, "Cancelled") /\ UNCHANGED mu
                     ELSE mu' = c /\ Goto(c, "insert") /\ UNCHANGED outcome
    /\ UNCHANGED <<request, closed, cancel_pending_enqueues, queue_closed,
                   queue_cancelled, incomplete, dropped, input_index, queue,
                   local, clean_up>>

\* The next key of the loop, with mu_ held, and its incomplete tuple.
NextKey(c) == request[c].keys[inserted[c] + 1]
IsNew(c) == incomplete[NextKey(c)] = NoTuple
Taken(c) == incomplete[NextKey(c)].value[request[c].component] # None
Inserting(c) == pc[c] = "insert" /\ inserted[c] < Len(request[c].keys)

\* The tuple with the value, which is named after the call and the position.
Extended(c) ==
    LET tuple == incomplete[NextKey(c)] IN
    [index |-> IF IsNew(c) THEN input_index ELSE tuple.index,
     value |-> [tuple.value EXCEPT ![request[c].component] = <<c, inserted[c] + 1>>]]

InsertOneLocked(c) ==
    LET k == NextKey(c)
        full == Extended(c)
        complete == \A j \in Components : full.value[j] # None
    IN
    /\ Inserting(c)
    /\ ~(closed /\ IsNew(c)) /\ ~Taken(c)
    /\ incomplete' = [incomplete EXCEPT ![k] = IF complete THEN NoTuple ELSE full]
    /\ tuples' = IF complete THEN [tuples EXCEPT ![c] = @ \cup {Element(k, full)}]
                             ELSE tuples
    /\ new_elements' = [new_elements EXCEPT ![c] = @ \/ IsNew(c)]
    /\ inserted' = [inserted EXCEPT ![c] = @ + 1]
    /\ UNCHANGED <<request, mu, closed, cancel_pending_enqueues, queue_closed,
                   queue_cancelled, dropped, input_index, queue, pc, need, got,
                   clean_up, outcome>>

\* An error leaves the keys before it inserted; the tuples that they have
\* completed go nowhere (here as in the failures below they stay in tuples).
InsertFails(c) ==
    /\ Inserting(c)
    /\ (closed /\ IsNew(c)) \/ Taken(c)
    /\ Answer(c, IF closed /\ IsNew(c) THEN "Cancelled" ELSE "InvalidArgument")
    /\ mu' = None
    /\ UNCHANGED <<request, closed, cancel_pending_enqueues, queue_closed,
                   queue_cancelled, incomplete, dropped, input_index, queue,
                   local, clean_up>>

\* All keys are inserted; with no complete tuple that is all.
InsertEnds(c) ==
    /\ pc[c] = "insert" /\ inserted[c] = Len(request[c].keys)
    /\ mu' = None
    /\ input_index' = IF new_elements[c] THEN input_index + 1 ELSE input_index
    /\ IF tuples[c] = {} THEN Answer(c, "OK")
                         ELSE Goto(c, "enqueue") /\ UNCHANGED outcome
    /\ UNCHANGED <<request, closed, cancel_pending_enqueues, queue_closed,
                   queue_cancelled, incomplete, dropped, queue, local, clean_up>>

\* TryEnqueueMany adds the attempt; the flush is a step of its own.
EmplaceEnqueue(c) ==
    /\ pc[c] = "enqueue" /\ queue_mu = None
    /\ enqueue_attempts' = Append(enqueue_attempts, c)
    /\ Goto(c, "flush")
    /\ UNCHANGED <<request, barrier, queue_mu, rq_closed, ready,
                   dequeue_attempts, local, clean_up, outcome>>

-----------------------------------------------------------------------------
(* TryTakeMany. *)

\* Mutant: the batch is cut down whether or not the barrier is closed.
ToDeliverReady(c) == IF request[c].small /\ Cardinality(ready) < request[c].n
                     THEN Cardinality(ready) ELSE request[c].n

\* num_elements_to_deliver, and whether a closed barrier can deliver that.
ToDeliver(c) == LET n == request[c].n IN
                IF closed /\ request[c].small /\ Cardinality(ready) < n
                THEN Cardinality(ready) ELSE n

Available(c) == Cardinality(ready)
                  + IF request[c].small THEN 0 ELSE Cardinality(Incomplete)

Insufficient(c) == /\ closed
                   /\ \/ Available(c) < ToDeliver(c)
                      \/ Available(c) = 0

TryTakeMany(c) ==
    /\ pc[c] = "idle" /\ mu = None /\ queue_mu = None
    /\ IF Insufficient(c)
       THEN Answer(c, "OutOfRange") /\ UNCHANGED need
       ELSE /\ need' = [need EXCEPT ![c] = ToDeliver(c)]
            /\ Goto(c, "dequeue")
            /\ UNCHANGED outcome
    /\ UNCHANGED <<request, barrier, queue, inserted, new_elements, tuples, got,
                   clean_up>>

EmplaceDequeue(c) ==
    /\ pc[c] = "dequeue" /\ queue_mu = None
    /\ dequeue_attempts' = Append(dequeue_attempts, c)
    /\ Goto(c, "flush")
    /\ UNCHANGED <<request, barrier, queue_mu, rq_closed, ready,
                   enqueue_attempts, local, clean_up, outcome>>

-----------------------------------------------------------------------------
(* Close. *)

AlreadyClosed(c) == closed /\ (cancel_pending_enqueues \/ ~request[c].cancel)

\* Whether Close closes the ready queue, and CloseQueueLocked returns early.
ClosesQueue(c) == request[c].cancel \/ Incomplete = {}
QueueDone(c) == IF request[c].cancel THEN queue_cancelled ELSE queue_closed

\* Close and CloseQueueLocked, up to the Close of the ready queue, for which
\* mu_ is kept.  If the ready queue is already closed nothing calls back.
Close(c) ==
    /\ pc[c] = "idle" /\ mu = None /\ queue_mu = None
    /\ IF AlreadyClosed(c)
       THEN /\ Answer(c, "Cancelled")
            /\ UNCHANGED <<mu, closed, cancel_pending_enqueues, queue_closed,
                           queue_cancelled, incomplete, dropped>>
       ELSE /\ closed' = TRUE
            /\ cancel_pending_enqueues' = request[c].cancel
            /\ incomplete' = IF ClosesQueue(c) THEN [k \in Keys |-> NoTuple]
                                               ELSE incomplete
            /\ dropped' = IF ClosesQueue(c)
                          THEN dropped \cup {incomplete[k] : k \in Incomplete}
                          ELSE dropped
            /\ IF ~ClosesQueue(c) \/ QueueDone(c)
               THEN /\ Answer(c, "OK")
                    /\ UNCHANGED <<mu, queue_closed, queue_cancelled>>
               ELSE /\ queue_closed' = TRUE
                    /\ queue_cancelled' = (queue_cancelled \/ request[c].cancel)
                    /\ IF rq_closed THEN Goto(c, "done") /\ UNCHANGED mu
                                    ELSE Goto(c, "close") /\ mu' = c
                    /\ UNCHANGED outcome
    /\ UNCHANGED <<request, input_index, queue, local, clean_up>>

\* QueueBase::Close: the attempt that closes the queue.
EmplaceClose(c) ==
    /\ pc[c] = "close" /\ queue_mu = None
    /\ ~request[c].cancel
    /\ enqueue_attempts' = Append(enqueue_attempts, c)
    /\ Goto(c, "flush")
    /\ UNCHANGED <<request, barrier, queue_mu, rq_closed, ready,
                   dequeue_attempts, local, clean_up, outcome>>

\* Mutant: the queue is closed without a flush.
CloseWithoutFlush(c) ==
    /\ pc[c] = "close" /\ queue_mu = None
    /\ request[c].cancel
    /\ rq_closed' = TRUE
    /\ Goto(c, "finish")
    /\ UNCHANGED <<request, barrier, queue_mu, ready, enqueue_attempts,
                   dequeue_attempts, local, clean_up, outcome>>

\* QueueBase::CloseAndCancel: the enqueue attempts it finds are cancelled and
\* called back before the flush; its own callback comes after the flush.
CloseAndCancel(c) ==
    /\ pc[c] = "close" /\ queue_mu = None
    /\ request[c].cancel
    /\ rq_closed' = TRUE
    /\ LET cancelled == {e \in Inserts : Contains(enqueue_attempts, e)} IN
          /\ status' = [x \in Calls |-> IF x \in cancelled THEN "Cancelled"
                                                           ELSE status[x]]
          /\ answered' = answered \cup cancelled
          /\ enqueue_attempts' = <<>>
    /\ Goto(c, "flush")
    /\ UNCHANGED <<request, barrier, queue_mu, ready, dequeue_attempts, local,
                   clean_up>>

-----------------------------------------------------------------------------
(* The flush of the ready queue by thread x. *)

Flush(x) ==
    /\ pc[x] = "flush" /\ queue_mu = None
    /\ queue_mu' = x
    /\ Goto(x, "flushing")
    /\ UNCHANGED <<request, barrier, rq_closed, ready, enqueue_attempts,
                   dequeue_attempts, local, clean_up, outcome>>

\* An attempt completes: its callback will run with status s.
Complete(x, c, s) == /\ status' = [status EXCEPT ![c] = s]
                     /\ clean_up' = [clean_up EXCEPT ![x] = Append(@, c)]

RunEnqueue(x) ==
    /\ pc[x] = "flushing" /\ enqueue_attempts # <<>>
    /\ LET c == Head(enqueue_attempts) IN
       \/ /\ c \in Inserts
          /\ IF rq_closed THEN UNCHANGED <<ready, tuples>>
                          ELSE /\ ready' = ready \cup tuples[c]
                               /\ tuples' = [tuples EXCEPT ![c] = {}]
          /\ Complete(x, c, IF rq_closed THEN "Cancelled" ELSE "OK")
          /\ UNCHANGED rq_closed
       \/ /\ c \in Closes
          /\ rq_closed' = TRUE
          /\ Complete(x, c, IF rq_closed THEN "Cancelled" ELSE "OK")
          /\ UNCHANGED <<ready, tuples>>
    /\ enqueue_attempts' = Tail(enqueue_attempts)
    /\ UNCHANGED <<request, barrier, queue_mu, dequeue_attempts, pc, inserted,
                   new_elements, need, got, answered>>

\* The attempt of take c on the ready queue as it is.
Starved(c) == /\ rq_closed
              /\ \/ ready = {}
                 \/ ~request[c].small /\ Cardinality(ready) < need[c]
Blocked(c) == /\ Cardinality(ready) < need[c]
              /\ ready = {} \/ ~(rq_closed /\ request[c].small)

RunsDequeue(x, c) == /\ pc[x] = "flushing" /\ enqueue_attempts = <<>>
                     /\ dequeue_attempts # <<>>
                     /\ c = Head(dequeue_attempts)

\* OutOfRange; what the attempt has taken before is not put back.
RunDequeueStarved(x, c) ==
    /\ RunsDequeue(x, c)
    /\ Starved(c)
    /\ Complete(x, c, "OutOfRange")
    /\ dequeue_attempts' = Tail(dequeue_attempts)
    /\ UNCHANGED <<request, barrier, queue_mu, rq_closed, ready,
                   enqueue_attempts, pc, local, answered>>

\* The n elements with the lowest indices, in either order on a tie.
Oldest(es, n) == /\ es \subseteq ready /\ Cardinality(es) = n
                 /\ \A e \in es, f \in ready \ es : e.index <= f.index

\* Mutant: the elements stay in the queue until the batch is complete.
RunDequeueCopies(x, c) ==
    /\ RunsDequeue(x, c)
    /\ ~Starved(c) /\ ~Blocked(c)
    /\ \E es \in SUBSET ready :
          /\ Oldest(es, IF Cardinality(ready) < need[c] THEN Cardinality(ready)
                                                        ELSE need[c])
          /\ got' = [got EXCEPT ![c] = @ \cup es]
    /\ Complete(x, c, "OK")
    /\ dequeue_attempts' = Tail(dequeue_attempts)
    /\ UNCHANGED <<request, barrier, queue_mu, rq_closed, ready,
                   enqueue_attempts, pc, inserted, new_elements, tuples, need,
                   answered>>

\* It takes what it needs, or what there is: then the flush runs it again.
RunDequeue(x, c) ==
    /\ RunsDequeue(x, c)
    /\ ~Starved(c) /\ ~Blocked(c)
    /\ \E es \in SUBSET ready :
          /\ Oldest(es, IF Cardinality(ready) < need[c] THEN Cardinality(ready)
                                                        ELSE need[c])
          /\ ready' = ready \ es
          /\ got' = [got EXCEPT ![c] = @ \cup es]
          /\ need' = [need EXCEPT ![c] = @ - Cardinality(es)]
    /\ IF need'[c] = 0
       THEN /\ Complete(x, c, "OK")
            /\ dequeue_attempts' = Tail(dequeue_attempts)
       ELSE UNCHANGED <<clean_up, status, dequeue_attempts>>
    /\ UNCHANGED <<request, barrier, queue_mu, rq_closed, enqueue_attempts, pc,
                   inserted, new_elements, tuples, answered>>

FlushEnds(x) ==
    /\ pc[x] = "flushing" /\ enqueue_attempts = <<>>
    /\ dequeue_attempts # <<>> => /\ Blocked(Head(dequeue_attempts))
                                  /\ ~Starved(Head(dequeue_attempts))
    /\ queue_mu' = None
    /\ Goto(x, "finish")
    /\ UNCHANGED <<request, barrier, rq_closed, ready, enqueue_attempts,
                   dequeue_attempts, local, clean_up, outcome>>

\* The callback of an insert locks mu_ if its enqueue succeeded; its thread
\* may be one that keeps mu_.  (The condition under which it would close the
\* ready queue includes queue_closed_, and CloseQueueLocked then returns.)
Finish(x) ==
    /\ pc[x] = "finish" /\ clean_up[x] # <<>>
    /\ LET c == Head(clean_up[x]) IN c \in Inserts /\ status[c] = "OK" => mu = None
    /\ answered' = answered \cup {Head(clean_up[x])}
    /\ clean_up' = [clean_up EXCEPT ![x] = Tail(@)]
    /\ UNCHANGED <<request, barrier, queue, pc, local, status>>

\* The thread of the call is through; Close releases mu_.
Return(x) ==
    /\ pc[x] = "finish" /\ clean_up[x] = <<>>
    /\ IF x \in Closes /\ request[x].cancel
       THEN /\ status' = [status EXCEPT ![x] = "OK"]
            /\ answered' = answered \cup {x}
       ELSE UNCHANGED outcome
    /\ mu' = IF mu = x THEN None ELSE mu
    /\ Goto(x, "done")
    /\ UNCHANGED <<request, closed, cancel_pending_enqueues, queue_closed,
                   queue_cancelled, incomplete, dropped, input_index, queue,
                   local, clean_up>>

-----------------------------------------------------------------------------
\* Starting a call, and going on with it.
Begin == \E c \in DOMAIN request : \/ c \in Inserts /\ TryInsertMany(c)
                                   \/ c \in Takes /\ TryTakeMany(c)
                                   \/ c \in Closes /\ Close(c)

Step(x) ==
    \/ x \in Inserts /\ (InsertOneLocked(x) \/ InsertFails(x) \/ InsertEnds(x))
    \/ x \in Inserts /\ EmplaceEnqueue(x)
    \/ x \in Takes /\ EmplaceDequeue(x)
    \/ x \in Closes /\ (EmplaceClose(x) \/ CloseAndCancel(x))
    \/ Flush(x) \/ RunEnqueue(x)
    \/ \E c \in Takes : RunDequeueStarved(x, c) \/ RunDequeue(x, c)
    \/ FlushEnds(x) \/ Finish(x) \/ Return(x)

Next == Begin \/ \E x \in Calls : Step(x)

Spec == Init /\ [][Next]_vars

\* A call that has begun goes on; no call has to be made.
FairSpec == Spec /\ \A x \in Calls : WF_vars(Step(x))

-----------------------------------------------------------------------------
ValueType == Inserts \X Nat
TupleType == [index : Nat, value : [Components -> ValueType \cup {None}]]
ElementType == [key : Keys, index : Nat, value : [Components -> ValueType]]

TypeOK ==
    /\ request \in Requests
    /\ mu \in Inserts \cup Closes \cup {None} /\ queue_mu \in Calls \cup {None}
    /\ closed \in BOOLEAN /\ cancel_pending_enqueues \in BOOLEAN
    /\ queue_closed \in BOOLEAN /\ queue_cancelled \in BOOLEAN
    /\ rq_closed \in BOOLEAN
    /\ incomplete \in [Keys -> TupleType] /\ dropped \subseteq TupleType
    /\ input_index \in Nat
    /\ ready \subseteq ElementType
    /\ enqueue_attempts \in Seq(Inserts \cup Closes)
    /\ dequeue_attempts \in Seq(Takes)
    /\ pc \in [Calls -> {"idle", "insert", "enqueue", "dequeue", "close", "flush",
                         "flushing", "finish", "done"}]
    /\ inserted \in [Inserts -> Nat] /\ new_elements \in [Inserts -> BOOLEAN]
    /\ tuples \in [Inserts -> SUBSET ElementType]
    /\ need \in [Takes -> Nat]
    /\ got \in [Takes -> SUBSET ElementType]
    /\ clean_up \in [Calls -> Seq(Calls)]
    /\ status \in [Calls -> {"none", "OK", "Cancelled", "InvalidArgument",
                             "OutOfRange"}]
    /\ answered \subseteq Calls

\* The call has reported an error.
Failed(c) == status[c] \notin {"none", "OK"}

\* The value that call c has inserted for its i-th key is in one of the tuples,
\* and the places where it is, if not with a call that has failed.
Holds(es, c, i) == \E e \in es : e.value[request[c].component] = <<c, i>>

Places(c, i) ==
    {<<"incomplete", k>> : k \in {x \in Keys :
         incomplete[x].value[request[c].component] = <<c, i>>}}
    \cup {<<"ready", "queue">> : e \in {x \in ready : Holds({x}, c, i)}}
    \cup {<<"insert", d>> : d \in {x \in Inserts :
              ~Failed(x) /\ Holds(tuples[x], c, i)}}
    \cup {<<"take", t>> : t \in {x \in Takes : ~Failed(x) /\ Holds(got[x], c, i)}}

\* The ways this value may get lost, each of which the call that has lost it has
\* reported: a Close that cancels dropped its incomplete tuple; another insert
\* completed the tuple and failed; a TakeMany had taken it and failed.
LossReported(c, i) ==
    \/ cancel_pending_enqueues /\ Holds(dropped, c, i)
    \/ \E d \in Inserts : Failed(d) /\ Holds(tuples[d], c, i)
    \/ \E t \in Takes : Failed(t) /\ Holds(got[t], c, i)

(***************************************************************************)
(* A value whose insert was reported successful is in exactly one place:   *)
(* in incomplete_, on its way to the ready queue, in it, or in the hands   *)
(* of one TakeMany; if it is nowhere, the very call that had it last has   *)
(* reported a failure.  No value is ever in two places.                    *)
(***************************************************************************)
ValuesKept ==
    \A c \in Inserts \cap DOMAIN request : \A i \in DOMAIN request[c].keys :
        /\ \A p, q \in Places(c, i) : p = q
        /\ c \in answered /\ status[c] = "OK" =>
              Places(c, i) # {} \/ LossReported(c, i)

(***************************************************************************)
(* "Return OutOfRange if closed and there are fewer elements available     *)
(* than requested.  *Unless* allow_small_batch is true, in which case we   *)
(* return as many elements as possible" (priority_queue.cc): a TakeMany    *)
(* that got OutOfRange has taken nothing out of the queue.                 *)
(***************************************************************************)
SmallBatchDelivered ==
    \A t \in Takes : status[t] = "OutOfRange" => got[t] = {}

(***************************************************************************)
(* TakeMany keeps its word although it looks at the barrier and at the     *)
(* ready queue in two separate sections: a success delivers the number of  *)
(* elements requested, or with allow_small_batch at least one of a closed  *)
(* barrier; OutOfRange is only reported by a closed barrier.               *)
(***************************************************************************)
TakesWhole ==
    \A t \in answered \cap Takes :
        /\ status[t] = "OK" =>
              \/ Cardinality(got[t]) = request[t].n
              \/ request[t].small /\ closed /\ got[t] # {}
        /\ status[t] = "OutOfRange" => closed

(***************************************************************************)
(* If the barrier is only ever closed with cancel_pending_enqueues, every  *)
(* insert is answered, and once it is closed every call is: the callbacks  *)
(* that Close runs with mu_ held do not ask for mu_ then.                  *)
(***************************************************************************)
CancelAnswersAll ==
    (\A c \in Closes \cap DOMAIN request : request[c].cancel) =>
        /\ closed ~> \A x \in Calls : pc[x] = "idle" \/ x \in answered
        /\ \A c \in Inserts : pc[c] # "idle" ~> c \in answered

(***************************************************************************)
(* "Subsequent TakeMany operations will continue to succeed if sufficient  *)
(* completed elements remain in the barrier.  Subsequent TakeMany          *)
(* operations that would block will fail immediately" (BarrierClose in     *)
(* data_flow_ops.cc): for either they need mu_, so Close releases it.      *)
(***************************************************************************)
ClosedBarrierAnswers == closed ~> mu = None

(***************************************************************************)
(* "only close it if the SQSS is closed, nothing is left in the incomplete *)
(* set, the queue is not already marked as closed" (barrier_ops.cc): when  *)
(* the last incomplete tuple of a closed barrier is complete, the ready    *)
(* queue gets closed, too.                                                 *)
(***************************************************************************)
ReadyQueueCloses == (closed /\ Incomplete = {} /\ mu = None) ~> rq_closed
=============================================================================
