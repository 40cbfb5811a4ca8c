--------------------------- MODULE FIFOQueueProofs ---------------------------
(***************************************************************************)
(* The queue is correct for any number of operations, managers and any     *)
(* capacity, and it implements AbstractQueue.  The inductive invariant     *)
(* follows the callback of each operation from its list of attempts to the *)
(* thread that calls it, says what the two lists hold, and what a thread   *)
(* that keeps mu_ has found out about the queue.                           *)
(***************************************************************************)
EXTENDS FIFOQueue, SequenceTheorems, FiniteSetTheorems, TLAPS

Distinct(s) == \A i, j \in DOMAIN s : s[i] = s[j] => i = j

DequeueKinds == {"dequeue", "dequeue_many", "dequeue_up_to"}

\* Operation o has an attempt in a list; nobody has taken its callback.
Listed(o) == o \in Pending(enqueue_attempts) \cup Pending(dequeue_attempts)
Live(o)   == Listed(o) /\ ~attempt[o].is_cancelled

\* Thread x has taken the callback of o and will call it.
Held(x, o) == o \in thread[x].callbacks \/ o \in Pending(thread[x].clean_up)

\* Operation o has not been called, or has no attempt and is not done.
NoCallback(o) == \/ Kind(o) = "none"
                 \/ Kind(o) = "close_cancel" /\ thread[o].pc # "done"

\* A dequeue that has succeeded got what it asked for.
Whole(o) ==
    LET a == attempt[o] IN
    a.status = "OK" =>
        /\ Kind(o) \in {"dequeue", "dequeue_many"} => Len(a.result) = a.request.n
        /\ Kind(o) = "dequeue_up_to" =>
              /\ Len(a.result) <= a.request.n
              /\ Len(a.result) < a.request.n => closed /\ a.result # <<>>

\* Where the callback of operation o is.
CallbackInv(o) ==
    LET a == attempt[o] IN
    /\ NoCallback(o) => a.calls = 0 /\ ~Listed(o) /\ \A x \in Threads : ~Held(x, o)
    /\ ~NoCallback(o) => \/ a.calls = 1 \/ Live(o)
                         \/ \E x \in Threads : Held(x, o)
    /\ a.calls <= 1
    /\ Live(o) => a.calls = 0 /\ \A x \in Threads : ~Held(x, o)
    /\ \A x \in Threads : Held(x, o) =>
          /\ a.calls = 0
          /\ \A y \in Threads : Held(y, o) => x = y
          /\ o \notin thread[x].callbacks \/ o \notin Pending(thread[x].clean_up)

\* What an attempt has of its batch.
AttemptInv(o) ==
    LET a == attempt[o] IN
    /\ thread[o].pc = "start" <=> Kind(o) = "none"
    /\ Kind(o) = "none" => ~a.is_cancelled /\ a.tuple = <<>>
    /\ Kind(o) \notin DequeueKinds => a.result = <<>>
    /\ a.calls = 1 \/ (\E x \in Threads : Held(x, o)) => Whole(o)
    /\ o \in Pending(enqueue_attempts) =>
          /\ Kind(o) \in {"enqueue", "close"}
          /\ Kind(o) = "enqueue" => a.elements_requested \in 1..a.request.n
    /\ o \in Pending(dequeue_attempts) =>
          /\ Kind(o) \in DequeueKinds
          /\ a.request \in Requests
          /\ a.elements_requested > 0
          /\ a.elements_requested + Len(a.tuple) = a.request.n

OpInv(o) == CallbackInv(o) /\ AttemptInv(o)

\* The fronts of the two lists can only wait.
EnqueueStuck == enqueue_attempts # <<>> =>
                   /\ ~attempt[Head(enqueue_attempts)].is_cancelled
                   /\ ~closed
                   /\ Len(queue) >= Capacity
DequeueStuck == dequeue_attempts # <<>> =>
                   /\ ~attempt[Head(dequeue_attempts)].is_cancelled
                   /\ ~closed
                   /\ queue = <<>>

Flushing(x) == thread[x].pc \in {"callbacks", "flush", "enqueue", "dequeue"}

\* A thread inside the queue.  One that runs the dequeues has left the
\* enqueues stuck, unless it will look at them again.
FlusherInv(x) ==
    LET h == thread[x] IN
    /\ Distinct(h.clean_up)
    /\ h.callbacks # {} => h.pc = "callbacks"
    /\ h.pc = "wait" => h.clean_up # <<>>
    /\ x \in mu <=> h.pc \in {"enqueue", "dequeue"}
    /\ h.pc = "dequeue" => /\ closed => enqueue_attempts = <<>>
                           /\ h.changed \/ EnqueueStuck

\* Only the front dequeue has begun to take elements.
ListInv ==
    /\ Distinct(enqueue_attempts) /\ Distinct(dequeue_attempts)
    /\ Pending(enqueue_attempts) \cap Pending(dequeue_attempts) = {}
    /\ \A i \in 2..Len(dequeue_attempts) :
          attempt[dequeue_attempts[i]].tuple = <<>>

LockInv ==
    /\ \A x, y \in mu : x = y
    /\ (\A x \in Threads : ~Flushing(x)) => EnqueueStuck /\ DequeueStuck

IInv == /\ TypeOK /\ ListInv /\ LockInv /\ FIFOOrder
        /\ \A o \in Ops : OpInv(o)
        /\ \A x \in Threads : FlusherInv(x)

-----------------------------------------------------------------------------
(* Sequences without repetition, and the sets of their elements. *)

\* An attempt joins a list at the end.
LEMMA PendingAppend ==
    ASSUME NEW S, NEW s \in Seq(S), NEW o \in S
    PROVE  /\ Append(s, o) \in Seq(S)
           /\ Pending(Append(s, o)) = Pending(s) \cup {o}
           /\ Distinct(s) /\ o \notin Pending(s) => Distinct(Append(s, o))
           /\ s # <<>> => Head(Append(s, o)) = Head(s)
           /\ s = <<>> => Head(Append(s, o)) = o
           /\ Append(s, o) # <<>>
<1> DEFINE t == Append(s, o)
<1>1. /\ t \in Seq(S) /\ Len(t) = Len(s) + 1
      /\ \A i \in 1..Len(s) : t[i] = s[i]
      /\ t[Len(s) + 1] = o
  BY AppendProperties
<1>2. DOMAIN t = 1..(Len(s) + 1) /\ DOMAIN s = 1..Len(s) /\ Len(s) \in Nat
  BY <1>1
<1> HIDE DEF t
<1>3. Pending(t) = Pending(s) \cup {o}
  BY <1>1, <1>2 DEF Pending
<1>4. Distinct(s) /\ o \notin Pending(s) => Distinct(t)
  BY <1>1, <1>2 DEF Pending, Distinct
<1>5. /\ s # <<>> => Head(t) = Head(s)
      /\ s = <<>> => Head(t) = o
      /\ t # <<>>
  BY <1>1, <1>2
<1> QED
  BY <1>1, <1>3, <1>4, <1>5 DEF t

\* The front attempt leaves a list.
LEMMA PendingTail ==
    ASSUME NEW S, NEW s \in Seq(S), s # <<>>
    PROVE  /\ Head(s) \in S /\ Head(s) \in Pending(s) /\ s[1] = Head(s)
           /\ Tail(s) \in Seq(S) /\ Len(Tail(s)) = Len(s) - 1
           /\ \A i \in 1..Len(Tail(s)) : Tail(s)[i] = s[i + 1]
           /\ Pending(s) = Pending(Tail(s)) \cup {Head(s)}
           /\ Distinct(s) => Distinct(Tail(s)) /\ Head(s) \notin Pending(Tail(s))
<1> DEFINE t == Tail(s)
<1>1. /\ t \in Seq(S) /\ Len(t) = Len(s) - 1 /\ Len(s) \in Nat /\ Len(s) > 0
      /\ \A i \in 1..Len(t) : t[i] = s[i + 1]
      /\ Head(s) = s[1] /\ Head(s) \in S
  BY HeadTailProperties, EmptySeq
<1>2. DOMAIN t = 1..(Len(s) - 1) /\ DOMAIN s = 1..Len(s)
  BY <1>1
<1> HIDE DEF t
<1>3. Pending(s) = Pending(t) \cup {Head(s)}
  <2>1. ASSUME NEW i \in DOMAIN s PROVE s[i] \in Pending(t) \cup {Head(s)}
    <3>1. CASE i = 1
      BY <1>1, <3>1
    <3>2. CASE i # 1
      <4>1. i - 1 \in DOMAIN t /\ t[i - 1] = s[i]
        BY <1>1, <1>2, <3>2
      <4> QED
        BY <4>1 DEF Pending
    <3> QED
      BY <3>1, <3>2
  <2>2. ASSUME NEW i \in DOMAIN t PROVE t[i] \in Pending(s)
    <3>1. i + 1 \in DOMAIN s /\ t[i] = s[i + 1]
      BY <1>1, <1>2
    <3> QED
      BY <3>1 DEF Pending
  <2>3. Head(s) \in Pending(s)
    <3>1. 1 \in DOMAIN s
      BY <1>1, <1>2
    <3> QED
      BY <1>1, <3>1 DEF Pending
  <2> QED
    BY <2>1, <2>2, <2>3 DEF Pending
<1>4. ASSUME Distinct(s) PROVE Distinct(t) /\ Head(s) \notin Pending(t)
  <2>1. \A i \in DOMAIN t : i + 1 \in DOMAIN s /\ t[i] = s[i + 1]
    BY <1>1, <1>2
  <2>2. 1 \in DOMAIN s
    BY <1>1, <1>2
  <2>3. \A i \in DOMAIN t : i \in Nat \ {0}
    BY <1>1, <1>2
  <2>4. Distinct(t)
    BY <1>4, <2>1, <2>3 DEF Distinct
  <2>5. \A i \in DOMAIN t : t[i] # s[1]
    BY <1>4, <2>1, <2>2, <2>3 DEF Distinct
  <2> QED
    BY <1>1, <2>4, <2>5 DEF Pending
<1> QED
  BY <1>1, <1>3, <1>4 DEF t

\* A list is empty exactly when nothing is in it.
LEMMA PendingEmpty ==
    ASSUME NEW S, NEW s \in Seq(S)
    PROVE  /\ Pending(s) \subseteq S
           /\ s = <<>> <=> Pending(s) = {}
<1>1. \A i \in DOMAIN s : s[i] \in S
  BY ElementOfSeq
<1>2. s # <<>> => 1 \in DOMAIN s
  BY EmptySeq
<1>3. s = <<>> => DOMAIN s = {}
  OBVIOUS
<1> QED
  BY <1>1, <1>2, <1>3 DEF Pending

-----------------------------------------------------------------------------
(* What a step leaves alone. *)

\* Nothing about operation p changes, except that the queue may be closed.
Same(p) ==
    /\ attempt'[p] = attempt[p]
    /\ p \in Pending(enqueue_attempts') <=> p \in Pending(enqueue_attempts)
    /\ p \in Pending(dequeue_attempts') <=> p \in Pending(dequeue_attempts)
    /\ thread'[p].pc = "start" <=> thread[p].pc = "start"
    /\ thread'[p].pc = "done" <=> thread[p].pc = "done"
    /\ \A x \in Threads :
          /\ p \in thread'[x].callbacks <=> p \in thread[x].callbacks
          /\ p \in Pending(thread'[x].clean_up) <=> p \in Pending(thread[x].clean_up)
    /\ closed => closed'

\* An operation of which nothing changes keeps its invariant.
LEMMA SameInv == ASSUME NEW p \in Ops, OpInv(p), Same(p) PROVE OpInv(p)'
<1>1. /\ Listed(p)' <=> Listed(p)
      /\ Live(p)' <=> Live(p)
      /\ \A x \in Threads : Held(x, p)' <=> Held(x, p)
      /\ Kind(p)' = Kind(p)
      /\ NoCallback(p)' <=> NoCallback(p)
  BY DEF Same, Listed, Live, Held, NoCallback, Kind
<1>2. CallbackInv(p)'
  BY <1>1 DEF Same, OpInv, CallbackInv
<1>3. Whole(p) => Whole(p)'
  BY <1>1 DEF Same, Whole
<1>4. AttemptInv(p)'
  BY <1>1, <1>3 DEF Same, OpInv, AttemptInv
<1> QED
  BY <1>2, <1>4 DEF OpInv

\* A step that does not touch the queue, its lists and mu_.
LEMMA AsideInv ==
    ASSUME IInv, TypeOK', NEW x \in Threads, UNCHANGED <<queueVars, rest>>,
           \A p \in Ops : /\ attempt'[p].is_cancelled = attempt[p].is_cancelled
                          /\ attempt'[p].tuple = attempt[p].tuple,
           \A y \in Threads \ {x} : thread'[y] = thread[y],
           Flushing(x) => Flushing(x)',
           \A p \in Ops : OpInv(p)',
           FlusherInv(x)'
    PROVE  IInv'
<1>1. /\ enqueue_attempts # <<>> => Head(enqueue_attempts) \in Ops
      /\ dequeue_attempts # <<>> => Head(dequeue_attempts) \in Ops
      /\ \A i \in 1..Len(dequeue_attempts) : dequeue_attempts[i] \in Ops
  BY PendingTail, ElementOfSeq DEF IInv, TypeOK
<1>2. /\ EnqueueStuck' <=> EnqueueStuck
      /\ DequeueStuck' <=> DequeueStuck
      /\ PartialTuple' = PartialTuple
  BY <1>1 DEF queueVars, EnqueueStuck, DequeueStuck, PartialTuple
<1>3. ListInv'
  BY <1>1 DEF IInv, ListInv, queueVars
<1>4. FIFOOrder'
  BY <1>2 DEF IInv, FIFOOrder, queueVars, rest
<1>5. LockInv'
  BY <1>2 DEF IInv, LockInv, queueVars, Flushing
<1>6. \A y \in Threads \ {x} : FlusherInv(y)'
  BY <1>2 DEF IInv, FlusherInv, queueVars
<1> QED
  BY <1>3, <1>4, <1>5, <1>6 DEF IInv

\* A step of the thread that has mu_, or takes it for this step, and that has
\* still to flush.
LEMMA BusyInv ==
    ASSUME IInv, TypeOK', NEW x \in Threads, mu \subseteq {x}, mu' \subseteq {x},
           \A y \in Threads \ {x} : thread'[y] = thread[y],
           Flushing(x)', ListInv', FIFOOrder',
           \A p \in Ops : OpInv(p)',
           FlusherInv(x)'
    PROVE  IInv'
<1>1. \A y \in Threads \ {x} : FlusherInv(y)'
  BY DEF IInv, FlusherInv
<1>2. LockInv'
  BY DEF LockInv
<1> QED
  BY <1>1, <1>2 DEF IInv

\* Operations, managers and threads.
LEMMA Kinds ==
    /\ \A o \in Ops : o \in Threads /\ o \notin Managers /\ ManagerOf[o] \in Managers
    /\ \A m \in Managers : m \in Threads /\ m \notin Ops
  BY QueueAssumption DEF Threads

\* The type of what each operation and each thread has.
LEMMA Typed ==
    ASSUME IInv
    PROVE  /\ \A o \in Ops : attempt[o] \in AttemptType
           /\ \A x \in Threads : thread[x] \in ThreadType
           /\ \A m \in Managers : cm[m] \in ManagerType
  BY DEF IInv, TypeOK

\* A new queue, not yet used.
LEMMA InitInv == Init => IInv
<1> SUFFICES ASSUME Init PROVE IInv
  OBVIOUS
<1>1. <<>> \in Seq(Element) /\ <<>> \in Seq(Ops)
  OBVIOUS
<1>2. TypeOK
  <2>1. attempt \in [Ops -> AttemptType]
    BY <1>1 DEF Init, AttemptType, RequestType, kInvalidToken
  <2>2. cm \in [Managers -> ManagerType]
    BY DEF Init, NewManager, ManagerType
  <2>3. thread \in [Threads -> ThreadType]
    BY <1>1 DEF Init, ThreadType
  <2> QED
    BY <1>1, <2>1, <2>2, <2>3, QueueAssumption DEF Init, TypeOK
<1>3. Pending(<<>>) = {} /\ Distinct(<<>>)
  BY DEF Pending, Distinct
<1>4. ListInv
  BY <1>3 DEF Init, ListInv
<1>5. LockInv
  BY DEF Init, LockInv, EnqueueStuck, DequeueStuck
<1>6. FIFOOrder
  <2>1. <<>> \o <<>> = <<>> /\ Len(<<>>) = 0
    OBVIOUS
  <2> QED
    BY <2>1, QueueAssumption DEF Init, FIFOOrder, PartialTuple
<1>7. ASSUME NEW o \in Ops PROVE OpInv(o)
  <2>1. \A x \in Threads : ~Held(x, o)
    BY <1>3 DEF Init, Held
  <2>2. Kind(o) = "none" /\ NoCallback(o) /\ ~Listed(o)
    BY <1>3 DEF Init, Kind, NoCallback, Listed
  <2>3. thread[o].pc = "start" /\ attempt[o].calls = 0
    BY Kinds DEF Init
  <2>4. CallbackInv(o)
    BY <2>1, <2>2, <2>3 DEF CallbackInv, Live
  <2>5. AttemptInv(o)
    BY <1>3, <2>1, <2>2, <2>3 DEF Init, AttemptInv, DequeueKinds
  <2> QED
    BY <2>4, <2>5 DEF OpInv
<1>8. ASSUME NEW x \in Threads PROVE FlusherInv(x)
  BY <1>3 DEF Init, FlusherInv
<1> QED
  BY <1>2, <1>4, <1>5, <1>6, <1>7, <1>8 DEF IInv

Pcs == {"start", "callbacks", "flush", "enqueue", "dequeue", "clean_up", "wait",
        "done", "loop", "notify"}

\* A thread moves and changes nothing else of its own.
LEMMA GotoFacts ==
    ASSUME IInv, NEW x \in Threads, NEW l \in Pcs, Goto(x, l)
    PROVE  /\ thread' \in [Threads -> ThreadType]
           /\ \A y \in Threads \ {x} : thread'[y] = thread[y]
           /\ thread'[x].pc = l
           /\ thread'[x].changed = thread[x].changed
           /\ thread'[x].callbacks = thread[x].callbacks
           /\ thread'[x].clean_up = thread[x].clean_up
  BY Typed DEF IInv, TypeOK, Goto, ThreadType, Pcs

\* A call that is answered at once, without an attempt.
LEMMA AnsweredAtOnce ==
    ASSUME IInv, NEW o \in Ops, NEW r \in Requests, NEW b \in AttemptType,
           thread[o].pc = "start",
           r.kind \in {"enqueue", "dequeue", "dequeue_many", "dequeue_up_to"},
           b.request = r, b.calls = attempt[o].calls + 1,
           b.status = "OK" => r.n = 0,
           b.tuple = attempt[o].tuple, b.result = attempt[o].result,
           b.is_cancelled = attempt[o].is_cancelled,
           attempt' = [attempt EXCEPT ![o] = b],
           cm' \in [Managers -> ManagerType],
           Goto(o, "done"),
           UNCHANGED <<queueVars, rest>>
    PROVE  IInv'
<1> DEFINE a == attempt[o]
<1>1. /\ thread' \in [Threads -> ThreadType]
      /\ \A y \in Threads \ {o} : thread'[y] = thread[y]
      /\ thread'[o].pc = "done"
      /\ thread'[o].callbacks = thread[o].callbacks
      /\ thread'[o].clean_up = thread[o].clean_up
  BY Kinds, GotoFacts DEF Pcs
<1>2. OpInv(o) /\ FlusherInv(o)
  BY Kinds DEF IInv
<1>3. /\ attempt' \in [Ops -> AttemptType] /\ attempt'[o] = b
      /\ \A p \in Ops \ {o} : attempt'[p] = attempt[p]
  BY DEF IInv, TypeOK
<1>4. TypeOK'
  BY <1>1, <1>3 DEF IInv, TypeOK, queueVars, rest
<1>5. \A p \in Ops \ {o} : Same(p)
  BY <1>1, <1>3, Kinds DEF Same, queueVars
<1>6. /\ a.calls = 0 /\ ~Listed(o) /\ \A x \in Threads : ~Held(x, o)
      /\ a.tuple = <<>> /\ a.result = <<>> /\ ~a.is_cancelled
  BY <1>2 DEF OpInv, AttemptInv, CallbackInv, NoCallback, DequeueKinds
<1>7. ~Listed(o)' /\ \A x \in Threads : ~Held(x, o)'
  BY <1>1, <1>6, Kinds DEF Listed, Held, queueVars
<1>8. Kind(o)' = r.kind
  BY <1>3 DEF Kind
<1>9. CallbackInv(o)'
  BY <1>3, <1>6, <1>7, <1>8 DEF CallbackInv, NoCallback, Live
<1>10. Whole(o)'
  BY <1>3, <1>6, <1>8 DEF Whole
<1>11. AttemptInv(o)'
  BY <1>1, <1>3, <1>6, <1>7, <1>8, <1>10 DEF AttemptInv, Listed, DequeueKinds
<1>12. FlusherInv(o)'
  BY <1>1, <1>2 DEF FlusherInv, queueVars
<1>13. \A p \in Ops : OpInv(p)'
  BY <1>5, <1>9, <1>11, SameInv DEF IInv, OpInv
<1>14. \A p \in Ops : /\ attempt'[p].is_cancelled = attempt[p].is_cancelled
                      /\ attempt'[p].tuple = attempt[p].tuple
  BY <1>3
<1>15. ~Flushing(o)
  BY DEF Flushing
<1> QED
  BY <1>1, <1>4, <1>12, <1>13, <1>14, <1>15, Kinds, AsideInv

\* The calls before mu_ and the one refused by a cancelled manager.
LEMMA RefusedStep ==
    ASSUME IInv, NEW o \in Ops, NEW r \in Requests,
           \/ DequeueManyWithoutShapes(o, r)
           \/ EmptyBatch(o, r)
           \/ AlreadyCancelled(o, r)
    PROVE  IInv'
<1> DEFINE a == attempt[o]
<1>1. a \in AttemptType /\ r \in RequestType
  BY QueueAssumption DEF IInv, TypeOK
<1>2. a.calls + 1 \in Nat
  BY <1>1 DEF AttemptType
<1>3. cm \in [Managers -> ManagerType]
  BY DEF IInv, TypeOK
<1>4. CASE DequeueManyWithoutShapes(o, r)
  <2> DEFINE b == [a EXCEPT !.request = r, !.status = "InvalidArgument",
                            !.calls = a.calls + 1]
  <2>1. /\ attempt' = [attempt EXCEPT ![o] = b] /\ UNCHANGED <<queueVars, cm, rest>>
        /\ thread[o].pc = "start" /\ Goto(o, "done")
        /\ r.kind \in {"dequeue_many", "dequeue_up_to"}
    BY <1>4 DEF DequeueManyWithoutShapes
  <2>2. b \in AttemptType
    BY <1>1, <1>2 DEF AttemptType
  <2>3. /\ b.request = r /\ b.status = "InvalidArgument" /\ b.calls = a.calls + 1
        /\ b.tuple = a.tuple /\ b.is_cancelled = a.is_cancelled
        /\ b.result = a.result
    BY <1>1, <1>2 DEF AttemptType
  <2> HIDE DEF b
  <2> QED
    BY <1>3, <2>1, <2>2, <2>3, AnsweredAtOnce
<1>5. CASE EmptyBatch(o, r)
  <2> DEFINE b == [a EXCEPT !.request = r, !.calls = a.calls + 1]
  <2>1. /\ attempt' = [attempt EXCEPT ![o] = b] /\ UNCHANGED <<queueVars, cm, rest>>
        /\ thread[o].pc = "start" /\ Goto(o, "done") /\ r.n = 0
        /\ r.kind \in {"enqueue", "dequeue_many", "dequeue_up_to"}
    BY <1>5 DEF EmptyBatch
  <2>2. b \in AttemptType
    BY <1>1, <1>2 DEF AttemptType
  <2>3. /\ b.request = r /\ b.calls = a.calls + 1
        /\ b.tuple = a.tuple /\ b.is_cancelled = a.is_cancelled
        /\ b.result = a.result
    BY <1>1, <1>2 DEF AttemptType
  <2> HIDE DEF b
  <2> QED
    BY <1>3, <2>1, <2>2, <2>3, AnsweredAtOnce
<1>6. CASE AlreadyCancelled(o, r)
  <2> DEFINE b == [a EXCEPT !.request = r, !.status = "Cancelled",
                            !.calls = a.calls + 1]
  <2>1. /\ attempt' = [attempt EXCEPT ![o] = b] /\ UNCHANGED <<queueVars, rest>>
        /\ cm' = [cm EXCEPT ![ManagerOf[o]] = TakeToken(@)]
        /\ thread[o].pc = "start" /\ Goto(o, "done")
        /\ r.kind \in {"enqueue", "dequeue", "dequeue_many", "dequeue_up_to"}
    BY <1>6 DEF AlreadyCancelled, Cancellable
  <2>2. b \in AttemptType
    BY <1>1, <1>2 DEF AttemptType
  <2>3. /\ b.request = r /\ b.status = "Cancelled" /\ b.calls = a.calls + 1
        /\ b.tuple = a.tuple /\ b.is_cancelled = a.is_cancelled
        /\ b.result = a.result
    BY <1>1, <1>2 DEF AttemptType
  <2>4. cm' \in [Managers -> ManagerType]
    BY <1>3, <2>1, Kinds DEF TakeToken, ManagerType
  <2> HIDE DEF b
  <2> QED
    BY <2>1, <2>2, <2>3, <2>4, AnsweredAtOnce
<1> QED
  BY <1>4, <1>5, <1>6

\* An attempt joins one of the lists; its operation will flush.
LEMMA Joins ==
    ASSUME IInv, NEW o \in Ops, NEW b \in AttemptType,
           thread[o].pc = "start", mu = {},
           b.calls = attempt[o].calls, b.tuple = attempt[o].tuple,
           b.result = attempt[o].result,
           b.is_cancelled = attempt[o].is_cancelled,
           attempt' = [attempt EXCEPT ![o] = b],
           cm' \in [Managers -> ManagerType],
           Goto(o, "flush"),
           UNCHANGED <<queue, closed, mu, rest>>,
           \/ /\ b.request.kind \in {"enqueue", "close"}
              /\ b.request.kind = "enqueue" =>
                    b.elements_requested \in 1..b.request.n
              /\ enqueue_attempts' = Append(enqueue_attempts, o)
              /\ UNCHANGED dequeue_attempts
           \/ /\ b.request.kind \in DequeueKinds
              /\ b.request \in Requests
              /\ b.request.n > 0 /\ b.elements_requested = b.request.n
              /\ dequeue_attempts' = Append(dequeue_attempts, o)
              /\ UNCHANGED enqueue_attempts
    PROVE  IInv'
<1> DEFINE a == attempt[o]
<1>1. /\ thread' \in [Threads -> ThreadType]
      /\ \A y \in Threads \ {o} : thread'[y] = thread[y]
      /\ thread'[o].pc = "flush"
      /\ thread'[o].callbacks = thread[o].callbacks
      /\ thread'[o].clean_up = thread[o].clean_up
  BY Kinds, GotoFacts DEF Pcs
<1>2. /\ OpInv(o) /\ FlusherInv(o) /\ ListInv
      /\ enqueue_attempts \in Seq(Ops) /\ dequeue_attempts \in Seq(Ops)
  BY Kinds DEF IInv, TypeOK
<1>3. /\ attempt' \in [Ops -> AttemptType] /\ attempt'[o] = b
      /\ \A p \in Ops \ {o} : attempt'[p] = attempt[p]
  BY DEF IInv, TypeOK
<1>4. /\ enqueue_attempts' \in Seq(Ops) /\ dequeue_attempts' \in Seq(Ops)
      /\ \/ /\ Pending(enqueue_attempts') = Pending(enqueue_attempts) \cup {o}
            /\ b.request.kind \in {"enqueue", "close"}
            /\ b.request.kind = "enqueue" =>
                  b.elements_requested \in 1..b.request.n
            /\ dequeue_attempts' = dequeue_attempts
         \/ /\ Pending(dequeue_attempts') = Pending(dequeue_attempts) \cup {o}
            /\ b.request.kind \in DequeueKinds /\ b.request \in Requests
            /\ b.request.n > 0 /\ b.elements_requested = b.request.n
            /\ enqueue_attempts' = enqueue_attempts
  <2>1. CASE /\ b.request.kind \in {"enqueue", "close"}
             /\ b.request.kind = "enqueue" =>
                   b.elements_requested \in 1..b.request.n
             /\ enqueue_attempts' = Append(enqueue_attempts, o)
             /\ UNCHANGED dequeue_attempts
    <3>1. /\ enqueue_attempts' \in Seq(Ops)
          /\ Pending(enqueue_attempts') = Pending(enqueue_attempts) \cup {o}
      BY <1>2, <2>1, PendingAppend
    <3> QED
      BY <1>2, <2>1, <3>1
  <2>2. CASE /\ b.request.kind \in DequeueKinds
             /\ b.request \in Requests
             /\ b.request.n > 0 /\ b.elements_requested = b.request.n
             /\ dequeue_attempts' = Append(dequeue_attempts, o)
             /\ UNCHANGED enqueue_attempts
    <3>1. /\ dequeue_attempts' \in Seq(Ops)
          /\ Pending(dequeue_attempts') = Pending(dequeue_attempts) \cup {o}
      BY <1>2, <2>2, PendingAppend
    <3> QED
      BY <1>2, <2>2, <3>1
  <2> QED
    BY <2>1, <2>2
<1>5. TypeOK'
  BY <1>1, <1>3, <1>4 DEF IInv, TypeOK, rest
<1>6. \A p \in Ops \ {o} : Same(p)
  <2>1. \A p \in Ops \ {o} :
           /\ p \in Pending(enqueue_attempts') <=> p \in Pending(enqueue_attempts)
           /\ p \in Pending(dequeue_attempts') <=> p \in Pending(dequeue_attempts)
    BY <1>4
  <2> QED
    BY <1>1, <1>3, <2>1, Kinds DEF Same
<1>7. /\ a.calls = 0 /\ ~Listed(o) /\ \A x \in Threads : ~Held(x, o)
      /\ a.tuple = <<>> /\ a.result = <<>> /\ ~a.is_cancelled
  BY <1>2 DEF OpInv, AttemptInv, CallbackInv, NoCallback, DequeueKinds
<1>8. Listed(o)' /\ \A x \in Threads : ~Held(x, o)'
  BY <1>1, <1>4, <1>7, Kinds DEF Listed, Held
<1>9. Kind(o)' = b.request.kind
  BY <1>3 DEF Kind
<1>10. CallbackInv(o)'
  BY <1>3, <1>4, <1>7, <1>8, <1>9 DEF CallbackInv, NoCallback, Live, DequeueKinds
<1>11. AttemptInv(o)'
  <2>1. Len(<<>>) = 0 /\ b.elements_requested \in Nat /\ b.request.n \in Nat
    BY DEF AttemptType, RequestType
  <2>2. /\ o \in Pending(enqueue_attempts)' =>
              /\ b.request.kind \in {"enqueue", "close"}
              /\ b.request.kind = "enqueue" =>
                    b.elements_requested \in 1..b.request.n
        /\ o \in Pending(dequeue_attempts)' =>
              /\ b.request.kind \in DequeueKinds /\ b.request \in Requests
              /\ b.elements_requested > 0
              /\ b.elements_requested + Len(<<>>) = b.request.n
    BY <1>4, <1>7, <2>1 DEF Listed
  <2>3. b.request.kind # "none"
    BY <1>4 DEF DequeueKinds
  <2> QED
    BY <1>1, <1>3, <1>7, <1>8, <1>9, <2>2, <2>3 DEF AttemptInv
<1>12. FlusherInv(o)'
  BY <1>1, <1>2 DEF FlusherInv
<1>13. \A p \in Ops : OpInv(p)'
  BY <1>6, <1>10, <1>11, SameInv DEF IInv, OpInv
<1>14. ListInv'
  <2>1. CASE /\ enqueue_attempts' = Append(enqueue_attempts, o)
             /\ UNCHANGED dequeue_attempts
    <3>1. \A i \in 1..Len(dequeue_attempts) : dequeue_attempts[i] \in Ops \ {o}
      BY <1>2, <1>7, ElementOfSeq DEF Listed, Pending
    <3>2. \A i \in 2..Len(dequeue_attempts) : i \in 1..Len(dequeue_attempts)
      BY <1>2
    <3>3. Pending(enqueue_attempts)' \cap Pending(dequeue_attempts)' = {}
      BY <1>2, <1>7, <2>1, PendingAppend DEF ListInv, Listed
    <3> QED
      BY <1>2, <1>3, <1>7, <2>1, <3>1, <3>2, <3>3, PendingAppend DEF ListInv, Listed
  <2>2. CASE /\ dequeue_attempts' = Append(dequeue_attempts, o)
             /\ UNCHANGED enqueue_attempts
    <3>1. \A i \in 1..Len(dequeue_attempts) : dequeue_attempts[i] \in Ops \ {o}
      BY <1>2, <1>7, ElementOfSeq DEF Listed, Pending
    <3>2. /\ Len(dequeue_attempts') = Len(dequeue_attempts) + 1
          /\ \A i \in 1..Len(dequeue_attempts) :
                dequeue_attempts'[i] = dequeue_attempts[i]
          /\ dequeue_attempts'[Len(dequeue_attempts) + 1] = o
          /\ Len(dequeue_attempts) \in Nat
      BY <1>2, <2>2, AppendProperties
    <3>3. ASSUME NEW i \in 2..Len(dequeue_attempts')
          PROVE  attempt'[dequeue_attempts'[i]].tuple = <<>>
      <4>1. CASE i = Len(dequeue_attempts) + 1
        BY <1>3, <1>7, <3>2, <4>1
      <4>2. CASE i # Len(dequeue_attempts) + 1
        <5>1. i \in 2..Len(dequeue_attempts) /\ i \in 1..Len(dequeue_attempts)
          BY <3>2, <4>2
        <5> QED
          BY <1>2, <1>3, <3>1, <3>2, <5>1 DEF ListInv
      <4> QED
        BY <4>1, <4>2
    <3>4. Pending(enqueue_attempts)' \cap Pending(dequeue_attempts)' = {}
      BY <1>2, <1>7, <2>2, PendingAppend DEF ListInv, Listed
    <3> QED
      BY <1>2, <1>7, <2>2, <3>3, <3>4, PendingAppend DEF ListInv, Listed
  <2> QED
    BY <2>1, <2>2
<1>15. PartialTuple' = PartialTuple
  <2>1. dequeue_attempts # <<>> => Head(dequeue_attempts) \in Ops \ {o}
    BY <1>2, <1>7, PendingTail DEF Listed
  <2>2. \/ dequeue_attempts' = dequeue_attempts
        \/ /\ dequeue_attempts' # <<>>
           /\ dequeue_attempts # <<>> =>
                 Head(dequeue_attempts') = Head(dequeue_attempts)
           /\ dequeue_attempts = <<>> => Head(dequeue_attempts') = o
    BY <1>2, PendingAppend
  <2> QED
    BY <1>3, <1>7, <2>1, <2>2 DEF PartialTuple
<1>16. FIFOOrder'
  BY <1>15 DEF IInv, FIFOOrder, rest
<1> QED
  BY <1>1, <1>5, <1>12, <1>13, <1>14, <1>16, Kinds, BusyInv DEF Flushing

\* TryEnqueue and TryDequeue register and emplace an attempt.
LEMMA EmplaceStep ==
    ASSUME IInv, NEW o \in Ops, NEW r \in Requests, Emplace(o, r) PROVE IInv'
<1> DEFINE a == attempt[o]
           m == cm[ManagerOf[o]]
           token == m.next_cancellation_token
           b == [a EXCEPT !.request = r, !.elements_requested = r.n,
                          !.token = token]
<1>1. a \in AttemptType /\ r \in RequestType /\ m \in ManagerType
  BY QueueAssumption, Kinds DEF IInv, TypeOK
<1>2. token \in Nat /\ r.n \in Nat
  BY <1>1 DEF ManagerType, RequestType
<1>3. /\ attempt' = [attempt EXCEPT ![o] = b]
      /\ cm' = [cm EXCEPT ![ManagerOf[o]] = RegisterCallback(TakeToken(m), token)]
      /\ r.kind \in {"enqueue", "dequeue", "dequeue_many", "dequeue_up_to"}
      /\ r.n > 0 /\ mu = {} /\ thread[o].pc = "start"
      /\ Goto(o, "flush") /\ UNCHANGED <<queue, closed, mu, rest>>
      /\ \/ /\ r.kind = "enqueue"
            /\ enqueue_attempts' = Append(enqueue_attempts, o)
            /\ UNCHANGED dequeue_attempts
         \/ /\ r.kind # "enqueue"
            /\ dequeue_attempts' = Append(dequeue_attempts, o)
            /\ UNCHANGED enqueue_attempts
  BY DEF Emplace, Cancellable
<1>4. b \in AttemptType
  BY <1>1, <1>2 DEF AttemptType
<1>5. /\ b.request = r /\ b.elements_requested = r.n /\ b.calls = a.calls
      /\ b.tuple = a.tuple /\ b.is_cancelled = a.is_cancelled /\ b.result = a.result
  BY <1>1, <1>2 DEF AttemptType
<1>6. cm' \in [Managers -> ManagerType]
  <2>1. TakeToken(m) \in ManagerType
    BY <1>1, <1>2 DEF TakeToken, ManagerType
  <2>2. RegisterCallback(TakeToken(m), token) \in ManagerType
    BY <1>2, <2>1 DEF RegisterCallback, ManagerType
  <2> QED
    BY <1>3, <2>2 DEF IInv, TypeOK
<1> HIDE DEF b
<1>7. r.kind = "enqueue" => b.elements_requested \in 1..b.request.n
  BY <1>2, <1>3, <1>5
<1>8. r.kind # "enqueue" => r.kind \in DequeueKinds
  BY <1>3 DEF DequeueKinds
<1> QED
  BY <1>3, <1>4, <1>5, <1>6, <1>7, <1>8, Joins

\* Close waits its turn among the enqueues.
LEMMA CloseStep ==
    ASSUME IInv, NEW o \in Ops, NEW r \in Requests, Close(o, r) PROVE IInv'
<1> DEFINE a == attempt[o]
           b == [a EXCEPT !.request = r]
<1>1. a \in AttemptType /\ r \in RequestType
  BY QueueAssumption DEF IInv, TypeOK
<1>2. /\ attempt' = [attempt EXCEPT ![o] = b]
      /\ r.kind = "close" /\ mu = {} /\ thread[o].pc = "start"
      /\ enqueue_attempts' = Append(enqueue_attempts, o)
      /\ Goto(o, "flush")
      /\ UNCHANGED <<queue, closed, dequeue_attempts, cm, mu, rest>>
  BY DEF Close
<1>3. b \in AttemptType
  BY <1>1 DEF AttemptType
<1>4. /\ b.request = r /\ b.calls = a.calls
      /\ b.tuple = a.tuple /\ b.is_cancelled = a.is_cancelled /\ b.result = a.result
  BY <1>1 DEF AttemptType
<1>5. cm' \in [Managers -> ManagerType]
  BY <1>2 DEF IInv, TypeOK
<1> HIDE DEF b
<1> QED
  BY <1>2, <1>3, <1>4, <1>5, Joins

\* The callbacks of the live attempts ps, which thread x takes: they have been
\* marked as cancelled, and x will call them.
LEMMA Takes ==
    ASSUME IInv, NEW x \in Threads, NEW ps \in SUBSET Ops,
           \A p \in ps : Live(p), mu = {}, UNCHANGED mu, closed => closed',
           closed' \in BOOLEAN,
           UNCHANGED <<queue, enqueue_attempts, dequeue_attempts, cm, rest>>,
           attempt' \in [Ops -> AttemptType],
           \A p \in ps : /\ attempt'[p].request = attempt[p].request
                         /\ attempt'[p].calls = attempt[p].calls
                         /\ attempt'[p].tuple = attempt[p].tuple
                         /\ attempt'[p].result = attempt[p].result
                         /\ attempt'[p].elements_requested = attempt[p].elements_requested
                         /\ attempt'[p].is_cancelled
                         /\ attempt'[p].status # "OK",
           \A p \in Ops \ ps : p # x => attempt'[p] = attempt[p],
           \A p \in Ops \ ps : attempt'[p].tuple = attempt[p].tuple,
           thread' \in [Threads -> ThreadType],
           \A y \in Threads \ {x} : thread'[y] = thread[y],
           thread'[x].pc = "callbacks", thread'[x].callbacks = ps,
           thread[x].pc # "callbacks", thread[x].pc # "done",
           thread'[x].clean_up = thread[x].clean_up,
           x \in Ops => x \notin ps /\ OpInv(x)',
           thread[x].pc = "start" => x \in Ops
    PROVE  IInv'
<1>1. FlusherInv(x) /\ thread[x].callbacks = {}
  BY DEF IInv, FlusherInv
<1>2. TypeOK'
  BY DEF IInv, TypeOK, rest
<1>3. ASSUME NEW p \in Ops \ ps, p # x PROVE Same(p)
  <2>1. p \in Threads
    BY Kinds
  <2> QED
    BY <1>1, <1>3, <2>1 DEF Same
<1>4. ASSUME NEW p \in ps PROVE OpInv(p)'
  <2>1. OpInv(p) /\ Live(p) /\ p # x /\ p \in Ops /\ p \in Threads
    BY Kinds DEF IInv
  <2>2. /\ attempt[p].calls = 0 /\ \A y \in Threads : ~Held(y, p)
        /\ ~NoCallback(p)
    BY <2>1 DEF OpInv, CallbackInv, Live
  <2>3. /\ Kind(p)' = Kind(p) /\ (NoCallback(p)' <=> NoCallback(p))
        /\ Listed(p)' /\ ~Live(p)'
    BY <2>1 DEF Kind, NoCallback, Live, Listed
  <2>4. /\ Held(x, p)' /\ \A y \in Threads \ {x} : ~Held(y, p)'
        /\ p \notin Pending(thread'[x].clean_up)
    BY <2>2 DEF Held
  <2>5. CallbackInv(p)'
    BY <2>2, <2>3, <2>4 DEF CallbackInv
  <2>6. Whole(p)'
    BY DEF Whole
  <2>7. Kind(p) # "none" /\ thread'[p] = thread[p]
    BY <2>1, <2>2 DEF NoCallback
  <2>8. /\ attempt'[p].request = attempt[p].request
        /\ attempt'[p].tuple = attempt[p].tuple
        /\ attempt'[p].result = attempt[p].result
        /\ attempt'[p].elements_requested = attempt[p].elements_requested
    OBVIOUS
  <2>9. AttemptInv(p)'
    BY <2>1, <2>3, <2>6, <2>7, <2>8 DEF OpInv, AttemptInv
  <2> QED
    BY <2>5, <2>9 DEF OpInv
<1>5. \A p \in Ops : OpInv(p)'
  BY <1>3, <1>4, SameInv DEF IInv
<1>6. FlusherInv(x)'
  BY <1>1 DEF FlusherInv
<1>7. \A p \in Ops : attempt'[p].tuple = attempt[p].tuple
  OBVIOUS
<1>8. ListInv'
  <2>1. \A i \in 2..Len(dequeue_attempts) : dequeue_attempts[i] \in Ops
    BY ElementOfSeq DEF IInv, TypeOK
  <2> QED
    BY <1>7, <2>1 DEF IInv, ListInv
<1>9. FIFOOrder'
  <2>1. dequeue_attempts # <<>> => Head(dequeue_attempts) \in Ops
    BY PendingTail DEF IInv, TypeOK
  <2>2. PartialTuple' = PartialTuple
    BY <1>7, <2>1 DEF PartialTuple
  <2> QED
    BY <2>2 DEF IInv, FIFOOrder, rest
<1> QED
  BY <1>2, <1>5, <1>6, <1>8, <1>9, BusyInv DEF Flushing

\* Close(cancel_pending_enqueues = true) takes every pending enqueue.
LEMMA CloseAndCancelStep ==
    ASSUME IInv, NEW o \in Ops, NEW r \in Requests, CloseAndCancel(o, r)
    PROVE  IInv'
<1> DEFINE a == attempt[o]
           b == [a EXCEPT !.request = r]
           live == {p \in Pending(enqueue_attempts) : ~attempt[p].is_cancelled}
           c(p) == [attempt[p] EXCEPT !.is_cancelled = TRUE,
                                      !.status = SetStatus(p, "Cancelled")]
           h == [thread[o] EXCEPT !.pc = "callbacks", !.callbacks = live]
<1>1. /\ thread[o].pc = "start" /\ mu = {} /\ closed' = TRUE
      /\ r.kind = "close_cancel"
      /\ attempt' = [p \in Ops |-> IF p = o THEN b
                                   ELSE IF p \in live THEN c(p) ELSE attempt[p]]
      /\ thread' = [thread EXCEPT ![o] = h]
      /\ UNCHANGED <<queue, enqueue_attempts, dequeue_attempts, cm, mu, rest>>
  BY DEF CloseAndCancel
<1>2. OpInv(o) /\ a \in AttemptType /\ r \in RequestType /\ o \in Threads
  BY QueueAssumption, Kinds DEF IInv, TypeOK
<1>3. /\ a.calls = 0 /\ ~Listed(o) /\ \A x \in Threads : ~Held(x, o)
      /\ a.tuple = <<>> /\ a.result = <<>> /\ ~a.is_cancelled
  BY <1>1, <1>2 DEF OpInv, AttemptInv, CallbackInv, NoCallback, DequeueKinds
<1>4. live \subseteq Ops /\ o \notin live /\ \A p \in live : Live(p)
  BY <1>3, PendingEmpty DEF IInv, TypeOK, Live, Listed
<1>5. /\ b \in AttemptType /\ b.request = r /\ b.calls = a.calls
      /\ b.tuple = a.tuple /\ b.result = a.result /\ b.is_cancelled = a.is_cancelled
  BY <1>2 DEF AttemptType
<1>6. ASSUME NEW p \in live
      PROVE  /\ c(p) \in AttemptType
             /\ c(p).request = attempt[p].request /\ c(p).calls = attempt[p].calls
             /\ c(p).tuple = attempt[p].tuple /\ c(p).result = attempt[p].result
             /\ c(p).elements_requested = attempt[p].elements_requested
             /\ c(p).is_cancelled /\ c(p).status # "OK"
  <2>1. attempt[p] \in AttemptType
    BY <1>4, Typed
  <2>2. /\ SetStatus(p, "Cancelled") # "OK"
        /\ SetStatus(p, "Cancelled") \in
              {"OK", "Cancelled", "OutOfRange", "InvalidArgument"}
    BY <2>1 DEF SetStatus, AttemptType
  <2> QED
    BY <2>1, <2>2 DEF AttemptType
<1>7. /\ h \in ThreadType /\ h.pc = "callbacks" /\ h.callbacks = live
      /\ h.clean_up = thread[o].clean_up
  <2>1. thread[o] \in ThreadType
    BY <1>2, Typed
  <2> QED
    BY <1>4, <2>1 DEF ThreadType
<1> HIDE DEF b, c, h, live
<1>8. /\ attempt' \in [Ops -> AttemptType] /\ attempt'[o] = b
      /\ \A p \in live : attempt'[p] = c(p)
      /\ \A p \in Ops \ live : p # o => attempt'[p] = attempt[p]
  <2>1. \A p \in Ops : attempt[p] \in AttemptType
    BY Typed
  <2> QED
    BY <1>1, <1>4, <1>5, <1>6, <2>1
<1>9. /\ thread' \in [Threads -> ThreadType] /\ thread'[o] = h
      /\ \A y \in Threads \ {o} : thread'[y] = thread[y]
  BY <1>1, <1>2, <1>7 DEF IInv, TypeOK
<1>10. ~Listed(o)' /\ \A x \in Threads : ~Held(x, o)'
  BY <1>1, <1>3, <1>4, <1>7, <1>9 DEF Listed, Held
<1>11. Kind(o)' = "close_cancel"
  BY <1>1, <1>5, <1>8 DEF Kind
<1>12. CallbackInv(o)'
  BY <1>3, <1>5, <1>7, <1>8, <1>9, <1>10, <1>11 DEF CallbackInv, NoCallback, Live
<1>13. AttemptInv(o)'
  BY <1>3, <1>5, <1>7, <1>8, <1>9, <1>10, <1>11
     DEF AttemptInv, Listed, DequeueKinds
<1>14. OpInv(o)'
  BY <1>12, <1>13 DEF OpInv
<1>15. /\ \A p \in Ops \ live : attempt'[p].tuple = attempt[p].tuple
       /\ \A p \in live : /\ attempt'[p].request = attempt[p].request
                          /\ attempt'[p].calls = attempt[p].calls
                          /\ attempt'[p].tuple = attempt[p].tuple
                          /\ attempt'[p].result = attempt[p].result
                          /\ attempt'[p].elements_requested =
                                attempt[p].elements_requested
                          /\ attempt'[p].is_cancelled
                          /\ attempt'[p].status # "OK"
  BY <1>5, <1>6, <1>8
<1> QED
  BY <1>1, <1>2, <1>4, <1>7, <1>8, <1>9, <1>14, <1>15, Takes

-----------------------------------------------------------------------------
\* A manager's thread moves outside the queue, with no callback in hand.
LEMMA ManagerMoves ==
    ASSUME IInv, NEW m \in Managers, NEW h \in ThreadType,
           thread' = [thread EXCEPT ![m] = h],
           ~Flushing(m), h.pc \in {"loop", "notify", "done"},
           h.callbacks = thread[m].callbacks,
           h.clean_up = thread[m].clean_up,
           cm' \in [Managers -> ManagerType],
           UNCHANGED <<queueVars, attempt, rest>>
    PROVE  IInv'
<1>1. m \in Threads /\ m \notin Ops /\ FlusherInv(m)
  BY Kinds DEF IInv
<1>2. /\ thread' \in [Threads -> ThreadType] /\ thread'[m] = h
      /\ \A y \in Threads \ {m} : thread'[y] = thread[y]
  BY <1>1 DEF IInv, TypeOK
<1>3. TypeOK'
  BY <1>2 DEF IInv, TypeOK, queueVars, rest
<1>4. \A p \in Ops : Same(p)
  BY <1>1, <1>2, Kinds DEF Same, queueVars
<1>5. \A p \in Ops : OpInv(p)'
  BY <1>4, SameInv DEF IInv
<1>6. FlusherInv(m)'
  BY <1>1, <1>2 DEF FlusherInv, queueVars, Flushing
<1> QED
  BY <1>1, <1>2, <1>3, <1>5, <1>6, AsideInv

\* StartCancel up to its loop, after it, and between two callbacks.
LEMMA ManagerSteps ==
    ASSUME IInv, NEW m \in Managers,
           StartCancel(m) \/ CallbacksDone(m) \/ Notify(m) \/ ReturnCancel(m)
    PROVE  IInv'
<1>1. /\ cm \in [Managers -> ManagerType] /\ cm[m] \in ManagerType
      /\ thread[m] \in ThreadType
  BY Kinds DEF IInv, TypeOK
<1>2. CASE StartCancel(m)
  <2> DEFINE h == [thread[m] EXCEPT !.pc = "loop", !.todo = cm[m].callbacks]
  <2>1. /\ thread[m].pc = "start" /\ cm' = [cm EXCEPT ![m] = BeginCancel(@)]
        /\ thread' = [thread EXCEPT ![m] = h]
        /\ UNCHANGED <<queueVars, attempt, rest>>
    BY <1>2 DEF StartCancel
  <2>2. cm' \in [Managers -> ManagerType] /\ cm[m].callbacks \subseteq Nat
    BY <1>1, <2>1 DEF BeginCancel, ManagerType
  <2>3. /\ h \in ThreadType /\ h.pc = "loop"
        /\ h.callbacks = thread[m].callbacks /\ h.clean_up = thread[m].clean_up
    BY <1>1, <2>2 DEF ThreadType
  <2> HIDE DEF h
  <2> QED
    BY <2>1, <2>2, <2>3, ManagerMoves DEF Flushing
<1>3. CASE CallbacksDone(m)
  <2> DEFINE h == [thread[m] EXCEPT !.pc = "notify"]
  <2>1. /\ thread[m].pc = "loop" /\ cm' = [cm EXCEPT ![m] = EndCancel(@)]
        /\ thread' = [thread EXCEPT ![m] = h]
        /\ UNCHANGED <<queueVars, attempt, rest>>
    BY <1>3 DEF CallbacksDone, Goto
  <2>2. cm' \in [Managers -> ManagerType]
    BY <1>1, <2>1 DEF EndCancel, ManagerType
  <2>3. /\ h \in ThreadType /\ h.pc = "notify"
        /\ h.callbacks = thread[m].callbacks /\ h.clean_up = thread[m].clean_up
    BY <1>1 DEF ThreadType
  <2> HIDE DEF h
  <2> QED
    BY <2>1, <2>2, <2>3, ManagerMoves DEF Flushing
<1>4. CASE Notify(m)
  <2> DEFINE h == [thread[m] EXCEPT !.pc = "done"]
  <2>1. /\ thread[m].pc = "notify" /\ cm' = [cm EXCEPT ![m] = NotifyCancelled(@)]
        /\ thread' = [thread EXCEPT ![m] = h]
        /\ UNCHANGED <<queueVars, attempt, rest>>
    BY <1>4 DEF Notify, Goto
  <2>2. cm' \in [Managers -> ManagerType]
    BY <1>1, <2>1 DEF NotifyCancelled, ManagerType
  <2>3. /\ h \in ThreadType /\ h.pc = "done"
        /\ h.callbacks = thread[m].callbacks /\ h.clean_up = thread[m].clean_up
    BY <1>1 DEF ThreadType
  <2> HIDE DEF h
  <2> QED
    BY <2>1, <2>2, <2>3, ManagerMoves DEF Flushing
<1>5. CASE ReturnCancel(m)
  <2> DEFINE h == [thread[m] EXCEPT !.pc = "loop"]
  <2>1. /\ thread[m].pc = "clean_up" /\ cm' = cm
        /\ thread' = [thread EXCEPT ![m] = h]
        /\ UNCHANGED <<queueVars, attempt, rest>>
    BY <1>5 DEF ReturnCancel, Goto
  <2>2. /\ h \in ThreadType /\ h.pc = "loop"
        /\ h.callbacks = thread[m].callbacks /\ h.clean_up = thread[m].clean_up
    BY <1>1 DEF ThreadType
  <2> HIDE DEF h
  <2> QED
    BY <1>1, <2>1, <2>2, ManagerMoves DEF Flushing
<1> QED
  BY <1>2, <1>3, <1>4, <1>5

\* QueueBase::Cancel finds a live attempt, or none.
LEMMA CancelStepInv == ASSUME IInv, NEW m \in Managers, Cancel(m) PROVE IInv'
<1>1. /\ thread[m].pc = "loop" /\ mu = {} /\ UNCHANGED <<queueVars, cm, rest>>
  BY DEF Cancel
<1>2. /\ m \in Threads /\ m \notin Ops /\ thread[m] \in ThreadType
      /\ cm \in [Managers -> ManagerType]
      /\ enqueue_attempts \in Seq(Ops) /\ dequeue_attempts \in Seq(Ops)
  BY Kinds DEF IInv, TypeOK
<1>3. ASSUME NEW token \in thread[m].todo, NEW o \in Matching(m, token),
             ~attempt[o].is_cancelled,
             attempt' = [attempt EXCEPT ![o].is_cancelled = TRUE,
                                        ![o].status = SetStatus(o, "Cancelled")],
             thread' = [thread EXCEPT ![m].pc = "callbacks",
                                      ![m].todo = @ \ {token},
                                      ![m].callbacks = {o}]
      PROVE  IInv'
  <2> DEFINE b == [attempt[o] EXCEPT !.is_cancelled = TRUE,
                                     !.status = SetStatus(o, "Cancelled")]
             h == [thread[m] EXCEPT !.pc = "callbacks", !.todo = @ \ {token},
                                    !.callbacks = {o}]
  <2>1. o \in Ops /\ Live(o)
    BY <1>2, <1>3, PendingEmpty DEF Matching, Live, Listed
  <2>2. attempt[o] \in AttemptType
    BY <2>1, Typed
  <2>3. /\ SetStatus(o, "Cancelled") # "OK"
        /\ SetStatus(o, "Cancelled") \in
              {"OK", "Cancelled", "OutOfRange", "InvalidArgument"}
    BY <2>2 DEF SetStatus, AttemptType
  <2>4. /\ b \in AttemptType
        /\ b.request = attempt[o].request /\ b.calls = attempt[o].calls
        /\ b.tuple = attempt[o].tuple /\ b.result = attempt[o].result
        /\ b.elements_requested = attempt[o].elements_requested
        /\ b.is_cancelled /\ b.status # "OK"
    BY <2>2, <2>3 DEF AttemptType
  <2>5. attempt' = [attempt EXCEPT ![o] = b] /\ thread' = [thread EXCEPT ![m] = h]
    BY <1>3
  <2>6. /\ h \in ThreadType /\ h.pc = "callbacks" /\ h.callbacks = {o}
        /\ h.clean_up = thread[m].clean_up
    BY <1>2, <2>1 DEF ThreadType
  <2> HIDE DEF b, h
  <2>7. /\ attempt' \in [Ops -> AttemptType] /\ attempt'[o] = b
        /\ \A p \in Ops \ {o} : attempt'[p] = attempt[p]
    BY <2>1, <2>4, <2>5 DEF IInv, TypeOK
  <2>8. /\ thread' \in [Threads -> ThreadType] /\ thread'[m] = h
        /\ \A y \in Threads \ {m} : thread'[y] = thread[y]
    BY <1>2, <2>5, <2>6 DEF IInv, TypeOK
  <2>9. /\ closed' = closed /\ closed \in BOOLEAN /\ mu' = mu
        /\ UNCHANGED <<queue, enqueue_attempts, dequeue_attempts, cm, rest>>
    BY <1>1 DEF IInv, TypeOK, queueVars
  <2>10. /\ {o} \in SUBSET Ops /\ \A p \in {o} : Live(p)
         /\ \A p \in {o} : /\ attempt'[p].request = attempt[p].request
                           /\ attempt'[p].calls = attempt[p].calls
                           /\ attempt'[p].tuple = attempt[p].tuple
                           /\ attempt'[p].result = attempt[p].result
                           /\ attempt'[p].elements_requested =
                                 attempt[p].elements_requested
                           /\ attempt'[p].is_cancelled
                           /\ attempt'[p].status # "OK"
    BY <2>1, <2>4, <2>7
  <2> QED
    BY <1>1, <1>2, <2>6, <2>7, <2>8, <2>9, <2>10, Takes
<1>4. ASSUME NEW token \in thread[m].todo, UNCHANGED attempt,
             thread' = [thread EXCEPT ![m].todo = @ \ {token}]
      PROVE  IInv'
  <2> DEFINE h == [thread[m] EXCEPT !.todo = @ \ {token}]
  <2>1. thread' = [thread EXCEPT ![m] = h]
    BY <1>4
  <2>2. /\ h \in ThreadType /\ h.pc = "loop"
        /\ h.callbacks = thread[m].callbacks /\ h.clean_up = thread[m].clean_up
    BY <1>1, <1>2 DEF ThreadType
  <2> HIDE DEF h
  <2> QED
    BY <1>1, <1>2, <1>4, <2>1, <2>2, ManagerMoves DEF Flushing
<1> QED
  BY <1>3, <1>4 DEF Cancel

-----------------------------------------------------------------------------
\* Thread x calls the callbacks of ps, which it holds.
LEMMA CallsBack ==
    ASSUME IInv, TypeOK', NEW x \in Threads, NEW ps \in SUBSET Ops,
           \A p \in ps : Held(x, p),
           UNCHANGED <<queueVars, rest>>,
           \A p \in ps :
              attempt'[p] = [attempt[p] EXCEPT !.calls = attempt[p].calls + 1],
           \A p \in Ops \ ps : attempt'[p] = attempt[p],
           \A y \in Threads \ {x} : thread'[y] = thread[y],
           \A p \in ps : ~Held(x, p)',
           \A p \in Ops \ ps :
              /\ p \in thread'[x].callbacks <=> p \in thread[x].callbacks
              /\ p \in Pending(thread'[x].clean_up) <=>
                    p \in Pending(thread[x].clean_up),
           thread[x].pc \notin {"start", "done"},
           thread'[x].pc \notin {"start", "done"},
           Flushing(x) => Flushing(x)',
           FlusherInv(x)'
    PROVE  IInv'
<1>1. \A y \in Threads :
         /\ thread'[y].pc = "start" <=> thread[y].pc = "start"
         /\ thread'[y].pc = "done" <=> thread[y].pc = "done"
  OBVIOUS
<1>2. ASSUME NEW p \in Ops \ ps PROVE Same(p)
  BY <1>1, Kinds DEF Same, queueVars
<1>3. ASSUME NEW p \in ps
      PROVE  /\ attempt'[p].calls = attempt[p].calls + 1
             /\ attempt'[p].request = attempt[p].request
             /\ attempt'[p].is_cancelled = attempt[p].is_cancelled
             /\ attempt'[p].status = attempt[p].status
             /\ attempt'[p].tuple = attempt[p].tuple
             /\ attempt'[p].result = attempt[p].result
             /\ attempt'[p].elements_requested = attempt[p].elements_requested
  <2>1. attempt[p] \in AttemptType
    BY Typed
  <2> DEFINE n == attempt[p].calls + 1
  <2>2. attempt'[p] = [attempt[p] EXCEPT !.calls = n]
    OBVIOUS
  <2> HIDE DEF n
  <2>3. /\ attempt'[p].calls = n
        /\ attempt'[p].request = attempt[p].request
        /\ attempt'[p].is_cancelled = attempt[p].is_cancelled
        /\ attempt'[p].status = attempt[p].status
        /\ attempt'[p].tuple = attempt[p].tuple
        /\ attempt'[p].result = attempt[p].result
        /\ attempt'[p].elements_requested = attempt[p].elements_requested
    BY <2>1, <2>2 DEF AttemptType
  <2> QED
    BY <2>3 DEF n
<1>4. ASSUME NEW p \in ps PROVE OpInv(p)'
  <2>1. OpInv(p) /\ Held(x, p) /\ p \in Threads
    BY Kinds DEF IInv
  <2>2. /\ attempt[p].calls = 0 /\ \A y \in Threads \ {x} : ~Held(y, p)
        /\ ~NoCallback(p) /\ ~Live(p)
    BY <2>1 DEF OpInv, CallbackInv
  <2>3. /\ Kind(p)' = Kind(p) /\ (NoCallback(p)' <=> NoCallback(p))
        /\ ~Live(p)'
    BY <1>1, <1>3, <2>1, <2>2 DEF Kind, NoCallback, Live, Listed, queueVars
  <2>4. \A y \in Threads : ~Held(y, p)'
    BY <2>2 DEF Held
  <2>5. CallbackInv(p)'
    BY <1>3, <2>2, <2>3, <2>4 DEF CallbackInv
  <2>6. Whole(p)'
    BY <1>3, <2>1, <2>3 DEF OpInv, AttemptInv, Whole, queueVars
  <2>7. AttemptInv(p)'
    BY <1>1, <1>3, <2>1, <2>3, <2>6 DEF OpInv, AttemptInv, queueVars
  <2> QED
    BY <2>5, <2>7 DEF OpInv
<1>5. \A p \in Ops : OpInv(p)'
  BY <1>2, <1>4, SameInv DEF IInv
<1>6. \A p \in Ops : /\ attempt'[p].is_cancelled = attempt[p].is_cancelled
                     /\ attempt'[p].tuple = attempt[p].tuple
  BY <1>3
<1> QED
  BY <1>5, <1>6, AsideInv

\* The callbacks that Cancel or CloseAndCancel has taken.
LEMMA CallCancelledStep ==
    ASSUME IInv, NEW x \in Threads, CallCancelled(x) PROVE IInv'
<1> DEFINE ps == thread[x].callbacks
           h == [thread[x] EXCEPT !.pc = "flush", !.callbacks = {}]
           c(p) == [attempt[p] EXCEPT !.calls = attempt[p].calls + 1]
<1>1. /\ thread[x].pc = "callbacks" /\ thread' = [thread EXCEPT ![x] = h]
      /\ attempt' = [p \in Ops |-> IF p \in ps THEN c(p) ELSE attempt[p]]
      /\ UNCHANGED <<queueVars, cm, rest>>
  BY DEF CallCancelled
<1>2. FlusherInv(x) /\ thread[x] \in ThreadType /\ ps \subseteq Ops
  BY DEF IInv, TypeOK, ThreadType
<1>3. /\ h \in ThreadType /\ h.pc = "flush" /\ h.callbacks = {}
      /\ h.clean_up = thread[x].clean_up
  BY <1>2 DEF ThreadType
<1> HIDE DEF h
<1>4. /\ thread' \in [Threads -> ThreadType] /\ thread'[x] = h
      /\ \A y \in Threads \ {x} : thread'[y] = thread[y]
  BY <1>1, <1>3 DEF IInv, TypeOK
<1>5. \A p \in Ops : attempt[p] \in AttemptType /\ c(p) \in AttemptType
  <2>1. ASSUME NEW p \in Ops PROVE attempt[p] \in AttemptType /\ c(p) \in AttemptType
    <3>1. attempt[p] \in AttemptType
      BY Typed
    <3>2. attempt[p].calls + 1 \in Nat
      BY <3>1 DEF AttemptType
    <3> QED
      BY <3>1, <3>2 DEF AttemptType
  <2> QED
    BY <2>1
<1> HIDE DEF c
<1>6. attempt' \in [Ops -> AttemptType]
  BY <1>1, <1>5
<1>7. TypeOK'
  BY <1>1, <1>4, <1>6 DEF IInv, TypeOK, queueVars, rest
<1>8. ASSUME NEW p \in ps PROVE Held(x, p) /\ ~Held(x, p)'
  <2>1. OpInv(p) /\ Held(x, p)
    BY <1>2 DEF IInv, Held
  <2>2. p \notin Pending(thread[x].clean_up)
    BY <2>1 DEF OpInv, CallbackInv
  <2> QED
    BY <1>3, <1>4, <2>1, <2>2 DEF Held
<1>9. FlusherInv(x)'
  BY <1>1, <1>2, <1>3, <1>4 DEF FlusherInv, queueVars
<1>10. /\ \A p \in ps : attempt'[p] = c(p)
       /\ \A p \in Ops \ ps : attempt'[p] = attempt[p]
  BY <1>1, <1>2
<1>11. Flushing(x)'
  BY <1>3, <1>4 DEF Flushing
<1> QED
  BY <1>1, <1>2, <1>3, <1>4, <1>7, <1>8, <1>9, <1>10, <1>11, CallsBack DEF c

\* finished() of the attempt in front of the clean-up list.
LEMMA FinishStep ==
    ASSUME IInv, NEW x \in Threads, thread[x].pc \in {"clean_up", "wait"},
           thread[x].clean_up # <<>>, Finish(x),
           cm' \in [Managers -> ManagerType], UNCHANGED <<queueVars, rest>>
    PROVE  IInv'
<1> DEFINE s == thread[x].clean_up
           h == [thread[x] EXCEPT !.pc = "clean_up", !.clean_up = Tail(s)]
<1>1. FlusherInv(x) /\ thread[x] \in ThreadType /\ s \in Seq(Ops)
  BY DEF IInv, TypeOK, ThreadType
<1>2. PICK o \in Ops :
         /\ o = Head(s) /\ o \in Pending(s) /\ Tail(s) \in Seq(Ops)
         /\ Pending(s) = Pending(Tail(s)) \cup {o}
         /\ Distinct(Tail(s)) /\ o \notin Pending(Tail(s))
  BY <1>1, PendingTail DEF FlusherInv
<1> DEFINE c == [attempt[o] EXCEPT !.calls = attempt[o].calls + 1]
<1>3. /\ h \in ThreadType /\ h.pc = "clean_up" /\ h.clean_up = Tail(s)
      /\ h.callbacks = thread[x].callbacks
  BY <1>1, <1>2 DEF ThreadType
<1>4. attempt' = [attempt EXCEPT ![o] = c] /\ thread' = [thread EXCEPT ![x] = h]
  BY <1>2 DEF Finish
<1>5. c \in AttemptType
  <2>1. attempt[o] \in AttemptType
    BY <1>2, Typed
  <2>2. attempt[o].calls + 1 \in Nat
    BY <2>1 DEF AttemptType
  <2> QED
    BY <2>1, <2>2 DEF AttemptType
<1> HIDE DEF h, c
<1>6. /\ thread' \in [Threads -> ThreadType] /\ thread'[x] = h
      /\ \A y \in Threads \ {x} : thread'[y] = thread[y]
  BY <1>3, <1>4 DEF IInv, TypeOK
<1>7. /\ attempt' \in [Ops -> AttemptType] /\ attempt'[o] = c
      /\ \A p \in Ops \ {o} : attempt'[p] = attempt[p]
  BY <1>2, <1>4, <1>5 DEF IInv, TypeOK
<1>8. TypeOK'
  BY <1>6, <1>7 DEF IInv, TypeOK, queueVars, rest
<1>9. Held(x, o) /\ ~Held(x, o)'
  <2>1. thread[x].callbacks = {}
    BY <1>1 DEF FlusherInv
  <2>2. o \in Pending(thread[x].clean_up) /\ o \notin Pending(thread'[x].clean_up)
    BY <1>2, <1>3, <1>6
  <2>3. thread'[x].callbacks = {}
    BY <1>3, <1>6, <2>1
  <2> QED
    BY <2>2, <2>3 DEF Held
<1>10. FlusherInv(x)'
  BY <1>1, <1>2, <1>3, <1>6 DEF FlusherInv, queueVars
<1>11. \A p \in Ops \ {o} :
          /\ p \in thread'[x].callbacks <=> p \in thread[x].callbacks
          /\ p \in Pending(thread'[x].clean_up) <=> p \in Pending(s)
  BY <1>2, <1>3, <1>6
<1>12. ~Flushing(x) /\ {o} \in SUBSET Ops
  BY <1>2 DEF Flushing
<1>13. /\ \A p \in {o} : Held(x, p) /\ ~Held(x, p)'
       /\ \A p \in {o} :
             attempt'[p] = [attempt[p] EXCEPT !.calls = attempt[p].calls + 1]
  BY <1>7, <1>9 DEF c
<1>14. thread[x].pc \notin {"start", "done"} /\ thread'[x].pc \notin {"start", "done"}
  BY <1>3, <1>6
<1> QED
  BY <1>6, <1>7, <1>8, <1>10, <1>11, <1>12, <1>13, <1>14, CallsBack

\* The clean-up of the attempt in front: deregister, and wait if need be.
LEMMA CleanUpSteps ==
    ASSUME IInv, NEW x \in Threads, CleanUp(x) \/ WaitForNotification(x)
    PROVE  IInv'
<1> DEFINE s == thread[x].clean_up
           o == Head(s)
           m == ManagerOf[o]
<1>1. /\ FlusherInv(x) /\ thread[x] \in ThreadType /\ s \in Seq(Ops)
      /\ cm \in [Managers -> ManagerType]
  BY DEF IInv, TypeOK, ThreadType
<1>2. /\ s # <<>> /\ thread[x].pc \in {"clean_up", "wait"}
      /\ UNCHANGED <<queueVars, rest>>
  BY <1>1 DEF CleanUp, WaitForNotification, FlusherInv
<1>3. m \in Managers
  BY <1>1, <1>2, PendingTail, Kinds
<1>4. CASE Finish(x) /\ UNCHANGED cm
  BY <1>1, <1>2, <1>4, FinishStep
<1>5. CASE /\ Finish(x)
           /\ cm' = [cm EXCEPT ![m] = DeregisterCallback(@, attempt[o].token)]
  <2>1. DeregisterCallback(cm[m], attempt[o].token) \in ManagerType
    BY <1>1, <1>3 DEF DeregisterCallback, ManagerType
  <2>2. cm' \in [Managers -> ManagerType]
    BY <1>1, <1>5, <2>1
  <2> QED
    BY <1>2, <1>5, <2>2, FinishStep
<1>6. CASE thread[x].pc = "clean_up" /\ Goto(x, "wait") /\ UNCHANGED <<attempt, cm>>
  <2>1. /\ thread' \in [Threads -> ThreadType]
        /\ \A y \in Threads \ {x} : thread'[y] = thread[y]
        /\ thread'[x].pc = "wait"
        /\ thread'[x].callbacks = thread[x].callbacks
        /\ thread'[x].clean_up = thread[x].clean_up
    BY <1>6, GotoFacts DEF Pcs
  <2>2. TypeOK'
    BY <1>2, <1>6, <2>1 DEF IInv, TypeOK, queueVars, rest
  <2>3. \A p \in Ops : Same(p)
    BY <1>2, <1>6, <2>1, Kinds DEF Same, queueVars
  <2>4. \A p \in Ops : OpInv(p)'
    BY <2>3, SameInv DEF IInv
  <2>5. FlusherInv(x)' /\ ~Flushing(x)
    BY <1>1, <1>2, <1>6, <2>1 DEF FlusherInv, Flushing, queueVars
  <2> QED
    BY <1>2, <1>6, <2>1, <2>2, <2>4, <2>5, AsideInv
<1> QED
  BY <1>4, <1>5, <1>6 DEF CleanUp, WaitForNotification

\* A call returns to its executor; CloseAndCancel calls its own callback.
LEMMA ReturnOpStep == ASSUME IInv, NEW o \in Ops, ReturnOp(o) PROVE IInv'
<1> DEFINE a == attempt[o]
           n == IF Kind(o) = "close_cancel" THEN a.calls + 1 ELSE a.calls
           b == [a EXCEPT !.calls = n]
<1>1. /\ thread[o].pc = "clean_up" /\ Goto(o, "done")
      /\ attempt' = [attempt EXCEPT ![o] = b]
      /\ UNCHANGED <<queueVars, cm, rest>>
  BY DEF ReturnOp
<1>2. /\ a \in AttemptType /\ OpInv(o) /\ FlusherInv(o) /\ o \in Threads
  BY Kinds DEF IInv, TypeOK
<1>3. n \in Nat
  BY <1>2 DEF AttemptType
<1>4. n = a.calls \/ (Kind(o) = "close_cancel" /\ n = a.calls + 1)
  OBVIOUS
<1>5. Kind(o) = "close_cancel" => n = a.calls + 1
  OBVIOUS
<1> HIDE DEF n
<1>6. /\ b \in AttemptType /\ b.calls = n /\ b.request = a.request
      /\ b.is_cancelled = a.is_cancelled /\ b.status = a.status
      /\ b.tuple = a.tuple /\ b.result = a.result
      /\ b.elements_requested = a.elements_requested
  BY <1>2, <1>3 DEF AttemptType
<1> HIDE DEF b
<1>7. /\ attempt' \in [Ops -> AttemptType] /\ attempt'[o] = b
      /\ \A p \in Ops \ {o} : attempt'[p] = attempt[p]
  BY <1>1, <1>6 DEF IInv, TypeOK
<1>8. /\ thread' \in [Threads -> ThreadType]
      /\ \A y \in Threads \ {o} : thread'[y] = thread[y]
      /\ thread'[o].pc = "done"
      /\ thread'[o].callbacks = thread[o].callbacks
      /\ thread'[o].clean_up = thread[o].clean_up
  BY <1>1, <1>2, GotoFacts DEF Pcs
<1>9. TypeOK'
  BY <1>1, <1>7, <1>8 DEF IInv, TypeOK, queueVars, rest
<1>10. \A p \in Ops \ {o} : Same(p)
  BY <1>1, <1>7, <1>8, Kinds DEF Same, queueVars
<1>11. /\ \A x \in Threads : Held(x, o)' <=> Held(x, o)
       /\ Listed(o)' <=> Listed(o)
       /\ Live(o)' <=> Live(o)
       /\ Kind(o)' = Kind(o)
  BY <1>1, <1>6, <1>7, <1>8 DEF Held, Listed, Live, Kind, queueVars
<1>12. Kind(o) # "none" /\ ~NoCallback(o)'
  BY <1>1, <1>2, <1>8, <1>11 DEF NoCallback, OpInv, AttemptInv
<1>13. CallbackInv(o)'
  <2>1. CASE Kind(o) = "close_cancel"
    <3>1. NoCallback(o)
      BY <1>1, <2>1 DEF NoCallback
    <3>2. /\ a.calls = 0 /\ ~Listed(o) /\ \A x \in Threads : ~Held(x, o)
          /\ attempt'[o].calls = 1
      BY <1>2, <1>5, <1>6, <1>7, <2>1, <3>1 DEF OpInv, CallbackInv
    <3> QED
      BY <1>11, <1>12, <3>2 DEF CallbackInv, Live
  <2>2. CASE Kind(o) # "close_cancel"
    <3>1. ~NoCallback(o) /\ attempt'[o].calls = a.calls
      BY <1>4, <1>6, <1>7, <1>12, <2>2 DEF NoCallback
    <3>2. /\ \A x \in Threads :
                 o \in thread'[x].callbacks <=> o \in thread[x].callbacks
          /\ \A x \in Threads : o \in Pending(thread'[x].clean_up) <=>
                                o \in Pending(thread[x].clean_up)
      BY <1>8
    <3> QED
      BY <1>2, <1>11, <1>12, <3>1, <3>2 DEF OpInv, CallbackInv
  <2> QED
    BY <2>1, <2>2
<1>14. AttemptInv(o)'
  <2>1. Kind(o) = "close_cancel" => Whole(o)'
    BY <1>11 DEF Whole
  <2>2. Kind(o) # "close_cancel" => attempt'[o].calls = a.calls
    BY <1>4, <1>6, <1>7
  <2>3. Whole(o) => Whole(o)'
    BY <1>1, <1>6, <1>7, <1>11 DEF Whole, queueVars
  <2>4. Pending(enqueue_attempts') = Pending(enqueue_attempts) /\
        Pending(dequeue_attempts') = Pending(dequeue_attempts)
    BY <1>1 DEF queueVars
  <2>5. attempt'[o].calls = 1 \/ (\E x \in Threads : Held(x, o)') => Whole(o)'
    BY <1>2, <1>11, <2>1, <2>2, <2>3 DEF OpInv, AttemptInv
  <2> QED
    BY <1>2, <1>6, <1>7, <1>8, <1>11, <1>12, <2>4, <2>5
       DEF OpInv, AttemptInv, DequeueKinds
<1>15. \A p \in Ops : OpInv(p)'
  BY <1>10, <1>13, <1>14, SameInv DEF IInv, OpInv
<1>16. FlusherInv(o)' /\ ~Flushing(o)
  BY <1>1, <1>2, <1>8 DEF FlusherInv, Flushing, queueVars
<1>17. \A p \in Ops : /\ attempt'[p].is_cancelled = attempt[p].is_cancelled
                      /\ attempt'[p].tuple = attempt[p].tuple
  BY <1>6, <1>7
<1> QED
  BY <1>1, <1>2, <1>8, <1>9, <1>15, <1>16, <1>17, AsideInv

-----------------------------------------------------------------------------
(* Inside the flush. *)

\* The enqueue phase ends when the front enqueue cannot run.
LEMMA EnqueuePhaseEndsStep ==
    ASSUME IInv, NEW x \in Threads, EnqueuePhaseEnds(x) PROVE IInv'
<1>1. /\ thread[x].pc = "enqueue" /\ Goto(x, "dequeue")
      /\ enqueue_attempts # <<>> => ~closed
      /\ EnqueueStuck
      /\ UNCHANGED <<queueVars, attempt, cm, rest>>
  BY DEF EnqueuePhaseEnds, EnqueueStuck
<1>2. /\ thread' \in [Threads -> ThreadType]
      /\ \A y \in Threads \ {x} : thread'[y] = thread[y]
      /\ thread'[x].pc = "dequeue"
      /\ thread'[x].callbacks = thread[x].callbacks
      /\ thread'[x].clean_up = thread[x].clean_up
  BY <1>1, GotoFacts DEF Pcs
<1>3. TypeOK'
  BY <1>1, <1>2 DEF IInv, TypeOK, queueVars, rest
<1>4. \A p \in Ops : Same(p)
  BY <1>1, <1>2, Kinds DEF Same, queueVars
<1>5. \A p \in Ops : OpInv(p)'
  BY <1>4, SameInv DEF IInv
<1>6. EnqueueStuck'
  BY <1>1 DEF EnqueueStuck, queueVars
<1>7. FlusherInv(x)' /\ Flushing(x)'
  BY <1>1, <1>2, <1>6 DEF IInv, FlusherInv, Flushing, queueVars
<1> QED
  BY <1>1, <1>2, <1>3, <1>5, <1>7, AsideInv

\* A thread takes mu_ and starts a round.
LEMMA LockStep == ASSUME IInv, NEW x \in Threads, Lock(x) PROVE IInv'
<1> DEFINE h == [thread[x] EXCEPT !.pc = "enqueue", !.changed = FALSE]
<1>1. /\ thread[x].pc = "flush" /\ mu = {} /\ mu' = {x}
      /\ thread' = [thread EXCEPT ![x] = h]
      /\ UNCHANGED <<queue, closed, enqueue_attempts, dequeue_attempts, attempt,
                     cm, rest>>
  BY DEF Lock
<1>2. /\ h \in ThreadType /\ h.pc = "enqueue"
      /\ h.callbacks = thread[x].callbacks /\ h.clean_up = thread[x].clean_up
  BY Typed DEF ThreadType
<1> HIDE DEF h
<1>3. /\ thread' \in [Threads -> ThreadType] /\ thread'[x] = h
      /\ \A y \in Threads \ {x} : thread'[y] = thread[y]
  BY <1>1, <1>2 DEF IInv, TypeOK
<1>4. TypeOK'
  BY <1>1, <1>3 DEF IInv, TypeOK, rest
<1>5. \A p \in Ops : Same(p)
  BY <1>1, <1>2, <1>3, Kinds DEF Same
<1>6. \A p \in Ops : OpInv(p)'
  BY <1>5, SameInv DEF IInv
<1>7. FlusherInv(x)' /\ Flushing(x)'
  BY <1>1, <1>2, <1>3 DEF IInv, FlusherInv, Flushing
<1>8. ListInv' /\ FIFOOrder'
  BY <1>1 DEF IInv, ListInv, FIFOOrder, PartialTuple, rest
<1> QED
  BY <1>1, <1>3, <1>4, <1>6, <1>7, <1>8, BusyInv

\* The front of the enqueues leaves its list.
LEMMA EnqueueLeaves ==
    ASSUME IInv, NEW o \in Ops, enqueue_attempts # <<>>,
           o = Head(enqueue_attempts), enqueue_attempts' = Tail(enqueue_attempts),
           UNCHANGED dequeue_attempts,
           \A p \in Ops \ {o} : attempt'[p] = attempt[p]
    PROVE  /\ o \in Pending(enqueue_attempts) /\ o \notin Pending(dequeue_attempts)
           /\ enqueue_attempts' \in Seq(Ops)
           /\ o \notin Pending(enqueue_attempts')
           /\ Pending(enqueue_attempts) = Pending(enqueue_attempts') \cup {o}
           /\ ListInv' /\ PartialTuple' = PartialTuple
<1>1. /\ enqueue_attempts \in Seq(Ops) /\ dequeue_attempts \in Seq(Ops) /\ ListInv
  BY DEF IInv, TypeOK
<1>2. /\ o \in Pending(enqueue_attempts)
      /\ enqueue_attempts' \in Seq(Ops)
      /\ Distinct(enqueue_attempts')
      /\ o \notin Pending(enqueue_attempts')
      /\ Pending(enqueue_attempts) = Pending(enqueue_attempts') \cup {o}
  BY <1>1, PendingTail DEF ListInv
<1>3. o \notin Pending(dequeue_attempts)
  BY <1>1, <1>2 DEF ListInv
<1>4. \A i \in 1..Len(dequeue_attempts) : dequeue_attempts[i] \in Ops \ {o}
  BY <1>1, <1>3, ElementOfSeq DEF Pending
<1>5. \A i \in 2..Len(dequeue_attempts) : i \in 1..Len(dequeue_attempts)
  BY <1>1
<1>6. ListInv'
  BY <1>1, <1>2, <1>4, <1>5 DEF ListInv
<1>7. dequeue_attempts # <<>> => Head(dequeue_attempts) \in Ops \ {o}
  BY <1>1, <1>3, PendingTail
<1>8. PartialTuple' = PartialTuple
  BY <1>7 DEF PartialTuple
<1> QED
  BY <1>2, <1>3, <1>6, <1>8

\* The front of the dequeues leaves its list; the next has taken nothing.
LEMMA DequeueLeaves ==
    ASSUME IInv, NEW o \in Ops, dequeue_attempts # <<>>,
           o = Head(dequeue_attempts), dequeue_attempts' = Tail(dequeue_attempts),
           UNCHANGED enqueue_attempts,
           \A p \in Ops \ {o} : attempt'[p] = attempt[p]
    PROVE  /\ o \in Pending(dequeue_attempts) /\ o \notin Pending(enqueue_attempts)
           /\ dequeue_attempts' \in Seq(Ops)
           /\ o \notin Pending(dequeue_attempts')
           /\ Pending(dequeue_attempts) = Pending(dequeue_attempts') \cup {o}
           /\ ListInv' /\ PartialTuple' = <<>> /\ PartialTuple = attempt[o].tuple
<1> DEFINE d == dequeue_attempts
           t == Tail(dequeue_attempts)
<1>1. /\ enqueue_attempts \in Seq(Ops) /\ d \in Seq(Ops) /\ ListInv
  BY DEF IInv, TypeOK
<1>2. /\ o \in Pending(d) /\ d[1] = o /\ Len(t) = Len(d) - 1
      /\ t \in Seq(Ops) /\ Distinct(t)
      /\ o \notin Pending(t)
      /\ Pending(d) = Pending(t) \cup {o}
      /\ \A i \in 1..Len(t) : t[i] = d[i + 1]
  BY <1>1, PendingTail DEF ListInv
<1> HIDE DEF t
<1>3. o \notin Pending(enqueue_attempts)
  BY <1>1, <1>2 DEF ListInv
<1>4. \A i \in 1..Len(t) : t[i] \in Ops \ {o}
  BY <1>2, ElementOfSeq DEF Pending
<1>5. \A i \in 1..Len(t) : attempt'[t[i]].tuple = <<>>
  <2>1. \A i \in 1..Len(t) : i + 1 \in 2..Len(d)
    BY <1>1, <1>2
  <2>2. ASSUME NEW i \in 1..Len(t) PROVE attempt[t[i]].tuple = <<>>
    <3>1. t[i] = d[i + 1] /\ i + 1 \in 2..Len(d)
      BY <1>2, <2>1
    <3>2. attempt[d[i + 1]].tuple = <<>>
      BY <1>1, <3>1 DEF ListInv
    <3> QED
      BY <3>1, <3>2
  <2> QED
    BY <1>4, <2>2
<1>6. dequeue_attempts' = t
  BY DEF t
<1>7. ListInv'
  <2>1. \A i \in 2..Len(t) : i \in 1..Len(t)
    BY <1>2
  <2> QED
    BY <1>1, <1>2, <1>5, <1>6, <2>1 DEF ListInv
<1>8. PartialTuple' = <<>>
  <2>1. t # <<>> => 1 \in 1..Len(t) /\ Head(t) = t[1]
    BY <1>2, EmptySeq
  <2> QED
    BY <1>5, <1>6, <2>1 DEF PartialTuple
<1> QED
  BY <1>2, <1>3, <1>6, <1>7, <1>8 DEF PartialTuple

\* A flush drops attempt o, or completes it and keeps its callback.
LEMMA LeavesInv ==
    ASSUME IInv, NEW x \in Threads, NEW o \in Ops, Listed(o),
           Pending(enqueue_attempts') = Pending(enqueue_attempts) \ {o},
           Pending(dequeue_attempts') = Pending(dequeue_attempts) \ {o},
           \A p \in Ops \ {o} : attempt'[p] = attempt[p],
           \A y \in Threads \ {x} : thread'[y] = thread[y],
           thread[x].pc \in {"enqueue", "dequeue"},
           thread'[x].pc \in {"enqueue", "dequeue"},
           thread'[x].callbacks = thread[x].callbacks,
           \/ ~Live(o) /\ attempt' = attempt /\ thread' = thread
           \/ /\ Live(o)
              /\ thread'[x].clean_up = Append(thread[x].clean_up, o)
              /\ attempt'[o].request = attempt[o].request
              /\ attempt'[o].calls = attempt[o].calls
              /\ Kind(o) \notin DequeueKinds =>
                    attempt'[o].result = attempt[o].result
              /\ Whole(o)',
           closed => closed'
    PROVE  /\ \A p \in Ops : OpInv(p)'
           /\ Distinct(thread'[x].clean_up)
<1>1. /\ OpInv(o) /\ FlusherInv(x) /\ thread[x] \in ThreadType /\ o \in Threads
  BY Kinds DEF IInv, TypeOK
<1>2. /\ thread[x].clean_up \in Seq(Ops) /\ thread[x].callbacks = {}
      /\ Distinct(thread[x].clean_up)
  BY <1>1 DEF ThreadType, FlusherInv
<1>3. ~NoCallback(o) /\ Kind(o) # "none"
  BY <1>1 DEF OpInv, CallbackInv, NoCallback
<1>4. ~Listed(o)' /\ ~Live(o)'
  BY DEF Listed, Live
<1>5. \A y \in Threads :
         /\ thread'[y].pc = "start" <=> thread[y].pc = "start"
         /\ thread'[y].pc = "done" <=> thread[y].pc = "done"
  OBVIOUS
<1>6. CASE ~Live(o) /\ attempt' = attempt /\ thread' = thread
  <2>1. \A p \in Ops \ {o} : Same(p)
    BY <1>6 DEF Same
  <2>2. /\ Kind(o)' = Kind(o) /\ ~NoCallback(o)'
        /\ \A y \in Threads : Held(y, o)' <=> Held(y, o)
    BY <1>3, <1>6 DEF Kind, NoCallback, Held
  <2>3. CallbackInv(o)'
    BY <1>1, <1>3, <1>4, <1>6, <2>2 DEF OpInv, CallbackInv
  <2>4. Whole(o) => Whole(o)'
    BY <1>6, <2>2 DEF Whole
  <2>5. AttemptInv(o)'
    BY <1>1, <1>3, <1>6, <2>2, <2>4 DEF OpInv, AttemptInv
  <2> QED
    BY <1>2, <1>6, <2>1, <2>3, <2>5, SameInv DEF IInv, OpInv
<1>7. CASE /\ Live(o)
           /\ thread'[x].clean_up = Append(thread[x].clean_up, o)
           /\ attempt'[o].request = attempt[o].request
           /\ attempt'[o].calls = attempt[o].calls
           /\ Kind(o) \notin DequeueKinds => attempt'[o].result = attempt[o].result
           /\ Whole(o)'
  <2>1. attempt[o].calls = 0 /\ \A y \in Threads : ~Held(y, o)
    BY <1>1, <1>7 DEF OpInv, CallbackInv
  <2>2. /\ Pending(thread'[x].clean_up) = Pending(thread[x].clean_up) \cup {o}
        /\ Distinct(thread'[x].clean_up)
    BY <1>2, <1>7, <2>1, PendingAppend DEF Held
  <2>3. \A p \in Ops \ {o} : Same(p)
    BY <1>5, <2>2, Kinds DEF Same
  <2>4. Kind(o)' = Kind(o) /\ ~NoCallback(o)'
    BY <1>1, <1>3, <1>5, <1>7 DEF Kind, NoCallback
  <2>5. \A y \in Threads : Held(y, o)' <=> y = x
    BY <2>1, <2>2 DEF Held
  <2>6. o \notin thread'[x].callbacks
    BY <1>2
  <2>7. CallbackInv(o)'
    BY <1>4, <1>7, <2>1, <2>4, <2>5, <2>6 DEF CallbackInv
  <2>8. AttemptInv(o)'
    <3>1. thread'[o].pc = "start" <=> Kind(o)' = "none"
      BY <1>1, <1>5, <2>4 DEF OpInv, AttemptInv
    <3>2. o \notin Pending(enqueue_attempts') /\ o \notin Pending(dequeue_attempts')
      OBVIOUS
    <3>3. Kind(o)' \notin DequeueKinds => attempt'[o].result = <<>>
      BY <1>1, <1>7, <2>4 DEF OpInv, AttemptInv
    <3> QED
      BY <1>3, <1>7, <2>4, <3>1, <3>2, <3>3 DEF AttemptInv
  <2> QED
    BY <2>2, <2>3, <2>7, <2>8, SameInv DEF IInv, OpInv
<1> QED
  BY <1>6, <1>7

\* The thread inside the flush is the one that has mu_.
LEMMA HasLock ==
    ASSUME IInv, NEW x \in Threads, thread[x].pc \in {"enqueue", "dequeue"}
    PROVE  mu = {x}
  BY DEF IInv, FlusherInv, LockInv

\* A cancelled attempt in front is dropped.
LEMMA SkipCancelledSteps ==
    ASSUME IInv, NEW x \in Threads,
           SkipCancelledEnqueue(x) \/ SkipCancelledDequeue(x)
    PROVE  IInv'
<1>1. /\ enqueue_attempts \in Seq(Ops) /\ dequeue_attempts \in Seq(Ops)
      /\ FlusherInv(x) /\ FIFOOrder
      /\ queue \in Seq(Element) /\ consumed \in Seq(Element)
      /\ attempt \in [Ops -> AttemptType]
  BY DEF IInv, TypeOK
<1>2. CASE SkipCancelledEnqueue(x)
  <2>1. /\ thread[x].pc = "enqueue" /\ enqueue_attempts # <<>>
        /\ attempt[Head(enqueue_attempts)].is_cancelled
        /\ enqueue_attempts' = Tail(enqueue_attempts)
        /\ UNCHANGED <<queue, closed, dequeue_attempts, attempt, cm, mu, thread,
                       rest>>
    BY <1>2 DEF SkipCancelledEnqueue
  <2>2. PICK o \in Ops : o = Head(enqueue_attempts)
    BY <1>1, <2>1, PendingTail
  <2>3. /\ o \in Pending(enqueue_attempts) /\ o \notin Pending(dequeue_attempts)
        /\ enqueue_attempts' \in Seq(Ops)
        /\ o \notin Pending(enqueue_attempts')
        /\ Pending(enqueue_attempts) = Pending(enqueue_attempts') \cup {o}
        /\ ListInv' /\ PartialTuple' = PartialTuple
    BY <2>1, <2>2, EnqueueLeaves
  <2>4. /\ Listed(o) /\ ~Live(o)
        /\ Pending(enqueue_attempts') = Pending(enqueue_attempts) \ {o}
        /\ Pending(dequeue_attempts') = Pending(dequeue_attempts) \ {o}
    BY <2>1, <2>2, <2>3 DEF Listed, Live
  <2>5. \A p \in Ops : OpInv(p)'
    BY <2>1, <2>4, LeavesInv
  <2>6. TypeOK'
    BY <2>1, <2>3 DEF IInv, TypeOK, rest
  <2>7. FIFOOrder'
    BY <1>1, <2>1, <2>3 DEF FIFOOrder, rest
  <2>8. FlusherInv(x)' /\ Flushing(x)'
    BY <1>1, <2>1 DEF FlusherInv, Flushing
  <2>9. mu = {x}
    BY <2>1, HasLock
  <2> QED
    BY <2>1, <2>3, <2>5, <2>6, <2>7, <2>8, <2>9, BusyInv
<1>3. CASE SkipCancelledDequeue(x)
  <2>1. /\ thread[x].pc = "dequeue" /\ dequeue_attempts # <<>>
        /\ attempt[Head(dequeue_attempts)].is_cancelled
        /\ dequeue_attempts' = Tail(dequeue_attempts)
        /\ consumed' = consumed \o attempt[Head(dequeue_attempts)].tuple
        /\ UNCHANGED <<queue, closed, enqueue_attempts, attempt, cm, mu, thread,
                       entered, specified_shapes>>
    BY <1>3 DEF SkipCancelledDequeue
  <2>2. PICK o \in Ops : o = Head(dequeue_attempts)
    BY <1>1, <2>1, PendingTail
  <2>3. /\ o \in Pending(dequeue_attempts) /\ o \notin Pending(enqueue_attempts)
        /\ dequeue_attempts' \in Seq(Ops)
        /\ o \notin Pending(dequeue_attempts')
        /\ Pending(dequeue_attempts) = Pending(dequeue_attempts') \cup {o}
        /\ ListInv' /\ PartialTuple' = <<>> /\ PartialTuple = attempt[o].tuple
    BY <2>1, <2>2, DequeueLeaves
  <2>4. /\ Listed(o) /\ ~Live(o)
        /\ Pending(enqueue_attempts') = Pending(enqueue_attempts) \ {o}
        /\ Pending(dequeue_attempts') = Pending(dequeue_attempts) \ {o}
    BY <2>1, <2>2, <2>3 DEF Listed, Live
  <2>5. \A p \in Ops : OpInv(p)'
    BY <2>1, <2>4, LeavesInv
  <2>6. attempt[o].tuple \in Seq(Element)
    BY <1>1 DEF AttemptType
  <2>7. consumed' \in Seq(Element) /\ consumed' \o <<>> = consumed'
    BY <1>1, <2>1, <2>2, <2>6, ConcatProperties, ConcatEmptySeq
  <2>8. TypeOK'
    BY <2>1, <2>3, <2>7 DEF IInv, TypeOK
  <2>9. FIFOOrder'
    BY <1>1, <2>1, <2>2, <2>3, <2>7 DEF FIFOOrder
  <2>10. FlusherInv(x)' /\ Flushing(x)'
    BY <1>1, <2>1 DEF FlusherInv, Flushing, EnqueueStuck
  <2>11. mu = {x}
    BY <2>1, HasLock
  <2> QED
    BY <2>1, <2>3, <2>5, <2>8, <2>9, <2>10, <2>11, BusyInv
<1> QED
  BY <1>2, <1>3

\* Thread x runs attempt o, the front of a list, to its end.
LEMMA Completes ==
    ASSUME IInv, NEW x \in Threads, NEW o \in Ops, NEW b \in AttemptType,
           attempt' = [attempt EXCEPT ![o] = b],
           b.request = attempt[o].request, b.calls = attempt[o].calls,
           Kind(o) \notin DequeueKinds => b.result = attempt[o].result,
           \/ /\ RunsEnqueue(x, o) /\ Completed(x, o, "enqueue")
              /\ enqueue_attempts' = Tail(enqueue_attempts)
              /\ UNCHANGED dequeue_attempts
              /\ closed => closed'
           \/ /\ RunsDequeue(x, o) /\ Completed(x, o, "dequeue")
              /\ dequeue_attempts' = Tail(dequeue_attempts)
              /\ UNCHANGED <<enqueue_attempts, closed>>,
           closed' \in BOOLEAN, queue' \in Seq(Element),
           entered' \in Seq(Element), consumed' \in Seq(Element),
           UNCHANGED <<cm, mu, specified_shapes>>,
           Whole(o)', FIFOOrder'
    PROVE  IInv'
<1> DEFINE l == thread[x].pc
           h == [thread[x] EXCEPT !.pc = l, !.changed = TRUE,
                                  !.clean_up = Append(thread[x].clean_up, o)]
<1>1. /\ FlusherInv(x) /\ thread[x] \in ThreadType
      /\ thread[x].clean_up \in Seq(Ops)
  BY DEF IInv, TypeOK, ThreadType
<1>2. l \in {"enqueue", "dequeue"} /\ thread' = [thread EXCEPT ![x] = h]
  BY DEF RunsEnqueue, RunsDequeue, Completed
<1>3. Append(thread[x].clean_up, o) \in Seq(Ops)
  BY <1>1, PendingAppend
<1>4. /\ h \in ThreadType /\ h.pc = l /\ h.changed = TRUE
      /\ h.callbacks = thread[x].callbacks
      /\ h.clean_up = Append(thread[x].clean_up, o)
  BY <1>1, <1>2, <1>3 DEF ThreadType
<1> HIDE DEF h
<1>5. /\ thread' \in [Threads -> ThreadType] /\ thread'[x] = h
      /\ \A y \in Threads \ {x} : thread'[y] = thread[y]
  BY <1>2, <1>4 DEF IInv, TypeOK
<1>6. /\ attempt' \in [Ops -> AttemptType] /\ attempt'[o] = b
      /\ \A p \in Ops \ {o} : attempt'[p] = attempt[p]
  BY DEF IInv, TypeOK
<1>7. /\ Live(o) /\ ListInv'
      /\ enqueue_attempts' \in Seq(Ops) /\ dequeue_attempts' \in Seq(Ops)
      /\ Pending(enqueue_attempts') = Pending(enqueue_attempts) \ {o}
      /\ Pending(dequeue_attempts') = Pending(dequeue_attempts) \ {o}
  <2>1. CASE /\ RunsEnqueue(x, o) /\ enqueue_attempts' = Tail(enqueue_attempts)
             /\ UNCHANGED dequeue_attempts
    <3>1. /\ enqueue_attempts # <<>> /\ o = Head(enqueue_attempts)
          /\ ~attempt[o].is_cancelled
      BY <2>1 DEF RunsEnqueue
    <3>2. /\ o \in Pending(enqueue_attempts) /\ o \notin Pending(dequeue_attempts)
          /\ enqueue_attempts' \in Seq(Ops) /\ ListInv'
          /\ o \notin Pending(enqueue_attempts')
          /\ Pending(enqueue_attempts) = Pending(enqueue_attempts') \cup {o}
      BY <1>6, <2>1, <3>1, EnqueueLeaves
    <3> QED
      BY <2>1, <3>1, <3>2 DEF IInv, TypeOK, Live, Listed
  <2>2. CASE /\ RunsDequeue(x, o) /\ dequeue_attempts' = Tail(dequeue_attempts)
             /\ UNCHANGED enqueue_attempts
    <3>1. /\ dequeue_attempts # <<>> /\ o = Head(dequeue_attempts)
          /\ ~attempt[o].is_cancelled
      BY <2>2 DEF RunsDequeue
    <3>2. /\ o \in Pending(dequeue_attempts) /\ o \notin Pending(enqueue_attempts)
          /\ dequeue_attempts' \in Seq(Ops) /\ ListInv'
          /\ o \notin Pending(dequeue_attempts')
          /\ Pending(dequeue_attempts) = Pending(dequeue_attempts') \cup {o}
      BY <1>6, <2>2, <3>1, DequeueLeaves
    <3> QED
      BY <2>2, <3>1, <3>2 DEF IInv, TypeOK, Live, Listed
  <2> QED
    BY <2>1, <2>2
<1>8. TypeOK'
  BY <1>5, <1>6, <1>7 DEF IInv, TypeOK
<1>9. (\A p \in Ops : OpInv(p)') /\ Distinct(thread'[x].clean_up)
  <2>1. /\ thread'[x].pc \in {"enqueue", "dequeue"}
        /\ thread'[x].callbacks = thread[x].callbacks
        /\ thread'[x].clean_up = Append(thread[x].clean_up, o)
        /\ attempt'[o].request = attempt[o].request
        /\ attempt'[o].calls = attempt[o].calls
        /\ Kind(o) \notin DequeueKinds => attempt'[o].result = attempt[o].result
        /\ closed => closed'
        /\ Listed(o)
    BY <1>2, <1>4, <1>5, <1>6, <1>7 DEF Live
  <2> QED
    BY <1>2, <1>5, <1>6, <1>7, <2>1, LeavesInv
<1>10. mu = {x}
  BY <1>2, HasLock
<1>11. FlusherInv(x)'
  <2>1. /\ thread'[x].callbacks = {} /\ thread'[x].pc = l
        /\ thread'[x].changed = TRUE /\ x \in mu'
    BY <1>1, <1>2, <1>4, <1>5, <1>10 DEF FlusherInv
  <2>2. l = "dequeue" => (closed' => enqueue_attempts' = <<>>)
    BY <1>1 DEF FlusherInv, RunsEnqueue
  <2> QED
    BY <1>2, <1>9, <2>1, <2>2 DEF FlusherInv
<1>12. Flushing(x)'
  BY <1>2, <1>4, <1>5 DEF Flushing
<1> QED
  BY <1>5, <1>7, <1>8, <1>9, <1>10, <1>11, <1>12, BusyInv

\* Thread x runs attempt o, which stays in front with the rest of its batch.
LEMMA Continues ==
    ASSUME IInv, NEW x \in Threads, NEW o \in Ops, NEW b \in AttemptType,
           NEW h \in ThreadType, Live(o),
           attempt' = [attempt EXCEPT ![o] = b],
           b.request = attempt[o].request, b.calls = attempt[o].calls,
           b.is_cancelled = attempt[o].is_cancelled,
           b.result = attempt[o].result,
           o \in Pending(enqueue_attempts) =>
              /\ b.tuple = attempt[o].tuple
              /\ b.elements_requested \in 1..b.request.n,
           o \in Pending(dequeue_attempts) =>
              /\ o = Head(dequeue_attempts)
              /\ b.elements_requested > 0
              /\ b.elements_requested + Len(b.tuple) = b.request.n,
           thread' = [thread EXCEPT ![x] = h],
           h.callbacks = thread[x].callbacks, h.clean_up = thread[x].clean_up,
           thread[x].pc \in {"enqueue", "dequeue"},
           h.pc \in {"enqueue", "dequeue"},
           h.pc = "dequeue" => h.changed /\ ~closed,
           queue' \in Seq(Element),
           entered' \in Seq(Element), consumed' \in Seq(Element),
           UNCHANGED <<closed, enqueue_attempts, dequeue_attempts, cm, mu,
                       specified_shapes>>,
           FIFOOrder'
    PROVE  IInv'
<1>1. /\ FlusherInv(x) /\ OpInv(o) /\ o \in Threads /\ ListInv
      /\ dequeue_attempts \in Seq(Ops)
  BY Kinds DEF IInv, TypeOK
<1>2. /\ thread' \in [Threads -> ThreadType] /\ thread'[x] = h
      /\ \A y \in Threads \ {x} : thread'[y] = thread[y]
  BY DEF IInv, TypeOK
<1>3. /\ attempt' \in [Ops -> AttemptType] /\ attempt'[o] = b
      /\ \A p \in Ops \ {o} : attempt'[p] = attempt[p]
  BY DEF IInv, TypeOK
<1>4. TypeOK'
  BY <1>2, <1>3 DEF IInv, TypeOK
<1>5. \A p \in Ops \ {o} : Same(p)
  BY <1>2, <1>3, Kinds DEF Same
<1>6. /\ Kind(o)' = Kind(o) /\ (NoCallback(o)' <=> NoCallback(o))
      /\ Live(o)' /\ Listed(o) /\ Listed(o)'
      /\ \A y \in Threads : Held(y, o)' <=> Held(y, o)
  BY <1>1, <1>2, <1>3 DEF Kind, NoCallback, Live, Listed, Held
<1>7. attempt[o].calls = 0 /\ (\A y \in Threads : ~Held(y, o)) /\ ~NoCallback(o)
  BY <1>1, <1>6 DEF OpInv, CallbackInv
<1>8. CallbackInv(o)'
  BY <1>3, <1>6, <1>7 DEF CallbackInv
<1>9. AttemptInv(o)'
  <2>1. attempt'[o].calls # 1 /\ \A y \in Threads : ~Held(y, o)'
    BY <1>3, <1>6, <1>7
  <2>2. Kind(o) # "none" /\ (thread'[o].pc = "start" <=> thread[o].pc = "start")
    BY <1>1, <1>2, <1>7 DEF NoCallback
  <2> QED
    BY <1>1, <1>3, <1>6, <2>1, <2>2 DEF OpInv, AttemptInv
<1>10. \A p \in Ops : OpInv(p)'
  BY <1>5, <1>8, <1>9, SameInv DEF IInv, OpInv
<1>11. ListInv'
  <2>1. ASSUME NEW i \in 2..Len(dequeue_attempts)
        PROVE  attempt'[dequeue_attempts[i]].tuple = <<>>
    <3>1. /\ i \in DOMAIN dequeue_attempts /\ i # 1 /\ 1 \in DOMAIN dequeue_attempts
          /\ dequeue_attempts[i] \in Ops
          /\ Head(dequeue_attempts) = dequeue_attempts[1]
      BY <1>1, ElementOfSeq
    <3>2. attempt[dequeue_attempts[i]].tuple = <<>>
      BY <1>1 DEF ListInv
    <3>3. CASE dequeue_attempts[i] = o
      <4>1. o \in Pending(dequeue_attempts)
        BY <3>1, <3>3 DEF Pending
      <4>2. o = dequeue_attempts[1]
        BY <3>1, <4>1
      <4> QED
        BY <1>1, <3>1, <3>3, <4>2 DEF ListInv, Distinct
    <3> QED
      BY <1>3, <3>1, <3>2, <3>3
  <2> QED
    BY <1>1, <2>1 DEF ListInv
<1>12. mu = {x} /\ mu' = {x}
  BY HasLock
<1>13. FlusherInv(x)' /\ Flushing(x)'
  BY <1>1, <1>2, <1>12 DEF FlusherInv, Flushing
<1> QED
  BY <1>2, <1>4, <1>10, <1>11, <1>12, <1>13, BusyInv

\* A Close, and an enqueue that finds the queue closed.
LEMMA EnqueueEndsSteps ==
    ASSUME IInv, NEW x \in Threads, NEW o \in Ops,
           RunClose(x, o) \/ EnqueueOnClosed(x, o)
    PROVE  IInv'
<1> DEFINE a == attempt[o]
           st == IF Kind(o) = "enqueue" \/ closed
                 THEN SetStatus(o, "Cancelled") ELSE a.status
           b == [a EXCEPT !.status = st]
<1>1. /\ RunsEnqueue(x, o) /\ Completed(x, o, "enqueue")
      /\ Kind(o) \in {"enqueue", "close"}
      /\ enqueue_attempts' = Tail(enqueue_attempts)
      /\ UNCHANGED <<queue, dequeue_attempts, cm, mu, rest>>
      /\ closed' = TRUE \/ UNCHANGED closed
      /\ attempt' = [attempt EXCEPT ![o] = b]
  BY DEF RunClose, EnqueueOnClosed
<1>2. /\ a \in AttemptType /\ FIFOOrder /\ closed \in BOOLEAN
      /\ queue \in Seq(Element) /\ entered \in Seq(Element)
      /\ consumed \in Seq(Element)
  BY DEF IInv, TypeOK
<1>3. st \in {"OK", "Cancelled", "OutOfRange", "InvalidArgument"}
  BY <1>2 DEF SetStatus, AttemptType
<1> HIDE DEF st
<1>4. /\ b \in AttemptType /\ b.request = a.request /\ b.calls = a.calls
      /\ b.result = a.result
  BY <1>2, <1>3 DEF AttemptType
<1> HIDE DEF b
<1>5. /\ attempt'[o] = b /\ \A p \in Ops \ {o} : attempt'[p] = attempt[p]
  BY <1>1, <1>4 DEF IInv, TypeOK
<1>6. PartialTuple' = PartialTuple
  BY <1>1, <1>5, EnqueueLeaves DEF RunsEnqueue
<1>7. FIFOOrder'
  BY <1>1, <1>2, <1>6 DEF FIFOOrder, rest
<1>8. Whole(o)'
  BY <1>1, <1>4, <1>5 DEF Whole, Kind
<1>9. /\ closed => closed'
      /\ closed' \in BOOLEAN
      /\ queue' \in Seq(Element) /\ entered' \in Seq(Element)
      /\ consumed' \in Seq(Element) /\ UNCHANGED <<cm, mu, specified_shapes>>
  BY <1>1, <1>2 DEF rest
<1> QED
  BY <1>1, <1>4, <1>7, <1>8, <1>9, Completes

\* A part of a batch is a sequence of elements.
LEMMA SliceType ==
    ASSUME NEW o \in Ops, NEW l \in Nat, NEW n \in Nat
    PROVE  /\ BatchSlice(o, l + 1, l + n) \in Seq(Element)
           /\ Len(BatchSlice(o, l + 1, l + n)) = n
<1>1. (l + n) - (l + 1) + 1 = n
  OBVIOUS
<1> DEFINE e(i) == <<o, (l + 1) + i - 1>>
<1>2. BatchSlice(o, l + 1, l + n) = [i \in 1..n |-> e(i)]
  BY <1>1 DEF BatchSlice
<1>3. \A i \in 1..n : e(i) \in Element
  BY DEF Element
<1> HIDE DEF e
<1>4. [i \in 1..n |-> e(i)] \in Seq(Element)
  BY <1>3, IsASeq
<1>5. Len([i \in 1..n |-> e(i)]) = n
  OBVIOUS
<1> QED
  BY <1>2, <1>4, <1>5

\* An enqueue that finds room: its batch goes in as far as there is room.
LEMMA PushElementsStep ==
    ASSUME IInv, NEW x \in Threads, NEW o \in Ops, PushElements(x, o) PROVE IInv'
<1> DEFINE a == attempt[o]
           left   == a.elements_requested
           pushed == LesserOf(left, Capacity - Len(queue))
           index  == a.request.n - left
           slice  == BatchSlice(o, index + 1, index + pushed)
           n == left - pushed
           b == [a EXCEPT !.elements_requested = n]
<1>1. /\ RunsEnqueue(x, o) /\ Kind(o) = "enqueue" /\ ~closed
      /\ Len(queue) < Capacity
      /\ queue' = queue \o slice /\ entered' = entered \o slice
      /\ attempt' = [attempt EXCEPT ![o] = b]
      /\ \/ /\ pushed = left
            /\ enqueue_attempts' = Tail(enqueue_attempts)
            /\ Completed(x, o, "enqueue")
         \/ /\ pushed # left
            /\ thread' = [thread EXCEPT ![x].pc = "dequeue", ![x].changed = TRUE]
            /\ UNCHANGED enqueue_attempts
      /\ UNCHANGED <<closed, dequeue_attempts, cm, mu, consumed, specified_shapes>>
  BY DEF PushElements
<1>2. /\ a \in AttemptType /\ FIFOOrder /\ closed \in BOOLEAN /\ OpInv(o)
      /\ queue \in Seq(Element) /\ entered \in Seq(Element)
      /\ consumed \in Seq(Element)
      /\ enqueue_attempts \in Seq(Ops) /\ dequeue_attempts \in Seq(Ops)
      /\ Capacity \in Nat
      /\ thread[x] \in ThreadType
  BY QueueAssumption DEF IInv, TypeOK
<1>3. /\ thread[x].pc = "enqueue" /\ enqueue_attempts # <<>>
      /\ o = Head(enqueue_attempts) /\ ~a.is_cancelled
  BY <1>1 DEF RunsEnqueue
<1>4. o \in Pending(enqueue_attempts) /\ o \notin Pending(dequeue_attempts)
  BY <1>2, <1>3, PendingTail DEF IInv, ListInv
<1>5. left \in 1..a.request.n /\ a.request.n \in Nat /\ Len(queue) \in Nat
  BY <1>1, <1>2, <1>4 DEF OpInv, AttemptInv, AttemptType, RequestType
<1>6. /\ pushed \in Nat /\ index \in Nat /\ n \in Nat
      /\ Len(queue) + pushed <= Capacity
      /\ pushed # left => n \in 1..a.request.n
  <2> DEFINE room == Capacity - Len(queue)
             N == a.request.n
             l == left
  <2>1. room \in Nat \ {0} /\ Len(queue) + room = Capacity
    <3>1. Len(queue) < Capacity /\ Capacity \in Nat /\ Len(queue) \in Nat
      BY <1>1, <1>2, <1>5
    <3> QED
      BY <3>1
  <2>2. l \in Nat /\ l >= 1 /\ l <= N /\ N \in Nat
    BY <1>5
  <2> HIDE DEF room, l, N
  <2>3. /\ LesserOf(l, room) \in Nat /\ LesserOf(l, room) <= room
        /\ LesserOf(l, room) <= l
    BY <2>1, <2>2 DEF LesserOf
  <2> DEFINE p == LesserOf(l, room)
  <2> HIDE DEF p
  <2>4. p \in Nat /\ p <= room /\ p <= l
    BY <2>3 DEF p
  <2>5. /\ N - l \in Nat /\ l - p \in Nat /\ Len(queue) + p <= Capacity
        /\ p # l => l - p \in 1..N
    BY <1>2, <1>5, <2>1, <2>2, <2>4
  <2> QED
    BY <2>4, <2>5 DEF p, room, l, N
<1>7. slice \in Seq(Element) /\ Len(slice) = pushed
  BY <1>6, SliceType
<1> HIDE DEF n, pushed, index, slice
<1>8. /\ b \in AttemptType /\ b.request = a.request /\ b.calls = a.calls
      /\ b.result = a.result /\ b.is_cancelled = a.is_cancelled
      /\ b.elements_requested = n /\ b.tuple = a.tuple /\ b.status = a.status
  BY <1>2, <1>6 DEF AttemptType
<1> HIDE DEF b
<1>9. /\ attempt'[o] = b /\ \A p \in Ops \ {o} : attempt'[p] = attempt[p]
  BY <1>1, <1>8 DEF IInv, TypeOK
<1>10. PartialTuple' = PartialTuple /\ PartialTuple \in Seq(Element)
  <2>1. /\ dequeue_attempts # <<>> => Head(dequeue_attempts) \in Ops \ {o}
        /\ \A p \in Ops : attempt[p].tuple \in Seq(Element)
    BY <1>2, <1>4, PendingTail, Typed DEF AttemptType
  <2> QED
    BY <1>1, <1>2, <1>9, <2>1, EmptySeq DEF PartialTuple
<1>11. /\ queue' \in Seq(Element) /\ entered' \in Seq(Element)
       /\ Len(queue') = Len(queue) + pushed /\ consumed' \in Seq(Element)
  BY <1>1, <1>2, <1>7, ConcatProperties
<1>12. FIFOOrder'
  <2> DEFINE out == consumed \o PartialTuple
  <2>0. out \in Seq(Element)
    BY <1>2, <1>10, ConcatProperties
  <2> HIDE DEF out
  <2>1. (out \o queue) \o slice = out \o (queue \o slice)
    <3>1. queue \in Seq(Element) /\ slice \in Seq(Element)
      BY <1>2, <1>7
    <3> QED
      BY <2>0, <3>1, ConcatAssociative
  <2>2. entered' = consumed' \o PartialTuple' \o queue'
    BY <1>1, <1>2, <1>10, <2>1 DEF FIFOOrder, out
  <2>3. Len(queue') <= Capacity
    BY <1>6, <1>11
  <2> QED
    BY <1>2, <1>11, <2>2, <2>3 DEF FIFOOrder
<1>13. CASE /\ pushed = left
            /\ enqueue_attempts' = Tail(enqueue_attempts)
            /\ Completed(x, o, "enqueue")
  <2>1. Whole(o)'
    BY <1>1, <1>8, <1>9 DEF Whole, Kind
  <2> QED
    BY <1>1, <1>2, <1>8, <1>11, <1>12, <1>13, <2>1, Completes
<1>14. CASE /\ pushed # left
            /\ thread' = [thread EXCEPT ![x].pc = "dequeue", ![x].changed = TRUE]
            /\ UNCHANGED enqueue_attempts
  <2> DEFINE h == [thread[x] EXCEPT !.pc = "dequeue", !.changed = TRUE]
  <2>1. /\ h \in ThreadType /\ h.pc = "dequeue" /\ h.changed
        /\ h.callbacks = thread[x].callbacks /\ h.clean_up = thread[x].clean_up
    BY <1>2 DEF ThreadType
  <2>2. thread' = [thread EXCEPT ![x] = h]
    BY <1>14
  <2> HIDE DEF h
  <2>3. Live(o)
    BY <1>3, <1>4 DEF Live, Listed
  <2> QED
    BY <1>1, <1>2, <1>3, <1>4, <1>6, <1>8, <1>11, <1>12, <1>14, <2>1, <2>2, <2>3,
       Continues
<1> QED
  BY <1>1, <1>13, <1>14

\* What thread x knows when it runs the front dequeue.
LEMMA RunsDequeueFacts ==
    ASSUME IInv, NEW x \in Threads, NEW o \in Ops, RunsDequeue(x, o)
    PROVE  LET a == attempt[o] IN
           /\ a \in AttemptType /\ thread[x] \in ThreadType /\ closed \in BOOLEAN
           /\ queue \in Seq(Element) /\ entered \in Seq(Element)
           /\ consumed \in Seq(Element)
           /\ thread[x].pc = "dequeue" /\ dequeue_attempts # <<>>
           /\ o = Head(dequeue_attempts) /\ ~a.is_cancelled
           /\ o \in Pending(dequeue_attempts)
           /\ o \notin Pending(enqueue_attempts)
           /\ Live(o) /\ Kind(o) \in DequeueKinds
           /\ a.request \in Requests /\ a.request.n \in Nat
           /\ a.elements_requested \in Nat \ {0}
           /\ a.tuple \in Seq(Element) /\ Len(a.tuple) \in Nat
           /\ a.elements_requested + Len(a.tuple) = a.request.n
           /\ PartialTuple = a.tuple
           /\ entered = (consumed \o a.tuple) \o queue
           /\ Len(queue) \in Nat
<1>1. /\ attempt[o] \in AttemptType /\ thread[x] \in ThreadType
      /\ closed \in BOOLEAN
      /\ queue \in Seq(Element) /\ entered \in Seq(Element)
      /\ consumed \in Seq(Element)
      /\ dequeue_attempts \in Seq(Ops) /\ ListInv /\ OpInv(o) /\ FIFOOrder
  BY DEF IInv, TypeOK
<1>2. /\ thread[x].pc = "dequeue" /\ dequeue_attempts # <<>>
      /\ o = Head(dequeue_attempts) /\ ~attempt[o].is_cancelled
  BY DEF RunsDequeue
<1>3. o \in Pending(dequeue_attempts) /\ o \notin Pending(enqueue_attempts)
  BY <1>1, <1>2, PendingTail DEF ListInv
<1>4. Live(o)
  BY <1>2, <1>3 DEF Live, Listed
<1>5. /\ attempt[o].tuple \in Seq(Element) /\ attempt[o].elements_requested \in Nat
      /\ attempt[o].request.n \in Nat
  BY <1>1 DEF AttemptType, RequestType
<1>6. /\ Kind(o) \in DequeueKinds
      /\ attempt[o].request \in Requests
      /\ attempt[o].elements_requested > 0
      /\ attempt[o].elements_requested + Len(attempt[o].tuple) =
            attempt[o].request.n
  BY <1>1, <1>3 DEF OpInv, AttemptInv
<1>7. PartialTuple = attempt[o].tuple
  BY <1>2 DEF PartialTuple
<1>8. entered = (consumed \o attempt[o].tuple) \o queue
  BY <1>1, <1>7 DEF FIFOOrder
<1>9. Len(queue) \in Nat /\ Len(attempt[o].tuple) \in Nat
  BY <1>1, <1>5, LenProperties
<1> QED
  BY <1>1, <1>2, <1>3, <1>4, <1>5, <1>6, <1>7, <1>8, <1>9

\* Concatenation and the two parts of a sequence, as symbols that only the
\* lemmas say something about.
Concat(s, t) == s \o t
Front(s, n) == SubSeq(s, 1, n)
Back(s, n) == SubSeq(s, n + 1, Len(s))

\* The elements and the length of a concatenation.
LEMMA ConcatFacts ==
    ASSUME NEW S, NEW s \in Seq(S), NEW t \in Seq(S), NEW u \in Seq(S)
    PROVE  /\ Concat(s, t) \in Seq(S)
           /\ Concat(Concat(s, t), u) = Concat(s, Concat(t, u))
<1>1. s \o t \in Seq(S)
  BY ConcatProperties
<1>2. (s \o t) \o u = s \o (t \o u)
  BY ConcatAssociative
<1> QED
  BY <1>1, <1>2 DEF Concat

\* Elements taken from the front of the queue keep their place in the order.
LEMMA TakesInOrder ==
    ASSUME NEW S, NEW c \in Seq(S), NEW t \in Seq(S), NEW q \in Seq(S),
           NEW n \in Nat, n <= Len(q)
    PROVE  LET f == Front(q, n)
               g == Back(q, n)
               tf == Concat(t, f)
           IN  /\ tf \in Seq(S) /\ Len(tf) = Len(t) + n
               /\ g \in Seq(S) /\ Len(g) = Len(q) - n
               /\ Concat(c, tf) \in Seq(S)
               /\ Concat(Concat(c, tf), <<>>) = Concat(c, tf)
               /\ Concat(Concat(c, tf), g) = Concat(Concat(c, t), q)
<1> DEFINE f == SubSeq(q, 1, n)
           g == SubSeq(q, n + 1, Len(q))
<1>1. \A i \in 1..Len(q) : q[i] \in S
  BY ElementOfSeq
<1>2. Len(q) \in Nat /\ n \in Nat /\ n <= Len(q)
  BY LenProperties
<1>3. f \in Seq(S) /\ Len(f) = n
  <2>1. \A i \in 1..n : q[i] \in S
    BY <1>1, <1>2
  <2>2. f \in Seq(S) /\ Len(f) = (IF 1 <= n THEN n - 1 + 1 ELSE 0)
    BY <1>2, <2>1, SubSeqProperties
  <2> QED
    BY <1>2, <2>2
<1>4. g \in Seq(S) /\ Len(g) = Len(q) - n
  <2>1. \A i \in (n + 1)..Len(q) : q[i] \in S
    BY <1>1, <1>2
  <2>2. /\ g \in Seq(S)
        /\ Len(g) = (IF n + 1 <= Len(q) THEN Len(q) - (n + 1) + 1 ELSE 0)
    BY <1>2, <2>1, SubSeqProperties
  <2> QED
    BY <1>2, <2>2
<1>5. f \o g = q
  <2>1. 1 \in 1..(Len(q) + 1) /\ n \in (1 - 1)..Len(q) /\ Len(q) \in n..Len(q)
    BY <1>2
  <2> QED
    BY <2>1, ConcatAdjacentSubSeq, SubSeqFull
<1> HIDE DEF f, g
<1>6. t \o f \in Seq(S) /\ Len(t \o f) = Len(t) + n
  BY <1>3, ConcatProperties
<1>7. c \o (t \o f) \in Seq(S) /\ c \o t \in Seq(S)
  BY <1>6, ConcatProperties
<1>8. (c \o (t \o f)) \o <<>> = c \o (t \o f)
  BY <1>7, ConcatEmptySeq
<1>9. (c \o (t \o f)) \o g = (c \o t) \o q
  <2>1. f \in Seq(S) /\ g \in Seq(S)
    BY <1>3, <1>4
  <2>2. Concat(Concat(c, Concat(t, f)), g) = Concat(Concat(c, t), Concat(f, g))
    BY <2>1, ConcatFacts
  <2>3. (c \o (t \o f)) \o g = (c \o t) \o (f \o g)
    BY <2>2 DEF Concat
  <2> QED
    BY <1>5, <2>3
<1> QED
  BY <1>4, <1>6, <1>7, <1>8, <1>9 DEF f, g, Concat, Front, Back

\* The same for all of the queue, and for a batch that goes back.
LEMMA RestoresInOrder ==
    ASSUME NEW S, NEW c \in Seq(S), NEW t \in Seq(S), NEW q \in Seq(S)
    PROVE  LET tq == Concat(t, q) IN
           /\ tq \in Seq(S) /\ Len(tq) = Len(t) + Len(q)
           /\ Concat(c, tq) \in Seq(S)
           /\ Concat(Concat(Concat(c, tq), <<>>), <<>>) = Concat(Concat(c, t), q)
           /\ Concat(Concat(c, <<>>), tq) = Concat(Concat(c, t), q)
<1>1. t \o q \in Seq(S) /\ Len(t \o q) = Len(t) + Len(q)
  BY ConcatProperties
<1>2. c \o (t \o q) \in Seq(S)
  BY <1>1, ConcatProperties
<1>3. (c \o (t \o q)) \o <<>> = c \o (t \o q) /\ c \o <<>> = c
  BY <1>2, ConcatEmptySeq
<1>4. c \o (t \o q) = (c \o t) \o q
  BY ConcatAssociative
<1> QED
  BY <1>1, <1>2, <1>3, <1>4 DEF Concat

\* The front dequeue is delivered.
LEMMA DeliverStep ==
    ASSUME IInv, NEW x \in Threads, NEW o \in Ops, NEW elements \in Seq(Element),
           RunsDequeue(x, o), Deliver(x, o, elements),
           queue' \in Seq(Element), Len(queue') <= Len(queue),
           consumed' \in Seq(Element),
           entered = (consumed' \o <<>>) \o queue',
           \/ Len(elements) = attempt[o].request.n
           \/ /\ Kind(o) = "dequeue_up_to" /\ closed /\ elements # <<>>
              /\ Len(elements) <= attempt[o].request.n,
           UNCHANGED <<closed, enqueue_attempts, cm, mu, entered,
                       specified_shapes>>
    PROVE  IInv'
<1> DEFINE a == attempt[o]
           b == [a EXCEPT !.elements_requested = 0, !.tuple = <<>>,
                          !.result = elements]
<1>1. /\ attempt' = [attempt EXCEPT ![o] = b]
      /\ dequeue_attempts' = Tail(dequeue_attempts)
      /\ Completed(x, o, "dequeue")
  BY DEF Deliver
<1>2. /\ a \in AttemptType /\ closed \in BOOLEAN
      /\ queue \in Seq(Element) /\ entered \in Seq(Element)
      /\ dequeue_attempts # <<>> /\ o = Head(dequeue_attempts)
      /\ Kind(o) \in DequeueKinds /\ a.request.n \in Nat
  BY RunsDequeueFacts
<1>3. <<>> \in Seq(Element)
  BY EmptySeq
<1>4. /\ b \in AttemptType /\ b.request = a.request /\ b.calls = a.calls
      /\ b.result = elements
  BY <1>2, <1>3 DEF AttemptType
<1> HIDE DEF b
<1>5. attempt'[o] = b /\ \A p \in Ops \ {o} : attempt'[p] = attempt[p]
  BY <1>1, <1>4 DEF IInv, TypeOK
<1>6. PartialTuple' = <<>>
  BY <1>1, <1>2, <1>5, DequeueLeaves
<1>7. FIFOOrder'
  <2>1. FIFOOrder /\ Len(queue) \in Nat /\ Len(queue') \in Nat /\ Capacity \in Nat
    BY <1>2, LenProperties, QueueAssumption DEF IInv
  <2>2. entered' = (consumed' \o PartialTuple') \o queue'
    BY <1>6
  <2>3. ~closed' => Len(queue') <= Capacity
    BY <2>1 DEF FIFOOrder
  <2>4. ASSUME Len(queue') > Capacity
        PROVE  \E r \in Requests : Len(queue') <= Capacity + r.n
    <3>1. PICK r \in Requests : Len(queue) <= Capacity + r.n
      BY <2>1, <2>4 DEF FIFOOrder
    <3>2. r.n \in Nat
      BY QueueAssumption DEF RequestType
    <3>3. Len(queue') <= Capacity + r.n
      BY <2>1, <3>1, <3>2
    <3> QED
      BY <3>3
  <2> QED
    BY <2>2, <2>3, <2>4 DEF FIFOOrder
<1>8. Whole(o)'
  <2>1. Len(elements) \in Nat
    BY LenProperties
  <2>2. /\ Kind(o)' = Kind(o) /\ attempt'[o].result = elements
        /\ attempt'[o].request = a.request
    BY <1>4, <1>5 DEF Kind
  <2> QED
    BY <1>2, <2>1, <2>2 DEF Whole
<1> QED
  BY <1>1, <1>2, <1>4, <1>7, <1>8, Completes

\* The front dequeue takes what it needs, or all there is for now.
LEMMA TakeElementsStep ==
    ASSUME IInv, NEW x \in Threads, NEW o \in Ops, TakeElements(x, o) PROVE IInv'
<1> DEFINE a == attempt[o]
           left  == a.elements_requested
           taken == LesserOf(left, Len(queue))
           tuple == a.tuple \o SubSeq(queue, 1, taken)
           others == SubSeq(queue, taken + 1, Len(queue))
           n == left - taken
           b == [a EXCEPT !.elements_requested = n, !.tuple = tuple]
<1>1. /\ RunsDequeue(x, o) /\ queue' = others
      /\ \/ taken = left /\ Deliver(x, o, tuple)
         \/ /\ taken # left
            /\ attempt' = [attempt EXCEPT ![o] = b]
            /\ FlushAgain(x)
            /\ UNCHANGED <<dequeue_attempts, consumed>>
      /\ UNCHANGED <<closed, enqueue_attempts, cm, mu, entered, specified_shapes>>
  BY DEF TakeElements
<1>2. /\ a \in AttemptType /\ thread[x] \in ThreadType /\ closed \in BOOLEAN
      /\ queue \in Seq(Element) /\ entered \in Seq(Element)
      /\ consumed \in Seq(Element)
      /\ thread[x].pc = "dequeue" /\ dequeue_attempts # <<>>
      /\ o = Head(dequeue_attempts)
      /\ o \notin Pending(enqueue_attempts) /\ Live(o)
      /\ a.request.n \in Nat /\ left \in Nat \ {0}
      /\ a.tuple \in Seq(Element) /\ Len(a.tuple) \in Nat
      /\ left + Len(a.tuple) = a.request.n
      /\ entered = (consumed \o a.tuple) \o queue
      /\ Len(queue) \in Nat
  BY <1>1, RunsDequeueFacts
<1>3. /\ taken \in 0..Len(queue) /\ n \in Nat
      /\ taken # left => n > 0
      /\ n + taken = left
  <2>1. left \in Nat /\ Len(queue) \in Nat
    BY <1>2
  <2> HIDE DEF left
  <2> QED
    BY <2>1 DEF LesserOf
<1> HIDE DEF taken, n
<1>4. /\ tuple \in Seq(Element) /\ Len(tuple) = Len(a.tuple) + taken
      /\ others \in Seq(Element) /\ Len(others) = Len(queue) - taken
      /\ consumed \o tuple \in Seq(Element)
      /\ (consumed \o tuple) \o <<>> = consumed \o tuple
      /\ (consumed \o tuple) \o others = entered
  <2> DEFINE t == a.tuple
             tf == Concat(t, Front(queue, taken))
             g == Back(queue, taken)
  <2>1. /\ consumed \in Seq(Element) /\ t \in Seq(Element)
        /\ queue \in Seq(Element) /\ taken \in Nat /\ taken <= Len(queue)
    BY <1>2, <1>3
  <2>0. entered = (consumed \o t) \o queue
    BY <1>2
  <2> HIDE DEF t
  <2>2. /\ tf \in Seq(Element) /\ Len(tf) = Len(t) + taken
        /\ g \in Seq(Element) /\ Len(g) = Len(queue) - taken
        /\ Concat(consumed, tf) \in Seq(Element)
        /\ Concat(Concat(consumed, tf), <<>>) = Concat(consumed, tf)
        /\ Concat(Concat(consumed, tf), g) = Concat(Concat(consumed, t), queue)
    BY <2>1, TakesInOrder
  <2> QED
    BY <2>0, <2>2 DEF Concat, Front, Back, t
<1> HIDE DEF tuple, others
<1>5. Len(others) <= Len(queue) /\ Len(others) \in Nat
  BY <1>2, <1>3, <1>4
<1>6. CASE taken = left /\ Deliver(x, o, tuple)
  <2>1. consumed' = consumed \o tuple
    BY <1>6 DEF Deliver
  <2>2. entered = (consumed' \o <<>>) \o queue'
    BY <1>1, <1>4, <2>1
  <2>3. Len(tuple) = a.request.n
    BY <1>2, <1>4, <1>6
  <2> QED
    BY <1>1, <1>4, <1>5, <1>6, <2>1, <2>2, <2>3, DeliverStep
<1>7. CASE /\ taken # left
           /\ attempt' = [attempt EXCEPT ![o] = b]
           /\ FlushAgain(x)
           /\ UNCHANGED <<dequeue_attempts, consumed>>
  <2> DEFINE h == [thread[x] EXCEPT !.pc = "enqueue", !.changed = FALSE]
  <2>1. /\ h \in ThreadType /\ h.pc = "enqueue"
        /\ h.callbacks = thread[x].callbacks /\ h.clean_up = thread[x].clean_up
    BY <1>2 DEF ThreadType
  <2>2. thread' = [thread EXCEPT ![x] = h]
    BY <1>7 DEF FlushAgain
  <2> HIDE DEF h
  <2>3. /\ b \in AttemptType /\ b.request = a.request /\ b.calls = a.calls
        /\ b.result = a.result /\ b.is_cancelled = a.is_cancelled
        /\ b.elements_requested = n /\ b.tuple = tuple
    BY <1>2, <1>3, <1>4 DEF AttemptType
  <2> HIDE DEF b
  <2>4. attempt'[o] = b
    BY <1>7, <2>3 DEF IInv, TypeOK
  <2>5. PartialTuple' = tuple
    BY <1>2, <1>7, <2>3, <2>4 DEF PartialTuple
  <2>6. FIFOOrder'
    <3>1. FIFOOrder /\ Capacity \in Nat /\ Len(queue) \in Nat /\ Len(queue') \in Nat
          /\ Len(queue') <= Len(queue)
      BY <1>1, <1>2, <1>5, QueueAssumption DEF IInv
    <3>2. entered' = (consumed' \o PartialTuple') \o queue'
      BY <1>1, <1>4, <1>7, <2>5
    <3>3. ~closed' => Len(queue') <= Capacity
      BY <1>1, <3>1 DEF FIFOOrder
    <3>4. ASSUME Len(queue') > Capacity
          PROVE  \E r \in Requests : Len(queue') <= Capacity + r.n
      <4>1. PICK r \in Requests : Len(queue) <= Capacity + r.n
        BY <3>1, <3>4 DEF FIFOOrder
      <4>2. r.n \in Nat
        BY QueueAssumption DEF RequestType
      <4>3. Len(queue') <= Capacity + r.n
        BY <3>1, <4>1, <4>2
      <4> QED
        BY <4>3
    <3> QED
      BY <3>2, <3>3, <3>4 DEF FIFOOrder
  <2>7. n > 0 /\ n + Len(tuple) = a.request.n
    BY <1>2, <1>3, <1>4, <1>7
  <2>8. /\ queue' \in Seq(Element) /\ entered' \in Seq(Element)
        /\ consumed' \in Seq(Element)
    BY <1>1, <1>2, <1>4, <1>7
  <2> QED
    BY <1>1, <1>2, <1>7, <2>1, <2>2, <2>3, <2>6, <2>7, <2>8, Continues
<1> QED
  BY <1>1, <1>6, <1>7

\* DequeueUpTo takes what a closed queue has left.
LEMMA TakeRemainingStep ==
    ASSUME IInv, NEW x \in Threads, NEW o \in Ops, TakeRemaining(x, o) PROVE IInv'
<1> DEFINE a == attempt[o]
           all == a.tuple \o queue
<1>1. /\ RunsDequeue(x, o) /\ Starved(o) /\ Kind(o) = "dequeue_up_to"
      /\ all # <<>> /\ queue' = <<>> /\ Deliver(x, o, all)
      /\ UNCHANGED <<closed, enqueue_attempts, cm, mu, entered, specified_shapes>>
  BY DEF TakeRemaining, Restored
<1>2. /\ queue \in Seq(Element) /\ consumed \in Seq(Element)
      /\ a.request.n \in Nat /\ a.elements_requested \in Nat
      /\ a.tuple \in Seq(Element) /\ Len(a.tuple) \in Nat
      /\ a.elements_requested + Len(a.tuple) = a.request.n
      /\ entered = (consumed \o a.tuple) \o queue
      /\ Len(queue) \in Nat
  BY <1>1, RunsDequeueFacts
<1>3. /\ all \in Seq(Element) /\ Len(all) = Len(a.tuple) + Len(queue)
      /\ consumed \o all \in Seq(Element)
      /\ ((consumed \o all) \o <<>>) \o <<>> = entered
  <2> DEFINE t == a.tuple
             tq == Concat(t, queue)
  <2>1. /\ consumed \in Seq(Element) /\ t \in Seq(Element)
        /\ queue \in Seq(Element) /\ entered = (consumed \o t) \o queue
    BY <1>2
  <2> HIDE DEF t
  <2>2. /\ tq \in Seq(Element) /\ Len(tq) = Len(t) + Len(queue)
        /\ Concat(consumed, tq) \in Seq(Element)
        /\ Concat(Concat(Concat(consumed, tq), <<>>), <<>>) =
              Concat(Concat(consumed, t), queue)
    BY <2>1, RestoresInOrder
  <2> QED
    BY <2>1, <2>2 DEF Concat, t
<1> HIDE DEF all
<1>4. consumed' = consumed \o all
  BY <1>1 DEF Deliver
<1>5. closed /\ Len(queue) < a.elements_requested
  BY <1>1 DEF Starved
<1>6. Len(all) <= a.request.n
  BY <1>2, <1>3, <1>5
<1>7. queue' \in Seq(Element) /\ Len(queue') <= Len(queue)
  BY <1>1, <1>2, EmptySeq
<1> QED
  BY <1>1, <1>3, <1>4, <1>5, <1>6, <1>7, DeliverStep

\* The batch of a closed queue that cannot be completed goes back.
LEMMA InsufficientElementsStep ==
    ASSUME IInv, NEW x \in Threads, NEW o \in Ops, InsufficientElements(x, o)
    PROVE  IInv'
<1> DEFINE a == attempt[o]
           all == a.tuple \o queue
           st == SetStatus(o, "OutOfRange")
           b == [a EXCEPT !.status = st, !.tuple = <<>>]
<1>1. /\ RunsDequeue(x, o) /\ Starved(o) /\ queue' = all
      /\ attempt' = [attempt EXCEPT ![o] = b]
      /\ dequeue_attempts' = Tail(dequeue_attempts)
      /\ Completed(x, o, "dequeue")
      /\ UNCHANGED <<closed, enqueue_attempts, cm, mu, rest>>
  BY DEF InsufficientElements, Restored
<1>2. /\ a \in AttemptType /\ closed \in BOOLEAN
      /\ queue \in Seq(Element) /\ entered \in Seq(Element)
      /\ consumed \in Seq(Element)
      /\ dequeue_attempts # <<>> /\ o = Head(dequeue_attempts)
      /\ a.request \in Requests
      /\ a.request.n \in Nat /\ a.elements_requested \in Nat
      /\ a.tuple \in Seq(Element) /\ Len(a.tuple) \in Nat
      /\ a.elements_requested + Len(a.tuple) = a.request.n
      /\ entered = (consumed \o a.tuple) \o queue
      /\ Len(queue) \in Nat
  BY <1>1, RunsDequeueFacts
<1>3. /\ all \in Seq(Element) /\ Len(all) = Len(a.tuple) + Len(queue)
      /\ (consumed \o <<>>) \o all = entered
  <2> DEFINE t == a.tuple
             tq == Concat(t, queue)
  <2>1. /\ consumed \in Seq(Element) /\ t \in Seq(Element)
        /\ queue \in Seq(Element) /\ entered = (consumed \o t) \o queue
    BY <1>2
  <2> HIDE DEF t
  <2>2. /\ tq \in Seq(Element) /\ Len(tq) = Len(t) + Len(queue)
        /\ Concat(Concat(consumed, <<>>), tq) = Concat(Concat(consumed, t), queue)
    BY <2>1, RestoresInOrder
  <2> QED
    BY <2>1, <2>2 DEF Concat, t
<1> HIDE DEF all
<1>4. st # "OK" /\ st \in {"OK", "Cancelled", "OutOfRange", "InvalidArgument"}
  BY <1>2 DEF SetStatus, AttemptType
<1>5. <<>> \in Seq(Element)
  BY EmptySeq
<1> HIDE DEF st
<1>6. /\ b \in AttemptType /\ b.request = a.request /\ b.calls = a.calls
      /\ b.result = a.result /\ b.status = st
  BY <1>2, <1>4, <1>5 DEF AttemptType
<1> HIDE DEF b
<1>7. attempt'[o] = b /\ \A p \in Ops \ {o} : attempt'[p] = attempt[p]
  BY <1>1, <1>6 DEF IInv, TypeOK
<1>8. PartialTuple' = <<>>
  BY <1>1, <1>2, <1>7, DequeueLeaves
<1>9. closed /\ Len(queue) < a.elements_requested
  BY <1>1 DEF Starved
<1>10. FIFOOrder'
  <2>1. entered' = (consumed' \o PartialTuple') \o queue'
    BY <1>1, <1>3, <1>8 DEF rest
  <2>2. Len(queue') <= Capacity + a.request.n
    <3>1. Len(queue') = Len(a.tuple) + Len(queue) /\ Capacity \in Nat
      BY <1>1, <1>3, QueueAssumption
    <3>2. /\ a.request.n \in Nat /\ a.elements_requested \in Nat
          /\ Len(a.tuple) \in Nat /\ Len(queue) \in Nat
          /\ a.elements_requested + Len(a.tuple) = a.request.n
          /\ Len(queue) < a.elements_requested
      BY <1>2, <1>9
    <3> QED
      BY <3>1, <3>2
  <2> QED
    BY <1>1, <1>2, <1>9, <2>1, <2>2 DEF FIFOOrder
<1>11. Whole(o)'
  BY <1>4, <1>6, <1>7 DEF Whole
<1>12. /\ queue' \in Seq(Element) /\ entered' \in Seq(Element)
       /\ consumed' \in Seq(Element) /\ closed' \in BOOLEAN
       /\ UNCHANGED <<cm, mu, specified_shapes>>
  BY <1>1, <1>2, <1>3 DEF rest
<1> QED
  BY <1>1, <1>6, <1>10, <1>11, <1>12, Completes

\* The dequeue phase ends: another round, or nothing can move.
LEMMA DequeuePhaseEndsStep ==
    ASSUME IInv, NEW x \in Threads, DequeuePhaseEnds(x) PROVE IInv'
<1>1. /\ thread[x].pc = "dequeue"
      /\ dequeue_attempts # <<>> =>
            /\ ~attempt[Head(dequeue_attempts)].is_cancelled
            /\ ~Starved(Head(dequeue_attempts))
            /\ queue = <<>>
      /\ \/ thread[x].changed /\ FlushAgain(x) /\ UNCHANGED mu
         \/ ~thread[x].changed /\ mu' = {} /\ Goto(x, "clean_up")
      /\ UNCHANGED <<queue, closed, enqueue_attempts, dequeue_attempts, attempt,
                     cm, rest>>
  BY DEF DequeuePhaseEnds
<1>2. /\ mu = {x} /\ FlusherInv(x) /\ thread[x] \in ThreadType
      /\ dequeue_attempts \in Seq(Ops)
  BY <1>1, HasLock DEF IInv, TypeOK
<1>3. ListInv' /\ FIFOOrder'
  BY <1>1 DEF IInv, ListInv, FIFOOrder, PartialTuple, rest
<1>4. CASE FlushAgain(x) /\ UNCHANGED mu
  <2> DEFINE h == [thread[x] EXCEPT !.pc = "enqueue", !.changed = FALSE]
  <2>1. /\ h \in ThreadType /\ h.pc = "enqueue"
        /\ h.callbacks = thread[x].callbacks /\ h.clean_up = thread[x].clean_up
    BY <1>2 DEF ThreadType
  <2>2. thread' = [thread EXCEPT ![x] = h]
    BY <1>4 DEF FlushAgain
  <2> HIDE DEF h
  <2>3. /\ thread' \in [Threads -> ThreadType] /\ thread'[x] = h
        /\ \A y \in Threads \ {x} : thread'[y] = thread[y]
    BY <2>1, <2>2 DEF IInv, TypeOK
  <2>4. TypeOK'
    BY <1>1, <1>4, <2>3 DEF IInv, TypeOK, rest
  <2>5. \A p \in Ops : Same(p)
    BY <1>1, <2>1, <2>3, Kinds DEF Same
  <2>6. \A p \in Ops : OpInv(p)'
    BY <2>5, SameInv DEF IInv
  <2>7. FlusherInv(x)' /\ Flushing(x)'
    BY <1>1, <1>2, <1>4, <2>1, <2>3 DEF FlusherInv, Flushing
  <2> QED
    BY <1>2, <1>3, <1>4, <2>3, <2>4, <2>6, <2>7, BusyInv
<1>5. CASE ~thread[x].changed /\ mu' = {} /\ Goto(x, "clean_up")
  <2>1. /\ thread' \in [Threads -> ThreadType]
        /\ \A y \in Threads \ {x} : thread'[y] = thread[y]
        /\ thread'[x].pc = "clean_up"
        /\ thread'[x].callbacks = thread[x].callbacks
        /\ thread'[x].clean_up = thread[x].clean_up
    BY <1>5, GotoFacts DEF Pcs
  <2>2. TypeOK'
    BY <1>1, <1>5, <2>1 DEF IInv, TypeOK, rest
  <2>3. \A p \in Ops : Same(p)
    BY <1>1, <2>1, Kinds DEF Same
  <2>4. \A p \in Ops : OpInv(p)'
    BY <2>3, SameInv DEF IInv
  <2>5. EnqueueStuck
    BY <1>1, <1>2, <1>5 DEF FlusherInv
  <2>6. DequeueStuck
    <3>1. ASSUME dequeue_attempts # <<>> PROVE ~closed
      <4>1. PICK o \in Ops : o = Head(dequeue_attempts) /\ o \in Pending(dequeue_attempts)
        BY <1>2, <3>1, PendingTail
      <4>2. attempt[o].elements_requested > 0
        BY <4>1 DEF IInv, OpInv, AttemptInv
      <4>3. Len(queue) = 0
        BY <1>1, <3>1
      <4> QED
        BY <1>1, <3>1, <4>1, <4>2, <4>3 DEF Starved
    <3> QED
      BY <1>1, <3>1 DEF DequeueStuck
  <2>7. LockInv'
    BY <1>1, <1>5, <2>5, <2>6 DEF LockInv, EnqueueStuck, DequeueStuck
  <2>8. FlusherInv(x)'
    BY <1>1, <1>2, <1>5, <2>1 DEF FlusherInv
  <2>9. \A y \in Threads \ {x} : FlusherInv(y)'
    BY <1>1, <1>2, <1>5, <2>1 DEF IInv, FlusherInv, EnqueueStuck
  <2> QED
    BY <1>3, <2>2, <2>4, <2>7, <2>8, <2>9 DEF IInv
<1> QED
  BY <1>1, <1>4, <1>5

\* A thread inside the queue, whichever it is.
LEMMA FlushStep == ASSUME IInv, NEW x \in Threads, FlushUnlocked(x) PROVE IInv'
<1>1. CASE \E o \in Ops : \/ RunClose(x, o) \/ EnqueueOnClosed(x, o)
                          \/ PushElements(x, o) \/ TakeElements(x, o)
                          \/ TakeRemaining(x, o) \/ InsufficientElements(x, o)
  BY <1>1, EnqueueEndsSteps, PushElementsStep, TakeElementsStep,
     TakeRemainingStep, InsufficientElementsStep
<1>2. CASE \/ CallCancelled(x) \/ Lock(x) \/ SkipCancelledEnqueue(x)
           \/ SkipCancelledDequeue(x) \/ EnqueuePhaseEnds(x)
           \/ DequeuePhaseEnds(x) \/ CleanUp(x) \/ WaitForNotification(x)
  BY <1>2, CallCancelledStep, LockStep, SkipCancelledSteps, EnqueuePhaseEndsStep,
     DequeuePhaseEndsStep, CleanUpSteps
<1> QED
  BY <1>1, <1>2 DEF FlushUnlocked, RunAttempt

\* Nothing happens.
LEMMA StutterInv == ASSUME IInv, UNCHANGED vars PROVE IInv'
<1>1. UNCHANGED <<queueVars, attempt, cm, thread, rest>>
  BY DEF vars
<1>2. UNCHANGED <<queue, closed, enqueue_attempts, dequeue_attempts, mu, attempt,
                  cm, thread, entered, consumed, specified_shapes>>
  BY <1>1 DEF queueVars, rest
<1>3. TypeOK' /\ ListInv' /\ LockInv' /\ FIFOOrder'
  BY <1>2 DEF IInv, TypeOK, ListInv, LockInv, FIFOOrder, PartialTuple, Flushing,
              EnqueueStuck, DequeueStuck
<1>4. \A p \in Ops : OpInv(p)'
  <2>1. \A p \in Ops : Same(p)
    BY <1>2 DEF Same
  <2> QED
    BY <2>1, SameInv DEF IInv
<1>5. \A x \in Threads : FlusherInv(x)'
  BY <1>2 DEF IInv, FlusherInv, EnqueueStuck
<1> QED
  BY <1>3, <1>4, <1>5 DEF IInv

\* Every step preserves the inductive invariant.
LEMMA NextInv == ASSUME IInv, [Next]_vars PROVE IInv'
<1>1. ASSUME NEW o \in Ops, Call(o) PROVE IInv'
  <2>1. PICK r \in Requests :
           \/ DequeueManyWithoutShapes(o, r) \/ EmptyBatch(o, r)
           \/ AlreadyCancelled(o, r) \/ Emplace(o, r) \/ Close(o, r)
           \/ CloseAndCancel(o, r)
    BY <1>1 DEF Call
  <2> QED
    BY <2>1, RefusedStep, EmplaceStep, CloseStep, CloseAndCancelStep
<1>2. ASSUME NEW o \in Ops, OpStep(o) PROVE IInv'
  BY <1>2, Kinds, FlushStep, ReturnOpStep DEF OpStep
<1>3. ASSUME NEW m \in Managers, StartCancel(m) \/ CancelStep(m) PROVE IInv'
  BY <1>3, Kinds, ManagerSteps, CancelStepInv, FlushStep DEF CancelStep
<1> QED
  BY <1>1, <1>2, <1>3, StutterInv DEF Next

\* Every reachable state satisfies the inductive invariant.
LEMMA SpecIInv == Spec => []IInv
  BY InitInv, NextInv, PTL DEF Spec

-----------------------------------------------------------------------------
(* The theorems. *)

(***************************************************************************)
(* The variables of QueueBase, of the attempts and of the threads keep     *)
(* their types.                                                            *)
(***************************************************************************)
THEOREM TypeCorrect == Spec => []TypeOK
  BY SpecIInv, PTL DEF IInv

(***************************************************************************)
(* FIFOQueue::queues_: elements leave in the order in which they came,     *)
(* whoever flushes, and capacity_ bounds the queue.                        *)
(***************************************************************************)
THEOREM ElementsInOrder == Spec => []FIFOOrder
  BY SpecIInv, PTL DEF IInv

\* Among distinct operations each occurs once or not at all.
LEMMA OccurrencesDistinct ==
    ASSUME NEW S, NEW s \in Seq(S), Distinct(s), NEW o
    PROVE  Occurrences(s, o) = IF o \in Pending(s) THEN 1 ELSE 0
<1> DEFINE at == {i \in DOMAIN s : s[i] = o}
<1>1. CASE o \in Pending(s)
  <2>1. PICK i \in DOMAIN s : s[i] = o
    BY <1>1 DEF Pending
  <2>2. at = {i}
    BY <2>1 DEF Distinct
  <2> QED
    BY <1>1, <2>2, FS_Singleton DEF Occurrences
<1>2. CASE o \notin Pending(s)
  <2>1. at = {}
    BY <1>2 DEF Pending
  <2> QED
    BY <1>2, <2>1, FS_EmptySet DEF Occurrences
<1> QED
  BY <1>1, <1>2

(***************************************************************************)
(* "The mutex mu_ ensures that the cleanup action only executes once"      *)
(* (QueueBase::FlushUnlocked): the callback of an attempt is at one place, *)
(* and is called once, whoever cancels, closes and flushes.                *)
(***************************************************************************)
THEOREM CalledOnce == Spec => []CallbackOnce
<1>1. ASSUME IInv PROVE CallbackOnce
  <2> SUFFICES ASSUME NEW o \in Ops
      PROVE  LET live == IF attempt[o].is_cancelled THEN 0
                         ELSE Occurrences(enqueue_attempts, o) +
                              Occurrences(dequeue_attempts, o)
                 Taken == {x \in Threads : o \in thread[x].callbacks}
                 InCleanUp == {x \in Threads :
                                 Occurrences(thread[x].clean_up, o) = 1}
             IN /\ \A x \in Threads : Occurrences(thread[x].clean_up, o) <= 1
                /\ live + Cardinality(Taken) + Cardinality(InCleanUp)
                        + attempt[o].calls = IF NoCallback(o) THEN 0 ELSE 1
    BY DEF CallbackOnce, NoCallback
  <2> DEFINE live == IF attempt[o].is_cancelled THEN 0
                     ELSE Occurrences(enqueue_attempts, o) +
                          Occurrences(dequeue_attempts, o)
             Taken == {x \in Threads : o \in thread[x].callbacks}
             InCleanUp == {x \in Threads : Occurrences(thread[x].clean_up, o) = 1}
             Holding == {x \in Threads : o \in Pending(thread[x].clean_up)}
  <2>1. /\ CallbackInv(o) /\ ListInv /\ attempt[o].calls \in Nat
        /\ enqueue_attempts \in Seq(Ops) /\ dequeue_attempts \in Seq(Ops)
        /\ \A x \in Threads : thread[x].clean_up \in Seq(Ops)
        /\ \A x \in Threads : Distinct(thread[x].clean_up)
    BY <1>1, Typed DEF IInv, TypeOK, OpInv, FlusherInv, ThreadType, AttemptType
  <2>2. /\ Occurrences(enqueue_attempts, o) =
              IF o \in Pending(enqueue_attempts) THEN 1 ELSE 0
        /\ Occurrences(dequeue_attempts, o) =
              IF o \in Pending(dequeue_attempts) THEN 1 ELSE 0
    BY <2>1, OccurrencesDistinct DEF ListInv
  <2>3. \A x \in Threads : Occurrences(thread[x].clean_up, o) =
                              IF o \in Pending(thread[x].clean_up) THEN 1 ELSE 0
    BY <2>1, OccurrencesDistinct
  <2>4. InCleanUp = Holding
    BY <2>3
  <2>5. \A x \in Threads : Occurrences(thread[x].clean_up, o) <= 1
    BY <2>3
  <2>6. live = IF Live(o) THEN 1 ELSE 0
    BY <2>1, <2>2 DEF Live, Listed, ListInv
  <2> HIDE DEF live
  <2>7. \A x \in Threads : Held(x, o) <=> x \in Taken \/ x \in Holding
    BY DEF Held
  <2>8. Taken \subseteq Threads /\ Holding \subseteq Threads
    OBVIOUS
  <2>9. CASE \A x \in Threads : ~Held(x, o)
    <3>1. Taken = {} /\ Holding = {}
      BY <2>7, <2>8, <2>9
    <3>2. Cardinality(Taken) = 0 /\ Cardinality(InCleanUp) = 0
      BY <2>4, <3>1, FS_EmptySet
    <3>3. live + attempt[o].calls = IF NoCallback(o) THEN 0 ELSE 1
      BY <2>1, <2>6, <2>9 DEF CallbackInv, Live
    <3>4. live \in Nat
      BY <2>6
    <3> HIDE DEF Taken, InCleanUp
    <3>5. live + Cardinality(Taken) + Cardinality(InCleanUp) + attempt[o].calls
             = live + attempt[o].calls
      BY <2>1, <3>2, <3>4
    <3> QED
      BY <2>5, <3>3, <3>5 DEF live, Taken, InCleanUp
  <2>10. CASE \E x \in Threads : Held(x, o)
    <3>1. PICK x \in Threads : Held(x, o)
      BY <2>10
    <3>2. /\ attempt[o].calls = 0 /\ ~Live(o) /\ ~NoCallback(o)
          /\ \A y \in Threads : Held(y, o) => x = y
          /\ o \notin thread[x].callbacks \/ o \notin Pending(thread[x].clean_up)
      BY <2>1, <3>1 DEF CallbackInv
    <3>3. \/ Taken = {x} /\ Holding = {}
          \/ Taken = {} /\ Holding = {x}
      BY <2>7, <2>8, <3>1, <3>2
    <3>4. Cardinality({}) = 0 /\ Cardinality({x}) = 1
      BY FS_EmptySet, FS_Singleton
    <3> HIDE DEF Taken, InCleanUp, Holding
    <3>5. \/ Cardinality(Taken) = 1 /\ Cardinality(InCleanUp) = 0
          \/ Cardinality(Taken) = 0 /\ Cardinality(InCleanUp) = 1
      BY <2>4, <3>3, <3>4
    <3>6. live = 0
      BY <2>6, <3>2
    <3>7. live + Cardinality(Taken) + Cardinality(InCleanUp) + attempt[o].calls = 1
      BY <3>2, <3>5, <3>6
    <3> QED
      BY <2>5, <3>2, <3>7 DEF live, Taken, InCleanUp
  <2> QED
    BY <2>9, <2>10
<1> QED
  BY <1>1, SpecIInv, PTL

(***************************************************************************)
(* When nobody is about to flush, the attempts in front wait for something *)
(* that has not happened; FlushUnlocked leaves none behind, and the        *)
(* dequeues of a closed queue find no enqueue before them.                 *)
(***************************************************************************)
THEOREM NobodyForgotten == Spec => []NoLostWakeup
<1>1. IInv => NoLostWakeup
  BY DEF IInv, LockInv, FlusherInv, Flushing, EnqueueStuck, DequeueStuck,
         NoLostWakeup
<1> QED
  BY <1>1, SpecIInv, PTL

(***************************************************************************)
(* TryDequeueMany hands over whole batches, whatever was cancelled or put  *)
(* back before; only DequeueUpTo of a closed queue may get less.           *)
(***************************************************************************)
THEOREM BatchesWhole == Spec => []WholeBatches
<1>1. ASSUME IInv PROVE WholeBatches
  <2> SUFFICES ASSUME NEW o \in Ops, attempt[o].calls = 1, attempt[o].status = "OK"
      PROVE  CASE Kind(o) \in {"dequeue", "dequeue_many"} ->
                    Len(attempt[o].result) = attempt[o].request.n
               [] Kind(o) = "dequeue_up_to" ->
                    /\ Len(attempt[o].result) <= attempt[o].request.n
                    /\ Len(attempt[o].result) < attempt[o].request.n =>
                          closed /\ attempt[o].result # <<>>
               [] OTHER -> attempt[o].result = <<>>
    BY DEF WholeBatches
  <2>1. Whole(o) /\ (Kind(o) \notin DequeueKinds => attempt[o].result = <<>>)
    BY <1>1 DEF IInv, OpInv, AttemptInv
  <2> QED
    BY <2>1 DEF Whole, DequeueKinds
<1> QED
  BY <1>1, SpecIInv, PTL

-----------------------------------------------------------------------------
(* The refinement.  FIFOOrder pins down what is inside: as the history of  *)
(* what came is what went and what is inside, it is enough to know how a   *)
(* step extends the two histories.                                         *)

Inside == PartialTuple \o queue

\* What has come is what has gone and what is inside.
LEMMA HistoryOfInside ==
    ASSUME IInv
    PROVE  /\ Inside \in Seq(Element) /\ consumed \in Seq(Element)
           /\ entered = consumed \o Inside
<1>1. /\ queue \in Seq(Element) /\ consumed \in Seq(Element) /\ FIFOOrder
      /\ dequeue_attempts \in Seq(Ops)
  BY DEF IInv, TypeOK
<1>2. PartialTuple \in Seq(Element)
  <2>1. /\ dequeue_attempts # <<>> => Head(dequeue_attempts) \in Ops
        /\ \A p \in Ops : attempt[p].tuple \in Seq(Element)
    BY <1>1, PendingTail, Typed DEF AttemptType
  <2> QED
    BY <2>1, EmptySeq DEF PartialTuple
<1>3. Inside \in Seq(Element)
  BY <1>1, <1>2, ConcatProperties DEF Inside
<1>4. Concat(Concat(consumed, PartialTuple), queue) =
         Concat(consumed, Concat(PartialTuple, queue))
  BY <1>1, <1>2, ConcatFacts
<1>5. (consumed \o PartialTuple) \o queue = consumed \o Inside
  BY <1>4 DEF Concat, Inside
<1> QED
  BY <1>1, <1>3, <1>5 DEF FIFOOrder

\* How a step may extend the histories.
Idles   == UNCHANGED <<entered, consumed, closed>>
Closes  == UNCHANGED <<entered, consumed>> /\ ~closed /\ closed'
Enters  == /\ ~closed /\ UNCHANGED <<consumed, closed>>
           /\ \E e \in Seq(Element) : e # <<>> /\ entered' = entered \o e
Removes == /\ UNCHANGED <<entered, closed>>
           /\ \E e \in Seq(Element) : consumed' = consumed \o e

\* A step that enters elements is one of the abstract queue.
LEMMA EntersStep ==
    ASSUME IInv, NEW x \in Threads, NEW o \in Ops, PushElements(x, o) PROVE Enters
<1> DEFINE a == attempt[o]
           left   == a.elements_requested
           pushed == LesserOf(left, Capacity - Len(queue))
           index  == a.request.n - left
           slice  == BatchSlice(o, index + 1, index + pushed)
<1>1. /\ RunsEnqueue(x, o) /\ Kind(o) = "enqueue" /\ ~closed
      /\ Len(queue) < Capacity /\ entered' = entered \o slice
      /\ UNCHANGED <<closed, consumed>>
  BY DEF PushElements
<1>2. /\ a \in AttemptType /\ OpInv(o) /\ enqueue_attempts \in Seq(Ops)
      /\ Len(queue) \in Nat /\ Capacity \in Nat
  BY QueueAssumption, LenProperties DEF IInv, TypeOK
<1>3. o \in Pending(enqueue_attempts)
  BY <1>1, <1>2, PendingTail DEF RunsEnqueue
<1>4. left \in 1..a.request.n /\ a.request.n \in Nat
  BY <1>1, <1>2, <1>3 DEF OpInv, AttemptInv, AttemptType, RequestType
<1>5. index \in Nat
  BY <1>4
<1>6. pushed \in Nat \ {0}
  <2>1. Capacity - Len(queue) \in Nat \ {0} /\ left \in Nat \ {0}
    <3>1. Len(queue) < Capacity
      BY <1>1
    <3> QED
      BY <1>2, <1>4, <3>1
  <2> HIDE DEF left
  <2> QED
    BY <2>1 DEF LesserOf
<1> HIDE DEF index, pushed
<1>7. slice \in Seq(Element) /\ Len(slice) = pushed
  BY <1>5, <1>6, SliceType
<1> HIDE DEF slice
<1>8. slice # <<>>
  BY <1>6, <1>7
<1> QED
  BY <1>1, <1>7, <1>8 DEF Enters

\* A step that removes elements is one of the abstract queue.
LEMMA RemovesStep ==
    ASSUME IInv, NEW x \in Threads, NEW o \in Ops,
           TakeElements(x, o) \/ TakeRemaining(x, o)
    PROVE  Idles \/ Removes
<1> DEFINE a == attempt[o]
           n == LesserOf(a.elements_requested, Len(queue))
           tuple == a.tuple \o SubSeq(queue, 1, n)
           all == a.tuple \o queue
<1>1. RunsDequeue(x, o) /\ UNCHANGED <<closed, entered>>
  BY DEF TakeElements, TakeRemaining
<1>2. \/ UNCHANGED consumed
      \/ consumed' = consumed \o tuple
      \/ consumed' = consumed \o all
  BY DEF TakeElements, TakeRemaining, Deliver, Restored
<1>3. /\ queue \in Seq(Element) /\ a.tuple \in Seq(Element)
      /\ Len(queue) \in Nat /\ a.elements_requested \in Nat
  BY <1>1, RunsDequeueFacts
<1>4. n \in Int /\ n <= Len(queue)
  <2> HIDE DEF a
  <2> QED
    BY <1>3 DEF LesserOf
<1> HIDE DEF n
<1>5. SubSeq(queue, 1, n) \in Seq(Element)
  <2>1. \A i \in 1..n : queue[i] \in Element
    BY <1>3, <1>4, ElementOfSeq
  <2> QED
    BY <1>4, <2>1, SubSeqProperties
<1>6. tuple \in Seq(Element) /\ all \in Seq(Element)
  BY <1>3, <1>5, ConcatProperties
<1> HIDE DEF tuple, all
<1> QED
  BY <1>1, <1>2, <1>6 DEF Idles, Removes

\* No other step touches a history.
LEMMA HistoryStep ==
    ASSUME IInv, [Next]_vars PROVE Idles \/ Closes \/ Enters \/ Removes
<1>1. closed \in BOOLEAN
  BY DEF IInv, TypeOK
<1>2. ASSUME NEW o \in Ops, Call(o) PROVE Idles \/ Closes
  BY <1>1, <1>2 DEF Call, DequeueManyWithoutShapes, EmptyBatch, Emplace,
     AlreadyCancelled, Close, CloseAndCancel, queueVars, rest, Idles, Closes
<1>3. ASSUME NEW x \in Threads, FlushUnlocked(x)
      PROVE  Idles \/ Closes \/ Enters \/ Removes
  <2>1. ASSUME NEW o \in Ops, RunClose(x, o) \/ EnqueueOnClosed(x, o)
        PROVE  Idles \/ Closes
    BY <1>1, <2>1 DEF RunClose, EnqueueOnClosed, rest, Idles, Closes
  <2>2. ASSUME NEW o \in Ops, InsufficientElements(x, o) PROVE Idles
    BY <2>2 DEF InsufficientElements, rest, Idles
  <2>3. ASSUME NEW o \in Ops, \/ PushElements(x, o) \/ TakeElements(x, o)
                              \/ TakeRemaining(x, o)
        PROVE  Idles \/ Enters \/ Removes
    BY <2>3, EntersStep, RemovesStep
  <2>4. CASE SkipCancelledDequeue(x)
    <3>1. /\ dequeue_attempts # <<>> /\ UNCHANGED <<entered, closed>>
          /\ consumed' = consumed \o attempt[Head(dequeue_attempts)].tuple
      BY <2>4 DEF SkipCancelledDequeue
    <3>2. Head(dequeue_attempts) \in Ops
      BY <3>1, PendingTail DEF IInv, TypeOK
    <3>3. attempt[Head(dequeue_attempts)].tuple \in Seq(Element)
      BY <3>2, Typed DEF AttemptType
    <3> QED
      BY <3>1, <3>3 DEF Removes
  <2>5. CASE \/ CallCancelled(x) \/ Lock(x) \/ SkipCancelledEnqueue(x)
             \/ EnqueuePhaseEnds(x) \/ DequeuePhaseEnds(x) \/ CleanUp(x)
             \/ WaitForNotification(x)
    BY <2>5 DEF CallCancelled, Lock, SkipCancelledEnqueue, EnqueuePhaseEnds,
       DequeuePhaseEnds, CleanUp, WaitForNotification, queueVars, rest, Idles
  <2> QED
    BY <1>3, <2>1, <2>2, <2>3, <2>4, <2>5 DEF FlushUnlocked, RunAttempt
<1>4. ASSUME NEW o \in Ops, ReturnOp(o) PROVE Idles
  BY <1>4 DEF ReturnOp, queueVars, rest, Idles
<1>5. ASSUME NEW m \in Managers, \/ StartCancel(m) \/ Cancel(m) \/ CallbacksDone(m)
                                 \/ Notify(m) \/ ReturnCancel(m)
      PROVE  Idles
  BY <1>5 DEF StartCancel, Cancel, CallbacksDone, Notify, ReturnCancel, queueVars,
     rest, Idles
<1>6. CASE UNCHANGED vars
  BY <1>6 DEF vars, queueVars, rest, Idles
<1> QED
  BY <1>2, <1>3, <1>4, <1>5, <1>6, Kinds DEF Next, OpStep, CancelStep

\* The two parts of a concatenation.
LEMMA SplitConcat ==
    ASSUME NEW S, NEW s \in Seq(S), NEW t \in Seq(S)
    PROVE  /\ Len(Concat(s, t)) = Len(s) + Len(t)
           /\ Front(Concat(s, t), Len(s)) = s
           /\ Back(Concat(s, t), Len(s)) = t
<1>1. Len(s) \in Nat /\ Len(t) \in Nat /\ Len(s \o t) = Len(s) + Len(t)
  BY LenProperties, ConcatProperties
<1>2. SubSeq(s \o t, 1, Len(s)) = s
  <2>1. CASE s = <<>>
    <3>1. SubSeq(s \o t, 1, 0) = <<>>
      BY SubSeqEmpty
    <3> QED
      BY <2>1, <3>1
  <2>2. CASE s # <<>>
    <3>1. 1 \in 1..Len(s) /\ Len(s) \in 1..Len(s)
      BY <1>1, <2>2, EmptySeq
    <3>2. SubSeq(s \o t, 1, Len(s)) = SubSeq(s, 1, Len(s))
      BY <3>1, SubSeqOfConcat1
    <3> QED
      BY <3>2, SubSeqFull
  <2> QED
    BY <2>1, <2>2
<1>3. SubSeq(s \o t, Len(s) + 1, Len(s \o t)) = t
  <2>1. CASE t = <<>>
    <3>1. SubSeq(s \o t, Len(s) + 1, Len(s)) = <<>>
      BY <1>1, SubSeqEmpty
    <3> QED
      BY <1>1, <2>1, <3>1
  <2>2. CASE t # <<>>
    <3> DEFINE l == Len(s) + 1
               h == Len(s) + Len(t)
    <3>1. /\ l \in (Len(s) + 1)..(Len(s) + Len(t))
          /\ h \in (Len(s) + 1)..(Len(s) + Len(t))
          /\ l - Len(s) = 1 /\ h - Len(s) = Len(t)
      BY <1>1, <2>2, EmptySeq
    <3> HIDE DEF l, h
    <3>2. SubSeq(s \o t, l, h) = SubSeq(t, l - Len(s), h - Len(s))
      BY <3>1, SubSeqOfConcat2
    <3>3. SubSeq(s \o t, l, h) = t
      BY <3>1, <3>2, SubSeqFull
    <3> QED
      BY <1>1, <3>3 DEF l, h
  <2> QED
    BY <2>1, <2>2
<1> QED
  BY <1>1, <1>2, <1>3 DEF Concat, Front, Back

\* What follows the same sequence in the same sequence is the same.
LEMMA CancelConcat ==
    ASSUME NEW S, NEW s \in Seq(S), NEW t \in Seq(S), NEW u \in Seq(S),
           Concat(s, t) = Concat(s, u)
    PROVE  t = u
<1>1. Back(Concat(s, t), Len(s)) = t
  BY SplitConcat
<1>2. Back(Concat(s, u), Len(s)) = u
  BY SplitConcat
<1> QED
  BY <1>1, <1>2

InsideHistory == /\ Inside \in Seq(Element) /\ consumed \in Seq(Element)
                 /\ entered = consumed \o Inside

\* A step from what is inside, and has gone, to what will be.
LEMMA HistoryRefines ==
    ASSUME InsideHistory, InsideHistory', Idles \/ Closes \/ Enters \/ Removes
    PROVE  [Abs!Next]_(Abs!absVars)
<1> DEFINE c == consumed
           i == Inside
           j == Inside'
<1>1. /\ i \in Seq(Element) /\ c \in Seq(Element) /\ j \in Seq(Element)
      /\ consumed' \in Seq(Element)
      /\ entered = Concat(c, i) /\ entered' = Concat(consumed', j)
  BY DEF InsideHistory, Concat
<1>2. ASSUME UNCHANGED <<entered, consumed>> PROVE Inside' = Inside
  <2>1. Concat(c, j) = Concat(c, i)
    BY <1>1, <1>2
  <2> QED
    BY <1>1, <2>1, CancelConcat
<1>3. CASE Idles
  BY <1>2, <1>3 DEF Idles, Inside, Abs!absVars
<1>4. CASE Closes
  BY <1>2, <1>4 DEF Closes, Inside, Abs!absVars, Abs!Next, Abs!Close
<1>5. CASE Enters
  <2>1. PICK e \in Seq(Element) : e # <<>> /\ entered' = entered \o e
    BY <1>5 DEF Enters
  <2>2. consumed' = consumed /\ closed' = closed /\ ~closed
    BY <1>5 DEF Enters
  <2>3. Concat(c, j) = Concat(Concat(c, i), e)
    BY <1>1, <2>1, <2>2 DEF Concat
  <2>4. Concat(i, e) \in Seq(Element) /\ Concat(c, j) = Concat(c, Concat(i, e))
    BY <1>1, <2>3, ConcatFacts
  <2>5. j = Concat(i, e)
    BY <1>1, <2>4, CancelConcat
  <2>6. Len(j) = Len(i) + Len(e) /\ Front(j, Len(i)) = i
    BY <1>1, <2>5, SplitConcat
  <2>7. Len(e) \in Nat \ {0} /\ Len(i) \in Nat
    BY <1>1, <2>1, EmptySeq, LenProperties
  <2>8. Len(Inside') > Len(Inside)
    BY <2>6, <2>7
  <2>9. SubSeq(Inside', 1, Len(Inside)) = Inside
    BY <2>6 DEF Front
  <2>10. Abs!Enqueue
    BY <2>2, <2>8, <2>9 DEF Abs!Enqueue, Inside
  <2> QED
    BY <2>10 DEF Abs!Next
<1>6. CASE Removes
  <2>1. PICK e \in Seq(Element) : consumed' = consumed \o e
    BY <1>6 DEF Removes
  <2>2. entered' = entered /\ closed' = closed
    BY <1>6 DEF Removes
  <2>3. Concat(Concat(c, e), j) = Concat(c, i)
    BY <1>1, <2>1, <2>2 DEF Concat
  <2>4. Concat(e, j) \in Seq(Element) /\ Concat(c, Concat(e, j)) = Concat(c, i)
    BY <1>1, <2>3, ConcatFacts
  <2>5. i = Concat(e, j)
    BY <1>1, <2>4, CancelConcat
  <2>6. Len(i) = Len(e) + Len(j) /\ Front(i, Len(e)) = e /\ Back(i, Len(e)) = j
    BY <1>1, <2>5, SplitConcat
  <2>7. Len(e) \in Nat /\ Len(j) \in Nat
    BY <1>1, LenProperties
  <2>8. CASE e = <<>>
    <3>1. c \o e = c /\ e \o j = j
      BY <1>1, <2>8, ConcatEmptySeq
    <3>2. Inside' = Inside /\ consumed' = consumed
      BY <2>1, <2>5, <3>1 DEF Concat
    <3> QED
      BY <2>2, <3>2 DEF Inside, Abs!absVars
  <2>9. CASE e # <<>>
    <3>1. Len(e) \in 1..Len(Inside)
      BY <2>6, <2>7, <2>9, EmptySeq
    <3>2. /\ consumed' = consumed \o SubSeq(Inside, 1, Len(e))
          /\ Inside' = SubSeq(Inside, Len(e) + 1, Len(Inside))
      BY <2>1, <2>6 DEF Front, Back
    <3>3. Abs!Remove
      BY <2>2, <3>1, <3>2 DEF Abs!Remove, Inside
    <3> QED
      BY <3>3 DEF Abs!Next
  <2> QED
    BY <2>8, <2>9
<1> QED
  BY <1>3, <1>4, <1>5, <1>6

(***************************************************************************)
(* FIFOQueue with its attempts, threads, cancellation and batches is the   *)
(* queue that queue_interface.h promises: every step of it enqueues at one *)
(* end, removes at the other, closes, or changes nothing one can see.      *)
(***************************************************************************)
THEOREM IsAQueue == Spec => ImplementsQueue
<1>1. Init => Abs!Init
  <2>1. <<>> \o <<>> = <<>>
    OBVIOUS
  <2> QED
    BY <2>1 DEF Init, Abs!Init, PartialTuple
<1>2. IInv => InsideHistory
  BY HistoryOfInside DEF InsideHistory
<1>3. InsideHistory /\ InsideHistory' /\ IInv /\ [Next]_vars
         => [Abs!Next]_(Abs!absVars)
  BY HistoryStep, HistoryRefines
<1> QED
  BY <1>1, <1>2, <1>3, SpecIInv, PTL DEF Spec, ImplementsQueue, Abs!Spec

=============================================================================
