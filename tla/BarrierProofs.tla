---------------------------- MODULE BarrierProofs ----------------------------
(***************************************************************************)
(* The barrier loses and duplicates no value, and TakeMany keeps its word, *)
(* for any number of calls, keys and components, and any arguments, a key  *)
(* that one call names twice included.  The inductive invariant says how   *)
(* far each call is and what it still owes, where the values of a tuple    *)
(* come from, that no value is in two tuples, and that each value that was *)
(* inserted is in some tuple, be it one that a call has lost.              *)
(***************************************************************************)
EXTENDS Barrier, SequenceTheorems, FiniteSetTheorems, TLAPS

Distinct(s) == \A i, j \in DOMAIN s : s[i] = s[j] => i = j

\* The call has an attempt in the ready queue.
Listed(c) == Contains(enqueue_attempts, c) \/ Contains(dequeue_attempts, c)

\* How far a call is, and that its status is set once.
CallInv(c) ==
    /\ pc[c] # "idle" => c \in DOMAIN request
    /\ pc[c] \in {"idle", "insert", "enqueue", "dequeue", "close"} =>
          status[c] = "none" /\ ~Listed(c)
    /\ Listed(c) => status[c] = "none"
    /\ pc[c] = "close" => /\ c \in Closes /\ closed
                          /\ request[c].cancel => cancel_pending_enqueues
    /\ c \in Closes /\ Listed(c) => closed /\ ~request[c].cancel

InsertInv(c) ==
    /\ pc[c] = "idle" => inserted[c] = 0
    /\ c \in DOMAIN request => inserted[c] <= Len(request[c].keys)
    /\ pc[c] \notin {"idle", "insert"} =>
          inserted[c] = Len(request[c].keys) \/ Failed(c)
    /\ IsFiniteSet(tuples[c])

\* A take that is under way has something to get, and if it has begun, or
\* wants less than it was asked for, it may deliver a small batch.
TakeInv(t) ==
    /\ pc[t] = "idle" => got[t] = {}
    /\ pc[t] = "dequeue" \/ Contains(dequeue_attempts, t) =>
          /\ IsFiniteSet(got[t]) /\ need[t] > 0
          /\ \/ Cardinality(got[t]) + need[t] = request[t].n
             \/ request[t].small /\ closed
          /\ got[t] # {} => request[t].small
    /\ status[t] = "OK" => \/ Cardinality(got[t]) = request[t].n
                           \/ request[t].small /\ closed /\ got[t] # {}
    /\ status[t] = "OutOfRange" => closed

QueueInv ==
    /\ cancel_pending_enqueues => closed
    /\ rq_closed => closed
    /\ dropped # {} => cancel_pending_enqueues
    /\ Distinct(enqueue_attempts) /\ Distinct(dequeue_attempts)
    /\ IsFiniteSet(ready)

\* Value v of component j, in a tuple of key k, is one that a call has inserted
\* there.
Genuine(v, j, k) ==
    \E c \in Inserts \cap DOMAIN request : \E i \in 1..inserted[c] :
        v = <<c, i>> /\ request[c].component = j /\ request[c].keys[i] = k

GenuineAll(es) == \A e \in es, j \in Components : Genuine(e.value[j], j, e.key)

SourceInv ==
    /\ \A k \in Keys, j \in Components :
          incomplete[k].value[j] # None => Genuine(incomplete[k].value[j], j, k)
    /\ GenuineAll(ready)
    /\ \A d \in Inserts : GenuineAll(tuples[d])
    /\ \A t \in Takes : GenuineAll(got[t])

\* No value is in two tuples, wherever they are.
Share(e, f) == \E j \in Components : e.value[j] = f.value[j]

ApartInv ==
    /\ \A e, f \in ready : Share(e, f) => e = f
    /\ \A c, d \in Inserts : \A e \in tuples[c], f \in tuples[d] :
          Share(e, f) => c = d /\ e = f
    /\ \A t, u \in Takes : \A e \in got[t], f \in got[u] : Share(e, f) => t = u
    /\ \A d \in Inserts : \A e \in tuples[d], f \in ready : ~Share(e, f)
    /\ \A d \in Inserts, t \in Takes : \A e \in tuples[d], f \in got[t] : ~Share(e, f)
    /\ \A t \in Takes : \A e \in got[t], f \in ready : ~Share(e, f)
    /\ \A k \in Keys : \A f \in ready : ~Share(incomplete[k], f)
    /\ \A k \in Keys, d \in Inserts : \A f \in tuples[d] : ~Share(incomplete[k], f)
    /\ \A k \in Keys, t \in Takes : \A f \in got[t] : ~Share(incomplete[k], f)

Somewhere(c, i) ==
    \/ \E k \in Keys : incomplete[k].value[request[c].component] = <<c, i>>
    \/ Holds(ready, c, i)
    \/ \E d \in Inserts : Holds(tuples[d], c, i)
    \/ \E t \in Takes : Holds(got[t], c, i)
    \/ Holds(dropped, c, i)

KeptInv ==
    \A c \in Inserts \cap DOMAIN request : \A i \in 1..inserted[c] : Somewhere(c, i)

LocalInv(c) == /\ CallInv(c)
               /\ c \in Inserts => InsertInv(c)
               /\ c \in Takes => TakeInv(c)

ValuesInv == SourceInv /\ ApartInv /\ KeptInv

IInv == TypeOK /\ QueueInv /\ (\A c \in Calls : LocalInv(c)) /\ ValuesInv

-----------------------------------------------------------------------------
(* Sequences without repetition. *)

\* An attempt joins a list at the end.
LEMMA AppendFacts ==
    ASSUME NEW S, NEW s \in Seq(S), NEW o \in S
    PROVE  /\ Append(s, o) \in Seq(S)
           /\ \A x : Contains(Append(s, o), x) <=> Contains(s, x) \/ x = o
           /\ Distinct(s) /\ ~Contains(s, o) => Distinct(Append(s, o))
<1> DEFINE t == Append(s, o)
<1>1. /\ t \in Seq(S) /\ Len(t) = Len(s) + 1 /\ Len(s) \in Nat
      /\ DOMAIN t = 1..Len(t) /\ DOMAIN s = 1..Len(s)
      /\ \A i \in 1..Len(s) : t[i] = s[i]
      /\ t[Len(s) + 1] = o
  BY AppendProperties
<1> HIDE DEF t
<1>2. \A x : Contains(t, x) <=> Contains(s, x) \/ x = o
  BY <1>1 DEF Contains
<1>3. Distinct(s) /\ ~Contains(s, o) => Distinct(t)
  BY <1>1 DEF Contains, Distinct
<1> QED BY <1>1, <1>2, <1>3 DEF t

\* The first attempt leaves a list.
LEMMA TailFacts ==
    ASSUME NEW S, NEW s \in Seq(S), s # <<>>
    PROVE  /\ Head(s) \in S /\ Tail(s) \in Seq(S)
           /\ Contains(s, Head(s))
           /\ \A x : Contains(Tail(s), x) => Contains(s, x)
           /\ Distinct(s) => Distinct(Tail(s)) /\ ~Contains(Tail(s), Head(s))
<1> DEFINE t == Tail(s)
<1>1. /\ t \in Seq(S) /\ Len(t) = Len(s) - 1 /\ Len(s) \in Nat \ {0}
      /\ DOMAIN t = 1..Len(t) /\ DOMAIN s = 1..Len(s)
      /\ \A i \in 1..Len(t) : t[i] = s[i + 1]
      /\ Head(s) = s[1] /\ s[1] \in S
  BY HeadTailProperties
<1> HIDE DEF t
<1>2. Contains(s, Head(s))
  BY <1>1 DEF Contains
<1>3. \A x : Contains(t, x) => Contains(s, x)
  <2> TAKE x
  <2> HAVE Contains(t, x)
  <2>1. PICK i \in 1..Len(t) : t[i] = x
    BY DEF Contains
  <2>2. i + 1 \in 1..Len(s) /\ s[i + 1] = x
    BY <1>1, <2>1
  <2> QED BY <2>2 DEF Contains
<1>4. Distinct(s) => Distinct(t) /\ ~Contains(t, Head(s))
  <2> HAVE Distinct(s)
  <2>1. Distinct(t)
    <3> SUFFICES ASSUME NEW i \in DOMAIN t, NEW j \in DOMAIN t, t[i] = t[j]
                 PROVE  i = j
      BY DEF Distinct
    <3>1. i + 1 \in DOMAIN s /\ j + 1 \in DOMAIN s /\ s[i + 1] = s[j + 1]
      BY <1>1
    <3> QED BY <1>1, <3>1 DEF Distinct
  <2>2. ASSUME Contains(t, Head(s)) PROVE FALSE
    <3>1. PICK i \in 1..Len(t) : t[i] = Head(s)
      BY <2>2 DEF Contains
    <3>2. i + 1 \in DOMAIN s /\ 1 \in DOMAIN s /\ s[i + 1] = s[1]
      BY <1>1, <3>1
    <3> QED BY <1>1, <3>2 DEF Distinct
  <2> QED BY <2>1, <2>2
<1> QED BY <1>1, <1>2, <1>3, <1>4 DEF t

\* The empty sequence repeats and contains nothing.
LEMMA EmptyFacts == Distinct(<<>>) /\ \A x : ~Contains(<<>>, x)
BY DEF Distinct, Contains

-----------------------------------------------------------------------------
(* What a step leaves alone. *)

Late == {"flush", "flushing", "finish", "done"}

\* Nothing of call c changes, or it goes from one stage after its own step on
\* the queue to another.
Untouched(c) ==
    /\ pc'[c] = pc[c] \/ (pc[c] \in Late /\ pc'[c] \in Late)
    /\ status'[c] = status[c]
    /\ Contains(enqueue_attempts, c)' => Contains(enqueue_attempts, c)
    /\ Contains(dequeue_attempts, c)' => Contains(dequeue_attempts, c)
    /\ c \in Inserts => inserted'[c] = inserted[c] /\ tuples'[c] = tuples[c]
    /\ c \in Takes => need'[c] = need[c] /\ got'[c] = got[c]

\* A barrier that is closed stays closed.
Onwards == /\ request' = request
           /\ closed => closed'
           /\ cancel_pending_enqueues => cancel_pending_enqueues'

\* A call that no step touches keeps its invariant.
LEMMA UntouchedInv ==
    ASSUME Onwards, NEW c \in Calls, LocalInv(c), Untouched(c)
    PROVE  LocalInv(c)'
<1> USE DEF Onwards, Untouched, LocalInv, Late
<1>1. Listed(c)' => Listed(c)
  BY DEF Listed
<1>2. CallInv(c)'
  BY <1>1 DEF CallInv
<1>3. c \in Inserts => InsertInv(c)'
  BY DEF InsertInv, Failed
<1>4. c \in Takes => TakeInv(c)'
  BY DEF TakeInv
<1> QED BY <1>2, <1>3, <1>4

\* It is enough to follow the values that were somewhere.
LEMMA KeptIf ==
    ASSUME KeptInv, Onwards, inserted' = inserted,
           ASSUME NEW c \in Inserts \cap DOMAIN request, NEW i \in 1..inserted[c],
                  Somewhere(c, i)
           PROVE  Somewhere(c, i)'
    PROVE  KeptInv'
<1> SUFFICES ASSUME NEW c \in Inserts \cap DOMAIN request, NEW i \in 1..inserted[c]
             PROVE  Somewhere(c, i)'
  BY DEF KeptInv, Onwards
<1> QED BY DEF KeptInv

\* The values stay where they are.
LEMMA StillInv ==
    ASSUME ValuesInv, Onwards, inserted \in [Inserts -> Nat],
           UNCHANGED <<incomplete, dropped, ready, inserted, tuples, got>>
    PROVE  ValuesInv'
<1> USE DEF ValuesInv
<1>1. SourceInv'
  BY DEF SourceInv, GenuineAll, Genuine, Onwards
<1>2. ApartInv'
  BY DEF ApartInv, Share
<1>3. KeptInv'
  <2>1. ASSUME NEW c \in Inserts \cap DOMAIN request, NEW i \in 1..inserted[c],
               Somewhere(c, i)
        PROVE  Somewhere(c, i)'
    BY <2>1 DEF Somewhere, Holds, Onwards
  <2> QED BY <2>1, KeptIf
<1> QED BY <1>1, <1>2, <1>3

\* The tuples of an insert move to the ready queue.
LEMMA EnqueuedInv ==
    ASSUME TypeOK, ValuesInv, Onwards, NEW d \in Inserts,
           UNCHANGED <<incomplete, dropped, inserted, got>>,
           ready' = ready \cup tuples[d],
           tuples' = [tuples EXCEPT ![d] = {}]
    PROVE  ValuesInv'
<1> USE DEF ValuesInv
<1>0. /\ tuples'[d] = {}
      /\ \A c \in Inserts \ {d} : tuples'[c] = tuples[c]
      /\ inserted \in [Inserts -> Nat]
  BY DEF TypeOK
<1>1. SourceInv'
  BY <1>0 DEF SourceInv, GenuineAll, Genuine, Onwards
<1>2. ApartInv'
  BY <1>0 DEF ApartInv, Share
<1>3. KeptInv'
  <2>1. ASSUME NEW c \in Inserts \cap DOMAIN request, NEW i \in 1..inserted[c],
               Somewhere(c, i)
        PROVE  Somewhere(c, i)'
    BY <1>0, <2>1 DEF Somewhere, Holds, Onwards
  <2> QED BY <1>0, <2>1, KeptIf
<1> QED BY <1>1, <1>2, <1>3

\* A take takes elements of the ready queue.
LEMMA TakenInv ==
    ASSUME TypeOK, ValuesInv, Onwards, NEW u \in Takes, NEW es \in SUBSET ready,
           UNCHANGED <<incomplete, dropped, inserted, tuples>>,
           ready' = ready \ es,
           got' = [got EXCEPT ![u] = @ \cup es]
    PROVE  ValuesInv'
<1> USE DEF ValuesInv
<1>0. /\ got'[u] = got[u] \cup es
      /\ \A t \in Takes \ {u} : got'[t] = got[t]
      /\ inserted \in [Inserts -> Nat]
  BY DEF TypeOK
<1>1. SourceInv'
  BY <1>0 DEF SourceInv, GenuineAll, Genuine, Onwards
<1>2. ApartInv'
  BY <1>0 DEF ApartInv, Share
<1>3. KeptInv'
  <2>1. ASSUME NEW c \in Inserts \cap DOMAIN request, NEW i \in 1..inserted[c],
               Somewhere(c, i)
        PROVE  Somewhere(c, i)'
    BY <1>0, <2>1 DEF Somewhere, Holds, Onwards
  <2> QED BY <1>0, <2>1, KeptIf
<1> QED BY <1>1, <1>2, <1>3

\* The incomplete tuples are dropped.
LEMMA ClearedInv ==
    ASSUME TypeOK, ValuesInv, Onwards,
           UNCHANGED <<ready, inserted, tuples, got>>,
           incomplete' = [k \in Keys |-> NoTuple],
           dropped' = dropped \cup {incomplete[k] : k \in Incomplete}
    PROVE  ValuesInv'
<1> USE DEF ValuesInv
<1>0. /\ \A k \in Keys, j \in Components : incomplete'[k].value[j] = None
      /\ inserted \in [Inserts -> Nat]
  BY DEF TypeOK, NoTuple
<1>4. \A v, j, k : Genuine(v, j, k) => v # None
  BY BarrierAssumption, <1>0 DEF Genuine
<1>1. SourceInv'
  BY <1>0 DEF SourceInv, GenuineAll, Genuine, Onwards
<1>2. ApartInv'
  BY <1>0, <1>4 DEF ApartInv, Share, SourceInv, GenuineAll
<1>3. KeptInv'
  <2>1. ASSUME NEW c \in Inserts \cap DOMAIN request, NEW i \in 1..inserted[c],
               Somewhere(c, i)
        PROVE  Somewhere(c, i)'
    <3>1. ASSUME NEW k \in Keys, incomplete[k].value[request[c].component] = <<c, i>>
          PROVE  Holds(dropped, c, i)'
      <4>1. request[c].component \in Components
        BY BarrierAssumption DEF TypeOK
      <4>2. <<c, i>> # None
        BY BarrierAssumption, <1>0
      <4>3. k \in Incomplete
        <5>1. NoTuple.value[request[c].component] = None
          BY <4>1 DEF NoTuple
        <5>2. incomplete[k] # NoTuple
          BY <3>1, <4>2, <5>1
        <5> QED BY <5>2 DEF Incomplete
      <4>4. incomplete[k] \in dropped'
        BY <4>3
      <4> QED BY <3>1, <4>4 DEF Holds, Onwards
    <3>2. ASSUME Holds(ready, c, i) \/ Holds(dropped, c, i)
          PROVE  (Holds(ready, c, i) \/ Holds(dropped, c, i))'
      BY <3>2 DEF Holds, Onwards
    <3>3. ASSUME NEW d \in Inserts, Holds(tuples[d], c, i)
          PROVE  Holds(tuples[d], c, i)'
      BY <3>3 DEF Holds, Onwards
    <3>4. ASSUME NEW t \in Takes, Holds(got[t], c, i)
          PROVE  Holds(got[t], c, i)'
      BY <3>4 DEF Holds, Onwards
    <3> QED BY <2>1, <3>1, <3>2, <3>3, <3>4 DEF Somewhere
  <2> QED BY <2>1, KeptIf
<1> QED BY <1>1, <1>2, <1>3

\* The arguments of a call that is made.
LEMMA Arguments ==
    ASSUME TypeOK
    PROVE  /\ \A c \in Inserts \cap DOMAIN request :
                 /\ request[c].keys \in Seq(Keys)
                 /\ request[c].component \in Components
           /\ \A t \in Takes \cap DOMAIN request : request[t].n \in Nat \ {0}
           /\ DOMAIN request \subseteq Calls
BY BarrierAssumption DEF TypeOK

\* What InsertOneLocked puts into the tuple of a key is a new value, in a place
\* that was empty.
LEMMA NextValue ==
    ASSUME TypeOK, SourceInv, NEW c \in Inserts \cap DOMAIN request, Inserting(c)
    PROVE  /\ NextKey(c) \in Keys
           /\ inserted[c] \in Nat /\ inserted[c] + 1 \in DOMAIN request[c].keys
           /\ <<c, inserted[c] + 1>> \in ValueType
           /\ <<c, inserted[c] + 1>> # None
           /\ request[c].component \in Components
           /\ \A j, k : ~Genuine(<<c, inserted[c] + 1>>, j, k)
           /\ Extended(c) \in TupleType
           /\ \A j \in Components :
                 Extended(c).value[j] = IF j = request[c].component
                                          THEN <<c, inserted[c] + 1>>
                                          ELSE incomplete[NextKey(c)].value[j]
<1>1. request[c].keys \in Seq(Keys) /\ request[c].component \in Components
  BY Arguments
<1>2. inserted[c] \in Nat /\ inserted[c] + 1 \in 1..Len(request[c].keys)
  BY <1>1 DEF TypeOK, Inserting
<1>3. NextKey(c) \in Keys
  BY <1>1, <1>2 DEF NextKey
<1>4. <<c, inserted[c] + 1>> \in Inserts \X Nat
  BY <1>2
<1>5. <<c, inserted[c] + 1>> # None
  BY <1>4, BarrierAssumption
<1>6. \A j, k : ~Genuine(<<c, inserted[c] + 1>>, j, k)
  BY <1>2 DEF Genuine
<1>7. incomplete[NextKey(c)] \in TupleType /\ input_index \in Nat
  BY <1>3 DEF TypeOK
<1>8. /\ Extended(c) \in TupleType
      /\ \A j \in Components :
            Extended(c).value[j] = IF j = request[c].component
                                     THEN <<c, inserted[c] + 1>>
                                     ELSE incomplete[NextKey(c)].value[j]
  BY <1>1, <1>4, <1>7 DEF Extended, TupleType, ValueType
<1>9. inserted[c] + 1 \in DOMAIN request[c].keys
  BY <1>1, <1>2
<1>10. <<c, inserted[c] + 1>> \in ValueType
  BY <1>4 DEF ValueType
<1> QED BY ONLY <1>1, <1>2, <1>3, <1>5, <1>6, <1>8, <1>9, <1>10, Zenon

\* The call inserts the value of its next key, and perhaps completes the tuple.
LEMMA PutInv ==
    ASSUME TypeOK, ValuesInv, NEW c \in Inserts \cap DOMAIN request, InsertOneLocked(c)
    PROVE  ValuesInv'
<1> DEFINE v == <<c, inserted[c] + 1>>
           J == request[c].component
           K == NextKey(c)
           F == Extended(c)
           complete == \A j \in Components : F.value[j] # None
           E == Element(K, F)
<1> USE DEF ValuesInv
<1>1. /\ K \in Keys /\ J \in Components /\ v # None /\ F \in TupleType
      /\ inserted[c] \in Nat /\ inserted[c] + 1 \in DOMAIN request[c].keys
      /\ \A j, k : ~Genuine(v, j, k)
      /\ F.value[J] = v
      /\ \A j \in Components \ {J} : F.value[j] = incomplete[K].value[j]
      /\ incomplete[K].value[J] = None
  BY NextValue DEF InsertOneLocked, Taken
<1>2. /\ request' = request /\ status' = status /\ ready' = ready /\ got' = got
      /\ dropped' = dropped
      /\ inserted' = [inserted EXCEPT ![c] = inserted[c] + 1]
      /\ incomplete' = [incomplete EXCEPT ![K] = IF complete THEN NoTuple ELSE F]
      /\ tuples' = IF complete THEN [tuples EXCEPT ![c] = tuples[c] \cup {E}] ELSE tuples
  BY DEF InsertOneLocked, queue, outcome
<1>3. /\ inserted \in [Inserts -> Nat] /\ tuples \in [Inserts -> SUBSET ElementType]
      /\ incomplete \in [Keys -> TupleType]
  BY DEF TypeOK
<1>4. /\ \A d \in Inserts : inserted'[d] = IF d = c THEN inserted[c] + 1 ELSE inserted[d]
      /\ \A k \in Keys \ {K} : incomplete'[k] = incomplete[k]
      /\ incomplete'[K] = IF complete THEN NoTuple ELSE F
      /\ \A d \in Inserts \ {c} : tuples'[d] = tuples[d]
      /\ tuples'[c] = IF complete THEN tuples[c] \cup {E} ELSE tuples[c]
      /\ E.value = F.value /\ E.key = K
      /\ \A j \in Components : NoTuple.value[j] = None
  BY <1>1, <1>2, <1>3 DEF Element, NoTuple
<1>5. \A w, j, k : Genuine(w, j, k) => w # None /\ w # v
  BY <1>1, <1>3, BarrierAssumption DEF Genuine
<1>6. /\ \A w, j, k : Genuine(w, j, k) => Genuine(w, j, k)'
      /\ \A w, j, k : w = v /\ j = J /\ k = K => Genuine(w, j, k)'
  BY <1>1, <1>2, <1>3, <1>4 DEF Genuine, NextKey
<1> HIDE DEF v, J, K, F, complete, E
<1>7. SourceInv'
  <2>1. ASSUME NEW k \in Keys, NEW j \in Components, incomplete'[k].value[j] # None
        PROVE  Genuine(incomplete[k].value[j], j, k)'
    BY <1>1, <1>4, <1>6, <2>1 DEF SourceInv
  <2>2. GenuineAll(ready)' /\ \A t \in Takes : GenuineAll(got[t])'
    BY <1>2, <1>6 DEF SourceInv, GenuineAll
  <2>3. ASSUME complete
        PROVE  \A j \in Components : \A w, k : w = E.value[j] /\ k = E.key => Genuine(w, j, k)'
    BY <1>1, <1>4, <1>6, <2>3 DEF SourceInv, complete
  <2>4. \A d \in Inserts : GenuineAll(tuples[d])'
    BY <1>4, <1>6, <2>3 DEF SourceInv, GenuineAll
  <2> QED BY <2>1, <2>2, <2>4 DEF SourceInv
<1>8. ApartInv'
  <2>1. \A es : (GenuineAll(es) /\ \A f \in es : ~Share(incomplete[K], f))
                   => \A f \in es : ~Share(F, f)
    BY <1>1, <1>5 DEF GenuineAll, Share
  <2>2. \A es : GenuineAll(es) => \A f \in es : ~Share(NoTuple, f)
    BY <1>4, <1>5 DEF GenuineAll, Share
  <2>3. /\ \A f \in ready : ~Share(F, f) /\ ~Share(NoTuple, f)
        /\ \A d \in Inserts : \A f \in tuples[d] : ~Share(F, f) /\ ~Share(NoTuple, f)
        /\ \A t \in Takes : \A f \in got[t] : ~Share(F, f) /\ ~Share(NoTuple, f)
    BY <1>1, <2>1, <2>2 DEF SourceInv, ApartInv
  <2>4. ASSUME complete, NEW k \in Keys \ {K} PROVE ~Share(incomplete[k], F)
    <3> SUFFICES ASSUME NEW j \in Components, incomplete[k].value[j] = F.value[j]
                 PROVE  FALSE
      BY DEF Share
    <3>1. Genuine(F.value[j], j, k)
      BY <2>4 DEF SourceInv, complete
    <3>2. j # J
      BY <1>1, <3>1, <1>5
    <3>3. Genuine(F.value[j], j, K)
      BY <1>1, <2>4, <3>2 DEF SourceInv, complete
    <3> QED BY <3>1, <3>3 DEF Genuine
  <2>5. ASSUME complete PROVE ~Share(NoTuple, F)
    BY <1>4, <2>5 DEF Share, complete
  <2>6. \A e, f : Share(e, f) <=> Share(f, e)
    BY DEF Share
  <2>7. \A f : Share(E, f) <=> Share(F, f)
    BY <1>4 DEF Share
  <2>8. CASE complete
    <3>1. \A f \in ready : ~Share(E, f)
      BY <2>3, <2>7
    <3>2. \A d \in Inserts : \A f \in tuples[d] : ~Share(E, f)
      BY <2>3, <2>7
    <3>3. \A t \in Takes : \A f \in got[t] : ~Share(E, f)
      BY <2>3, <2>7
    <3>4. \A k \in Keys : ~Share(incomplete'[k], E)
      BY <1>4, <2>4, <2>5, <2>6, <2>7, <2>8
    <3>5. \A x, y \in Inserts : \A e \in tuples'[x], f \in tuples'[y] :
              Share(e, f) => x = y /\ e = f
      BY <1>4, <2>6, <2>8, <3>2 DEF ApartInv
    <3>6. /\ \A d \in Inserts : \A e \in tuples'[d], f \in ready : ~Share(e, f)
          /\ \A d \in Inserts, t \in Takes : \A e \in tuples'[d], f \in got[t] : ~Share(e, f)
      BY <1>4, <2>8, <3>1, <3>3 DEF ApartInv
    <3>7. /\ \A k \in Keys : \A f \in ready : ~Share(incomplete'[k], f)
          /\ \A k \in Keys, t \in Takes : \A f \in got[t] : ~Share(incomplete'[k], f)
          /\ \A k \in Keys, d \in Inserts : \A f \in tuples[d] : ~Share(incomplete'[k], f)
      BY <1>4, <2>3, <2>8 DEF ApartInv
    <3>8. \A k \in Keys, d \in Inserts : \A f \in tuples'[d] : ~Share(incomplete'[k], f)
      BY <1>4, <2>8, <3>4, <3>7
    <3> QED BY <1>2, <3>5, <3>6, <3>7, <3>8 DEF ApartInv, Share
  <2>9. CASE ~complete
    <3>1. tuples' = tuples
      BY <1>2, <2>9
    <3>2. /\ \A k \in Keys : \A f \in ready : ~Share(incomplete'[k], f)
          /\ \A k \in Keys, t \in Takes : \A f \in got[t] : ~Share(incomplete'[k], f)
          /\ \A k \in Keys, d \in Inserts : \A f \in tuples[d] : ~Share(incomplete'[k], f)
      BY <1>4, <2>3, <2>9 DEF ApartInv
    <3> QED BY <1>2, <3>1, <3>2 DEF ApartInv, Share
  <2> QED BY <2>8, <2>9
<1>9. KeptInv'
  <2> SUFFICES ASSUME NEW d \in Inserts \cap DOMAIN request, NEW i \in 1..inserted'[d]
               PROVE  Somewhere(d, i)'
    BY <1>2 DEF KeptInv
  <2>0. request[d].component \in Components /\ inserted'[d] \in Nat
    BY <1>1, <1>3, <1>4, Arguments
  <2>1. ASSUME F.value[request[d].component] = <<d, i>>
        PROVE  Somewhere(d, i)'
    <3>1. CASE complete
      <4>1. E \in tuples'[c] /\ E.value[request[d].component] = <<d, i>>
        BY <1>4, <2>1, <3>1
      <4> QED BY <1>2, <4>1 DEF Somewhere, Holds
    <3>2. CASE ~complete
      BY <1>1, <1>2, <1>4, <2>1, <3>2 DEF Somewhere
    <3> QED BY <3>1, <3>2
  <2>2. CASE <<d, i>> = v
    BY <1>1, <2>1, <2>2 DEF v, J
  <2>3. CASE <<d, i>> # v
    <3>1. i \in 1..inserted[d]
      BY <1>1, <1>4, <2>0, <2>3 DEF v
    <3>2. Somewhere(d, i)
      BY <3>1 DEF KeptInv
    <3>4. CASE incomplete[K].value[request[d].component] = <<d, i>>
      <4>1. <<d, i>> # None
        BY <2>0, BarrierAssumption
      <4> QED BY <1>1, <2>0, <2>1, <3>4, <4>1
    <3>5. CASE Somewhere(d, i) /\ incomplete[K].value[request[d].component] # <<d, i>>
      <4>1. \A x \in Inserts : tuples[x] \subseteq tuples'[x]
        BY <1>4
      <4> QED BY <1>2, <1>4, <3>5, <4>1 DEF Somewhere, Holds
    <3> QED BY <3>2, <3>4, <3>5
  <2> QED BY <2>2, <2>3
<1> QED BY <1>7, <1>8, <1>9

-----------------------------------------------------------------------------
(* The invariant, action by action. *)

\* The initial states satisfy the inductive invariant.
LEMMA InitInv == Init => IInv
<1> SUFFICES ASSUME Init PROVE IInv
  OBVIOUS
<1> USE DEF Init
<1>1. TypeOK
  <2>1. incomplete \in [Keys -> TupleType]
    BY DEF NoTuple, TupleType
  <2>2. /\ enqueue_attempts \in Seq(Inserts \cup Closes) /\ dequeue_attempts \in Seq(Takes)
        /\ clean_up \in [Calls -> Seq(Calls)]
    OBVIOUS
  <2>3. tuples \in [Inserts -> SUBSET ElementType] /\ got \in [Takes -> SUBSET ElementType]
    OBVIOUS
  <2> QED BY <2>1, <2>2, <2>3 DEF TypeOK
<1>2. QueueInv
  BY EmptyFacts, FS_EmptySet DEF QueueInv
<1>3. ASSUME NEW c \in Calls PROVE LocalInv(c)
  <2>1. ~Contains(enqueue_attempts, c) /\ ~Contains(dequeue_attempts, c)
    BY EmptyFacts
  <2>2. CallInv(c)
    BY <2>1 DEF CallInv, Listed
  <2>3. ASSUME c \in Inserts PROVE InsertInv(c)
    <3>1. c \in DOMAIN request => Len(request[c].keys) \in Nat
      BY <1>1, <2>3, Arguments
    <3> QED BY <2>3, <3>1, FS_EmptySet DEF InsertInv
  <2>4. c \in Takes => TakeInv(c)
    BY <2>1 DEF TakeInv
  <2> QED BY <2>2, <2>3, <2>4 DEF LocalInv
<1>4. ValuesInv
  <2>1. SourceInv
    BY DEF SourceInv, GenuineAll, NoTuple
  <2>2. ApartInv
    BY DEF ApartInv
  <2>3. KeptInv
    BY DEF KeptInv
  <2> QED BY <2>1, <2>2, <2>3 DEF ValuesInv
<1> QED BY <1>1, <1>2, <1>3, <1>4 DEF IInv

\* The steps of a thread between its attempt and its end; Close sets the status
\* of its own call.
LEMMA ThreadSteps ==
    ASSUME IInv, NEW x \in Calls, Flush(x) \/ FlushEnds(x) \/ Finish(x) \/ Return(x)
    PROVE  IInv'
<1>0. TypeOK /\ QueueInv /\ ValuesInv /\ \A c \in Calls : LocalInv(c)
  BY DEF IInv
<1>1. /\ Onwards
      /\ UNCHANGED <<incomplete, dropped, ready, inserted, tuples, got, need>>
      /\ UNCHANGED <<enqueue_attempts, dequeue_attempts, rq_closed, closed,
                     cancel_pending_enqueues>>
      /\ \A c \in Calls \ {x} : pc'[c] = pc[c] /\ status'[c] = status[c]
      /\ x \notin Closes \/ ~request[x].cancel => status'[x] = status[x]
      /\ pc[x] \in Late /\ pc'[x] \in Late
      /\ TypeOK'
  <2> USE <1>0 DEF TypeOK, barrier, queue, local, outcome, Goto, Onwards, Late
  <2>1. CASE Flush(x)
    BY <2>1 DEF Flush
  <2>2. CASE FlushEnds(x)
    BY <2>2 DEF FlushEnds
  <2>3. CASE Finish(x)
    <3>1. Head(clean_up[x]) \in Calls /\ Tail(clean_up[x]) \in Seq(Calls)
      BY <2>3, TailFacts DEF Finish
    <3>2. clean_up' \in [Calls -> Seq(Calls)] /\ answered' \subseteq Calls
      BY <2>3, <3>1 DEF Finish
    <3> QED BY <2>3, <3>2 DEF Finish
  <2>4. CASE Return(x)
    <3>1. \/ status' = status
          \/ x \in Closes /\ request[x].cancel /\ status' = [status EXCEPT ![x] = "OK"]
      BY <2>4 DEF Return
    <3>4. status' \in [Calls -> {"none", "OK", "Cancelled", "InvalidArgument", "OutOfRange"}]
      BY <3>1
    <3>5. answered' \subseteq Calls /\ mu' \in Inserts \cup Closes \cup {None}
      BY <2>4 DEF Return
    <3>3. TypeOK'
      BY <2>4, <3>4, <3>5 DEF Return
    <3> QED BY <2>4, <3>1, <3>3 DEF Return
  <2> QED BY <2>1, <2>2, <2>3, <2>4
<1>3. QueueInv'
  BY <1>0, <1>1 DEF QueueInv, Onwards, Distinct
<1>4. ASSUME NEW c \in Calls PROVE LocalInv(c)'
  <2>1. LocalInv(c)
    BY <1>0
  <2>2. CASE c # x \/ x \notin Closes \/ ~request[x].cancel
    <3>1. Untouched(c)
      BY <1>1, <2>2 DEF Untouched
    <3> QED BY <1>1, <2>1, <3>1, UntouchedInv
  <2>3. CASE c = x /\ x \in Closes /\ request[x].cancel
    <3>1. c \notin Inserts /\ c \notin Takes
      BY <2>3, BarrierAssumption
    <3>2. CallInv(c)'
      BY <1>1, <2>1, <2>3 DEF LocalInv, CallInv, Listed, Onwards, Late
    <3> QED BY <3>1, <3>2 DEF LocalInv
  <2> QED BY <2>2, <2>3
<1>5. ValuesInv'
  BY <1>0, <1>1, StillInv DEF TypeOK
<1> QED BY <1>1, <1>3, <1>4, <1>5 DEF IInv

\* A step of call x that leaves the others alone.
LEMMA OthersInv ==
    ASSUME IInv, Onwards, NEW x, \A c \in Calls \ {x} : Untouched(c), LocalInv(x)'
    PROVE  \A c \in Calls : LocalInv(c)'
BY UntouchedInv DEF IInv

\* What is known of a call at one of its own steps.
LEMMA Own ==
    ASSUME IInv
    PROVE  /\ TypeOK /\ QueueInv /\ ValuesInv
           /\ \A c \in Calls : CallInv(c)
           /\ \A c \in Inserts : c \in Calls /\ c \notin Takes /\ c \notin Closes /\ InsertInv(c)
           /\ \A c \in Takes : c \in Calls /\ c \notin Inserts /\ c \notin Closes /\ TakeInv(c)
           /\ \A c \in Closes : c \in Calls /\ c \notin Inserts /\ c \notin Takes
<1>1. /\ \A c \in Inserts : c \in Calls /\ c \notin Takes /\ c \notin Closes
      /\ \A c \in Takes : c \in Calls /\ c \notin Inserts /\ c \notin Closes
      /\ \A c \in Closes : c \in Calls /\ c \notin Inserts /\ c \notin Takes
  BY BarrierAssumption DEF Calls
<1> QED BY <1>1 DEF IInv, LocalInv

\* An InsertMany begins.
LEMMA TryInsertManyStep ==
    ASSUME IInv, NEW x \in Inserts \cap DOMAIN request, TryInsertMany(x)
    PROVE  IInv'
<1>0. TypeOK /\ QueueInv /\ ValuesInv /\ CallInv(x) /\ InsertInv(x)
  BY Own
<1>1. /\ x \in Calls /\ x \notin Takes /\ x \notin Closes
      /\ request[x].keys \in Seq(Keys)
  BY <1>0, Own, Arguments
<1>2. /\ UNCHANGED <<request, closed, cancel_pending_enqueues, incomplete, dropped,
                     rq_closed, ready, enqueue_attempts, dequeue_attempts,
                     inserted, tuples, need, got>>
      /\ pc[x] = "idle"
      /\ \/ /\ status' = [status EXCEPT ![x] = "Cancelled"]
            /\ pc' = [pc EXCEPT ![x] = "done"]
         \/ /\ status' = status
            /\ pc' = [pc EXCEPT ![x] = "insert"]
  BY DEF TryInsertMany, queue, local, Answer, Goto, outcome
<1>3. TypeOK'
  BY <1>0, <1>1 DEF TypeOK, TryInsertMany, queue, local, Answer, Goto, outcome
<1>4. /\ Onwards /\ \A c \in Calls \ {x} : Untouched(c)
  BY <1>0, <1>2 DEF TypeOK, Onwards, Untouched
<1>6. QueueInv'
  BY <1>0, <1>2 DEF QueueInv, Distinct
<1>7. LocalInv(x)'
  <2>1. pc'[x] \in {"done", "insert"} /\ (pc'[x] = "done" => status'[x] = "Cancelled")
        /\ (pc'[x] = "insert" => status'[x] = "none")
    BY <1>0, <1>1, <1>2 DEF TypeOK, CallInv
  <2>2. CallInv(x)'
    BY <1>0, <1>1, <1>2, <2>1 DEF CallInv, Listed
  <2>3. InsertInv(x)'
    BY <1>0, <1>1, <1>2, <2>1 DEF InsertInv, Failed
  <2> QED BY <1>1, <2>2, <2>3 DEF LocalInv
<1>8. ValuesInv'
  BY <1>0, <1>2, <1>4, StillInv DEF TypeOK
<1> QED BY <1>3, <1>4, <1>6, <1>7, <1>8, OthersInv DEF IInv

\* InsertOneLocked puts one value into its entry.
LEMMA InsertOneLockedStep ==
    ASSUME IInv, NEW x \in Inserts, InsertOneLocked(x)
    PROVE  IInv'
<1>0. TypeOK /\ QueueInv /\ ValuesInv /\ SourceInv /\ CallInv(x) /\ InsertInv(x)
  BY Own DEF ValuesInv
<1>1. /\ x \in Calls /\ x \notin Takes /\ x \notin Closes /\ Inserting(x)
      /\ pc[x] = "insert" /\ x \in DOMAIN request
  BY <1>0, Own DEF InsertOneLocked, Inserting, CallInv
<1>2. /\ NextKey(x) \in Keys /\ inserted[x] \in Nat
      /\ inserted[x] + 1 \in DOMAIN request[x].keys
      /\ Extended(x) \in TupleType
      /\ request[x].keys \in Seq(Keys)
  BY <1>0, <1>1, NextValue, Arguments
<1> DEFINE k == NextKey(x)
           full == Extended(x)
           complete == \A j \in Components : full.value[j] # None
<1>3. /\ UNCHANGED <<request, closed, cancel_pending_enqueues, rq_closed, ready,
                     enqueue_attempts, dequeue_attempts, dropped, need, got, pc, status>>
      /\ incomplete' = [incomplete EXCEPT ![k] = IF complete THEN NoTuple ELSE full]
      /\ tuples' = IF complete THEN [tuples EXCEPT ![x] = @ \cup {Element(k, full)}]
                               ELSE tuples
      /\ inserted' = [inserted EXCEPT ![x] = @ + 1]
  BY DEF InsertOneLocked, queue, outcome
<1>4. NoTuple \in TupleType /\ (complete => Element(k, full) \in ElementType)
  BY <1>2 DEF NoTuple, TupleType, ElementType, Element
<1>5. TypeOK'
  <2>1. /\ incomplete' \in [Keys -> TupleType]
        /\ tuples' \in [Inserts -> SUBSET ElementType]
        /\ inserted' \in [Inserts -> Nat]
    BY <1>0, <1>2, <1>3, <1>4 DEF TypeOK
  <2>2. new_elements' \in [Inserts -> BOOLEAN]
    BY <1>0 DEF TypeOK, InsertOneLocked
  <2> QED BY <1>0, <2>1, <2>2 DEF TypeOK, InsertOneLocked, queue, outcome
<1>6. Onwards /\ \A c \in Calls \ {x} : Untouched(c)
  BY <1>0, <1>3 DEF TypeOK, Onwards, Untouched
<1>7. QueueInv'
  BY <1>0, <1>3 DEF QueueInv, Distinct
<1>8. LocalInv(x)'
  <2>1. CallInv(x)'
    BY <1>0, <1>3 DEF CallInv, Listed
  <2>3. inserted'[x] = inserted[x] + 1 /\ inserted'[x] <= Len(request[x].keys)
    BY <1>0, <1>2, <1>3 DEF TypeOK
  <2>4. \/ tuples'[x] = tuples[x]
        \/ tuples'[x] = tuples[x] \cup {Element(k, full)}
    BY <1>0, <1>3 DEF TypeOK
  <2>5. IsFiniteSet(tuples'[x])
    BY <1>0, <2>4, FS_AddElement DEF InsertInv
  <2>7. InsertInv(x)'
    BY <1>1, <1>3, <2>3, <2>5 DEF InsertInv
  <2> QED BY <1>1, <2>1, <2>7 DEF LocalInv
<1>9. ValuesInv'
  BY <1>0, <1>1, PutInv
<1> QED BY <1>5, <1>6, <1>7, <1>8, <1>9, OthersInv DEF IInv

\* InsertOneLocked refuses a value, and the loop ends.
LEMMA InsertFailsStep ==
    ASSUME IInv, NEW x \in Inserts, InsertFails(x)
    PROVE  IInv'
<1>0. TypeOK /\ QueueInv /\ ValuesInv /\ CallInv(x) /\ InsertInv(x)
  BY Own
<1>1. /\ x \in Calls /\ x \notin Takes /\ x \notin Closes
      /\ pc[x] = "insert" /\ x \in DOMAIN request /\ status[x] = "none" /\ ~Listed(x)
      /\ request[x].keys \in Seq(Keys)
  BY <1>0, Own, Arguments DEF InsertFails, Inserting, CallInv
<1>2. /\ UNCHANGED <<request, closed, cancel_pending_enqueues, rq_closed, ready,
                     incomplete, dropped, enqueue_attempts, dequeue_attempts,
                     need, got, inserted, tuples>>
      /\ pc' = [pc EXCEPT ![x] = "done"]
      /\ \E s \in {"Cancelled", "InvalidArgument"} : status' = [status EXCEPT ![x] = s]
  BY DEF InsertFails, Answer, Goto, queue, local
<1>3. TypeOK'
  <2>1. /\ pc' \in [Calls -> {"idle", "insert", "enqueue", "dequeue", "close", "flush",
                              "flushing", "finish", "done"}]
        /\ status' \in [Calls -> {"none", "OK", "Cancelled", "InvalidArgument", "OutOfRange"}]
    BY <1>0, <1>2 DEF TypeOK
  <2>2. answered' \subseteq Calls
    BY <1>0, <1>1 DEF TypeOK, InsertFails, Answer
  <2> QED BY <1>0, <2>1, <2>2 DEF TypeOK, InsertFails, queue, local
<1>4. Onwards /\ \A c \in Calls \ {x} : Untouched(c)
  BY <1>0, <1>2 DEF TypeOK, Onwards, Untouched
<1>6. QueueInv'
  BY <1>0, <1>2 DEF QueueInv, Distinct
<1>7. pc'[x] = "done" /\ status'[x] \in {"Cancelled", "InvalidArgument"}
  BY <1>0, <1>1, <1>2 DEF TypeOK
<1>8. LocalInv(x)'
  <2>1. CallInv(x)'
    BY <1>0, <1>1, <1>2, <1>7 DEF CallInv, Listed
  <2>2. InsertInv(x)'
    BY <1>0, <1>1, <1>2, <1>7 DEF InsertInv, Failed
  <2> QED BY <1>1, <2>1, <2>2 DEF LocalInv
<1>9. ValuesInv'
  BY <1>0, <1>2, <1>4, StillInv DEF TypeOK
<1> QED BY <1>3, <1>4, <1>6, <1>8, <1>9, OthersInv DEF IInv

\* The loop of an InsertMany ends.
LEMMA InsertEndsStep ==
    ASSUME IInv, NEW x \in Inserts, InsertEnds(x)
    PROVE  IInv'
<1>0. TypeOK /\ QueueInv /\ ValuesInv /\ CallInv(x) /\ InsertInv(x)
  BY Own
<1>1. /\ x \in Calls /\ x \notin Takes /\ x \notin Closes
      /\ pc[x] = "insert" /\ x \in DOMAIN request /\ status[x] = "none" /\ ~Listed(x)
  BY <1>0, Own DEF InsertEnds, CallInv
<1>2. /\ UNCHANGED <<request, closed, cancel_pending_enqueues, rq_closed, ready,
                     incomplete, dropped, enqueue_attempts, dequeue_attempts,
                     need, got, inserted, tuples>>
      /\ inserted[x] = Len(request[x].keys)
      /\ \/ /\ pc' = [pc EXCEPT ![x] = "done"]
            /\ status' = [status EXCEPT ![x] = "OK"]
         \/ pc' = [pc EXCEPT ![x] = "enqueue"] /\ status' = status
  BY DEF InsertEnds, Answer, Goto, queue, local, outcome
<1>3. TypeOK'
  <2>1. /\ pc' \in [Calls -> {"idle", "insert", "enqueue", "dequeue", "close", "flush",
                              "flushing", "finish", "done"}]
        /\ status' \in [Calls -> {"none", "OK", "Cancelled", "InvalidArgument", "OutOfRange"}]
    BY <1>0, <1>2 DEF TypeOK
  <2>2. answered' \subseteq Calls /\ input_index' \in Nat
    BY <1>0, <1>1 DEF TypeOK, InsertEnds, Answer, outcome
  <2> QED BY <1>0, <2>1, <2>2 DEF TypeOK, InsertEnds, queue, local
<1>4. Onwards /\ \A c \in Calls \ {x} : Untouched(c)
  BY <1>0, <1>2 DEF TypeOK, Onwards, Untouched
<1>6. QueueInv'
  BY <1>0, <1>2 DEF QueueInv, Distinct
<1>7. \/ pc'[x] = "done" /\ status'[x] = "OK"
      \/ pc'[x] = "enqueue" /\ status'[x] = "none"
  BY <1>0, <1>1, <1>2 DEF TypeOK
<1>8. LocalInv(x)'
  <2>1. CallInv(x)'
    BY <1>0, <1>1, <1>2, <1>7 DEF CallInv, Listed
  <2>2. InsertInv(x)'
    BY <1>0, <1>1, <1>2, <1>7 DEF InsertInv
  <2> QED BY <1>1, <2>1, <2>2 DEF LocalInv
<1>9. ValuesInv'
  BY <1>0, <1>2, <1>4, StillInv DEF TypeOK
<1> QED BY <1>3, <1>4, <1>6, <1>8, <1>9, OthersInv DEF IInv

\* The attempt of an insert or of a close joins the ready queue.
LEMMA EmplaceEnqueueSteps ==
    ASSUME IInv, NEW x \in Inserts \cup Closes,
           (x \in Inserts /\ EmplaceEnqueue(x)) \/ (x \in Closes /\ EmplaceClose(x))
    PROVE  IInv'
<1>0. TypeOK /\ QueueInv /\ ValuesInv /\ CallInv(x) /\ (x \in Inserts => InsertInv(x))
  BY Own DEF Calls
<1>1. /\ x \in Calls /\ x \notin Takes
      /\ pc[x] \in {"enqueue", "close"} /\ x \in DOMAIN request
      /\ status[x] = "none" /\ ~Listed(x)
      /\ x \in Closes => closed /\ ~request[x].cancel
  BY <1>0, Own DEF EmplaceEnqueue, EmplaceClose, CallInv
<1>2. /\ UNCHANGED <<request, barrier, rq_closed, ready, dequeue_attempts, local,
                     clean_up, outcome, queue_mu>>
      /\ pc' = [pc EXCEPT ![x] = "flush"]
      /\ enqueue_attempts' = Append(enqueue_attempts, x)
  BY DEF EmplaceEnqueue, EmplaceClose, Goto
<1>3. /\ enqueue_attempts' \in Seq(Inserts \cup Closes)
      /\ \A c : Contains(enqueue_attempts', c) <=> Contains(enqueue_attempts, c) \/ c = x
      /\ Distinct(enqueue_attempts')
  BY <1>0, <1>1, <1>2, AppendFacts DEF TypeOK, QueueInv, Listed
<1>4. TypeOK'
  BY <1>0, <1>2, <1>3 DEF TypeOK, barrier, local, outcome
<1>5. Onwards /\ \A c \in Calls \ {x} : Untouched(c)
  BY <1>0, <1>2, <1>3 DEF TypeOK, Onwards, Untouched, barrier, local, outcome
<1>6. QueueInv'
  BY <1>0, <1>2, <1>3 DEF QueueInv, Distinct, barrier
<1>7. pc'[x] = "flush"
  BY <1>0, <1>1, <1>2 DEF TypeOK
<1>8. LocalInv(x)'
  <2>1. CallInv(x)'
    BY <1>0, <1>1, <1>2, <1>7 DEF CallInv, Listed, barrier, outcome
  <2>2. x \in Inserts => InsertInv(x)'
    BY <1>0, <1>1, <1>2, <1>7 DEF InsertInv, Failed, local, outcome
  <2> QED BY <1>1, <2>1, <2>2 DEF LocalInv
<1>9. ValuesInv'
  BY <1>0, <1>2, <1>5, StillInv DEF TypeOK, barrier, local, outcome
<1> QED BY <1>4, <1>5, <1>6, <1>8, <1>9, OthersInv DEF IInv

\* A TakeMany begins to wait at the ready queue.
LEMMA EmplaceDequeueStep ==
    ASSUME IInv, NEW x \in Takes, EmplaceDequeue(x)
    PROVE  IInv'
<1>0. TypeOK /\ QueueInv /\ ValuesInv /\ CallInv(x) /\ TakeInv(x)
  BY Own
<1>1. /\ x \in Calls /\ x \notin Inserts /\ x \notin Closes
      /\ pc[x] = "dequeue" /\ x \in DOMAIN request
      /\ status[x] = "none" /\ ~Listed(x)
  BY <1>0, Own DEF EmplaceDequeue, CallInv
<1>2. /\ UNCHANGED <<request, barrier, rq_closed, ready, enqueue_attempts, local,
                     clean_up, outcome, queue_mu>>
      /\ pc' = [pc EXCEPT ![x] = "flush"]
      /\ dequeue_attempts' = Append(dequeue_attempts, x)
  BY DEF EmplaceDequeue, Goto
<1>3. /\ dequeue_attempts' \in Seq(Takes)
      /\ \A c : Contains(dequeue_attempts', c) <=> Contains(dequeue_attempts, c) \/ c = x
      /\ Distinct(dequeue_attempts')
  BY <1>0, <1>1, <1>2, AppendFacts DEF TypeOK, QueueInv, Listed
<1>4. TypeOK'
  BY <1>0, <1>2, <1>3 DEF TypeOK, barrier, local, outcome
<1>5. Onwards /\ \A c \in Calls \ {x} : Untouched(c)
  BY <1>0, <1>2, <1>3 DEF TypeOK, Onwards, Untouched, barrier, local, outcome
<1>6. QueueInv'
  BY <1>0, <1>2, <1>3 DEF QueueInv, Distinct, barrier
<1>7. pc'[x] = "flush"
  BY <1>0, <1>1, <1>2 DEF TypeOK
<1>8. LocalInv(x)'
  <2>1. CallInv(x)'
    BY <1>0, <1>1, <1>2, <1>7 DEF CallInv, Listed, barrier, outcome
  <2>2. TakeInv(x)'
    BY <1>0, <1>1, <1>2, <1>7 DEF TakeInv, local, outcome, barrier
  <2> QED BY <1>1, <2>1, <2>2 DEF LocalInv
<1>9. ValuesInv'
  BY <1>0, <1>2, <1>5, StillInv DEF TypeOK, barrier, local, outcome
<1> QED BY <1>4, <1>5, <1>6, <1>8, <1>9, OthersInv DEF IInv

\* A take sets out for as many elements as it was asked for, or for those that
\* a closed barrier has.
LEMMA TryTakeManyStep ==
    ASSUME IInv, NEW x \in Takes \cap DOMAIN request, TryTakeMany(x)
    PROVE  IInv'
<1>0. TypeOK /\ QueueInv /\ ValuesInv /\ CallInv(x) /\ TakeInv(x)
  BY Own
<1>1. /\ x \in Calls /\ x \notin Inserts /\ x \notin Closes
      /\ pc[x] = "idle" /\ status[x] = "none" /\ ~Listed(x) /\ got[x] = {}
      /\ request[x].n \in Nat \ {0}
  BY <1>0, Own, Arguments DEF TryTakeMany, CallInv, TakeInv
<1>2. /\ UNCHANGED <<request, barrier, queue, tuples, got, inserted, new_elements, clean_up>>
      /\ \/ /\ closed /\ status' = [status EXCEPT ![x] = "OutOfRange"]
            /\ pc' = [pc EXCEPT ![x] = "done"]
            /\ answered' = answered \cup {x}
            /\ need' = need
         \/ /\ ~Insufficient(x) /\ status' = status /\ answered' = answered
            /\ pc' = [pc EXCEPT ![x] = "dequeue"]
            /\ need' = [need EXCEPT ![x] = ToDeliver(x)]
  BY DEF TryTakeMany, Insufficient, Answer, Goto, outcome
<1>3. Cardinality(ready) \in Nat
  BY <1>0, FS_CardinalityType DEF QueueInv
<1>4. ToDeliver(x) \in Nat
  BY <1>1, <1>3 DEF ToDeliver
<1>5. TypeOK'
  <2>1. need' \in [Takes -> Nat]
    BY <1>0, <1>2, <1>4 DEF TypeOK
  <2> QED BY <1>0, <1>1, <1>2, <2>1 DEF TypeOK, barrier, queue
<1>6. Onwards /\ \A c \in Calls \ {x} : Untouched(c)
  BY <1>0, <1>2 DEF TypeOK, Onwards, Untouched, barrier, queue
<1>7. QueueInv'
  BY <1>0, <1>2 DEF QueueInv, Distinct, barrier, queue
<1>8. LocalInv(x)'
  <2>1. CASE closed /\ status'[x] = "OutOfRange" /\ pc'[x] = "done"
    <3>1. CallInv(x)'
      BY <1>0, <1>1, <1>2, <2>1 DEF CallInv, Listed, barrier, queue
    <3>2. TakeInv(x)'
      BY <1>1, <1>2, <2>1 DEF TakeInv, Listed, barrier, queue
    <3> QED BY <1>1, <3>1, <3>2 DEF LocalInv
  <2>2. CASE /\ ~Insufficient(x) /\ status'[x] = "none" /\ pc'[x] = "dequeue"
             /\ need'[x] = ToDeliver(x)
    <3>1. CallInv(x)'
      BY <1>0, <1>1, <1>2, <2>2 DEF CallInv, Listed, barrier, queue
    <3>2. ToDeliver(x) > 0
          /\ (ToDeliver(x) = request[x].n \/ (request[x].small /\ closed))
      BY <1>1, <1>3, <2>2 DEF Insufficient, Available, ToDeliver
    <3>4. /\ got'[x] = {} /\ IsFiniteSet(got'[x]) /\ Cardinality(got'[x]) = 0
          /\ need'[x] \in Nat
      BY <1>1, <1>2, <1>4, <2>2, FS_EmptySet
    <3>3. TakeInv(x)'
      BY <1>2, <2>2, <3>2, <3>4 DEF TakeInv, barrier
    <3> QED BY <1>1, <3>1, <3>3 DEF LocalInv
  <2> QED BY <1>0, <1>1, <1>2, <2>1, <2>2 DEF TypeOK
<1>9. ValuesInv'
  BY <1>0, <1>2, <1>6, StillInv DEF TypeOK, barrier, queue
<1> QED BY <1>5, <1>6, <1>7, <1>8, <1>9, OthersInv DEF IInv

\* A Close, with or without the cancellation of pending enqueues.
LEMMA CloseStep ==
    ASSUME IInv, NEW x \in Closes \cap DOMAIN request, Close(x)
    PROVE  IInv'
<1>0. TypeOK /\ QueueInv /\ ValuesInv /\ CallInv(x)
  BY Own
<1>1. /\ x \in Calls /\ x \notin Inserts /\ x \notin Takes
      /\ pc[x] = "idle" /\ status[x] = "none" /\ ~Listed(x)
      /\ request[x].cancel \in BOOLEAN
  BY <1>0, Own, BarrierAssumption DEF Close, CallInv, TypeOK
<1>2. /\ UNCHANGED <<request, input_index, queue, local, clean_up>>
      /\ \/ /\ UNCHANGED <<closed, cancel_pending_enqueues, incomplete, dropped>>
            /\ AlreadyClosed(x)
         \/ /\ closed' = TRUE /\ ~AlreadyClosed(x)
            /\ cancel_pending_enqueues' = request[x].cancel
            /\ incomplete' = IF ClosesQueue(x) THEN [k \in Keys |-> NoTuple]
                                               ELSE incomplete
            /\ dropped' = IF ClosesQueue(x)
                          THEN dropped \cup {incomplete[k] : k \in Incomplete}
                          ELSE dropped
      /\ \/ /\ pc' = [pc EXCEPT ![x] = "done"]
            /\ \E s \in {"OK", "Cancelled"} : status' = [status EXCEPT ![x] = s]
         \/ /\ pc' = [pc EXCEPT ![x] = "done"] /\ status' = status
         \/ /\ pc' = [pc EXCEPT ![x] = "close"] /\ status' = status /\ ~AlreadyClosed(x)
  BY DEF Close, Answer, Goto, outcome
<1>3. TypeOK'
  <2>1. incomplete' \in [Keys -> TupleType] /\ dropped' \subseteq TupleType
    <3>1. NoTuple \in TupleType
      BY DEF NoTuple, TupleType
    <3>2. incomplete' \in [Keys -> TupleType]
      BY <1>0, <1>2, <3>1 DEF TypeOK
    <3>3. {incomplete[k] : k \in Incomplete} \subseteq TupleType
      BY <1>0 DEF TypeOK, Incomplete
    <3>4. dropped' \subseteq TupleType
      BY <1>0, <1>2, <3>3 DEF TypeOK
    <3> QED BY <3>2, <3>4
  <2>2. /\ closed' \in BOOLEAN /\ cancel_pending_enqueues' \in BOOLEAN
        /\ pc' \in [Calls -> {"idle", "insert", "enqueue", "dequeue", "close", "flush",
                              "flushing", "finish", "done"}]
        /\ status' \in [Calls -> {"none", "OK", "Cancelled", "InvalidArgument", "OutOfRange"}]
    BY <1>0, <1>1, <1>2 DEF TypeOK
  <2>3. queue_closed' \in BOOLEAN /\ queue_cancelled' \in BOOLEAN
    BY <1>0, <1>1 DEF TypeOK, Close
  <2>4. mu' \in Inserts \cup Closes \cup {None} /\ answered' \subseteq Calls
    BY <1>0, <1>1 DEF TypeOK, Close, Answer, Goto, outcome
  <2> QED BY <1>0, <1>2, <2>1, <2>2, <2>3, <2>4 DEF TypeOK, queue, local
<1>4. Onwards
  BY <1>0, <1>1, <1>2 DEF Onwards, AlreadyClosed, QueueInv
<1>5. \A c \in Calls \ {x} : Untouched(c)
  BY <1>0, <1>2 DEF TypeOK, Untouched, queue, local
<1>6. QueueInv'
  <2>1. dropped' # {} => cancel_pending_enqueues'
    <3>1. dropped # {} => cancel_pending_enqueues'
      BY <1>0, <1>4 DEF QueueInv, Onwards
    <3>2. Incomplete = {} => {incomplete[k] : k \in Incomplete} = {}
      OBVIOUS
    <3>3. \/ dropped' = dropped
          \/ /\ dropped' = dropped \cup {incomplete[k] : k \in Incomplete}
             /\ cancel_pending_enqueues' \/ Incomplete = {}
      BY <1>2 DEF ClosesQueue
    <3> QED BY <3>1, <3>2, <3>3
  <2> QED BY <1>0, <1>2, <2>1 DEF QueueInv, Distinct, queue
<1>7. LocalInv(x)'
  <2>1. /\ pc'[x] = "done" \/ (pc'[x] = "close" /\ status'[x] = "none" /\ closed')
        /\ pc'[x] = "close" => (request[x].cancel => cancel_pending_enqueues')
    BY <1>0, <1>1, <1>2 DEF TypeOK
  <2>2. CallInv(x)'
    BY <1>1, <1>2, <2>1 DEF CallInv, Listed, queue
  <2> QED BY <1>1, <2>2 DEF LocalInv
<1>8. ValuesInv'
  <2>1. CASE UNCHANGED <<incomplete, dropped>>
    BY <1>0, <1>2, <1>4, <2>1, StillInv DEF TypeOK, local, queue
  <2>2. CASE ~UNCHANGED <<incomplete, dropped>>
    <3>1. /\ incomplete' = [k \in Keys |-> NoTuple]
          /\ dropped' = dropped \cup {incomplete[k] : k \in Incomplete}
      BY <1>2, <2>2
    <3> QED BY <1>0, <1>2, <1>4, <3>1, ClearedInv DEF local, queue
  <2> QED BY <2>1, <2>2
<1> QED BY <1>3, <1>4, <1>5, <1>6, <1>7, <1>8, OthersInv DEF IInv

\* CloseAndCancel calls back the inserts it finds in the queue.
LEMMA CloseAndCancelStep ==
    ASSUME IInv, NEW x \in Closes, CloseAndCancel(x)
    PROVE  IInv'
<1> DEFINE D == {e \in Inserts : Contains(enqueue_attempts, e)}
<1>0. /\ TypeOK /\ QueueInv /\ ValuesInv /\ CallInv(x)
      /\ \A c \in Calls : CallInv(c)
      /\ \A c \in Inserts : InsertInv(c)
  BY Own
<1>1. /\ x \in Calls /\ x \notin Inserts /\ x \notin Takes
      /\ pc[x] = "close" /\ x \in DOMAIN request /\ status[x] = "none"
      /\ ~Listed(x) /\ request[x].cancel /\ closed /\ cancel_pending_enqueues
  BY <1>0, Own DEF CloseAndCancel, CallInv
<1>2. /\ UNCHANGED <<request, barrier, ready, dequeue_attempts, local, clean_up,
                     queue_mu>>
      /\ rq_closed' = TRUE /\ enqueue_attempts' = <<>>
      /\ status' = [c \in Calls |-> IF c \in D THEN "Cancelled" ELSE status[c]]
      /\ answered' = answered \cup D
      /\ pc' = [pc EXCEPT ![x] = "flush"]
  BY DEF CloseAndCancel, Goto
<1>3. D \subseteq Inserts /\ D \subseteq Calls /\ x \notin D
  BY <1>1 DEF Calls
<1>4. \A c \in D : status[c] = "none" /\ pc[c] \in Late
  BY <1>0, <1>3 DEF CallInv, Listed, TypeOK, Late
<1> HIDE DEF D
<1>5. TypeOK'
  <2>1. status' \in [Calls -> {"none", "OK", "Cancelled", "InvalidArgument", "OutOfRange"}]
    BY <1>0, <1>2 DEF TypeOK
  <2>2. answered' \subseteq Calls /\ enqueue_attempts' \in Seq(Inserts \cup Closes)
    BY <1>0, <1>2, <1>3 DEF TypeOK
  <2> QED BY <1>0, <1>2, <2>1, <2>2 DEF TypeOK, barrier, local
<1>6. Onwards
  BY <1>2 DEF Onwards, barrier
<1>7. \A c : ~Contains(enqueue_attempts', c)
  BY <1>2, EmptyFacts
<1>8. QueueInv'
  BY <1>0, <1>1, <1>2, EmptyFacts DEF QueueInv, Distinct, barrier
<1>9. ASSUME NEW c \in Calls PROVE LocalInv(c)'
  <2>1. CASE c \notin D /\ c # x
    <3>1. Untouched(c)
      BY <1>0, <1>2, <1>7, <2>1 DEF Untouched, TypeOK, local
    <3>2. LocalInv(c)
      BY DEF IInv
    <3> QED BY <1>6, <3>1, <3>2, UntouchedInv
  <2>2. CASE c \in D
    <3>1. /\ c \in Inserts /\ c \notin Takes /\ c \notin Closes
          /\ status'[c] = "Cancelled" /\ pc'[c] = pc[c]
          /\ CallInv(c) /\ InsertInv(c)
      BY <1>0, <1>1, <1>2, <1>3, <2>2, Own DEF TypeOK
    <3>2. ~Contains(dequeue_attempts, c)
      BY <1>0, <3>1 DEF TypeOK, Contains
    <3>3. CallInv(c)'
      BY <1>2, <1>4, <1>7, <2>2, <3>1, <3>2 DEF CallInv, Listed, barrier, Late
    <3>4. InsertInv(c)'
      BY <1>2, <1>4, <2>2, <3>1 DEF InsertInv, Failed, Late, local
    <3> QED BY <3>1, <3>3, <3>4 DEF LocalInv
  <2>3. CASE c = x
    <3>1. pc'[x] = "flush" /\ status'[x] = "none" /\ ~Listed(x)'
      BY <1>0, <1>1, <1>2, <1>3, <1>7 DEF TypeOK, Listed
    <3>2. CallInv(x)'
      BY <1>1, <1>2, <3>1 DEF CallInv, barrier
    <3> QED BY <1>1, <2>3, <3>2 DEF LocalInv
  <2> QED BY <2>1, <2>2, <2>3
<1>10. ValuesInv'
  BY <1>0, <1>2, <1>6, StillInv DEF TypeOK, barrier, local
<1> QED BY <1>5, <1>8, <1>9, <1>10 DEF IInv

\* A flush runs the first enqueue attempt.
LEMMA RunEnqueueStep ==
    ASSUME IInv, NEW x \in Calls, RunEnqueue(x)
    PROVE  IInv'
<1>0. TypeOK /\ QueueInv /\ ValuesInv
  BY Own
<1>a. PICK c \in Inserts \cup Closes : c = Head(enqueue_attempts)
  BY <1>0, TailFacts DEF TypeOK, RunEnqueue
<1>1. /\ Contains(enqueue_attempts, c)
      /\ enqueue_attempts' = Tail(enqueue_attempts)
      /\ enqueue_attempts' \in Seq(Inserts \cup Closes)
      /\ \A d : Contains(enqueue_attempts', d) => Contains(enqueue_attempts, d)
      /\ Distinct(enqueue_attempts') /\ ~Contains(enqueue_attempts', c)
  BY <1>0, <1>a, TailFacts DEF TypeOK, QueueInv, RunEnqueue
<1>2. /\ c \in Calls /\ c \notin Takes /\ CallInv(c) /\ (c \in Inserts => InsertInv(c))
  BY <1>1, Own
<1>3. /\ status[c] = "none" /\ pc[c] \in Late /\ c \in DOMAIN request
      /\ ~Contains(dequeue_attempts, c) /\ (c \in Closes => closed)
  BY <1>0, <1>1, <1>2 DEF CallInv, Listed, TypeOK, Late, Contains
<1>4. /\ UNCHANGED <<request, barrier, queue_mu, dequeue_attempts, pc, inserted,
                     new_elements, need, got, answered>>
      /\ \E s \in {"Cancelled", "OK"} : /\ status' = [status EXCEPT ![c] = s]
                                        /\ rq_closed => s = "Cancelled"
      /\ clean_up' = [clean_up EXCEPT ![x] = Append(clean_up[x], c)]
      /\ \/ /\ c \in Inserts /\ rq_closed' = rq_closed
            /\ IF rq_closed THEN UNCHANGED <<ready, tuples>>
                            ELSE /\ ready' = ready \cup tuples[c]
                                 /\ tuples' = [tuples EXCEPT ![c] = {}]
         \/ c \in Closes /\ rq_closed' = TRUE /\ UNCHANGED <<ready, tuples>>
  BY <1>a DEF RunEnqueue, Complete
<1>5. TypeOK'
  <2>1. /\ status' \in [Calls -> {"none", "OK", "Cancelled", "InvalidArgument", "OutOfRange"}]
        /\ rq_closed' \in BOOLEAN
    BY <1>0, <1>4 DEF TypeOK
  <2>2. clean_up' \in [Calls -> Seq(Calls)]
    BY <1>0, <1>2, <1>4 DEF TypeOK
  <2>3. ready' \subseteq ElementType /\ tuples' \in [Inserts -> SUBSET ElementType]
    BY <1>0, <1>4 DEF TypeOK
  <2> QED BY <1>0, <1>1, <1>4, <2>1, <2>2, <2>3 DEF TypeOK, barrier
<1>6. Onwards /\ \A d \in Calls \ {c} : Untouched(d)
  BY <1>0, <1>1, <1>4 DEF TypeOK, Onwards, Untouched, barrier
<1>7. QueueInv'
  <2>1. IsFiniteSet(ready')
    <3>1. IsFiniteSet(ready) /\ (c \in Inserts => IsFiniteSet(ready \cup tuples[c]))
      BY <1>0, <1>2, FS_Union DEF QueueInv, InsertInv
    <3> QED BY <1>4, <3>1
  <2> QED BY <1>0, <1>1, <1>3, <1>4, <2>1 DEF QueueInv, Distinct, barrier
<1>8. status'[c] # "none" /\ (rq_closed => status'[c] = "Cancelled")
      /\ (c \in Inserts => tuples'[c] = {} \/ tuples'[c] = tuples[c])
  <2>1. c \in Inserts => c \notin Closes
    BY Own
  <2> QED BY <1>0, <1>2, <1>4, <2>1 DEF TypeOK
<1>9. LocalInv(c)'
  <2>1. CallInv(c)'
    BY <1>1, <1>2, <1>3, <1>4, <1>8 DEF CallInv, Listed, Late, barrier
  <2>2. ASSUME c \in Inserts PROVE InsertInv(c)'
    <3>1. inserted[c] = Len(request[c].keys) /\ pc[c] # "idle"
      BY <1>2, <1>3, <2>2 DEF InsertInv, Failed, Late
    <3> QED BY <1>2, <1>4, <1>8, <2>2, <3>1, FS_EmptySet DEF InsertInv
  <2> QED BY <1>2, <2>1, <2>2 DEF LocalInv
<1>10. ValuesInv'
  <2>1. CASE c \in Inserts /\ ~rq_closed
    BY <1>0, <1>4, <1>6, <2>1, EnqueuedInv, Own DEF barrier
  <2>2. CASE c \in Closes \/ rq_closed
    BY <1>0, <1>4, <1>6, <2>2, StillInv, Own DEF barrier, TypeOK
  <2> QED BY <2>1, <2>2
<1> QED BY <1>5, <1>6, <1>7, <1>9, <1>10, OthersInv DEF IInv

\* What is known of the take whose attempt a flush runs.
LEMMA RunsDequeueFacts ==
    ASSUME IInv, NEW x \in Calls, NEW c \in Takes, RunsDequeue(x, c)
    PROVE  /\ TypeOK /\ QueueInv /\ ValuesInv /\ CallInv(c) /\ TakeInv(c)
           /\ c \in Calls /\ c \notin Inserts /\ c \notin Closes
           /\ Contains(dequeue_attempts, c)
           /\ status[c] = "none" /\ pc[c] \in Late /\ c \in DOMAIN request
           /\ ~Contains(enqueue_attempts, c)
           /\ Tail(dequeue_attempts) \in Seq(Takes)
           /\ \A d : Contains(Tail(dequeue_attempts), d) => Contains(dequeue_attempts, d)
           /\ Distinct(Tail(dequeue_attempts)) /\ ~Contains(Tail(dequeue_attempts), c)
           /\ need[c] \in Nat \ {0} /\ IsFiniteSet(got[c]) /\ got[c] \subseteq ElementType
           /\ request[c].n \in Nat
<1>0. TypeOK /\ QueueInv /\ ValuesInv /\ CallInv(c) /\ TakeInv(c)
      /\ c \in Calls /\ c \notin Inserts /\ c \notin Closes
  BY Own
<1>1. /\ Contains(dequeue_attempts, c)
      /\ Tail(dequeue_attempts) \in Seq(Takes)
      /\ \A d : Contains(Tail(dequeue_attempts), d) => Contains(dequeue_attempts, d)
      /\ Distinct(Tail(dequeue_attempts)) /\ ~Contains(Tail(dequeue_attempts), c)
  BY <1>0, TailFacts DEF TypeOK, QueueInv, RunsDequeue
<1>2. /\ status[c] = "none" /\ pc[c] \in Late /\ c \in DOMAIN request
      /\ ~Contains(enqueue_attempts, c)
  BY <1>0, <1>1 DEF CallInv, Listed, TypeOK, Late, Contains
<1>3. need[c] \in Nat \ {0} /\ IsFiniteSet(got[c]) /\ got[c] \subseteq ElementType
      /\ request[c].n \in Nat
  BY <1>0, <1>1, <1>2, Arguments DEF TakeInv, TypeOK
<1> QED BY <1>0, <1>1, <1>2, <1>3

\* The dequeue in front gets nothing more from a closed queue.
LEMMA RunDequeueStarvedStep ==
    ASSUME IInv, NEW x \in Calls, NEW c \in Takes, RunDequeueStarved(x, c)
    PROVE  IInv'
<1>0. RunsDequeue(x, c)
  BY DEF RunDequeueStarved
<1>1. /\ TypeOK /\ QueueInv /\ ValuesInv /\ CallInv(c) /\ TakeInv(c)
      /\ c \in Calls /\ c \notin Inserts /\ c \notin Closes
      /\ status[c] = "none" /\ pc[c] \in Late /\ c \in DOMAIN request
      /\ Contains(dequeue_attempts, c) /\ ~Contains(enqueue_attempts, c)
  BY <1>0, RunsDequeueFacts
<1>2. /\ UNCHANGED <<request, barrier, queue_mu, rq_closed, ready, enqueue_attempts, pc,
                     local, answered>>
      /\ status' = [status EXCEPT ![c] = "OutOfRange"]
      /\ clean_up' = [clean_up EXCEPT ![x] = Append(clean_up[x], c)]
      /\ dequeue_attempts' = Tail(dequeue_attempts)
      /\ rq_closed
  BY DEF RunDequeueStarved, Complete, Starved
<1>3. /\ dequeue_attempts' \in Seq(Takes)
      /\ \A d : Contains(dequeue_attempts', d) => Contains(dequeue_attempts, d)
      /\ Distinct(dequeue_attempts') /\ ~Contains(dequeue_attempts', c)
  BY <1>0, <1>2, RunsDequeueFacts
<1>4. TypeOK'
  <2>1. status' \in [Calls -> {"none", "OK", "Cancelled", "InvalidArgument", "OutOfRange"}]
    BY <1>1, <1>2 DEF TypeOK
  <2>2. clean_up' \in [Calls -> Seq(Calls)]
    BY <1>1, <1>2 DEF TypeOK
  <2> QED BY <1>1, <1>2, <1>3, <2>1, <2>2 DEF TypeOK, barrier, local
<1>5. Onwards /\ \A d \in Calls \ {c} : Untouched(d)
  BY <1>1, <1>2, <1>3 DEF TypeOK, Onwards, Untouched, barrier, local
<1>6. QueueInv'
  BY <1>1, <1>2, <1>3 DEF QueueInv, Distinct, barrier
<1>7. status'[c] = "OutOfRange"
  BY <1>1, <1>2 DEF TypeOK
<1>8. LocalInv(c)'
  <2>1. CallInv(c)'
    BY <1>1, <1>2, <1>3, <1>7 DEF CallInv, Listed, Late, barrier
  <2>2. TakeInv(c)'
    BY <1>1, <1>2, <1>3, <1>7 DEF TakeInv, Late, QueueInv, barrier, local
  <2> QED BY <1>1, <2>1, <2>2 DEF LocalInv
<1>9. ValuesInv'
  BY <1>1, <1>2, <1>5, StillInv DEF TypeOK, barrier, local
<1> QED BY <1>4, <1>5, <1>6, <1>8, <1>9, OthersInv DEF IInv

\* A take has only what is not in the ready queue any more, so what it takes now
\* adds up with what it has.
LEMMA RunDequeueStep ==
    ASSUME IInv, NEW x \in Calls, NEW c \in Takes, RunDequeue(x, c)
    PROVE  IInv'
<1>0. RunsDequeue(x, c)
  BY DEF RunDequeue
<1>1. /\ TypeOK /\ QueueInv /\ ValuesInv /\ CallInv(c) /\ TakeInv(c)
      /\ c \in Calls /\ c \notin Inserts /\ c \notin Closes
      /\ status[c] = "none" /\ pc[c] \in Late /\ c \in DOMAIN request
      /\ Contains(dequeue_attempts, c) /\ ~Contains(enqueue_attempts, c)
      /\ need[c] \in Nat \ {0} /\ IsFiniteSet(got[c]) /\ got[c] \subseteq ElementType
      /\ request[c].n \in Nat
  BY <1>0, RunsDequeueFacts
<1>2. PICK es \in SUBSET ready :
         /\ Cardinality(es) = IF Cardinality(ready) < need[c] THEN Cardinality(ready)
                                                              ELSE need[c]
         /\ ready' = ready \ es
         /\ got' = [got EXCEPT ![c] = @ \cup es]
         /\ need' = [need EXCEPT ![c] = @ - Cardinality(es)]
  BY DEF RunDequeue, Oldest
<1>3. /\ UNCHANGED <<request, barrier, queue_mu, rq_closed, enqueue_attempts, pc,
                     inserted, new_elements, tuples, answered>>
      /\ \/ /\ need'[c] = 0
            /\ status' = [status EXCEPT ![c] = "OK"]
            /\ clean_up' = [clean_up EXCEPT ![x] = Append(clean_up[x], c)]
            /\ dequeue_attempts' = Tail(dequeue_attempts)
         \/ need'[c] # 0 /\ UNCHANGED <<clean_up, status, dequeue_attempts>>
      /\ ~Blocked(c)
  BY DEF RunDequeue, Complete
<1>4. /\ IsFiniteSet(es) /\ IsFiniteSet(ready') /\ Cardinality(es) \in Nat
      /\ Cardinality(ready) \in Nat
      /\ Cardinality(ready) = 0 <=> ready = {}
      /\ Cardinality(es) = 0 <=> es = {}
  BY <1>1, <1>2, FS_Subset, FS_CardinalityType, FS_EmptySet, FS_Difference DEF QueueInv
<1>5. /\ need'[c] = need[c] - Cardinality(es) /\ need'[c] \in Nat
      /\ got'[c] = got[c] \cup es
  BY <1>1, <1>2, <1>4 DEF TypeOK
<1>6. got[c] \cap es = {}
  <2> SUFFICES ASSUME NEW e \in got[c], e \in ready PROVE FALSE
    BY <1>2
  <2>1. ~Share(e, e)
    BY <1>1 DEF ValuesInv, ApartInv
  <2> QED BY <2>1, BarrierAssumption DEF Share
<1>7. /\ IsFiniteSet(got'[c])
      /\ Cardinality(got'[c]) = Cardinality(got[c]) + Cardinality(es)
      /\ Cardinality(got[c]) \in Nat
  <2>1. /\ IsFiniteSet(got[c] \cup es)
        /\ Cardinality(got[c] \cup es)
              = Cardinality(got[c]) + Cardinality(es) - Cardinality(got[c] \cap es)
    BY <1>1, <1>4, FS_Union
  <2>2. Cardinality(got[c]) \in Nat /\ Cardinality(got[c] \cap es) = 0
    BY <1>1, <1>6, FS_CardinalityType, FS_EmptySet
  <2> QED BY <1>4, <1>5, <2>1, <2>2
<1>8. /\ dequeue_attempts' \in Seq(Takes)
      /\ \A d : Contains(dequeue_attempts', d) => Contains(dequeue_attempts, d)
      /\ Distinct(dequeue_attempts') /\ (need'[c] = 0 => ~Contains(dequeue_attempts', c))
  <2>1. CASE dequeue_attempts' = Tail(dequeue_attempts)
    BY <1>0, <2>1, RunsDequeueFacts
  <2>2. CASE dequeue_attempts' = dequeue_attempts /\ need'[c] # 0
    BY <1>1, <2>2 DEF TypeOK, QueueInv
  <2> QED BY <1>3, <2>1, <2>2
<1>9. TypeOK'
  <2>1. /\ status' \in [Calls -> {"none", "OK", "Cancelled", "InvalidArgument", "OutOfRange"}]
        /\ got' \in [Takes -> SUBSET ElementType]
        /\ ready' \subseteq ElementType
    BY <1>1, <1>2, <1>3 DEF TypeOK
  <2>2. clean_up' \in [Calls -> Seq(Calls)]
    <3>1. clean_up \in [Calls -> Seq(Calls)] /\ clean_up[x] \in Seq(Calls)
      BY <1>1 DEF TypeOK
    <3>2. Append(clean_up[x], c) \in Seq(Calls)
      BY <1>1, <3>1, AppendFacts
    <3> QED BY <1>3, <3>1, <3>2
  <2>3. need' \in [Takes -> Nat]
    BY <1>1, <1>2, <1>5 DEF TypeOK
  <2> QED BY <1>1, <1>3, <1>8, <2>1, <2>2, <2>3 DEF TypeOK, barrier
<1>10. Onwards /\ \A d \in Calls \ {c} : Untouched(d)
  BY <1>1, <1>2, <1>3, <1>8 DEF TypeOK, Onwards, Untouched, barrier
<1>11. QueueInv'
  BY <1>1, <1>3, <1>4, <1>8 DEF QueueInv, Distinct, barrier
<1>12. LocalInv(c)'
  <2>1. \/ Cardinality(got'[c]) + need'[c] = request[c].n
        \/ request[c].small /\ closed
    BY <1>1, <1>5, <1>7, <1>4 DEF TakeInv
  <2>2. CASE need'[c] = 0
    <3>1. status'[c] = "OK" /\ ~Contains(dequeue_attempts', c)
      BY <1>1, <1>3, <1>8, <2>2 DEF TypeOK
    <3>2. got'[c] # {}
      BY <1>1, <1>4, <1>5, <2>2
    <3>3. CallInv(c)'
      BY <1>1, <1>3, <3>1 DEF CallInv, Listed, Late, barrier
    <3>5. Cardinality(got'[c]) = request[c].n \/ (request[c].small /\ closed)
      BY <1>1, <1>4, <1>7, <2>1, <2>2
    <3>4. TakeInv(c)'
      BY <1>1, <1>3, <3>1, <3>2, <3>5 DEF TakeInv, Late, barrier
    <3> QED BY <1>1, <3>3, <3>4 DEF LocalInv
  <2>3. CASE need'[c] # 0
    <3>1. status'[c] = "none"
      BY <1>1, <1>3, <2>3
    <3>2. request[c].small
      BY <1>1, <1>2, <1>3, <1>4, <1>5, <2>3 DEF Blocked
    <3>3. CallInv(c)'
      BY <1>1, <1>3, <2>3, <3>1 DEF CallInv, Listed, Late, barrier
    <3>4. TakeInv(c)'
      BY <1>1, <1>3, <1>5, <1>7, <2>1, <2>3, <3>1, <3>2 DEF TakeInv, Late, barrier
    <3> QED BY <1>1, <3>3, <3>4 DEF LocalInv
  <2> QED BY <2>2, <2>3
<1>13. ValuesInv'
  BY <1>1, <1>2, <1>3, <1>10, TakenInv DEF barrier
<1> QED BY <1>9, <1>10, <1>11, <1>12, <1>13, OthersInv DEF IInv

\* A stuttering step.
LEMMA StutterInv == ASSUME IInv, UNCHANGED vars PROVE IInv'
<1>0. TypeOK /\ QueueInv /\ ValuesInv /\ \A c \in Calls : LocalInv(c)
  BY DEF IInv
<1> USE DEF vars, barrier, queue, local, outcome
<1>1. TypeOK'
  BY <1>0 DEF TypeOK
<1>2. QueueInv'
  BY <1>0 DEF QueueInv, Distinct
<1>3. Onwards /\ \A c \in Calls : Untouched(c)
  BY DEF Onwards, Untouched
<1>4. ValuesInv'
  BY <1>0, <1>3, StillInv DEF TypeOK
<1> QED BY <1>0, <1>1, <1>2, <1>3, <1>4, UntouchedInv DEF IInv

\* Every step preserves the inductive invariant.
LEMMA NextInv == IInv /\ [Next]_vars => IInv'
<1> SUFFICES ASSUME IInv, [Next]_vars PROVE IInv'
  OBVIOUS
<1>1. CASE UNCHANGED vars
  BY <1>1, StutterInv
<1>2. CASE Begin
  BY <1>2, TryInsertManyStep, TryTakeManyStep, CloseStep DEF Begin
<1>3. ASSUME NEW x \in Calls, Step(x) PROVE IInv'
  <2>1. CASE x \in Inserts /\ (InsertOneLocked(x) \/ InsertFails(x) \/ InsertEnds(x))
    BY <2>1, InsertOneLockedStep, InsertFailsStep, InsertEndsStep
  <2>2. CASE x \in Inserts /\ EmplaceEnqueue(x)
    BY <2>2, EmplaceEnqueueSteps
  <2>3. CASE x \in Takes /\ EmplaceDequeue(x)
    BY <2>3, EmplaceDequeueStep
  <2>4. CASE x \in Closes /\ (EmplaceClose(x) \/ CloseAndCancel(x))
    BY <2>4, EmplaceEnqueueSteps, CloseAndCancelStep
  <2>5. CASE Flush(x) \/ FlushEnds(x) \/ Finish(x) \/ Return(x)
    BY <2>5, ThreadSteps
  <2>6. CASE RunEnqueue(x)
    BY <2>6, RunEnqueueStep
  <2>7. CASE \E c \in Takes : RunDequeueStarved(x, c) \/ RunDequeue(x, c)
    BY <2>7, RunDequeueStarvedStep, RunDequeueStep
  <2> QED BY <1>3, <2>1, <2>2, <2>3, <2>4, <2>5, <2>6, <2>7 DEF Step
<1> QED BY <1>1, <1>2, <1>3 DEF Next

\* The inductive invariant holds of every reachable state.
LEMMA Inductive == Spec => []IInv
BY InitInv, NextInv, PTL DEF Spec

-----------------------------------------------------------------------------
(* The theorems. *)

\* Every variable keeps its type.
THEOREM TypeCorrect == Spec => []TypeOK
<1>1. IInv => TypeOK
  BY DEF IInv
<1> QED BY <1>1, Inductive, PTL

\* A TakeMany that succeeds has what it was asked for, or a small batch of a
\* closed barrier if it allows that, although the barrier may change between
\* its look at it (TryTakeMany) and its attempts on the ready queue; OutOfRange
\* is only reported by a closed barrier.
THEOREM TakesAreWhole == Spec => []TakesWhole
<1>1. IInv => TakesWhole
  <2> SUFFICES ASSUME IInv PROVE TakesWhole
    OBVIOUS
  <2> QED BY Own DEF TakeInv, TakesWhole
<1> QED BY <1>1, Inductive, PTL

\* A value that was inserted is in exactly one place, whatever keys the inserts
\* share and however the takes and closes interleave with them; if a call that
\* succeeded finds it nowhere, the very call that had it last, an insert that
\* completed its tuple, a take or a Close that cancels, has reported the loss.
THEOREM NoValueLost == Spec => []ValuesKept
<1>1. IInv => ValuesKept
  <2> SUFFICES ASSUME IInv, NEW c \in Inserts \cap DOMAIN request,
                      NEW i \in DOMAIN request[c].keys
               PROVE  /\ \A p, q \in Places(c, i) : p = q
                      /\ c \in answered /\ status[c] = "OK" =>
                            Places(c, i) # {} \/ LossReported(c, i)
    BY DEF ValuesKept
  <2>1. /\ TypeOK /\ SourceInv /\ ApartInv /\ KeptInv /\ CallInv(c) /\ InsertInv(c)
        /\ request[c].component \in Components /\ request[c].keys \in Seq(Keys)
    BY Own, Arguments DEF ValuesInv
  <2> DEFINE J == request[c].component
             v == <<c, i>>
  <2>2. /\ i \in Nat /\ v # None
        /\ \A k, l : Genuine(v, J, k) /\ Genuine(v, J, l) => k = l
    BY <2>1, BarrierAssumption DEF Genuine
  <2>3. \A es, fs : Holds(es, c, i) /\ Holds(fs, c, i) =>
           \E e \in es, f \in fs : Share(e, f)
    BY <2>1 DEF Holds, Share
  <2>4. \A k \in Keys : \A es : incomplete[k].value[J] = v /\ Holds(es, c, i) =>
           \E f \in es : Share(incomplete[k], f)
    BY <2>1 DEF Holds, Share
  <2>5. \A p, q \in Places(c, i) : p = q
    <3>1. \A k, l \in Keys : incomplete[k].value[J] = v /\ incomplete[l].value[J] = v => k = l
      BY <2>1, <2>2 DEF SourceInv
    <3>2. \A d \in Inserts : ~(Holds(ready, c, i) /\ Holds(tuples[d], c, i))
      BY <2>1, <2>3 DEF ApartInv
    <3>3. \A t \in Takes : ~(Holds(ready, c, i) /\ Holds(got[t], c, i))
      BY <2>1, <2>3 DEF ApartInv
    <3>4. \A d \in Inserts, t \in Takes : ~(Holds(tuples[d], c, i) /\ Holds(got[t], c, i))
      BY <2>1, <2>3 DEF ApartInv
    <3>5. \A d, e \in Inserts : Holds(tuples[d], c, i) /\ Holds(tuples[e], c, i) => d = e
      BY <2>1, <2>3 DEF ApartInv
    <3>6. \A t, u \in Takes : Holds(got[t], c, i) /\ Holds(got[u], c, i) => t = u
      BY <2>1, <2>3 DEF ApartInv
    <3>7. \A k \in Keys : incomplete[k].value[J] = v =>
             /\ ~Holds(ready, c, i)
             /\ \A d \in Inserts : ~Holds(tuples[d], c, i)
             /\ \A t \in Takes : ~Holds(got[t], c, i)
      BY <2>1, <2>4 DEF ApartInv
    <3>8. \A e \in ready : Holds({e}, c, i) => Holds(ready, c, i)
      BY DEF Holds
    <3> QED BY <3>1, <3>2, <3>3, <3>4, <3>5, <3>6, <3>7, <3>8 DEF Places
  <2>6. ASSUME c \in answered, status[c] = "OK"
        PROVE  Places(c, i) # {} \/ LossReported(c, i)
    <3>1. inserted[c] = Len(request[c].keys)
      BY <2>1, <2>6 DEF CallInv, InsertInv, Failed
    <3>2. Somewhere(c, i)
      BY <2>1, <3>1 DEF KeptInv
    <3>3. ASSUME Holds(ready, c, i) PROVE \E e \in ready : Holds({e}, c, i)
      BY <3>3 DEF Holds
    <3>4. CASE \/ \E k \in Keys : incomplete[k].value[request[c].component] = <<c, i>>
               \/ Holds(ready, c, i)
      BY <3>3, <3>4 DEF Places
    <3>5. CASE \E d \in Inserts : Holds(tuples[d], c, i)
      BY <3>5 DEF Places, LossReported
    <3>6. CASE \E t \in Takes : Holds(got[t], c, i)
      BY <3>6 DEF Places, LossReported
    <3>7. CASE Holds(dropped, c, i)
      <4>1. cancel_pending_enqueues
        BY <3>7, Own DEF Holds, QueueInv
      <4> QED BY <3>7, <4>1 DEF LossReported
    <3> QED BY <3>2, <3>4, <3>5, <3>6, <3>7 DEF Somewhere
  <2> QED BY <2>5, <2>6
<1> QED BY <1>1, Inductive, PTL

=============================================================================
