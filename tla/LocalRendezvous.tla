--------------------------- MODULE LocalRendezvous ---------------------------
(***************************************************************************)
(* LocalRendezvousImpl (core/framework/rendezvous.{h,cc}): producers Send  *)
(* a tensor under a key, consumers RecvAsync it with a callback, before or *)
(* after, and anybody may abort.                                           *)
(*                                                                         *)
(* Every call takes mu_ once and calls back after releasing it: Send calls *)
(* the waiter it found, StartAbort every waiter that was in the table, and *)
(* RecvAsync its own callback.  Those are the second steps below, and      *)
(* anything may happen before them.                                        *)
(*                                                                         *)
(* A message ({val, is_dead}) is named by the Send that carries it, None   *)
(* is the empty Tensor.  Each call has a device context of its own; refs   *)
(* counts the references that the rendezvous holds on it.                  *)
(***************************************************************************)
EXTENDS Integers, FiniteSets

CONSTANTS Keys,
          Hashes,
          KeyHash,      \* the hash of each key's text
          Senders,      \* calls of Send
          Receivers,    \* calls of RecvAsync
          Aborters,     \* calls of StartAbort, each with a status of its own
          Tolerate,     \* tolerate_dup_recv_
          None          \* no waiter, no tensor, no device context

\* The table is keyed by a 64-bit hash; the code relies on no two keys of a
\* step having the same one.
ASSUME RendezvousAssumption ==
    /\ KeyHash \in [Keys -> Hashes]
    /\ \A k, l \in Keys : KeyHash[k] = KeyHash[l] => k = l
    /\ Tolerate \in BOOLEAN
    /\ Senders \cap Receivers = {}
    /\ None \notin Senders \cup Receivers \cup Aborters \cup Keys
    /\ "OK" \notin Aborters
    /\ "Aborted" \notin Aborters

VARIABLES table,    \* table_: per hash, an item, or one with exists = FALSE
          status,   \* status_: "OK", or the first abort
          send,     \* the local state of each Send
          recv,     \* the local state of each RecvAsync
          abort,    \* the local state of each StartAbort
          refs      \* references on the device contexts

vars == <<table, status, send, recv, abort, refs>>

Calls == Senders \cup Receivers

ItemType == [exists           : BOOLEAN,
             waiter           : Receivers \cup {None},
             value            : Senders \cup {None},
             has_been_recvd   : BOOLEAN,
             send_dev_context : Senders \cup {None},
             recv_dev_context : Receivers \cup {None}]

NoItem == [exists           |-> FALSE,
           waiter           |-> None,
           value            |-> None,
           has_been_recvd   |-> FALSE,
           send_dev_context |-> None,
           recv_dev_context |-> None]

SendType == [pc     : {"start", "notify", "done"},
             key    : Keys \cup {None},
             status : {"OK", "Aborted"} \cup Aborters,
             waiter : Receivers \cup {None}]  \* taken from the item

RecvType == [pc     : {"start", "waiting", "delivering", "done"},
             key    : Keys \cup {None},
             status : {"OK", "Aborted"} \cup Aborters,
             value  : Senders \cup {None},
             held   : Senders \cup {None},    \* send_dev_context in use
             calls  : Nat]                    \* how often done was called

AbortType == [pc    : {"start", "loop", "done"},
              items : SUBSET [hash : Hashes, item : ItemType]]

TypeOK == /\ table \in [Hashes -> ItemType]
          /\ status \in {"OK"} \cup Aborters
          /\ send \in [Senders -> SendType]
          /\ recv \in [Receivers -> RecvType]
          /\ abort \in [Aborters -> AbortType]
          /\ refs \in [Calls -> Int]

Init == /\ table = [h \in Hashes |-> NoItem]
        /\ status = "OK"
        /\ send = [s \in Senders |-> [pc     |-> "start",
                                      key    |-> None,
                                      status |-> "OK",
                                      waiter |-> None]]
        /\ recv = [r \in Receivers |-> [pc     |-> "start",
                                        key    |-> None,
                                        status |-> "OK",
                                        value  |-> None,
                                        held   |-> None,
                                        calls  |-> 0]]
        /\ abort = [a \in Aborters |-> [pc |-> "start", items |-> {}]]
        /\ refs = [c \in Calls |-> 0]

\* Ref() and Unref() of the device contexts in c (None is no context).
Ref(c)   == refs' = [d \in Calls |-> IF d \in c THEN refs[d] + 1 ELSE refs[d]]
Unref(c) == refs' = [d \in Calls |-> IF d \in c THEN refs[d] - 1 ELSE refs[d]]

-----------------------------------------------------------------------------
(* Send *)

\* A Send that returns without having found a waiter.
SendReturns(s, k, result) ==
    send' = [send EXCEPT ![s].pc = "done",
                         ![s].key = k,
                         ![s].status = result]

SendAborted(s, k) ==
    /\ send[s].pc = "start"
    /\ status # "OK"
    /\ SendReturns(s, k, status)
    /\ UNCHANGED <<table, status, recv, abort, refs>>

\* Mutant: an item that is there is replaced.
SendOverwrites(s, k) ==
    /\ send[s].pc = "start"
    /\ status = "OK"
    /\ table' = [table EXCEPT ![KeyHash[k]] =
                    [NoItem EXCEPT !.exists = TRUE,
                                   !.value = s,
                                   !.send_dev_context = s]]
    /\ Ref({s})
    /\ SendReturns(s, k, "OK")
    /\ UNCHANGED <<status, recv, abort>>

\* Nobody waits yet: the message is stored.
SendStores(s, k) ==
    /\ send[s].pc = "start"
    /\ status = "OK"
    /\ ~table[KeyHash[k]].exists
    /\ table' = [table EXCEPT ![KeyHash[k]] =
                    [NoItem EXCEPT !.exists = TRUE,
                                   !.value = s,
                                   !.send_dev_context = s]]
    /\ Ref({s})
    /\ SendReturns(s, k, "OK")
    /\ UNCHANGED <<status, recv, abort>>

\* A message is, or has been, in the table.
SendDuplicated(s, k) ==
    /\ send[s].pc = "start"
    /\ status = "OK"
    /\ table[KeyHash[k]].exists
    /\ table[KeyHash[k]].waiter = None
    /\ SendReturns(s, k, "Aborted")
    /\ UNCHANGED <<table, status, recv, abort, refs>>

\* Mutants: the waiter stays in the item; its context stays in the item.
SendKeepsWaiter(s, k) ==
    /\ send[s].pc = "start"
    /\ status = "OK"
    /\ table[KeyHash[k]].exists
    /\ table[KeyHash[k]].waiter # None
    /\ send' = [send EXCEPT ![s].pc = "notify",
                            ![s].key = k,
                            ![s].waiter = table[KeyHash[k]].waiter]
    /\ table' = [table EXCEPT ![KeyHash[k]].has_been_recvd = TRUE]
    /\ UNCHANGED <<status, recv, abort, refs>>

\* The waiter is taken out of the item, which is marked as complete and, if
\* duplicates are tolerated, keeps the message.  The reference on the
\* waiter's context passes to this call.
SendToWaiter(s, k) ==
    /\ send[s].pc = "start"
    /\ status = "OK"
    /\ table[KeyHash[k]].exists
    /\ table[KeyHash[k]].waiter # None
    /\ send' = [send EXCEPT ![s].pc = "notify",
                            ![s].key = k,
                            ![s].waiter = table[KeyHash[k]].waiter]
    /\ table' = [table EXCEPT
           ![KeyHash[k]].has_been_recvd = TRUE,
           ![KeyHash[k]].waiter = None,
           ![KeyHash[k]].recv_dev_context = None,
           ![KeyHash[k]].value = IF Tolerate THEN s ELSE @,
           ![KeyHash[k]].send_dev_context = IF Tolerate THEN s ELSE @]
    /\ Ref(IF Tolerate THEN {s} ELSE {})
    /\ UNCHANGED <<status, recv, abort>>

\* The call of a receiver's callback.
Answer(r, result, value) ==
    recv' = [recv EXCEPT ![r].pc = "done",
                         ![r].status = result,
                         ![r].value = value,
                         ![r].held = None,
                         ![r].calls = @ + 1]

NotifyWaiter(s) ==
    /\ send[s].pc = "notify"
    /\ Answer(send[s].waiter, "OK", s)
    /\ Unref({send[s].waiter})
    /\ send' = [send EXCEPT ![s].pc = "done"]
    /\ UNCHANGED <<table, status, abort>>

-----------------------------------------------------------------------------
(* RecvAsync *)

\* The callback is called at once, with an error.
RecvFails(r, k, result) ==
    recv' = [recv EXCEPT ![r].pc = "done",
                         ![r].key = k,
                         ![r].status = result,
                         ![r].calls = @ + 1]

RecvAborted(r, k) ==
    /\ recv[r].pc = "start"
    /\ status # "OK"
    /\ RecvFails(r, k, status)
    /\ UNCHANGED <<table, status, send, abort, refs>>

\* The message has been received, or another call is waiting for it.
RecvDuplicated(r, k) ==
    /\ recv[r].pc = "start"
    /\ status = "OK"
    /\ ~Tolerate
    /\ table[KeyHash[k]].exists
    /\ table[KeyHash[k]].has_been_recvd \/ table[KeyHash[k]].waiter # None
    /\ RecvFails(r, k, "Aborted")
    /\ UNCHANGED <<table, status, send, abort, refs>>

\* Mutants: a waiting receive is not looked for; the item is not marked as
\* received; no reference is taken for the callback.
RecvBesideWaiter(r, k) ==
    /\ recv[r].pc = "start"
    /\ status = "OK"
    /\ table[KeyHash[k]].exists
    /\ ~table[KeyHash[k]].has_been_recvd
    /\ recv' = [recv EXCEPT ![r].pc = "delivering",
                            ![r].key = k,
                            ![r].value = table[KeyHash[k]].value]
    /\ table' = [table EXCEPT ![KeyHash[k]].has_been_recvd = TRUE]
    /\ UNCHANGED <<status, send, abort, refs>>

RecvNotMarked(r, k) ==
    /\ recv[r].pc = "start"
    /\ status = "OK"
    /\ table[KeyHash[k]].exists
    /\ table[KeyHash[k]].waiter = None
    /\ recv' = [recv EXCEPT ![r].pc = "delivering",
                            ![r].key = k,
                            ![r].value = table[KeyHash[k]].value]
    /\ UNCHANGED <<table, status, send, abort, refs>>

RecvWithoutRef(r, k) ==
    /\ recv[r].pc = "start"
    /\ status = "OK"
    /\ table[KeyHash[k]].exists
    /\ Tolerate \/ table[KeyHash[k]].waiter = None
    /\ recv' = [recv EXCEPT ![r].pc = "delivering",
                            ![r].key = k,
                            ![r].value = table[KeyHash[k]].value,
                            ![r].held = table[KeyHash[k]].send_dev_context]
    /\ table' = [table EXCEPT ![KeyHash[k]].has_been_recvd = TRUE]
    /\ UNCHANGED <<status, send, abort, refs>>

\* The item's value is captured under mu_, with a reference on its context.
RecvStored(r, k) ==
    /\ recv[r].pc = "start"
    /\ status = "OK"
    /\ table[KeyHash[k]].exists
    /\ \/ Tolerate
       \/ ~table[KeyHash[k]].has_been_recvd /\ table[KeyHash[k]].waiter = None
    /\ LET item == table[KeyHash[k]]
       IN /\ recv' = [recv EXCEPT ![r].pc = "delivering",
                                  ![r].key = k,
                                  ![r].value = item.value,
                                  ![r].held = item.send_dev_context]
          /\ Ref({item.send_dev_context})
          /\ table' = [table EXCEPT
                 ![KeyHash[k]].has_been_recvd = TRUE,
                 ![KeyHash[k]].value = IF Tolerate THEN @ ELSE None]
    /\ UNCHANGED <<status, send, abort>>

\* The callback runs, then the reference is dropped.
RecvDelivers(r) ==
    /\ recv[r].pc = "delivering"
    /\ Answer(r, "OK", recv[r].value)
    /\ Unref({recv[r].held})
    /\ UNCHANGED <<table, status, send, abort>>

RecvWaits(r, k) ==
    /\ recv[r].pc = "start"
    /\ status = "OK"
    /\ ~table[KeyHash[k]].exists
    /\ table' = [table EXCEPT ![KeyHash[k]] =
                    [NoItem EXCEPT !.exists = TRUE,
                                   !.waiter = r,
                                   !.recv_dev_context = r]]
    /\ Ref({r})
    /\ recv' = [recv EXCEPT ![r].pc = "waiting", ![r].key = k]
    /\ UNCHANGED <<status, send, abort>>

-----------------------------------------------------------------------------
(* StartAbort *)

AbortAgain(a) ==
    /\ abort[a].pc = "start"
    /\ status # "OK"
    /\ abort' = [abort EXCEPT ![a].pc = "done"]
    /\ UNCHANGED <<table, status, send, recv, refs>>

\* Mutants: the table is cleared and its waiters are forgotten; the caller's
\* status is replaced by a general one.
AbortForgetsWaiters(a) ==
    /\ abort[a].pc = "start"
    /\ status = "OK"
    /\ status' = a
    /\ abort' = [abort EXCEPT ![a].pc = "loop"]
    /\ table' = [h \in Hashes |-> NoItem]
    /\ UNCHANGED <<send, recv, refs>>

\* The first abort decides the status and empties the table.
StartAbort(a) ==
    /\ abort[a].pc = "start"
    /\ status = "OK"
    /\ status' = a
    /\ abort' = [abort EXCEPT
           ![a].pc = "loop",
           ![a].items = {[hash |-> h, item |-> table[h]] :
                            h \in {g \in Hashes : table[g].exists}}]
    /\ table' = [h \in Hashes |-> NoItem]
    /\ UNCHANGED <<send, recv, refs>>

\* One item: its waiter, if any, is called and the item is deleted.
AbortItem(a, i) ==
    /\ abort[a].pc = "loop"
    /\ abort' = [abort EXCEPT ![a].items = @ \ {i}]
    /\ IF i.item.waiter # None
       THEN Answer(i.item.waiter, a, None)
       ELSE UNCHANGED recv
    /\ Unref({i.item.send_dev_context, i.item.recv_dev_context})
    /\ UNCHANGED <<table, status, send>>

AbortDone(a) ==
    /\ abort[a].pc = "loop"
    /\ abort[a].items = {}
    /\ abort' = [abort EXCEPT ![a].pc = "done"]
    /\ UNCHANGED <<table, status, send, recv, refs>>

-----------------------------------------------------------------------------
SendStep(s) == \E k \in Keys : \/ SendAborted(s, k)
                               \/ SendStores(s, k)
                               \/ SendDuplicated(s, k)
                               \/ SendToWaiter(s, k)

RecvStep(r) == \E k \in Keys : \/ RecvAborted(r, k)
                               \/ RecvDuplicated(r, k)
                               \/ RecvStored(r, k)
                               \/ RecvWaits(r, k)

AbortStep(a) == \/ AbortDone(a)
                \/ \E i \in abort[a].items : AbortItem(a, i)

Next == \/ \E s \in Senders : SendStep(s) \/ NotifyWaiter(s)
        \/ \E r \in Receivers : RecvStep(r) \/ RecvDelivers(r)
        \/ \E a \in Aborters : AbortAgain(a) \/ StartAbort(a) \/ AbortStep(a)

Spec == Init /\ [][Next]_vars

\* A thread that is inside a call is scheduled until it returns.
Fairness == /\ \A s \in Senders : WF_vars(NotifyWaiter(s))
            /\ \A r \in Receivers : WF_vars(RecvDelivers(r))
            /\ \A a \in Aborters : WF_vars(AbortStep(a))

FairSpec == Spec /\ Fairness

-----------------------------------------------------------------------------
(* Properties *)

\* The Send was not refused: its message is in the table or on its way.
Accepted(s) == send[s].pc # "start" /\ send[s].status = "OK"

Received(r) == recv[r].pc = "done" /\ recv[r].status = "OK"

(***************************************************************************)
(* A successful receive gets the message of an accepted Send of its own    *)
(* key, and never an empty tensor (unless duplicates are tolerated: then a *)
(* duplicate that finds the first receive waiting gets an empty one).      *)
(***************************************************************************)
DeliveredIntact ==
    \A r \in Receivers : Received(r) =>
        /\ recv[r].value = None => Tolerate
        /\ recv[r].value # None => /\ Accepted(recv[r].value)
                                   /\ send[recv[r].value].key = recv[r].key

(***************************************************************************)
(* "A Rendezvous key encodes a single <producer, consumer> pair": one Send *)
(* per key is accepted and, unless duplicates are tolerated, one receive   *)
(* succeeds, however the calls race.                                       *)
(***************************************************************************)
OneToOne ==
    /\ \A s, t \in Senders :
          Accepted(s) /\ Accepted(t) /\ send[s].key = send[t].key => s = t
    /\ ~Tolerate => \A r, q \in Receivers :
          Received(r) /\ Received(q) /\ recv[r].key = recv[q].key => r = q

(***************************************************************************)
(* The callback of a receive is called once: by its own call, by the Send  *)
(* that found it waiting or by the abort that found it in the table.  At   *)
(* any moment exactly one of them has it.                                  *)
(***************************************************************************)
AnsweredOnce ==
    \A r \in Receivers :
        LET inTable == {h \in Hashes : table[h].waiter = r}
            inSend  == {s \in Senders : send[s].pc = "notify" /\
                                        send[s].waiter = r}
            inAbort == {a \in Aborters :
                           \E i \in abort[a].items : i.item.waiter = r}
            own     == IF recv[r].pc = "delivering" THEN 1 ELSE 0
        IN Cardinality(inTable) + Cardinality(inSend) + Cardinality(inAbort)
              + own + recv[r].calls = IF recv[r].pc = "start" THEN 0 ELSE 1

(***************************************************************************)
(* "The consumer receives the Tensor as soon as it is available": no       *)
(* receive goes on waiting beside a message for its key; the Send that     *)
(* brought it is about to call it.                                         *)
(***************************************************************************)
SentReachesWaiter ==
    \A r \in Receivers, s \in Senders :
        /\ recv[r].pc = "waiting"
        /\ Accepted(s)
        /\ send[s].key = recv[r].key
        => send[s].pc = "notify" /\ send[s].waiter = r

(***************************************************************************)
(* The references on a device context are those of the items that store it *)
(* (in the table or taken by an abort) and of the calls that use it: none  *)
(* is leaked, and no context is used without one.                          *)
(***************************************************************************)
RefsBalanced ==
    LET Holds(c, item) == c \in {item.send_dev_context, item.recv_dev_context}
    IN \A c \in Calls :
          refs[c] =
              Cardinality({h \in Hashes : Holds(c, table[h])})
              + Cardinality({p \in Aborters \X Hashes :
                    \E i \in abort[p[1]].items :
                        i.hash = p[2] /\ Holds(c, i.item)})
              + Cardinality({s \in Senders : send[s].pc = "notify" /\
                                             send[s].waiter = c})
              + Cardinality({r \in Receivers : recv[r].held = c})

(***************************************************************************)
(* "Aborts all pending and future Send/Recv": a waiting receive is         *)
(* answered once its message has been sent or the rendezvous aborted.      *)
(***************************************************************************)
WaiterAnswered ==
    \A r \in Receivers :
        /\ recv[r].pc = "waiting"
        /\ \/ status # "OK"
           \/ \E s \in Senders : Accepted(s) /\ send[s].key = recv[r].key
        ~> recv[r].pc = "done"
=============================================================================
