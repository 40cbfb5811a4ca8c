------------------------ MODULE LocalRendezvousProofs ------------------------
(***************************************************************************)
(* Safety of LocalRendezvous for any number of keys, calls and aborts.     *)
(*                                                                         *)
(* Every property is about pairs of calls that meet in the table.  The     *)
(* inductive invariant says what the item of a key reveals about the calls *)
(* made so far, as long as the rendezvous is not aborted, and who owns the *)
(* callback of a waiting receive.  A second one, proved on top of it,      *)
(* counts: the calls of each callback and the references on each context.  *)
(***************************************************************************)
EXTENDS LocalRendezvous, FiniteSetTheorems, FunctionTheorems, TLAPS

ItemOf(k) == table[KeyHash[k]]

\* s is about to call the waiting receive r.
Notifies(s, r) == send[s].pc = "notify" /\ send[s].waiter = r

\* An item describes the calls with its key.
ItemInv ==
    /\ \A h \in Hashes : table[h].value # None =>
          /\ Accepted(table[h].value)
          /\ KeyHash[send[table[h].value].key] = h
    /\ \A h \in Hashes : table[h].waiter # None =>
          /\ recv[table[h].waiter].pc = "waiting"
          /\ KeyHash[recv[table[h].waiter].key] = h
          /\ ~Tolerate => ~table[h].has_been_recvd
    /\ \A h \in Hashes :
          /\ table[h].exists
          /\ ~table[h].has_been_recvd
          /\ table[h].waiter = None
          => table[h].value # None
    /\ \A h \in Hashes : ~table[h].exists =>
          table[h].waiter = None /\ ~table[h].has_been_recvd
    /\ \A h \in Hashes : table[h].exists => status = "OK"

\* The calls in progress or completed, and their keys.
CallInv ==
    /\ \A s \in Senders : Accepted(s) => send[s].key \in Keys
    /\ \A r \in Receivers : recv[r].pc # "start" => recv[r].key \in Keys
    /\ \A s \in Senders : Accepted(s) /\ status = "OK" =>
          ItemOf(send[s].key).exists /\ ItemOf(send[s].key).waiter = None
    /\ \A r \in Receivers : recv[r].pc = "delivering" =>
          /\ recv[r].status = "OK"
          /\ recv[r].value = None => Tolerate
          /\ recv[r].value # None => /\ Accepted(recv[r].value)
                                     /\ send[recv[r].value].key = recv[r].key
    /\ \A s \in Senders : send[s].pc = "notify" =>
          /\ send[s].waiter \in Receivers
          /\ Accepted(s)
          /\ recv[send[s].waiter].pc = "waiting"
          /\ recv[send[s].waiter].key = send[s].key

\* A call that has not begun has not failed.
FreshInv ==
    /\ \A s \in Senders : send[s].pc \in {"start", "notify"} =>
          send[s].status = "OK"
    /\ \A r \in Receivers : recv[r].pc # "done" => recv[r].status = "OK"

\* A waiting receive is in the table, with a Send, or with the abort.
WaitInv ==
    /\ \A r \in Receivers : recv[r].pc = "waiting" /\ status = "OK" =>
          \/ ItemOf(recv[r].key).waiter = r
          \/ \E s \in Senders : Notifies(s, r)
    /\ \A a \in Aborters : \A i \in abort[a].items :
          /\ abort[a].pc = "loop"
          /\ i.item.waiter # None =>
                /\ recv[i.item.waiter].pc = "waiting"
                /\ \A s \in Senders : ~Notifies(s, i.item.waiter)
    /\ \A a, b \in Aborters : abort[a].pc = "loop" =>
          /\ status # "OK"
          /\ abort[b].pc = "loop" => a = b
    /\ \A a \in Aborters : \A i, j \in abort[a].items :
          i.item.waiter = j.item.waiter /\ i.item.waiter # None => i = j
    /\ \A h \in Hashes, s \in Senders :
          table[h].waiter # None => ~Notifies(s, table[h].waiter)

\* r has, or is about to be given, the message of its key.
Claims(r) == \/ recv[r].pc = "delivering"
             \/ Received(r)
             \/ \E s \in Senders : Notifies(s, r)

ClaimInv ==
    ~Tolerate =>
        /\ \A r \in Receivers : Claims(r) /\ status = "OK" =>
              ItemOf(recv[r].key).has_been_recvd
        /\ \A r, q \in Receivers :
              Claims(r) /\ Claims(q) /\ recv[r].key = recv[q].key => r = q

IInv == /\ TypeOK
        /\ ItemInv
        /\ CallInv
        /\ FreshInv
        /\ WaitInv
        /\ ClaimInv
        /\ DeliveredIntact
        /\ OneToOne
        /\ SentReachesWaiter

\* The callback of a receive has been called when the receive is done, and
\* an abort forgets no receive that waits.
AnswerInv ==
    /\ \A r \in Receivers :
          recv[r].calls = IF recv[r].pc = "done" THEN 1 ELSE 0
    /\ \A r \in Receivers : recv[r].pc = "waiting" /\ status # "OK" =>
          \/ \E s \in Senders : Notifies(s, r)
          \/ \E a \in Aborters : \E i \in abort[a].items : i.item.waiter = r

\* Which contexts an item and a receive can hold.
ContextInv ==
    /\ \A h \in Hashes : table[h].recv_dev_context = table[h].waiter
    /\ \A h \in Hashes : ~table[h].exists \/ table[h].waiter # None =>
          table[h].send_dev_context = None
    /\ \A a \in Aborters : \A i, j \in abort[a].items :
          i.hash = j.hash => i = j
    /\ \A r \in Receivers : recv[r].pc # "delivering" => recv[r].held = None

\* Where the references on the context c are.
Stored(c)    == {h \in Hashes : c \in {table[h].send_dev_context,
                                      table[h].recv_dev_context}}
Taken(c)     == {p \in Aborters \X Hashes : \E i \in abort[p[1]].items :
                    /\ i.hash = p[2]
                    /\ c \in {i.item.send_dev_context,
                             i.item.recv_dev_context}}
Notifying(c) == {s \in Senders : Notifies(s, c)}
Holding(c)   == {r \in Receivers : recv[r].held = c}

Counted(c) ==
    /\ IsFiniteSet(Stored(c))
    /\ IsFiniteSet(Taken(c))
    /\ IsFiniteSet(Notifying(c))
    /\ IsFiniteSet(Holding(c))
    /\ refs[c] = Cardinality(Stored(c)) + Cardinality(Taken(c))
                   + Cardinality(Notifying(c)) + Cardinality(Holding(c))

CountInv == \A c \in Calls : Counted(c)

JInv == AnswerInv /\ ContextInv /\ CountInv

-----------------------------------------------------------------------------
USE RendezvousAssumption

\* The initial states satisfy the inductive invariant.
LEMMA InitIInv == Init => IInv
  <1> SUFFICES ASSUME Init PROVE IInv
    OBVIOUS
  <1>1. TypeOK
    BY DEF Init, TypeOK, NoItem, ItemType, SendType, RecvType, AbortType, Calls
  <1>2. ItemInv /\ CallInv /\ FreshInv
    BY DEF Init, NoItem, ItemInv, CallInv, FreshInv, Accepted
  <1>3. WaitInv
    BY DEF Init, NoItem, WaitInv, Notifies
  <1>4. ClaimInv
    BY DEF Init, ClaimInv, Claims, Received, Notifies
  <1>5. DeliveredIntact /\ OneToOne /\ SentReachesWaiter
    BY DEF Init, DeliveredIntact, OneToOne, SentReachesWaiter, Received,
           Accepted
  <1>6. QED BY <1>1, <1>2, <1>3, <1>4, <1>5 DEF IInv

\* SendAborted preserves the inductive invariant.
LEMMA SendAbortedIInv ==
    ASSUME IInv, NEW s \in Senders, NEW k \in Keys, SendAborted(s, k)
    PROVE  IInv'
  <1>1. TypeOK'
    <2>1. table' \in [Hashes -> ItemType]
      BY DEF IInv, TypeOK, SendAborted, SendReturns, ItemType
    <2>2. status' \in {"OK"} \cup Aborters
      BY DEF IInv, TypeOK, SendAborted, SendReturns
    <2>3. send' \in [Senders -> SendType]
      <3>1. send[s] \in SendType /\ status \in {"OK", "Aborted"} \cup Aborters
        BY DEF IInv, TypeOK
      <3>2. [send[s] EXCEPT !.pc = "done", !.key = k, !.status = status]
               \in SendType
        BY <3>1 DEF SendType
      <3>3. send' = [send EXCEPT ![s] =
               [send[s] EXCEPT !.pc = "done", !.key = k, !.status = status]]
        BY <3>1 DEF IInv, TypeOK, SendAborted, SendReturns, SendType
      <3>4. QED BY <3>2, <3>3 DEF IInv, TypeOK
    <2>4. recv' \in [Receivers -> RecvType]
      BY DEF IInv, TypeOK, SendAborted, SendReturns, RecvType, ItemType,
             AbortType
    <2>5. abort' \in [Aborters -> AbortType]
      BY DEF IInv, TypeOK, SendAborted, SendReturns, AbortType, ItemType
    <2>6. refs' \in [Calls -> Int]
      BY DEF IInv, TypeOK, SendAborted, SendReturns, Ref, Unref, Calls
    <2>7. QED BY <2>1, <2>2, <2>3, <2>4, <2>5, <2>6 DEF TypeOK
  <1>2. ItemInv'
    BY DEF IInv, TypeOK, SendAborted, SendReturns, ItemInv, CallInv, Accepted,
           ItemType, SendType, RecvType
  <1>3. CallInv'
    BY SMTT(30) DEF IInv, TypeOK, SendAborted, SendReturns, ItemInv, CallInv,
           WaitInv, Notifies, ItemOf, Accepted, ItemType, SendType, RecvType
  <1>4. WaitInv'
    BY DEF IInv, TypeOK, SendAborted, SendReturns, ItemInv, CallInv, WaitInv,
           Notifies, ItemOf, Accepted, ItemType, SendType, RecvType, AbortType
  <1>5. ClaimInv'
    BY DEF IInv, TypeOK, SendAborted, SendReturns, ItemInv, CallInv, WaitInv,
           ClaimInv, Claims, Received, Notifies, ItemOf, Accepted, ItemType,
           SendType, RecvType
  <1>6. DeliveredIntact'
    BY DEF IInv, TypeOK, SendAborted, SendReturns, CallInv, WaitInv,
           DeliveredIntact, Received, Accepted, ItemType, SendType, RecvType
  <1>7. OneToOne'
    BY DEF IInv, TypeOK, SendAborted, SendReturns, ItemInv, CallInv, WaitInv,
           ClaimInv, Claims, Notifies, ItemOf, OneToOne, Received, Accepted,
           ItemType, SendType, RecvType
  <1>8. SentReachesWaiter'
    BY DEF IInv, TypeOK, SendAborted, SendReturns, ItemInv, CallInv, WaitInv,
           Notifies, ItemOf, SentReachesWaiter, Accepted, ItemType, SendType,
           RecvType
  <1>9. FreshInv'
    BY DEF IInv, TypeOK, SendAborted, SendReturns, SendType, RecvType,
           FreshInv
  <1>10. QED
    BY <1>1, <1>2, <1>3, <1>4, <1>5, <1>6, <1>7, <1>8, <1>9 DEF IInv

\* SendStores preserves the inductive invariant.
LEMMA SendStoresIInv ==
    ASSUME IInv, NEW s \in Senders, NEW k \in Keys, SendStores(s, k)
    PROVE  IInv'
  <1>1. TypeOK'
    <2>1. table' \in [Hashes -> ItemType]
      BY DEF IInv, TypeOK, SendStores, SendReturns, NoItem, ItemType
    <2>2. status' \in {"OK"} \cup Aborters
      BY DEF IInv, TypeOK, SendStores, SendReturns, NoItem
    <2>3. send' \in [Senders -> SendType]
      <3>1. send[s] \in SendType /\ "OK" \in {"OK", "Aborted"} \cup Aborters
        BY DEF IInv, TypeOK
      <3>2. [send[s] EXCEPT !.pc = "done", !.key = k, !.status = "OK"]
               \in SendType
        BY <3>1 DEF SendType
      <3>3. send' = [send EXCEPT ![s] =
               [send[s] EXCEPT !.pc = "done", !.key = k, !.status = "OK"]]
        BY <3>1 DEF IInv, TypeOK, SendStores, SendReturns, SendType
      <3>4. QED BY <3>2, <3>3 DEF IInv, TypeOK
    <2>4. recv' \in [Receivers -> RecvType]
      BY DEF IInv, TypeOK, SendStores, SendReturns, NoItem, RecvType,
             ItemType, AbortType
    <2>5. abort' \in [Aborters -> AbortType]
      BY DEF IInv, TypeOK, SendStores, SendReturns, NoItem, AbortType,
             ItemType
    <2>6. refs' \in [Calls -> Int]
      BY DEF IInv, TypeOK, SendStores, SendReturns, NoItem, Ref, Unref, Calls
    <2>7. QED BY <2>1, <2>2, <2>3, <2>4, <2>5, <2>6 DEF TypeOK
  <1>2. ItemInv'
    BY DEF IInv, TypeOK, SendStores, SendReturns, NoItem, ItemInv, CallInv,
           Accepted, ItemType, SendType, RecvType
  <1>3. CallInv'
    BY SMTT(30) DEF IInv, TypeOK, SendStores, SendReturns, NoItem, ItemInv,
           CallInv, WaitInv, Notifies, ItemOf, Accepted, ItemType, SendType,
           RecvType
  <1>4. WaitInv'
    BY SMTT(30) DEF IInv, TypeOK, SendStores, SendReturns, NoItem, ItemInv,
           CallInv, WaitInv, Notifies, ItemOf, Accepted, ItemType, SendType,
           RecvType, AbortType
  <1>5. ClaimInv'
    <2>1. \A q \in Receivers : Claims(q)' <=> Claims(q)
      <3>1. \A x \in Senders, q \in Receivers : Notifies(x, q)' <=> Notifies(x, q)
        BY DEF IInv, TypeOK, SendStores, SendReturns, SendType, Notifies
      <3>2. QED BY <3>1 DEF SendStores, Claims, Received
    <2>2. \A g \in Hashes : table[g].has_been_recvd => table'[g] = table[g]
      BY DEF IInv, TypeOK, ItemInv, SendStores
    <2>3. \A q \in Receivers : Claims(q) => recv[q].key \in Keys
      BY DEF IInv, CallInv, Claims, Received, Notifies
    <2>4. QED BY <2>1, <2>2, <2>3 DEF IInv, SendStores, ClaimInv, ItemOf
  <1>6. DeliveredIntact'
    BY DEF IInv, TypeOK, SendStores, SendReturns, NoItem, CallInv, WaitInv,
           DeliveredIntact, Received, Accepted, ItemType, SendType, RecvType
  <1>7. OneToOne'
    BY DEF IInv, TypeOK, SendStores, SendReturns, NoItem, ItemInv, CallInv,
           WaitInv, ClaimInv, Claims, Notifies, ItemOf, OneToOne, Received,
           Accepted, ItemType, SendType, RecvType
  <1>8. SentReachesWaiter'
    BY SMTT(30) DEF IInv, TypeOK, SendStores, SendReturns, NoItem, ItemInv,
           CallInv, WaitInv, Notifies, ItemOf, SentReachesWaiter, Accepted,
           ItemType, SendType, RecvType
  <1>9. FreshInv'
    BY DEF IInv, TypeOK, SendStores, SendReturns, SendType, RecvType, FreshInv
  <1>10. QED
    BY <1>1, <1>2, <1>3, <1>4, <1>5, <1>6, <1>7, <1>8, <1>9 DEF IInv

\* SendDuplicated preserves the inductive invariant.
LEMMA SendDuplicatedIInv ==
    ASSUME IInv, NEW s \in Senders, NEW k \in Keys, SendDuplicated(s, k)
    PROVE  IInv'
  <1>1. TypeOK'
    <2>1. table' \in [Hashes -> ItemType]
      BY DEF IInv, TypeOK, SendDuplicated, SendReturns, ItemType
    <2>2. status' \in {"OK"} \cup Aborters
      BY DEF IInv, TypeOK, SendDuplicated, SendReturns
    <2>3. send' \in [Senders -> SendType]
      <3>1. send[s] \in SendType /\ "Aborted" \in {"OK", "Aborted"} \cup Aborters
        BY DEF IInv, TypeOK
      <3>2. [send[s] EXCEPT !.pc = "done", !.key = k, !.status = "Aborted"]
               \in SendType
        BY <3>1 DEF SendType
      <3>3. send' = [send EXCEPT ![s] =
               [send[s] EXCEPT !.pc = "done", !.key = k, !.status = "Aborted"]]
        BY <3>1 DEF IInv, TypeOK, SendDuplicated, SendReturns, SendType
      <3>4. QED BY <3>2, <3>3 DEF IInv, TypeOK
    <2>4. recv' \in [Receivers -> RecvType]
      BY DEF IInv, TypeOK, SendDuplicated, SendReturns, RecvType, ItemType,
             AbortType
    <2>5. abort' \in [Aborters -> AbortType]
      BY DEF IInv, TypeOK, SendDuplicated, SendReturns, AbortType, ItemType
    <2>6. refs' \in [Calls -> Int]
      BY DEF IInv, TypeOK, SendDuplicated, SendReturns, Ref, Unref, Calls
    <2>7. QED BY <2>1, <2>2, <2>3, <2>4, <2>5, <2>6 DEF TypeOK
  <1>2. ItemInv'
    BY DEF IInv, TypeOK, SendDuplicated, SendReturns, ItemInv, CallInv,
           Accepted, ItemType, SendType, RecvType
  <1>3. CallInv'
    BY SMTT(30) DEF IInv, TypeOK, SendDuplicated, SendReturns, ItemInv,
           CallInv, WaitInv, Notifies, ItemOf, Accepted, ItemType, SendType,
           RecvType
  <1>4. WaitInv'
    BY SMTT(30) DEF IInv, TypeOK, SendDuplicated, SendReturns, ItemInv,
           CallInv, WaitInv, Notifies, ItemOf, Accepted, ItemType, SendType,
           RecvType, AbortType
  <1>5. ClaimInv'
    BY SMTT(30) DEF IInv, TypeOK, SendDuplicated, SendReturns, ItemInv,
           CallInv, WaitInv, ClaimInv, Claims, Received, Notifies, ItemOf,
           Accepted, ItemType, SendType, RecvType
  <1>6. DeliveredIntact'
    BY DEF IInv, TypeOK, SendDuplicated, SendReturns, CallInv, WaitInv,
           DeliveredIntact, Received, Accepted, ItemType, SendType, RecvType
  <1>7. OneToOne'
    BY DEF IInv, TypeOK, SendDuplicated, SendReturns, ItemInv, CallInv,
           WaitInv, ClaimInv, Claims, Notifies, ItemOf, OneToOne, Received,
           Accepted, ItemType, SendType, RecvType
  <1>8. SentReachesWaiter'
    BY DEF IInv, TypeOK, SendDuplicated, SendReturns, ItemInv, CallInv,
           WaitInv, Notifies, ItemOf, SentReachesWaiter, Accepted, ItemType,
           SendType, RecvType
  <1>9. FreshInv'
    BY DEF IInv, TypeOK, SendDuplicated, SendReturns, SendType, RecvType,
           FreshInv
  <1>10. QED
    BY <1>1, <1>2, <1>3, <1>4, <1>5, <1>6, <1>7, <1>8, <1>9 DEF IInv

\* SendToWaiter preserves the inductive invariant.
LEMMA SendToWaiterIInv ==
    ASSUME IInv, NEW s \in Senders, NEW k \in Keys, SendToWaiter(s, k)
    PROVE  IInv'
  <1> DEFINE h == KeyHash[k]
             w == table[h].waiter
  <1>a. /\ h \in Hashes /\ w \in Receivers
        /\ table[h].exists /\ status = "OK"
        /\ send[s].pc = "start" /\ ~Accepted(s)
        /\ recv[w].pc = "waiting" /\ recv[w].key = k
        /\ status' = status /\ recv' = recv /\ abort' = abort
    BY DEF IInv, TypeOK, ItemType, ItemInv, CallInv, SendToWaiter, Accepted
  <1>b. /\ send'[s].pc = "notify" /\ send'[s].key = k
        /\ send'[s].waiter = w /\ send'[s].status = send[s].status
        /\ \A t \in Senders : t # s => send'[t] = send[t]
    BY <1>a DEF IInv, TypeOK, SendType, SendToWaiter
  <1>c. /\ table'[h].exists /\ table'[h].has_been_recvd
        /\ table'[h].waiter = None
        /\ table'[h].value \in {s, table[h].value}
        /\ \A g \in Hashes : g # h => table'[g] = table[g]
    BY <1>a DEF IInv, TypeOK, ItemType, SendToWaiter
  <1>d. /\ \A t \in Senders : t # s => (Accepted(t)' <=> Accepted(t))
        /\ \A t \in Senders : Accepted(t) => send[t].key # k
        /\ send[s].status = "OK" /\ Accepted(s)'
    BY <1>a, <1>b DEF IInv, TypeOK, SendType, CallInv, FreshInv, ItemOf,
           Accepted
  <1>e. \A t \in Senders, q \in Receivers :
           Notifies(t, q)' <=> Notifies(t, q) \/ (t = s /\ q = w)
    BY <1>a, <1>b DEF Notifies
  <1>f. \A q \in Receivers : recv[q].pc = "waiting" /\ recv[q].key = k => q = w
    BY <1>a, <1>d DEF IInv, CallInv, WaitInv, Notifies, ItemOf
  <1> HIDE DEF h, w
  <1>1. TypeOK'
    BY SMTT(30) DEF IInv, TypeOK, SendToWaiter, ItemType, SendType, RecvType,
           AbortType, Calls, Ref, Unref, CallInv, ItemInv, WaitInv, Accepted
  <1>2. ItemInv'
    <2>1. \A g \in Hashes : table'[g].value # None =>
             /\ Accepted(table[g].value)'
             /\ KeyHash[send'[table'[g].value].key] = g
      BY <1>a, <1>b, <1>c, <1>d DEF IInv, TypeOK, ItemType, ItemInv, Accepted,
             h
    <2>2. QED BY <1>a, <1>c, <2>1 DEF IInv, ItemInv
  <1>3. CallInv'
    <2>1. \A t \in Senders : Accepted(t)' => send'[t].key \in Keys
      BY <1>b, <1>d DEF IInv, CallInv
    <2>2. \A q \in Receivers : recv'[q].pc # "start" => recv'[q].key \in Keys
      BY <1>a DEF IInv, CallInv
    <2>3. \A t \in Senders : Accepted(t)' /\ status' = "OK" =>
             ItemOf(send[t].key)'.exists /\ ItemOf(send[t].key)'.waiter = None
      BY <1>a, <1>b, <1>c, <1>d DEF IInv, CallInv, ItemOf, h
    <2>4. \A q \in Receivers : recv'[q].pc = "delivering" =>
             /\ recv'[q].status = "OK"
             /\ recv'[q].value = None => Tolerate
             /\ recv'[q].value # None =>
                   /\ Accepted(recv[q].value)'
                   /\ send'[recv'[q].value].key = recv'[q].key
      BY <1>a, <1>b, <1>d DEF IInv, TypeOK, RecvType, CallInv
    <2>5. \A t \in Senders : send'[t].pc = "notify" =>
             /\ send'[t].waiter \in Receivers
             /\ Accepted(t)'
             /\ recv'[send'[t].waiter].pc = "waiting"
             /\ recv'[send'[t].waiter].key = send'[t].key
      BY <1>a, <1>b, <1>d DEF IInv, CallInv
    <2>6. QED BY <2>1, <2>2, <2>3, <2>4, <2>5 DEF CallInv
  <1>4. WaitInv'
    BY SMTT(30) DEF IInv, TypeOK, SendToWaiter, ItemInv, CallInv, WaitInv,
           Notifies, ItemOf, Accepted, ItemType, SendType, RecvType, AbortType
  <1>5. ClaimInv'
    BY SMTT(30) DEF IInv, TypeOK, SendToWaiter, ItemInv, CallInv, WaitInv,
           ClaimInv, Claims, Received, Notifies, ItemOf, Accepted, ItemType,
           SendType, RecvType
  <1>6. DeliveredIntact'
    BY DEF IInv, TypeOK, SendToWaiter, CallInv, WaitInv, DeliveredIntact,
           Received, Accepted, ItemType, SendType, RecvType
  <1>7. OneToOne'
    BY SMTT(30) DEF IInv, TypeOK, SendToWaiter, ItemInv, CallInv, WaitInv,
           ClaimInv, Claims, Notifies, ItemOf, OneToOne, Received, Accepted,
           ItemType, SendType, RecvType
  <1>8. SentReachesWaiter'
    BY SMTT(30) DEF IInv, TypeOK, SendToWaiter, ItemInv, CallInv, WaitInv,
           Notifies, ItemOf, SentReachesWaiter, Accepted, ItemType, SendType,
           RecvType
  <1>9. FreshInv'
    BY DEF IInv, TypeOK, SendToWaiter, SendType, RecvType, FreshInv
  <1>10. QED
    BY <1>1, <1>2, <1>3, <1>4, <1>5, <1>6, <1>7, <1>8, <1>9 DEF IInv

\* NotifyWaiter preserves the inductive invariant.
LEMMA NotifyWaiterIInv ==
    ASSUME IInv, NEW s \in Senders, NotifyWaiter(s)
    PROVE  IInv'
  <1> DEFINE w == send[s].waiter
  <1>a. /\ w \in Receivers
        /\ send[s].pc = "notify" /\ Accepted(s)
        /\ recv[w].pc = "waiting" /\ recv[w].key = send[s].key
        /\ table' = table /\ status' = status /\ abort' = abort
    BY DEF IInv, CallInv, NotifyWaiter
  <1>b. /\ recv'[w].pc = "done" /\ recv'[w].status = "OK"
        /\ recv'[w].value = s /\ recv'[w].key = recv[w].key
        /\ \A q \in Receivers : q # w => recv'[q] = recv[q]
    BY <1>a, SMTT(30) DEF IInv, TypeOK, RecvType, NotifyWaiter, Answer
  <1>c. /\ send'[s].pc = "done" /\ send'[s].status = "OK"
        /\ send'[s].key = send[s].key
        /\ \A t \in Senders : t # s => send'[t] = send[t]
    BY <1>a DEF IInv, TypeOK, SendType, NotifyWaiter, Accepted
  <1>d. /\ \A t \in Senders : Accepted(t)' <=> Accepted(t)
        /\ \A t \in Senders : send'[t].key = send[t].key
        /\ \A q \in Receivers : recv'[q].key = recv[q].key
    BY <1>a, <1>b, <1>c DEF Accepted
  <1>e. \A t \in Senders, q \in Receivers :
           Notifies(t, q)' <=> Notifies(t, q) /\ t # s
    BY <1>c DEF Notifies
  <1>f. \A t \in Senders : t # s => ~Notifies(t, w)
    BY <1>a DEF IInv, CallInv, OneToOne, Notifies
  <1>g. Notifies(s, w)
    BY <1>a DEF Notifies
  <1> HIDE DEF w
  <1>1. TypeOK'
    BY SMTT(30) DEF IInv, TypeOK, NotifyWaiter, Answer, ItemType, SendType,
           RecvType, AbortType, Calls, Ref, Unref, CallInv, ItemInv, WaitInv,
           Accepted
  <1>2. ItemInv'
    BY <1>a, <1>b, <1>d, <1>g DEF IInv, TypeOK, ItemType, ItemInv, WaitInv
  <1>3. CallInv'
    <2>1. \A t \in Senders : Accepted(t)' => send'[t].key \in Keys
      BY <1>d DEF IInv, CallInv
    <2>2. \A q \in Receivers : recv'[q].pc # "start" => recv'[q].key \in Keys
      BY <1>a, <1>b, <1>d DEF IInv, CallInv
    <2>3. \A t \in Senders : Accepted(t)' /\ status' = "OK" =>
             ItemOf(send[t].key)'.exists /\ ItemOf(send[t].key)'.waiter = None
      BY <1>a, <1>d DEF IInv, CallInv, ItemOf
    <2>4. \A q \in Receivers : recv'[q].pc = "delivering" =>
             /\ recv'[q].status = "OK"
             /\ recv'[q].value = None => Tolerate
             /\ recv'[q].value # None =>
                   /\ Accepted(recv[q].value)'
                   /\ send'[recv'[q].value].key = recv'[q].key
      BY <1>b, <1>d DEF IInv, TypeOK, RecvType, CallInv
    <2>5. \A t \in Senders : send'[t].pc = "notify" =>
             /\ send'[t].waiter \in Receivers
             /\ Accepted(t)'
             /\ recv'[send'[t].waiter].pc = "waiting"
             /\ recv'[send'[t].waiter].key = send'[t].key
      BY <1>b, <1>c, <1>d, <1>f DEF IInv, CallInv, Notifies
    <2>6. QED BY <2>1, <2>2, <2>3, <2>4, <2>5 DEF CallInv
  <1>4. WaitInv'
    <2>1. \A q \in Receivers : recv'[q].pc = "waiting" /\ status' = "OK" =>
             \/ ItemOf(recv[q].key)'.waiter = q
             \/ \E t \in Senders : Notifies(t, q)'
      <3>1. \A q \in Receivers : q # w => ~Notifies(s, q)
        BY DEF Notifies, w
      <3>2. QED BY <1>a, <1>b, <1>d, <1>e, <3>1 DEF IInv, WaitInv, ItemOf
    <2>2. \A b \in Aborters : \A i \in abort'[b].items :
             /\ abort'[b].pc = "loop"
             /\ i.item.waiter # None =>
                   /\ recv'[i.item.waiter].pc = "waiting"
                   /\ \A t \in Senders : ~Notifies(t, i.item.waiter)'
      BY <1>a, <1>b, <1>e, <1>g DEF IInv, TypeOK, AbortType, ItemType, WaitInv
    <2>3. \A b, c \in Aborters : abort'[b].pc = "loop" =>
             /\ status' # "OK"
             /\ abort'[c].pc = "loop" => b = c
      BY <1>a DEF IInv, WaitInv
    <2>4. \A b \in Aborters : \A i, j \in abort'[b].items :
             i.item.waiter = j.item.waiter /\ i.item.waiter # None => i = j
      BY <1>a DEF IInv, WaitInv
    <2>5. \A h \in Hashes, t \in Senders :
             table'[h].waiter # None => ~Notifies(t, table[h].waiter)'
      BY <1>a, <1>e DEF IInv, TypeOK, ItemType, WaitInv
    <2>6. QED BY <2>1, <2>2, <2>3, <2>4, <2>5 DEF WaitInv
  <1>5. ClaimInv'
    <2>1. \A q \in Receivers : Claims(q)' => Claims(q)
      BY <1>a, <1>b, <1>e, <1>g DEF Claims, Received
    <2>2. QED BY <1>a, <1>d, <2>1 DEF IInv, ClaimInv, ItemOf
  <1>6. DeliveredIntact'
    BY <1>a, <1>b, <1>d DEF IInv, TypeOK, RecvType, DeliveredIntact, Received
  <1>7. OneToOne'
    <2>1. ~Tolerate => \A r, q \in Receivers :
             Received(r)' /\ Received(q)' /\ recv'[r].key = recv'[q].key => r = q
      BY <1>5 DEF ClaimInv, Claims
    <2>2. QED BY <1>d, <2>1 DEF IInv, OneToOne
  <1>8. SentReachesWaiter'
    BY <1>a, <1>b, <1>c, <1>d DEF IInv, SentReachesWaiter, w
  <1>9. FreshInv'
    BY SMTT(30) DEF IInv, TypeOK, NotifyWaiter, Answer, CallInv, SendType,
           RecvType, FreshInv
  <1>10. QED
    BY <1>1, <1>2, <1>3, <1>4, <1>5, <1>6, <1>7, <1>8, <1>9 DEF IInv

\* RecvAborted preserves the inductive invariant.
LEMMA RecvAbortedIInv ==
    ASSUME IInv, NEW r \in Receivers, NEW k \in Keys, RecvAborted(r, k)
    PROVE  IInv'
  <1>1. TypeOK'
    BY SMTT(30) DEF IInv, TypeOK, RecvAborted, RecvFails, ItemType, SendType,
           RecvType, AbortType, Calls, Ref, Unref, CallInv, ItemInv, WaitInv,
           Accepted
  <1>2. ItemInv'
    BY DEF IInv, TypeOK, RecvAborted, RecvFails, ItemInv, CallInv, Accepted,
           ItemType, SendType, RecvType
  <1>3. CallInv'
    BY SMTT(30) DEF IInv, TypeOK, RecvAborted, RecvFails, ItemInv, CallInv,
           WaitInv, Notifies, ItemOf, Accepted, ItemType, SendType, RecvType
  <1>4. WaitInv'
    BY SMTT(30) DEF IInv, TypeOK, RecvAborted, RecvFails, ItemInv, CallInv,
           WaitInv, Notifies, ItemOf, Accepted, ItemType, SendType, RecvType,
           AbortType
  <1>5. ClaimInv'
    BY SMTT(30) DEF IInv, TypeOK, RecvAborted, RecvFails, ItemInv, CallInv,
           WaitInv, ClaimInv, Claims, Received, Notifies, ItemOf, Accepted,
           ItemType, SendType, RecvType
  <1>6. DeliveredIntact'
    BY DEF IInv, TypeOK, RecvAborted, RecvFails, CallInv, WaitInv,
           DeliveredIntact, Received, Accepted, ItemType, SendType, RecvType
  <1>7. OneToOne'
    BY SMTT(30) DEF IInv, TypeOK, RecvAborted, RecvFails, ItemInv, CallInv,
           WaitInv, ClaimInv, Claims, Notifies, ItemOf, OneToOne, Received,
           Accepted, ItemType, SendType, RecvType
  <1>8. SentReachesWaiter'
    BY DEF IInv, TypeOK, RecvAborted, RecvFails, ItemInv, CallInv, WaitInv,
           Notifies, ItemOf, SentReachesWaiter, Accepted, ItemType, SendType,
           RecvType
  <1>9. FreshInv'
    BY DEF IInv, TypeOK, RecvAborted, RecvFails, SendType, RecvType, FreshInv
  <1>10. QED
    BY <1>1, <1>2, <1>3, <1>4, <1>5, <1>6, <1>7, <1>8, <1>9 DEF IInv

\* RecvDuplicated preserves the inductive invariant.
LEMMA RecvDuplicatedIInv ==
    ASSUME IInv, NEW r \in Receivers, NEW k \in Keys, RecvDuplicated(r, k)
    PROVE  IInv'
  <1>1. TypeOK'
    BY DEF IInv, TypeOK, RecvDuplicated, RecvFails, ItemType, SendType,
           RecvType, AbortType, Calls, Ref, Unref, CallInv, ItemInv, WaitInv,
           Accepted
  <1>2. ItemInv'
    BY DEF IInv, TypeOK, RecvDuplicated, RecvFails, ItemInv, CallInv,
           Accepted, ItemType, SendType, RecvType
  <1>3. CallInv'
    BY SMTT(30) DEF IInv, TypeOK, RecvDuplicated, RecvFails, ItemInv, CallInv,
           WaitInv, Notifies, ItemOf, Accepted, ItemType, SendType, RecvType
  <1>4. WaitInv'
    BY SMTT(30) DEF IInv, TypeOK, RecvDuplicated, RecvFails, ItemInv, CallInv,
           WaitInv, Notifies, ItemOf, Accepted, ItemType, SendType, RecvType,
           AbortType
  <1>5. ClaimInv'
    BY SMTT(30) DEF IInv, TypeOK, RecvDuplicated, RecvFails, ItemInv, CallInv,
           WaitInv, ClaimInv, Claims, Received, Notifies, ItemOf, Accepted,
           ItemType, SendType, RecvType
  <1>6. DeliveredIntact'
    BY DEF IInv, TypeOK, RecvDuplicated, RecvFails, CallInv, WaitInv,
           DeliveredIntact, Received, Accepted, ItemType, SendType, RecvType
  <1>7. OneToOne'
    BY SMTT(30) DEF IInv, TypeOK, RecvDuplicated, RecvFails, ItemInv, CallInv,
           WaitInv, ClaimInv, Claims, Notifies, ItemOf, OneToOne, Received,
           Accepted, ItemType, SendType, RecvType
  <1>8. SentReachesWaiter'
    BY SMTT(30) DEF IInv, TypeOK, RecvDuplicated, RecvFails, ItemInv, CallInv,
           WaitInv, Notifies, ItemOf, SentReachesWaiter, Accepted, ItemType,
           SendType, RecvType
  <1>9. FreshInv'
    BY DEF IInv, TypeOK, RecvDuplicated, RecvFails, SendType, RecvType,
           FreshInv
  <1>10. QED
    BY <1>1, <1>2, <1>3, <1>4, <1>5, <1>6, <1>7, <1>8, <1>9 DEF IInv

\* RecvStored preserves the inductive invariant.
LEMMA RecvStoredIInv ==
    ASSUME IInv, NEW r \in Receivers, NEW k \in Keys, RecvStored(r, k)
    PROVE  IInv'
  <1> DEFINE h == KeyHash[k]
  <1>a. /\ h \in Hashes /\ table[h].exists /\ status = "OK"
        /\ recv[r].pc = "start" /\ recv[r].status = "OK"
        /\ ~Tolerate => ~table[h].has_been_recvd /\ table[h].waiter = None
        /\ status' = status /\ send' = send /\ abort' = abort
    BY DEF IInv, TypeOK, FreshInv, RecvStored
  <1>b. /\ recv'[r].pc = "delivering" /\ recv'[r].key = k
        /\ recv'[r].value = table[h].value /\ recv'[r].status = "OK"
        /\ \A q \in Receivers : q # r => recv'[q] = recv[q]
    BY <1>a DEF IInv, TypeOK, RecvType, RecvStored
  <1>c. /\ table'[h].exists /\ table'[h].has_been_recvd
        /\ table'[h].waiter = table[h].waiter
        /\ table'[h].value \in {None, table[h].value}
        /\ \A g \in Hashes : g # h => table'[g] = table[g]
    BY <1>a DEF IInv, TypeOK, ItemType, RecvStored
  <1>d. /\ \A t \in Senders : Accepted(t)' <=> Accepted(t)
        /\ \A t \in Senders, q \in Receivers : Notifies(t, q)' <=> Notifies(t, q)
        /\ \A g \in Hashes : table'[g].waiter = table[g].waiter
    BY <1>a, <1>c DEF Accepted, Notifies
  <1>e. /\ \A g \in Hashes : table[g].waiter # r
        /\ \A t \in Senders : ~Notifies(t, r)
        /\ \A b \in Aborters : \A i \in abort[b].items : i.item.waiter # r
    BY <1>a DEF IInv, TypeOK, ItemInv, CallInv, WaitInv, Notifies
  <1> HIDE DEF h
  <1>1. TypeOK'
    <2>1. table' \in [Hashes -> ItemType]
      <3>1. table[h] \in ItemType /\ h \in Hashes
        BY <1>a DEF IInv, TypeOK
      <3>2. CASE Tolerate
        <4>1. [table[h] EXCEPT !.has_been_recvd = TRUE] \in ItemType
          BY <3>1 DEF ItemType
        <4>2. table' = [table EXCEPT ![h] =
                           [table[h] EXCEPT !.has_been_recvd = TRUE]]
          BY <3>1, <3>2 DEF RecvStored, IInv, TypeOK, ItemType, h
        <4>3. QED BY <4>1, <4>2 DEF IInv, TypeOK
      <3>3. CASE ~Tolerate
        <4>1. [table[h] EXCEPT !.has_been_recvd = TRUE, !.value = None]
                 \in ItemType
          BY <3>1 DEF ItemType
        <4>2. table' = [table EXCEPT ![h] =
                 [table[h] EXCEPT !.has_been_recvd = TRUE, !.value = None]]
          BY <3>1, <3>3 DEF RecvStored, IInv, TypeOK, ItemType, h
        <4>3. QED BY <4>1, <4>2 DEF IInv, TypeOK
      <3>4. QED BY <3>2, <3>3
    <2>2. status' \in {"OK"} \cup Aborters
      BY DEF IInv, TypeOK, RecvStored
    <2>3. send' \in [Senders -> SendType]
      BY DEF IInv, TypeOK, RecvStored, SendType
    <2>4. recv' \in [Receivers -> RecvType]
      <3> DEFINE upd == [recv[r] EXCEPT !.pc = "delivering", !.key = k,
                            !.value = table[h].value, !.held = table[h].send_dev_context]
      <3>1. /\ recv[r] \in RecvType
            /\ table[h].value \in Senders \cup {None}
            /\ table[h].send_dev_context \in Senders \cup {None}
        BY <1>a DEF IInv, TypeOK, ItemType
      <3>2. upd \in RecvType
        BY <3>1 DEF RecvType
      <3>3. recv' = [recv EXCEPT ![r] = upd]
        BY <3>1 DEF IInv, TypeOK, RecvStored, RecvType, h
      <3>4. QED BY <3>2, <3>3 DEF IInv, TypeOK
    <2>5. abort' \in [Aborters -> AbortType]
      BY DEF IInv, TypeOK, RecvStored, AbortType, ItemType
    <2>6. refs' \in [Calls -> Int]
      BY DEF IInv, TypeOK, RecvStored, Ref, Unref, Calls
    <2>7. QED BY <2>1, <2>2, <2>3, <2>4, <2>5, <2>6 DEF TypeOK
  <1>2. ItemInv'
    <2>1. \A g \in Hashes : table'[g].value # None =>
             /\ Accepted(table[g].value)'
             /\ KeyHash[send'[table'[g].value].key] = g
      BY <1>a, <1>c, <1>d DEF IInv, TypeOK, ItemType, ItemInv
    <2>2. \A g \in Hashes : table'[g].waiter # None =>
             /\ recv'[table'[g].waiter].pc = "waiting"
             /\ KeyHash[recv'[table'[g].waiter].key] = g
             /\ ~Tolerate => ~table'[g].has_been_recvd
      BY <1>a, <1>b, <1>c, <1>d, <1>e DEF IInv, TypeOK, ItemType, ItemInv
    <2>3. \A g \in Hashes :
             /\ table'[g].exists
             /\ ~table'[g].has_been_recvd
             /\ table'[g].waiter = None
             => table'[g].value # None
      BY <1>c DEF IInv, ItemInv
    <2>4. \A g \in Hashes : ~table'[g].exists =>
             table'[g].waiter = None /\ ~table'[g].has_been_recvd
      BY <1>c DEF IInv, ItemInv
    <2>5. \A g \in Hashes : table'[g].exists => status' = "OK"
      BY <1>a
    <2>6. QED BY <2>1, <2>2, <2>3, <2>4, <2>5 DEF ItemInv
  <1>3. CallInv'
    <2>1. \A t \in Senders : Accepted(t)' => send'[t].key \in Keys
      BY <1>a, <1>d DEF IInv, CallInv
    <2>2. \A q \in Receivers : recv'[q].pc # "start" => recv'[q].key \in Keys
      BY <1>a, <1>b DEF IInv, CallInv
    <2>3. \A t \in Senders : Accepted(t)' /\ status' = "OK" =>
             ItemOf(send[t].key)'.exists /\ ItemOf(send[t].key)'.waiter = None
      BY <1>a, <1>c, <1>d DEF IInv, CallInv, ItemOf
    <2>4. \A q \in Receivers : recv'[q].pc = "delivering" =>
             /\ recv'[q].status = "OK"
             /\ recv'[q].value = None => Tolerate
             /\ recv'[q].value # None =>
                   /\ Accepted(recv[q].value)'
                   /\ send'[recv'[q].value].key = recv'[q].key
      BY <1>a, <1>b, <1>d DEF IInv, TypeOK, RecvType, ItemType, CallInv,
             ItemInv, h, Accepted
    <2>5. \A t \in Senders : send'[t].pc = "notify" =>
             /\ send'[t].waiter \in Receivers
             /\ Accepted(t)'
             /\ recv'[send'[t].waiter].pc = "waiting"
             /\ recv'[send'[t].waiter].key = send'[t].key
      BY <1>a, <1>b, <1>d, <1>e DEF IInv, CallInv, Notifies
    <2>6. QED BY <2>1, <2>2, <2>3, <2>4, <2>5 DEF CallInv
  <1>4. WaitInv'
    <2>1. \A q \in Receivers : recv'[q].pc = "waiting" /\ status' = "OK" =>
             \/ ItemOf(recv[q].key)'.waiter = q
             \/ \E t \in Senders : Notifies(t, q)'
      BY <1>a, <1>b, <1>d DEF IInv, CallInv, WaitInv, ItemOf
    <2>2. \A b \in Aborters : \A i \in abort'[b].items :
             /\ abort'[b].pc = "loop"
             /\ i.item.waiter # None =>
                   /\ recv'[i.item.waiter].pc = "waiting"
                   /\ \A t \in Senders : ~Notifies(t, i.item.waiter)'
      BY <1>a, <1>b, <1>d, <1>e DEF IInv, TypeOK, AbortType, ItemType, WaitInv
    <2>3. \A b, c \in Aborters : abort'[b].pc = "loop" =>
             /\ status' # "OK"
             /\ abort'[c].pc = "loop" => b = c
      BY <1>a DEF IInv, WaitInv
    <2>4. \A b \in Aborters : \A i, j \in abort'[b].items :
             i.item.waiter = j.item.waiter /\ i.item.waiter # None => i = j
      BY <1>a DEF IInv, WaitInv
    <2>5. \A g \in Hashes, t \in Senders :
             table'[g].waiter # None => ~Notifies(t, table[g].waiter)'
      BY <1>a, <1>d DEF IInv, TypeOK, ItemType, WaitInv
    <2>6. QED BY <2>1, <2>2, <2>3, <2>4, <2>5 DEF WaitInv
  <1>5. ClaimInv'
    <2> SUFFICES ASSUME ~Tolerate
                 PROVE  /\ \A q \in Receivers : Claims(q)' =>
                              ItemOf(recv[q].key)'.has_been_recvd
                        /\ \A q, x \in Receivers :
                              /\ Claims(q)' /\ Claims(x)'
                              /\ recv'[q].key = recv'[x].key
                              => q = x
      BY <1>a DEF ClaimInv
    <2>1. \A q \in Receivers : q # r => (Claims(q)' <=> Claims(q))
      BY <1>b, <1>d DEF Claims, Received
    <2>2. \A q \in Receivers : Claims(q) => recv[q].key \in Keys
      BY DEF IInv, CallInv, Claims, Received, Notifies
    <2>3. \A q \in Receivers : Claims(q) => recv[q].key # k
      BY <1>a DEF IInv, ClaimInv, ItemOf, h
    <2>4. QED
      BY <1>a, <1>b, <1>c, <2>1, <2>2, <2>3 DEF IInv, ClaimInv, ItemOf, h
  <1>6. DeliveredIntact'
    BY SMTT(30) DEF IInv, TypeOK, RecvStored, CallInv, WaitInv,
           DeliveredIntact, Received, Accepted, ItemType, SendType, RecvType
  <1>7. OneToOne'
    BY SMTT(30) DEF IInv, TypeOK, RecvStored, ItemInv, CallInv, WaitInv,
           ClaimInv, Claims, Notifies, ItemOf, OneToOne, Received, Accepted,
           ItemType, SendType, RecvType
  <1>8. SentReachesWaiter'
    BY SMTT(30) DEF IInv, TypeOK, RecvStored, ItemInv, CallInv, WaitInv,
           Notifies, ItemOf, SentReachesWaiter, Accepted, ItemType, SendType,
           RecvType
  <1>9. FreshInv'
    BY DEF IInv, TypeOK, RecvStored, SendType, RecvType, FreshInv
  <1>10. QED
    BY <1>1, <1>2, <1>3, <1>4, <1>5, <1>6, <1>7, <1>8, <1>9 DEF IInv

\* RecvDelivers preserves the inductive invariant.
LEMMA RecvDeliversIInv ==
    ASSUME IInv, NEW r \in Receivers, RecvDelivers(r)
    PROVE  IInv'
  <1>1. TypeOK'
    BY DEF IInv, TypeOK, RecvDelivers, Answer, ItemType, SendType, RecvType,
           AbortType, Calls, Ref, Unref, CallInv, ItemInv, WaitInv, Accepted
  <1>2. ItemInv'
    BY SMTT(30) DEF IInv, TypeOK, RecvDelivers, Answer, ItemInv, CallInv,
           Accepted, ItemType, SendType, RecvType
  <1>3. CallInv'
    BY SMTT(30) DEF IInv, TypeOK, RecvDelivers, Answer, ItemInv, CallInv,
           WaitInv, Notifies, ItemOf, Accepted, ItemType, SendType, RecvType
  <1>4. WaitInv'
    BY SMTT(30) DEF IInv, TypeOK, RecvDelivers, Answer, ItemInv, CallInv,
           WaitInv, Notifies, ItemOf, Accepted, ItemType, SendType, RecvType,
           AbortType
  <1>5. ClaimInv'
    BY SMTT(30) DEF IInv, TypeOK, RecvDelivers, Answer, ItemInv, CallInv,
           WaitInv, ClaimInv, Claims, Received, Notifies, ItemOf, Accepted,
           ItemType, SendType, RecvType
  <1>6. DeliveredIntact'
    BY SMTT(30) DEF IInv, TypeOK, RecvDelivers, Answer, CallInv, WaitInv,
           DeliveredIntact, Received, Accepted, ItemType, SendType, RecvType
  <1>7. OneToOne'
    BY SMTT(30) DEF IInv, TypeOK, RecvDelivers, Answer, ItemInv, CallInv,
           WaitInv, ClaimInv, Claims, Notifies, ItemOf, OneToOne, Received,
           Accepted, ItemType, SendType, RecvType
  <1>8. SentReachesWaiter'
    BY SMTT(30) DEF IInv, TypeOK, RecvDelivers, Answer, ItemInv, CallInv,
           WaitInv, Notifies, ItemOf, SentReachesWaiter, Accepted, ItemType,
           SendType, RecvType
  <1>9. FreshInv'
    BY DEF IInv, TypeOK, RecvDelivers, Answer, SendType, RecvType, FreshInv
  <1>10. QED
    BY <1>1, <1>2, <1>3, <1>4, <1>5, <1>6, <1>7, <1>8, <1>9 DEF IInv

\* RecvWaits preserves the inductive invariant.
LEMMA RecvWaitsIInv ==
    ASSUME IInv, NEW r \in Receivers, NEW k \in Keys, RecvWaits(r, k)
    PROVE  IInv'
  <1>1. TypeOK'
    <2>1. table' \in [Hashes -> ItemType]
      BY DEF IInv, TypeOK, RecvWaits, NoItem, ItemType
    <2>2. status' \in {"OK"} \cup Aborters
      BY DEF IInv, TypeOK, RecvWaits, NoItem
    <2>3. send' \in [Senders -> SendType]
      BY DEF IInv, TypeOK, RecvWaits, NoItem, SendType
    <2>4. recv' \in [Receivers -> RecvType]
      <3>1. recv[r] \in RecvType
        BY DEF IInv, TypeOK, ItemType, RecvType, RecvWaits
      <3>2. [recv[r] EXCEPT !.pc = "waiting", !.key = k] \in RecvType
        BY <3>1 DEF RecvType
      <3>3. recv' = [recv EXCEPT ![r] =
               [recv[r] EXCEPT !.pc = "waiting", !.key = k]]
        BY <3>1 DEF IInv, TypeOK, RecvWaits, RecvType
      <3>4. QED BY <3>2, <3>3 DEF IInv, TypeOK
    <2>5. abort' \in [Aborters -> AbortType]
      BY DEF IInv, TypeOK, RecvWaits, NoItem, AbortType, ItemType
    <2>6. refs' \in [Calls -> Int]
      BY DEF IInv, TypeOK, RecvWaits, NoItem, Ref, Unref, Calls
    <2>7. QED BY <2>1, <2>2, <2>3, <2>4, <2>5, <2>6 DEF TypeOK
  <1>2. ItemInv'
    BY DEF IInv, TypeOK, RecvWaits, NoItem, ItemInv, CallInv, Accepted,
           ItemType, SendType, RecvType
  <1>3. CallInv'
    BY DEF IInv, TypeOK, RecvWaits, NoItem, ItemInv, CallInv, WaitInv,
           Notifies, ItemOf, Accepted, ItemType, SendType, RecvType
  <1>4. WaitInv'
    BY DEF IInv, TypeOK, RecvWaits, NoItem, ItemInv, CallInv, WaitInv,
           Notifies, ItemOf, Accepted, ItemType, SendType, RecvType, AbortType
  <1>5. ClaimInv'
    <2>1. \A q \in Receivers : Claims(q)' => Claims(q)
      <3>1. send' = send /\ recv[r].pc = "start" /\ recv'[r].pc = "waiting"
            /\ \A q \in Receivers : q # r => recv'[q] = recv[q]
        BY DEF IInv, TypeOK, RecvWaits, RecvType
      <3>2. QED BY <3>1 DEF Claims, Received, Notifies
    <2>2. \A g \in Hashes : table[g].has_been_recvd => table'[g] = table[g]
      BY DEF IInv, TypeOK, ItemInv, RecvWaits
    <2>3. \A q \in Receivers : Claims(q) =>
             recv[q].key \in Keys /\ recv'[q].key = recv[q].key
      BY DEF IInv, TypeOK, CallInv, Claims, Received, Notifies, RecvWaits,
             RecvType
    <2>4. ASSUME ~Tolerate, NEW q \in Receivers, Claims(q)', status' = "OK"
          PROVE  ItemOf(recv[q].key)'.has_been_recvd
      <3>1. KeyHash[recv[q].key] \in Hashes
        BY <2>1, <2>3, <2>4
      <3>2. ItemOf(recv[q].key).has_been_recvd
        BY <2>1, <2>4 DEF IInv, RecvWaits, ClaimInv
      <3>3. QED BY <2>1, <2>2, <2>3, <2>4, <3>1, <3>2 DEF ItemOf
    <2>5. ASSUME ~Tolerate, NEW q \in Receivers, NEW x \in Receivers,
                 Claims(q)', Claims(x)', recv'[q].key = recv'[x].key
          PROVE  q = x
      BY <2>1, <2>3, <2>5 DEF IInv, ClaimInv
    <2>6. QED BY <2>4, <2>5 DEF ClaimInv
  <1>6. DeliveredIntact'
    BY DEF IInv, TypeOK, RecvWaits, NoItem, CallInv, WaitInv, DeliveredIntact,
           Received, Accepted, ItemType, SendType, RecvType
  <1>7. OneToOne'
    BY DEF IInv, TypeOK, RecvWaits, NoItem, ItemInv, CallInv, WaitInv,
           ClaimInv, Claims, Notifies, ItemOf, OneToOne, Received, Accepted,
           ItemType, SendType, RecvType
  <1>8. SentReachesWaiter'
    BY DEF IInv, TypeOK, RecvWaits, NoItem, ItemInv, CallInv, WaitInv,
           Notifies, ItemOf, SentReachesWaiter, Accepted, ItemType, SendType,
           RecvType
  <1>9. FreshInv'
    BY DEF IInv, TypeOK, RecvWaits, SendType, RecvType, FreshInv
  <1>10. QED
    BY <1>1, <1>2, <1>3, <1>4, <1>5, <1>6, <1>7, <1>8, <1>9 DEF IInv

\* AbortAgain preserves the inductive invariant.
LEMMA AbortAgainIInv ==
    ASSUME IInv, NEW a \in Aborters, AbortAgain(a)
    PROVE  IInv'
  <1>1. TypeOK'
    BY SMTT(30) DEF IInv, TypeOK, AbortAgain, ItemType, SendType, RecvType,
           AbortType, Calls, Ref, Unref, CallInv, ItemInv, WaitInv, Accepted
  <1>2. ItemInv'
    BY DEF IInv, TypeOK, AbortAgain, ItemInv, CallInv, Accepted, ItemType,
           SendType, RecvType
  <1>3. CallInv'
    BY DEF IInv, TypeOK, AbortAgain, ItemInv, CallInv, WaitInv, Notifies,
           ItemOf, Accepted, ItemType, SendType, RecvType
  <1>4. WaitInv'
    BY DEF IInv, TypeOK, AbortAgain, ItemInv, CallInv, WaitInv, Notifies,
           ItemOf, Accepted, ItemType, SendType, RecvType, AbortType
  <1>5. ClaimInv'
    BY DEF IInv, TypeOK, AbortAgain, ItemInv, CallInv, WaitInv, ClaimInv,
           Claims, Received, Notifies, ItemOf, Accepted, ItemType, SendType,
           RecvType
  <1>6. DeliveredIntact'
    BY DEF IInv, TypeOK, AbortAgain, CallInv, WaitInv, DeliveredIntact,
           Received, Accepted, ItemType, SendType, RecvType
  <1>7. OneToOne'
    BY DEF IInv, TypeOK, AbortAgain, ItemInv, CallInv, WaitInv, ClaimInv,
           Claims, Notifies, ItemOf, OneToOne, Received, Accepted, ItemType,
           SendType, RecvType
  <1>8. SentReachesWaiter'
    BY DEF IInv, TypeOK, AbortAgain, ItemInv, CallInv, WaitInv, Notifies,
           ItemOf, SentReachesWaiter, Accepted, ItemType, SendType, RecvType
  <1>9. FreshInv'
    BY DEF IInv, TypeOK, AbortAgain, SendType, RecvType, FreshInv
  <1>10. QED
    BY <1>1, <1>2, <1>3, <1>4, <1>5, <1>6, <1>7, <1>8, <1>9 DEF IInv

\* StartAbort preserves the inductive invariant.
LEMMA StartAbortIInv ==
    ASSUME IInv, NEW a \in Aborters, StartAbort(a)
    PROVE  IInv'
  <1>1. TypeOK'
    <2>1. table' \in [Hashes -> ItemType]
      BY DEF IInv, TypeOK, StartAbort, NoItem, ItemType
    <2>2. status' \in {"OK"} \cup Aborters
      BY DEF IInv, TypeOK, StartAbort, NoItem
    <2>3. send' \in [Senders -> SendType]
      BY DEF IInv, TypeOK, StartAbort, NoItem, SendType
    <2>4. recv' \in [Receivers -> RecvType]
      BY DEF IInv, TypeOK, StartAbort, NoItem, RecvType, ItemType, AbortType
    <2>5. abort' \in [Aborters -> AbortType]
      <3> DEFINE its == {[hash |-> h, item |-> table[h]] :
                            h \in {g \in Hashes : table[g].exists}}
      <3>1. its \subseteq [hash : Hashes, item : ItemType]
        BY DEF IInv, TypeOK
      <3> HIDE DEF its
      <3> DEFINE R == [hash : Hashes, item : ItemType]
      <3>2. [abort[a] EXCEPT !.pc = "loop", !.items = its] \in AbortType
        <4>1. abort[a] \in [pc : {"start", "loop", "done"}, items : SUBSET R]
          BY DEF IInv, TypeOK, AbortType
        <4>2. its \in SUBSET R
          BY <3>1
        <4> HIDE DEF R
        <4>3. [abort[a] EXCEPT !.pc = "loop", !.items = its]
                 \in [pc : {"start", "loop", "done"}, items : SUBSET R]
          BY <4>1, <4>2
        <4>4. QED BY <4>3 DEF AbortType, R
      <3>3. abort' = [abort EXCEPT ![a] =
               [abort[a] EXCEPT !.pc = "loop", !.items = its]]
        BY DEF IInv, TypeOK, AbortType, StartAbort, its
      <3>4. QED BY <3>2, <3>3 DEF IInv, TypeOK
    <2>6. refs' \in [Calls -> Int]
      BY DEF IInv, TypeOK, StartAbort, NoItem, Ref, Unref, Calls
    <2>7. QED BY <2>1, <2>2, <2>3, <2>4, <2>5, <2>6 DEF TypeOK
  <1>2. ItemInv'
    BY DEF IInv, TypeOK, StartAbort, NoItem, ItemInv, CallInv, Accepted,
           ItemType, SendType, RecvType
  <1>3. CallInv'
    BY DEF IInv, TypeOK, StartAbort, NoItem, ItemInv, CallInv, WaitInv,
           Notifies, ItemOf, Accepted, ItemType, SendType, RecvType
  <1>4. WaitInv'
    BY DEF IInv, TypeOK, StartAbort, NoItem, ItemInv, CallInv, WaitInv,
           Notifies, ItemOf, Accepted, ItemType, SendType, RecvType, AbortType
  <1>5. ClaimInv'
    BY DEF IInv, TypeOK, StartAbort, NoItem, ItemInv, CallInv, WaitInv,
           ClaimInv, Claims, Received, Notifies, ItemOf, Accepted, ItemType,
           SendType, RecvType
  <1>6. DeliveredIntact'
    BY DEF IInv, TypeOK, StartAbort, NoItem, CallInv, WaitInv,
           DeliveredIntact, Received, Accepted, ItemType, SendType, RecvType
  <1>7. OneToOne'
    BY DEF IInv, TypeOK, StartAbort, NoItem, ItemInv, CallInv, WaitInv,
           ClaimInv, Claims, Notifies, ItemOf, OneToOne, Received, Accepted,
           ItemType, SendType, RecvType
  <1>8. SentReachesWaiter'
    BY DEF IInv, TypeOK, StartAbort, NoItem, ItemInv, CallInv, WaitInv,
           Notifies, ItemOf, SentReachesWaiter, Accepted, ItemType, SendType,
           RecvType
  <1>9. FreshInv'
    BY DEF IInv, TypeOK, StartAbort, SendType, RecvType, FreshInv
  <1>10. QED
    BY <1>1, <1>2, <1>3, <1>4, <1>5, <1>6, <1>7, <1>8, <1>9 DEF IInv

\* AbortItem preserves the inductive invariant.
LEMMA AbortItemIInv ==
    ASSUME IInv, NEW a \in Aborters, NEW i \in abort[a].items, AbortItem(a, i)
    PROVE  IInv'
  <1> DEFINE w == i.item.waiter
  <1>a. /\ table' = table /\ status' = status /\ send' = send
        /\ abort[a].pc = "loop" /\ status # "OK" /\ a # "OK"
        /\ w \in Receivers \cup {None}
        /\ w # None => /\ recv[w].pc = "waiting"
                       /\ \A t \in Senders : ~Notifies(t, w)
    BY DEF IInv, TypeOK, WaitInv, AbortItem, AbortType, ItemType
  <1>b. /\ w # None => recv'[w].pc = "done" /\ recv'[w].status = a
                       /\ recv'[w].key = recv[w].key
        /\ \A q \in Receivers : q # w => recv'[q] = recv[q]
    BY <1>a, SMTT(30) DEF IInv, TypeOK, RecvType, AbortItem, Answer
  <1>c. /\ abort'[a].items = abort[a].items \ {i} /\ abort'[a].pc = "loop"
        /\ \A b \in Aborters : b # a => abort'[b] = abort[b]
    BY <1>a DEF IInv, TypeOK, AbortType, AbortItem
  <1>d. /\ \A t \in Senders : Accepted(t)' <=> Accepted(t)
        /\ \A t \in Senders : \A q : Notifies(t, q)' <=> Notifies(t, q)
        /\ \A q \in Receivers : recv'[q].key = recv[q].key
        /\ \A h \in Hashes : ~table[h].exists
    BY <1>a, <1>b DEF IInv, ItemInv, Accepted, Notifies
  <1>e. \A j \in abort'[a].items : w # None => j.item.waiter # w
    BY <1>c DEF IInv, WaitInv
  <1> HIDE DEF w
  <1>1. TypeOK'
    <2>1. table' \in [Hashes -> ItemType]
      BY DEF IInv, TypeOK, AbortItem, Answer, ItemType
    <2>2. status' \in {"OK"} \cup Aborters
      BY DEF IInv, TypeOK, AbortItem, Answer
    <2>3. send' \in [Senders -> SendType]
      BY DEF IInv, TypeOK, AbortItem, Answer, SendType
    <2>4. recv' \in [Receivers -> RecvType]
      <3>1. w \in Receivers \cup {None}
        BY <1>a
      <3>2. CASE w = None
        BY <3>2 DEF IInv, TypeOK, AbortItem, w
      <3>3. CASE w \in Receivers
        BY <3>3, SMTT(30) DEF IInv, TypeOK, AbortItem, Answer, RecvType, w
      <3>4. QED BY <3>1, <3>2, <3>3
    <2>5. abort' \in [Aborters -> AbortType]
      BY SMTT(30) DEF IInv, TypeOK, AbortItem, Answer, AbortType, ItemType
    <2>6. refs' \in [Calls -> Int]
      BY SMTT(30) DEF IInv, TypeOK, AbortItem, Answer, Ref, Unref, Calls
    <2>7. QED BY <2>1, <2>2, <2>3, <2>4, <2>5, <2>6 DEF TypeOK
  <1>2. ItemInv'
    BY <1>a, <1>d DEF IInv, TypeOK, ItemType, ItemInv, Accepted
  <1>3. CallInv'
    <2>1. \A t \in Senders : Accepted(t)' => send'[t].key \in Keys
      BY <1>a, <1>d DEF IInv, CallInv
    <2>2. \A q \in Receivers : recv'[q].pc # "start" => recv'[q].key \in Keys
      BY <1>a, <1>b, <1>d DEF IInv, CallInv
    <2>3. \A t \in Senders : Accepted(t)' /\ status' = "OK" =>
             ItemOf(send[t].key)'.exists /\ ItemOf(send[t].key)'.waiter = None
      BY <1>a
    <2>4. \A q \in Receivers : recv'[q].pc = "delivering" =>
             /\ recv'[q].status = "OK"
             /\ recv'[q].value = None => Tolerate
             /\ recv'[q].value # None =>
                   /\ Accepted(recv[q].value)'
                   /\ send'[recv'[q].value].key = recv'[q].key
      BY <1>a, <1>b, <1>d DEF IInv, TypeOK, RecvType, CallInv
    <2>5. \A t \in Senders : send'[t].pc = "notify" =>
             /\ send'[t].waiter \in Receivers
             /\ Accepted(t)'
             /\ recv'[send'[t].waiter].pc = "waiting"
             /\ recv'[send'[t].waiter].key = send'[t].key
      BY <1>a, <1>b, <1>d DEF IInv, CallInv, Notifies
    <2>6. QED BY <2>1, <2>2, <2>3, <2>4, <2>5 DEF CallInv
  <1>4. WaitInv'
    <2>1. \A q \in Receivers : recv'[q].pc = "waiting" /\ status' = "OK" =>
             \/ ItemOf(recv[q].key)'.waiter = q
             \/ \E t \in Senders : Notifies(t, q)'
      BY <1>a
    <2>2. \A b \in Aborters : \A x \in abort'[b].items :
             /\ abort'[b].pc = "loop"
             /\ x.item.waiter # None =>
                   /\ recv'[x.item.waiter].pc = "waiting"
                   /\ \A t \in Senders : ~Notifies(t, x.item.waiter)'
      BY <1>a, <1>b, <1>c, <1>d, <1>e DEF IInv, TypeOK, AbortType, ItemType,
             WaitInv
    <2>3. \A b, c \in Aborters : abort'[b].pc = "loop" =>
             /\ status' # "OK"
             /\ abort'[c].pc = "loop" => b = c
      BY <1>a, <1>c DEF IInv, WaitInv
    <2>4. \A b \in Aborters : \A x, j \in abort'[b].items :
             x.item.waiter = j.item.waiter /\ x.item.waiter # None => x = j
      BY <1>c DEF IInv, WaitInv
    <2>5. \A h \in Hashes, t \in Senders :
             table'[h].waiter # None => ~Notifies(t, table[h].waiter)'
      BY <1>a, <1>d DEF IInv, ItemInv
    <2>6. QED BY <2>1, <2>2, <2>3, <2>4, <2>5 DEF WaitInv
  <1>5. ClaimInv'
    <2>1. \A q \in Receivers : Claims(q)' => Claims(q)
      BY <1>a, <1>b, <1>d DEF Claims, Received
    <2>2. QED BY <1>a, <1>d, <2>1 DEF IInv, ClaimInv
  <1>6. DeliveredIntact'
    BY <1>a, <1>b, <1>d DEF IInv, TypeOK, RecvType, DeliveredIntact, Received
  <1>7. OneToOne'
    <2>1. \A q \in Receivers : Received(q)' => Received(q)
      BY <1>a, <1>b DEF Received
    <2>2. QED BY <1>a, <1>d, <2>1 DEF IInv, OneToOne
  <1>8. SentReachesWaiter'
    BY <1>a, <1>b, <1>d DEF IInv, SentReachesWaiter
  <1>9. FreshInv'
    BY SMTT(30) DEF IInv, TypeOK, AbortItem, Answer, SendType, RecvType,
           FreshInv
  <1>10. QED
    BY <1>1, <1>2, <1>3, <1>4, <1>5, <1>6, <1>7, <1>8, <1>9 DEF IInv

\* AbortDone preserves the inductive invariant.
LEMMA AbortDoneIInv ==
    ASSUME IInv, NEW a \in Aborters, AbortDone(a)
    PROVE  IInv'
  <1>1. TypeOK'
    BY DEF IInv, TypeOK, AbortDone, ItemType, SendType, RecvType, AbortType,
           Calls, Ref, Unref, CallInv, ItemInv, WaitInv, Accepted
  <1>2. ItemInv'
    BY DEF IInv, TypeOK, AbortDone, ItemInv, CallInv, Accepted, ItemType,
           SendType, RecvType
  <1>3. CallInv'
    BY DEF IInv, TypeOK, AbortDone, ItemInv, CallInv, WaitInv, Notifies,
           ItemOf, Accepted, ItemType, SendType, RecvType
  <1>4. WaitInv'
    BY DEF IInv, TypeOK, AbortDone, ItemInv, CallInv, WaitInv, Notifies,
           ItemOf, Accepted, ItemType, SendType, RecvType, AbortType
  <1>5. ClaimInv'
    BY DEF IInv, TypeOK, AbortDone, ItemInv, CallInv, WaitInv, ClaimInv,
           Claims, Received, Notifies, ItemOf, Accepted, ItemType, SendType,
           RecvType
  <1>6. DeliveredIntact'
    BY DEF IInv, TypeOK, AbortDone, CallInv, WaitInv, DeliveredIntact,
           Received, Accepted, ItemType, SendType, RecvType
  <1>7. OneToOne'
    BY DEF IInv, TypeOK, AbortDone, ItemInv, CallInv, WaitInv, ClaimInv,
           Claims, Notifies, ItemOf, OneToOne, Received, Accepted, ItemType,
           SendType, RecvType
  <1>8. SentReachesWaiter'
    BY DEF IInv, TypeOK, AbortDone, ItemInv, CallInv, WaitInv, Notifies,
           ItemOf, SentReachesWaiter, Accepted, ItemType, SendType, RecvType
  <1>9. FreshInv'
    BY DEF IInv, TypeOK, AbortDone, SendType, RecvType, FreshInv
  <1>10. QED
    BY <1>1, <1>2, <1>3, <1>4, <1>5, <1>6, <1>7, <1>8, <1>9 DEF IInv

-----------------------------------------------------------------------------
\* Every step preserves the inductive invariant.
LEMMA NextIInv == IInv /\ [Next]_vars => IInv'
  <1> SUFFICES ASSUME IInv, [Next]_vars PROVE IInv'
    OBVIOUS
  <1>1. ASSUME NEW s \in Senders, NEW k \in Keys, SendAborted(s, k) PROVE IInv'
    BY <1>1, SendAbortedIInv
  <1>2. ASSUME NEW s \in Senders, NEW k \in Keys, SendStores(s, k) PROVE IInv'
    BY <1>2, SendStoresIInv
  <1>3. ASSUME NEW s \in Senders, NEW k \in Keys, SendDuplicated(s, k) PROVE IInv'
    BY <1>3, SendDuplicatedIInv
  <1>4. ASSUME NEW s \in Senders, NEW k \in Keys, SendToWaiter(s, k) PROVE IInv'
    BY <1>4, SendToWaiterIInv
  <1>5. ASSUME NEW s \in Senders, NotifyWaiter(s) PROVE IInv'
    BY <1>5, NotifyWaiterIInv
  <1>6. ASSUME NEW r \in Receivers, NEW k \in Keys, RecvAborted(r, k) PROVE IInv'
    BY <1>6, RecvAbortedIInv
  <1>7. ASSUME NEW r \in Receivers, NEW k \in Keys, RecvDuplicated(r, k) PROVE IInv'
    BY <1>7, RecvDuplicatedIInv
  <1>8. ASSUME NEW r \in Receivers, NEW k \in Keys, RecvStored(r, k) PROVE IInv'
    BY <1>8, RecvStoredIInv
  <1>9. ASSUME NEW r \in Receivers, NEW k \in Keys, RecvWaits(r, k) PROVE IInv'
    BY <1>9, RecvWaitsIInv
  <1>10. ASSUME NEW r \in Receivers, RecvDelivers(r) PROVE IInv'
    BY <1>10, RecvDeliversIInv
  <1>11. ASSUME NEW a \in Aborters, AbortAgain(a) PROVE IInv'
    BY <1>11, AbortAgainIInv
  <1>12. ASSUME NEW a \in Aborters, StartAbort(a) PROVE IInv'
    BY <1>12, StartAbortIInv
  <1>13. ASSUME NEW a \in Aborters, NEW i \in abort[a].items, AbortItem(a, i) PROVE IInv'
    BY <1>13, AbortItemIInv
  <1>14. ASSUME NEW a \in Aborters, AbortDone(a) PROVE IInv'
    BY <1>14, AbortDoneIInv
  <1>15. CASE UNCHANGED vars
    BY <1>15, SMTT(30) DEF IInv, TypeOK, ItemInv, CallInv, FreshInv, WaitInv,
           ClaimInv, DeliveredIntact, OneToOne, SentReachesWaiter, Claims,
           Notifies, Received, Accepted, ItemOf, vars
  <1>16. QED
    BY <1>1, <1>2, <1>3, <1>4, <1>5, <1>6, <1>7, <1>8, <1>9, <1>10, <1>11,
       <1>12, <1>13, <1>14, <1>15 DEF Next, SendStep, RecvStep, AbortStep

\* The inductive invariant holds of every reachable state.
LEMMA SpecIInv == Spec => []IInv
  BY InitIInv, NextIInv, PTL DEF Spec

(***************************************************************************)
(* The rendezvous keeps its types in every reachable state, whatever the   *)
(* numbers of keys, calls and aborts.                                      *)
(***************************************************************************)
THEOREM TypeCorrect == Spec => []TypeOK
  <1>1. IInv => TypeOK
    BY DEF IInv
  <1>2. QED BY <1>1, SpecIInv, PTL

(***************************************************************************)
(* LocalRendezvousImpl::RecvAsync hands out the message of an accepted     *)
(* Send of the same key, never another one and, unless duplicates are      *)
(* tolerated, never an empty tensor.                                       *)
(***************************************************************************)
THEOREM MessagesIntact == Spec => []DeliveredIntact
  <1>1. IInv => DeliveredIntact
    BY DEF IInv
  <1>2. QED BY <1>1, SpecIInv, PTL

(***************************************************************************)
(* One Send per key is accepted and, unless duplicates are tolerated, one  *)
(* RecvAsync succeeds: a key is a single producer and consumer pair,       *)
(* however the calls and aborts interleave.                                *)
(***************************************************************************)
THEOREM PairsAreUnique == Spec => []OneToOne
  <1>1. IInv => OneToOne
    BY DEF IInv
  <1>2. QED BY <1>1, SpecIInv, PTL

(***************************************************************************)
(* RecvAsync and Send cannot miss each other: while a receive waits, an    *)
(* accepted Send of its key is the one that is about to call it.           *)
(***************************************************************************)
THEOREM NoMissedMessage == Spec => []SentReachesWaiter
  <1>1. IInv => SentReachesWaiter
    BY DEF IInv
  <1>2. QED BY <1>1, SpecIInv, PTL

-----------------------------------------------------------------------------
(* The callbacks and the references *)

\* The initial states satisfy the second invariant.
LEMMA InitJInv == Init => JInv
  <1> SUFFICES ASSUME Init PROVE JInv
    OBVIOUS
  <1>1. AnswerInv
    BY DEF Init, AnswerInv
  <1>2. ContextInv
    BY DEF Init, NoItem, ContextInv
  <1>3. ASSUME NEW c \in Calls PROVE Counted(c)
    <2>1. Stored(c) = {} /\ Taken(c) = {} /\ Notifying(c) = {} /\ Holding(c) = {}
      BY <1>3 DEF Init, NoItem, Stored, Taken, Notifying, Notifies, Holding,
             Calls
    <2>2. refs[c] = 0
      BY <1>3 DEF Init
    <2>3. QED BY <2>1, <2>2, FS_EmptySet DEF Counted
  <1>4. QED BY <1>1, <1>2, <1>3 DEF JInv, CountInv

\* A step that leaves the references on c where they are.
LEMMA CountKept ==
    ASSUME NEW c, Counted(c), refs'[c] = refs[c],
           Stored(c)' = Stored(c), Taken(c)' = Taken(c),
           Notifying(c)' = Notifying(c), Holding(c)' = Holding(c)
    PROVE  Counted(c)'
  BY DEF Counted

\* A Send that changes nothing but its own state, and calls nobody.
LEMMA QuietSendJInv ==
    ASSUME IInv, JInv, NEW s \in Senders, NEW k \in Keys,
           SendAborted(s, k) \/ SendDuplicated(s, k)
    PROVE  JInv'
  <1>1. UNCHANGED <<table, status, recv, abort, refs>>
    BY DEF SendAborted, SendDuplicated
  <1>2. \A t \in Senders : \A q : Notifies(t, q)' <=> Notifies(t, q)
    BY DEF IInv, TypeOK, SendAborted, SendDuplicated, SendReturns, SendType,
           Notifies
  <1>3. AnswerInv'
    BY <1>1, <1>2 DEF JInv, AnswerInv
  <1>4. ContextInv'
    BY <1>1 DEF JInv, ContextInv
  <1>5. ASSUME NEW c \in Calls PROVE Counted(c)'
    <2>1. Stored(c)' = Stored(c) /\ Taken(c)' = Taken(c)
          /\ Holding(c)' = Holding(c)
      BY <1>1 DEF Stored, Taken, Holding
    <2>2. Notifying(c)' = Notifying(c)
      BY <1>2 DEF Notifying
    <2>3. QED BY <1>1, <2>1, <2>2, <1>5, CountKept DEF JInv, CountInv
  <1>6. QED BY <1>3, <1>4, <1>5 DEF JInv, CountInv, Calls

\* SendStores: the item takes a reference on the Send's context.
LEMMA SendStoresJInv ==
    ASSUME IInv, JInv, NEW s \in Senders, NEW k \in Keys, SendStores(s, k)
    PROVE  JInv'
  <1> DEFINE h == KeyHash[k]
  <1>a. h \in Hashes /\ ~table[h].exists
    BY DEF SendStores
  <1>b. UNCHANGED <<status, recv, abort>>
    BY DEF SendStores
  <1>c. \A t \in Senders : \A q : Notifies(t, q)' <=> Notifies(t, q)
    BY DEF IInv, TypeOK, SendStores, SendReturns, SendType, Notifies
  <1>d. /\ table'[h] = [NoItem EXCEPT !.exists = TRUE, !.value = s,
                                      !.send_dev_context = s]
        /\ \A g \in Hashes : g # h => table'[g] = table[g]
    BY <1>a DEF IInv, TypeOK, SendStores
  <1>e. /\ table[h].send_dev_context = None /\ table[h].recv_dev_context = None
        /\ table'[h].exists /\ table'[h].waiter = None
        /\ table'[h].send_dev_context = s /\ table'[h].recv_dev_context = None
    BY <1>a, <1>d DEF IInv, ItemInv, JInv, ContextInv, NoItem
  <1>f. \A c \in Calls : refs'[c] = IF c = s THEN refs[c] + 1 ELSE refs[c]
    BY DEF SendStores, Ref
  <1> HIDE DEF h
  <1>1. AnswerInv'
    BY <1>b, <1>c DEF JInv, AnswerInv
  <1>2. ContextInv'
    BY <1>b, <1>d, <1>e DEF JInv, ContextInv
  <1>3. ASSUME NEW c \in Calls PROVE Counted(c)'
    <2>0. Counted(c) /\ c # None
      BY <1>3 DEF JInv, CountInv, Calls
    <2>1. Taken(c)' = Taken(c) /\ Holding(c)' = Holding(c)
      BY <1>b DEF Taken, Holding
    <2>2. Notifying(c)' = Notifying(c)
      BY <1>c DEF Notifying
    <2>3. CASE c = s
      <3>1. h \notin Stored(c) /\ Stored(c)' = Stored(c) \cup {h}
        BY <1>a, <1>d, <1>e, <2>0, <2>3 DEF Stored
      <3>2. /\ IsFiniteSet(Stored(c)')
            /\ Cardinality(Stored(c)') = Cardinality(Stored(c)) + 1
        BY <3>1, <2>0, FS_AddElement DEF Counted
      <3>3. Cardinality(Stored(c)) \in Nat /\ Cardinality(Taken(c)) \in Nat
            /\ Cardinality(Notifying(c)) \in Nat
            /\ Cardinality(Holding(c)) \in Nat
        BY <2>0, FS_CardinalityType DEF Counted
      <3>4. QED BY <1>f, <2>0, <2>1, <2>2, <2>3, <3>2, <3>3 DEF Counted
    <2>4. CASE c # s
      <3>1. Stored(c)' = Stored(c)
        BY <1>a, <1>d, <1>e, <2>0, <2>4 DEF Stored
      <3>2. QED BY <1>f, <2>0, <2>1, <2>2, <2>4, <3>1, CountKept
    <2>5. QED BY <2>3, <2>4
  <1>4. QED BY <1>1, <1>2, <1>3 DEF JInv, CountInv, Calls

\* SendToWaiter: the waiter's reference passes to this call, and the item
\* takes one on the Send's context if it keeps the message.
LEMMA SendToWaiterJInv ==
    ASSUME IInv, JInv, NEW s \in Senders, NEW k \in Keys, SendToWaiter(s, k)
    PROVE  JInv'
  <1> DEFINE h == KeyHash[k]
             w == table[h].waiter
  <1>a. /\ h \in Hashes /\ w \in Receivers /\ s # w
        /\ table[h].exists /\ status = "OK" /\ send[s].pc = "start"
        /\ UNCHANGED <<status, recv, abort>>
    BY DEF IInv, TypeOK, ItemType, SendToWaiter
  <1>b. /\ send'[s].pc = "notify" /\ send'[s].waiter = w
        /\ \A t \in Senders : t # s => send'[t] = send[t]
    BY <1>a DEF IInv, TypeOK, SendType, SendToWaiter
  <1>c. \A t \in Senders : \A q :
           Notifies(t, q)' <=> Notifies(t, q) \/ (t = s /\ q = w)
    BY <1>a, <1>b DEF Notifies
  <1>d. ~ \E q : Notifies(s, q)
    BY <1>a DEF Notifies
  <1>e. table[h].send_dev_context = None /\ table[h].recv_dev_context = w
    BY <1>a DEF JInv, ContextInv
  <1>f. /\ table'[h].exists /\ table'[h].waiter = None
        /\ table'[h].recv_dev_context = None
        /\ table'[h].send_dev_context = IF Tolerate THEN s ELSE None
        /\ \A g \in Hashes : g # h => table'[g] = table[g]
    BY <1>a, <1>e DEF IInv, TypeOK, ItemType, SendToWaiter
  <1>g. \A c \in Calls :
           refs'[c] = IF Tolerate /\ c = s THEN refs[c] + 1 ELSE refs[c]
    BY DEF SendToWaiter, Ref
  <1> HIDE DEF h, w
  <1>1. AnswerInv'
    BY <1>a, <1>c DEF JInv, AnswerInv
  <1>2. ContextInv'
    BY <1>a, <1>f DEF JInv, ContextInv
  <1>3. ASSUME NEW c \in Calls PROVE Counted(c)'
    <2>0. Counted(c) /\ c # None
      BY <1>3 DEF JInv, CountInv, Calls
    <2>1. Taken(c)' = Taken(c) /\ Holding(c)' = Holding(c)
      BY <1>a DEF Taken, Holding
    <2>2. /\ Cardinality(Stored(c)) \in Nat
          /\ Cardinality(Taken(c)) \in Nat
          /\ Cardinality(Notifying(c)) \in Nat
          /\ Cardinality(Holding(c)) \in Nat
      BY <2>0, FS_CardinalityType DEF Counted
    <2>3. CASE c = w
      <3>1. h \in Stored(c) /\ Stored(c)' = Stored(c) \ {h}
        BY <1>a, <1>e, <1>f, <2>0, <2>3 DEF Stored
      <3>2. s \notin Notifying(c) /\ Notifying(c)' = Notifying(c) \cup {s}
        BY <1>c, <1>d, <2>3 DEF Notifying
      <3>3. /\ IsFiniteSet(Stored(c)')
            /\ Cardinality(Stored(c)') = Cardinality(Stored(c)) - 1
        BY <3>1, <2>0, FS_RemoveElement DEF Counted
      <3>4. /\ IsFiniteSet(Notifying(c)')
            /\ Cardinality(Notifying(c)') = Cardinality(Notifying(c)) + 1
        BY <3>2, <2>0, FS_AddElement DEF Counted
      <3>5. refs'[c] = refs[c]
        BY <1>3, <1>a, <1>g, <2>3
      <3>6. QED BY <2>0, <2>1, <2>2, <3>3, <3>4, <3>5 DEF Counted
    <2>4. CASE c = s /\ Tolerate
      <3>1. h \notin Stored(c) /\ Stored(c)' = Stored(c) \cup {h}
        BY <1>a, <1>e, <1>f, <2>0, <2>4 DEF Stored
      <3>2. Notifying(c)' = Notifying(c)
        BY <1>a, <1>c, <2>4 DEF Notifying
      <3>3. /\ IsFiniteSet(Stored(c)')
            /\ Cardinality(Stored(c)') = Cardinality(Stored(c)) + 1
        BY <3>1, <2>0, FS_AddElement DEF Counted
      <3>4. refs'[c] = refs[c] + 1
        BY <1>3, <1>g, <2>4
      <3>5. QED BY <2>0, <2>1, <2>2, <3>2, <3>3, <3>4 DEF Counted
    <2>5. CASE c # w /\ ~(c = s /\ Tolerate)
      <3>1. Stored(c)' = Stored(c)
        BY <1>a, <1>e, <1>f, <2>0, <2>5 DEF Stored
      <3>2. Notifying(c)' = Notifying(c)
        BY <1>c, <2>5 DEF Notifying
      <3>3. QED BY <1>3, <1>g, <2>0, <2>1, <2>5, <3>1, <3>2, CountKept
    <2>6. QED BY <2>3, <2>4, <2>5
  <1>4. QED BY <1>1, <1>2, <1>3 DEF JInv, CountInv, Calls

\* NotifyWaiter: the callback is called and its reference dropped.
LEMMA NotifyWaiterJInv ==
    ASSUME IInv, JInv, NEW s \in Senders, NotifyWaiter(s)
    PROVE  JInv'
  <1> DEFINE w == send[s].waiter
  <1>a. /\ w \in Receivers /\ Notifies(s, w) /\ recv[w].pc = "waiting"
        /\ UNCHANGED <<table, status, abort>>
    BY DEF IInv, CallInv, NotifyWaiter, Notifies
  <1>b. /\ recv'[w].pc = "done" /\ recv'[w].held = None
        /\ recv'[w].calls = recv[w].calls + 1
        /\ \A q \in Receivers : q # w => recv'[q] = recv[q]
    BY <1>a DEF IInv, TypeOK, RecvType, NotifyWaiter, Answer
  <1>c. \A t \in Senders : \A q : Notifies(t, q)' <=> Notifies(t, q) /\ t # s
    BY DEF IInv, TypeOK, SendType, NotifyWaiter, Notifies
  <1>d. \A q : Notifies(s, q) <=> q = w
    BY <1>a DEF Notifies
  <1>e. \A c \in Calls : refs'[c] = IF c = w THEN refs[c] - 1 ELSE refs[c]
    BY DEF NotifyWaiter, Unref
  <1>f. recv[w].held = None /\ recv[w].calls = 0
    BY <1>a DEF JInv, AnswerInv, ContextInv
  <1> HIDE DEF w
  <1>1. AnswerInv'
    BY <1>a, <1>b, <1>c, <1>d, <1>f DEF JInv, AnswerInv
  <1>2. ContextInv'
    BY <1>a, <1>b DEF JInv, ContextInv
  <1>3. ASSUME NEW c \in Calls PROVE Counted(c)'
    <2>0. Counted(c) /\ c # None
      BY <1>3 DEF JInv, CountInv, Calls
    <2>1. Stored(c)' = Stored(c) /\ Taken(c)' = Taken(c)
      BY <1>a DEF Stored, Taken
    <2>2. Holding(c)' = Holding(c)
      BY <1>b, <1>f, <2>0 DEF Holding
    <2>3. CASE c = w
      <3>1. s \in Notifying(c) /\ Notifying(c)' = Notifying(c) \ {s}
        BY <1>c, <1>d, <2>3 DEF Notifying
      <3>2. /\ IsFiniteSet(Notifying(c)')
            /\ Cardinality(Notifying(c)') = Cardinality(Notifying(c)) - 1
        BY <3>1, <2>0, FS_RemoveElement DEF Counted
      <3>3. /\ Cardinality(Stored(c)) \in Nat
            /\ Cardinality(Taken(c)) \in Nat
            /\ Cardinality(Notifying(c)) \in Nat
            /\ Cardinality(Holding(c)) \in Nat
        BY <2>0, FS_CardinalityType DEF Counted
      <3>4. QED BY <1>3, <1>e, <2>0, <2>1, <2>2, <2>3, <3>2, <3>3 DEF Counted
    <2>4. CASE c # w
      <3>1. Notifying(c)' = Notifying(c)
        BY <1>c, <1>d, <2>4 DEF Notifying
      <3>2. QED BY <1>3, <1>e, <2>0, <2>1, <2>2, <2>4, <3>1, CountKept
    <2>5. QED BY <2>3, <2>4
  <1>4. QED BY <1>1, <1>2, <1>3 DEF JInv, CountInv, Calls

\* A RecvAsync that fails at once holds no context.
LEMMA RecvFailsJInv ==
    ASSUME IInv, JInv, NEW r \in Receivers, NEW k \in Keys,
           RecvAborted(r, k) \/ RecvDuplicated(r, k)
    PROVE  JInv'
  <1>a. recv[r].pc = "start" /\ UNCHANGED <<table, status, send, abort, refs>>
    BY DEF RecvAborted, RecvDuplicated
  <1>b. /\ recv'[r].pc = "done" /\ recv'[r].held = recv[r].held
        /\ recv'[r].calls = recv[r].calls + 1
        /\ \A q \in Receivers : q # r => recv'[q] = recv[q]
    BY DEF IInv, TypeOK, RecvType, RecvAborted, RecvDuplicated, RecvFails
  <1>c. recv[r].held = None /\ recv[r].calls = 0
    BY <1>a DEF JInv, AnswerInv, ContextInv
  <1>1. AnswerInv'
    BY <1>a, <1>b, <1>c DEF JInv, AnswerInv, Notifies
  <1>2. ContextInv'
    BY <1>a, <1>b, <1>c DEF JInv, ContextInv
  <1>3. ASSUME NEW c \in Calls PROVE Counted(c)'
    <2>1. Stored(c)' = Stored(c) /\ Taken(c)' = Taken(c)
          /\ Notifying(c)' = Notifying(c)
      BY <1>a DEF Stored, Taken, Notifying, Notifies
    <2>2. Holding(c)' = Holding(c)
      BY <1>b DEF Holding
    <2>3. QED BY <1>3, <1>a, <2>1, <2>2, CountKept DEF JInv, CountInv
  <1>4. QED BY <1>1, <1>2, <1>3 DEF JInv, CountInv, Calls

\* RecvStored: the call takes a reference on the context of the item's Send.
LEMMA RecvStoredJInv ==
    ASSUME IInv, JInv, NEW r \in Receivers, NEW k \in Keys, RecvStored(r, k)
    PROVE  JInv'
  <1> DEFINE h == KeyHash[k]
             d == table[h].send_dev_context
  <1>a. /\ h \in Hashes /\ recv[r].pc = "start"
        /\ UNCHANGED <<status, send, abort>>
    BY DEF RecvStored
  <1>b. /\ recv'[r].pc = "delivering" /\ recv'[r].held = d
        /\ recv'[r].calls = recv[r].calls
        /\ \A q \in Receivers : q # r => recv'[q] = recv[q]
    BY DEF IInv, TypeOK, RecvType, RecvStored
  <1>c. \A g \in Hashes :
           /\ table'[g].send_dev_context = table[g].send_dev_context
           /\ table'[g].recv_dev_context = table[g].recv_dev_context
           /\ table'[g].waiter = table[g].waiter
           /\ table'[g].exists = table[g].exists
    BY <1>a DEF IInv, TypeOK, ItemType, RecvStored
  <1>d. \A c \in Calls : refs'[c] = IF c = d THEN refs[c] + 1 ELSE refs[c]
    BY DEF RecvStored, Ref
  <1>e. recv[r].held = None /\ recv[r].calls = 0
    BY <1>a DEF JInv, AnswerInv, ContextInv
  <1> HIDE DEF h, d
  <1>1. AnswerInv'
    BY <1>a, <1>b, <1>e DEF JInv, AnswerInv, Notifies
  <1>2. ContextInv'
    BY <1>a, <1>b, <1>c DEF JInv, ContextInv
  <1>3. ASSUME NEW c \in Calls PROVE Counted(c)'
    <2>0. Counted(c) /\ c # None
      BY <1>3 DEF JInv, CountInv, Calls
    <2>1. Stored(c)' = Stored(c)
      BY <1>c DEF Stored
    <2>2. Taken(c)' = Taken(c) /\ Notifying(c)' = Notifying(c)
      BY <1>a DEF Taken, Notifying, Notifies
    <2>3. CASE c = d
      <3>1. r \notin Holding(c) /\ Holding(c)' = Holding(c) \cup {r}
        BY <1>b, <1>e, <2>0, <2>3 DEF Holding
      <3>2. /\ IsFiniteSet(Holding(c)')
            /\ Cardinality(Holding(c)') = Cardinality(Holding(c)) + 1
        BY <3>1, <2>0, FS_AddElement DEF Counted
      <3>3. /\ Cardinality(Stored(c)) \in Nat
            /\ Cardinality(Taken(c)) \in Nat
            /\ Cardinality(Notifying(c)) \in Nat
            /\ Cardinality(Holding(c)) \in Nat
        BY <2>0, FS_CardinalityType DEF Counted
      <3>4. QED BY <1>3, <1>d, <2>0, <2>1, <2>2, <2>3, <3>2, <3>3 DEF Counted
    <2>4. CASE c # d
      <3>1. Holding(c)' = Holding(c)
        BY <1>b, <1>e, <2>0, <2>4 DEF Holding
      <3>2. QED BY <1>3, <1>d, <2>0, <2>1, <2>2, <2>4, <3>1, CountKept
    <2>5. QED BY <2>3, <2>4
  <1>4. QED BY <1>1, <1>2, <1>3 DEF JInv, CountInv, Calls

\* RecvDelivers: the callback is called and the call's reference dropped.
LEMMA RecvDeliversJInv ==
    ASSUME IInv, JInv, NEW r \in Receivers, RecvDelivers(r)
    PROVE  JInv'
  <1> DEFINE d == recv[r].held
  <1>a. /\ recv[r].pc = "delivering"
        /\ UNCHANGED <<table, status, send, abort>>
    BY DEF RecvDelivers
  <1>b. /\ recv'[r].pc = "done" /\ recv'[r].held = None
        /\ recv'[r].calls = recv[r].calls + 1
        /\ \A q \in Receivers : q # r => recv'[q] = recv[q]
    BY DEF IInv, TypeOK, RecvType, RecvDelivers, Answer
  <1>c. \A c \in Calls : refs'[c] = IF c = d THEN refs[c] - 1 ELSE refs[c]
    BY DEF RecvDelivers, Unref
  <1>d. recv[r].calls = 0 /\ recv[r].held = d
    BY <1>a DEF JInv, AnswerInv
  <1> HIDE DEF d
  <1>1. AnswerInv'
    BY <1>a, <1>b, <1>d DEF JInv, AnswerInv, Notifies
  <1>2. ContextInv'
    BY <1>a, <1>b DEF JInv, ContextInv
  <1>3. ASSUME NEW c \in Calls PROVE Counted(c)'
    <2>0. Counted(c) /\ c # None
      BY <1>3 DEF JInv, CountInv, Calls
    <2>1. Stored(c)' = Stored(c) /\ Taken(c)' = Taken(c)
          /\ Notifying(c)' = Notifying(c)
      BY <1>a DEF Stored, Taken, Notifying, Notifies
    <2>2. CASE c = d
      <3>1. r \in Holding(c) /\ Holding(c)' = Holding(c) \ {r}
        BY <1>b, <1>d, <2>0, <2>2 DEF Holding
      <3>2. /\ IsFiniteSet(Holding(c)')
            /\ Cardinality(Holding(c)') = Cardinality(Holding(c)) - 1
        BY <3>1, <2>0, FS_RemoveElement DEF Counted
      <3>3. /\ Cardinality(Stored(c)) \in Nat
            /\ Cardinality(Taken(c)) \in Nat
            /\ Cardinality(Notifying(c)) \in Nat
            /\ Cardinality(Holding(c)) \in Nat
        BY <2>0, FS_CardinalityType DEF Counted
      <3>4. QED BY <1>3, <1>c, <2>0, <2>1, <2>2, <3>2, <3>3 DEF Counted
    <2>3. CASE c # d
      <3>1. Holding(c)' = Holding(c)
        BY <1>b, <1>d, <2>0, <2>3 DEF Holding
      <3>2. QED BY <1>3, <1>c, <2>0, <2>1, <2>3, <3>1, CountKept
    <2>4. QED BY <2>2, <2>3
  <1>4. QED BY <1>1, <1>2, <1>3 DEF JInv, CountInv, Calls

\* RecvWaits: the item takes a reference on the receive's context.
LEMMA RecvWaitsJInv ==
    ASSUME IInv, JInv, NEW r \in Receivers, NEW k \in Keys, RecvWaits(r, k)
    PROVE  JInv'
  <1> DEFINE h == KeyHash[k]
  <1>a. /\ h \in Hashes /\ ~table[h].exists /\ recv[r].pc = "start"
        /\ status = "OK" /\ UNCHANGED <<status, send, abort>>
    BY DEF RecvWaits
  <1>b. /\ recv'[r].pc = "waiting" /\ recv'[r].held = recv[r].held
        /\ recv'[r].calls = recv[r].calls
        /\ \A q \in Receivers : q # r => recv'[q] = recv[q]
    BY DEF IInv, TypeOK, RecvType, RecvWaits
  <1>c. /\ table'[h] = [NoItem EXCEPT !.exists = TRUE, !.waiter = r,
                                      !.recv_dev_context = r]
        /\ \A g \in Hashes : g # h => table'[g] = table[g]
    BY <1>a DEF IInv, TypeOK, RecvWaits
  <1>d. /\ table[h].send_dev_context = None /\ table[h].recv_dev_context = None
        /\ table'[h].exists /\ table'[h].waiter = r
        /\ table'[h].send_dev_context = None /\ table'[h].recv_dev_context = r
    BY <1>a, <1>c DEF IInv, ItemInv, JInv, ContextInv, NoItem
  <1>e. \A c \in Calls : refs'[c] = IF c = r THEN refs[c] + 1 ELSE refs[c]
    BY DEF RecvWaits, Ref
  <1>f. recv[r].held = None /\ recv[r].calls = 0
    BY <1>a DEF JInv, AnswerInv, ContextInv
  <1> HIDE DEF h
  <1>1. AnswerInv'
    BY <1>a, <1>b, <1>f DEF JInv, AnswerInv
  <1>2. ContextInv'
    <2>1. \A g \in Hashes :
             /\ table'[g].recv_dev_context = table'[g].waiter
             /\ ~table'[g].exists \/ table'[g].waiter # None =>
                   table'[g].send_dev_context = None
      BY <1>c, <1>d DEF JInv, ContextInv
    <2>2. \A q \in Receivers :
             recv'[q].pc # "delivering" => recv'[q].held = None
      BY <1>b, <1>f DEF JInv, ContextInv
    <2>3. QED BY <1>a, <2>1, <2>2 DEF JInv, ContextInv
  <1>3. ASSUME NEW c \in Calls PROVE Counted(c)'
    <2>0. Counted(c) /\ c # None
      BY <1>3 DEF JInv, CountInv, Calls
    <2>1. Taken(c)' = Taken(c) /\ Notifying(c)' = Notifying(c)
      BY <1>a DEF Taken, Notifying, Notifies
    <2>2. Holding(c)' = Holding(c)
      BY <1>b DEF Holding
    <2>3. CASE c = r
      <3>1. h \notin Stored(c) /\ Stored(c)' = Stored(c) \cup {h}
        BY <1>a, <1>c, <1>d, <2>0, <2>3 DEF Stored
      <3>2. /\ IsFiniteSet(Stored(c)')
            /\ Cardinality(Stored(c)') = Cardinality(Stored(c)) + 1
        BY <3>1, <2>0, FS_AddElement DEF Counted
      <3>3. /\ Cardinality(Stored(c)) \in Nat
            /\ Cardinality(Taken(c)) \in Nat
            /\ Cardinality(Notifying(c)) \in Nat
            /\ Cardinality(Holding(c)) \in Nat
        BY <2>0, FS_CardinalityType DEF Counted
      <3>4. QED BY <1>3, <1>e, <2>0, <2>1, <2>2, <2>3, <3>2, <3>3 DEF Counted
    <2>4. CASE c # r
      <3>1. Stored(c)' = Stored(c)
        BY <1>a, <1>c, <1>d, <2>0, <2>4 DEF Stored
      <3>2. QED BY <1>3, <1>e, <2>0, <2>1, <2>2, <2>4, <3>1, CountKept
    <2>5. QED BY <2>3, <2>4
  <1>4. QED BY <1>1, <1>2, <1>3 DEF JInv, CountInv, Calls

\* An abort that finds the rendezvous aborted, or that has called everyone.
LEMMA QuietAbortJInv ==
    ASSUME IInv, JInv, NEW a \in Aborters, AbortAgain(a) \/ AbortDone(a)
    PROVE  JInv'
  <1>a. UNCHANGED <<table, status, send, recv, refs>>
    BY DEF AbortAgain, AbortDone
  <1>b. \A b \in Aborters : abort'[b].items = abort[b].items
    BY DEF IInv, TypeOK, AbortType, AbortAgain, AbortDone
  <1>1. AnswerInv'
    BY <1>a, <1>b DEF JInv, AnswerInv, Notifies
  <1>2. ContextInv'
    BY <1>a, <1>b DEF JInv, ContextInv
  <1>3. ASSUME NEW c \in Calls PROVE Counted(c)'
    <2>1. Stored(c)' = Stored(c) /\ Notifying(c)' = Notifying(c)
          /\ Holding(c)' = Holding(c)
      BY <1>a DEF Stored, Notifying, Notifies, Holding
    <2>2. Taken(c)' = Taken(c)
      BY <1>b DEF Taken
    <2>3. QED BY <1>3, <1>a, <2>1, <2>2, CountKept DEF JInv, CountInv
  <1>4. QED BY <1>1, <1>2, <1>3 DEF JInv, CountInv, Calls

\* Pairing every member of a finite set with a changes neither its
\* finiteness nor its size.
LEMMA PairedCardinality ==
    ASSUME NEW a, NEW S, IsFiniteSet(S)
    PROVE  /\ IsFiniteSet({a} \X S)
           /\ Cardinality({a} \X S) = Cardinality(S)
  <1> DEFINE f == [x \in S |-> <<a, x>>]
             T == {a} \X S
  <1>1. /\ f \in [S -> T]
        /\ \A x, y \in S : f[x] = f[y] => x = y
        /\ \A p \in T : \E x \in S : f[x] = p
    OBVIOUS
  <1> HIDE DEF f, T
  <1>2. f \in Bijection(S, T)
    BY <1>1, Fun_IsBij
  <1>3. ExistsBijection(S, T)
    BY <1>2, Fun_ExistsBij
  <1>4. IsFiniteSet(T) /\ Cardinality(T) = Cardinality(S)
    BY <1>3, FS_Bijection
  <1>5. QED BY <1>4 DEF T

\* StartAbort: every item, with its references, passes to the abort.
LEMMA StartAbortJInv ==
    ASSUME IInv, JInv, NEW a \in Aborters, StartAbort(a)
    PROVE  JInv'
  <1>a. status = "OK" /\ status' # "OK" /\ UNCHANGED <<send, recv, refs>>
    BY DEF StartAbort
  <1>b. \A h \in Hashes : table'[h] = NoItem
    BY DEF StartAbort
  <1>c. /\ \A i : i \in abort'[a].items <=>
              \E h \in Hashes : table[h].exists /\ i = [hash |-> h, item |-> table[h]]
        /\ \A b \in Aborters : b # a => abort'[b] = abort[b]
    BY DEF IInv, TypeOK, AbortType, StartAbort
  <1>d. \A b \in Aborters : abort[b].items = {}
    BY <1>a DEF IInv, WaitInv
  <1>1. AnswerInv'
    <2>1. ASSUME NEW r \in Receivers, recv[r].pc = "waiting"
          PROVE  \/ \E s \in Senders : Notifies(s, r)'
                 \/ \E i \in abort'[a].items : i.item.waiter = r
      <3>1. CASE \E s \in Senders : Notifies(s, r)
        BY <1>a, <3>1 DEF Notifies
      <3>2. CASE ItemOf(recv[r].key).waiter = r
        <4> DEFINE h == KeyHash[recv[r].key]
        <4>1. h \in Hashes /\ table[h].waiter = r /\ table[h].exists
          BY <2>1, <3>2 DEF IInv, ItemInv, CallInv, ItemOf
        <4>2. [hash |-> h, item |-> table[h]] \in abort'[a].items
          BY <1>c, <4>1
        <4>3. QED BY <4>1, <4>2
      <3>3. QED BY <1>a, <2>1, <3>1, <3>2 DEF IInv, WaitInv
    <2>2. QED BY <1>a, <2>1 DEF JInv, AnswerInv
  <1>2. ContextInv'
    <2>1. \A b \in Aborters : \A i, j \in abort'[b].items :
             i.hash = j.hash => i = j
      BY <1>c, <1>d
    <2>2. QED BY <1>a, <1>b, <2>1 DEF JInv, ContextInv, NoItem
  <1>3. ASSUME NEW c \in Calls PROVE Counted(c)'
    <2>0. Counted(c) /\ c # None
      BY <1>3 DEF JInv, CountInv, Calls
    <2>1. Notifying(c)' = Notifying(c) /\ Holding(c)' = Holding(c)
      BY <1>a DEF Notifying, Notifies, Holding
    <2>2. Stored(c)' = {} /\ Taken(c) = {}
      BY <1>b, <1>d, <2>0 DEF Stored, Taken, NoItem
    <2>3. \A h \in Stored(c) : table[h].exists
      BY <2>0 DEF Stored, IInv, ItemInv, JInv, ContextInv
    <2>4. Taken(c)' = {a} \X Stored(c)
      <3>1. \A h \in Stored(c) : <<a, h>> \in Taken(c)'
        <4>1. SUFFICES ASSUME NEW h \in Stored(c) PROVE <<a, h>> \in Taken(c)'
          OBVIOUS
        <4>2. h \in Hashes /\ [hash |-> h, item |-> table[h]] \in abort'[a].items
          BY <1>c, <2>3, <4>1 DEF Stored
        <4>3. QED BY <4>1, <4>2 DEF Stored, Taken
      <3>2. ASSUME NEW p \in Taken(c)' PROVE p \in {a} \X Stored(c)
        <4>1. p \in Aborters \X Hashes
          BY <3>2 DEF Taken
        <4>2. PICK i \in abort'[p[1]].items :
                 /\ i.hash = p[2]
                 /\ c \in {i.item.send_dev_context, i.item.recv_dev_context}
          BY <3>2 DEF Taken
        <4>3. p[1] = a
          BY <1>c, <1>d, <4>1, <4>2
        <4>4. PICK h \in Hashes : table[h].exists /\ i = [hash |-> h, item |-> table[h]]
          BY <1>c, <4>2, <4>3
        <4>5. p[2] \in Stored(c)
          BY <4>2, <4>4 DEF Stored
        <4>6. QED BY <4>1, <4>3, <4>5
      <3>3. QED BY <3>1, <3>2
    <2>5. /\ IsFiniteSet(Taken(c)')
          /\ Cardinality(Taken(c)') = Cardinality(Stored(c))
      <3>1. IsFiniteSet(Stored(c))
        BY <2>0 DEF Counted
      <3>2. /\ IsFiniteSet({a} \X Stored(c))
            /\ Cardinality({a} \X Stored(c)) = Cardinality(Stored(c))
        BY <3>1, PairedCardinality
      <3>3. QED BY <2>4, <3>2
    <2>6. /\ IsFiniteSet(Stored(c)') /\ Cardinality(Stored(c)') = 0
          /\ Cardinality(Taken(c)) = 0
      BY <2>2, FS_EmptySet
    <2>7. /\ Cardinality(Stored(c)) \in Nat
          /\ Cardinality(Notifying(c)) \in Nat
          /\ Cardinality(Holding(c)) \in Nat
      BY <2>0, FS_CardinalityType DEF Counted
    <2>8. QED BY <1>a, <2>0, <2>1, <2>5, <2>6, <2>7 DEF Counted
  <1>4. QED BY <1>1, <1>2, <1>3 DEF JInv, CountInv, Calls

\* AbortItem: the waiter is called and the item's references are dropped.
LEMMA AbortItemJInv ==
    ASSUME IInv, JInv, NEW a \in Aborters, NEW i \in abort[a].items,
           AbortItem(a, i)
    PROVE  JInv'
  <1> DEFINE w == i.item.waiter
  <1>a. /\ i.item \in ItemType /\ i.hash \in Hashes
        /\ w # None => w \in Receivers /\ recv[w].pc = "waiting"
        /\ UNCHANGED <<table, status, send>>
    BY DEF IInv, TypeOK, AbortType, ItemType, WaitInv, AbortItem
  <1>b. /\ w # None => /\ recv'[w].pc = "done" /\ recv'[w].held = None
                       /\ recv'[w].calls = recv[w].calls + 1
        /\ \A q \in Receivers : q # w => recv'[q] = recv[q]
    BY <1>a DEF IInv, TypeOK, RecvType, AbortItem, Answer
  <1>c. /\ abort'[a].items = abort[a].items \ {i}
        /\ \A b \in Aborters : b # a => abort'[b] = abort[b]
    BY DEF IInv, TypeOK, AbortType, AbortItem
  <1>d. \A c \in Calls :
           refs'[c] = IF c \in {i.item.send_dev_context,
                                i.item.recv_dev_context}
                      THEN refs[c] - 1 ELSE refs[c]
    BY DEF AbortItem, Unref
  <1>e. w # None => recv[w].held = None /\ recv[w].calls = 0
    BY <1>a DEF JInv, AnswerInv, ContextInv
  <1>f. w = i.item.waiter
    OBVIOUS
  <1> HIDE DEF w
  <1>1. AnswerInv'
    <2>1. \A r \in Receivers :
             recv'[r].calls = IF recv'[r].pc = "done" THEN 1 ELSE 0
      BY <1>a, <1>b, <1>e DEF JInv, AnswerInv
    <2>2. ASSUME NEW r \in Receivers, recv'[r].pc = "waiting",
                 status' # "OK"
          PROVE  \/ \E s \in Senders : Notifies(s, r)'
                 \/ \E b \in Aborters : \E j \in abort'[b].items :
                       j.item.waiter = r
      <3>1. r # w /\ recv[r].pc = "waiting" /\ status # "OK"
        BY <1>a, <1>b, <2>2
      <3>2. CASE \E s \in Senders : Notifies(s, r)
        BY <1>a, <3>2 DEF Notifies
      <3>3. CASE \E b \in Aborters : \E j \in abort[b].items :
                    j.item.waiter = r
        BY <1>c, <1>f, <3>1, <3>3
      <3>4. QED BY <3>1, <3>2, <3>3 DEF JInv, AnswerInv
    <2>3. QED BY <2>1, <2>2 DEF AnswerInv
  <1>2. ContextInv'
    BY <1>a, <1>b, <1>c DEF JInv, ContextInv
  <1>3. ASSUME NEW c \in Calls PROVE Counted(c)'
    <2>0. Counted(c) /\ c # None
      BY <1>3 DEF JInv, CountInv, Calls
    <2>1. Stored(c)' = Stored(c) /\ Notifying(c)' = Notifying(c)
      BY <1>a DEF Stored, Notifying, Notifies
    <2>2. Holding(c)' = Holding(c)
      BY <1>b, <1>e, <2>0 DEF Holding
    <2>3. \A j \in abort[a].items : j.hash = i.hash => j = i
      BY DEF JInv, ContextInv
    <2>4. CASE c \in {i.item.send_dev_context, i.item.recv_dev_context}
      <3>1. <<a, i.hash>> \in Taken(c)
        BY <1>a, <2>4 DEF Taken
      <3>2. Taken(c)' = Taken(c) \ {<<a, i.hash>>}
        BY <1>a, <1>c, <2>3 DEF Taken
      <3>3. /\ IsFiniteSet(Taken(c)')
            /\ Cardinality(Taken(c)') = Cardinality(Taken(c)) - 1
        <4> DEFINE p == <<a, i.hash>>
        <4>1. p \in Taken(c) /\ Taken(c)' = Taken(c) \ {p}
          BY <3>1, <3>2
        <4> HIDE DEF p
        <4>2. QED BY <4>1, <2>0, FS_RemoveElement DEF Counted
      <3>4. /\ Cardinality(Stored(c)) \in Nat
            /\ Cardinality(Taken(c)) \in Nat
            /\ Cardinality(Notifying(c)) \in Nat
            /\ Cardinality(Holding(c)) \in Nat
        BY <2>0, FS_CardinalityType DEF Counted
      <3>5. QED BY <1>3, <1>d, <2>0, <2>1, <2>2, <2>4, <3>3, <3>4 DEF Counted
    <2>5. CASE c \notin {i.item.send_dev_context, i.item.recv_dev_context}
      <3>1. Taken(c)' = Taken(c)
        BY <1>c, <2>5 DEF Taken
      <3>2. QED BY <1>3, <1>d, <2>0, <2>1, <2>2, <2>5, <3>1, CountKept
    <2>6. QED BY <2>4, <2>5
  <1>4. QED BY <1>1, <1>2, <1>3 DEF JInv, CountInv, Calls

-----------------------------------------------------------------------------
\* Every step preserves the second invariant.
LEMMA NextJInv == IInv /\ JInv /\ [Next]_vars => JInv'
  <1> SUFFICES ASSUME IInv, JInv, [Next]_vars PROVE JInv'
    OBVIOUS
  <1>1. ASSUME NEW s \in Senders, SendStep(s) \/ NotifyWaiter(s) PROVE JInv'
    BY <1>1, QuietSendJInv, SendStoresJInv, SendToWaiterJInv, NotifyWaiterJInv
       DEF SendStep
  <1>2. ASSUME NEW r \in Receivers, RecvStep(r) \/ RecvDelivers(r) PROVE JInv'
    BY <1>2, RecvFailsJInv, RecvStoredJInv, RecvWaitsJInv, RecvDeliversJInv
       DEF RecvStep
  <1>3. ASSUME NEW a \in Aborters,
               AbortAgain(a) \/ StartAbort(a) \/ AbortStep(a)
        PROVE  JInv'
    BY <1>3, QuietAbortJInv, StartAbortJInv, AbortItemJInv DEF AbortStep
  <1>4. CASE UNCHANGED vars
    <2>1. AnswerInv' /\ ContextInv'
      BY <1>4 DEF JInv, AnswerInv, ContextInv, Notifies, vars
    <2>2. ASSUME NEW c \in Calls PROVE Counted(c)'
      <3>1. /\ Stored(c)' = Stored(c) /\ Taken(c)' = Taken(c)
            /\ Notifying(c)' = Notifying(c) /\ Holding(c)' = Holding(c)
        BY <1>4 DEF Stored, Taken, Notifying, Notifies, Holding, vars
      <3>2. QED BY <1>4, <2>2, <3>1, CountKept DEF JInv, CountInv, vars
    <2>3. QED BY <2>1, <2>2 DEF JInv, CountInv, Calls
  <1>5. QED BY <1>1, <1>2, <1>3, <1>4 DEF Next

\* Both invariants hold of every reachable state.
LEMMA SpecJInv == Spec => [](IInv /\ JInv)
  BY InitIInv, InitJInv, NextIInv, NextJInv, PTL DEF Spec

(***************************************************************************)
(* The callback of a RecvAsync is called once: by its own call, by the     *)
(* Send that found it waiting or by the StartAbort that found it in the    *)
(* table, and until then exactly one of them has it.                       *)
(***************************************************************************)
THEOREM CalledBackOnce == Spec => []AnsweredOnce
  <1>1. ASSUME IInv, JInv, NEW r \in Receivers
        PROVE  LET inTable == {h \in Hashes : table[h].waiter = r}
                   inSend  == {s \in Senders : send[s].pc = "notify" /\
                                               send[s].waiter = r}
                   inAbort == {a \in Aborters :
                                  \E i \in abort[a].items : i.item.waiter = r}
                   own     == IF recv[r].pc = "delivering" THEN 1 ELSE 0
               IN Cardinality(inTable) + Cardinality(inSend)
                     + Cardinality(inAbort) + own + recv[r].calls
                  = IF recv[r].pc = "start" THEN 0 ELSE 1
    <2> DEFINE T == {h \in Hashes : table[h].waiter = r}
               N == {s \in Senders : send[s].pc = "notify" /\ send[s].waiter = r}
               A == {a \in Aborters :
                        \E i \in abort[a].items : i.item.waiter = r}
    <2>a. r # None /\ recv[r].pc \in {"start", "waiting", "delivering", "done"}
      BY <1>1 DEF IInv, TypeOK, RecvType
    <2>b. \A x : Cardinality({}) = 0 /\ Cardinality({x}) = 1
      BY FS_EmptySet, FS_Singleton
    <2>c. recv[r].calls = IF recv[r].pc = "done" THEN 1 ELSE 0
      BY <1>1 DEF JInv, AnswerInv
    <2>d. SUFFICES
             Cardinality(T) + Cardinality(N) + Cardinality(A)
                + (IF recv[r].pc = "delivering" THEN 1 ELSE 0) + recv[r].calls
             = IF recv[r].pc = "start" THEN 0 ELSE 1
      OBVIOUS
    <2> HIDE DEF T, N, A
    <2>1. CASE recv[r].pc # "waiting"
      <3>1. T = {} /\ N = {} /\ A = {}
        BY <1>1, <2>a, <2>1 DEF IInv, ItemInv, CallInv, WaitInv, T, N, A
      <3>2. Cardinality(T) = 0 /\ Cardinality(N) = 0 /\ Cardinality(A) = 0
        BY <2>b, <3>1
      <3>3. QED BY <2>a, <2>c, <2>1, <3>2
    <2>2. CASE recv[r].pc = "waiting" /\ \E s \in Senders : Notifies(s, r)
      <3>1. PICK s \in Senders : Notifies(s, r)
        BY <2>2
      <3>2. N = {s}
        BY <1>1, <3>1 DEF IInv, CallInv, OneToOne, Notifies, N
      <3>3. T = {} /\ A = {}
        BY <1>1, <2>a, <3>1 DEF IInv, WaitInv, T, A
      <3>4. Cardinality(N) = 1 /\ Cardinality(T) = 0
            /\ Cardinality(A) = 0
        BY <2>b, <3>2, <3>3
      <3>5. QED BY <2>2, <2>c, <3>4
    <2>3. CASE /\ recv[r].pc = "waiting" /\ status = "OK"
               /\ ~ \E s \in Senders : Notifies(s, r)
      <3>1. KeyHash[recv[r].key] \in Hashes
            /\ table[KeyHash[recv[r].key]].waiter = r
        BY <1>1, <2>3 DEF IInv, CallInv, WaitInv, ItemOf
      <3>2. T = {KeyHash[recv[r].key]}
        BY <1>1, <2>a, <3>1 DEF IInv, ItemInv, T
      <3>3. N = {} /\ A = {}
        BY <1>1, <2>3 DEF IInv, WaitInv, Notifies, N, A
      <3>4. Cardinality(T) = 1 /\ Cardinality(N) = 0
            /\ Cardinality(A) = 0
        BY <2>b, <3>2, <3>3
      <3>5. QED BY <2>3, <2>c, <3>4
    <2>4. CASE /\ recv[r].pc = "waiting" /\ status # "OK"
               /\ ~ \E s \in Senders : Notifies(s, r)
      <3>1. PICK a \in Aborters : \E i \in abort[a].items : i.item.waiter = r
        BY <1>1, <2>4 DEF JInv, AnswerInv
      <3>2. A = {a}
        BY <1>1, <3>1 DEF IInv, WaitInv, A
      <3>3. T = {} /\ N = {}
        BY <1>1, <2>a, <2>4 DEF IInv, ItemInv, Notifies, T, N
      <3>4. Cardinality(A) = 1 /\ Cardinality(T) = 0
            /\ Cardinality(N) = 0
        BY <2>b, <3>2, <3>3
      <3>5. QED BY <2>4, <2>c, <3>4
    <2>5. QED BY <2>1, <2>2, <2>3, <2>4
  <1>2. IInv /\ JInv => AnsweredOnce
    BY <1>1 DEF AnsweredOnce
  <1>3. QED BY <1>2, SpecJInv, PTL

(***************************************************************************)
(* Send, RecvAsync and StartAbort leak no reference on a device context    *)
(* and use none they do not hold: the count is the number of items and     *)
(* calls that have the context.                                            *)
(***************************************************************************)
THEOREM ContextsBalanced == Spec => []RefsBalanced
  <1>1. ASSUME IInv, JInv PROVE RefsBalanced
    <2>1. \A c \in Calls :
             refs[c] = Cardinality(Stored(c)) + Cardinality(Taken(c))
                        + Cardinality(Notifying(c)) + Cardinality(Holding(c))
      BY <1>1 DEF JInv, CountInv, Counted
    <2>2. QED BY <2>1 DEF RefsBalanced, Stored, Taken, Notifying, Notifies,
                          Holding
  <1>2. QED BY <1>1, SpecJInv, PTL
=============================================================================
