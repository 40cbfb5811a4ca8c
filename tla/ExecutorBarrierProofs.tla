------------------------ MODULE ExecutorBarrierProofs ------------------------
(***************************************************************************)
(* The barrier is correct for any finite set of executors.  The invariant  *)
(* says who holds the step's callback, who is to abort the rendezvous, and *)
(* what pending_, status_ and the references have to do with them.         *)
(***************************************************************************)
EXTENDS ExecutorBarrier, FiniteSetTheorems, TLAPS

\* pending_ counts the calls to come; the last one takes the callback.
CountInv ==
    /\ pending = Cardinality(Outstanding)
    /\ Outstanding # {} => holder = {} /\ answers = <<>> /\ ~deleted

HolderInv ==
    /\ \A e, d \in holder : e = d
    /\ \A e \in Executors : pc[e] = "finish" => e \in holder
    /\ \A e \in holder : saved[e] = status
    /\ answers # <<>> => \A e \in holder : pc[e] = "returned"
    /\ Len(answers) <= 1
    /\ answers # <<>> => answers[1] = status

StatusInv ==
    /\ status = OK => /\ \A e \in Executors \ Outstanding : result[e] = OK
                      /\ Aborting = {}
                      /\ aborts = <<>>
    /\ status # OK => \E e \in Executors \ Outstanding : result[e] # OK

AbortInv ==
    /\ \A e, d \in Aborting : e = d
    /\ \A e \in Executors :
          pc[e] = "abort" => aborts = <<>> /\ saved[e] = status
    /\ Len(aborts) <= 1
    /\ aborts # <<>> => aborts[1] = status
    /\ status # OK /\ aborts = <<>> => \E e \in Executors : pc[e] = "abort"

RefInv ==
    /\ released => answers # <<>>
    /\ Aborting = {} /\ released => refs = 0
    /\ Aborting = {} /\ ~released => refs = 1
    /\ Aborting # {} /\ released => refs = 1
    /\ Aborting # {} /\ ~released => refs = 2

IInv == TypeOK /\ CountInv /\ HolderInv /\ StatusInv /\ AbortInv /\ RefInv

-----------------------------------------------------------------------------

\* Finitely many executors have still to call WhenDone.
LEMMA OutstandingFinite == IsFiniteSet(Outstanding)
  BY FS_Subset, BarrierAssumption DEF Outstanding

\* A new barrier satisfies the inductive invariant.
LEMMA InitInv == Init => IInv
<1> SUFFICES ASSUME Init PROVE IInv
  OBVIOUS
<1>1. Outstanding = Executors /\ Aborting = {}
  BY DEF Init, Outstanding, Aborting
<1>2. TypeOK
  <2>1. pending \in Nat
    BY FS_CardinalityType, BarrierAssumption DEF Init
  <2>2. <<>> \in Seq(Status)
    OBVIOUS
  <2> QED
    BY <2>1, <2>2 DEF Init, TypeOK, Status
<1>3. CountInv
  BY <1>1 DEF Init, CountInv
<1>4. HolderInv
  BY BarrierAssumption DEF Init, HolderInv
<1>5. StatusInv /\ AbortInv
  BY <1>1 DEF Init, StatusInv, AbortInv
<1>6. RefInv
  BY <1>1 DEF Init, RefInv
<1> QED
  BY <1>2, <1>3, <1>4, <1>5, <1>6 DEF IInv

\* An executor ends: WhenDone is still to come, so nobody else is concerned.
LEMMA EndsStep ==
    ASSUME IInv, NEW e \in Executors, NEW s \in Status, Ends(e, s)
    PROVE  IInv'
<1> USE DEF IInv
<1>1. Outstanding' = Outstanding /\ Aborting' = Aborting
  BY DEF Ends, TypeOK, Outstanding, Aborting
<1>2. TypeOK'
  BY DEF Ends, TypeOK, barrier
<1>3. CountInv'
  BY <1>1 DEF Ends, CountInv, barrier
<1>4. HolderInv'
  BY DEF Ends, HolderInv, TypeOK, CountInv, Outstanding, barrier
<1>5. StatusInv'
  <2>1. e \in Outstanding
    BY DEF Ends, Outstanding
  <2>2. \A d \in Executors \ Outstanding : result'[d] = result[d]
    BY <2>1 DEF Ends, TypeOK
  <2> QED
    BY <1>1, <2>2 DEF Ends, StatusInv, barrier
<1>6. AbortInv'
  BY <1>1 DEF Ends, AbortInv, TypeOK, barrier
<1>7. RefInv'
  BY <1>1 DEF Ends, RefInv
<1> QED
  BY <1>2, <1>3, <1>4, <1>5, <1>6, <1>7

\* The call of WhenDone, whether it is the first error, the last call, both
\* or neither.
LEMMA WhenDoneStep ==
    ASSUME IInv, NEW e \in Executors, WhenDone(e)
    PROVE  IInv'
<1> USE DEF IInv
<1> DEFINE error == status = OK /\ result[e] # OK
<1>0. /\ pc[e] = "whendone"
      /\ e \in Outstanding
      /\ UNCHANGED <<result, deleted, aborts, answers, released>>
      /\ holder = {} /\ answers = <<>> /\ ~deleted /\ ~released
      /\ pending' = pending - 1
  BY DEF WhenDone, Account, Outstanding, CountInv, RefInv
<1>1. Outstanding' = Outstanding \ {e}
  BY DEF WhenDone, Account, Last, TypeOK, Outstanding
<1>2. pending \in Nat \ {0} /\ pending' = Cardinality(Outstanding')
  BY <1>0, <1>1, OutstandingFinite, FS_RemoveElement, FS_EmptySet,
     FS_CardinalityType DEF CountInv
<1>3. pending = 1 <=> Outstanding' = {}
  <2>1. IsFiniteSet(Outstanding')
    BY <1>1, OutstandingFinite, FS_RemoveElement
  <2> QED
    BY <1>0, <1>2, <2>1, FS_EmptySet
<1>4. CASE error
  <2>1. /\ status' = result[e]
        /\ refs' = refs + 1
        /\ saved' = [saved EXCEPT ![e] = result[e]]
        /\ pc' = [pc EXCEPT ![e] = "abort"]
        /\ holder' = IF pending = 1 THEN {e} ELSE {}
    BY <1>4, <1>0 DEF WhenDone, Account
  <2>2. Aborting = {} /\ aborts = <<>>
    BY <1>4 DEF StatusInv
  <2>3. Aborting' = {e}
    BY <2>1, <2>2 DEF Aborting, TypeOK
  <2>4. refs = 1
    BY <1>0, <2>2 DEF RefInv
  <2>5. TypeOK'
    BY <1>0, <1>2, <2>1, <2>4 DEF TypeOK
  <2>6. CountInv'
    BY <1>0, <1>2, <1>3, <2>1 DEF CountInv
  <2>7. HolderInv'
    BY <1>0, <2>1 DEF HolderInv, TypeOK
  <2>8. StatusInv'
    BY <1>0, <1>1, <1>4, <2>1 DEF StatusInv
  <2>9. AbortInv'
    BY <1>0, <2>1, <2>2, <2>3 DEF AbortInv, TypeOK, Aborting
  <2>10. RefInv'
    BY <1>0, <2>1, <2>3, <2>4 DEF RefInv
  <2> QED
    BY <2>5, <2>6, <2>7, <2>8, <2>9, <2>10
<1>5. CASE ~error
  <2>1. /\ status' = status
        /\ refs' = refs
        /\ saved' = [saved EXCEPT ![e] = status]
        /\ holder' = IF pending = 1 THEN {e} ELSE {}
        /\ pc' = [pc EXCEPT ![e] = IF pending = 1 THEN "finish"
                                                  ELSE "returned"]
    BY <1>5, <1>0 DEF WhenDone, Account, Last
  <2>2. Aborting' = Aborting
    BY <1>0, <2>1 DEF Aborting, TypeOK
  <2>3. TypeOK'
    BY <1>0, <1>2, <2>1 DEF TypeOK
  <2>4. CountInv'
    BY <1>0, <1>2, <1>3, <2>1 DEF CountInv
  <2>5. HolderInv'
    BY <1>0, <2>1 DEF HolderInv, TypeOK
  <2>6. StatusInv'
    BY <1>0, <1>1, <1>5, <2>1, <2>2 DEF StatusInv
  <2>7. AbortInv'
    BY <1>0, <2>1, <2>2 DEF AbortInv, TypeOK
  <2>8. RefInv'
    BY <1>0, <2>1, <2>2 DEF RefInv
  <2> QED
    BY <2>3, <2>4, <2>5, <2>6, <2>7, <2>8
<1> QED
  BY <1>4, <1>5

\* The abort of the rendezvous, after the lock, preserves it.
LEMMA StartAbortStep ==
    ASSUME IInv, NEW e \in Executors, StartAbort(e)
    PROVE  IInv'
<1> USE DEF IInv
<1>0. /\ pc[e] = "abort" /\ aborts = <<>> /\ saved[e] = status
      /\ aborts' = Append(aborts, saved[e])
      /\ pc' = [pc EXCEPT ![e] = "unref"]
      /\ UNCHANGED <<result, saved, holder, pending, status, deleted, refs,
                     answers, released>>
  BY DEF StartAbort, AbortInv, barrier
<1>1. /\ pc[e] = "abort" /\ aborts = <<>> /\ saved[e] = status
      /\ aborts' = <<status>>
      /\ pc' = [pc EXCEPT ![e] = "unref"]
      /\ UNCHANGED <<result, saved, holder, pending, status, deleted, refs,
                     answers, released>>
  BY <1>0
<1>2. Outstanding' = Outstanding /\ Aborting' = Aborting /\ e \in Aborting
  BY <1>1 DEF Outstanding, Aborting, TypeOK
<1>3. status # OK
  BY <1>2 DEF StatusInv
<1>4. TypeOK'
  BY <1>1 DEF TypeOK
<1>5. CountInv'
  BY <1>1, <1>2 DEF CountInv
<1>6. HolderInv'
  BY <1>1 DEF HolderInv, TypeOK
<1>7. StatusInv'
  BY <1>1, <1>2, <1>3 DEF StatusInv
<1>8. AbortInv'
  BY <1>1, <1>2 DEF AbortInv, TypeOK, Aborting
<1>9. RefInv'
  BY <1>1, <1>2 DEF RefInv
<1> QED
  BY <1>4, <1>5, <1>6, <1>7, <1>8, <1>9

\* Giving up the reference of the aborting thread preserves it.
LEMMA UnrefStep ==
    ASSUME IInv, NEW e \in Executors, Unref(e)
    PROVE  IInv'
<1> USE DEF IInv
<1>1. /\ pc[e] = "unref"
      /\ refs' = refs - 1
      /\ pc' = [pc EXCEPT ![e] = IF e \in holder THEN "finish"
                                                 ELSE "returned"]
      /\ UNCHANGED <<result, saved, holder, pending, status, deleted, aborts,
                     answers, released>>
  BY DEF Unref, Last, barrier
<1>2. Outstanding' = Outstanding
  BY <1>1 DEF Outstanding, TypeOK
<1>3. Aborting = {e} /\ Aborting' = {}
  BY <1>1 DEF Aborting, AbortInv, TypeOK
<1>4. status # OK /\ aborts # <<>>
  BY <1>1, <1>3 DEF StatusInv, AbortInv, Aborting
<1>5. e \in holder => answers = <<>>
  BY <1>1 DEF HolderInv
<1>6. TypeOK'
  <2>1. refs' \in Nat
    BY <1>1, <1>3 DEF RefInv, TypeOK
  <2> QED
    BY <1>1, <2>1 DEF TypeOK
<1>7. CountInv'
  BY <1>1, <1>2 DEF CountInv
<1>8. HolderInv'
  BY <1>1, <1>5 DEF HolderInv, TypeOK
<1>9. StatusInv' /\ AbortInv'
  BY <1>1, <1>2, <1>3, <1>4 DEF StatusInv, AbortInv, TypeOK
<1>10. RefInv'
  BY <1>1, <1>3 DEF RefInv
<1> QED
  BY <1>6, <1>7, <1>8, <1>9, <1>10

\* The call of the step's callback, with the deletion, preserves it.
LEMMA FinishStep ==
    ASSUME IInv, NEW e \in Executors, Finish(e)
    PROVE  IInv'
<1> USE DEF IInv
<1>1. /\ pc[e] = "finish"
      /\ deleted' = TRUE
      /\ answers' = Append(answers, saved[e])
      /\ pc' = [pc EXCEPT ![e] = "returned"]
      /\ UNCHANGED <<result, saved, holder, pending, status, refs, aborts,
                     released>>
  BY DEF Finish
<1>2. holder = {e} /\ saved[e] = status /\ answers = <<>> /\ Outstanding = {}
  BY <1>1 DEF HolderInv, CountInv
<1>3. answers' = <<status>>
  BY <1>1, <1>2
<1>4. Outstanding' = {} /\ Aborting' = Aborting
  BY <1>1, <1>2 DEF Outstanding, Aborting, TypeOK
<1>5. TypeOK'
  BY <1>1, <1>3 DEF TypeOK
<1>6. CountInv'
  BY <1>1, <1>2, <1>4 DEF CountInv
<1>7. HolderInv'
  BY <1>1, <1>2, <1>3 DEF HolderInv, TypeOK
<1>8. StatusInv' /\ AbortInv'
  BY <1>1, <1>2, <1>4 DEF StatusInv, AbortInv, TypeOK
<1>9. RefInv'
  BY <1>1, <1>3, <1>4 DEF RefInv
<1> QED
  BY <1>5, <1>6, <1>7, <1>8, <1>9

\* The session's release of the rendezvous preserves it.
LEMMA ReleaseStep ==
    ASSUME IInv, Release
    PROVE  IInv'
<1> USE DEF IInv
<1>1. /\ answers # <<>> /\ ~released /\ released' = TRUE /\ refs' = refs - 1
      /\ UNCHANGED <<pc, result, saved, holder, pending, status, deleted,
                     aborts, answers>>
  BY DEF Release, locals, barrier
<1>2. Outstanding' = Outstanding /\ Aborting' = Aborting
  BY <1>1 DEF Outstanding, Aborting
<1>3. RefInv'
  BY <1>1, <1>2 DEF RefInv
<1>4. TypeOK'
  <2>1. refs' \in Nat
    BY <1>1 DEF RefInv, TypeOK
  <2> QED
    BY <1>1, <2>1 DEF TypeOK
<1>5. CountInv' /\ HolderInv' /\ StatusInv' /\ AbortInv'
  BY <1>1, <1>2 DEF CountInv, HolderInv, StatusInv, AbortInv
<1> QED
  BY <1>3, <1>4, <1>5

\* Steps that leave the barrier alone preserve it.
LEMMA StutterStep ==
    ASSUME IInv, UNCHANGED vars
    PROVE  IInv'
<1>1. /\ UNCHANGED <<pc, result, saved, holder, pending, status, deleted,
                     refs, aborts, answers, released>>
  BY DEF vars, locals, barrier
<1>2. Outstanding' = Outstanding /\ Aborting' = Aborting
  BY <1>1 DEF Outstanding, Aborting
<1> QED
  BY <1>1, <1>2 DEF IInv, TypeOK, CountInv, HolderInv, StatusInv, AbortInv,
                    RefInv

\* Every step of the barrier preserves the inductive invariant.
LEMMA NextInv == IInv /\ [Next]_vars => IInv'
<1> SUFFICES ASSUME IInv, [Next]_vars PROVE IInv'
  OBVIOUS
<1>1. ASSUME NEW e \in Executors, Succeeds(e) PROVE IInv'
  BY <1>1, EndsStep DEF Succeeds, Status
<1>2. ASSUME NEW e \in Executors, Fails(e) PROVE IInv'
  BY <1>2, EndsStep DEF Fails, Status
<1>3. ASSUME NEW e \in Executors, IsAborted(e) PROVE IInv'
  <2>1. aborts[1] \in Status
    BY <1>3 DEF IsAborted, IInv, TypeOK, AbortInv
  <2> QED
    BY <1>3, <2>1, EndsStep DEF IsAborted
<1>4. CASE Rest
  BY <1>4, StutterStep DEF Rest
<1> QED
  BY <1>1, <1>2, <1>3, <1>4, WhenDoneStep, StartAbortStep, UnrefStep,
     FinishStep, ReleaseStep, StutterStep DEF Next, Step

\* The inductive invariant holds in every state of the barrier.
LEMMA Invariance == Spec => []IInv
  BY InitInv, NextInv, PTL DEF Spec

-----------------------------------------------------------------------------

(***************************************************************************)
(* Type correctness: pending_ and the references to the rendezvous never   *)
(* go below zero.                                                          *)
(***************************************************************************)
THEOREM TypeCorrect == Spec => []TypeOK
  BY Invariance, PTL DEF IInv

(***************************************************************************)
(* WhenDone aborts the rendezvous at most once, only for the first error,  *)
(* and has aborted it when all threads are through and one has failed.     *)
(***************************************************************************)
THEOREM AbortsOnce == Spec => []AbortedOnce
<1>1. IInv => AbortedOnce
  <2> SUFFICES ASSUME IInv PROVE AbortedOnce
    OBVIOUS
  <2> USE DEF IInv
  <2>1. Len(aborts) <= 1
    BY DEF AbortInv
  <2>2. aborts # <<>> => aborts[1] = status /\ status # OK
    BY DEF AbortInv, StatusInv
  <2>3. ASSUME \A e \in Executors : pc[e] = "returned"
        PROVE  aborts # <<>> <=> \E e \in Executors : result[e] # OK
    <3>1. Outstanding = {}
      BY <2>3 DEF Outstanding
    <3>2. aborts # <<>> <=> status # OK
      BY <2>2, <2>3 DEF AbortInv
    <3> QED
      BY <3>1, <3>2 DEF StatusInv
  <2> QED
    BY <2>1, <2>2, <2>3 DEF AbortedOnce
<1> QED
  BY <1>1, Invariance, PTL

(***************************************************************************)
(* The step's callback is called at most once, after every executor, with  *)
(* the first error WhenDone saw, and with OK only if there was none.       *)
(***************************************************************************)
THEOREM FirstErrorReported == Spec => []ReportsFirstError
<1>1. IInv => ReportsFirstError
  <2> SUFFICES ASSUME IInv PROVE ReportsFirstError
    OBVIOUS
  <2> USE DEF IInv
  <2>1. ASSUME answers # <<>>
        PROVE  /\ Outstanding = {}
               /\ answers[1] = status
               /\ answers[1] = OK <=> \A e \in Executors : result[e] = OK
               /\ aborts # <<>> => aborts[1] = answers[1]
    BY <2>1 DEF CountInv, HolderInv, StatusInv, AbortInv
  <2> QED
    BY <2>1 DEF ReportsFirstError, HolderInv
<1> QED
  BY <1>1, Invariance, PTL

(***************************************************************************)
(* A deleted barrier is not entered again, and the rendezvous is alive as  *)
(* long as a thread is about to abort or to release it.                    *)
(***************************************************************************)
THEOREM NothingUsedAfterFree == Spec => []NoUseAfterFree
<1>1. IInv => NoUseAfterFree
  BY DEF IInv, CountInv, RefInv, NoUseAfterFree
<1> QED
  BY <1>1, Invariance, PTL
=============================================================================
