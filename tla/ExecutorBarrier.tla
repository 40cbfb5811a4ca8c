--------------------------- MODULE ExecutorBarrier ---------------------------
(***************************************************************************)
(* ExecutorBarrier (core/common_runtime/executor.h): the executors of one  *)
(* step, one per device, end in any order, each on a thread of its own     *)
(* that calls WhenDone.  The first error aborts the rendezvous the         *)
(* executors exchange tensors through; the last call deletes the barrier   *)
(* and calls the step's callback.                                          *)
(*                                                                         *)
(* mu_ covers the bookkeeping of WhenDone, which is one action; the abort, *)
(* the release of the rendezvous and the callback happen after it, in any  *)
(* order with the other threads.                                           *)
(***************************************************************************)
EXTENDS Integers, FiniteSets, Sequences

CONSTANTS Executors, \* the executors of the step
          Needs,     \* Needs[e]: the executors whose tensors e receives
          OK         \* the status without an error

ASSUME BarrierAssumption ==
    /\ IsFiniteSet(Executors)
    /\ Executors # {}
    /\ Needs \in [Executors -> SUBSET Executors]
    /\ OK \notin Executors

\* An error is named after the executor it arose in.
Status == Executors \cup {OK}

VARIABLES pc,       \* where the thread of each executor is
          result,   \* the status each executor ended with
          saved,    \* the local variable status of WhenDone
          holder,   \* the threads whose local variable done is set
          pending,  \* pending_
          status,   \* status_
          deleted,  \* the barrier has been deleted
          refs,     \* the references to the rendezvous
          aborts,   \* the statuses StartAbort was called with
          answers,  \* the statuses the step's callback was called with
          released  \* the session has given up its reference

locals  == <<pc, result, saved, holder>>
barrier == <<pending, status, deleted>>
vars    == <<locals, barrier, refs, aborts, answers, released>>

Init ==
    /\ pc = [e \in Executors |-> "running"]
    /\ result = [e \in Executors |-> OK]
    /\ saved = [e \in Executors |-> OK]
    /\ holder = {}
    /\ pending = Cardinality(Executors)
    /\ status = OK
    /\ deleted = FALSE
    /\ refs = 1
    /\ aborts = <<>>
    /\ answers = <<>>
    /\ released = FALSE

Ends(e, s) ==
    /\ pc[e] = "running"
    /\ pc' = [pc EXCEPT ![e] = "whendone"]
    /\ result' = [result EXCEPT ![e] = s]
    /\ UNCHANGED <<saved, holder, barrier, refs, aborts, answers, released>>

\* The executor of a device succeeds once the tensors it needs have come.
Succeeds(e) ==
    /\ \A d \in Needs[e] : pc[d] # "running" /\ result[d] = OK
    /\ Ends(e, OK)

\* A kernel fails.
Fails(e) == Ends(e, e)

\* A receive that waits is answered by the abort of the rendezvous.
IsAborted(e) ==
    /\ Needs[e] # {}
    /\ aborts # <<>>
    /\ Ends(e, aborts[1])

\* Where a thread goes on without the lock.
Last(e, holders) == IF e \in holders THEN "finish" ELSE "returned"

\* The part of WhenDone under mu_; error: this call is the first to fail.
Account(e, error) ==
    /\ pc[e] = "whendone"
    /\ status' = IF error THEN result[e] ELSE status
    /\ refs' = IF error THEN refs + 1 ELSE refs
    /\ pending' = pending - 1
    /\ holder' = IF pending = 1 THEN holder \cup {e} ELSE holder
    /\ saved' = [saved EXCEPT ![e] = IF error THEN result[e] ELSE status]
    /\ pc' = [pc EXCEPT ![e] = IF error THEN "abort" ELSE Last(e, holder')]
    /\ UNCHANGED <<result, deleted, aborts, answers, released>>

\* Mutant: every error counts as the first one.
WhenDoneAnyError(e) == Account(e, result[e] # OK)

\* Mutant: the rendezvous is not aborted.
WhenDoneSilent(e) == Account(e, FALSE)

WhenDone(e) == Account(e, status = OK /\ result[e] # OK)

StartAbort(e) ==
    /\ pc[e] = "abort"
    /\ aborts' = Append(aborts, saved[e])
    /\ pc' = [pc EXCEPT ![e] = "unref"]
    /\ UNCHANGED <<result, saved, holder, barrier, refs, answers, released>>

\* Mutant: the reference is given up before the abort.
UnrefEarly(e) ==
    /\ pc[e] \in {"abort", "unref"}
    /\ refs' = refs - 1
    /\ pc' = [pc EXCEPT ![e] = IF pc[e] = "abort" THEN "abort"
                                                  ELSE Last(e, holder)]
    /\ UNCHANGED <<result, saved, holder, barrier, aborts, answers, released>>

Unref(e) ==
    /\ pc[e] = "unref"
    /\ refs' = refs - 1
    /\ pc' = [pc EXCEPT ![e] = Last(e, holder)]
    /\ UNCHANGED <<result, saved, holder, barrier, aborts, answers, released>>

\* delete this; done(status).
Finish(e) ==
    /\ pc[e] = "finish"
    /\ deleted' = TRUE
    /\ answers' = Append(answers, saved[e])
    /\ pc' = [pc EXCEPT ![e] = "returned"]
    /\ UNCHANGED <<result, saved, holder, pending, status, refs, aborts,
                   released>>

\* The session that waited for the callback destroys its RunState.
Release ==
    /\ answers # <<>>
    /\ ~released
    /\ released' = TRUE
    /\ refs' = refs - 1
    /\ UNCHANGED <<locals, barrier, aborts, answers>>

\* The step is over.
Rest ==
    /\ released
    /\ \A e \in Executors : pc[e] = "returned"
    /\ UNCHANGED vars

Step(e) == \/ Succeeds(e)
           \/ IsAborted(e)
           \/ WhenDone(e)
           \/ StartAbort(e)
           \/ Unref(e)
           \/ Finish(e)

Next == \/ \E e \in Executors : Step(e) \/ Fails(e)
        \/ Release
        \/ Rest

Spec == Init /\ [][Next]_vars

\* An executor that can end does, and its thread runs on; none has to fail.
FairSpec == Spec /\ \A e \in Executors : WF_vars(Step(e))

-----------------------------------------------------------------------------
(* Properties *)

TypeOK ==
    /\ pc \in [Executors -> {"running", "whendone", "abort", "unref",
                             "finish", "returned"}]
    /\ result \in [Executors -> Status]
    /\ saved \in [Executors -> Status]
    /\ holder \in SUBSET Executors
    /\ pending \in Nat
    /\ status \in Status
    /\ deleted \in BOOLEAN
    /\ refs \in Nat
    /\ aborts \in Seq(Status)
    /\ answers \in Seq(Status)
    /\ released \in BOOLEAN

\* The executors that have not been through WhenDone.
Outstanding == {e \in Executors : pc[e] \in {"running", "whendone"}}
Aborting    == {e \in Executors : pc[e] \in {"abort", "unref"}}

(***************************************************************************)
(* "If any of the executors experiences an error, the rendezvous object    *)
(* will be aborted exactly once": never twice, only with the first error,  *)
(* and not without one; once the threads are through, it has been.         *)
(***************************************************************************)
AbortedOnce ==
    /\ Len(aborts) <= 1
    /\ aborts # <<>> => aborts[1] = status /\ status # OK
    /\ (\A e \in Executors : pc[e] = "returned") =>
          (aborts # <<>> <=> \E e \in Executors : result[e] # OK)

(***************************************************************************)
(* The callback is called once, after every executor has ended, with OK if *)
(* all of them have succeeded and else with the error that WhenDone saw    *)
(* first, which is also the one the rendezvous is aborted with.            *)
(***************************************************************************)
ReportsFirstError ==
    /\ Len(answers) <= 1
    /\ answers # <<>> =>
          /\ Outstanding = {}
          /\ answers[1] = status
          /\ answers[1] = OK <=> \A e \in Executors : result[e] = OK
          /\ aborts # <<>> => aborts[1] = answers[1]

(***************************************************************************)
(* No thread enters the barrier after it has been deleted, and the         *)
(* rendezvous outlives every thread that aborts it: the step may be over,  *)
(* and its session gone, before the thread of the first error gets there.  *)
(***************************************************************************)
NoUseAfterFree ==
    /\ deleted => Outstanding = {}
    /\ Aborting # {} => refs > 0

(***************************************************************************)
(* The step's callback is called, although executors wait for the tensors  *)
(* of others that may fail.                                                *)
(***************************************************************************)
StepEnds == <>(answers # <<>>)
=============================================================================
