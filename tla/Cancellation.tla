---------------------------- MODULE Cancellation ----------------------------
(***************************************************************************)
(* The critical sections of tensorflow::CancellationManager                *)
(* (core/framework/cancellation.{h,cc}) as operators on the manager's      *)
(* state.  Each operator is what one mutex_lock section does; the threads  *)
(* that execute the sections, and what happens between them, belong to the *)
(* modules that use this one: CancellationManager, which studies the       *)
(* manager alone, and FIFOQueue, whose attempts register with a manager.   *)
(*                                                                         *)
(* A callback always closes over its own token ([this, token] { ... }), so *)
(* callbacks_ is the set of the tokens it has an entry for.                *)
(***************************************************************************)
EXTENDS Integers

\* A value that get_cancellation_token never returns.
kInvalidToken == -1

ManagerType == [is_cancelling           : BOOLEAN,
                is_cancelled            : BOOLEAN,
                notified                : BOOLEAN,
                next_cancellation_token : Nat,
                callbacks               : SUBSET Nat]

NewManager == [is_cancelling           |-> FALSE,
               is_cancelled            |-> FALSE,
               notified                |-> FALSE,
               next_cancellation_token |-> 0,
               callbacks               |-> {}]

\* What IsCancelled() returns.
IsCancelled(m) == m.is_cancelled

-----------------------------------------------------------------------------
\* StartCancel goes on after its first section only for the first caller ...
MayStartCancel(m) == ~m.is_cancelled /\ ~m.is_cancelling

\* Mutants: the callbacks are copied, not swapped out; the notification is
\* forgotten.
BeginCancelCopies(m) == [m EXCEPT !.is_cancelling = TRUE]
NotifyForgotten(m) == m

\* ... which takes every callback away, to run them without the lock, ...
BeginCancel(m) == [m EXCEPT !.is_cancelling = TRUE, !.callbacks = {}]

\* ... closes the cancellation when the last one has returned, ...
EndCancel(m) == [m EXCEPT !.is_cancelling = FALSE, !.is_cancelled = TRUE]

\* ... and then wakes whoever waits in DeregisterCallback.
NotifyCancelled(m) == [m EXCEPT !.notified = TRUE]

-----------------------------------------------------------------------------
\* Mutants: DeregisterCallback does not wait for a cancellation in progress;
\* it reports an erasure during one.
DeregisterNeverWaits(m) == FALSE
DeregisterErasesLate(m) == ~m.is_cancelled

\* get_cancellation_token returns the counter and increments it.
TakeToken(m) ==
    [m EXCEPT !.next_cancellation_token = m.next_cancellation_token + 1]

\* RegisterCallback's result, and its effect when the result is true.
ShouldRegister(m) == ~m.is_cancelled /\ ~m.is_cancelling

RegisterCallback(m, token) ==
    IF ShouldRegister(m) THEN [m EXCEPT !.callbacks = @ \cup {token}] ELSE m

\* The three branches of DeregisterCallback: wait for the notification,
\* return false at once, or erase the entry and return true.
DeregisterMustWait(m) == m.is_cancelling

DeregisterErases(m) == ~m.is_cancelled /\ ~m.is_cancelling

DeregisterCallback(m, token) ==
    IF DeregisterErases(m) THEN [m EXCEPT !.callbacks = @ \ {token}] ELSE m
=============================================================================
