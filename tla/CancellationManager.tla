------------------------- MODULE CancellationManager -------------------------
(***************************************************************************)
(* A CancellationManager shared by threads that cancel it and by           *)
(* operations that follow the usage pattern of cancellation.h: take a      *)
(* token, register a callback, run, call DeregisterCallback, and free the  *)
(* objects the callback refers to once that call has returned.             *)
(*                                                                         *)
(* StartCancel runs the callbacks WITHOUT its mutex, so a callback begins  *)
(* and ends in steps of their own, and everything else may happen between. *)
(***************************************************************************)
EXTENDS Cancellation

CONSTANTS Cancellers,   \* threads, each calling StartCancel once
          Ops           \* cancellable operations, each using one token

VARIABLES cm,           \* the manager
          canceller,    \* the local state of each StartCancel
          op,           \* the local state of each operation
          invoked       \* history: the tokens whose callback has returned

vars == <<cm, canceller, op, invoked>>

(***************************************************************************)
(* canceller[t].todo is callbacks_to_run without the callbacks already     *)
(* started, canceller[t].current the token of the one that is executing.   *)
(***************************************************************************)
CancellerType == [pc      : {"idle", "loop", "in_callback", "notify", "done"},
                  todo    : SUBSET Nat,
                  current : Nat \cup {kInvalidToken}]

OpType == [pc     : {"start", "has_token", "running", "waiting", "refused",
                     "freed"},
           token  : Nat \cup {kInvalidToken},
           erased : BOOLEAN]       \* what DeregisterCallback returned

TypeOK == /\ cm \in ManagerType
          /\ canceller \in [Cancellers -> CancellerType]
          /\ op \in [Ops -> OpType]
          /\ invoked \subseteq Nat

Init ==
    /\ cm = NewManager
    /\ canceller = [t \in Cancellers |-> [pc      |-> "idle",
                                          todo    |-> {},
                                          current |-> kInvalidToken]]
    /\ op = [o \in Ops |-> [pc     |-> "start",
                            token  |-> kInvalidToken,
                            erased |-> FALSE]]
    /\ invoked = {}

-----------------------------------------------------------------------------
(* StartCancel *)

\* Another thread is cancelling, or has cancelled: return at once.
StartCancelAgain(t) ==
    /\ canceller[t].pc = "idle"
    /\ ~MayStartCancel(cm)
    /\ canceller' = [canceller EXCEPT ![t].pc = "done"]
    /\ UNCHANGED <<cm, op, invoked>>

StartCancel(t) ==
    /\ canceller[t].pc = "idle"
    /\ MayStartCancel(cm)
    /\ cm' = BeginCancel(cm)
    /\ canceller' = [canceller EXCEPT ![t].pc = "loop",
                                      ![t].todo = cm.callbacks]
    /\ UNCHANGED <<op, invoked>>

\* The iteration order of an unordered_map is not specified.
CallbackBegins(t) ==
    /\ canceller[t].pc = "loop"
    /\ \E token \in canceller[t].todo :
          canceller' = [canceller EXCEPT ![t].pc = "in_callback",
                                         ![t].todo = @ \ {token},
                                         ![t].current = token]
    /\ UNCHANGED <<cm, op, invoked>>

CallbackReturns(t) ==
    /\ canceller[t].pc = "in_callback"
    /\ invoked' = invoked \cup {canceller[t].current}
    /\ canceller' = [canceller EXCEPT ![t].pc = "loop",
                                      ![t].current = kInvalidToken]
    /\ UNCHANGED <<cm, op>>

CallbacksDone(t) ==
    /\ canceller[t].pc = "loop"
    /\ canceller[t].todo = {}
    /\ cm' = EndCancel(cm)
    /\ canceller' = [canceller EXCEPT ![t].pc = "notify"]
    /\ UNCHANGED <<op, invoked>>

Notify(t) ==
    /\ canceller[t].pc = "notify"
    /\ cm' = NotifyCancelled(cm)
    /\ canceller' = [canceller EXCEPT ![t].pc = "done"]
    /\ UNCHANGED <<op, invoked>>

-----------------------------------------------------------------------------
(* The operations *)

GetToken(o) ==
    /\ op[o].pc = "start"
    /\ op' = [op EXCEPT ![o].pc = "has_token",
                        ![o].token = cm.next_cancellation_token]
    /\ cm' = TakeToken(cm)
    /\ UNCHANGED <<canceller, invoked>>

\* A refused operation does its own clean-up and never deregisters.
Register(o) ==
    /\ op[o].pc = "has_token"
    /\ op[o].token < cm.next_cancellation_token             \* CHECK_LT
    /\ cm' = RegisterCallback(cm, op[o].token)
    /\ op' = [op EXCEPT ![o].pc = IF ShouldRegister(cm) THEN "running"
                                                        ELSE "refused"]
    /\ UNCHANGED <<canceller, invoked>>

\* The operation is over, by itself or because its callback stopped it.
Deregister(o) ==
    /\ op[o].pc = "running"
    /\ cm' = DeregisterCallback(cm, op[o].token)
    /\ op' = [op EXCEPT
                ![o].pc = IF DeregisterMustWait(cm) THEN "waiting" ELSE "freed",
                ![o].erased = DeregisterErases(cm)]
    /\ UNCHANGED <<canceller, invoked>>

WaitForNotification(o) ==
    /\ op[o].pc = "waiting"
    /\ cm.notified
    /\ op' = [op EXCEPT ![o].pc = "freed"]
    /\ UNCHANGED <<cm, canceller, invoked>>

-----------------------------------------------------------------------------
CancelStep(t) == \/ StartCancelAgain(t)
                 \/ StartCancel(t)
                 \/ CallbackBegins(t)
                 \/ CallbackReturns(t)
                 \/ CallbacksDone(t)
                 \/ Notify(t)

OpStep(o) == \/ GetToken(o)
             \/ Register(o)
             \/ Deregister(o)
             \/ WaitForNotification(o)

Next == \/ \E t \in Cancellers : CancelStep(t)
        \/ \E o \in Ops : OpStep(o)

Spec == Init /\ [][Next]_vars

(***************************************************************************)
(* A thread that has entered StartCancel is scheduled until it returns (its *)
(* callbacks terminate: they may not call the manager), and a woken waiter *)
(* runs.  Nothing says that an operation or a canceller ever starts.       *)
(***************************************************************************)
CancelProgress(t) == \/ CallbackBegins(t)
                     \/ CallbackReturns(t)
                     \/ CallbacksDone(t)
                     \/ Notify(t)

Fairness == /\ \A t \in Cancellers : WF_vars(CancelProgress(t))
            /\ \A o \in Ops : WF_vars(WaitForNotification(o))

FairSpec == Spec /\ Fairness

-----------------------------------------------------------------------------
(* Properties *)

\* StartCancel still has to run the callback of token; it is running it.
Pending(token)   == \E t \in Cancellers : token \in canceller[t].todo
Executing(token) == \E t \in Cancellers : /\ canceller[t].pc = "in_callback"
                                          /\ canceller[t].current = token

(***************************************************************************)
(* Once DeregisterCallback has returned, the callback neither executes nor *)
(* ever will: the caller may free what the callback refers to.             *)
(***************************************************************************)
NoCallbackOnFreedOp ==
    \A o \in Ops : op[o].pc = "freed" =>
        /\ op[o].token \notin cm.callbacks
        /\ ~Pending(op[o].token)
        /\ ~Executing(op[o].token)

(***************************************************************************)
(* "Returns true iff the callback was deregistered and will not be         *)
(* invoked; otherwise returns false after the callback has been invoked,   *)
(* blocking if necessary" (DeregisterCallback in cancellation.h).          *)
(***************************************************************************)
DeregisterContract ==
    \A o \in Ops : op[o].pc = "freed" =>
        (op[o].erased <=> op[o].token \notin invoked)

(***************************************************************************)
(* Of several concurrent StartCancel calls one runs the callbacks, and it  *)
(* runs each once: a callback that executes or has returned is in nobody's *)
(* list any more.                                                          *)
(***************************************************************************)
CallbackRunsOnce ==
    \A o \in Ops :
        LET token == op[o].token IN
        /\ Executing(token) \/ token \in invoked =>
              ~Pending(token) /\ token \notin cm.callbacks
        /\ Pending(token) => token \notin cm.callbacks
        /\ ~(Executing(token) /\ token \in invoked)

(***************************************************************************)
(* IsCancelled never reads true while a callback is outstanding: whoever   *)
(* sees it true sees every registered operation already told to stop.      *)
(***************************************************************************)
CancelledAfterCallbacks ==
    IsCancelled(cm) =>
        \A t \in Cancellers : /\ canceller[t].todo = {}
                              /\ canceller[t].pc # "in_callback"

(***************************************************************************)
(* A cancellation is carried through: an operation that was registered is  *)
(* reached, its callback returns or the operation deregistered before the  *)
(* cancellation began, and one that called DeregisterCallback meanwhile    *)
(* gets out of it, for cancelled_notification_ is notified in the end.     *)
(***************************************************************************)
CancelCarriedThrough ==
    \A o \in Ops :
        /\ op[o].pc = "running" /\ cm.is_cancelling ~> op[o].token \in invoked
        /\ op[o].pc = "waiting" ~> op[o].pc = "freed"

=============================================================================
