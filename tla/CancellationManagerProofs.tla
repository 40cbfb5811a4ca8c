---------------------- MODULE CancellationManagerProofs ----------------------
(***************************************************************************)
(* Safety of CancellationManager for any number of cancelling threads and  *)
(* of operations.                                                          *)
(*                                                                         *)
(* The inductive invariant adds to the properties what they rest on: one   *)
(* StartCancel at most is between its two critical sections, and a token   *)
(* is registered, pending, executing or invoked only on behalf of the one  *)
(* operation that owns it.                                                 *)
(***************************************************************************)
EXTENDS CancellationManager, TLAPS

Active(t) == canceller[t].pc \in {"loop", "in_callback"}

\* The flags of the manager and the program counters of StartCancel agree.
FlagsInv ==
    /\ \A t \in Cancellers : Active(t) => cm.is_cancelling
    /\ \A t \in Cancellers : canceller[t].pc = "notify" => cm.is_cancelled
    /\ \A t, u \in Cancellers : Active(t) /\ Active(u) => t = u
    /\ \A t \in Cancellers : ~Active(t) => canceller[t].todo = {}
    /\ \A t \in Cancellers :
          canceller[t].pc = "in_callback" => canceller[t].current \in Nat
    /\ ~(cm.is_cancelling /\ cm.is_cancelled)
    /\ cm.notified => cm.is_cancelled
    /\ cm.is_cancelling \/ cm.is_cancelled => cm.callbacks = {}
    /\ cm.is_cancelling \/ cm.is_cancelled \/ invoked = {}

\* Tokens are handed out once, below next_cancellation_token.
TokenInv ==
    /\ \A o \in Ops : op[o].token < cm.next_cancellation_token
    /\ \A o \in Ops : op[o].pc # "start" => op[o].token \in Nat
    /\ \A o \in Ops : op[o].pc = "start" => op[o].token = kInvalidToken
    /\ \A o, p \in Ops : op[o].token = op[p].token /\ op[o].token \in Nat
                            => o = p
    /\ \A k \in cm.callbacks \cup invoked : k < cm.next_cancellation_token
    /\ \A t \in Cancellers : \A k \in canceller[t].todo :
          k < cm.next_cancellation_token
    /\ \A t \in Cancellers :
          canceller[t].current < cm.next_cancellation_token

\* Where the token of an operation can be, by the operation's progress.
Unknown(k) == /\ k \notin cm.callbacks
              /\ k \notin invoked
              /\ ~Pending(k)
              /\ ~Executing(k)

StageInv ==
    \A o \in Ops :
        LET k == op[o].token IN
        /\ op[o].pc \in {"start", "has_token", "refused"} => Unknown(k)
        /\ op[o].pc = "running" =>
              k \in cm.callbacks \/ Pending(k) \/ Executing(k) \/ k \in invoked
        /\ op[o].pc = "waiting" =>
              /\ Pending(k) \/ Executing(k) \/ k \in invoked
              /\ ~op[o].erased
              /\ cm.is_cancelling \/ cm.is_cancelled

IInv == /\ TypeOK
        /\ FlagsInv
        /\ TokenInv
        /\ StageInv
        /\ NoCallbackOnFreedOp
        /\ DeregisterContract
        /\ CallbackRunsOnce

-----------------------------------------------------------------------------
USE DEF kInvalidToken

\* The initial states satisfy the inductive invariant.
LEMMA InitIInv == Init => IInv
  <1> SUFFICES ASSUME Init PROVE IInv
    OBVIOUS
  <1>1. TypeOK
    <2>1. cm \in ManagerType
      BY DEF Init, NewManager, ManagerType
    <2>2. canceller \in [Cancellers -> CancellerType]
      BY DEF Init, CancellerType
    <2>3. op \in [Ops -> OpType]
      BY DEF Init, OpType
    <2>4. QED BY <2>1, <2>2, <2>3 DEF Init, TypeOK
  <1>2. FlagsInv
    BY DEF Init, NewManager, FlagsInv, Active
  <1>3. TokenInv
    BY DEF Init, NewManager, TokenInv
  <1>4. StageInv
    BY DEF Init, NewManager, StageInv, Unknown, Pending, Executing
  <1>5. NoCallbackOnFreedOp /\ DeregisterContract /\ CallbackRunsOnce
    BY DEF Init, NewManager, NoCallbackOnFreedOp, DeregisterContract,
           CallbackRunsOnce, Pending, Executing
  <1>6. QED BY <1>1, <1>2, <1>3, <1>4, <1>5 DEF IInv

\* StartCancelAgain preserves the inductive invariant.
LEMMA StartCancelAgainIInv ==
    ASSUME IInv, NEW t \in Cancellers, StartCancelAgain(t)
    PROVE  IInv'
  <1>1. TypeOK'
    BY DEF IInv, StartCancelAgain, MayStartCancel, TypeOK, ManagerType,
           CancellerType, OpType
  <1>2. FlagsInv'
    BY DEF IInv, StartCancelAgain, MayStartCancel, TypeOK, ManagerType,
           CancellerType, OpType, FlagsInv, Active
  <1>3. TokenInv'
    BY DEF IInv, StartCancelAgain, MayStartCancel, TypeOK, ManagerType,
           CancellerType, OpType, FlagsInv, TokenInv, Active
  <1>4. StageInv'
    BY DEF IInv, StartCancelAgain, MayStartCancel, TypeOK, ManagerType,
           CancellerType, OpType, FlagsInv, TokenInv, StageInv, Active,
           Unknown, NoCallbackOnFreedOp, DeregisterContract, CallbackRunsOnce,
           Pending, Executing
  <1>5. NoCallbackOnFreedOp'
    BY DEF IInv, StartCancelAgain, MayStartCancel, TypeOK, ManagerType,
           CancellerType, OpType, FlagsInv, TokenInv, StageInv, Active,
           Unknown, NoCallbackOnFreedOp, DeregisterContract, CallbackRunsOnce,
           Pending, Executing
  <1>6. DeregisterContract'
    BY DEF IInv, StartCancelAgain, MayStartCancel, TypeOK, ManagerType,
           CancellerType, OpType, FlagsInv, TokenInv, StageInv, Active,
           Unknown, NoCallbackOnFreedOp, DeregisterContract, CallbackRunsOnce,
           Pending, Executing
  <1>7. CallbackRunsOnce'
    BY DEF IInv, StartCancelAgain, MayStartCancel, TypeOK, ManagerType,
           CancellerType, OpType, FlagsInv, TokenInv, StageInv, Active,
           Unknown, NoCallbackOnFreedOp, DeregisterContract, CallbackRunsOnce,
           Pending, Executing
  <1>8. QED BY <1>1, <1>2, <1>3, <1>4, <1>5, <1>6, <1>7 DEF IInv

\* StartCancel preserves the inductive invariant.
LEMMA StartCancelIInv ==
    ASSUME IInv, NEW t \in Cancellers, StartCancel(t)
    PROVE  IInv'
  <1>1. TypeOK'
    <2>1. cm' \in ManagerType
      BY DEF IInv, StartCancel, MayStartCancel, BeginCancel, TypeOK,
             ManagerType
    <2>2. canceller' \in [Cancellers -> CancellerType]
      BY DEF IInv, StartCancel, TypeOK, ManagerType, CancellerType
    <2>3. op' \in [Ops -> OpType]
      BY DEF IInv, StartCancel, TypeOK, ManagerType, OpType
    <2>4. invoked' \subseteq Nat
      BY DEF IInv, StartCancel, TypeOK, CancellerType
    <2>5. QED BY <2>1, <2>2, <2>3, <2>4 DEF TypeOK
  <1>2. FlagsInv'
    BY DEF IInv, StartCancel, MayStartCancel, BeginCancel, TypeOK,
           ManagerType, CancellerType, OpType, FlagsInv, Active
  <1>3. TokenInv'
    BY DEF IInv, StartCancel, MayStartCancel, BeginCancel, TypeOK,
           ManagerType, CancellerType, OpType, FlagsInv, TokenInv, Active
  <1>4. StageInv'
    BY DEF IInv, StartCancel, MayStartCancel, BeginCancel, TypeOK,
           ManagerType, CancellerType, OpType, FlagsInv, TokenInv, StageInv,
           Active, Unknown, NoCallbackOnFreedOp, DeregisterContract,
           CallbackRunsOnce, Pending, Executing
  <1>5. NoCallbackOnFreedOp'
    BY DEF IInv, StartCancel, MayStartCancel, BeginCancel, TypeOK,
           ManagerType, CancellerType, OpType, FlagsInv, TokenInv, StageInv,
           Active, Unknown, NoCallbackOnFreedOp, DeregisterContract,
           CallbackRunsOnce, Pending, Executing
  <1>6. DeregisterContract'
    BY DEF IInv, StartCancel, MayStartCancel, BeginCancel, TypeOK,
           ManagerType, CancellerType, OpType, FlagsInv, TokenInv, StageInv,
           Active, Unknown, NoCallbackOnFreedOp, DeregisterContract,
           CallbackRunsOnce, Pending, Executing
  <1>7. CallbackRunsOnce'
    BY DEF IInv, StartCancel, MayStartCancel, BeginCancel, TypeOK,
           ManagerType, CancellerType, OpType, FlagsInv, TokenInv, StageInv,
           Active, Unknown, NoCallbackOnFreedOp, DeregisterContract,
           CallbackRunsOnce, Pending, Executing
  <1>8. QED BY <1>1, <1>2, <1>3, <1>4, <1>5, <1>6, <1>7 DEF IInv

\* CallbackBegins preserves the inductive invariant.
LEMMA CallbackBeginsIInv ==
    ASSUME IInv, NEW t \in Cancellers, CallbackBegins(t)
    PROVE  IInv'
  <1>1. TypeOK'
    BY DEF IInv, CallbackBegins, TypeOK, ManagerType, CancellerType, OpType
  <1>2. FlagsInv'
    BY DEF IInv, CallbackBegins, TypeOK, ManagerType, CancellerType, OpType,
           FlagsInv, Active
  <1>3. TokenInv'
    BY DEF IInv, CallbackBegins, TypeOK, ManagerType, CancellerType, OpType,
           FlagsInv, TokenInv, Active
  <1>4. StageInv'
    BY DEF IInv, CallbackBegins, TypeOK, ManagerType, CancellerType, OpType,
           FlagsInv, TokenInv, StageInv, Active, Unknown, NoCallbackOnFreedOp,
           DeregisterContract, CallbackRunsOnce, Pending, Executing
  <1>5. NoCallbackOnFreedOp'
    BY DEF IInv, CallbackBegins, TypeOK, ManagerType, CancellerType, OpType,
           FlagsInv, TokenInv, StageInv, Active, Unknown, NoCallbackOnFreedOp,
           DeregisterContract, CallbackRunsOnce, Pending, Executing
  <1>6. DeregisterContract'
    BY DEF IInv, CallbackBegins, TypeOK, ManagerType, CancellerType, OpType,
           FlagsInv, TokenInv, StageInv, Active, Unknown, NoCallbackOnFreedOp,
           DeregisterContract, CallbackRunsOnce, Pending, Executing
  <1>7. CallbackRunsOnce'
    BY DEF IInv, CallbackBegins, TypeOK, ManagerType, CancellerType, OpType,
           FlagsInv, TokenInv, StageInv, Active, Unknown, NoCallbackOnFreedOp,
           DeregisterContract, CallbackRunsOnce, Pending, Executing
  <1>8. QED BY <1>1, <1>2, <1>3, <1>4, <1>5, <1>6, <1>7 DEF IInv

\* CallbackReturns preserves the inductive invariant.
LEMMA CallbackReturnsIInv ==
    ASSUME IInv, NEW t \in Cancellers, CallbackReturns(t)
    PROVE  IInv'
  <1>1. TypeOK'
    <2>1. cm' \in ManagerType
      BY DEF IInv, CallbackReturns, TypeOK, ManagerType, OpType
    <2>2. canceller' \in [Cancellers -> CancellerType]
      BY DEF IInv, CallbackReturns, FlagsInv, TypeOK, ManagerType, CancellerType
    <2>3. op' \in [Ops -> OpType]
      BY DEF IInv, CallbackReturns, TypeOK, ManagerType, OpType
    <2>4. invoked' \subseteq Nat
      BY DEF IInv, CallbackReturns, FlagsInv, TypeOK, CancellerType
    <2>5. QED BY <2>1, <2>2, <2>3, <2>4 DEF TypeOK
  <1>2. FlagsInv'
    BY DEF IInv, CallbackReturns, TypeOK, ManagerType, CancellerType, OpType,
           FlagsInv, Active
  <1>3. TokenInv'
    BY DEF IInv, CallbackReturns, TypeOK, ManagerType, CancellerType, OpType,
           FlagsInv, TokenInv, Active
  <1>4. StageInv'
    BY DEF IInv, CallbackReturns, TypeOK, ManagerType, CancellerType, OpType,
           FlagsInv, TokenInv, StageInv, Active, Unknown, NoCallbackOnFreedOp,
           DeregisterContract, CallbackRunsOnce, Pending, Executing
  <1>5. NoCallbackOnFreedOp'
    BY DEF IInv, CallbackReturns, TypeOK, ManagerType, CancellerType, OpType,
           FlagsInv, TokenInv, StageInv, Active, Unknown, NoCallbackOnFreedOp,
           DeregisterContract, CallbackRunsOnce, Pending, Executing
  <1>6. DeregisterContract'
    BY DEF IInv, CallbackReturns, TypeOK, ManagerType, CancellerType, OpType,
           FlagsInv, TokenInv, StageInv, Active, Unknown, NoCallbackOnFreedOp,
           DeregisterContract, CallbackRunsOnce, Pending, Executing
  <1>7. CallbackRunsOnce'
    BY DEF IInv, CallbackReturns, TypeOK, ManagerType, CancellerType, OpType,
           FlagsInv, TokenInv, StageInv, Active, Unknown, NoCallbackOnFreedOp,
           DeregisterContract, CallbackRunsOnce, Pending, Executing
  <1>8. QED BY <1>1, <1>2, <1>3, <1>4, <1>5, <1>6, <1>7 DEF IInv

\* CallbacksDone preserves the inductive invariant.
LEMMA CallbacksDoneIInv ==
    ASSUME IInv, NEW t \in Cancellers, CallbacksDone(t)
    PROVE  IInv'
  <1>1. TypeOK'
    BY DEF IInv, CallbacksDone, EndCancel, TypeOK, ManagerType, CancellerType,
           OpType
  <1>2. FlagsInv'
    BY DEF IInv, CallbacksDone, EndCancel, TypeOK, ManagerType, CancellerType,
           OpType, FlagsInv, Active
  <1>3. TokenInv'
    BY DEF IInv, CallbacksDone, EndCancel, TypeOK, ManagerType, CancellerType,
           OpType, FlagsInv, TokenInv, Active
  <1>4. StageInv'
    <2>1. /\ op' = op /\ invoked' = invoked
          /\ cm'.callbacks = cm.callbacks /\ cm'.is_cancelled
      BY DEF IInv, CallbacksDone, EndCancel, TypeOK, ManagerType
    <2>2. ASSUME NEW k PROVE Pending(k)' <=> Pending(k)
      BY DEF IInv, CallbacksDone, TypeOK, CancellerType, Pending
    <2>3. ASSUME NEW k PROVE Executing(k)' <=> Executing(k)
      BY DEF IInv, CallbacksDone, TypeOK, CancellerType, Executing
    <2>4. QED BY <2>1, <2>2, <2>3 DEF IInv, StageInv, Unknown
  <1>5. NoCallbackOnFreedOp'
    BY DEF IInv, CallbacksDone, EndCancel, TypeOK, ManagerType, CancellerType,
           OpType, FlagsInv, TokenInv, StageInv, Active, Unknown,
           NoCallbackOnFreedOp, DeregisterContract, CallbackRunsOnce, Pending,
           Executing
  <1>6. DeregisterContract'
    BY DEF IInv, CallbacksDone, EndCancel, TypeOK, ManagerType, CancellerType,
           OpType, FlagsInv, TokenInv, StageInv, Active, Unknown,
           NoCallbackOnFreedOp, DeregisterContract, CallbackRunsOnce, Pending,
           Executing
  <1>7. CallbackRunsOnce'
    BY DEF IInv, CallbacksDone, EndCancel, TypeOK, ManagerType, CancellerType,
           OpType, FlagsInv, TokenInv, StageInv, Active, Unknown,
           NoCallbackOnFreedOp, DeregisterContract, CallbackRunsOnce, Pending,
           Executing
  <1>8. QED BY <1>1, <1>2, <1>3, <1>4, <1>5, <1>6, <1>7 DEF IInv

\* Notify preserves the inductive invariant.
LEMMA NotifyIInv ==
    ASSUME IInv, NEW t \in Cancellers, Notify(t)
    PROVE  IInv'
  <1>1. TypeOK'
    BY DEF IInv, Notify, NotifyCancelled, TypeOK, ManagerType, CancellerType,
           OpType
  <1>2. FlagsInv'
    BY DEF IInv, Notify, NotifyCancelled, TypeOK, ManagerType, CancellerType,
           OpType, FlagsInv, Active
  <1>3. TokenInv'
    BY DEF IInv, Notify, NotifyCancelled, TypeOK, ManagerType, CancellerType,
           OpType, FlagsInv, TokenInv, Active
  <1>4. StageInv'
    BY DEF IInv, Notify, NotifyCancelled, TypeOK, ManagerType, CancellerType,
           OpType, FlagsInv, TokenInv, StageInv, Active, Unknown,
           NoCallbackOnFreedOp, DeregisterContract, CallbackRunsOnce, Pending,
           Executing
  <1>5. NoCallbackOnFreedOp'
    BY DEF IInv, Notify, NotifyCancelled, TypeOK, ManagerType, CancellerType,
           OpType, FlagsInv, TokenInv, StageInv, Active, Unknown,
           NoCallbackOnFreedOp, DeregisterContract, CallbackRunsOnce, Pending,
           Executing
  <1>6. DeregisterContract'
    BY DEF IInv, Notify, NotifyCancelled, TypeOK, ManagerType, CancellerType,
           OpType, FlagsInv, TokenInv, StageInv, Active, Unknown,
           NoCallbackOnFreedOp, DeregisterContract, CallbackRunsOnce, Pending,
           Executing
  <1>7. CallbackRunsOnce'
    BY DEF IInv, Notify, NotifyCancelled, TypeOK, ManagerType, CancellerType,
           OpType, FlagsInv, TokenInv, StageInv, Active, Unknown,
           NoCallbackOnFreedOp, DeregisterContract, CallbackRunsOnce, Pending,
           Executing
  <1>8. QED BY <1>1, <1>2, <1>3, <1>4, <1>5, <1>6, <1>7 DEF IInv

\* GetToken preserves the inductive invariant.
LEMMA GetTokenIInv ==
    ASSUME IInv, NEW o \in Ops, GetToken(o)
    PROVE  IInv'
  <1>1. TypeOK'
    <2>1. cm' \in ManagerType
      BY DEF IInv, GetToken, TakeToken, TypeOK, ManagerType, OpType
    <2>2. canceller' \in [Cancellers -> CancellerType]
      BY DEF IInv, GetToken, TypeOK, ManagerType, CancellerType
    <2>3. op' \in [Ops -> OpType]
      BY DEF IInv, GetToken, TypeOK, ManagerType, OpType
    <2>4. invoked' \subseteq Nat
      BY DEF IInv, GetToken, TypeOK, CancellerType
    <2>5. QED BY <2>1, <2>2, <2>3, <2>4 DEF TypeOK
  <1>2. FlagsInv'
    BY DEF IInv, GetToken, TakeToken, TypeOK, ManagerType, CancellerType,
           OpType, FlagsInv, Active
  <1>3. TokenInv'
    BY DEF IInv, GetToken, TakeToken, TypeOK, ManagerType, CancellerType,
           OpType, FlagsInv, TokenInv, Active
  <1>4. StageInv'
    BY DEF IInv, GetToken, TakeToken, TypeOK, ManagerType, CancellerType,
           OpType, FlagsInv, TokenInv, StageInv, Active, Unknown,
           NoCallbackOnFreedOp, DeregisterContract, CallbackRunsOnce, Pending,
           Executing
  <1>5. NoCallbackOnFreedOp'
    BY DEF IInv, GetToken, TakeToken, TypeOK, ManagerType, CancellerType,
           OpType, FlagsInv, TokenInv, StageInv, Active, Unknown,
           NoCallbackOnFreedOp, DeregisterContract, CallbackRunsOnce, Pending,
           Executing
  <1>6. DeregisterContract'
    BY DEF IInv, GetToken, TakeToken, TypeOK, ManagerType, CancellerType,
           OpType, FlagsInv, TokenInv, StageInv, Active, Unknown,
           NoCallbackOnFreedOp, DeregisterContract, CallbackRunsOnce, Pending,
           Executing
  <1>7. CallbackRunsOnce'
    BY DEF IInv, GetToken, TakeToken, TypeOK, ManagerType, CancellerType,
           OpType, FlagsInv, TokenInv, StageInv, Active, Unknown,
           NoCallbackOnFreedOp, DeregisterContract, CallbackRunsOnce, Pending,
           Executing
  <1>8. QED BY <1>1, <1>2, <1>3, <1>4, <1>5, <1>6, <1>7 DEF IInv

\* Register preserves the inductive invariant.
LEMMA RegisterIInv ==
    ASSUME IInv, NEW o \in Ops, Register(o)
    PROVE  IInv'
  <1>1. TypeOK'
    <2>1. cm' \in ManagerType
      BY DEF IInv, Register, RegisterCallback, ShouldRegister, TypeOK,
             TokenInv, ManagerType, OpType
    <2>2. canceller' \in [Cancellers -> CancellerType]
      BY DEF IInv, Register, TypeOK, ManagerType, CancellerType
    <2>3. op' \in [Ops -> OpType]
      BY DEF IInv, Register, TypeOK, ManagerType, OpType
    <2>4. invoked' \subseteq Nat
      BY DEF IInv, Register, TypeOK, CancellerType
    <2>5. QED BY <2>1, <2>2, <2>3, <2>4 DEF TypeOK
  <1>2. FlagsInv'
    BY DEF IInv, Register, RegisterCallback, ShouldRegister, TypeOK,
           ManagerType, CancellerType, OpType, FlagsInv, Active
  <1>3. TokenInv'
    BY DEF IInv, Register, RegisterCallback, ShouldRegister, TypeOK,
           ManagerType, CancellerType, OpType, FlagsInv, TokenInv, Active
  <1>4. StageInv'
    BY DEF IInv, Register, RegisterCallback, ShouldRegister, TypeOK,
           ManagerType, CancellerType, OpType, FlagsInv, TokenInv, StageInv,
           Active, Unknown, NoCallbackOnFreedOp, DeregisterContract,
           CallbackRunsOnce, Pending, Executing
  <1>5. NoCallbackOnFreedOp'
    BY DEF IInv, Register, RegisterCallback, ShouldRegister, TypeOK,
           ManagerType, CancellerType, OpType, FlagsInv, TokenInv, StageInv,
           Active, Unknown, NoCallbackOnFreedOp, DeregisterContract,
           CallbackRunsOnce, Pending, Executing
  <1>6. DeregisterContract'
    BY DEF IInv, Register, RegisterCallback, ShouldRegister, TypeOK,
           ManagerType, CancellerType, OpType, FlagsInv, TokenInv, StageInv,
           Active, Unknown, NoCallbackOnFreedOp, DeregisterContract,
           CallbackRunsOnce, Pending, Executing
  <1>7. CallbackRunsOnce'
    BY DEF IInv, Register, RegisterCallback, ShouldRegister, TypeOK,
           ManagerType, CancellerType, OpType, FlagsInv, TokenInv, StageInv,
           Active, Unknown, NoCallbackOnFreedOp, DeregisterContract,
           CallbackRunsOnce, Pending, Executing
  <1>8. QED BY <1>1, <1>2, <1>3, <1>4, <1>5, <1>6, <1>7 DEF IInv

\* Deregister preserves the inductive invariant.
LEMMA DeregisterIInv ==
    ASSUME IInv, NEW o \in Ops, Deregister(o)
    PROVE  IInv'
  <1>1. TypeOK'
    <2>1. cm' \in ManagerType
      BY DEF IInv, Deregister, DeregisterCallback, DeregisterErases, TypeOK,
             ManagerType, OpType
    <2>2. canceller' \in [Cancellers -> CancellerType]
      BY DEF IInv, Deregister, TypeOK, ManagerType, CancellerType
    <2>3. op' \in [Ops -> OpType]
      <3>1. DeregisterErases(cm) \in BOOLEAN
        BY Zenon DEF DeregisterErases
      <3>2. QED BY <3>1 DEF IInv, Deregister, TypeOK, OpType
    <2>4. invoked' \subseteq Nat
      BY DEF IInv, Deregister, TypeOK, CancellerType
    <2>5. QED BY <2>1, <2>2, <2>3, <2>4 DEF TypeOK
  <1>2. FlagsInv'
    BY DEF IInv, Deregister, DeregisterCallback, DeregisterErases,
           DeregisterMustWait, TypeOK, ManagerType, CancellerType, OpType,
           FlagsInv, Active
  <1>3. TokenInv'
    BY DEF IInv, Deregister, DeregisterCallback, DeregisterErases,
           DeregisterMustWait, TypeOK, ManagerType, CancellerType, OpType,
           FlagsInv, TokenInv, Active
  <1>4. StageInv'
    BY DEF IInv, Deregister, DeregisterCallback, DeregisterErases,
           DeregisterMustWait, TypeOK, ManagerType, CancellerType, OpType,
           FlagsInv, TokenInv, StageInv, Active, Unknown, NoCallbackOnFreedOp,
           DeregisterContract, CallbackRunsOnce, Pending, Executing
  <1>5. NoCallbackOnFreedOp'
    BY DEF IInv, Deregister, DeregisterCallback, DeregisterErases,
           DeregisterMustWait, TypeOK, ManagerType, CancellerType, OpType,
           FlagsInv, TokenInv, StageInv, Active, Unknown, NoCallbackOnFreedOp,
           DeregisterContract, CallbackRunsOnce, Pending, Executing
  <1>6. DeregisterContract'
    <2> SUFFICES ASSUME NEW p \in Ops, op'[p].pc = "freed"
                 PROVE  op'[p].erased <=> op'[p].token \notin invoked'
      BY DEF DeregisterContract
    <2>1. CASE p # o
      BY <2>1 DEF IInv, Deregister, TypeOK, OpType, DeregisterContract
    <2>2. CASE p = o
      <3>1. /\ ~DeregisterMustWait(cm)
            /\ op'[o].erased = DeregisterErases(cm)
            /\ op'[o].token = op[o].token
            /\ op[o].pc = "running"
            /\ invoked' = invoked
        BY <2>2 DEF IInv, Deregister, TypeOK, OpType
      <3>2. CASE DeregisterErases(cm)
        <4>1. op[o].token \in cm.callbacks
          BY <3>1, <3>2 DEF IInv, FlagsInv, StageInv, Active, Pending,
             Executing, DeregisterErases, CallbackRunsOnce, TypeOK, ManagerType
        <4>2. QED BY <2>2, <3>1, <3>2, <4>1 DEF IInv, CallbackRunsOnce
      <3>3. CASE ~DeregisterErases(cm)
        <4>1. op[o].token \in invoked
          BY <3>1, <3>3 DEF IInv, FlagsInv, StageInv, Active, Pending,
             Executing, DeregisterErases, DeregisterMustWait
        <4>2. QED BY <2>2, <3>1, <3>3, <4>1
      <3>4. QED BY <3>2, <3>3
    <2>3. QED BY <2>1, <2>2
  <1>7. CallbackRunsOnce'
    BY DEF IInv, Deregister, DeregisterCallback, DeregisterErases,
           DeregisterMustWait, TypeOK, ManagerType, CancellerType, OpType,
           FlagsInv, TokenInv, StageInv, Active, Unknown, NoCallbackOnFreedOp,
           DeregisterContract, CallbackRunsOnce, Pending, Executing
  <1>8. QED BY <1>1, <1>2, <1>3, <1>4, <1>5, <1>6, <1>7 DEF IInv

\* WaitForNotification preserves the inductive invariant.
LEMMA WaitForNotificationIInv ==
    ASSUME IInv, NEW o \in Ops, WaitForNotification(o)
    PROVE  IInv'
  <1>1. TypeOK'
    BY DEF IInv, WaitForNotification, TypeOK, ManagerType, CancellerType,
           OpType
  <1>2. FlagsInv'
    BY DEF IInv, WaitForNotification, TypeOK, ManagerType, CancellerType,
           OpType, FlagsInv, Active
  <1>3. TokenInv'
    BY DEF IInv, WaitForNotification, TypeOK, ManagerType, CancellerType,
           OpType, FlagsInv, TokenInv, Active
  <1>4. StageInv'
    BY DEF IInv, WaitForNotification, TypeOK, ManagerType, CancellerType,
           OpType, FlagsInv, TokenInv, StageInv, Active, Unknown,
           NoCallbackOnFreedOp, DeregisterContract, CallbackRunsOnce, Pending,
           Executing
  <1>5. NoCallbackOnFreedOp'
    BY DEF IInv, WaitForNotification, TypeOK, ManagerType, CancellerType,
           OpType, FlagsInv, TokenInv, StageInv, Active, Unknown,
           NoCallbackOnFreedOp, DeregisterContract, CallbackRunsOnce, Pending,
           Executing
  <1>6. DeregisterContract'
    BY DEF IInv, WaitForNotification, TypeOK, ManagerType, CancellerType,
           OpType, FlagsInv, TokenInv, StageInv, Active, Unknown,
           NoCallbackOnFreedOp, DeregisterContract, CallbackRunsOnce, Pending,
           Executing
  <1>7. CallbackRunsOnce'
    BY DEF IInv, WaitForNotification, TypeOK, ManagerType, CancellerType,
           OpType, FlagsInv, TokenInv, StageInv, Active, Unknown,
           NoCallbackOnFreedOp, DeregisterContract, CallbackRunsOnce, Pending,
           Executing
  <1>8. QED BY <1>1, <1>2, <1>3, <1>4, <1>5, <1>6, <1>7 DEF IInv

\* Every step of the specification preserves the inductive invariant.
LEMMA NextIInv == IInv /\ [Next]_vars => IInv'
  <1> SUFFICES ASSUME IInv, [Next]_vars PROVE IInv'
    OBVIOUS
  <1>1. ASSUME NEW t \in Cancellers, CancelStep(t) PROVE IInv'
    BY <1>1, StartCancelAgainIInv, StartCancelIInv, CallbackBeginsIInv,
       CallbackReturnsIInv, CallbacksDoneIInv, NotifyIInv DEF CancelStep
  <1>2. ASSUME NEW o \in Ops, OpStep(o) PROVE IInv'
    BY <1>2, GetTokenIInv, RegisterIInv, DeregisterIInv,
       WaitForNotificationIInv DEF OpStep
  <1>3. ASSUME UNCHANGED vars PROVE IInv'
    BY <1>3 DEF vars, IInv, TypeOK, FlagsInv, TokenInv, StageInv, Active,
       Unknown, NoCallbackOnFreedOp, DeregisterContract, CallbackRunsOnce,
       Pending, Executing
  <1>4. QED BY <1>1, <1>2, <1>3 DEF Next

\* The inductive invariant holds in every state of the manager.
LEMMA SpecIInv == Spec => []IInv
  BY InitIInv, NextIInv, PTL DEF Spec

\* The variables keep their types, whatever the numbers of threads are.
THEOREM TypeCorrect == Spec => []TypeOK
  BY SpecIInv, PTL DEF IInv

\* An operation whose DeregisterCallback has returned can be freed: no
\* callback of it is registered, waiting to run or executing.
THEOREM FreedOpIsSafe == Spec => []NoCallbackOnFreedOp
  BY SpecIInv, PTL DEF IInv

\* DeregisterCallback returns true exactly when the callback was not invoked.
THEOREM DeregisterIsTruthful == Spec => []DeregisterContract
  BY SpecIInv, PTL DEF IInv

\* However many threads call StartCancel, every callback runs at most once.
THEOREM CallbacksRunOnce == Spec => []CallbackRunsOnce
  BY SpecIInv, PTL DEF IInv

\* IsCancelled is true only when no callback is left to run.
THEOREM CancelledMeansDone == Spec => []CancelledAfterCallbacks
  <1>1. IInv => CancelledAfterCallbacks
    BY DEF IInv, FlagsInv, Active, CancelledAfterCallbacks, IsCancelled
  <1>2. QED BY SpecIInv, <1>1, PTL
=============================================================================
