----------------------------- MODULE MCFIFOQueue -----------------------------
(* FIFOQueue for TLC: who uses which manager, and what may be asked for. *)
EXTENDS FIFOQueue, TLC

CONSTANTS o1, o2, o3, o4, m1, m2, m3

\* DirectSession gives every step the session's one manager.
OneManager == [o \in Ops |-> m1]

\* A worker gives every step a manager of its own.
OwnManagers == [o \in Ops |-> CASE o = o1 -> m1 [] o = o2 -> m2 [] OTHER -> m3]

Req(k, n) == [kind |-> k, n |-> n]

AllRequests == {Req("enqueue", 0), Req("enqueue", 2),
                Req("dequeue", 1), Req("dequeue_many", 3),
                Req("dequeue_up_to", 3), Req("close", 0),
                Req("close_cancel", 0)}

SomeRequests == {Req("enqueue", 2), Req("dequeue", 1), Req("dequeue_many", 3),
                 Req("dequeue_up_to", 3), Req("close", 0)}

OpSymmetry == Permutations(Ops)
=============================================================================
