---------------------------- MODULE AbstractQueue ----------------------------
(***************************************************************************)
(* What a queue of core/framework/queue_interface.h promises, without      *)
(* attempts, threads, locks or managers: elements are added at one end of  *)
(* a sequence while it is open and leave it, in order, at the other.       *)
(***************************************************************************)
EXTENDS Sequences, Naturals

VARIABLES contents,   \* the elements inside
          closed,
          removed     \* the elements that have left, oldest first

absVars == <<contents, closed, removed>>

Init == /\ contents = <<>>
        /\ closed = FALSE
        /\ removed = <<>>

\* Elements are appended, never inserted, and never to a closed queue.
Enqueue == /\ ~closed
           /\ Len(contents') > Len(contents)
           /\ SubSeq(contents', 1, Len(contents)) = contents
           /\ UNCHANGED <<closed, removed>>

\* The oldest elements leave, handed over or dropped with their batch.
Remove == \E n \in 1..Len(contents) :
              /\ removed' = removed \o SubSeq(contents, 1, n)
              /\ contents' = SubSeq(contents, n + 1, Len(contents))
              /\ UNCHANGED closed

Close == /\ ~closed
         /\ closed' = TRUE
         /\ UNCHANGED <<contents, removed>>

Next == Enqueue \/ Remove \/ Close

Spec == Init /\ [][Next]_absVars
=============================================================================
