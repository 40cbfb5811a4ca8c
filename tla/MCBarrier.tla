------------------------------ MODULE MCBarrier ------------------------------
EXTENDS Barrier, TLC

CONSTANTS i1, i2, i3, t1, t2, c1, c2, k1, k2

Insert(ks, j) == [keys |-> ks, component |-> j]
Take(n, small) == [n |-> n, small |-> small]

First == i1 :> Insert(<<k1, k2>>, 1)
Second == i2 :> Insert(<<k1, k2>>, 2)
Closed(x) == c1 :> [cancel |-> x]

\* The second components one by one, a take of a small batch and a Close.
SmallBatch == First @@ i2 :> Insert(<<k1>>, 2) @@ i3 :> Insert(<<k2>>, 2)
                @@ t1 :> Take(2, TRUE) @@ Closed(FALSE)

\* Both components of two keys, and: two takes and a Close of either kind; the
\* small batch; two Closes; two takes and no Close; a third insert that makes the second one
\* fail, or fails itself, and a take; one that names a key twice.
MCRequests ==
    {First @@ Second @@ t1 :> Take(1, FALSE) @@ t2 :> Take(2, TRUE)
       @@ Closed(x) : x \in BOOLEAN}
    \cup {SmallBatch}
    \cup {First @@ Second @@ Closed(x) @@ c2 :> [cancel |-> TRUE] :
            x \in BOOLEAN}
    \cup {First @@ Second @@ t1 :> Take(1, FALSE) @@ t2 :> Take(2, FALSE)}
    \cup {First @@ Second @@ i3 :> Insert(<<k2>>, 2) @@ t1 :> Take(1, FALSE)}
    \cup {First @@ i2 :> Insert(<<k1, k1>>, 2) @@ i3 :> Insert(<<k1>>, 1)
            @@ t1 :> Take(2, FALSE) @@ Closed(TRUE)}

MCSmallBatch == {SmallBatch}
MCPlainClose == {First @@ Second @@ t1 :> Take(1, FALSE) @@ Closed(FALSE)}
=============================================================================
