--------------------------- MODULE MCDirectSession ---------------------------
EXTENDS DirectSession, TLC

CONSTANTS r1, r2, p1, train, part, a, b, x, y, z, reset, owner

\* Two Runs of one signature and one partial run.
MCSignature == r1 :> train @@ r2 :> train @@ p1 :> part

\* The partial run has two feeds and two fetches, one computed from each.
MCFeeds == train :> {} @@ part :> {a, b}
MCFetches == train :> {z} @@ part :> {x, y}
MCNeeds == x :> {a} @@ y :> {b} @@ z :> {}

\* Feeding and fetching one after the other, at once, one side only, or in an
\* order in which the fetch cannot be computed.
MCCalls ==
    {[feeds |-> {a}, fetches |-> {x}], [feeds |-> {b}, fetches |-> {y}],
     [feeds |-> {a, b}, fetches |-> {x, y}], [feeds |-> {b}, fetches |-> {x}],
     [feeds |-> {a}, fetches |-> {}], [feeds |-> {}, fetches |-> {x}]}

\* A Run and a partial run: the partial run waits for elements that the Run
\* enqueues, without a timeout; or both wait for elements nobody enqueues, with
\* one.  Two Runs of one signature that wait for nothing.
MCOptions ==
    {[callers |-> {r1, p1, reset, owner}, operation_timeout |-> FALSE,
      waits |-> {part}, fills |-> {train}],
     [callers |-> {r1, p1, owner}, operation_timeout |-> TRUE,
      waits |-> {train, part}, fills |-> {}],
     [callers |-> {r1, r2, reset, owner}, operation_timeout |-> FALSE,
      waits |-> {}, fills |-> {}]}
=============================================================================
