---------------------------- MODULE DataflowGraph ----------------------------
(***************************************************************************)
(* A graph with conditionals and loops as the executor sees it (Node and   *)
(* Edge of core/graph/graph.h), and what a step over it should execute.    *)
(*                                                                         *)
(* A frame is named by the path that leads to it, as MakeFrameName does:   *)
(* <<>> is the root, Append(f, <<i, name>>) the frame "name" entered from  *)
(* iteration i of f.                                                       *)
(*                                                                         *)
(* The second half is independent of the executor's bookkeeping: it says   *)
(* from the meaning of the control flow nodes which instances of which     *)
(* nodes run, and which of them are dead.                                  *)
(***************************************************************************)
EXTENDS Integers, Sequences, FiniteSets, SequencesExt, FiniteSetsExt

CONSTANTS Kind,       \* per node: "Op", "Switch", "Merge", "Enter", "Exit",
                      \* "NextIteration", "ControlTrigger" or "Recv"
          Edges,      \* a sequence of edges [src, output, dst, input]; a
                      \* control edge has output = input = kControlSlot
          FrameName,  \* the attribute frame_name of each Enter, and the frame
                      \* that each Exit leaves
          IsConstant, \* the Enter nodes of loop invariants
          Subgraphs,  \* the parts of the graph that a step may need
          Feeds,      \* the possible predicates and messages of a step
          MaxDepth    \* the depth of nested loops

kControlSlot == -1

Nodes == DOMAIN Kind

EdgeType == [src : Nodes, output : Nat \cup {kControlSlot},
             dst : Nodes, input  : Nat \cup {kControlSlot}]

ASSUME GraphAssumption ==
    /\ Edges \in Seq(EdgeType)
    /\ IsConstant \subseteq {n \in Nodes : Kind[n] = "Enter"}
    /\ DOMAIN FrameName = {n \in Nodes : Kind[n] \in {"Enter", "Exit"}}
    /\ \A e \in ToSet(Edges), S \in Subgraphs : e.dst \in S => e.src \in S
    /\ \A feed \in Feeds : \E S \in Subgraphs :
          feed \in [{n \in S : Kind[n] \in {"Switch", "Recv"}} -> Nat]

IsControlEdge(e) == e.output = kControlSlot

InEdges  == [n \in Nodes |-> {e \in ToSet(Edges) : e.dst = n}]
OutEdges == [n \in Nodes |-> SelectSeq(Edges, LAMBDA e : e.src = n)]

NumInputs ==
    [n \in Nodes |-> Cardinality({e \in InEdges[n] : ~IsControlEdge(e)})]
NumControlEdges ==
    [n \in Nodes |-> Cardinality({e \in InEdges[n] : IsControlEdge(e)})]

\* The graph is pruned to what the step needs, here known by its feed.
Pruned(feed) == CHOOSE S \in Subgraphs : DOMAIN feed \subseteq S

\* root_nodes_: the nodes without inputs.
RootNodes(feed) == {n \in Pruned(feed) : InEdges[n] = {}}

IsTransferNode(n) == Kind[n] = "Recv"

\* The outputs of a kernel that has succeeded.  The predicate of a Switch n
\* holds in the first feed[n] iterations; the message of a Recv n is dead if
\* feed[n] = 0, live if it is 1 and never sent otherwise.
LiveOutputs(feed, n, iter) ==
    CASE Kind[n] = "Switch" -> {IF iter < feed[n] THEN 1 ELSE 0}
      [] Kind[n] = "Recv"   -> IF feed[n] = 1 THEN {0} ELSE {}
      [] OTHER              -> {e.output : e \in
                                   {d \in ToSet(Edges) : d.src = n}}
                                  \ {kControlSlot}

TaggedNode(n, f, i, dead) ==
    [node |-> n, frame |-> f, iter |-> i, is_dead |-> dead]

-----------------------------------------------------------------------------
(***************************************************************************)
(* The equations of a step.  ran is a set of tagged nodes; the fate of an  *)
(* instance is what ran says of it, Due is what the fates of the nodes     *)
(* before it make of it.  Each fate depends on earlier instances only, so  *)
(* the equations have one solution: the instances the step should execute. *)
(***************************************************************************)

Fate(ran, f, i, n) ==
    CASE TaggedNode(n, f, i, FALSE) \in ran -> "live"
      [] TaggedNode(n, f, i, TRUE) \in ran  -> "dead"
      [] OTHER                              -> "none"

\* The iterations and the frames that a step could enter.
Iterations(feed) == 0 .. Max({0} \cup {feed[n] : n \in DOMAIN feed})

FrameNames(feed) == {FrameName[n] : n \in DOMAIN FrameName \cap Pruned(feed)}

Frames(feed) ==
    UNION {[1 .. d -> Iterations(feed) \X FrameNames(feed)] : d \in 0 .. MaxDepth}

\* An iteration runs if it is the first one, or a value enters it.
Runs(ran, f, i) ==
    \/ i = 0
    \/ \E n \in Nodes : /\ Kind[n] = "NextIteration"
                        /\ Fate(ran, f, i - 1, n) = "live"

\* What arrives through the edge e at its destination in iteration i of f.
FromEnter(ran, f, i, e) ==
    IF /\ f # <<>>
       /\ Last(f)[2] = FrameName[e.src]
       /\ \/ i = 0
          \/ e.src \in IsConstant /\ Runs(ran, f, i)
    THEN Fate(ran, Front(f), Last(f)[1], e.src)
    ELSE "none"

FromNextIteration(ran, f, i, e) ==
    IF Fate(ran, f, i - 1, e.src) = "live" THEN "live" ELSE "none"

FromExit(ran, feed, f, i, e) ==
    LET loop  == Append(f, <<i, FrameName[e.src]>>)
        fates == {Fate(ran, loop, j, e.src) : j \in Iterations(feed)}
    IN IF "live" \in fates
       THEN "live"
       ELSE IF "dead" \in fates THEN "dead" ELSE "none"

Token(ran, feed, f, i, e) ==
    CASE Kind[e.src] = "Enter"         -> FromEnter(ran, f, i, e)
      [] Kind[e.src] = "NextIteration" -> FromNextIteration(ran, f, i, e)
      [] Kind[e.src] = "Exit"          -> FromExit(ran, feed, f, i, e)
      [] OTHER ->
            IF /\ Fate(ran, f, i, e.src) = "live"
               /\ ~IsControlEdge(e)
               /\ e.output \notin LiveOutputs(feed, e.src, i)
            THEN "dead"
            ELSE Fate(ran, f, i, e.src)

\* A Merge is live with one live input.  It is dead if all of them are, or
\* if the loop that it begins is entered dead.
DueMerge(tokens) ==
    LET data == {t \in tokens : ~IsControlEdge(t.edge)}
    IN CASE \E t \in tokens \ data : t.token = "none" -> "none"
         [] OTHER ->
            IF \E t \in data : t.token = "live"
            THEN "live"
            ELSE IF \/ \A t \in data : t.token = "dead"
                    \/ \E t \in data : /\ t.token = "dead"
                                       /\ Kind[t.edge.src] = "Enter"
                 THEN "dead"
                 ELSE "none"

\* Any other node waits for all its inputs, and is dead if one of them is.
DuePlain(n, tokens) ==
    IF \E t \in tokens : t.token = "none"
    THEN "none"
    ELSE IF Kind[n] = "ControlTrigger" \/ \A t \in tokens : t.token = "live"
         THEN "live"
         ELSE "dead"

Due(ran, feed, f, i, n) ==
    LET tokens == {[edge |-> e, token |-> Token(ran, feed, f, i, e)] :
                      e \in InEdges[n]}
    IN CASE InEdges[n] = {} ->
               IF f = <<>> /\ i = 0 /\ n \in Pruned(feed) THEN "live"
                                                       ELSE "none"
         [] InEdges[n] # {} ->
               IF Kind[n] = "Merge" THEN DueMerge(tokens)
                                    ELSE DuePlain(n, tokens)

\* Every instance in ran is due as it is.
Sound(ran, feed) ==
    \A t \in ran : Due(ran, feed, t.frame, t.iter, t.node) =
                      IF t.is_dead THEN "dead" ELSE "live"

\* Every instance that is due is in ran.
Complete(ran, feed) ==
    \A f \in Frames(feed), i \in Iterations(feed), n \in Pruned(feed) :
        Due(ran, feed, f, i, n) = Fate(ran, f, i, n)
=============================================================================
