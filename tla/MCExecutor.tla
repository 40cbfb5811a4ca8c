----------------------------- MODULE MCExecutor ------------------------------
(* Executor for TLC: the graphs. *)
EXTENDS Executor

Data(src, output, dst, input) ==
    [src |-> src, output |-> output, dst |-> dst, input |-> input]
Control(src, dst) == Data(src, kControlSlot, dst, kControlSlot)

\* A conditional whose branches join in a Merge that also waits for a
\* received message, and a ControlTrigger after both branches.
CondKind == [x |-> "Op", recv |-> "Recv", switch |-> "Switch", then |-> "Op",
             else |-> "Op", merge |-> "Merge", trigger |-> "ControlTrigger",
             sink |-> "Op"]
CondEdges == <<Data("x", 0, "switch", 0),
               Data("switch", 1, "then", 0), Data("switch", 0, "else", 0),
               Data("then", 0, "merge", 0), Data("else", 0, "merge", 1),
               Control("recv", "merge"),
               Control("then", "trigger"), Control("else", "trigger"),
               Control("merge", "sink"), Control("trigger", "sink"),
               Data("recv", 0, "sink", 0)>>
CondFeeds == {[switch |-> p, recv |-> m] : p \in 0 .. 1, m \in 0 .. 2}

\* A loop over two variables, i and j, and an invariant c: i counts, j uses
\* the invariant, both stop together.
LoopKind ==
    [i0 |-> "Op", c0 |-> "Op",
     enter_i |-> "Enter", enter_j |-> "Enter", enter_c |-> "Enter",
     merge_i |-> "Merge", merge_j |-> "Merge",
     switch_i |-> "Switch", switch_j |-> "Switch",
     body_j |-> "Op",
     next_i |-> "NextIteration", next_j |-> "NextIteration",
     exit_i |-> "Exit", exit_j |-> "Exit", total |-> "Op"]
LoopEdges ==
    <<Data("i0", 0, "enter_i", 0), Data("i0", 0, "enter_j", 0),
      Data("c0", 0, "enter_c", 0),
      Data("enter_i", 0, "merge_i", 0), Data("next_i", 0, "merge_i", 1),
      Data("enter_j", 0, "merge_j", 0), Data("next_j", 0, "merge_j", 1),
      Data("merge_i", 0, "switch_i", 0),
      Data("merge_j", 0, "switch_j", 0), Control("merge_i", "switch_j"),
      Data("switch_i", 1, "next_i", 0), Data("switch_i", 0, "exit_i", 0),
      Data("switch_j", 1, "body_j", 0), Data("enter_c", 0, "body_j", 1),
      Data("body_j", 0, "next_j", 0), Data("switch_j", 0, "exit_j", 0),
      Data("exit_i", 0, "total", 0), Data("exit_j", 0, "total", 1)>>
LoopFrames == [n \in {"enter_i", "enter_j", "enter_c", "exit_i", "exit_j"} |->
                  "loop"]
LoopFeeds == {[n \in {"switch_i", "switch_j"} |-> trips] : trips \in {0, 3}}

\* A loop in one branch of a conditional, and a loop in its body: the outer
\* loop counts without waiting for the inner one, whose body uses a value
\* of the outer iteration.
NestKind ==
    [y |-> "Op", switch_y |-> "Switch",
     enter_o |-> "Enter", merge_o |-> "Merge", switch_o |-> "Switch",
     next_o |-> "NextIteration", exit_o |-> "Exit",
     enter_k |-> "Enter", enter_m |-> "Enter", merge_k |-> "Merge",
     switch_k |-> "Switch", body_k |-> "Op", next_k |-> "NextIteration",
     exit_k |-> "Exit", use |-> "Op", join |-> "Merge"]
NestEdges ==
    <<Data("y", 0, "switch_y", 0), Data("switch_y", 1, "enter_o", 0),
      Data("enter_o", 0, "merge_o", 0), Data("next_o", 0, "merge_o", 1),
      Data("merge_o", 0, "switch_o", 0),
      Data("switch_o", 1, "next_o", 0), Data("switch_o", 0, "exit_o", 0),
      Data("switch_o", 1, "enter_k", 0), Data("switch_o", 1, "enter_m", 0),
      Data("enter_k", 0, "merge_k", 0), Data("next_k", 0, "merge_k", 1),
      Data("merge_k", 0, "switch_k", 0),
      Data("switch_k", 1, "body_k", 0), Data("enter_m", 0, "body_k", 1),
      Data("body_k", 0, "next_k", 0), Data("switch_k", 0, "exit_k", 0),
      Data("exit_k", 0, "use", 0),
      Data("exit_o", 0, "join", 0), Data("switch_y", 0, "join", 1)>>
NestFrames ==
    [n \in {"enter_o", "exit_o"} |-> "outer"] @@
    [n \in {"enter_k", "enter_m", "exit_k"} |-> "inner"]
NestFeeds == {[switch_y |-> p, switch_o |-> 2, switch_k |-> k] :
                 p \in 0 .. 1, k \in 0 .. 1}

\* A step runs one of the three.
AllKind      == CondKind @@ LoopKind @@ NestKind
AllEdges     == CondEdges \o LoopEdges \o NestEdges
AllFrames    == LoopFrames @@ NestFrames
AllSubgraphs == {DOMAIN CondKind, DOMAIN LoopKind, DOMAIN NestKind}
AllFeeds     == CondFeeds \cup LoopFeeds \cup NestFeeds
AllParallel  == "loop" :> 2 @@ "outer" :> 2 @@ "inner" :> 1

\* A loop in a conditional, followed by a ControlTrigger.
TriggerKind ==
    [x |-> "Op", switch_p |-> "Switch",
     enter |-> "Enter", merge |-> "Merge", switch |-> "Switch",
     next |-> "NextIteration", exit |-> "Exit", trigger |-> "ControlTrigger"]
TriggerEdges ==
    <<Data("x", 0, "switch_p", 0), Data("switch_p", 1, "enter", 0),
      Data("enter", 0, "merge", 0), Data("next", 0, "merge", 1),
      Data("merge", 0, "switch", 0), Data("switch", 1, "next", 0),
      Data("switch", 0, "exit", 0), Control("exit", "trigger")>>
TriggerFrames == [n \in {"enter", "exit"} |-> "loop"]
TriggerSubgraphs == {DOMAIN TriggerKind}
TriggerParallel == "loop" :> 2
TriggerFeeds == {[switch_p |-> p, switch |-> 1] : p \in 0 .. 1}
=============================================================================
