------------------------------ MODULE MCGraphs ------------------------------
(* Compiled workflows that the runs instantiate.                           *)
EXTENDS Naturals, Sequences

None == <<>>

\* Each is one compileWorkflow accepts: one entry node, and commands or results
\* as terminal nodes.

\* Branch: command 1 feeds condition 2, whose branches are agent 3, with one
\* declared retry, and command 4, which needs an approval; they meet in join 5.
\* Command 8, which needs an approval too, and agent 9 may run beside a branch;
\* approval 6 shows what 1 wrote, after the join and 8, and result 7 publishes it.
BranchNodes == 1 .. 9
BranchType == <<"command", "condition", "agent", "command", "join", "approval", "result",
                "command", "agent">>
BranchDependsOn == <<{}, {1}, {2}, {2}, {3, 4}, {1, 5, 8}, {1, 6, 9}, {2}, {2}>>
BranchGuarded == {3, 4}
BranchGuardCondition == [n \in BranchGuarded |-> 2]
BranchGuardCase == [n \in BranchGuarded |-> IF n = 3 THEN "x" ELSE "y"]
BranchSources == <<{}, {1}, {}, {}, {}, {1}, {1}, {}, {}>>
BranchMaxAttempts == [n \in BranchNodes |-> IF n = 3 THEN 2 ELSE 0]
BranchSelect == [n \in BranchNodes |-> [v \in {"a", "b"} |-> IF v = "a" THEN "x" ELSE "y"]]
BranchValid == [n \in BranchNodes |-> {"a"}]
BranchJoinCondition == [n \in BranchNodes |-> 2]
BranchJoinBranch == [n \in BranchNodes |->
                        IF n = 5 THEN [c \in {"x", "y"} |-> IF c = "x" THEN 3 ELSE 4] ELSE None]

\* Pair: after command 1, two agents that edit files side by side, both with one
\* declared retry, and a command that needs an approval after them.
PairNodes == 1 .. 4
PairType == <<"command", "agent", "agent", "command">>
PairDependsOn == <<{}, {1}, {1}, {2, 3}>>
PairSources == <<{}, {}, {}, {}>>
PairMaxAttempts == <<0, 2, 2, 0>>
PairSelect == [n \in PairNodes |-> [v \in {"a"} |-> "x"]]
PairValid == [n \in PairNodes |-> {}]
PairJoinCondition == [n \in PairNodes |-> n]
PairJoinBranch == [n \in PairNodes |-> None]

\* Graph: command 1 feeds condition 2, whose branches end in agent 3 and in join
\* 11 and meet in join 5; result 6 publishes what 1 wrote, approval 7 shows it to
\* the operator, and command 12 ends the run.  Condition 8, with branches 9 and 10
\* and join 11, hangs on command 4 of the second branch: when 2 chooses 3, all of
\* it is omitted.
GraphNodes == 1 .. 12
GraphType == <<"command", "condition", "agent", "command", "join", "result", "approval",
               "condition", "agent", "command", "join", "command">>
GraphDependsOn == <<{}, {1}, {2}, {2}, {3, 11}, {1}, {5, 6}, {4}, {8}, {8}, {9, 10}, {7}>>
GraphGuarded == {3, 4, 9, 10}
GraphGuardCondition == [n \in GraphGuarded |-> IF n < 8 THEN 2 ELSE 8]
GraphGuardCase == [n \in GraphGuarded |-> IF n \in {3, 9} THEN "x" ELSE "y"]
GraphSources == <<{}, {1}, {}, {}, {}, {1}, {6}, {4}, {}, {}, {}, {}>>
GraphMaxAttempts == [n \in GraphNodes |-> IF n = 3 THEN 2 ELSE 0]
GraphSelect == [n \in GraphNodes |-> [v \in {"a", "b", "c"} |-> IF v = "a" THEN "x" ELSE "y"]]
GraphValid == [n \in GraphNodes |-> {"a", "b"}]
GraphJoinCondition == [n \in GraphNodes |-> IF n = 11 THEN 8 ELSE 2]
GraphJoinBranch == [n \in GraphNodes |->
                       CASE n = 5 -> [c \in {"x", "y"} |-> IF c = "x" THEN 3 ELSE 11]
                         [] n = 11 -> [c \in {"x", "y"} |-> IF c = "x" THEN 9 ELSE 10]
                         [] OTHER -> None]

\* The branches each node is in.
GraphScope == [n \in GraphNodes |->
                  (IF n \in {4, 8, 9, 10, 11} THEN {<<2, "y">>} ELSE {}) \cup
                  (CASE n = 3 -> {<<2, "x">>} [] n = 9 -> {<<8, "x">>}
                     [] n = 10 -> {<<8, "y">>} [] OTHER -> {})]

\* Crossed: conditions 2 and 3 read the same command 1.  Command 6, in a branch
\* of 2, also waits for command 4, in a branch of 3, so that the whole of 2 up to
\* its join 8 counts as that branch of 3, and 8 is its terminal in join 9.
CrossedNodes == 1 .. 10
CrossedType == <<"command", "condition", "condition", "command", "command", "command",
                 "command", "join", "join", "command">>
CrossedDependsOn == <<{}, {1}, {1}, {3}, {3}, {2, 4}, {2}, {6, 7}, {5, 8}, {9}>>
CrossedGuarded == {4, 5, 6, 7}
CrossedGuardCondition == [n \in CrossedGuarded |-> IF n < 6 THEN 3 ELSE 2]
CrossedGuardCase == [n \in CrossedGuarded |-> IF n \in {4, 6} THEN "x" ELSE "y"]
CrossedSources == <<{}, {1}, {1}, {}, {}, {}, {}, {}, {}, {}>>
CrossedMaxAttempts == [n \in CrossedNodes |-> 0]
CrossedSelect == [n \in CrossedNodes |->
                     [v \in {"a", "b", "c"} |->
                         IF v = (IF n = 2 THEN "a" ELSE "b") THEN "x" ELSE "y"]]
CrossedValid == [n \in CrossedNodes |-> {}]
CrossedJoinCondition == [n \in CrossedNodes |-> IF n = 9 THEN 3 ELSE 2]
CrossedJoinBranch == [n \in CrossedNodes |->
                         CASE n = 8 -> [c \in {"x", "y"} |-> IF c = "x" THEN 6 ELSE 7]
                           [] n = 9 -> [c \in {"x", "y"} |-> IF c = "x" THEN 8 ELSE 5]
                           [] OTHER -> None]
=============================================================================
