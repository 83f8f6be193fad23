---------------------------- MODULE MC_Autonomy -----------------------------
(* Two concurrent cycles and one push request over two learning tasks, the *)
(* second of them more urgent.                                             *)
EXTENDS Autonomy

MCTasks == {"t1", "t2"}
MCPriority == [t \in MCTasks |-> IF t = "t2" THEN 2 ELSE 1]
=============================================================================
