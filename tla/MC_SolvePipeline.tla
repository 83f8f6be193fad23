-------------------------- MODULE MC_SolvePipeline --------------------------
(* Plans of three steps that differ where solve_goal's loop does.  The     *)
(* first has a chain, a fan-in, a number past the end and a dangerous      *)
(* shell command; the others a forward dependency, a step that depends on  *)
(* itself, a handler's command that would be dangerous in the shell, a     *)
(* number below -N beside one that is completed and one that may not be.   *)
EXTENDS SolvePipeline

APlan(deps, type, dangerous) ==
  [deps |-> [s \in Steps |-> deps[s]], type |-> type,
   dangerous |-> [s \in Steps |-> s \in dangerous]]

MCPlans ==
  { APlan(<<{}, {1}, {1, 2, 4}>>, <<"git", "file_write", "shell">>, {3}),
    APlan(<<{2}, {}, {3}>>, <<"shell", "python", "shell">>, {2}),
    APlan(<<{}, {1}, {0, 1, 2}>>, <<"shell", "api_call", "other">>, {}) }

(* full_auto is semi_auto to solve_goal: only the executor's configured mode *)
(* tells them apart, and that is a policy here.                              *)
MCModes == ModeNames \ {"full_auto"}

MCPolicies == {"refuse", "ask"}
=============================================================================
