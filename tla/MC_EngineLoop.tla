----------------------------- MODULE MC_EngineLoop -----------------------------
(* Phases with intervals as uneven as the default ones, scaled down; both      *)
(* plugins handle an action type "post".                                       *)
EXTENDS EngineLoop

MC_Phases == <<"consolidate", "learn", "push", "solve">>
MC_Interval == [consolidate |-> 3, learn |-> 2, push |-> 1, solve |-> 4]
MC_Plugins == <<"timer", "webhook">>
MC_Provides == [timer |-> {"timer", "post"}, webhook |-> {"post"}]
================================================================================
