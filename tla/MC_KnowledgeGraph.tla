--------------------------- MODULE MC_KnowledgeGraph ---------------------------
(***************************************************************************)
(* "agent" is mentioned by the memory agent too.  One answer gives a       *)
(* confidence in percent.                                                  *)
(***************************************************************************)
EXTENDS KnowledgeGraph

MC_Entities == {"engine", "agent", "memory agent", "store"}
MC_Mentions == {<<e, e>> : e \in MC_Entities} \cup {<<"memory agent", "agent">>}

Rel(a, b, t, p) == [from |-> a, to |-> b, type |-> t, conf |-> p]

MC_Extractions == {
  [entities |-> {<<"engine", 90>>, <<"agent", 90>>},
   relations |-> {Rel("engine", "agent", "USES", 100)}],
  [entities |-> {<<"memory agent", 80>>, <<"agent", 60>>},
   relations |-> {Rel("agent", "memory agent", "USES", 80)}],
  [entities |-> {<<"store", 90>>},
   relations |-> {Rel("memory agent", "store", "USES", 8500)}],
  [entities |-> {},
   relations |-> {Rel("engine", "store", "PART_OF", 60)}]}
================================================================================
