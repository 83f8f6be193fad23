---------------------------- MODULE MC_MemoryAccess ----------------------------
(* The text "headed" has a line that looks like the heading of a memory.       *)
EXTENDS MemoryAccess

MC_Texts == {"plain", "headed"}
MC_Pieces == [t \in MC_Texts |-> IF t = "plain" THEN <<"plain">> ELSE <<"headed", "plain">>]
MC_TextOf == [ann |-> "plain", bob |-> "headed"]
================================================================================
