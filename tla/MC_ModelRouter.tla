--------------------------- MODULE MC_ModelRouter ---------------------------
(* Small instances of ModelRouter: the primary provider and its fallbacks  *)
(* of lower weight, as _setup_providers builds them from a configuration.  *)
EXTENDS ModelRouter

MCWeight == [p \in 1..N |-> IF p = 1 THEN 3 ELSE 1]
=============================================================================
