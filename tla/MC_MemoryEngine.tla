--------------------------- MODULE MC_MemoryEngine --------------------------
(* Two scenarios.  In "few", two memories of the kinds the thresholds tell  *)
(* apart (weak enough to be forgotten; just below the promotion out of     *)
(* short_term, over which only a merge lifts it; important enough to start *)
(* in working) go through everything.  In "many", two deduplications run   *)
(* at once over three memories that the user stored as long-term knowledge *)
(* and may forget.                                                         *)
EXTENDS MemoryEngine

VARIABLE scenario

AnInput(importance, layer) == [importance |-> importance, layer |-> layer]

MCInputs == {AnInput(5, "short_term"), AnInput(11, "short_term"), AnInput(13, "short_term"),
             AnInput(20, "long_term")}
MCDedupers == {"d1", "d2"}
MCOneDeduper == {"d1"}

MCInit == Init /\ scenario \in {"few", "many"}

\* Memories 3 and 2, both in the layer where a merge may bring them together.
Few ==
  /\ left' \in 1..M
  /\ left' < left => row'[left].layer # "long_term"
  /\ left' = 1 /\ left = 2 =>
       {row'[2].importance, row'[3].importance} \in {{5, 11}, {13}}
  /\ \A d \in Dedupers \ MCOneDeduper : scan'[d] = NoScan

Many ==
  /\ tagging' = {} /\ aged' = {} /\ ~consolidating'
  /\ left' < left => row'[left].layer = "long_term"
  /\ \A m \in Memories : row'[m].accesses = 0

MCNext ==
  /\ Next
  /\ \/ scenario = "few" /\ Few
     \/ scenario = "many" /\ Many
  /\ UNCHANGED scenario

MCConsolidation == scenario = "few" /\ Consolidation /\ UNCHANGED scenario

MCFairSpec ==
  MCInit /\ [][MCNext]_<<vars, scenario>> /\ WF_<<vars, scenario>>(MCConsolidation)
=============================================================================
