------------------------- MODULE MemoryEngineProofs -------------------------
(***************************************************************************)
(* Theorems about MemoryEngine, for any number of memories and of          *)
(* concurrent deduplications.  What deduplication must not do is lose a    *)
(* group of memories whole; the invariant behind it is that a memory which *)
(* is gone, though nobody forgot it, was merged under an earlier one.      *)
(* Rows only rise while no deduplication runs and no tags are awaited:     *)
(* both promotions go upwards, and what is stored anew was never there.    *)
(***************************************************************************)
EXTENDS MemoryEngine, WellFoundedInduction, TLAPS

\* A lost memory was the second of a pair that was merged.
LostWasMerged == \A m \in Lost : \E p \in merged : p[2] = m

-----------------------------------------------------------------------------

\* Every set of naturals that is not empty has a least element.
LEMMA Least ==
  ASSUME NEW X \in SUBSET Nat, X # {}
  PROVE  \E x \in X : \A y \in X : x <= y
  <1> DEFINE Less == {ss \in Nat \X Nat : ss[1] < ss[2]}
  <1>1. IsWellFoundedOn(Less, Nat)
    BY NatLessThanWellFounded DEF OpToRel
  <1> HIDE DEF Less
  <1>2. PICK x \in X : \A y \in X : ~ (<<y, x>> \in Less)
    BY <1>1, WFMin
  <1>3. \A y \in X : ~(y < x)
    BY <1>2 DEF Less
  <1> QED
    BY <1>3

\* Merged pairs are ordered, so the least of a group of lost memories has its
\* keeper outside the group.
LEMMA LeastIsCovered ==
  ASSUME TypeOK, LostWasMerged
  PROVE  CoveredBySurvivor
  <1> SUFFICES ASSUME NEW X \in SUBSET Lost, X # {}
               PROVE  \E p \in merged : p[2] \in X /\ p[1] \notin X
    BY DEF CoveredBySurvivor
  <1>1. X \in SUBSET Nat
    BY MemoriesAssumption DEF Lost, Created, Memories, MemoriesAssumption
  <1>2. PICK m \in X : \A y \in X : m <= y
    BY <1>1, Least
  <1>3. PICK p \in merged : p[2] = m
    BY DEF LostWasMerged
  <1>4. p[1] \in Nat /\ p[2] \in Nat /\ p[1] < p[2]
    BY MemoriesAssumption DEF TypeOK, Pairs, Memories, MemoriesAssumption
  <1>5. p[1] \notin X
    BY <1>2, <1>3, <1>4
  <1> QED
    BY <1>3, <1>5

-----------------------------------------------------------------------------
(* Types *)

\* A row stays a row with a new layer, a touch, or another importance.
LEMMA RowsOfRows ==
  ASSUME NEW r \in Rows
  PROVE  /\ \A l \in Layers : [r EXCEPT !.layer = l] \in Rows
         /\ \A i \in 0..One : [r EXCEPT !.importance = i] \in Rows
         /\ [r EXCEPT !.unused = TRUE] \in Rows
         /\ Touched(r) \in Rows
  <1>1. /\ r = [layer |-> r.layer, importance |-> r.importance,
                accesses |-> r.accesses, unused |-> r.unused]
        /\ r.layer \in Layers /\ r.importance \in 0..One
        /\ r.accesses \in 0..2 /\ r.unused \in BOOLEAN
    BY DEF Rows
  <1>2. (IF r.accesses < 2 THEN r.accesses + 1 ELSE 2) \in 0..2
    BY <1>1
  <1> QED
    BY <1>1, <1>2 DEF Rows, Touched

\* The row of a new memory and the blank one are rows.
LEMMA NewRows ==
  /\ Blank \in Rows
  /\ \A input \in Inputs : NewRow(input) \in Rows
  <1>1. Blank \in Rows
    BY DEF Blank, Rows, Layers, One
  <1>2. ASSUME NEW input \in Inputs PROVE NewRow(input) \in Rows
    <2>1. input.importance \in 0..One /\ input.layer \in Layers
      BY InputsAssumption DEF InputsAssumption
    <2> DEFINE importance == IF input.importance = 0 THEN 10 ELSE input.importance
    <2>2. importance \in 0..One
      BY <2>1 DEF One
    <2>3. (IF input.layer = "short_term" /\ input.importance >= ImportanceThreshold
             THEN "working" ELSE input.layer) \in Layers
      BY <2>1 DEF Layers
    <2> HIDE DEF importance
    <2>4. NewRow(input).importance = importance
      BY DEF NewRow, importance
    <2> QED
      BY <2>2, <2>3 DEF NewRow, Rows, importance
  <1> QED
    BY <1>1, <1>2

\* Moving memories to a layer keeps the table well formed.
LEMMA LayersOfRows ==
  ASSUME NEW r \in [Memories -> Rows], NEW S, NEW l \in Layers
  PROVE  WithLayer(r, S, l) \in [Memories -> Rows]
  BY RowsOfRows DEF WithLayer

ScanType == [todo : SUBSET Pairs, copy : [Memories -> Rows], dry : BOOLEAN]

\* A deduplication that has gone on, or come to its end, is a scan.
LEMMA AdvancedType ==
  ASSUME NEW s \in ScanType, NEW p, NEW copy \in [Memories -> Rows]
  PROVE  Advanced(s, p, copy) \in ScanType
  <1>1. NoScan \in ScanType
    BY NewRows DEF NoScan, ScanType
  <1>2. [s EXCEPT !.todo = @ \ {p}, !.copy = copy] \in ScanType
    BY DEF ScanType
  <1> QED
    BY <1>1, <1>2 DEF Advanced

\* What a merge keeps is a row.
LEMMA KeptType ==
  ASSUME NEW copy \in [Memories -> Rows], NEW p \in Pairs
  PROVE  [copy[p[1]] EXCEPT !.importance =
            Lesser(Greater(copy[p[1]].importance, copy[p[2]].importance) + 1, One)] \in Rows
  <1>1. p[1] \in Memories /\ p[2] \in Memories
    BY DEF Pairs
  <1>2. copy[p[1]] \in Rows /\ copy[p[2]] \in Rows
    BY <1>1
  <1>3. copy[p[1]].importance \in 0..One /\ copy[p[2]].importance \in 0..One
    BY <1>2 DEF Rows
  <1>4. Lesser(Greater(copy[p[1]].importance, copy[p[2]].importance) + 1, One) \in 0..One
    BY <1>3 DEF Lesser, Greater, One
  <1> QED
    BY <1>2, <1>4, RowsOfRows

LEMMA InitType == Init => TypeOK
  <1>1. M \in 0..M
    BY MemoriesAssumption DEF MemoriesAssumption
  <1>2. NoScan \in ScanType
    BY NewRows DEF NoScan, ScanType
  <1> QED
    BY <1>1, <1>2, NewRows DEF Init, TypeOK, ScanType

LEMMA StepType == TypeOK /\ [Next]_vars => TypeOK'
  <1> SUFFICES ASSUME TypeOK, [Next]_vars PROVE TypeOK'
    OBVIOUS
  <1>t. /\ stored \subseteq Memories
        /\ row \in [Memories -> Rows]
        /\ left \in 0..M
        /\ aged \subseteq Memories
        /\ object \in [Memories -> Rows]
        /\ tagging \subseteq Memories
        /\ consolidating \in BOOLEAN
        /\ scan \in [Dedupers -> ScanType]
        /\ merged \subseteq Pairs
        /\ forgotten \subseteq Memories
    BY DEF TypeOK, ScanType
  <1> SUFFICES /\ stored' \subseteq Memories
               /\ row' \in [Memories -> Rows]
               /\ left' \in 0..M
               /\ aged' \subseteq Memories
               /\ object' \in [Memories -> Rows]
               /\ tagging' \subseteq Memories
               /\ consolidating' \in BOOLEAN
               /\ scan' \in [Dedupers -> ScanType]
               /\ merged' \subseteq Pairs
               /\ forgotten' \subseteq Memories
    BY DEF TypeOK, ScanType
  <1>1. ASSUME NEW input \in Inputs, NEW wantsTags \in BOOLEAN, Remember(input, wantsTags)
        PROVE  /\ stored' \subseteq Memories
               /\ row' \in [Memories -> Rows]
               /\ left' \in 0..M
               /\ object' \in [Memories -> Rows]
               /\ tagging' \subseteq Memories
               /\ UNCHANGED <<aged, consolidating, scan, merged, forgotten>>
    <2>1. left \in Memories /\ left' \in 0..M
      BY <1>1, <1>t, MemoriesAssumption DEF Remember, Memories, MemoriesAssumption
    <2>2. NewRow(input) \in Rows
      BY NewRows
    <2>3. tagging' \subseteq Memories /\ object' \in [Memories -> Rows]
      <3>1. CASE wantsTags
        BY <3>1, <1>1, <1>t, <2>1, <2>2 DEF Remember
      <3>2. CASE ~wantsTags
        BY <3>2, <1>1, <1>t DEF Remember
      <3> QED
        BY <3>1, <3>2
    <2> QED
      BY <1>1, <1>t, <2>1, <2>2, <2>3 DEF Remember
  <1>2. ASSUME NEW m \in Memories, Tag(m) \/ TagFails(m)
        PROVE  /\ stored' \subseteq Memories
               /\ row' \in [Memories -> Rows]
               /\ object' \in [Memories -> Rows]
               /\ tagging' \subseteq Memories
               /\ UNCHANGED <<left, aged, consolidating, scan, merged, forgotten>>
    BY <1>2, <1>t, NewRows DEF Tag, TagFails, storeVars
  <1>3. ASSUME NEW m \in Memories, Forget(m)
        PROVE  /\ stored' \subseteq Memories
               /\ forgotten' \subseteq Memories
               /\ UNCHANGED <<row, left, aged, object, tagging, consolidating, scan, merged>>
    BY <1>3, <1>t DEF Forget
  <1>4. ASSUME NEW S \in SUBSET Memories, Recall(S)
        PROVE  /\ row' \in [Memories -> Rows]
               /\ UNCHANGED <<stored, left, aged, object, tagging, consolidating, scan, merged, forgotten>>
    BY <1>4, <1>t, RowsOfRows DEF Recall
  <1>5. ASSUME DaysPass \/ WeekPasses
        PROVE  /\ row' \in [Memories -> Rows]
               /\ aged' \subseteq Memories
               /\ UNCHANGED <<stored, left, object, tagging, consolidating, scan, merged, forgotten>>
    BY <1>5, <1>t, RowsOfRows DEF DaysPass, WeekPasses, storeVars, Created
  <1>6. ASSUME Promote
        PROVE  /\ row' \in [Memories -> Rows]
               /\ consolidating' \in BOOLEAN
               /\ UNCHANGED <<stored, left, aged, object, tagging, scan, merged, forgotten>>
    <2> DEFINE toWorking == {m \in ByLayer("short_term", row) : row[m].importance >= ImportanceThreshold}
               promoted == WithLayer(row, toWorking, "working")
               toLong == {m \in ByLayer("working", promoted) : Stable(m, promoted)}
    <2>1. promoted \in [Memories -> Rows]
      BY <1>t, LayersOfRows DEF Layers
    <2>2. WithLayer(promoted, toLong, "long_term") \in [Memories -> Rows]
      <3> HIDE DEF promoted, toLong
      <3> QED
        BY <2>1, LayersOfRows DEF Layers
    <2> QED
      BY <1>6, <1>t, <2>2 DEF Promote
  <1>7. ASSUME ForgetDecayed
        PROVE  /\ stored' \subseteq Memories
               /\ consolidating' \in BOOLEAN
               /\ forgotten' \subseteq Memories
               /\ UNCHANGED <<row, left, aged, object, tagging, scan, merged>>
    BY <1>7, <1>t DEF ForgetDecayed, Stale
  <1>8. ASSUME NEW d \in Dedupers, NEW dry \in BOOLEAN, Deduplicate(d, dry)
        PROVE  /\ scan' \in [Dedupers -> ScanType]
               /\ UNCHANGED <<storeVars, left, aged, object, tagging, consolidating, merged, forgotten>>
    <2> DEFINE todo == {p \in Pairs : \E l \in Layers : {p[1], p[2]} \subseteq ByLayer(l, row)}
    <2>1. [todo |-> todo, copy |-> row, dry |-> dry] \in ScanType
      BY <1>t DEF ScanType
    <2>2. scan' = [scan EXCEPT ![d] = [todo |-> todo, copy |-> row, dry |-> dry]]
      BY <1>8 DEF Deduplicate
    <2>3. scan' \in [Dedupers -> ScanType]
      <3> HIDE DEF todo
      <3> QED
        BY <1>t, <2>1, <2>2
    <2> QED
      BY <1>8, <2>3 DEF Deduplicate
  <1>9. ASSUME NEW d \in Dedupers, NEW p \in scan[d].todo, Leave(d, p)
        PROVE  /\ scan' \in [Dedupers -> ScanType]
               /\ UNCHANGED <<storeVars, left, aged, object, tagging, consolidating, merged, forgotten>>
    <2>1. scan[d] \in ScanType /\ scan[d].copy \in [Memories -> Rows]
      BY <1>t DEF ScanType
    <2>2. Advanced(scan[d], p, scan[d].copy) \in ScanType
      BY <2>1, AdvancedType
    <2> QED
      BY <1>9, <1>t, <2>2 DEF Leave
  <1>10. ASSUME NEW d \in Dedupers, NEW p \in scan[d].todo, Merge(d, p)
         PROVE  /\ stored' \subseteq Memories
                /\ row' \in [Memories -> Rows]
                /\ scan' \in [Dedupers -> ScanType]
                /\ merged' \subseteq Pairs
                /\ UNCHANGED <<left, aged, object, tagging, consolidating, forgotten>>
    <2> DEFINE copy == scan[d].copy
               kept == [copy[p[1]] EXCEPT !.importance =
                          Lesser(Greater(copy[p[1]].importance, copy[p[2]].importance) + 1, One)]
    <2>1. scan[d] \in ScanType /\ copy \in [Memories -> Rows] /\ p \in Pairs
      BY <1>t DEF ScanType
    <2>2. kept \in Rows
      BY <2>1, KeptType
    <2>3. p[1] \in Memories
      BY <2>1 DEF Pairs
    <2>4. /\ row' = [row EXCEPT ![p[1]] = kept]
          /\ stored' = (stored \cup {p[1]}) \ {p[2]}
          /\ scan' = [scan EXCEPT ![d] = Advanced(@, p, [copy EXCEPT ![p[1]] = kept])]
          /\ merged' = merged \cup {p}
          /\ UNCHANGED <<left, aged, object, tagging, consolidating, forgotten>>
      BY <1>10 DEF Merge
    <2> HIDE DEF kept, copy
    <2>5. Advanced(scan[d], p, [copy EXCEPT ![p[1]] = kept]) \in ScanType
      BY <2>1, <2>2, AdvancedType
    <2> QED
      BY <1>t, <2>1, <2>2, <2>3, <2>4, <2>5
  <1>11. ASSUME Crash
         PROVE  /\ object' \in [Memories -> Rows]
                /\ tagging' \subseteq Memories
                /\ consolidating' \in BOOLEAN
                /\ scan' \in [Dedupers -> ScanType]
                /\ UNCHANGED <<storeVars, left, aged, merged, forgotten>>
    <2>1. NoScan \in ScanType
      BY NewRows DEF NoScan, ScanType
    <2> QED
      BY <1>11, <2>1, NewRows DEF Crash
  <1>12. CASE UNCHANGED vars
    BY <1>12, <1>t DEF vars, storeVars
  <1> QED
    BY <1>t, <1>1, <1>2, <1>3, <1>4, <1>5, <1>6, <1>7, <1>8, <1>9, <1>10, <1>11, <1>12
       DEF Next, Consolidation, Deduplication, storeVars

-----------------------------------------------------------------------------
(* Nothing is lost *)

\* Every memory that leaves the store leaves it forgotten or merged under another.
LEMMA StepLost == TypeOK /\ LostWasMerged /\ [Next]_vars => LostWasMerged'
  <1> SUFFICES ASSUME TypeOK, LostWasMerged, [Next]_vars PROVE LostWasMerged'
    OBVIOUS
  <1>t. left \in Nat /\ M \in Nat /\ Memories \subseteq Nat
    BY MemoriesAssumption DEF TypeOK, Memories, MemoriesAssumption
  <1>1. ASSUME merged \subseteq merged', Lost' \subseteq Lost
        PROVE  LostWasMerged'
    BY <1>1 DEF LostWasMerged
  <1>2. CASE \E input \in Inputs, wantsTags \in BOOLEAN : Remember(input, wantsTags)
    <2>1. merged' = merged /\ forgotten' = forgotten
          /\ stored' = stored \cup {left} /\ left' = left - 1
      BY <1>2 DEF Remember
    <2>2. \A m \in Memories : m > left' => m = left \/ m > left
      BY <2>1, <1>t
    <2> QED
      BY <1>1, <2>1, <2>2 DEF Lost, Created
  <1>3. CASE \E m \in Memories : Tag(m) \/ TagFails(m)
    <2>1. /\ UNCHANGED <<left, merged, forgotten>>
          /\ stored \subseteq stored'
      BY <1>3 DEF Tag, TagFails, storeVars
    <2> QED
      BY <1>1, <2>1 DEF Lost, Created
  <1>4. CASE (\E m \in Memories : Forget(m)) \/ ForgetDecayed
    <2>1. /\ UNCHANGED <<left, merged>>
          /\ stored \cup forgotten \subseteq stored' \cup forgotten'
      BY <1>4 DEF Forget, ForgetDecayed, Stale
    <2> QED
      BY <1>1, <2>1 DEF Lost, Created
  <1>5. CASE \/ \E S \in SUBSET Memories : Recall(S)
             \/ DaysPass \/ WeekPasses \/ Promote \/ Crash \/ UNCHANGED vars
    <2>1. UNCHANGED <<left, stored, merged, forgotten>>
      BY <1>5 DEF Recall, DaysPass, WeekPasses, Promote, Crash, vars, storeVars
    <2> QED
      BY <1>1, <2>1 DEF Lost, Created
  <1>6. CASE \E d \in Dedupers : (\E dry \in BOOLEAN : Deduplicate(d, dry))
                               \/ \E p \in scan[d].todo : Leave(d, p)
    <2>1. UNCHANGED <<left, stored, merged, forgotten>>
      BY <1>6 DEF Deduplicate, Leave, storeVars
    <2> QED
      BY <1>1, <2>1 DEF Lost, Created
  <1>7. CASE \E d \in Dedupers : \E p \in scan[d].todo : Merge(d, p)
    <2>1. PICK d \in Dedupers : \E p \in scan[d].todo : Merge(d, p)
      BY <1>7
    <2>2. PICK p \in scan[d].todo : Merge(d, p)
      BY <2>1
    <2>3. /\ UNCHANGED <<left, forgotten>>
          /\ stored' = (stored \cup {p[1]}) \ {p[2]}
          /\ merged' = merged \cup {p}
      BY <2>2 DEF Merge
    <2>4. Lost' \subseteq Lost \cup {p[2]}
      BY <2>3 DEF Lost, Created
    <2> QED
      BY <2>3, <2>4 DEF LostWasMerged
  <1> QED
    BY <1>2, <1>3, <1>4, <1>5, <1>6, <1>7 DEF Next, Consolidation, Deduplication

LEMMA InitLost == Init => LostWasMerged
  <1>1. Init => Created = {}
    BY MemoriesAssumption DEF Init, Created, Memories, MemoriesAssumption
  <1> QED
    BY <1>1 DEF LostWasMerged, Lost

\* The store, remember's own objects and every deduplication's copies and pairs
\* keep their types, whatever is interleaved.
THEOREM MemoryTypes == Spec => []TypeOK
  BY InitType, StepType, PTL DEF Spec

\* Whatever runs beside it (other deduplications with their own old copies, late
\* tags, forgetting, a crash in the middle), deduplicate never deletes a group of
\* memories whole: each is covered by a memory merged over it.
THEOREM NothingLostUncovered == Spec => []CoveredBySurvivor
  <1>1. Init => TypeOK /\ LostWasMerged
    BY InitType, InitLost
  <1>2. (TypeOK /\ LostWasMerged) /\ [Next]_vars => (TypeOK /\ LostWasMerged)'
    BY StepType, StepLost
  <1>3. TypeOK /\ LostWasMerged => CoveredBySurvivor
    BY LeastIsCovered
  <1> QED
    BY <1>1, <1>2, <1>3, PTL DEF Spec
-----------------------------------------------------------------------------
(* Rows only rise *)

\* Only memories that were created are stored, await tags or are compared.
Known == \A m \in Memories :
  \/ m > left
  \/ m \notin stored /\ m \notin tagging /\ \A d \in Dedupers : \A p \in scan[d].todo : p[1] # m

\* What a deduplication compares at its start is stored, and then only less of it.
LEMMA TodoIsKnown ==
  ASSUME NEW d \in Dedupers, NEW p \in scan[d].todo, scan \in [Dedupers -> ScanType],
         Leave(d, p) \/ Merge(d, p)
  PROVE  \A e \in Dedupers : scan'[e].todo \subseteq scan[e].todo
  <1>1. \A copy : Advanced(scan[d], p, copy).todo \subseteq scan[d].todo
    BY DEF Advanced, NoScan, ScanType
  <1>2. \E copy : scan' = [scan EXCEPT ![d] = Advanced(scan[d], p, copy)]
    BY DEF Leave, Merge
  <1> QED
    BY <1>1, <1>2

LEMMA StepKnown == TypeOK /\ Known /\ [Next]_vars => Known'
  <1> SUFFICES ASSUME TypeOK, Known, [Next]_vars PROVE Known'
    OBVIOUS
  <1>t. left \in Nat /\ M \in Nat /\ Memories \subseteq Nat /\ scan \in [Dedupers -> ScanType]
    BY MemoriesAssumption DEF TypeOK, Memories, MemoriesAssumption, ScanType
  <1>1. ASSUME left' = left, stored' \subseteq stored, tagging' \subseteq tagging,
               \A d \in Dedupers : scan'[d].todo \subseteq scan[d].todo
        PROVE  Known'
    BY <1>1 DEF Known
  <1>2. CASE \E input \in Inputs, wantsTags \in BOOLEAN : Remember(input, wantsTags)
    <2>1. /\ left' = left - 1 /\ stored' = stored \cup {left}
          /\ tagging' \subseteq tagging \cup {left} /\ scan' = scan
      BY <1>2 DEF Remember
    <2>2. \A m \in Memories : ~(m > left') => ~(m > left) /\ m # left
      BY <2>1, <1>t
    <2> QED
      BY <2>1, <2>2 DEF Known
  <1>3. ASSUME NEW m \in Memories, Tag(m)
        PROVE  Known'
    <2>1. m > left
      BY <1>3 DEF Known, Tag
    <2> QED
      BY <1>3, <2>1 DEF Known, Tag
  <1>4. CASE (\E m \in Memories : TagFails(m) \/ Forget(m)) \/ ForgetDecayed
             \/ (\E S \in SUBSET Memories : Recall(S)) \/ DaysPass \/ WeekPasses \/ Promote
             \/ UNCHANGED vars
    BY <1>1, <1>4 DEF TagFails, Forget, ForgetDecayed, Recall, DaysPass, WeekPasses, Promote,
                      storeVars, vars
  <1>5. CASE Crash
    BY <1>1, <1>5 DEF Crash, NoScan, storeVars
  <1>6. ASSUME NEW d \in Dedupers, NEW dry \in BOOLEAN, Deduplicate(d, dry)
        PROVE  Known'
    <2> DEFINE todo == {p \in Pairs : \E l \in Layers : {p[1], p[2]} \subseteq ByLayer(l, row)}
    <2>1. \A p \in todo : p[1] \in stored
      BY DEF ByLayer
    <2>2. /\ scan' = [scan EXCEPT ![d] = [todo |-> todo, copy |-> row, dry |-> dry]]
          /\ UNCHANGED <<stored, left, tagging>>
      BY <1>6 DEF Deduplicate, storeVars
    <2> HIDE DEF todo
    <2>3. \A e \in Dedupers : \A p \in scan'[e].todo : p \in scan[e].todo \/ p[1] \in stored
      BY <1>t, <2>1, <2>2
    <2> QED
      BY <2>2, <2>3 DEF Known
  <1>7. ASSUME NEW d \in Dedupers, NEW p \in scan[d].todo, Leave(d, p) \/ Merge(d, p)
        PROVE  Known'
    <2>1. \A e \in Dedupers : scan'[e].todo \subseteq scan[e].todo
      BY <1>7, <1>t, TodoIsKnown
    <2>2. p[1] \in Memories
      BY <1>t DEF ScanType, Pairs
    <2>3. UNCHANGED <<left, tagging>> /\ stored' \subseteq stored \cup {p[1]}
      BY <1>7 DEF Leave, Merge, storeVars
    <2>4. p[1] > left
      BY <2>2 DEF Known
    <2> QED
      BY <2>1, <2>3, <2>4 DEF Known
  <1> QED
    BY <1>2, <1>3, <1>4, <1>5, <1>6, <1>7 DEF Next, Consolidation, Deduplication

\* Of a stored memory: its row after a step has everything at least where it was.
Rises(m) ==
  /\ Rank(row'[m].layer) >= Rank(row[m].layer)
  /\ row'[m].importance >= row[m].importance
  /\ row'[m].accesses >= row[m].accesses

LEMMA SameRowRises ==
  ASSUME row \in [Memories -> Rows], NEW m \in Memories,
         row'[m].layer = row[m].layer, row'[m].importance = row[m].importance,
         row'[m].accesses >= row[m].accesses
  PROVE  Rises(m)
  <1>1. Rank(row[m].layer) \in Nat /\ row[m].importance \in Nat
    BY DEF Rows, Rank, Layers, One
  <1> QED
    BY <1>1 DEF Rises

\* Both promotions take a memory one layer up, from the layer they read it in.
LEMMA PromoteRaises ==
  ASSUME row \in [Memories -> Rows], Promote, NEW m \in Memories
  PROVE  Rises(m)
  <1> DEFINE toWorking == {k \in ByLayer("short_term", row) : row[k].importance >= ImportanceThreshold}
             promoted == WithLayer(row, toWorking, "working")
             toLong == {k \in ByLayer("working", promoted) : Stable(k, promoted)}
  <1>1. row' = WithLayer(promoted, toLong, "long_term")
    BY DEF Promote
  <1>2. row[m] \in Rows /\ row[m].importance \in Nat /\ row[m].accesses \in Nat
    BY DEF Rows, One
  <1>3. m \in toWorking => row[m].layer = "short_term"
    BY DEF ByLayer
  <1>4. m \in toLong => promoted[m].layer = "working"
    BY DEF ByLayer
  <1>5. promoted[m] = IF m \in toWorking THEN [row[m] EXCEPT !.layer = "working"] ELSE row[m]
    BY DEF WithLayer
  <1> HIDE DEF toWorking, promoted, toLong
  <1>6. row'[m] = IF m \in toLong THEN [promoted[m] EXCEPT !.layer = "long_term"] ELSE promoted[m]
    BY <1>1 DEF WithLayer
  <1>7. /\ row'[m].importance = row[m].importance /\ row'[m].accesses = row[m].accesses
        /\ row'[m].layer = IF m \in toLong THEN "long_term"
                           ELSE IF m \in toWorking THEN "working" ELSE row[m].layer
    BY <1>2, <1>5, <1>6 DEF Rows
  <1>8. m \in toLong => row[m].layer \in {"short_term", "working"}
    BY <1>2, <1>3, <1>4, <1>5 DEF Rows
  <1>9. row[m].layer \in Layers
    BY <1>2 DEF Rows
  <1>10. Rank(row'[m].layer) >= Rank(row[m].layer)
    BY <1>3, <1>7, <1>8, <1>9 DEF Rank, Layers
  <1> QED
    BY <1>2, <1>7, <1>10 DEF Rises

\* While nothing saves an old copy (no tags awaited, no deduplication), recalling,
\* consolidating and time leave every stored memory where it is or raise it, and a
\* memory that was deleted stays so.
THEOREM RisesWhenQuiet == Spec => RowsOnlyRise
  <1>1. ASSUME TypeOK, Known, Next, tagging = {}, \A d \in Dedupers : scan[d].todo = {}
        PROVE  /\ \A m \in stored \cap stored' : Rises(m)
               /\ \A m \in Memories \ stored : m > left => m \notin stored'
    <2>t. /\ left \in Nat /\ Memories \subseteq Nat /\ stored \subseteq Memories
          /\ row \in [Memories -> Rows]
      BY <1>1, MemoriesAssumption DEF TypeOK, Memories, MemoriesAssumption
    <2>a. \A m \in Memories : row[m].accesses \in 0..2
      BY <2>t DEF Rows
    <2>1. ASSUME row' = row, stored' \subseteq stored
          PROVE  /\ \A m \in stored \cap stored' : Rises(m)
                 /\ \A m \in Memories \ stored : m > left => m \notin stored'
      BY <2>1, <2>t, <2>a, SameRowRises
    <2>2. ASSUME NEW input \in Inputs, NEW wantsTags \in BOOLEAN, Remember(input, wantsTags)
          PROVE  /\ \A m \in stored \cap stored' : Rises(m)
                 /\ \A m \in Memories \ stored : m > left => m \notin stored'
      <3>1. row' = [row EXCEPT ![left] = NewRow(input)] /\ stored' = stored \cup {left}
        BY <2>2 DEF Remember
      <3>2. left \notin stored
        BY <1>1, <2>t DEF Known
      <3>3. \A m \in stored : row'[m] = row[m]
        BY <2>t, <3>1, <3>2
      <3>4. \A m \in stored : Rises(m)
        BY <2>t, <2>a, <3>3, SameRowRises
      <3> QED
        BY <2>t, <3>1, <3>4
    <2>3. ASSUME NEW S \in SUBSET Memories, Recall(S)
          PROVE  stored' = stored /\ \A m \in stored : Rises(m)
      <3>1. stored' = stored /\ row' = [m \in Memories |-> IF m \in S THEN Touched(row[m]) ELSE row[m]]
        BY <2>3 DEF Recall
      <3>2. ASSUME NEW m \in stored
            PROVE  /\ row'[m].layer = row[m].layer /\ row'[m].importance = row[m].importance
                   /\ row'[m].accesses >= row[m].accesses
        <4>1. m \in Memories /\ row[m] \in Rows /\ row[m].accesses \in 0..2
          BY <2>t, <2>a
        <4>2. row'[m] = row[m] \/ row'[m] = Touched(row[m])
          BY <3>1, <4>1
        <4>3. /\ Touched(row[m]).layer = row[m].layer
              /\ Touched(row[m]).importance = row[m].importance
              /\ Touched(row[m]).accesses = IF row[m].accesses < 2 THEN row[m].accesses + 1 ELSE 2
          BY <4>1 DEF Touched, Rows
        <4> QED
          BY <4>1, <4>2, <4>3
      <3> QED
        BY <2>t, <3>1, <3>2, SameRowRises
    <2>4. ASSUME WeekPasses
          PROVE  stored' = stored /\ \A m \in stored : Rises(m)
      <3>1. /\ stored' = stored
            /\ row' = [m \in Memories |->
                         IF m \in stored THEN [row[m] EXCEPT !.unused = TRUE] ELSE row[m]]
        BY <2>4 DEF WeekPasses
      <3>2. ASSUME NEW m \in stored
            PROVE  /\ row'[m].layer = row[m].layer /\ row'[m].importance = row[m].importance
                   /\ row'[m].accesses >= row[m].accesses
        <4>1. m \in Memories /\ row[m] \in Rows /\ row[m].accesses \in 0..2
          BY <2>t, <2>a
        <4> QED
          BY <3>1, <4>1 DEF Rows
      <3> QED
        BY <2>t, <3>1, <3>2, SameRowRises
    <2>5. ASSUME Promote
          PROVE  stored' = stored /\ \A m \in stored : Rises(m)
      BY <2>5, <2>t, PromoteRaises DEF Promote
    <2>6. CASE (\E m \in Memories : Tag(m) \/ TagFails(m) \/ Forget(m)) \/ DaysPass \/ ForgetDecayed
               \/ Crash \/ (\E d \in Dedupers, dry \in BOOLEAN : Deduplicate(d, dry))
      BY <1>1, <2>1, <2>6
         DEF Tag, TagFails, Forget, DaysPass, ForgetDecayed, Crash, Deduplicate, storeVars
    <2> QED
      BY <1>1, <2>2, <2>3, <2>4, <2>5, <2>6 DEF Next, Consolidation, Deduplication
  <1>2. (TypeOK /\ Known) /\ [Next]_vars =>
          [tagging = {} /\ (\A d \in Dedupers : scan[d].todo = {}) =>
             /\ \A m \in stored \cap stored' :
                  /\ Rank(row'[m].layer) >= Rank(row[m].layer)
                  /\ row'[m].importance >= row[m].importance
                  /\ row'[m].accesses >= row[m].accesses
             /\ \A m \in Memories \ stored : m > left => m \notin stored']_vars
    BY <1>1 DEF Rises
  <1>3. Init => TypeOK /\ Known
    BY InitType DEF Init, Known, NoScan
  <1>4. (TypeOK /\ Known) /\ [Next]_vars => (TypeOK /\ Known)'
    BY StepType, StepKnown
  <1> QED
    BY <1>2, <1>3, <1>4, PTL DEF Spec, RowsOnlyRise
=============================================================================
